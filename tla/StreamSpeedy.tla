---------------------------- MODULE StreamSpeedy ----------------------------
(***************************************************************************)
(* pspeedy of streamcluster on pthreads, called several times in a row by    *)
(* the same threads.  Thread 0 walks over the points and decides which to    *)
(* open as centers; the others wait for an opened center, update the points  *)
(* of their block and meet thread 0 at two barriers, until the walk is over. *)
(* The shared variables are static: they survive from call to call.          *)
(*                                                                         *)
(* What a thread has done to the costs of its block is the sequence of the   *)
(* centers it has compared its points with (seen).                           *)
(***************************************************************************)
EXTENDS Integers, Sequences, FiniteSets

CONSTANTS nproc, num,  \* threads and points
          Calls        \* calls of pspeedy

SpeedyAssumption == nproc \in Nat \ {0} /\ num \in Nat \ {0} /\ Calls \in Nat \ {0}

Pid == 0..(nproc - 1)

VARIABLES at,        \* what each thread does next
          bar,       \* barriers each thread has arrived at
          call,      \* the call each thread is in
          i, open, kcenter,  \* shared
          costs,     \* the array of shares: allocated or not, which are stored
          totalcost, \* the call whose costs it sums up
          opened,    \* the centers of the call, in order
          seen,      \* the centers each thread's block has been compared with
          returned   \* what each call returned to each thread

vars == <<at, bar, call, i, open, kcenter, costs, totalcost, opened, seen, returned>>

Places == {"enter", "reset", "begin", "cond", "asleep", "test", "work", "between",
           "decide", "set", "broadcast", "own", "close", "next",
           "share", "sum", "leave", "done"}

TypeOK == /\ at \in [Pid -> Places]
          /\ bar \in [Pid -> Nat] /\ call \in [Pid -> 1..(Calls + 1)]
          /\ i \in 0..num /\ open \in BOOLEAN /\ kcenter \in 0..num
          /\ costs \in [there : BOOLEAN, of : SUBSET Pid]
          /\ totalcost \in 0..Calls
          /\ opened \in Seq(0..(num - 1)) /\ seen \in [Pid -> Seq(0..(num - 1))]
          /\ returned \in [Pid -> [1..Calls -> 0..Calls]]

Init == /\ at = [p \in Pid |-> "enter"]
        /\ bar = [p \in Pid |-> 0] /\ call = [p \in Pid |-> 1]
        /\ i = 0 /\ open = FALSE /\ kcenter = 0
        /\ costs = [there |-> FALSE, of |-> {}] /\ totalcost = 0
        /\ opened = <<>> /\ seen = [p \in Pid |-> <<>>]
        /\ returned = [p \in Pid |-> [c \in 1..Calls |-> 0]]

\* pthread_barrier_wait: arrive on the way to a place, leave when all have
\* arrived as often.
Arrive(p, place) == /\ at' = [at EXCEPT ![p] = place]
                    /\ bar' = [bar EXCEPT ![p] = @ + 1]
Passed(p) == \A q \in Pid : bar[q] >= bar[p]
Go(p, place) == at' = [at EXCEPT ![p] = place] /\ UNCHANGED bar

Compare(p, c) == seen' = [seen EXCEPT ![p] = Append(@, c)]

Enter(p) == /\ at[p] = "enter"
            /\ Arrive(p, "reset")
            /\ UNCHANGED <<call, i, open, kcenter, costs, totalcost, opened, seen, returned>>

\* "create center at first point, send it to itself"
Reset(p) == /\ at[p] = "reset" /\ Passed(p)
            /\ seen' = [seen EXCEPT ![p] = <<0>>]
            /\ IF p = 0
               THEN kcenter' = 1 /\ costs' = [there |-> TRUE, of |-> {}] /\ opened' = <<0>>
               ELSE UNCHANGED <<kcenter, costs, opened>>
            /\ Arrive(p, "begin")
            /\ UNCHANGED <<call, i, open, totalcost, returned>>

Begin(p) == /\ at[p] = "begin" /\ Passed(p)
            /\ IF p = 0 THEN i' = 1 /\ Go(p, "decide")
                        ELSE Go(p, "cond") /\ UNCHANGED i
            /\ UNCHANGED <<call, open, kcenter, costs, totalcost, opened, seen, returned>>

-----------------------------------------------------------------------------
\* The threads other than 0.

\* pthread_cond_wait in its loop, the mutex held at the test.
TestOpen(p) == /\ at[p] = "cond"
               /\ Go(p, IF open THEN "test" ELSE "asleep")
               /\ UNCHANGED <<call, i, open, kcenter, costs, totalcost, opened, seen, returned>>

Spurious(p) == /\ at[p] = "asleep"
               /\ Go(p, "cond")
               /\ UNCHANGED <<call, i, open, kcenter, costs, totalcost, opened, seen, returned>>

TestEnd(p) == /\ at[p] = "test"
              /\ IF i >= num THEN Arrive(p, "share") ELSE Go(p, "work")
              /\ UNCHANGED <<call, i, open, kcenter, costs, totalcost, opened, seen, returned>>

Work(p) == /\ at[p] = "work"
           /\ Compare(p, i)
           /\ Arrive(p, "between")
           /\ UNCHANGED <<call, i, open, kcenter, costs, totalcost, opened, returned>>

\* The first of the two barriers is behind, the second ahead.
Between(p) == /\ at[p] = "between" /\ Passed(p)
              /\ Arrive(p, "next")
              /\ UNCHANGED <<call, i, open, kcenter, costs, totalcost, opened, seen, returned>>

Again(p) == /\ p # 0 /\ at[p] = "next" /\ Passed(p)
            /\ Go(p, "cond")
            /\ UNCHANGED <<call, i, open, kcenter, costs, totalcost, opened, seen, returned>>

Follower(p) == /\ p # 0
               /\ \/ TestOpen(p) \/ TestEnd(p) \/ Work(p) \/ Between(p) \/ Again(p)

-----------------------------------------------------------------------------
\* Thread 0.

\* The random test of point i against its cost; after the last point, the end.
Decide == /\ at[0] = "decide"
          /\ \/ /\ i < num /\ i' = i + 1
                /\ UNCHANGED <<at, bar, kcenter, opened>>
             \/ /\ i < num
                /\ kcenter' = kcenter + 1 /\ opened' = Append(opened, i)
                /\ Go(0, "set") /\ UNCHANGED i
             \/ /\ i >= num
                /\ Go(0, "set") /\ UNCHANGED <<i, kcenter, opened>>
          /\ UNCHANGED <<call, open, costs, totalcost, seen, returned>>

SetOpen == /\ at[0] = "set"
           /\ open' = TRUE
           /\ Go(0, "broadcast")
           /\ UNCHANGED <<call, i, kcenter, costs, totalcost, opened, seen, returned>>

\* Seeded fault: the end is signalled to one thread only.
BroadcastOne ==
    /\ at[0] = "broadcast"
    /\ \E p \in {q \in Pid : at[q] = "asleep"} \cup {0} :
         /\ p = 0 => \A q \in Pid : at[q] # "asleep"
         /\ LET woken == [at EXCEPT ![p] = "cond"]
            IN IF i >= num
               THEN /\ at' = [woken EXCEPT ![0] = "share"]
                    /\ bar' = [bar EXCEPT ![0] = @ + 1]
               ELSE /\ at' = [woken EXCEPT ![0] = "own"] /\ UNCHANGED bar
    /\ UNCHANGED <<call, i, open, kcenter, costs, totalcost, opened, seen, returned>>

\* pthread_cond_broadcast, then its own block or the end.
Broadcast ==
    /\ at[0] = "broadcast"
    /\ LET woken == [p \in Pid |-> IF at[p] = "asleep" THEN "cond" ELSE at[p]]
       IN IF i >= num
          THEN /\ at' = [woken EXCEPT ![0] = "share"]
               /\ bar' = [bar EXCEPT ![0] = @ + 1]
          ELSE /\ at' = [woken EXCEPT ![0] = "own"] /\ UNCHANGED bar
    /\ UNCHANGED <<call, i, open, kcenter, costs, totalcost, opened, seen, returned>>

Own == /\ at[0] = "own"
       /\ Compare(0, i)
       /\ Arrive(0, "close")
       /\ UNCHANGED <<call, i, open, kcenter, costs, totalcost, opened, returned>>

Close == /\ at[0] = "close" /\ Passed(0)
         /\ open' = FALSE
         /\ Arrive(0, "next")
         /\ UNCHANGED <<call, i, kcenter, costs, totalcost, opened, seen, returned>>

NextPoint == /\ at[0] = "next" /\ Passed(0)
             /\ i' = i + 1
             /\ Go(0, "decide")
             /\ UNCHANGED <<call, open, kcenter, costs, totalcost, opened, seen, returned>>

Master == Decide \/ SetOpen \/ Broadcast \/ Own \/ Close \/ NextPoint

-----------------------------------------------------------------------------
\* All threads: their share of the cost, and its sum.

Share(p) == /\ at[p] = "share" /\ Passed(p)
            /\ open' = FALSE
            /\ costs' = [costs EXCEPT !.of = @ \cup {p}]
            /\ Arrive(p, "sum")
            /\ UNCHANGED <<call, i, kcenter, totalcost, opened, seen, returned>>

Sum(p) == /\ at[p] = "sum" /\ Passed(p)
          /\ IF p = 0 THEN totalcost' = call[p] /\ costs' = [costs EXCEPT !.there = FALSE]
                      ELSE UNCHANGED <<totalcost, costs>>
          /\ Arrive(p, "leave")
          /\ UNCHANGED <<call, i, open, kcenter, opened, seen, returned>>

Leave(p) == /\ at[p] = "leave" /\ Passed(p)
            /\ returned' = [returned EXCEPT ![p][call[p]] = totalcost]
            /\ call' = [call EXCEPT ![p] = @ + 1]
            /\ Go(p, IF call[p] = Calls THEN "done" ELSE "enter")
            /\ UNCHANGED <<i, open, kcenter, costs, totalcost, opened, seen>>

Common(p) == Enter(p) \/ Reset(p) \/ Begin(p) \/ Share(p) \/ Sum(p) \/ Leave(p)

Step(p) == Common(p) \/ Follower(p) \/ (p = 0 /\ Master)

Next == \E p \in Pid : Step(p) \/ Spurious(p)

Spec == Init /\ [][Next]_vars /\ \A p \in Pid : WF_vars(Step(p))

-----------------------------------------------------------------------------
\* Thread 0 decides on point i with a cost that takes every center opened so
\* far into account, whichever thread's block the point is in.
DecidesOnFreshCosts == at[0] = "decide" => \A p \in Pid : seen[p] = opened

\* When the shares are summed up each block has been compared with exactly the
\* opened centers, in the order of opening, and kcenter counts them.
SameCenters ==
    \A p \in Pid : at[p] \in {"share", "sum", "leave"} =>
                       seen[p] = opened /\ kcenter = Len(opened)

\* The array of shares is complete when it is summed up and there while a
\* thread stores into it.
SharesComplete ==
    /\ (at[0] = "sum" /\ Passed(0)) => costs = [there |-> TRUE, of |-> Pid]
    /\ \A p \in Pid : (at[p] = "share" /\ Passed(p)) => costs.there

\* Each call returns its own total, to all threads the same.
OwnTotal == \A p \in Pid, c \in 1..Calls : c < call[p] => returned[p][c] = c

\* No thread is left at the condition or at a barrier.
Returned == \A p \in Pid : at[p] = "done"
=============================================================================
