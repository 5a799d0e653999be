---------------------------- MODULE StreamMedian ----------------------------
(***************************************************************************)
(* streamCluster, localSearch and pkmedian of streamcluster on pthreads:     *)
(* chunk after chunk of points is searched by nproc threads that all run the *)
(* same bisection.  Nobody tells a thread which way to go: each decides for  *)
(* itself from the shared k and gain, and they had better agree, for they    *)
(* meet at barriers.                                                        *)
(*                                                                         *)
(* pspeedy and pgain (modules StreamSpeedy and StreamGain) appear with the   *)
(* barriers between which they write k: any of Counts may come out of them.  *)
(* Of the barriers that follow each other without a write between them one   *)
(* is kept, and pFL considers one candidate per round.                       *)
(***************************************************************************)
EXTENDS Integers, Sequences, FiniteSets

CONSTANTS nproc,
          Chunks,     \* how many chunks the stream has
          chunksize,  \* points of every chunk but the last
          Sizes,      \* points the last one may have
          kmin, kmax, \* bounds on the number of centers
          centersize, \* room for the centers of all chunks
          Counts,     \* numbers of centers that may come out
          SP,         \* repetitions of pspeedy
          MaxSpeedy,  \* bound: this many calls of pspeedy find kmin centers
          MaxGains,   \* bound: this many rounds of pFL save anything
          MaxSteps    \* bound: this many steps of the bisection, then stuck

MedianAssumption ==
    /\ nproc \in Nat \ {0} /\ Chunks \in Nat /\ chunksize \in Nat
    /\ Sizes \subseteq 0..chunksize
    /\ kmin \in Nat /\ kmax \in Nat /\ kmin <= kmax /\ centersize \in Nat
    /\ Counts \subseteq Nat \ {0} /\ \E c \in Counts : kmin <= c /\ c <= kmax
    /\ SP \in Nat \ {0} /\ MaxSpeedy \in Nat /\ MaxGains \in Nat /\ MaxSteps \in Nat

Pid == 0..(nproc - 1)

VARIABLES main, chunk, num, centers,  \* streamCluster: the search under way
          at, bar,              \* each thread
          k, gain, hizs, feasible, kfinal,  \* shared by the threads
          i, steps, change,     \* local to each: repetitions, bisections, gain
          sped, gained          \* calls of pspeedy, rounds of pFL that saved

vars == <<main, chunk, num, centers, at, bar, k, gain, hizs, feasible, kfinal,
          i, steps, change, sped, gained>>
stream == <<main, chunk, num, centers>>
local == <<i, steps, change>>
shared == <<k, gain, hizs, feasible, kfinal>>
bounds == <<sped, gained>>

TypeOK == /\ main \in {"search", "copy", "end", "full"}
          /\ chunk \in 1..(Chunks + 1) /\ num \in Nat /\ centers \in Nat
          /\ bar \in [Pid -> Nat]
          /\ k \in Counts \cup {0, 1} /\ gain \in {0, 1}
          /\ hizs \in [there : BOOLEAN, of : SUBSET Pid]
          /\ feasible \in BOOLEAN /\ kfinal \in Nat
          /\ i \in [Pid -> 0..SP] /\ steps \in [Pid -> 0..(MaxSteps + 1)]
          /\ change \in [Pid -> {0, 1}]

\* read: only the last chunk may be short.
NumRead(c) == IF c = Chunks THEN Sizes ELSE {chunksize}

NoHizs == [there |-> FALSE, of |-> {}]

Init == /\ main = "search" /\ chunk = 1 /\ num \in NumRead(1) /\ centers = 0
        /\ at = [p \in Pid |-> "start"] /\ bar = [p \in Pid |-> 0]
        /\ k = 0 /\ gain = 0 /\ hizs = NoHizs /\ feasible = FALSE
        /\ kfinal \in {0, num}   \* not initialised
        /\ i = [p \in Pid |-> 0] /\ steps = [p \in Pid |-> 0] /\ change = [p \in Pid |-> 0]
        /\ sped = 0 /\ gained = 0

Arrive(p, place) == /\ at' = [at EXCEPT ![p] = place]
                    /\ bar' = [bar EXCEPT ![p] = @ + 1]
Go(p, place) == at' = [at EXCEPT ![p] = place] /\ UNCHANGED bar
Passed(p) == \A q \in Pid : bar[q] >= bar[p]

-----------------------------------------------------------------------------
\* The distances from the first point.

Start(p) == /\ at[p] = "start"
            /\ hizs' = IF p = 0 THEN [there |-> TRUE, of |-> {}] ELSE hizs
            /\ Arrive(p, "store")
            /\ UNCHANGED <<stream, k, gain, feasible, kfinal, local, bounds>>

Store(p) == /\ at[p] = "store" /\ Passed(p)
            /\ hizs' = [hizs EXCEPT !.of = @ \cup {p}]
            /\ Arrive(p, "sum")
            /\ UNCHANGED <<stream, k, gain, feasible, kfinal, local, bounds>>

\* Each thread adds up all shares; with few points all of them are centers.
SumHizs(p) == /\ at[p] = "sum" /\ Passed(p)
              /\ i' = [i EXCEPT ![p] = 0]
              /\ IF num <= kmax THEN Go(p, "few") ELSE Arrive(p, "speedy")
              /\ UNCHANGED <<stream, shared, steps, change, bounds>>

Few(p) == /\ at[p] = "few"
          /\ IF p = 0 THEN hizs' = NoHizs /\ kfinal' = k ELSE UNCHANGED <<hizs, kfinal>>
          /\ Go(p, "done")
          /\ UNCHANGED <<stream, k, gain, feasible, local, bounds>>

-----------------------------------------------------------------------------
\* pspeedy, and the loops around it.

Outcomes == {c \in Counts : c <= num}

SpeedyReset(p) == /\ at[p] = "speedy" /\ Passed(p)
                  /\ k' = IF p = 0 THEN 1 ELSE k
                  /\ Arrive(p, "open")
                  /\ UNCHANGED <<stream, gain, hizs, feasible, kfinal, local, bounds>>

SpeedyOpen(p) ==
    /\ at[p] = "open" /\ Passed(p)
    /\ IF p = 0
       THEN /\ k' \in {c \in Outcomes : sped >= MaxSpeedy => kmin <= c}
            /\ sped' = IF sped < MaxSpeedy THEN sped + 1 ELSE sped
       ELSE UNCHANGED <<k, sped>>
    /\ Arrive(p, "count")
    /\ UNCHANGED <<stream, gain, hizs, feasible, kfinal, local, gained>>

\* Lines 2006-2017: again while there are too few centers, bisecting after
\* every SP tries (i runs from 0 to SP in both loops).
Count(p) ==
    /\ at[p] = "count" /\ Passed(p)
    /\ \/ /\ k < kmin
          /\ i' = [i EXCEPT ![p] = IF @ >= SP THEN 1 ELSE @ + 1]
          /\ Arrive(p, "speedy")
       \/ /\ k >= kmin
          /\ Go(p, "select") /\ UNCHANGED i
    /\ UNCHANGED <<stream, shared, steps, change, bounds>>

\* selectfeasible_fast and is_center.
Select(p) == /\ at[p] = "select"
             /\ feasible' = IF p = 0 THEN TRUE ELSE feasible
             /\ Arrive(p, "rough")
             /\ UNCHANGED <<stream, k, gain, hizs, kfinal, local, bounds>>

-----------------------------------------------------------------------------
\* pFL: the rough estimate, and the accurate one if k is near.

\* A round of pFL while the last one saved enough (the first always runs).
RoundOf(p, name) == /\ change' = [change EXCEPT ![p] = 1]
                    /\ Go(p, name)

Enter(p) == \/ /\ at[p] = "rough" /\ Passed(p) /\ RoundOf(p, "roughRound")
               /\ UNCHANGED <<stream, shared, i, steps, bounds>>
            \/ /\ at[p] = "fine" /\ Passed(p) /\ RoundOf(p, "fineRound")
               /\ UNCHANGED <<stream, shared, i, steps, bounds>>

Gain(p) == IF at[p] = "roughRound" THEN "roughGain" ELSE "fineGain"

\* "continue until we run iter iterations without improvement": thread 0
\* shuffles feasible, all go into pgain.
Round(p) == /\ at[p] \in {"roughRound", "fineRound"} /\ change[p] = 1
            /\ Arrive(p, Gain(p))
            /\ UNCHANGED <<stream, shared, local, bounds>>

\* pgain between its barriers: k and what is saved.
pgain(p) ==
    /\ at[p] \in {"roughGain", "fineGain"} /\ Passed(p)
    /\ IF p = 0
       THEN /\ k' \in Outcomes /\ gain' \in IF gained < MaxGains THEN {0, 1} ELSE {0}
            /\ (gain' = 0 => k' = k) /\ gained' = gained + gain'
       ELSE UNCHANGED <<k, gain, gained>>
    /\ Arrive(p, IF at[p] = "roughGain" THEN "roughSaved" ELSE "fineSaved")
    /\ UNCHANGED <<stream, hizs, feasible, kfinal, local, sped>>

\* Seeded fault: pgain returns what the thread itself knows.
SavedOwn(p) ==
    /\ at[p] \in {"roughSaved", "fineSaved"} /\ Passed(p)
    /\ change' = [change EXCEPT ![p] = IF p = 0 THEN gain ELSE 0]
    /\ Arrive(p, IF at[p] = "roughSaved" THEN "roughEnd" ELSE "fineEnd")
    /\ UNCHANGED <<stream, shared, i, steps, bounds>>

\* Its result, and the barrier at the end of the round.
Saved(p) ==
    /\ at[p] \in {"roughSaved", "fineSaved"} /\ Passed(p)
    /\ change' = [change EXCEPT ![p] = gain]
    /\ Arrive(p, IF at[p] = "roughSaved" THEN "roughEnd" ELSE "fineEnd")
    /\ UNCHANGED <<stream, shared, i, steps, bounds>>

RoundEnd(p) ==
    /\ at[p] \in {"roughEnd", "fineEnd"} /\ Passed(p)
    /\ Go(p, IF at[p] = "roughEnd" THEN "roughRound" ELSE "fineRound")
    /\ UNCHANGED <<stream, shared, local, bounds>>

Near == \/ 10 * k <= 11 * kmax /\ 10 * k >= 9 * kmin
        \/ k <= kmax + 2 /\ k >= kmin - 2

RoughDone(p) == /\ at[p] = "roughRound" /\ change[p] = 0
                /\ IF Near THEN Arrive(p, "fine") ELSE Go(p, "bisect")
                /\ UNCHANGED <<stream, shared, local, bounds>>

FineDone(p) == /\ at[p] = "fineRound" /\ change[p] = 0
               /\ Go(p, "bisect")
               /\ UNCHANGED <<stream, shared, local, bounds>>

\* Lines 2052-2079: move the facility cost, and stop when k is good or the
\* bisection is stuck; thread 0 cleans up.
Bisect(p) ==
    /\ at[p] = "bisect"
    /\ LET good == kmin <= k /\ k <= kmax
           stuck == steps[p] + 1 >= MaxSteps
       IN /\ steps' = IF good THEN steps ELSE [steps EXCEPT ![p] = @ + 1]
          /\ IF good \/ stuck
             THEN /\ Go(p, "done")
                  /\ IF p = 0 THEN hizs' = NoHizs /\ feasible' = FALSE /\ kfinal' = k
                              ELSE UNCHANGED <<hizs, feasible, kfinal>>
             ELSE Arrive(p, "rough") /\ UNCHANGED <<hizs, feasible, kfinal>>
    /\ UNCHANGED <<stream, k, gain, i, change, bounds>>

Thread(p) == \/ Start(p) \/ Store(p) \/ SumHizs(p) \/ Few(p)
             \/ SpeedyReset(p) \/ SpeedyOpen(p) \/ Count(p) \/ Select(p)
             \/ Enter(p) \/ Round(p) \/ pgain(p) \/ Saved(p) \/ RoundEnd(p)
             \/ RoughDone(p) \/ FineDone(p) \/ Bisect(p)

-----------------------------------------------------------------------------
\* streamCluster.

\* How many centers the search has really left.
Found == IF num <= kmax THEN num ELSE k

\* The threads are joined; the room for the centers is checked and they are
\* copied, but for the search among the centers themselves at the end.
Join == /\ main = "search" /\ \A p \in Pid : at[p] = "done"
        /\ main' = IF chunk = Chunks + 1 THEN "end"
                   ELSE IF kfinal + centers > centersize THEN "full" ELSE "copy"
        /\ UNCHANGED <<chunk, num, centers, at, bar, shared, local, bounds>>

\* copycenters, and the threads of the next search.
Copy == /\ main = "copy"
        /\ main' = "search"
        /\ centers' = centers + Found
        /\ chunk' = chunk + 1
        /\ num' \in IF chunk = Chunks THEN {centers'} ELSE NumRead(chunk + 1)
        /\ at' = [p \in Pid |-> "start"] /\ bar' = [p \in Pid |-> 0]
        /\ steps' = [p \in Pid |-> 0] /\ sped' = 0 /\ gained' = 0
        /\ UNCHANGED <<shared, i, change>>

Next == Join \/ Copy \/ \E p \in Pid : Thread(p)

Spec == /\ Init /\ [][Next]_vars
        /\ WF_vars(Join \/ Copy) /\ \A p \in Pid : WF_vars(Thread(p))

-----------------------------------------------------------------------------
\* The threads agree: two of them at the same barrier came to it at the same
\* place of the program, with the same number of bisections behind them.
Lockstep ==
    \A p, q \in Pid :
        (bar[p] = bar[q] /\ ~Passed(p) /\ ~Passed(q)) =>
            at[p] = at[q] /\ steps[p] = steps[q] /\ i[p] = i[q]

\* What thread 0 frees is not needed any more: the shares are there, and
\* complete, when a thread adds them up, and the candidates while a thread
\* is in a round of pFL.
SharedAlive ==
    \A p \in Pid : /\ (at[p] = "sum" /\ Passed(p)) => hizs = [there |-> TRUE, of |-> Pid]
                   /\ at[p] \in {"roughGain", "fineGain"} => feasible

\* All threads end a search with the same answer, and it is k.
SameAnswer ==
    (main = "search" /\ \A p \in Pid : at[p] = "done") =>
        /\ \A p, q \in Pid : steps[p] = steps[q]
        /\ num > kmax => kfinal = k

\* The stream comes to its end, or there is no more room.
Ended == main \in {"end", "full"}
\* "oops! no more space for centers" (streamcluster.cpp:2389) is said before
\* there are more centers than room.
RoomIsChecked == centers <= centersize

\* "just return all points as facilities" (streamcluster.cpp:1988): then there
\* are as many of them as there are points.
AllPointsCounted ==
    (main = "search" /\ num <= kmax /\ \A p \in Pid : at[p] = "done") => kfinal = num
=============================================================================
