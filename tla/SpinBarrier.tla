---------------------------- MODULE SpinBarrier ----------------------------
(***************************************************************************)
(* The non-blocking barrier of FastFlow (barrier.hpp, spinBarrier) as the   *)
(* spin-waiting parallel loop uses it (parallel_for_internals.hpp): the     *)
(* caller sets the barrier up for the workers of the next loop and itself,  *)
(* wakes the workers, and meets them at the barrier when the loop is over.  *)
(* Consecutive barriers use the two counters B in turn.  A step is one      *)
(* access to a shared variable.                                             *)
(***************************************************************************)
EXTENDS Integers, Sequences, FiniteSets

CONSTANTS
  MaxWorkers,   \* workers the object was built with
  Sizes,        \* numbers of workers the caller asks for
  MaxLoops      \* bound: loops the caller runs

SizesAssumption ==
  MaxWorkers \in Nat \ {0} /\ Sizes \subseteq 1 .. MaxWorkers /\ MaxLoops \in Nat

Workers == 0 .. MaxWorkers - 1

\* Threads are known to the barrier by a number; the caller's is the number of
\* workers of the current loop.
Caller == MaxWorkers
Threads == Workers \cup {Caller}

VARIABLES
  _barrier,   \* threads that meet
  barArray,   \* per number: which counter was used last
  B,          \* the counters
  nw, loops,  \* the current loop
  inbox,      \* wake-ups waiting in each worker's channel: the loop's number
  pc,         \* where each thread is
  w,          \* locals of doBarrier: counter used, value read, loop
  arrived,    \* history: the threads that came to the barrier of each loop
  left        \* history: the last loop whose barrier each thread has left

vars == <<_barrier, barArray, B, nw, loops, inbox, pc, w, arrived, left>>

tid(t) == IF t = Caller THEN nw ELSE t

Party(n) == {i \in Workers : i < n} \cup {Caller}

\* barArray and B hold anything until the first barrierSetup.
Init ==
  /\ _barrier = 0
  /\ barArray \in [0 .. MaxWorkers -> BOOLEAN]
  /\ B \in [BOOLEAN -> {0, MaxWorkers + 2}]
  /\ nw = 0 /\ loops = 0
  /\ inbox = [i \in Workers |-> <<>>]
  /\ pc = [t \in Threads |-> IF t = Caller THEN "setup" ELSE "idle"]
  /\ w = [t \in Threads |-> [bar |-> FALSE, c |-> 0, loop |-> 0]]
  /\ arrived = [k \in 1 .. MaxLoops |-> {}]
  /\ left = [t \in Threads |-> 0]

\* A barrier for a different number of threads starts from scratch.
barrierSetup(init) ==
  IF init = _barrier THEN UNCHANGED <<_barrier, barArray, B>>
  ELSE /\ _barrier' = init
       /\ barArray' = [i \in 0 .. MaxWorkers |-> IF i < init THEN FALSE ELSE barArray[i]]
       /\ B' = [b \in BOOLEAN |-> 0]

\* run_then_freeze of a loop with n workers: barrierSetup and sendWakeUp.
run_then_freeze(n) ==
  /\ pc[Caller] = "setup" /\ loops < MaxLoops
  /\ barrierSetup(n + 1)
  /\ nw' = n /\ loops' = loops + 1
  /\ inbox' = [i \in Workers |-> IF i < n THEN Append(inbox[i], loops') ELSE inbox[i]]
  /\ pc' = [pc EXCEPT ![Caller] = "toggle"]
  /\ w' = [w EXCEPT ![Caller].loop = loops']
  /\ UNCHANGED <<arrived, left>>

\* A worker takes the wake-up and runs its part of the loop.
Work(i) ==
  /\ pc[i] = "idle" /\ inbox[i] # <<>>
  /\ w' = [w EXCEPT ![i].loop = Head(inbox[i])]
  /\ inbox' = [inbox EXCEPT ![i] = Tail(@)]
  /\ pc' = [pc EXCEPT ![i] = "toggle"]
  /\ UNCHANGED <<_barrier, barArray, B, nw, loops, arrived, left>>

\* doBarrier: the other counter than last time.
Toggle(t) ==
  /\ pc[t] = "toggle"
  /\ barArray' = [barArray EXCEPT ![tid(t)] = ~@]
  /\ w' = [w EXCEPT ![t].bar = ~barArray[tid(t)]]
  /\ pc' = [pc EXCEPT ![t] = "count"]
  /\ UNCHANGED <<_barrier, B, nw, loops, inbox, arrived, left>>

\* c = ++B[whichBar]
Count(t) ==
  /\ pc[t] = "count"
  /\ B' = [B EXCEPT ![w[t].bar] = @ + 1]
  /\ w' = [w EXCEPT ![t].c = B[w[t].bar] + 1]
  /\ arrived' = [arrived EXCEPT ![w[t].loop] = @ \cup {t}]
  /\ pc' = [pc EXCEPT ![t] = "compare"]
  /\ UNCHANGED <<_barrier, barArray, nw, loops, inbox, left>>

\* Seeded fault: one thread less is enough.
LastOneEarly(t) == w[t].c >= _barrier - 1

\* Is this the last thread to come?
LastOne(t) == w[t].c = _barrier

Compare(t) ==
  /\ pc[t] = "compare"
  /\ pc' = [pc EXCEPT ![t] = IF LastOne(t) THEN "reset" ELSE "spin"]
  /\ UNCHANGED <<_barrier, barArray, B, nw, loops, inbox, w, arrived, left>>

Leave(t) ==
  /\ pc' = [pc EXCEPT ![t] = IF t = Caller THEN "setup" ELSE "idle"]
  /\ left' = [left EXCEPT ![t] = w[t].loop]

\* The last thread lets the others go.
Reset(t) ==
  /\ pc[t] = "reset"
  /\ B' = [B EXCEPT ![w[t].bar] = 0]
  /\ Leave(t)
  /\ UNCHANGED <<_barrier, barArray, nw, loops, inbox, w, arrived>>

\* while(c) c = B[whichBar]: a read of zero ends the wait.
Spin(t) ==
  /\ pc[t] = "spin"
  /\ \/ B[w[t].bar] = 0 /\ Leave(t)
     \/ B[w[t].bar] # 0 /\ UNCHANGED <<pc, left>>
  /\ UNCHANGED <<_barrier, barArray, B, nw, loops, inbox, w, arrived>>

Terminating ==
  /\ loops = MaxLoops /\ pc[Caller] = "setup"
  /\ \A i \in Workers : pc[i] = "idle" /\ inbox[i] = <<>>
  /\ UNCHANGED vars

Step(t) == Toggle(t) \/ Count(t) \/ Compare(t) \/ Reset(t) \/ Spin(t)

Next ==
  \/ \E n \in Sizes : run_then_freeze(n)
  \/ \E i \in Workers : Work(i)
  \/ \E t \in Threads : Step(t)
  \/ Terminating

Spec == Init /\ [][Next]_vars

\* Every thread runs.
FairSpec ==
  /\ Spec
  /\ \A t \in Threads : WF_vars(Step(t))
  /\ \A i \in Workers : WF_vars(Work(i))

-----------------------------------------------------------------------------
(* Properties *)

\* Type correctness; once set up, a counter never passes the number of threads.
TypeOK ==
  /\ _barrier \in 0 .. MaxWorkers + 1 /\ nw \in 0 .. MaxWorkers
  /\ barArray \in [0 .. MaxWorkers -> BOOLEAN]
  /\ _barrier > 0 => \A b \in BOOLEAN : B[b] \in 0 .. _barrier
  /\ pc \in [Threads -> {"setup", "idle", "toggle", "count", "compare", "reset", "spin"}]
  /\ arrived \in [1 .. MaxLoops -> SUBSET Threads]

\* No thread leaves the barrier of a loop before all threads of that loop have
\* come to it: the results of every worker are there when the caller goes on.
Together ==
  \A t \in Threads : left[t] = loops /\ loops > 0 => Party(nw) \subseteq arrived[loops]

\* No worker lags more than one barrier behind, which is what makes two counters
\* enough: while a worker waits at a barrier, nobody has come to the next but one.
OneBehind ==
  \A i \in Workers : pc[i] \in {"compare", "reset", "spin"} => loops <= w[i].loop + 1

\* What spinning must not cost, together.
SpinningIsSafe == TypeOK /\ Together /\ OneBehind

\* The caller meets the workers of every loop: doBarrier of wait_freezing returns.
LoopBarrierEnds == pc[Caller] = "toggle" ~> pc[Caller] = "setup"
=============================================================================
