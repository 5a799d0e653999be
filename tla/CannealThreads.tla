---------------------------- MODULE CannealThreads ----------------------------
(***************************************************************************)
(* The annealer threads of canneal (annealer_thread.cpp, pthreads version):  *)
(* each tests keep_going, does the moves of one temperature step and waits   *)
(* at a barrier.  Of the moves only the two counters matter here.            *)
(***************************************************************************)
EXTENDS Integers, FiniteSets

CONSTANTS
  Threads,
  Moves,             \* moves of a thread in a temperature step
  Converging,        \* number_temp_steps is -1: run until the design converges
  number_temp_steps,
  MaxSteps           \* bound: an improving step number MaxSteps is left out

ThreadsAssumption == IsFiniteSet(Threads) /\ Threads # {}
StepsAssumption ==
  Moves \in Nat \ {0} /\ MaxSteps \in Nat
  /\ Converging \in BOOLEAN /\ number_temp_steps \in 0 .. MaxSteps

VARIABLES
  pc,                                      \* where each thread is
  accepted_good_moves, accepted_bad_moves, \* locals of Run
  temp_steps_completed,
  begun,                                   \* history: temperature steps begun
  keep_going_global_flag,
  arrived                                  \* threads waiting at the barrier

counters == <<accepted_good_moves, accepted_bad_moves, temp_steps_completed>>
vars == <<pc, counters, begun, keep_going_global_flag, arrived>>

Init ==
  /\ pc = [t \in Threads |-> "test"]
  /\ accepted_good_moves = [t \in Threads |-> 0]
  /\ accepted_bad_moves = [t \in Threads |-> -1]
  /\ temp_steps_completed = [t \in Threads |-> 0]
  /\ begun = [t \in Threads |-> 0]
  /\ keep_going_global_flag = TRUE
  /\ arrived = {}

Improved(t) == accepted_good_moves[t] > accepted_bad_moves[t]

KeepsGoing(t) ==
  IF Converging THEN keep_going_global_flag /\ Improved(t)
  ELSE temp_steps_completed[t] < number_temp_steps

\* keep_going: the flag tells the others that the design has converged.
keep_going(t) ==
  /\ pc[t] = "test"
  /\ pc' = [pc EXCEPT ![t] = IF KeepsGoing(t) THEN "moves" ELSE "end"]
  /\ begun' = IF KeepsGoing(t) THEN [begun EXCEPT ![t] = @ + 1] ELSE begun
  /\ keep_going_global_flag' =
       (keep_going_global_flag /\ (Converging => KeepsGoing(t)))
  /\ UNCHANGED <<counters, arrived>>

\* The moves of one temperature step.
moves(t) ==
  /\ pc[t] = "moves"
  /\ \E good, bad \in 0 .. Moves :
       /\ good + bad <= Moves
       /\ begun[t] = MaxSteps => good <= bad
       /\ accepted_good_moves' = [accepted_good_moves EXCEPT ![t] = good]
       /\ accepted_bad_moves' = [accepted_bad_moves EXCEPT ![t] = bad]
  /\ temp_steps_completed' = [temp_steps_completed EXCEPT ![t] = @ + 1]
  /\ pc' = [pc EXCEPT ![t] = "barrier"]
  /\ UNCHANGED <<begun, keep_going_global_flag, arrived>>

\* Seeded fault: the barrier is made for one thread less.
barrierShort(t) ==
  /\ pc[t] = "barrier" /\ t \notin arrived
  /\ IF Cardinality(arrived \cup {t}) >= Cardinality(Threads) - 1
     THEN /\ arrived' = {}
          /\ pc' = [u \in Threads |-> IF u \in arrived \cup {t} THEN "test" ELSE pc[u]]
     ELSE arrived' = arrived \cup {t} /\ UNCHANGED pc
  /\ UNCHANGED <<counters, begun, keep_going_global_flag>>

\* pthread_barrier_wait: the last of all the threads lets all of them go on.
barrier(t) ==
  /\ pc[t] = "barrier" /\ t \notin arrived
  /\ IF arrived \cup {t} = Threads
     THEN arrived' = {} /\ pc' = [u \in Threads |-> "test"]
     ELSE arrived' = arrived \cup {t} /\ UNCHANGED pc
  /\ UNCHANGED <<counters, begun, keep_going_global_flag>>

Thread(t) == keep_going(t) \/ moves(t) \/ barrier(t)

Next == \E t \in Threads : Thread(t)

Spec == Init /\ [][Next]_vars

\* The threads run.
FairSpec == Spec /\ \A t \in Threads : WF_vars(Thread(t))

-----------------------------------------------------------------------------
(* Properties *)

TypeOK ==
  /\ pc \in [Threads -> {"test", "moves", "barrier", "end"}]
  /\ accepted_good_moves \in [Threads -> 0 .. Moves]
  /\ accepted_bad_moves \in [Threads -> -1 .. Moves]
  /\ temp_steps_completed \in [Threads -> 0 .. MaxSteps]
  /\ begun \in [Threads -> 0 .. MaxSteps]
  /\ keep_going_global_flag \in BOOLEAN
  /\ arrived \subseteq Threads

\* No thread begins a temperature step that another one has not come to, and none
\* begins one after another thread has left the loop for good.
Lockstep == INSTANCE Annealing WITH
  steps <- begun, over <- \E t \in Threads : pc[t] = "end"

ImplementsAnnealing == Lockstep!Spec

\* A thread that is asked for a number of steps ends after that many.
AsManySteps ==
  ~Converging =>
    \A t \in Threads : pc[t] = "end" => temp_steps_completed[t] = number_temp_steps

\* Every thread leaves the loop, so that main can join them all.
Ended == \A t \in Threads : pc[t] = "end"
AllEnd == <>Ended
=============================================================================
