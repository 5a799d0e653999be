------------------------------ MODULE Annealing ------------------------------
(***************************************************************************)
(* What every version of canneal promises: the threads do temperature steps *)
(* in lockstep, none begins a step before all have begun the one before,    *)
(* and the annealing is over for all of them after the same step.           *)
(***************************************************************************)
EXTENDS Naturals

CONSTANT Threads

VARIABLES steps,   \* temperature steps begun by each thread
          over     \* has it been decided to stop?

Init == steps = [t \in Threads |-> 0] /\ over = FALSE

Step(t) ==
  /\ ~over /\ \A u \in Threads : steps[t] <= steps[u]
  /\ steps' = [steps EXCEPT ![t] = @ + 1]
  /\ UNCHANGED over

Stop ==
  /\ ~over /\ \A t, u \in Threads : steps[t] = steps[u]
  /\ over' = TRUE
  /\ UNCHANGED steps

Next == Stop \/ \E t \in Threads : Step(t)

Spec == Init /\ [][Next]_<<steps, over>>
=============================================================================
