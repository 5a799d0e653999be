------------------------------ MODULE CLHLock ------------------------------
(***************************************************************************)
(* The CLH queue lock of FastFlow (spin-lock.hpp, CLHSpinLock).  A thread   *)
(* swaps its node into Tail and spins on the node it got; on release it     *)
(* clears its own node and keeps its predecessor's for the next time.  A    *)
(* step is one access to shared memory.                                     *)
(***************************************************************************)
EXTENDS Integers, Sequences, FiniteSets

CONSTANTS Procs, None

ProcsAssumption == IsFiniteSet(Procs) /\ None \notin Procs

\* The nodes init() allocates: one per thread, and the one Tail starts with.
Nodes == Procs \cup {None}

VARIABLES
  Tail_,           \* Tail
  locked,          \* the flag of each node
  MyNode, MyPred,  \* per thread
  pc,              \* where each thread is
  asked            \* history: threads in the order of their swaps

vars == <<Tail_, locked, MyNode, MyPred, pc, asked>>

Init ==
  /\ Tail_ = None
  /\ locked \in {f \in [Nodes -> BOOLEAN] : ~f[None]}
  /\ MyNode = [p \in Procs |-> p]
  /\ MyPred = [p \in Procs |-> None]
  /\ pc = [p \in Procs |-> "out"]
  /\ asked = <<>>

\* MyNode[pid]->locked = true
SetLocked(p) ==
  /\ pc[p] = "out"
  /\ locked' = [locked EXCEPT ![MyNode[p]] = TRUE]
  /\ pc' = [pc EXCEPT ![p] = "swap"]
  /\ UNCHANGED <<Tail_, MyNode, MyPred, asked>>

\* MyPred[pid] = swap(Tail, MyNode[pid])
Swap(p) ==
  /\ pc[p] = "swap"
  /\ MyPred' = [MyPred EXCEPT ![p] = Tail_]
  /\ Tail_' = MyNode[p]
  /\ asked' = Append(asked, p)
  /\ pc' = [pc EXCEPT ![p] = "spin"]
  /\ UNCHANGED <<locked, MyNode>>

\* while (MyPred[pid]->locked == true) ;
Spin(p) ==
  /\ pc[p] = "spin"
  /\ pc' = [pc EXCEPT ![p] = IF locked[MyPred[p]] THEN "spin" ELSE "cs"]
  /\ UNCHANGED <<Tail_, locked, MyNode, MyPred, asked>>

\* spin_unlock: MyNode[pid]->locked = false
ClearLocked(p) ==
  /\ pc[p] = "cs"
  /\ locked' = [locked EXCEPT ![MyNode[p]] = FALSE]
  /\ asked' = Tail(asked)
  /\ pc' = [pc EXCEPT ![p] = "take"]
  /\ UNCHANGED <<Tail_, MyNode, MyPred>>

\* MyNode[pid] = MyPred[pid]
TakeNode(p) ==
  /\ pc[p] = "take"
  /\ MyNode' = [MyNode EXCEPT ![p] = MyPred[p]]
  /\ pc' = [pc EXCEPT ![p] = "out"]
  /\ UNCHANGED <<Tail_, locked, MyPred, asked>>

Step(p) == Swap(p) \/ Spin(p) \/ ClearLocked(p) \/ TakeNode(p)

Next == \E p \in Procs : SetLocked(p) \/ Step(p)

Spec == Init /\ [][Next]_vars

\* A thread that is inside spin_lock or spin_unlock goes on, and one that holds
\* the lock releases it; nobody has to ask.
FairSpec == Spec /\ \A p \in Procs : WF_vars(Step(p))

-----------------------------------------------------------------------------
(* Properties *)

\* Type correctness.
TypeOK ==
  /\ Tail_ \in Nodes /\ locked \in [Nodes -> BOOLEAN]
  /\ MyNode \in [Procs -> Nodes] /\ MyPred \in [Procs -> Nodes]
  /\ pc \in [Procs -> {"out", "swap", "spin", "cs", "take"}]

\* The node a thread would use next is nobody else's: not another thread's, and
\* not one that a waiting thread or the tail refers to.
PrivateNode ==
  \A p \in Procs :
    /\ \A q \in Procs \ {p} : MyNode[p] # MyNode[q] \/ pc[p] = "take" \/ pc[q] = "take"
    /\ pc[p] \in {"out", "swap"} =>
         Tail_ # MyNode[p] /\ \A q \in Procs : pc[q] = "spin" => MyPred[q] # MyNode[p]

\* "CLH spin-lock is a FIFO lock": the code serves threads one at a time, in
\* the order of their swaps.
Lock == INSTANCE FifoLock WITH
          queue <- asked,
          owner <- IF asked # <<>> /\ pc[Head(asked)] = "cs" THEN Head(asked) ELSE None
IsFifoLock == Lock!Spec

\* No two threads hold the lock.
Mutex == \A p, q \in Procs : pc[p] = "cs" /\ pc[q] = "cs" => p = q

\* What spinning must not cost, together.
SpinningIsSafe == PrivateNode /\ Mutex

\* Whoever has asked gets the lock.
Served == \A p \in Procs : pc[p] = "swap" ~> pc[p] = "cs"
=============================================================================
