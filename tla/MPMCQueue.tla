------------------------------ MODULE MPMCQueue ------------------------------
(***************************************************************************)
(* MPMC_Ptr_Queue (ff/mpmc/MPMCqueues.hpp): a bounded queue for any number   *)
(* of producers and consumers, without locks.  A position is claimed by a    *)
(* compare-and-swap on pwrite or pread; the sequence number of its slot says *)
(* whose turn the slot is, and is what hands the data over.                  *)
(*                                                                         *)
(* Each access to shared memory is a step, and between two of them any other *)
(* thread may run.  Items are numbered in the order their positions are      *)
(* claimed, so that an item is its position; the data a slot holds is then   *)
(* the position of the item stored there.                                    *)
(***************************************************************************)
EXTENDS Integers, FiniteSets

CONSTANTS Threads,   \* who calls push and pop
          Size,      \* slots; init rounds it up to a power of two
          MaxPush    \* bound: positions claimed by push

SizeAssumption == Size \in Nat \ {0, 1} /\ MaxPush \in Nat

Slots == 0 .. Size - 1
Nothing == -1

VARIABLES
  seq, data,       \* the fields of the slots
  pwrite, pread,
  pc, pos, got,    \* per thread: where it is, its pw or pr, its seq in push
  taken,           \* history: what the pop of each position brought
  refusedTruly     \* history: the last refusal told the truth of that instant

vars == <<seq, data, pwrite, pread, pc, pos, got, taken, refusedTruly>>
slots == <<seq, data>>
history == <<taken, refusedTruly>>

slot(p) == p % Size

\* init
Init ==
  /\ seq = [i \in Slots |-> i] /\ data = [i \in Slots |-> Nothing]
  /\ pwrite = 0 /\ pread = 0
  /\ pc = [t \in Threads |-> "out"]
  /\ pos = [t \in Threads |-> 0] /\ got = [t \in Threads |-> 0]
  /\ taken = <<>> /\ refusedTruly = TRUE

Goto(t, l) == pc' = [pc EXCEPT ![t] = l]

\* The call is over, and its locals with it.
Return(t) ==
  /\ Goto(t, "out")
  /\ pos' = [pos EXCEPT ![t] = 0] /\ got' = [got EXCEPT ![t] = 0]

-----------------------------------------------------------------------------
(* push *)

\* pw = pwrite
PushRead(t) ==
  /\ pc[t] \in {"out", "push"} /\ pwrite < MaxPush
  /\ Goto(t, "pushSeq") /\ pos' = [pos EXCEPT ![t] = pwrite]
  /\ UNCHANGED <<slots, pwrite, pread, got, history>>

\* No slot is free: every position of the last Size is stored or about to be, and
\* its pop has not ended.
Full == seq[slot(pwrite)] < pwrite

\* seq = node->seq: try for the position, or look again, or refuse.
PushSeq(t) ==
  LET s == seq[slot(pos[t])]
  IN  /\ pc[t] = "pushSeq"
      /\ \/ /\ s >= pos[t]
            /\ got' = [got EXCEPT ![t] = s]
            /\ Goto(t, IF s = pos[t] THEN "pushCas" ELSE "push")
            /\ UNCHANGED <<pos, refusedTruly>>
         \/ s < pos[t] /\ Return(t) /\ refusedTruly' = Full
      /\ UNCHANGED <<slots, pwrite, pread, taken>>

\* compare_exchange_weak, which may also fail for no reason.
PushCas(t) ==
  /\ pc[t] = "pushCas"
  /\ \/ pwrite = pos[t] /\ pwrite' = pos[t] + 1 /\ Goto(t, "pushData")
     \/ UNCHANGED pwrite /\ Goto(t, "push")
  /\ UNCHANGED <<slots, pread, pos, got, history>>

\* node->data = data
PushData(t) ==
  /\ pc[t] = "pushData"
  /\ data' = [data EXCEPT ![slot(pos[t])] = pos[t]]
  /\ Goto(t, "pushDone")
  /\ UNCHANGED <<seq, pwrite, pread, pos, got, history>>

\* node->seq = seq + 1
PushDone(t) ==
  /\ pc[t] = "pushDone"
  /\ seq' = [seq EXCEPT ![slot(pos[t])] = got[t] + 1]
  /\ Return(t)
  /\ UNCHANGED <<data, pwrite, pread, history>>

-----------------------------------------------------------------------------
(* pop *)

\* pr = pread
PopRead(t) ==
  /\ pc[t] \in {"out", "pop"}
  /\ Goto(t, "popSeq") /\ pos' = [pos EXCEPT ![t] = pread]
  /\ UNCHANGED <<slots, pwrite, pread, got, history>>

\* The oldest item is not there: nobody has pushed it, or its push has not ended.
Hollow == seq[slot(pread)] < pread + 1

\* seq = node->seq: try for the position, or look again, or answer "empty".
PopSeq(t) ==
  LET diff == seq[slot(pos[t])] - (pos[t] + 1)
  IN  /\ pc[t] = "popSeq"
      /\ \/ /\ diff >= 0
            /\ Goto(t, IF diff = 0 THEN "popCas" ELSE "pop")
            /\ UNCHANGED <<pos, got, refusedTruly>>
         \/ diff < 0 /\ Return(t) /\ refusedTruly' = Hollow
      /\ UNCHANGED <<slots, pwrite, pread, taken>>

PopCas(t) ==
  /\ pc[t] = "popCas"
  /\ \/ pread = pos[t] /\ pread' = pos[t] + 1 /\ Goto(t, "popData")
     \/ UNCHANGED pread /\ Goto(t, "pop")
  /\ UNCHANGED <<slots, pwrite, pos, got, history>>

\* *data = node->data
PopData(t) ==
  /\ pc[t] = "popData"
  /\ taken' = [p \in DOMAIN taken \cup {pos[t]} |->
                 IF p = pos[t] THEN data[slot(p)] ELSE taken[p]]
  /\ Goto(t, "popDone")
  /\ UNCHANGED <<slots, pwrite, pread, pos, got, refusedTruly>>

\* node->seq = pr + mask + 1
PopDone(t) ==
  /\ pc[t] = "popDone"
  /\ seq' = [seq EXCEPT ![slot(pos[t])] = pos[t] + Size]
  /\ Return(t)
  /\ UNCHANGED <<data, pwrite, pread, history>>

Push(t) == PushRead(t) \/ PushSeq(t) \/ PushCas(t) \/ PushData(t) \/ PushDone(t)
Pop(t) == PopRead(t) \/ PopSeq(t) \/ PopCas(t) \/ PopData(t) \/ PopDone(t)

Next == \E t \in Threads : Push(t) \/ Pop(t)

Spec == Init /\ [][Next]_vars

-----------------------------------------------------------------------------
(* Properties *)

Labels == {"out", "push", "pushSeq", "pushCas", "pushData", "pushDone",
           "pop", "popSeq", "popCas", "popData", "popDone"}

\* Type correctness.
TypeOK ==
  /\ pc \in [Threads -> Labels] /\ pos \in [Threads -> Nat]
  /\ data \in [Slots -> Nat \cup {Nothing}] /\ seq \in [Slots -> Nat]
  /\ pread \in 0 .. pwrite /\ pwrite - pread \in 0 .. Size

Inside == {t \in Threads : pc[t] \in {"pushData", "pushDone", "popData", "popDone"}}

\* A claimed slot is its claimer's: no two threads between the claim and the hand-
\* over use one slot, neither two producers of different laps nor a producer and
\* the consumer of the lap before.
OneInSlot == \A t, u \in Inside : t # u => slot(pos[t]) # slot(pos[u])

\* The pop of a position brings the item whose push claimed it: first in, first
\* out, each item once, however long producers and consumers are held up.
InClaimOrder == \A p \in DOMAIN taken : taken[p] = p

\* "Full" and "empty" are answered only when they were true of the place the next
\* call would use; items behind a slow producer are not seen, nor is room behind
\* a slow consumer.
TruthfulRefusals == refusedTruly

\* What the producers and consumers may not make of the slots, together.
QueuesHoldItems == TypeOK /\ OneInSlot /\ InClaimOrder /\ TruthfulRefusals
=============================================================================
