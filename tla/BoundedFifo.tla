---------------------------- MODULE BoundedFifo ----------------------------
(***************************************************************************)
(* What FastFlow's bounded single-producer single-consumer channel promises *)
(* its two users: a first-in first-out queue of at most Capacity items,     *)
(* where a batch enters as one indivisible step, a refusal is only ever     *)
(* given for lack of room and "nothing there" only when the queue is empty. *)
(***************************************************************************)
EXTENDS Naturals, Sequences

CONSTANTS Batch,      \* the non-empty sequences of items a producer may offer
          NoItem,     \* the answer of a pop that found nothing
          Capacity

VARIABLES q,          \* the items in the channel, oldest first
          pushed,     \* the answer the last completed push gave
          popped      \* the item the last completed pop gave, or NoItem

fifoVars == <<q, pushed, popped>>

FifoInit == q = <<>> /\ pushed = TRUE /\ popped = NoItem

\* A batch enters, whole and in order, when there is room for all of it.
Offer(b) ==
  /\ Len(q) + Len(b) <= Capacity
  /\ q' = q \o b
  /\ pushed' = TRUE
  /\ UNCHANGED popped

\* A batch is refused when the items in the channel leave no room for it, or
\* when it is as long as the channel itself.
Refuse(b) ==
  /\ Len(q) + Len(b) > Capacity \/ Len(b) >= Capacity
  /\ pushed' = FALSE
  /\ UNCHANGED <<q, popped>>

\* The consumer gets the oldest item.
Take ==
  /\ q # <<>>
  /\ popped' = Head(q)
  /\ q' = Tail(q)
  /\ UNCHANGED pushed

\* The consumer is told there is nothing.
Miss == q = <<>> /\ popped' = NoItem /\ UNCHANGED <<q, pushed>>

\* A user that owns both ends may empty the channel.
Empty == q' = <<>> /\ UNCHANGED <<pushed, popped>>

FifoNext ==
  \/ \E b \in Batch : Offer(b) \/ Refuse(b)
  \/ Take
  \/ Miss
  \/ Empty

FifoSpec == FifoInit /\ [][FifoNext]_fifoVars
=============================================================================
