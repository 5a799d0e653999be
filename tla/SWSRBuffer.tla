----------------------------- MODULE SWSRBuffer -----------------------------
(***************************************************************************)
(* SWSR_Ptr_Buffer (libs/fastflow/ff/buffer.hpp): the lock-free bounded     *)
(* channel between one producer and one consumer thread.  The two threads   *)
(* share only the slots: NULL marks a free slot, pwrite is touched by the   *)
(* producer alone and pread by the consumer alone.  A step here is one      *)
(* access to a shared slot or one update of an index, so every interleaving *)
(* of the two threads' memory accesses is a behaviour.                      *)
(*                                                                         *)
(* Single push and multipush share their store and advance steps: push is   *)
(* the batch of one item, accepted by its own test.                         *)
(***************************************************************************)
EXTENDS Naturals, Sequences

CONSTANTS Item,      \* the non-NULL pointers carried
          NULL,      \* the free-slot marker
          Size,      \* number of slots
          MaxBatch,  \* longest batch passed to multipush
          LineEnd    \* longxCacheLine-1: where reset(true) places both indices

ASSUME ItemAssumption == NULL \notin Item
ASSUME SizeAssumption == Size \in Nat \ {0}
ASSUME BatchAssumption == MaxBatch \in Nat \ {0}
ASSUME LineEndAssumption == LineEnd \in 0 .. Size - 1

VARIABLES
  buf, pread, pwrite,  \* the fields of the class
  pcP, batch, k,       \* producer: where it is, what it pushes, items left to store
  pcC, out,            \* consumer: where it is, the pointer it read
  q, pushed, popped    \* history: items visible to the consumer, last answers

producer == <<pcP, batch, k>>
consumer == <<pcC, out>>
vars == <<buf, pread, pwrite, pcP, batch, k, pcC, out, q, pushed, popped>>

Slots == 0 .. Size - 1

\* The slot i places after p: the circular step both sides write as
\* p += (p+1 >= size) ? (1-size) : 1, and multipush as the value of last.
Slot(p, i) == IF p + i >= Size THEN p + i - Size ELSE p + i

Batches == UNION {[1 .. n -> Item] : n \in 1 .. MaxBatch}

available == buf[pwrite] = NULL

\* Seeded fault: compares the indices, as a buffer with a private slot would.
emptyByIndices == pread = pwrite

empty == buf[pread] = NULL

\* init() and the first reset(startatlineend): cleared slots, equal indices.
Init ==
  /\ buf = [s \in Slots |-> NULL]
  /\ pread \in {0, LineEnd}
  /\ pwrite = pread
  /\ pcP = "idle" /\ batch = <<>> /\ k = 0
  /\ pcC = "idle" /\ out = NULL
  /\ q = <<>> /\ pushed = TRUE /\ popped = NULL

-----------------------------------------------------------------------------
(* Producer *)

StartStores(b) == pcP' = "store" /\ batch' = b /\ k' = Len(b)

GiveUp == pushed' = FALSE /\ UNCHANGED <<producer, q, popped>>

\* push(data): test the slot under pwrite, then store, or answer false.
push(d) ==
  /\ pcP = "idle"
  /\ \/ available /\ StartStores(<<d>>) /\ UNCHANGED <<q, pushed, popped>>
     \/ ~available /\ GiveUp
  /\ UNCHANGED <<buf, pread, pwrite, consumer>>

\* Seeded fault: tests the first slot of the batch instead of the last.
batchFitsFirst(b) == Len(b) < Size /\ buf[pwrite] = NULL

\* multipush tests the last slot of the batch only.
batchFits(b) == Len(b) < Size /\ buf[Slot(pwrite, Len(b) - 1)] = NULL

\* multipush(data, len)
multipush(b) ==
  /\ pcP = "idle"
  /\ \/ batchFits(b) /\ StartStores(b) /\ UNCHANGED <<q, pushed, popped>>
     \/ ~batchFits(b) /\ GiveUp
  /\ UNCHANGED <<buf, pread, pwrite, consumer>>

\* The offset stored next, counting down: the last item of the batch is stored
\* first, so the slot the consumer looks at is filled last.
nextStore == k - 1

\* buf[pwrite+i] = data[i].  The store at offset 0 is the one that makes the
\* whole batch visible, which the history records.
StoreSlot ==
  /\ pcP = "store"
  /\ buf' = [buf EXCEPT ![Slot(pwrite, nextStore)] = batch[nextStore + 1]]
  /\ k' = k - 1
  /\ IF k = 1 THEN /\ pcP' = "advance"
                   /\ q' = q \o batch
                   /\ pushed' = TRUE
              ELSE UNCHANGED <<pcP, q, pushed>>
  /\ UNCHANGED <<pread, pwrite, batch, consumer, popped>>

\* Seeded fault: moves past one item whatever the length of the batch.
AdvanceWriteByOne ==
  /\ pcP = "advance"
  /\ pwrite' = Slot(pwrite, 1)
  /\ pcP' = "idle" /\ batch' = <<>>
  /\ UNCHANGED <<buf, pread, k, consumer, q, pushed, popped>>

\* The update of pwrite that ends push and multipush.
AdvanceWrite ==
  /\ pcP = "advance"
  /\ pwrite' = Slot(pwrite, Len(batch))
  /\ pcP' = "idle" /\ batch' = <<>>
  /\ UNCHANGED <<buf, pread, k, consumer, q, pushed, popped>>

-----------------------------------------------------------------------------
(* Consumer *)

\* pop: answer false on an empty slot, or read the pointer.  top() is the same
\* read, and a consumer that uses top() calls inc() itself.
pop ==
  /\ pcC = "idle"
  /\ \/ empty /\ popped' = NULL /\ UNCHANGED consumer
     \/ ~empty /\ out' = buf[pread] /\ pcC' = "clear" /\ UNCHANGED popped
  /\ UNCHANGED <<buf, pread, pwrite, producer, q, pushed>>

\* inc(), first write: the slot becomes free, and the producer may see it.
ClearSlot ==
  /\ pcC = "clear"
  /\ buf' = [buf EXCEPT ![pread] = NULL]
  /\ pcC' = "advance"
  /\ popped' = out /\ q' = Tail(q)
  /\ UNCHANGED <<pread, pwrite, producer, out, pushed>>

\* Seeded fault: the index runs off the end of the array.
AdvanceReadNoWrap ==
  /\ pcC = "advance"
  /\ pread' = pread + 1
  /\ pcC' = "idle" /\ out' = NULL
  /\ UNCHANGED <<buf, pwrite, producer, q, pushed, popped>>

\* Seeded fault: the index stays on the freed slot.
AdvanceReadStays ==
  /\ pcC = "advance"
  /\ pcC' = "idle" /\ out' = NULL
  /\ UNCHANGED <<buf, pread, pwrite, producer, q, pushed, popped>>

\* inc(), second write.
AdvanceRead ==
  /\ pcC = "advance"
  /\ pread' = Slot(pread, 1)
  /\ pcC' = "idle" /\ out' = NULL
  /\ UNCHANGED <<buf, pwrite, producer, q, pushed, popped>>

-----------------------------------------------------------------------------
\* reset(startatlineend), called between runs, when neither thread is inside.
reset(start) ==
  /\ pcP = "idle" /\ pcC = "idle"
  /\ buf' = [s \in Slots |-> NULL]
  /\ pread' = start /\ pwrite' = start
  /\ q' = <<>>
  /\ UNCHANGED <<producer, consumer, pushed, popped>>

\* length() as a caller sees it that reads the two indices at one instant.
length ==
  IF pwrite > pread THEN pwrite - pread
  ELSE IF pwrite < pread THEN Size + pwrite - pread
  ELSE IF buf[pwrite] = NULL THEN 0 ELSE Size

Produce ==
  \/ \E d \in Item : push(d)
  \/ \E b \in Batches : multipush(b)
  \/ StoreSlot
  \/ AdvanceWrite

Consume == pop \/ ClearSlot \/ AdvanceRead

Next == Produce \/ Consume \/ \E s \in {0, LineEnd} : reset(s)

Spec == Init /\ [][Next]_vars

\* Both threads keep running: FastFlow's node retries a refused push and polls
\* an empty channel in a loop (ff_node::Push and ff_node::Pop).
Fairness ==
  /\ WF_vars((\E d \in Item : push(d)) \/ StoreSlot \/ AdvanceWrite)
  /\ WF_vars(Consume)

FairSpec == Spec /\ Fairness

-----------------------------------------------------------------------------
(* Properties *)

\* Type correctness: the indices of push and inc() stay inside the array, and
\* slots hold pointers or NULL.
TypeOK ==
  /\ buf \in [Slots -> Item \cup {NULL}]
  /\ pread \in Slots /\ pwrite \in Slots
  /\ pcP \in {"idle", "store", "advance"}
  /\ batch \in Seq(Item) /\ k \in Nat
  /\ pcC \in {"idle", "clear", "advance"}
  /\ out \in Item \cup {NULL}
  /\ q \in Seq(Item)
  /\ pushed \in BOOLEAN
  /\ popped \in Item \cup {NULL}

\* The oldest visible item is here: between the two writes of inc() the
\* consumer's index still names the slot it has freed.
front == IF pcC = "advance" THEN Slot(pread, 1) ELSE pread

\* The first slot after the visible items, as the producer's index will say.
back == IF pcP = "advance" THEN Slot(pwrite, Len(batch)) ELSE pwrite

\* What a slot beyond the visible items holds: NULL, or an item of the batch
\* that is being stored from its far end.
Hidden(i) ==
  IF pcP = "store" /\ i - Len(q) >= k /\ i - Len(q) < Len(batch)
  THEN batch[i - Len(q) + 1] ELSE NULL

\* The slots are the queue: from the front, the visible items in order, then
\* only free slots and the hidden tail of a batch.  The index the producer
\* trusts is exactly the end of the visible items, whatever the other thread
\* is in the middle of.
SlotsHoldQueue ==
  /\ Len(q) <= Size
  /\ back = Slot(front, Len(q))
  /\ \A i \in Slots :
       buf[Slot(front, i)] = IF i < Len(q) THEN q[i + 1] ELSE Hidden(i)

\* What each thread knows while it is inside an operation: the producer that
\* tested one slot owns room for its whole batch, and the pointer the consumer
\* read is still the oldest item when it frees the slot.
InsideOperation ==
  /\ pcP = "idle" => batch = <<>>
  /\ pcP = "store" => /\ k \in 1 .. Len(batch)
                      /\ Len(q) + Len(batch) <= Size
  /\ pcP = "advance" => batch # <<>> /\ Len(batch) <= Size
  /\ pcC = "clear" => q # <<>> /\ out = Head(q)

\* Between operations length() is the number of items, full and empty told
\* apart by the slot and not by the indices.
QuietLength == pcP = "idle" /\ pcC = "idle" => length = Len(q)

\* No step replaces a pointer the consumer has not taken: a slot goes from an
\* item to NULL and never from an item to another.
NoOverwrite ==
  [][\A s \in Slots : buf[s] # NULL => buf'[s] \in {buf[s], NULL}]_vars

Fifo == INSTANCE BoundedFifo WITH Batch <- Batches, NoItem <- NULL, Capacity <- Size

\* The two unsynchronised threads implement a first-in first-out queue in which
\* every push, batch and pop takes effect at one instant.
ImplementsFifo == Fifo!FifoSpec

\* A producer that was refused is not refused for ever, as long as the
\* consumer keeps popping: the freed slot always becomes visible to it.
RefusedThenAccepted == ~pushed ~> pushed
=============================================================================
