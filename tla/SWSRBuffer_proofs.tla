-------------------------- MODULE SWSRBuffer_proofs --------------------------
(***************************************************************************)
(* Proofs about the bounded channel, for every number of slots, every set   *)
(* of items and every batch length; and, in the second part, about the      *)
(* unbounded channel made of bounded ones, for every number of slots, every *)
(* size of the pool's cache and every bound on the items.                   *)
(***************************************************************************)
EXTENDS SWSRBuffer, SequenceTheorems, FiniteSetTheorems, TLAPS

\* The inductive invariant: which slot holds what, and what each thread may
\* rely on in the middle of its operation.
IInv == TypeOK /\ SlotsHoldQueue /\ InsideOperation

USE DEF Slots

-----------------------------------------------------------------------------
(* Circular indices *)

\* The circular step of buffer.hpp stays inside the array.
LEMMA SlotType ==
  ASSUME NEW p \in Slots, NEW i \in 0 .. Size
  PROVE  Slot(p, i) \in Slots
BY SizeAssumption DEF Slot

\* Two offsets below the size reach two different slots.
LEMMA SlotInjective ==
  ASSUME NEW p \in Slots, NEW i \in Slots, NEW j \in Slots,
         Slot(p, i) = Slot(p, j)
  PROVE  i = j
BY SizeAssumption DEF Slot

\* Two advances compose, as long as they stay within one turn.
LEMMA SlotCompose ==
  ASSUME NEW p \in Slots, NEW i \in 0 .. Size, NEW j \in 0 .. Size, i + j <= Size
  PROVE  Slot(Slot(p, i), j) = Slot(p, i + j)
BY SizeAssumption DEF Slot

\* Every slot is reached from any other within one turn.
LEMMA SlotSurjective ==
  ASSUME NEW p \in Slots, NEW s \in Slots
  PROVE  \E i \in Slots : Slot(p, i) = s
<1>1. CASE s >= p
  <2>1. s - p \in Slots /\ Slot(p, s - p) = s
    BY <1>1, SizeAssumption DEF Slot
  <2> QED BY <2>1
<1>2. CASE s < p
  <2>1. Size + s - p \in Slots /\ Slot(p, Size + s - p) = s
    BY <1>2, SizeAssumption DEF Slot
  <2> QED BY <2>1
<1> QED BY <1>1, <1>2

\* A batch handed to multipush is a non-empty sequence of items.
LEMMA BatchType ==
  ASSUME NEW b \in Batches
  PROVE  b \in Seq(Item) /\ Len(b) \in Nat \ {0}
<1>1. PICK n \in 1 .. MaxBatch : b \in [1 .. n -> Item]
  BY DEF Batches
<1>2. n \in Nat \ {0}
  BY BatchAssumption
<1>3. b \in Seq(Item)
  BY <1>1, <1>2
<1>4. Len(b) = n
  BY <1>1, <1>2, <1>3
<1> QED BY <1>2, <1>3, <1>4

\* A single item is a batch.
LEMMA SingletonBatch ==
  ASSUME NEW d \in Item
  PROVE  /\ <<d>> \in Batches /\ <<d>> \in Seq(Item)
         /\ Len(<<d>>) = 1 /\ <<d>>[1] = d
<1>1. <<d>> \in [1 .. 1 -> Item]
  OBVIOUS
<1>2. 1 \in 1 .. MaxBatch
  BY BatchAssumption
<1> QED BY <1>1, <1>2 DEF Batches

-----------------------------------------------------------------------------
(* The inductive invariant *)

\* The cleared array with equal indices is the empty queue.
LEMMA InitIInv == Init => IInv
<1> SUFFICES ASSUME Init PROVE IInv
  OBVIOUS
<1> USE ItemAssumption, SizeAssumption, LineEndAssumption
<1>1. TypeOK
  BY DEF Init, TypeOK
<1>2. SlotsHoldQueue
  BY DEF Init, SlotsHoldQueue, front, back, Hidden, Slot
<1>3. InsideOperation
  BY DEF Init, InsideOperation
<1> QED BY <1>1, <1>2, <1>3 DEF IInv

\* The front of the queue is a slot, also between the two writes of inc().
LEMMA FrontType == ASSUME TypeOK PROVE front \in Slots
<1>1. pread \in Slots /\ 1 \in 0 .. Size
  BY SizeAssumption DEF TypeOK
<1>2. Slot(pread, 1) \in Slots
  BY <1>1, SlotType
<1> QED BY <1>1, <1>2 DEF front

\* The single test of push: a free slot under pwrite means the queue is not full.
LEMMA AvailableMeansRoom ==
  ASSUME IInv, pcP = "idle", available
  PROVE  Len(q) + 1 <= Size
<1> USE ItemAssumption, SizeAssumption
<1>1. SUFFICES ASSUME Len(q) = Size PROVE FALSE
  BY DEF IInv, TypeOK, SlotsHoldQueue
<1>2. front \in Slots
  BY FrontType DEF IInv
<1>3. pwrite = Slot(front, 0)
  BY <1>1, <1>2 DEF IInv, SlotsHoldQueue, back, Slot
<1>4. buf[pwrite] = q[1] /\ q[1] \in Item
  BY <1>1, <1>2, <1>3 DEF IInv, TypeOK, SlotsHoldQueue
<1> QED BY <1>4 DEF available

\* The single test of multipush: a free last slot means room for the batch.
LEMMA FitsMeansRoom ==
  ASSUME IInv, pcP = "idle", NEW b \in Batches, batchFits(b)
  PROVE  Len(q) + Len(b) <= Size
<1> USE ItemAssumption, SizeAssumption
<1> DEFINE n == Len(b)
           m == Len(q)
<1>1. n \in Nat \ {0} /\ n < Size /\ buf[Slot(pwrite, n - 1)] = NULL
  BY BatchType DEF batchFits
<1>2. m \in 0 .. Size /\ front \in Slots /\ pwrite = Slot(front, m)
  BY FrontType DEF IInv, TypeOK, SlotsHoldQueue, back
<1>3. SUFFICES ASSUME m + n > Size PROVE FALSE
  BY <1>1, <1>2
<1>4. m + n - 1 - Size \in Slots /\ m + n - 1 - Size < m
  BY <1>1, <1>2, <1>3
<1>5. Slot(pwrite, n - 1) = Slot(front, m + n - 1 - Size)
  BY <1>1, <1>2, <1>3 DEF Slot
<1>6. /\ buf[Slot(front, m + n - 1 - Size)] = q[m + n - 1 - Size + 1]
      /\ q[m + n - 1 - Size + 1] \in Item
  BY <1>4, <1>2 DEF IInv, TypeOK, SlotsHoldQueue
<1> QED BY <1>1, <1>5, <1>6

\* Starting to store changes no slot and hides nothing yet.
LEMMA StartIInv ==
  ASSUME IInv, pcP = "idle", NEW b \in Seq(Item), Len(b) \in Nat \ {0},
         Len(q) + Len(b) <= Size, StartStores(b),
         UNCHANGED <<buf, pread, pwrite, consumer, q, pushed, popped>>
  PROVE  IInv'
<1> USE SizeAssumption DEF consumer, StartStores
<1>1. TypeOK'
  BY DEF IInv, TypeOK
<1>2. SlotsHoldQueue'
  <2>1. front' = front /\ back' = back
    BY DEF front, back, Slot
  <2>2. \A i \in Slots : Hidden(i)' = NULL /\ Hidden(i) = NULL
    BY DEF Hidden, IInv, TypeOK
  <2> QED BY <2>1, <2>2 DEF IInv, SlotsHoldQueue, Slot
<1>3. InsideOperation'
  BY DEF IInv, TypeOK, InsideOperation
<1> QED BY <1>1, <1>2, <1>3 DEF IInv

\* A refused push changes only the answer.
LEMMA GiveUpIInv ==
  ASSUME IInv, GiveUp, UNCHANGED <<buf, pread, pwrite, consumer>>
  PROVE  IInv'
BY DEF IInv, GiveUp, TypeOK, SlotsHoldQueue, InsideOperation, front, back,
       Hidden, Slot, producer, consumer

\* push keeps the invariant.
LEMMA PushIInv == ASSUME IInv, NEW d \in Item, push(d) PROVE IInv'
<1>1. CASE available /\ StartStores(<<d>>) /\ UNCHANGED <<q, pushed, popped>>
  <2>1. pcP = "idle" /\ available
    BY <1>1 DEF push
  <2>2. Len(q) + Len(<<d>>) <= Size
    BY <2>1, AvailableMeansRoom, SingletonBatch
  <2>3. UNCHANGED <<buf, pread, pwrite, consumer, q, pushed, popped>>
    BY <1>1 DEF push
  <2>4. <<d>> \in Seq(Item) /\ Len(<<d>>) \in Nat \ {0}
    BY SingletonBatch
  <2> QED BY <1>1, <2>1, <2>2, <2>3, <2>4, StartIInv
<1>2. CASE ~available /\ GiveUp
  BY <1>2, GiveUpIInv DEF push
<1> QED BY <1>1, <1>2 DEF push

\* multipush keeps the invariant.
LEMMA MultipushIInv == ASSUME IInv, NEW b \in Batches, multipush(b) PROVE IInv'
<1>1. CASE batchFits(b) /\ StartStores(b) /\ UNCHANGED <<q, pushed, popped>>
  BY <1>1, BatchType, FitsMeansRoom, StartIInv DEF multipush
<1>2. CASE ~batchFits(b) /\ GiveUp
  BY <1>2, GiveUpIInv DEF multipush
<1> QED BY <1>1, <1>2 DEF multipush

\* Storing one item of the batch keeps the invariant; the store at offset 0
\* turns the hidden batch into the tail of the queue.
LEMMA StoreIInv == ASSUME IInv, StoreSlot PROVE IInv'
<1> USE SizeAssumption, ItemAssumption
<1> DEFINE m == Len(q)
           n == Len(batch)
<1>1. /\ m \in Nat /\ n \in Nat /\ k \in 1 .. n /\ m + n <= Size
      /\ front \in Slots /\ pwrite = Slot(front, m)
      /\ q \in Seq(Item) /\ batch \in Seq(Item)
  <2>1. pcP = "store"
    BY DEF StoreSlot
  <2>2. q \in Seq(Item) /\ batch \in Seq(Item) /\ m \in Nat /\ n \in Nat
    BY DEF IInv, TypeOK
  <2>3. k \in 1 .. n /\ m + n <= Size
    BY <2>1 DEF IInv, InsideOperation
  <2>4. front \in Slots
    BY FrontType DEF IInv
  <2>5. pwrite = Slot(front, m)
    BY <2>1 DEF IInv, SlotsHoldQueue, back
  <2> QED BY <2>2, <2>3, <2>4, <2>5
<1>2. /\ batch' = batch /\ pwrite' = pwrite /\ pread' = pread
      /\ pcC' = pcC /\ out' = out /\ popped' = popped
      /\ front' = front /\ k' = k - 1
  BY DEF StoreSlot, consumer, front, Slot
<1>3. m + k - 1 \in Slots /\ Slot(pwrite, k - 1) = Slot(front, m + k - 1)
  BY <1>1 DEF Slot
<1>4. Slot(front, m + k - 1) \in Slots
  BY <1>1, <1>3, SlotType
<1>5. batch[k] \in Item
  BY <1>1
<1>6. buf' = [buf EXCEPT ![Slot(front, m + k - 1)] = batch[k]]
  <2>1. nextStore = k - 1 /\ nextStore + 1 = k
    BY <1>1 DEF nextStore
  <2> QED BY <1>3, <2>1 DEF StoreSlot
<1>a. \A i \in Slots :
        buf[Slot(front, i)] = IF i < m THEN q[i + 1] ELSE Hidden(i)
  BY DEF IInv, SlotsHoldQueue
<1>b. \A i \in Slots : Hidden(i) =
        IF i - m >= k /\ i - m < n THEN batch[i - m + 1] ELSE NULL
  BY DEF Hidden, StoreSlot
<1>7. \A i \in Slots : buf'[Slot(front, i)] =
                         IF i = m + k - 1 THEN batch[k] ELSE buf[Slot(front, i)]
  <2> TAKE i \in Slots
  <2>1. Slot(front, i) \in Slots
    <3>1. i \in 0 .. Size
      OBVIOUS
    <3> QED BY <1>1, <3>1, SlotType
  <2>2. i # m + k - 1 => Slot(front, i) # Slot(front, m + k - 1)
    BY <1>1, <1>3, SlotInjective
  <2> QED BY <1>4, <1>6, <2>1, <2>2 DEF IInv, TypeOK
<1>8. CASE k = 1
  <2>1. /\ pcP' = "advance" /\ q' = q \o batch /\ pushed' = TRUE
        /\ q' \in Seq(Item) /\ Len(q') = m + n
    <3>1. pcP' = "advance" /\ q' = q \o batch /\ pushed' = TRUE
      BY <1>8 DEF StoreSlot
    <3>2. q \o batch \in Seq(Item) /\ Len(q \o batch) = m + n
      BY <1>1
    <3> QED BY <3>1, <3>2
  <2>2. TypeOK'
    BY <1>1, <1>2, <1>4, <1>5, <1>6, <2>1 DEF IInv, TypeOK
  <2>3. back' = Slot(front, m + n)
    BY <1>1, <1>2, <2>1, SlotCompose DEF back
  <2>4. \A i \in Slots : buf'[Slot(front, i)] =
           IF i < Len(q') THEN q'[i + 1] ELSE NULL
    <3> TAKE i \in Slots
    <3>1. CASE i < m
      <4>1. buf'[Slot(front, i)] = q[i + 1]
        BY <1>1, <1>7, <1>a, <3>1, SMTT(30)
      <4>2. q'[i + 1] = q[i + 1] /\ i < Len(q')
        BY <1>1, <2>1, <3>1
      <4> QED BY <4>1, <4>2
    <3>2. CASE i >= m /\ i < m + n
      <4>1. buf'[Slot(front, i)] = batch[i - m + 1]
        BY <1>1, <1>7, <1>8, <1>a, <1>b, <3>2
      <4>2. q'[i + 1] = batch[i - m + 1] /\ i < Len(q')
        BY <1>1, <2>1, <3>2
      <4> QED BY <4>1, <4>2
    <3>3. CASE i >= m + n
      BY <1>1, <1>7, <1>8, <1>a, <1>b, <2>1, <3>3
    <3> QED BY <1>1, <3>1, <3>2, <3>3
  <2>5. SlotsHoldQueue'
    <3>1. \A i \in Slots : Hidden(i)' = NULL
      BY <2>1 DEF Hidden
    <3> QED BY <1>1, <1>2, <2>1, <2>3, <2>4, <3>1 DEF SlotsHoldQueue, Slot
  <2>6. InsideOperation'
    <3>1. pcC = "clear" => q' # <<>> /\ out = Head(q')
      BY <1>1, <2>1 DEF IInv, InsideOperation
    <3>2. batch # <<>> /\ n <= Size
      BY <1>1
    <3> QED BY <1>2, <2>1, <3>1, <3>2 DEF InsideOperation
  <2> QED BY <2>2, <2>5, <2>6 DEF IInv
<1>9. CASE k # 1
  <2>1. pcP' = "store" /\ q' = q /\ pushed' = pushed /\ pcP = "store"
    BY <1>9 DEF StoreSlot
  <2>2. TypeOK'
    BY <1>1, <1>2, <1>4, <1>5, <1>6, <2>1 DEF IInv, TypeOK
  <2>3. SlotsHoldQueue'
    <3>1. back' = back
      BY <1>2, <2>1 DEF back
    <3>2. \A i \in Slots : i >= m => buf'[Slot(front, i)] = Hidden(i)'
      <4>1. \A i \in Slots : Hidden(i)' =
              IF i - m >= k - 1 /\ i - m < n THEN batch[i - m + 1] ELSE NULL
        BY <1>2, <2>1 DEF Hidden
      <4> TAKE i \in Slots
      <4> HAVE i >= m
      <4>2. CASE i = m + k - 1
        <5>1. i - m >= k - 1 /\ i - m < n /\ i - m + 1 = k
          BY <1>1, <4>2
        <5>2. Hidden(i)' = batch[k]
          BY <4>1, <5>1
        <5> QED BY <1>7, <4>2, <5>2
      <4>3. CASE i # m + k - 1
        <5>1. buf'[Slot(front, i)] = Hidden(i)
          BY <1>1, <1>7, <1>a, <4>3
        <5>2. i - m >= k - 1 <=> i - m >= k
          BY <1>1, <4>3
        <5> QED BY <1>b, <4>1, <5>1, <5>2
      <4> QED BY <4>2, <4>3
    <3>3. \A i \in Slots : i < m => buf'[Slot(front, i)] = q[i + 1]
      <4> TAKE i \in Slots
      <4> HAVE i < m
      <4>1. i # m + k - 1
        BY <1>1
      <4>2. buf'[Slot(front, i)] = buf[Slot(front, i)]
        BY <1>7, <4>1
      <4> QED BY <1>a, <4>2
    <3>4. \A i \in Slots :
            buf'[Slot(front, i)] = IF i < m THEN q[i + 1] ELSE Hidden(i)'
      <4> TAKE i \in Slots
      <4>1. i < m \/ i >= m
        BY <1>1
      <4> QED BY <3>2, <3>3, <4>1
    <3>5. front' = front /\ Slot(front, m)' = Slot(front, m)
          /\ \A i \in Slots : Slot(front, i)' = Slot(front, i)
      BY <1>2, <2>1 DEF Slot
    <3>6. m <= Size /\ back = Slot(front, m)
      BY DEF IInv, SlotsHoldQueue
    <3> QED BY <2>1, <3>1, <3>4, <3>5, <3>6 DEF SlotsHoldQueue
  <2>4. InsideOperation'
    BY <1>1, <1>2, <1>9, <2>1 DEF IInv, InsideOperation
  <2> QED BY <2>2, <2>3, <2>4 DEF IInv
<1> QED BY <1>8, <1>9

\* Moving pwrite past the batch keeps the invariant: back was already there.
LEMMA AdvanceWriteIInv == ASSUME IInv, AdvanceWrite PROVE IInv'
<1> USE SizeAssumption, ItemAssumption DEF consumer
<1>1. batch # <<>> /\ Len(batch) \in 0 .. Size /\ pwrite \in Slots
  BY DEF IInv, TypeOK, InsideOperation, AdvanceWrite
<1>2. Slot(pwrite, Len(batch)) \in Slots
  BY <1>1, SlotType
<1>3. TypeOK'
  BY <1>2 DEF IInv, TypeOK, AdvanceWrite
<1>4. SlotsHoldQueue'
  <2>1. front' = front /\ back' = back
    BY DEF front, back, Slot, AdvanceWrite
  <2>2. \A i \in Slots : Hidden(i)' = NULL /\ Hidden(i) = NULL
    BY DEF Hidden, AdvanceWrite
  <2> QED BY <2>1, <2>2 DEF IInv, SlotsHoldQueue, Slot, AdvanceWrite
<1>5. InsideOperation'
  BY DEF IInv, InsideOperation, AdvanceWrite
<1> QED BY <1>3, <1>4, <1>5 DEF IInv

\* The slot under pread is NULL exactly when no item is visible.
LEMMA EmptyMeansEmpty ==
  ASSUME IInv, pcC = "idle"
  PROVE  /\ empty <=> q = <<>>
         /\ q # <<>> => buf[pread] = Head(q)
<1> USE SizeAssumption, ItemAssumption
<1>1. pread \in Slots /\ 0 \in Slots /\ front = pread /\ Slot(front, 0) = pread
  BY DEF IInv, TypeOK, front, Slot
<1>2. buf[pread] = IF 0 < Len(q) THEN q[1] ELSE Hidden(0)
  BY <1>1 DEF IInv, SlotsHoldQueue
<1>3. CASE q = <<>>
  <2>1. Hidden(0) = NULL
    BY <1>3 DEF Hidden, IInv, InsideOperation, TypeOK
  <2> QED BY <1>2, <1>3, <2>1 DEF empty
<1>4. CASE q # <<>>
  <2>1. 0 < Len(q) /\ q[1] \in Item /\ Head(q) = q[1]
    BY <1>4 DEF IInv, TypeOK
  <2> QED BY <1>2, <1>4, <2>1 DEF empty
<1> QED BY <1>3, <1>4

\* pop's test and read keep the invariant: the pointer read is the oldest item.
LEMMA PopIInv == ASSUME IInv, pop PROVE IInv'
<1> USE SizeAssumption, ItemAssumption DEF producer, consumer
<1>1. pcC = "idle"
  BY DEF pop
<1>2. CASE empty /\ popped' = NULL /\ UNCHANGED consumer
  BY <1>2 DEF IInv, TypeOK, SlotsHoldQueue, InsideOperation, pop, front, back,
              Hidden, Slot
<1>3. CASE ~empty /\ out' = buf[pread] /\ pcC' = "clear" /\ UNCHANGED popped
  <2>1. q # <<>> /\ out' = Head(q) /\ out' \in Item
    <3>1. q # <<>> /\ out' = Head(q)
      BY <1>1, <1>3, EmptyMeansEmpty
    <3> QED BY <3>1 DEF IInv, TypeOK
  <2>2. TypeOK'
    BY <1>3, <2>1 DEF IInv, TypeOK, pop
  <2>3. SlotsHoldQueue'
    BY <1>1, <1>3 DEF IInv, SlotsHoldQueue, pop, front, back, Hidden, Slot
  <2>4. InsideOperation'
    BY <1>3, <2>1 DEF IInv, InsideOperation, pop
  <2> QED BY <2>2, <2>3, <2>4 DEF IInv
<1> QED BY <1>2, <1>3 DEF pop

\* Freeing the slot removes the oldest item and moves the front by one.
LEMMA ClearIInv == ASSUME IInv, ClearSlot PROVE IInv'
<1> USE SizeAssumption, ItemAssumption DEF producer
<1> DEFINE m == Len(q)
<1>1. /\ pread \in Slots /\ front = pread /\ m \in 1 .. Size
      /\ q \in Seq(Item) /\ q # <<>> /\ out = Head(q)
  BY DEF IInv, TypeOK, SlotsHoldQueue, InsideOperation, ClearSlot, front
<1>2. /\ pread' = pread /\ pwrite' = pwrite /\ pcP' = pcP /\ batch' = batch
      /\ k' = k /\ pcC' = "advance" /\ popped' = out /\ q' = Tail(q)
      /\ buf' = [buf EXCEPT ![pread] = NULL]
  BY DEF ClearSlot
<1>3. /\ q' \in Seq(Item) /\ Len(q') = m - 1 /\ out \in Item
      /\ \A i \in 1 .. m - 1 : q'[i] = q[i + 1]
  BY <1>1, <1>2
<1>4. TypeOK'
  BY <1>1, <1>2, <1>3 DEF IInv, TypeOK, ClearSlot
<1>5. front' = Slot(pread, 1) /\ back' = back
  BY <1>2 DEF front, back, Slot
<1>6. back' = Slot(front', Len(q'))
  <2>1. Slot(Slot(pread, 1), m - 1) = Slot(pread, 1 + (m - 1))
    BY <1>1, SlotCompose
  <2>2. back = Slot(pread, m)
    BY <1>1 DEF IInv, SlotsHoldQueue
  <2>3. 1 + (m - 1) = m
    BY <1>1
  <2> QED BY <1>3, <1>5, <2>1, <2>2, <2>3
<1>7. \A i \in Slots : buf[Slot(pread, i)] = IF i < m THEN q[i + 1] ELSE Hidden(i)
  BY <1>1 DEF IInv, SlotsHoldQueue
<1>8. pcP = "store" => k \in 1 .. Len(batch) /\ m + Len(batch) <= Size
  BY DEF IInv, InsideOperation
<1>9. \A i \in Slots : buf'[Slot(front', i)] =
                         IF i < Len(q') THEN q'[i + 1] ELSE Hidden(i)'
  <2> TAKE i \in Slots
  <2>1. CASE i = Size - 1
    <3>1. Slot(front', i) = pread
      BY <1>1, <1>5, <2>1 DEF Slot
    <3>2. buf'[Slot(front', i)] = NULL
      BY <1>1, <1>2, <3>1 DEF IInv, TypeOK
    <3>3. ~(i < Len(q'))
      BY <1>1, <1>3, <2>1
    <3>4. Hidden(i)' = NULL
      BY <1>1, <1>2, <1>3, <1>8, <2>1 DEF Hidden, IInv, TypeOK
    <3> QED BY <3>2, <3>3, <3>4
  <2>2. CASE i # Size - 1
    <3>1. i + 1 \in Slots /\ Slot(front', i) = Slot(pread, i + 1)
      BY <1>1, <1>5, <2>2 DEF Slot
    <3>2. Slot(pread, i + 1) # pread /\ Slot(pread, i + 1) \in Slots
      BY <1>1, <3>1 DEF Slot
    <3>3. buf'[Slot(front', i)] = buf[Slot(pread, i + 1)]
      BY <1>2, <3>1, <3>2 DEF IInv, TypeOK
    <3>4. buf[Slot(pread, i + 1)] =
            IF i + 1 < m THEN q[i + 1 + 1] ELSE Hidden(i + 1)
      BY <1>7, <3>1
    <3>5. CASE i + 1 < m
      <4>1. i < Len(q') /\ q'[i + 1] = q[i + 1 + 1]
        BY <1>1, <1>3, <3>1, <3>5
      <4> QED BY <3>3, <3>4, <3>5, <4>1
    <3>6. CASE ~(i + 1 < m)
      <4>1. ~(i < Len(q'))
        BY <1>1, <1>3, <3>6
      <4>2. Hidden(i)' = Hidden(i + 1)
        BY <1>1, <1>2, <1>3 DEF Hidden, IInv, TypeOK
      <4> QED BY <3>3, <3>4, <3>6, <4>1, <4>2
    <3> QED BY <3>5, <3>6
  <2> QED BY <2>1, <2>2
<1>10. SlotsHoldQueue'
  BY <1>1, <1>3, <1>6, <1>9 DEF SlotsHoldQueue, Slot
<1>11. InsideOperation'
  BY <1>1, <1>2, <1>3, <1>8 DEF IInv, InsideOperation, TypeOK
<1> QED BY <1>4, <1>10, <1>11 DEF IInv

\* Moving pread keeps the invariant: the front was already there.
LEMMA AdvanceReadIInv == ASSUME IInv, AdvanceRead PROVE IInv'
<1> USE SizeAssumption, ItemAssumption DEF producer
<1>1. Slot(pread, 1) \in Slots
  BY FrontType DEF IInv, AdvanceRead, front
<1>2. TypeOK'
  BY <1>1 DEF IInv, TypeOK, AdvanceRead
<1>3. SlotsHoldQueue'
  BY DEF IInv, SlotsHoldQueue, AdvanceRead, front, back, Hidden, Slot
<1>4. InsideOperation'
  BY DEF IInv, InsideOperation, AdvanceRead
<1> QED BY <1>2, <1>3, <1>4 DEF IInv

\* reset leaves the empty queue.
LEMMA ResetIInv == ASSUME IInv, NEW s \in {0, LineEnd}, reset(s) PROVE IInv'
<1> USE SizeAssumption, ItemAssumption, LineEndAssumption DEF producer, consumer
<1>1. TypeOK'
  BY DEF IInv, TypeOK, reset
<1>2. SlotsHoldQueue'
  BY DEF IInv, SlotsHoldQueue, reset, front, back, Hidden, Slot
<1>3. InsideOperation'
  BY DEF IInv, InsideOperation, reset
<1> QED BY <1>1, <1>2, <1>3 DEF IInv

\* Every step keeps the invariant.
LEMMA NextIInv == ASSUME IInv, [Next]_vars PROVE IInv'
<1>1. CASE Produce
  BY <1>1, PushIInv, MultipushIInv, StoreIInv, AdvanceWriteIInv DEF Produce
<1>2. CASE Consume
  BY <1>2, PopIInv, ClearIInv, AdvanceReadIInv DEF Consume
<1>3. CASE \E s \in {0, LineEnd} : reset(s)
  BY <1>3, ResetIInv
<1>4. CASE UNCHANGED vars
  BY <1>4 DEF vars, IInv, TypeOK, SlotsHoldQueue, InsideOperation, front, back,
              Hidden, Slot
<1> QED BY <1>1, <1>2, <1>3, <1>4 DEF Next

-----------------------------------------------------------------------------
(* What the channel guarantees *)

\* In every reachable state of push, multipush, pop and reset the fields have
\* their types: neither index ever leaves the array.
THEOREM TypeCorrect == Spec => []TypeOK
<1>1. Init => IInv
  BY InitIInv
<1>2. IInv /\ [Next]_vars => IInv'
  BY NextIInv
<1>3. IInv => TypeOK
  BY DEF IInv
<1> QED BY <1>1, <1>2, <1>3, PTL DEF Spec

\* The slots always are the queue: this is the invariant behind the lock-free
\* protocol of buffer.hpp, for every size and batch.
THEOREM SlotsCorrect == Spec => [](SlotsHoldQueue /\ InsideOperation)
<1>1. Init => IInv
  BY InitIInv
<1>2. IInv /\ [Next]_vars => IInv'
  BY NextIInv
<1>3. IInv => SlotsHoldQueue /\ InsideOperation
  BY DEF IInv
<1> QED BY <1>1, <1>2, <1>3, PTL DEF Spec

\* Between operations length() counts the items, whatever the size.
THEOREM LengthCorrect == Spec => []QuietLength
<1>1. IInv => QuietLength
  <2> SUFFICES ASSUME IInv, pcP = "idle", pcC = "idle" PROVE length = Len(q)
    BY DEF QuietLength
  <2> USE SizeAssumption, ItemAssumption
  <2>1. /\ pread \in Slots /\ pwrite \in Slots /\ Len(q) \in 0 .. Size
        /\ pwrite = Slot(pread, Len(q)) /\ q \in Seq(Item)
    BY DEF IInv, TypeOK, SlotsHoldQueue, front, back
  <2>2. CASE pwrite # pread
    BY <2>1, <2>2 DEF length, Slot
  <2>3. CASE pwrite = pread
    <3>1. Len(q) = 0 \/ Len(q) = Size
      BY <2>1, <2>3 DEF Slot
    <3>2. buf[pread] = NULL <=> q = <<>>
      BY EmptyMeansEmpty DEF empty
    <3>3. q = <<>> <=> Len(q) = 0
      BY <2>1
    <3> QED BY <2>1, <2>3, <3>1, <3>2, <3>3 DEF length
  <2> QED BY <2>2, <2>3
<1>2. Init => IInv
  BY InitIInv
<1>3. IInv /\ [Next]_vars => IInv'
  BY NextIInv
<1> QED BY <1>1, <1>2, <1>3, PTL DEF Spec

\* No step replaces an item the consumer has not taken.
THEOREM NeverOverwrites == Spec => NoOverwrite
<1> DEFINE Keeps == \A s \in Slots : buf[s] # NULL => buf'[s] \in {buf[s], NULL}
<1>1. ASSUME IInv, StoreSlot PROVE Keeps
  <2> USE SizeAssumption, ItemAssumption
  <2>1. /\ Len(q) \in Nat /\ k \in 1 .. Len(batch) /\ Len(batch) \in Nat
        /\ Len(q) + Len(batch) <= Size /\ k \in Nat
        /\ front \in Slots /\ pwrite = Slot(front, Len(q))
    <3>1. pcP = "store"
      BY <1>1 DEF StoreSlot
    <3>2. front \in Slots
      BY <1>1, FrontType DEF IInv
    <3>3. pwrite = Slot(front, Len(q))
      BY <1>1, <3>1 DEF IInv, SlotsHoldQueue, back
    <3>4. Len(q) \in Nat /\ Len(batch) \in Nat /\ k \in Nat
      BY <1>1 DEF IInv, TypeOK
    <3>5. k \in 1 .. Len(batch) /\ Len(q) + Len(batch) <= Size
      BY <1>1, <3>1 DEF IInv, InsideOperation
    <3> QED BY <3>2, <3>3, <3>4, <3>5
  <2>2. /\ Len(q) + k - 1 \in Slots
        /\ Slot(pwrite, k - 1) = Slot(front, Len(q) + k - 1)
    BY <2>1 DEF Slot
  <2>3. buf[Slot(front, Len(q) + k - 1)] = Hidden(Len(q) + k - 1)
    BY <1>1, <2>1, <2>2 DEF IInv, SlotsHoldQueue
  <2>4. Hidden(Len(q) + k - 1) = NULL
    BY <2>1 DEF Hidden
  <2>5. \E v : buf' = [buf EXCEPT ![Slot(pwrite, k - 1)] = v]
    BY <1>1 DEF StoreSlot, nextStore
  <2> QED BY <1>1, <2>2, <2>3, <2>4, <2>5 DEF IInv, TypeOK
<1>2. ASSUME IInv, [Next]_vars PROVE Keeps
  <2>1. CASE ClearSlot
    BY <1>2, <2>1 DEF ClearSlot, IInv, TypeOK
  <2>2. CASE \E s \in {0, LineEnd} : reset(s)
    BY <2>2 DEF reset
  <2>3. CASE UNCHANGED buf
    BY <2>3
  <2> QED BY <1>1, <1>2, <2>1, <2>2, <2>3
          DEF Next, Produce, Consume, push, multipush, AdvanceWrite, pop,
              AdvanceRead, vars
<1>3. IInv /\ [Next]_vars => [Keeps]_vars
  BY <1>2
<1>4. Init => IInv
  BY InitIInv
<1>5. IInv /\ [Next]_vars => IInv'
  BY NextIInv
<1> QED BY <1>3, <1>4, <1>5, PTL DEF Spec, NoOverwrite

-----------------------------------------------------------------------------
(* Refinement *)

\* The batch in the producer's hands is one it was given.
BatchInv == pcP # "idle" => batch \in Batches

\* No step changes the batch under way.
LEMMA NextBatchInv == ASSUME BatchInv, [Next]_vars PROVE BatchInv'
<1>1. ASSUME NEW d \in Item, push(d) PROVE BatchInv'
  BY <1>1, SingletonBatch DEF BatchInv, push, StartStores, GiveUp, producer
<1>2. ASSUME NEW b \in Batches, multipush(b) PROVE BatchInv'
  BY <1>2 DEF BatchInv, multipush, StartStores, GiveUp, producer
<1>3. CASE StoreSlot
  BY <1>3 DEF BatchInv, StoreSlot
<1>4. CASE AdvanceWrite
  BY <1>4 DEF BatchInv, AdvanceWrite
<1>5. CASE UNCHANGED producer
  BY <1>5 DEF BatchInv, producer
<1> QED BY <1>1, <1>2, <1>3, <1>4, <1>5
        DEF Next, Produce, Consume, pop, ClearSlot, AdvanceRead, reset, vars,
            producer

\* A refusal is given only for lack of room: push's occupied slot, or
\* multipush's occupied last slot, means the items leave no place for the batch.
LEMMA RefusalMeansFull ==
  ASSUME IInv, pcP = "idle", NEW n \in Nat \ {0}, n <= Size,
         buf[Slot(pwrite, n - 1)] # NULL
  PROVE  Len(q) + n > Size
<1> USE SizeAssumption
<1>1. front \in Slots /\ Len(q) \in Nat /\ pwrite = Slot(front, Len(q))
  BY FrontType DEF IInv, TypeOK, SlotsHoldQueue, back
<1>2. SUFFICES ASSUME Len(q) + n <= Size PROVE FALSE
  BY <1>1
<1>3. /\ Len(q) + n - 1 \in Slots
      /\ Slot(pwrite, n - 1) = Slot(front, Len(q) + n - 1)
  BY <1>1, <1>2 DEF Slot
<1>4. buf[Slot(front, Len(q) + n - 1)] = Hidden(Len(q) + n - 1)
  BY <1>1, <1>3 DEF IInv, SlotsHoldQueue
<1> QED BY <1>3, <1>4 DEF Hidden

\* Each step of the two threads is a step of the queue or invisible to its users.
LEMMA StepRefines ==
  ASSUME IInv, BatchInv, [Next]_vars
  PROVE  [Fifo!FifoNext]_(Fifo!fifoVars)
<1> USE SizeAssumption DEF Fifo!FifoNext, Fifo!fifoVars
<1>1. ASSUME NEW d \in Item, push(d) PROVE [Fifo!FifoNext]_(Fifo!fifoVars)
  <2>1. CASE UNCHANGED <<q, pushed, popped>>
    BY <2>1
  <2>2. CASE ~available /\ GiveUp
    <3>1. buf[Slot(pwrite, 1 - 1)] # NULL /\ pcP = "idle"
      BY <1>1, <2>2 DEF available, Slot, push, IInv, TypeOK
    <3>2. Len(q) + Len(<<d>>) > Size
      BY <3>1, RefusalMeansFull, SingletonBatch
    <3>3. Fifo!Refuse(<<d>>)
      BY <2>2, <3>2 DEF Fifo!Refuse, GiveUp
    <3> QED BY <3>3, SingletonBatch
  <2> QED BY <1>1, <2>1, <2>2 DEF push
<1>2. ASSUME NEW b \in Batches, multipush(b)
      PROVE  [Fifo!FifoNext]_(Fifo!fifoVars)
  <2>1. CASE UNCHANGED <<q, pushed, popped>>
    BY <2>1
  <2>2. CASE ~batchFits(b) /\ GiveUp
    <3>1. Len(b) \in Nat \ {0} /\ pcP = "idle"
      BY <1>2, BatchType DEF multipush
    <3>2. Len(b) >= Size \/ Len(q) + Len(b) > Size
      BY <2>2, <3>1, RefusalMeansFull DEF batchFits
    <3>3. Fifo!Refuse(b)
      BY <2>2, <3>2 DEF Fifo!Refuse, GiveUp
    <3> QED BY <3>3
  <2> QED BY <1>2, <2>1, <2>2 DEF multipush
<1>3. ASSUME StoreSlot PROVE [Fifo!FifoNext]_(Fifo!fifoVars)
  <2>1. CASE k = 1
    <3>1. Fifo!Offer(batch)
      BY <1>3, <2>1 DEF Fifo!Offer, StoreSlot, IInv, InsideOperation
    <3>2. batch \in Batches
      BY <1>3 DEF BatchInv, StoreSlot
    <3> QED BY <3>1, <3>2
  <2>2. CASE k # 1
    BY <1>3, <2>2 DEF StoreSlot
  <2> QED BY <2>1, <2>2
<1>4. ASSUME pop PROVE [Fifo!FifoNext]_(Fifo!fifoVars)
  <2>1. CASE empty /\ popped' = NULL
    <3>1. q = <<>>
      BY <1>4, <2>1, EmptyMeansEmpty DEF pop
    <3>2. Fifo!Miss
      BY <1>4, <2>1, <3>1 DEF Fifo!Miss, pop
    <3> QED BY <3>2
  <2>2. CASE UNCHANGED <<q, pushed, popped>>
    BY <2>2
  <2> QED BY <1>4, <2>1, <2>2 DEF pop
<1>5. ASSUME ClearSlot PROVE [Fifo!FifoNext]_(Fifo!fifoVars)
  <2>1. Fifo!Take
    BY <1>5 DEF Fifo!Take, ClearSlot, IInv, InsideOperation
  <2> QED BY <2>1
<1>6. ASSUME NEW s \in {0, LineEnd}, reset(s)
      PROVE  [Fifo!FifoNext]_(Fifo!fifoVars)
  <2>1. Fifo!Empty
    BY <1>6 DEF Fifo!Empty, reset
  <2> QED BY <2>1
<1>7. CASE UNCHANGED <<q, pushed, popped>>
  BY <1>7
<1> QED BY <1>1, <1>2, <1>3, <1>4, <1>5, <1>6, <1>7
        DEF Next, Produce, Consume, AdvanceWrite, AdvanceRead, vars

\* The lock-free channel implements the abstract queue for every size, item
\* set and batch length: items come out in order, none is lost or repeated,
\* batches enter indivisibly, and refusals and misses are truthful.
THEOREM Refinement == Spec => ImplementsFifo
<1>1. Init => Fifo!FifoInit
  BY DEF Init, Fifo!FifoInit
<1>2. Init => IInv /\ BatchInv
  BY InitIInv DEF Init, BatchInv
<1>3. IInv /\ BatchInv /\ [Next]_vars => IInv' /\ BatchInv'
  BY NextIInv, NextBatchInv
<1>4. IInv /\ BatchInv /\ [Next]_vars => [Fifo!FifoNext]_(Fifo!fifoVars)
  BY StepRefines
<1> QED BY <1>1, <1>2, <1>3, <1>4, PTL DEF Spec, ImplementsFifo, Fifo!FifoSpec

-----------------------------------------------------------------------------
(* The unbounded channel: its constants (the slots of a channel are Size) and *)
(* its variables, with names of their own where the bounded one has the same. *)
CONSTANTS CacheSize, MaxPush, Modulus

VARIABLES cont, live, buf_r, buf_w, in_use_buffers, fixedsize, inuse, bufcache,
          atP, t, regP, atC, tmp, regC, sent, rcvd, sawEmpty, answer

Unb == INSTANCE UnboundedBuffer WITH pcP <- atP, pcC <- atC

\* A channel in the middle of the chain was filled before the producer left it, and
\* the consumer has not come to it.
MiddleFull == \A i \in 2 .. Len(Unb!chain) - 1 : cont[Unb!chain[i]] # <<>>

\* What the producer may rely on between two steps.
Writing ==
  /\ atP # "idle" => sent < MaxPush
  /\ atP \in {"next", "link"} /\ Len(Unb!chain) > 1 => cont[Unb!chain[Len(Unb!chain)]] # <<>>
  /\ atP \in {"link", "switch"} => t \in Unb!Buffers /\ cont[t] = <<>>
  /\ atP = "switch" => Len(Unb!chain) > 1 /\ t = Unb!chain[Len(Unb!chain)]
  /\ atP \in {"count", "add", "put"} => Len(cont[buf_w]) < Size

\* What the consumer may rely on: it leaves a channel only when that is empty and
\* the producer has left it, and the next one is empty only as the last.
Reading ==
  /\ Unb!holding => tmp \in Unb!Buffers
  /\ atC = "compare" /\ buf_r = buf_w => sawEmpty
  /\ atC \in {"recheck", "unlink", "clear", "recycle"} => buf_r # buf_w
  /\ atC \in {"unlink", "clear", "recycle"} => cont[buf_r] = <<>>
  /\ atC = "get" \/ Unb!given =>
       cont[Unb!chain[1]] # <<>> \/ (Len(Unb!chain) = 1 /\ atP \notin {"next", "link"})

\* The inductive invariant.
ChannelIInv ==
  /\ Unb!TypeOK /\ Unb!ChainHoldsQueue /\ Unb!OneOwner /\ Unb!TruthfulMiss
  /\ MiddleFull /\ Writing /\ Reading

-----------------------------------------------------------------------------
(* Sequences *)

\* The members of a sequence, and its places when none is repeated.
LEMMA Members ==
  ASSUME NEW S, NEW s \in Seq(S)
  PROVE  /\ DOMAIN s = 1 .. Len(s) /\ Len(s) \in Nat
         /\ \A i \in 1 .. Len(s) : s[i] \in S /\ s[i] \in Unb!Range(s)
         /\ \A x \in Unb!Range(s) : \E i \in 1 .. Len(s) : x = s[i]
         /\ Unb!Range(s) \subseteq S
         /\ Unb!IsInjective(s) <=> \A i, j \in 1 .. Len(s) : s[i] = s[j] => i = j
BY DEF Unb!Range, Unb!IsInjective

\* One more at the end.
LEMMA OneMore ==
  ASSUME NEW S, NEW s \in Seq(S), NEW x \in S
  PROVE  /\ Append(s, x) \in Seq(S) /\ Len(Append(s, x)) = Len(s) + 1
         /\ \A i \in 1 .. Len(s) : Append(s, x)[i] = s[i]
         /\ Append(s, x)[Len(s) + 1] = x
         /\ Unb!Range(Append(s, x)) = Unb!Range(s) \cup {x}
         /\ Unb!IsInjective(s) /\ x \notin Unb!Range(s) => Unb!IsInjective(Append(s, x))
<1>1. /\ Append(s, x) \in Seq(S) /\ Len(Append(s, x)) = Len(s) + 1 /\ Len(s) \in Nat
      /\ \A i \in 1 .. Len(s) : Append(s, x)[i] = s[i]
      /\ Append(s, x)[Len(s) + 1] = x
  OBVIOUS
<1>2. DOMAIN s = 1 .. Len(s) /\ DOMAIN Append(s, x) = 1 .. (Len(s) + 1)
  BY <1>1
<1>3. Unb!Range(Append(s, x)) = Unb!Range(s) \cup {x}
  BY <1>1, <1>2 DEF Unb!Range
<1>4. ASSUME Unb!IsInjective(s), x \notin Unb!Range(s) PROVE Unb!IsInjective(Append(s, x))
  <2> SUFFICES ASSUME NEW i \in 1 .. (Len(s) + 1), NEW j \in 1 .. (Len(s) + 1),
                      Append(s, x)[i] = Append(s, x)[j]
               PROVE  i = j
    BY <1>2 DEF Unb!IsInjective
  <2>1. \A l \in 1 .. Len(s) : Append(s, x)[l] # x
    BY <1>1, <1>2, <1>4 DEF Unb!Range
  <2>2. \A l \in 1 .. (Len(s) + 1) : l \in 1 .. Len(s) \/ l = Len(s) + 1
    BY <1>1
  <2>3. CASE i \in 1 .. Len(s) /\ j \in 1 .. Len(s)
    <3>1. s[i] = s[j]
      BY <1>1, <2>3
    <3> QED BY <1>2, <1>4, <2>3, <3>1 DEF Unb!IsInjective
  <2> QED BY <1>1, <2>1, <2>2, <2>3
<1> QED BY <1>1, <1>3, <1>4

\* One more at the front.
LEMMA OneBefore ==
  ASSUME NEW S, NEW s \in Seq(S), NEW x \in S
  PROVE  /\ <<x>> \o s \in Seq(S) /\ Len(<<x>> \o s) = Len(s) + 1 /\ <<x>> \o s # <<>>
         /\ (<<x>> \o s)[1] = x /\ \A i \in 1 .. Len(s) : (<<x>> \o s)[i + 1] = s[i]
         /\ Head(<<x>> \o s) = x /\ Tail(<<x>> \o s) = s
<1>1. <<x>> \in Seq(S) /\ Len(<<x>>) = 1 /\ <<x>>[1] = x /\ Len(s) \in Nat
  OBVIOUS
<1>2. /\ <<x>> \o s \in Seq(S) /\ Len(<<x>> \o s) = 1 + Len(s)
      /\ \A i \in 1 .. 1 + Len(s) : (<<x>> \o s)[i] = IF i <= 1 THEN <<x>>[i] ELSE s[i - 1]
  BY <1>1, ConcatProperties
<1>3. (<<x>> \o s)[1] = x
  BY <1>1, <1>2
<1>4. ASSUME NEW i \in 1 .. Len(s) PROVE (<<x>> \o s)[i + 1] = s[i]
  <2>1. i + 1 \in 1 .. 1 + Len(s) /\ ~(i + 1 <= 1) /\ i + 1 - 1 = i
    BY <1>1
  <2> QED BY <1>2, <2>1
<1>5. <<x>> \o s # <<>>
  BY <1>1, <1>2
<1>6. Tail(<<x>> \o s) = s
  <2> DEFINE c == <<x>> \o s
  <2>1. /\ Tail(c) \in Seq(S) /\ Len(Tail(c)) = Len(c) - 1
        /\ \A i \in 1 .. Len(Tail(c)) : Tail(c)[i] = c[i + 1]
    BY <1>2, <1>5, HeadTailProperties
  <2>2. Len(Tail(c)) = Len(s) /\ \A i \in 1 .. Len(Tail(c)) : Tail(c)[i] = s[i]
    BY <1>1, <1>2, <1>4, <2>1
  <2> HIDE DEF c
  <2>3. Tail(c) = s
    BY <2>1, <2>2, SeqEqual
  <2> QED BY <2>3 DEF c
<1>7. Head(<<x>> \o s) = x
  BY <1>2, <1>3, <1>5
<1> QED BY <1>1, <1>2, <1>3, <1>4, <1>5, <1>6, <1>7

\* One less at the front.
LEMMA OneLess ==
  ASSUME NEW S, NEW s \in Seq(S), s # <<>>
  PROVE  /\ Tail(s) \in Seq(S) /\ Len(Tail(s)) = Len(s) - 1 /\ Len(s) \in Nat \ {0}
         /\ \A i \in 1 .. Len(s) - 1 : Tail(s)[i] = s[i + 1]
         /\ Head(s) = s[1] /\ s[1] \in S /\ s[1] \in Unb!Range(s)
         /\ <<Head(s)>> \o Tail(s) = s
         /\ Unb!Range(Tail(s)) \cup {s[1]} = Unb!Range(s)
         /\ Unb!IsInjective(s) => Unb!IsInjective(Tail(s)) /\ s[1] \notin Unb!Range(Tail(s))
<1>1. /\ Tail(s) \in Seq(S) /\ Len(Tail(s)) = Len(s) - 1 /\ Len(s) \in Nat \ {0}
      /\ \A i \in 1 .. Len(s) - 1 : Tail(s)[i] = s[i + 1]
      /\ Head(s) = s[1] /\ s[1] \in S
  OBVIOUS
<1>2. DOMAIN s = 1 .. Len(s) /\ DOMAIN Tail(s) = 1 .. Len(s) - 1
  BY <1>1
<1>3. s[1] \in Unb!Range(s)
  BY <1>1, <1>2 DEF Unb!Range
<1>4. Unb!Range(Tail(s)) \cup {s[1]} = Unb!Range(s)
  <2>1. ASSUME NEW x \in Unb!Range(Tail(s)) PROVE x \in Unb!Range(s)
    <3>1. PICK i \in 1 .. Len(s) - 1 : x = Tail(s)[i]
      BY <1>2 DEF Unb!Range
    <3>2. x = s[i + 1] /\ i + 1 \in 1 .. Len(s)
      BY <1>1, <3>1
    <3> QED BY <1>2, <3>2 DEF Unb!Range
  <2>2. ASSUME NEW x \in Unb!Range(s), x # s[1] PROVE x \in Unb!Range(Tail(s))
    <3>1. PICK i \in 1 .. Len(s) : x = s[i]
      BY <1>2 DEF Unb!Range
    <3>2. i # 1 /\ i - 1 \in 1 .. Len(s) - 1 /\ (i - 1) + 1 = i
      BY <1>1, <2>2, <3>1
    <3>3. x = Tail(s)[i - 1]
      BY <1>1, <3>1, <3>2
    <3> QED BY <1>2, <3>2, <3>3 DEF Unb!Range
  <2> QED BY <1>3, <2>1, <2>2
<1>5. ASSUME Unb!IsInjective(s)
      PROVE  Unb!IsInjective(Tail(s)) /\ s[1] \notin Unb!Range(Tail(s))
  <2>1. \A i, j \in 1 .. Len(s) : s[i] = s[j] => i = j
    BY <1>2, <1>5 DEF Unb!IsInjective
  <2>2. \A i \in 1 .. Len(s) - 1 : i + 1 \in 1 .. Len(s) /\ i + 1 # 1 /\ 1 \in 1 .. Len(s)
    BY <1>1
  <2>3. \A i, j \in 1 .. Len(s) - 1 : Tail(s)[i] = Tail(s)[j] => i = j
    <3> TAKE i, j \in 1 .. Len(s) - 1
    <3> HAVE Tail(s)[i] = Tail(s)[j]
    <3>1. s[i + 1] = s[j + 1]
      BY <1>1
    <3> QED BY <2>1, <2>2, <3>1
  <2>4. \A i \in 1 .. Len(s) - 1 : Tail(s)[i] # s[1]
    BY <1>1, <2>1, <2>2
  <2> QED BY <1>2, <2>3, <2>4 DEF Unb!IsInjective, Unb!Range
<1>6. <<Head(s)>> \o Tail(s) = s
  <2> DEFINE c == <<Head(s)>> \o Tail(s)
  <2>1. /\ c \in Seq(S) /\ Len(c) = Len(Tail(s)) + 1
        /\ c[1] = Head(s) /\ \A i \in 1 .. Len(Tail(s)) : c[i + 1] = Tail(s)[i]
    BY <1>1, OneBefore
  <2>2. Len(c) = Len(s)
    BY <1>1, <2>1
  <2>3. ASSUME NEW i \in 1 .. Len(c) PROVE c[i] = s[i]
    <3>1. CASE i = 1
      BY <1>1, <2>1, <3>1
    <3>2. CASE i # 1
      <4>1. i - 1 \in 1 .. Len(s) - 1 /\ (i - 1) + 1 = i /\ Len(Tail(s)) = Len(s) - 1
        BY <1>1, <2>2, <3>2
      <4>2. c[(i - 1) + 1] = Tail(s)[i - 1] /\ Tail(s)[i - 1] = s[(i - 1) + 1]
        BY <1>1, <2>1, <4>1
      <4> QED BY <4>1, <4>2
    <3> QED BY <3>1, <3>2
  <2> HIDE DEF c
  <2>4. c = s
    BY <2>1, <2>2, <2>3, SeqEqual
  <2> QED BY <2>4 DEF c
<1> QED BY <1>1, <1>3, <1>4, <1>5, <1>6

\* An element put behind the second of two sequences is behind both.
LEMMA ConcatOneMore ==
  ASSUME NEW S, NEW s \in Seq(S), NEW u \in Seq(S), NEW x \in S
  PROVE  s \o Append(u, x) = Append(s \o u, x)
<1>1. Append(u, x) = u \o <<x>> /\ <<x>> \in Seq(S)
  BY AppendIsConcat
<1>2. s \o u \in Seq(S) /\ Append(s \o u, x) = (s \o u) \o <<x>>
  BY ConcatProperties, AppendIsConcat
<1>3. (s \o u) \o <<x>> = s \o (u \o <<x>>)
  BY <1>1, ConcatAssociative
<1> QED BY <1>1, <1>2, <1>3

-----------------------------------------------------------------------------
(* The chain of channels *)

\* What the chain is made of.
LEMMA ChainShape ==
  ASSUME inuse \in Seq(Unb!Buffers), buf_r \in Unb!Buffers,
         Unb!holding => tmp \in Unb!Buffers
  PROVE  /\ Unb!ahead \in Seq(Unb!Buffers)
         /\ ~Unb!holding => Unb!ahead = inuse
         /\ Unb!holding => Unb!ahead = <<tmp>> \o inuse /\ Unb!ahead # <<>> /\ Head(Unb!ahead) = tmp
         /\ Unb!given => Unb!holding /\ Unb!chain = Unb!ahead /\ Unb!chain[1] = tmp
         /\ ~Unb!given => /\ Unb!chain = <<buf_r>> \o Unb!ahead /\ Unb!chain[1] = buf_r
                          /\ Tail(Unb!chain) = Unb!ahead
         /\ Unb!chain \in Seq(Unb!Buffers) /\ Unb!chain # <<>>
<1>1. CASE ~Unb!holding
  <2>1. Unb!ahead = <<>> \o inuse
    BY <1>1 DEF Unb!ahead
  <2>2. Unb!ahead = inuse
    BY <2>1, ConcatEmptySeq
  <2>3. ~Unb!given
    BY <1>1 DEF Unb!holding, Unb!given
  <2>4. Unb!chain = <<buf_r>> \o Unb!ahead
    BY <2>3 DEF Unb!chain
  <2> QED BY <1>1, <2>2, <2>3, <2>4, OneBefore
<1>2. CASE Unb!holding
  <2>1. Unb!ahead = <<tmp>> \o inuse
    BY <1>2 DEF Unb!ahead
  <2>2. Unb!ahead \in Seq(Unb!Buffers) /\ Unb!ahead # <<>> /\ Head(Unb!ahead) = tmp /\ Unb!ahead[1] = tmp
    BY <1>2, <2>1, OneBefore
  <2>3. CASE Unb!given
    <3>1. Unb!chain = <<>> \o Unb!ahead
      BY <2>3 DEF Unb!chain
    <3>2. Unb!chain = Unb!ahead
      BY <2>2, <3>1, ConcatEmptySeq
    <3> QED BY <1>2, <2>1, <2>2, <2>3, <3>2
  <2>4. CASE ~Unb!given
    <3>1. Unb!chain = <<buf_r>> \o Unb!ahead
      BY <2>4 DEF Unb!chain
    <3> QED BY <1>2, <2>1, <2>2, <2>4, <3>1, OneBefore
  <2> QED BY <2>3, <2>4
<1> QED BY <1>1, <1>2

\* The facts of the invariant that the proofs below use.
LEMMA ChainFacts ==
  ASSUME ChannelIInv
  PROVE  /\ inuse \in Seq(Unb!Buffers) /\ buf_r \in Unb!Buffers
         /\ Unb!holding => tmp \in Unb!Buffers
         /\ Unb!chain \in Seq(Unb!Buffers) /\ Unb!chain # <<>> /\ Len(Unb!chain) \in Nat \ {0}
         /\ \A i \in 1 .. Len(Unb!chain) :
              Unb!chain[i] \in Unb!Buffers /\ Unb!chain[i] \in Unb!Range(Unb!chain)
         /\ \A i, j \in 1 .. Len(Unb!chain) : Unb!chain[i] = Unb!chain[j] => i = j
         /\ \A b \in Unb!Range(Unb!chain) : \E i \in 1 .. Len(Unb!chain) : b = Unb!chain[i]
         /\ Unb!Range(Unb!chain) \subseteq Unb!Buffers
         /\ ~Unb!given => Unb!chain[1] = buf_r
         /\ atP = "switch" => Len(Unb!chain) > 1 /\ t = Unb!chain[Len(Unb!chain)]
         /\ buf_w = IF atP = "switch" THEN Unb!chain[Len(Unb!chain) - 1] ELSE Unb!chain[Len(Unb!chain)]
         /\ buf_w \in Unb!Range(Unb!chain)
<1>1. /\ inuse \in Seq(Unb!Buffers) /\ buf_r \in Unb!Buffers
      /\ Unb!holding => tmp \in Unb!Buffers
      /\ Unb!IsInjective(Unb!chain)
      /\ atP = "switch" => Len(Unb!chain) > 1 /\ t = Unb!chain[Len(Unb!chain)]
      /\ buf_w = IF atP = "switch" THEN Unb!chain[Len(Unb!chain) - 1] ELSE Unb!chain[Len(Unb!chain)]
  BY DEF ChannelIInv, Unb!TypeOK, Unb!OneOwner, Writing, Reading
<1>2. Unb!chain \in Seq(Unb!Buffers) /\ Unb!chain # <<>> /\ (~Unb!given => Unb!chain[1] = buf_r)
  BY <1>1, ChainShape
<1>3. Len(Unb!chain) \in Nat \ {0}
  BY <1>2, EmptySeq
<1>4. /\ \A i \in 1 .. Len(Unb!chain) :
              Unb!chain[i] \in Unb!Buffers /\ Unb!chain[i] \in Unb!Range(Unb!chain)
      /\ \A i, j \in 1 .. Len(Unb!chain) : Unb!chain[i] = Unb!chain[j] => i = j
      /\ \A b \in Unb!Range(Unb!chain) : \E i \in 1 .. Len(Unb!chain) : b = Unb!chain[i]
      /\ Unb!Range(Unb!chain) \subseteq Unb!Buffers
  BY <1>1, <1>2, Members
<1>5. buf_w \in Unb!Range(Unb!chain)
  <2> DEFINE c == Unb!chain
             m == Len(c)
  <2>1. m \in 1 .. m /\ (m > 1 => m - 1 \in 1 .. m) /\ \A i \in 1 .. m : c[i] \in Unb!Range(c)
    BY <1>3, <1>4
  <2>2. (atP = "switch" => m > 1) /\ buf_w = IF atP = "switch" THEN c[m - 1] ELSE c[m]
    BY <1>1
  <2> HIDE DEF c, m
  <2>3. buf_w \in Unb!Range(c)
    BY <2>1, <2>2
  <2> QED BY <2>3 DEF c
<1> QED BY <1>1, <1>2, <1>3, <1>4, <1>5

\* A step that leaves the chain, and what lies in it, alone keeps the queue.
LEMMA QueueKept ==
  ASSUME Unb!ChainHoldsQueue, Unb!chain' = Unb!chain, rcvd' = rcvd, sent' = sent,
         \A b \in Unb!Range(Unb!chain) : cont'[b] = cont[b],
         Unb!chain \in Seq(Unb!Buffers)
  PROVE  Unb!ChainHoldsQueue'
<1>1. \A i \in 1 .. Len(Unb!chain) : Unb!chain[i] \in Unb!Range(Unb!chain)
  BY Members
<1>2. {Unb!Range(cont'[b]) : b \in Unb!Range(Unb!chain)} = {Unb!Range(cont[b]) : b \in Unb!Range(Unb!chain)}
  OBVIOUS
<1>3. UNION {Unb!Range(cont'[b]) : b \in Unb!Range(Unb!chain')} = rcvd' + 1 .. sent'
  BY <1>2 DEF Unb!ChainHoldsQueue
<1>4. \A b \in Unb!Range(Unb!chain') : \A i, j \in 1 .. Len(cont'[b]) : i < j => cont'[b][i] < cont'[b][j]
  BY DEF Unb!ChainHoldsQueue
<1>5. \A i, j \in 1 .. Len(Unb!chain') : i < j =>
        \A x \in Unb!Range(cont'[Unb!chain'[i]]), y \in Unb!Range(cont'[Unb!chain'[j]]) : x < y
  BY <1>1 DEF Unb!ChainHoldsQueue
<1> QED BY <1>3, <1>4, <1>5 DEF Unb!ChainHoldsQueue

\* The chain depends on the two ends, what is between them, and how far the consumer is.
LEMMA ChainKept ==
  ASSUME UNCHANGED <<inuse, tmp, buf_r>>, Unb!given' <=> Unb!given, Unb!holding' <=> Unb!holding
  PROVE  Unb!chain' = Unb!chain /\ Unb!ahead' = Unb!ahead
<1>1. Unb!ahead' = Unb!ahead
  BY DEF Unb!ahead
<1> QED BY <1>1 DEF Unb!chain

\* What stays true of the queue while both threads only look or count.
LEMMA QuietStep ==
  ASSUME ChannelIInv, UNCHANGED <<cont, live, bufcache, inuse, tmp, buf_r, sent, rcvd>>,
         Unb!given' <=> Unb!given, Unb!holding' <=> Unb!holding
  PROVE  /\ Unb!chain' = Unb!chain /\ Unb!ChainHoldsQueue' /\ MiddleFull'
         /\ UNCHANGED Unb!Linking /\ UNCHANGED <<atP, buf_w>> => Unb!OneOwner'
<1>1. Unb!chain' = Unb!chain
  BY ChainKept
<1>2. Unb!ChainHoldsQueue'
  <2>1. Unb!ChainHoldsQueue /\ Unb!chain \in Seq(Unb!Buffers)
    BY ChainFacts DEF ChannelIInv
  <2> QED BY <1>1, <2>1, QueueKept
<1>3. MiddleFull'
  <2>1. MiddleFull
    BY DEF ChannelIInv
  <2> QED BY <1>1, <2>1 DEF MiddleFull
<1>4. ASSUME Unb!Linking' = Unb!Linking, UNCHANGED <<atP, buf_w>> PROVE Unb!OneOwner'
  <2>1. Unb!OneOwner
    BY DEF ChannelIInv
  <2> QED BY <1>1, <1>4, <2>1 DEF Unb!OneOwner, Unb!emptyChannel
<1> QED BY <1>1, <1>2, <1>3, <1>4

-----------------------------------------------------------------------------
(* The producer *)

\* push looks at its channel.
LEMMA PushTestIInv ==
  ASSUME Unb!BoundAssumption, ChannelIInv, Unb!PushTest
  PROVE  ChannelIInv'
<1>1. /\ atP = "idle" /\ sent < MaxPush
      /\ UNCHANGED <<cont, live, bufcache, inuse, tmp, buf_r, buf_w, sent, rcvd, t, regP,
                     sawEmpty, in_use_buffers, fixedsize, atC, regC>>
      /\ \/ Unb!available /\ atP' = "put" /\ answer' = answer
         \/ answer' = [answer EXCEPT !.push = FALSE] /\ atP' = "idle"
         \/ ~Unb!available /\ atP' = "next" /\ answer' = answer
  BY DEF Unb!PushTest, Unb!fields, Unb!pool, Unb!consumer
<1>2. /\ Unb!chain' = Unb!chain /\ Unb!ChainHoldsQueue' /\ MiddleFull'
      /\ (Unb!given' <=> Unb!given) /\ (Unb!holding' <=> Unb!holding)
  <2>1. (Unb!given' <=> Unb!given) /\ (Unb!holding' <=> Unb!holding)
    BY <1>1 DEF Unb!given, Unb!holding
  <2> QED BY <1>1, <2>1, QuietStep
<1>3. Unb!OneOwner'
  <2>1. Unb!Linking' = {} /\ Unb!Linking = {} /\ atP' # "switch"
    BY <1>1 DEF Unb!Linking
  <2>2. Unb!OneOwner
    BY DEF ChannelIInv
  <2> QED BY <1>1, <1>2, <2>1, <2>2 DEF Unb!OneOwner, Unb!emptyChannel
<1>4. Unb!TypeOK'
  <2>1. Unb!TypeOK
    BY DEF ChannelIInv
  <2>2. answer' \in [push : BOOLEAN, pop : BOOLEAN]
    BY <1>1, <2>1 DEF Unb!TypeOK
  <2> QED BY <1>1, <2>1, <2>2 DEF Unb!TypeOK
<1>5. Unb!TruthfulMiss'
  <2>1. answer'.pop = answer.pop /\ Unb!TruthfulMiss
    BY <1>1 DEF ChannelIInv, Unb!TypeOK
  <2> QED BY <1>1, <2>1 DEF Unb!TruthfulMiss
<1>6. buf_w = Unb!chain[Len(Unb!chain)] /\ (~Unb!available => cont[buf_w] # <<>>)
  <2>1. Size \in Nat \ {0}
    BY DEF Unb!BoundAssumption
  <2>2. cont[buf_w] = <<>> => Len(cont[buf_w]) = 0
    OBVIOUS
  <2> QED BY <1>1, <2>1, <2>2, ChainFacts DEF Unb!available
<1>7. Writing'
  BY <1>1, <1>2, <1>6 DEF Writing, Unb!available
<1>8. Reading'
  <2>1. Reading
    BY DEF ChannelIInv
  <2>2. ASSUME atC = "get" \/ Unb!given, atP' = "next", Len(Unb!chain) = 1
        PROVE  cont[Unb!chain[1]] # <<>>
    BY <1>1, <1>6, <2>2
  <2> QED BY <1>1, <1>2, <2>1, <2>2 DEF Reading
<1> QED BY <1>2, <1>3, <1>4, <1>5, <1>7, <1>8 DEF ChannelIInv

\* There is an address for malloc to return: the channels of the chain but the
\* first hold different items.
LEMMA RoomForChannel ==
  ASSUME Unb!BoundAssumption, ChannelIInv, atP = "next", bufcache = <<>>
  PROVE  \E b \in Unb!Buffers : b \notin live
<1> DEFINE c == Unb!chain
           m == Len(c)
           first == [i \in 2 .. m |-> cont[c[i]][1]]
<1>1. /\ MaxPush \in Nat /\ CacheSize \in Nat \ {0} /\ c \in Seq(Unb!Buffers) /\ m \in Nat \ {0}
      /\ \A i \in 1 .. m : c[i] \in Unb!Buffers /\ c[i] \in Unb!Range(c)
  BY ChainFacts DEF Unb!BoundAssumption
<1>2. live = Unb!Range(c)
  <2>1. Unb!Range(bufcache) = {} /\ Unb!Linking = {}
    BY DEF Unb!Range, Unb!Linking
  <2> QED BY <2>1 DEF ChannelIInv, Unb!OneOwner
<1>3. ASSUME NEW i \in 2 .. m
      PROVE  cont[c[i]] \in Seq(1 .. MaxPush) /\ cont[c[i]] # <<>> /\ i \in 1 .. m
  <2>1. i \in 1 .. m /\ (i \in 2 .. m - 1 \/ (i = m /\ m > 1))
    BY <1>1, <1>3
  <2>2. cont[c[i]] \in Seq(1 .. MaxPush)
    BY <1>1, <2>1 DEF ChannelIInv, Unb!TypeOK
  <2>3. CASE i \in 2 .. m - 1
    BY <2>1, <2>2, <2>3 DEF ChannelIInv, MiddleFull
  <2>4. CASE i = m /\ m > 1
    BY <2>1, <2>2, <2>4 DEF ChannelIInv, Writing
  <2> QED BY <2>1, <2>3, <2>4
<1>4. ASSUME NEW i \in 2 .. m
      PROVE  cont[c[i]][1] \in 1 .. MaxPush /\ cont[c[i]][1] \in Unb!Range(cont[c[i]])
  <2>1. cont[c[i]] \in Seq(1 .. MaxPush) /\ Len(cont[c[i]]) \in Nat \ {0}
    BY <1>3, EmptySeq
  <2>2. 1 \in 1 .. Len(cont[c[i]])
    BY <2>1
  <2> QED BY <2>1, <2>2, Members
<1>5. first \in Injection(2 .. m, 1 .. MaxPush)
  <2>1. first \in [2 .. m -> 1 .. MaxPush]
    BY <1>4
  <2>2. ASSUME NEW i \in 2 .. m, NEW j \in 2 .. m, i < j PROVE first[i] < first[j]
    <3>1. i \in 1 .. m /\ j \in 1 .. m
      BY <1>3
    <3>2. \A x \in Unb!Range(cont[c[i]]), y \in Unb!Range(cont[c[j]]) : x < y
      BY <2>2, <3>1 DEF ChannelIInv, Unb!ChainHoldsQueue
    <3> QED BY <1>4, <3>2
  <2>3. ASSUME NEW i \in 2 .. m, NEW j \in 2 .. m, first[i] = first[j] PROVE i = j
    <3>1. first[i] \in Int /\ first[j] \in Int
      BY <2>1
    <3>2. i < j \/ j < i \/ i = j
      BY <1>1
    <3> QED BY <2>2, <2>3, <3>1, <3>2
  <2> QED BY <2>1, <2>3 DEF Injection, IsInjective
<1>6. m - 1 <= MaxPush
  <2>1. IsFiniteSet(1 .. MaxPush) /\ Cardinality(1 .. MaxPush) = MaxPush
    BY <1>1, FS_Interval
  <2>2. Cardinality(2 .. m) = m - 1
    BY <1>1, FS_Interval
  <2> HIDE DEF first
  <2>3. Cardinality(2 .. m) <= Cardinality(1 .. MaxPush)
    BY <1>5, <2>1, FS_Injection
  <2> QED BY <2>1, <2>2, <2>3
<1>7. IsFiniteSet(Unb!Range(c)) /\ Cardinality(Unb!Range(c)) <= m
  <2>1. IsFiniteSet(1 .. m) /\ Cardinality(1 .. m) = m
    BY <1>1, FS_Interval
  <2>2. c \in Surjection(1 .. m, Unb!Range(c))
    BY <1>1, Members DEF Surjection
  <2> HIDE DEF c, m
  <2>3. IsFiniteSet(Unb!Range(c)) /\ Cardinality(Unb!Range(c)) <= Cardinality(1 .. m)
    BY <2>1, <2>2, FS_Surjection
  <2> QED BY <2>1, <2>3
<1>8. Cardinality(Unb!Buffers) = MaxPush + CacheSize + 2
  BY <1>1, FS_Interval DEF Unb!Buffers
<1>9. live # Unb!Buffers
  BY <1>1, <1>2, <1>6, <1>7, <1>8
<1> QED BY <1>9 DEF ChannelIInv, Unb!TypeOK

\* The channel the producer gets is its own, and empty.
LEMMA ChannelIsNew ==
  ASSUME Unb!BoundAssumption, ChannelIInv, Unb!TakeBuffer
  PROVE  /\ t' \in Unb!Buffers /\ t' \notin Unb!Range(Unb!chain) /\ t' \notin Unb!Range(bufcache')
         /\ cont' \in [Unb!Buffers -> Seq(1 .. MaxPush)] /\ cont'[t'] = <<>>
         /\ \A b \in Unb!Buffers : b # t' => cont'[b] = cont[b]
         /\ bufcache' \in Seq(Unb!Buffers) /\ Len(bufcache') <= CacheSize
         /\ Unb!IsInjective(bufcache') /\ Unb!Range(bufcache') \subseteq Unb!Range(bufcache)
         /\ live' = Unb!Range(Unb!chain) \cup Unb!Range(bufcache') \cup {t'}
<1>1. /\ cont \in [Unb!Buffers -> Seq(1 .. MaxPush)] /\ bufcache \in Seq(Unb!Buffers)
      /\ Len(bufcache) <= CacheSize /\ Unb!IsInjective(bufcache)
      /\ Unb!Range(Unb!chain) \cap Unb!Range(bufcache) = {}
      /\ \A b \in Unb!Range(bufcache) : cont[b] = <<>>
      /\ live = Unb!Range(Unb!chain) \cup Unb!Range(bufcache) /\ atP = "next"
      /\ CacheSize \in Nat
  <2>1. atP = "next" /\ Unb!Linking = {}
    BY DEF Unb!TakeBuffer, Unb!Linking
  <2> QED BY <2>1 DEF ChannelIInv, Unb!TypeOK, Unb!OneOwner, Unb!emptyChannel, Unb!BoundAssumption
<1>2. CASE bufcache # <<>> /\ t' = Head(bufcache) /\ bufcache' = Tail(bufcache) /\ UNCHANGED <<cont, live>>
  <2>1. /\ bufcache' \in Seq(Unb!Buffers) /\ Len(bufcache') = Len(bufcache) - 1 /\ Len(bufcache) \in Nat
        /\ t' = bufcache[1] /\ t' \in Unb!Buffers /\ t' \in Unb!Range(bufcache)
        /\ Unb!Range(bufcache') \cup {t'} = Unb!Range(bufcache)
        /\ Unb!IsInjective(bufcache') /\ t' \notin Unb!Range(bufcache')
    <3>1. /\ Tail(bufcache) \in Seq(Unb!Buffers) /\ Len(Tail(bufcache)) = Len(bufcache) - 1
          /\ Len(bufcache) \in Nat \ {0} /\ Head(bufcache) = bufcache[1]
          /\ bufcache[1] \in Unb!Buffers /\ bufcache[1] \in Unb!Range(bufcache)
          /\ Unb!Range(Tail(bufcache)) \cup {bufcache[1]} = Unb!Range(bufcache)
          /\ Unb!IsInjective(Tail(bufcache)) /\ bufcache[1] \notin Unb!Range(Tail(bufcache))
      BY <1>1, <1>2, OneLess, Zenon
    <3> QED BY <1>2, <3>1
  <2>2. live' = Unb!Range(Unb!chain) \cup Unb!Range(bufcache') \cup {t'}
    BY <1>1, <1>2, <2>1
  <2> QED BY <1>1, <1>2, <2>1, <2>2
<1>3. CASE /\ bufcache = <<>> /\ t' = (CHOOSE b \in Unb!Buffers : b \notin live)
           /\ cont' = [cont EXCEPT ![t'] = <<>>] /\ live' = live \cup {t'} /\ UNCHANGED bufcache
  <2>1. t' \in Unb!Buffers /\ t' \notin live
    BY <1>1, <1>3, RoomForChannel
  <2>2. <<>> \in Seq(1 .. MaxPush)
    OBVIOUS
  <2> QED BY <1>1, <1>3, <2>1, <2>2
<1> QED BY <1>2, <1>3 DEF Unb!TakeBuffer

\* push takes a channel from the pool.
LEMMA TakeBufferIInv ==
  ASSUME Unb!BoundAssumption, ChannelIInv, Unb!TakeBuffer
  PROVE  ChannelIInv'
<1>1. /\ atP = "next" /\ atP' = "link"
      /\ UNCHANGED <<inuse, regP, buf_r, buf_w, in_use_buffers, fixedsize, atC, tmp, regC,
                     sent, rcvd, sawEmpty, answer>>
  BY DEF Unb!TakeBuffer, Unb!fields, Unb!consumer, Unb!history
<1>2. /\ t' \in Unb!Buffers /\ t' \notin Unb!Range(Unb!chain) /\ t' \notin Unb!Range(bufcache')
      /\ cont' \in [Unb!Buffers -> Seq(1 .. MaxPush)] /\ cont'[t'] = <<>>
      /\ \A b \in Unb!Buffers : b # t' => cont'[b] = cont[b]
      /\ bufcache' \in Seq(Unb!Buffers) /\ Len(bufcache') <= CacheSize
      /\ Unb!IsInjective(bufcache') /\ Unb!Range(bufcache') \subseteq Unb!Range(bufcache)
      /\ live' = Unb!Range(Unb!chain) \cup Unb!Range(bufcache') \cup {t'}
  BY ChannelIsNew
<1>3. Unb!chain' = Unb!chain /\ (Unb!given' <=> Unb!given) /\ (Unb!holding' <=> Unb!holding)
  <2>1. (Unb!given' <=> Unb!given) /\ (Unb!holding' <=> Unb!holding)
    BY <1>1 DEF Unb!given, Unb!holding
  <2> QED BY <1>1, <2>1, ChainKept
<1>4. \A b \in Unb!Range(Unb!chain) : b \in Unb!Buffers /\ cont'[b] = cont[b]
  BY <1>2, ChainFacts
<1>5. Unb!ChainHoldsQueue'
  <2>1. Unb!ChainHoldsQueue /\ Unb!chain \in Seq(Unb!Buffers)
    BY ChainFacts DEF ChannelIInv
  <2> QED BY <1>1, <1>3, <1>4, <2>1, QueueKept
<1>6. Unb!OneOwner'
  <2>1. Unb!OneOwner
    BY DEF ChannelIInv
  <2>2. Unb!Linking' = {t'}
    BY <1>1 DEF Unb!Linking
  <2>3. \A b \in Unb!Range(bufcache') : cont'[b] = <<>>
    <3>1. bufcache \in Seq(Unb!Buffers)
      BY DEF ChannelIInv, Unb!TypeOK
    <3>2. Unb!Range(bufcache) \subseteq Unb!Buffers
      BY <3>1, Members
    <3> QED BY <1>2, <2>1, <3>2 DEF Unb!OneOwner, Unb!emptyChannel
  <2> QED BY <1>1, <1>2, <1>3, <2>1, <2>2, <2>3 DEF Unb!OneOwner, Unb!emptyChannel
<1>7. Unb!TypeOK'
  <2>1. Unb!TypeOK
    BY DEF ChannelIInv
  <2>2. \A b \in Unb!Buffers : Len(cont'[b]) <= Size
    <3>1. Size \in Nat /\ Len(cont'[t']) = 0
      BY <1>2 DEF Unb!BoundAssumption
    <3>2. \A b \in Unb!Buffers : Len(cont[b]) <= Size
      BY <2>1 DEF Unb!TypeOK
    <3>3. \A b \in Unb!Buffers : b # t' => cont'[b] = cont[b]
      BY <1>2
    <3> QED BY <3>1, <3>2, <3>3
  <2>3. live' \subseteq Unb!Buffers
    BY <1>2, ChainFacts, Members
  <2> QED BY <1>1, <1>2, <2>1, <2>2, <2>3 DEF Unb!TypeOK
<1>8. Unb!TruthfulMiss'
  BY <1>1 DEF ChannelIInv, Unb!TruthfulMiss
<1>9. MiddleFull'
  <2>1. \A i \in 2 .. Len(Unb!chain) - 1 : Unb!chain[i] \in Unb!Range(Unb!chain)
    BY ChainFacts
  <2> QED BY <1>3, <1>4, <2>1 DEF ChannelIInv, MiddleFull
<1>10. /\ Len(Unb!chain) \in Nat \ {0} /\ Unb!chain[Len(Unb!chain)] \in Unb!Range(Unb!chain)
       /\ Unb!chain[1] \in Unb!Range(Unb!chain)
  <2>1. Len(Unb!chain) \in 1 .. Len(Unb!chain) /\ 1 \in 1 .. Len(Unb!chain)
    BY ChainFacts
  <2> QED BY <2>1, ChainFacts
<1>11. Writing'
  <2>1. Writing
    BY DEF ChannelIInv
  <2> QED BY <1>1, <1>2, <1>3, <1>4, <1>10, <2>1 DEF Writing
<1>12. Reading'
  <2>1. Reading
    BY DEF ChannelIInv
  <2>2. atC \in {"recheck", "unlink", "clear", "recycle"} => cont'[buf_r] = cont[buf_r]
    <3>1. atC \in {"recheck", "unlink", "clear", "recycle"} => ~Unb!given
      BY DEF Unb!given
    <3> QED BY <1>4, <1>10, <3>1, ChainFacts
  <2>3. cont'[Unb!chain[1]] = cont[Unb!chain[1]]
    BY <1>4, <1>10
  <2> QED BY <1>1, <1>3, <2>1, <2>2, <2>3 DEF Reading
<1> QED BY <1>5, <1>6, <1>7, <1>8, <1>9, <1>11, <1>12 DEF ChannelIInv

\* push links the channel behind the last one.
LEMMA LinkBufferIInv ==
  ASSUME Unb!BoundAssumption, ChannelIInv, Unb!LinkBuffer
  PROVE  ChannelIInv'
<1> DEFINE c == Unb!chain
           m == Len(c)
<1>1. /\ atP = "link" /\ atP' = "switch" /\ inuse' = Append(inuse, t)
      /\ UNCHANGED <<cont, live, bufcache, t, regP, buf_r, buf_w, in_use_buffers, fixedsize,
                     atC, tmp, regC, sent, rcvd, sawEmpty, answer>>
  BY DEF Unb!LinkBuffer, Unb!fields, Unb!consumer, Unb!history
<1>2. /\ t \in Unb!Buffers /\ cont[t] = <<>> /\ t \notin Unb!Range(c) /\ t \notin Unb!Range(bufcache)
      /\ c \in Seq(Unb!Buffers) /\ m \in Nat \ {0} /\ Unb!IsInjective(c)
  <2>1. Unb!Linking = {t}
    BY <1>1 DEF Unb!Linking
  <2> QED BY <1>1, <2>1, ChainFacts DEF ChannelIInv, Writing, Unb!OneOwner
<1>3. (Unb!given' <=> Unb!given) /\ (Unb!holding' <=> Unb!holding)
  BY <1>1 DEF Unb!given, Unb!holding
<1>4. c' = Append(c, t)
  <2>1. inuse \in Seq(Unb!Buffers) /\ buf_r \in Unb!Buffers /\ (Unb!holding => tmp \in Unb!Buffers)
    BY ChainFacts
  <2> DEFINE h == IF Unb!holding THEN <<tmp>> ELSE <<>>
             g == IF Unb!given THEN <<>> ELSE <<buf_r>>
  <2>2. h \in Seq(Unb!Buffers) /\ g \in Seq(Unb!Buffers)
    BY <2>1
  <2>3. h' = h /\ g' = g
    BY <1>1, <1>3
  <2>4. Unb!ahead = h \o inuse /\ Unb!ahead' = h' \o inuse' /\ c = g \o Unb!ahead /\ c' = g' \o Unb!ahead'
    BY DEF Unb!ahead, Unb!chain
  <2> HIDE DEF h, g, c
  <2>5. Unb!ahead' = Append(Unb!ahead, t)
    BY <1>1, <1>2, <2>1, <2>2, <2>3, <2>4, ConcatOneMore, SMTT(30)
  <2>6. Unb!ahead \in Seq(Unb!Buffers)
    BY <2>1, <2>2, <2>4, ConcatProperties
  <2> QED BY <1>2, <2>2, <2>3, <2>4, <2>5, <2>6, ConcatOneMore, SMTT(30)
<1> HIDE DEF c
<1>5. /\ c' \in Seq(Unb!Buffers) /\ Len(c') = m + 1
      /\ \A i \in 1 .. m : c'[i] = c[i]
      /\ c'[m + 1] = t /\ Unb!Range(c') = Unb!Range(c) \cup {t} /\ Unb!IsInjective(c')
  BY <1>2, <1>4, OneMore
<1>6. Unb!ChainHoldsQueue'
  <2>1. /\ UNION {Unb!Range(cont[b]) : b \in Unb!Range(c)} = rcvd + 1 .. sent
        /\ \A b \in Unb!Range(c) : \A i, j \in 1 .. Len(cont[b]) : i < j => cont[b][i] < cont[b][j]
        /\ \A i, j \in 1 .. m : i < j =>
             \A x \in Unb!Range(cont[c[i]]), y \in Unb!Range(cont[c[j]]) : x < y
    BY DEF ChannelIInv, Unb!ChainHoldsQueue, c
  <2>2. Unb!Range(cont[t]) = {} /\ Len(cont[t]) = 0
    BY <1>2 DEF Unb!Range
  <2>3. UNION {Unb!Range(cont[b]) : b \in Unb!Range(c')} = rcvd + 1 .. sent
    BY <1>5, <2>1, <2>2
  <2>4. \A b \in Unb!Range(c') : \A i, j \in 1 .. Len(cont[b]) : i < j => cont[b][i] < cont[b][j]
    BY <1>5, <2>1, <2>2
  <2>5. \A i, j \in 1 .. m + 1 : i < j =>
          \A x \in Unb!Range(cont[c'[i]]), y \in Unb!Range(cont[c'[j]]) : x < y
    <3> TAKE i, j \in 1 .. m + 1
    <3> HAVE i < j
    <3>1. i \in 1 .. m /\ (j \in 1 .. m \/ j = m + 1)
      BY <1>2
    <3> QED BY <1>5, <2>1, <2>2, <3>1
  <2>6. rcvd' = rcvd /\ sent' = sent /\ cont' = cont
    BY <1>1
  <2> QED BY <1>5, <2>3, <2>4, <2>5, <2>6 DEF Unb!ChainHoldsQueue, c
<1>7. m > 1 => cont[c[m]] # <<>>
  BY <1>1 DEF ChannelIInv, Writing, c
<1>8. buf_w = c[m]
  BY <1>1, ChainFacts DEF c
<1>9. Unb!OneOwner'
  <2>1. Unb!OneOwner
    BY DEF ChannelIInv
  <2>2. Unb!Linking' = {} /\ Unb!Linking = {t}
    BY <1>1 DEF Unb!Linking
  <2>3. buf_w' = c'[Len(c') - 1]
    BY <1>1, <1>2, <1>5, <1>8
  <2> QED BY <1>1, <1>2, <1>5, <2>1, <2>2, <2>3 DEF Unb!OneOwner, Unb!emptyChannel, c
<1>10. Unb!TypeOK'
  <2>1. Unb!TypeOK
    BY DEF ChannelIInv
  <2>2. inuse' \in Seq(Unb!Buffers)
    BY <1>1, <1>2, <2>1, AppendProperties DEF Unb!TypeOK
  <2> QED BY <1>1, <2>1, <2>2 DEF Unb!TypeOK
<1>11. Unb!TruthfulMiss'
  BY <1>1 DEF ChannelIInv, Unb!TruthfulMiss
<1>12. MiddleFull'
  <2>1. MiddleFull
    BY DEF ChannelIInv
  <2>2. ASSUME NEW i \in 2 .. m PROVE cont[c'[i]] # <<>>
    <3>1. i \in 1 .. m /\ (i \in 2 .. m - 1 \/ (i = m /\ m > 1))
      BY <1>2
    <3> QED BY <1>5, <1>7, <2>1, <3>1 DEF MiddleFull, c
  <2>3. Len(c') - 1 = m /\ cont' = cont
    BY <1>1, <1>2, <1>5
  <2> QED BY <2>2, <2>3 DEF MiddleFull, c
<1>13. Writing'
  <2>1. Writing
    BY DEF ChannelIInv
  <2> QED BY <1>1, <1>2, <1>5, <2>1 DEF Writing, c
<1>14. Reading'
  <2>1. Reading
    BY DEF ChannelIInv
  <2>2. c'[1] = c[1]
    BY <1>2, <1>5
  <2>3. (atC = "get" \/ Unb!given) => cont[c[1]] # <<>>
    BY <1>1, <2>1 DEF Reading, c
  <2> QED BY <1>1, <1>3, <2>1, <2>2, <2>3 DEF Reading, c
<1> QED BY <1>6, <1>9, <1>10, <1>11, <1>12, <1>13, <1>14 DEF ChannelIInv

\* push writes to the new channel from now on.
LEMMA SwitchBufferIInv ==
  ASSUME Unb!BoundAssumption, ChannelIInv, Unb!SwitchBuffer
  PROVE  ChannelIInv'
<1>1. /\ atP = "switch" /\ atP' = "count" /\ buf_w' = t
      /\ UNCHANGED <<cont, live, bufcache, inuse, tmp, buf_r, sent, rcvd, t, regP, atC, regC,
                     sawEmpty, answer, in_use_buffers, fixedsize>>
  BY DEF Unb!SwitchBuffer, Unb!pool, Unb!consumer, Unb!history
<1>2. /\ Unb!chain' = Unb!chain /\ Unb!ChainHoldsQueue' /\ MiddleFull'
      /\ (Unb!given' <=> Unb!given) /\ (Unb!holding' <=> Unb!holding)
  <2>1. (Unb!given' <=> Unb!given) /\ (Unb!holding' <=> Unb!holding)
    BY <1>1 DEF Unb!given, Unb!holding
  <2> QED BY <1>1, <2>1, QuietStep
<1>3. /\ t \in Unb!Buffers /\ cont[t] = <<>>
      /\ Len(Unb!chain) > 1 /\ t = Unb!chain[Len(Unb!chain)]
  BY <1>1 DEF ChannelIInv, Writing
<1>4. Unb!OneOwner'
  <2>1. Unb!Linking' = {} /\ Unb!Linking = {}
    BY <1>1 DEF Unb!Linking
  <2>2. Unb!OneOwner
    BY DEF ChannelIInv
  <2> QED BY <1>1, <1>2, <1>3, <2>1, <2>2 DEF Unb!OneOwner, Unb!emptyChannel
<1>5. Unb!TypeOK'
  BY <1>1, <1>3 DEF ChannelIInv, Unb!TypeOK
<1>6. Unb!TruthfulMiss'
  BY <1>1 DEF ChannelIInv, Unb!TruthfulMiss
<1>7. Writing'
  <2>1. Writing /\ Size > 0 /\ Len(cont[t]) = 0
    BY <1>3 DEF ChannelIInv, Unb!BoundAssumption
  <2> QED BY <1>1, <1>2, <2>1 DEF Writing
<1>8. Reading'
  <2>1. Reading
    BY DEF ChannelIInv
  <2>2. Len(Unb!chain) \in 1 .. Len(Unb!chain) /\ 1 \in 1 .. Len(Unb!chain)
    BY ChainFacts
  <2>3. Unb!chain[1] # t
    BY <1>3, <2>2, ChainFacts
  <2>4. atC \in {"compare", "recheck", "unlink", "clear", "recycle"} => buf_r # t
    <3>1. atC \in {"compare", "recheck", "unlink", "clear", "recycle"} => ~Unb!given
      BY DEF Unb!given
    <3> QED BY <2>3, <3>1, ChainFacts
  <2> QED BY <1>1, <1>2, <2>1, <2>4 DEF Reading
<1> QED BY <1>2, <1>4, <1>5, <1>6, <1>7, <1>8 DEF ChannelIInv

\* push reads or writes the count of the channels in use: it is not part of the queue.
LEMMA CountIInv ==
  ASSUME Unb!BoundAssumption, ChannelIInv, Unb!CountRead \/ Unb!CountWrite
  PROVE  ChannelIInv'
<1>1. /\ atP \in {"count", "add"} /\ atP' \in {"add", "put"}
      /\ UNCHANGED <<cont, live, bufcache, inuse, tmp, buf_r, buf_w, sent, rcvd, atC, regC,
                     sawEmpty, answer, fixedsize>>
      /\ \/ regP' = in_use_buffers /\ UNCHANGED <<in_use_buffers, t>>
         \/ in_use_buffers' = (regP + 1) % Modulus /\ regP' = 0 /\ t' = Unb!NULL
  BY DEF Unb!CountRead, Unb!CountWrite, Unb!fields, Unb!pool, Unb!consumer, Unb!history
<1>2. /\ Unb!chain' = Unb!chain /\ Unb!ChainHoldsQueue' /\ MiddleFull'
      /\ (Unb!given' <=> Unb!given) /\ (Unb!holding' <=> Unb!holding)
  <2>1. (Unb!given' <=> Unb!given) /\ (Unb!holding' <=> Unb!holding)
    BY <1>1 DEF Unb!given, Unb!holding
  <2> QED BY <1>1, <2>1, QuietStep
<1>3. Unb!OneOwner'
  <2>1. Unb!Linking' = {} /\ Unb!Linking = {} /\ atP # "switch" /\ atP' # "switch"
    BY <1>1 DEF Unb!Linking
  <2>2. Unb!OneOwner
    BY DEF ChannelIInv
  <2> QED BY <1>1, <1>2, <2>1, <2>2 DEF Unb!OneOwner, Unb!emptyChannel
<1>4. Unb!TypeOK'
  <2>1. Modulus \in Nat \ {0, 1} /\ Unb!TypeOK
    BY DEF ChannelIInv, Unb!BoundAssumption
  <2>2. regP \in Nat /\ in_use_buffers \in 0 .. Modulus - 1
    BY <2>1 DEF Unb!TypeOK
  <2>3. (regP + 1) % Modulus \in 0 .. Modulus - 1
    BY <2>1, <2>2
  <2>4. /\ regP' \in 0 .. Modulus - 1 /\ in_use_buffers' \in 0 .. Modulus - 1
        /\ t' \in Unb!Buffers \cup {Unb!NULL}
    BY <1>1, <2>1, <2>2, <2>3 DEF Unb!TypeOK
  <2> QED BY <1>1, <2>1, <2>4 DEF Unb!TypeOK
<1>5. Unb!TruthfulMiss'
  BY <1>1 DEF ChannelIInv, Unb!TruthfulMiss
<1>6. Writing'
  BY <1>1, <1>2 DEF ChannelIInv, Writing
<1>7. Reading'
  BY <1>1, <1>2 DEF ChannelIInv, Reading
<1> QED BY <1>2, <1>3, <1>4, <1>5, <1>6, <1>7 DEF ChannelIInv

\* push puts the item behind all others: its channel is the last, and has room.
LEMMA PutIInv ==
  ASSUME Unb!BoundAssumption, ChannelIInv, Unb!Put
  PROVE  ChannelIInv'
<1> DEFINE c == Unb!chain
           m == Len(c)
<1>1. /\ atP = "put" /\ atP' = "idle" /\ sent' = sent + 1
      /\ answer' = [answer EXCEPT !.push = TRUE]
      /\ UNCHANGED <<live, bufcache, inuse, tmp, buf_r, buf_w, rcvd, t, regP, atC, regC,
                     sawEmpty, in_use_buffers, fixedsize>>
  BY DEF Unb!Put, Unb!fields, Unb!pool, Unb!consumer
<1>2. /\ MaxPush \in Nat /\ sent \in 0 .. MaxPush /\ rcvd \in 0 .. sent /\ sent < MaxPush /\ Size \in Nat
      /\ cont \in [Unb!Buffers -> Seq(1 .. MaxPush)] /\ buf_w \in Unb!Buffers
      /\ Len(cont[buf_w]) < Size /\ sent + 1 \in 1 .. MaxPush
  <2>1. /\ MaxPush \in Nat /\ sent \in 0 .. MaxPush /\ rcvd \in 0 .. sent /\ sent < MaxPush
        /\ cont \in [Unb!Buffers -> Seq(1 .. MaxPush)] /\ buf_w \in Unb!Buffers /\ Size \in Nat
        /\ Len(cont[buf_w]) < Size
    BY <1>1 DEF ChannelIInv, Unb!TypeOK, Writing, Unb!BoundAssumption
  <2> QED BY <2>1
<1>3. /\ c \in Seq(Unb!Buffers) /\ m \in Nat \ {0}
      /\ \A i \in 1 .. m : c[i] \in Unb!Buffers /\ c[i] \in Unb!Range(c)
      /\ \A i, j \in 1 .. m : c[i] = c[j] => i = j
      /\ Unb!Range(c) \subseteq Unb!Buffers /\ buf_w = c[m] /\ buf_w \in Unb!Range(c)
  BY <1>1, ChainFacts
<1>4. /\ cont' \in [Unb!Buffers -> Seq(1 .. MaxPush)]
      /\ cont'[buf_w] = Append(cont[buf_w], sent + 1)
      /\ \A b \in Unb!Buffers : b # buf_w => cont'[b] = cont[b]
  <2>1. cont' = [cont EXCEPT ![buf_w] = Append(cont[buf_w], sent + 1)]
    <3>1. cont' = [cont EXCEPT ![buf_w] = IF Len(cont[buf_w]) < Size THEN Append(cont[buf_w], sent + 1)
                                          ELSE cont[buf_w]]
      BY DEF Unb!Put
    <3> QED BY <1>2, <3>1
  <2>2. Append(cont[buf_w], sent + 1) \in Seq(1 .. MaxPush)
    BY <1>2, AppendProperties
  <2> QED BY <1>2, <2>1, <2>2
<1>5. /\ Len(cont'[buf_w]) = Len(cont[buf_w]) + 1 /\ Len(cont[buf_w]) \in Nat
      /\ \A i \in 1 .. Len(cont[buf_w]) : cont'[buf_w][i] = cont[buf_w][i]
      /\ cont'[buf_w][Len(cont[buf_w]) + 1] = sent + 1
      /\ Unb!Range(cont'[buf_w]) = Unb!Range(cont[buf_w]) \cup {sent + 1}
      /\ cont'[buf_w] # <<>>
  <2>1. cont[buf_w] \in Seq(1 .. MaxPush) /\ Len(cont[buf_w]) \in Nat
    BY <1>2
  <2>2. Append(cont[buf_w], sent + 1) # <<>>
    <3>1. Len(Append(cont[buf_w], sent + 1)) = Len(cont[buf_w]) + 1
      BY <1>2, <2>1, OneMore
    <3>2. Append(cont[buf_w], sent + 1) = <<>> => Len(Append(cont[buf_w], sent + 1)) = 0
      BY EmptySeq
    <3> QED BY <2>1, <3>1, <3>2
  <2> QED BY <1>2, <1>4, <2>1, <2>2, OneMore
<1>6. c' = c /\ (Unb!given' <=> Unb!given) /\ (Unb!holding' <=> Unb!holding)
  <2>1. (Unb!given' <=> Unb!given) /\ (Unb!holding' <=> Unb!holding)
    BY <1>1 DEF Unb!given, Unb!holding
  <2> QED BY <1>1, <2>1, ChainKept
<1> HIDE DEF c
<1>7. /\ UNION {Unb!Range(cont[b]) : b \in Unb!Range(c)} = rcvd + 1 .. sent
      /\ \A b \in Unb!Range(c) : \A i, j \in 1 .. Len(cont[b]) : i < j => cont[b][i] < cont[b][j]
      /\ \A i, j \in 1 .. m : i < j =>
           \A x \in Unb!Range(cont[c[i]]), y \in Unb!Range(cont[c[j]]) : x < y
  BY DEF ChannelIInv, Unb!ChainHoldsQueue, c
<1>8. \A b \in Unb!Range(c) : \A x \in Unb!Range(cont[b]) : x \in rcvd + 1 .. sent
  BY <1>7
<1>9. Unb!ChainHoldsQueue'
  <2>1. \A b \in Unb!Range(c) : Unb!Range(cont'[b]) = Unb!Range(cont[b]) \cup (IF b = buf_w THEN {sent + 1} ELSE {})
    BY <1>3, <1>4, <1>5
  <2>2. UNION {Unb!Range(cont'[b]) : b \in Unb!Range(c)} = rcvd + 1 .. sent + 1
    <3>1. ASSUME NEW x PROVE (\E b \in Unb!Range(c) : x \in Unb!Range(cont'[b]))
                             <=> (\E b \in Unb!Range(c) : x \in Unb!Range(cont[b])) \/ x = sent + 1
      BY <1>3, <2>1
    <3>2. ASSUME NEW x PROVE (\E b \in Unb!Range(c) : x \in Unb!Range(cont[b])) <=> x \in rcvd + 1 .. sent
      BY <1>7
    <3>3. rcvd + 1 .. sent + 1 = (rcvd + 1 .. sent) \cup {sent + 1}
      BY <1>2
    <3>4. \A x : x \in UNION {Unb!Range(cont'[b]) : b \in Unb!Range(c)} <=> x \in rcvd + 1 .. sent + 1
      <4> TAKE x
      <4>1. x \in UNION {Unb!Range(cont'[b]) : b \in Unb!Range(c)}
              <=> \E b \in Unb!Range(c) : x \in Unb!Range(cont'[b])
        OBVIOUS
      <4>2. x \in rcvd + 1 .. sent + 1 <=> x \in rcvd + 1 .. sent \/ x = sent + 1
        BY <3>3
      <4> QED BY <3>1, <3>2, <4>1, <4>2, Zenon
    <3> QED BY <3>4, Zenon
  <2>3. \A b \in Unb!Range(c) : \A i, j \in 1 .. Len(cont'[b]) : i < j => cont'[b][i] < cont'[b][j]
    <3> TAKE b \in Unb!Range(c)
    <3>1. CASE b # buf_w
      BY <1>3, <1>4, <1>7, <3>1
    <3>2. CASE b = buf_w
      <4> SUFFICES ASSUME NEW i \in 1 .. Len(cont[b]) + 1, NEW j \in 1 .. Len(cont[b]) + 1, i < j
                   PROVE  cont'[b][i] < cont'[b][j]
        BY <1>5, <3>2
      <4>1. i \in 1 .. Len(cont[b]) /\ (j \in 1 .. Len(cont[b]) \/ j = Len(cont[b]) + 1)
        BY <1>5, <3>2
      <4>2. cont'[b][i] = cont[b][i] /\ cont[b][i] \in Unb!Range(cont[b])
        <5>1. cont[b] \in Seq(1 .. MaxPush)
          BY <1>2, <3>2
        <5> QED BY <1>5, <3>2, <4>1, <5>1, Members
      <4>3. cont[b][i] \in rcvd + 1 .. sent
        BY <1>8, <4>2
      <4>4. CASE j \in 1 .. Len(cont[b])
        BY <1>5, <1>7, <3>2, <4>1, <4>2, <4>4
      <4>5. CASE j = Len(cont[b]) + 1
        BY <1>2, <1>5, <3>2, <4>2, <4>3, <4>5
      <4> QED BY <4>1, <4>4, <4>5
    <3> QED BY <3>1, <3>2
  <2>4. \A i, j \in 1 .. m : i < j =>
          \A x \in Unb!Range(cont'[c[i]]), y \in Unb!Range(cont'[c[j]]) : x < y
    <3> TAKE i, j \in 1 .. m
    <3> HAVE i < j
    <3> TAKE x \in Unb!Range(cont'[c[i]]), y \in Unb!Range(cont'[c[j]])
    <3>1. i # m /\ m \in 1 .. m /\ c[i] # buf_w /\ c[i] \in Unb!Range(c) /\ c[j] \in Unb!Range(c)
      BY <1>3
    <3>2. x \in Unb!Range(cont[c[i]]) /\ x \in rcvd + 1 .. sent
      BY <1>8, <2>1, <3>1
    <3>3. y \in Unb!Range(cont[c[j]]) \/ y = sent + 1
      BY <2>1, <3>1
    <3>4. y = sent + 1 => x < y
      BY <1>2, <3>2
    <3> QED BY <1>7, <3>2, <3>3, <3>4
  <2>5. Unb!chain' = c /\ Unb!chain = c /\ sent' = sent + 1 /\ rcvd' = rcvd
    BY <1>1, <1>6 DEF c
  <2> HIDE DEF m
  <2>6. \A i, j \in 1 .. Len(Unb!chain') : i < j =>
          \A x \in Unb!Range(cont'[Unb!chain'[i]]), y \in Unb!Range(cont'[Unb!chain'[j]]) : x < y
    BY <2>4, <2>5 DEF m
  <2> QED BY <2>2, <2>3, <2>5, <2>6 DEF Unb!ChainHoldsQueue
<1>10. Unb!OneOwner'
  <2>1. Unb!OneOwner
    BY DEF ChannelIInv
  <2>2. Unb!Linking' = {} /\ Unb!Linking = {}
    BY <1>1 DEF Unb!Linking
  <2>3. \A b \in Unb!Range(bufcache) : cont'[b] = <<>>
    <3>1. bufcache \in Seq(Unb!Buffers)
      BY DEF ChannelIInv, Unb!TypeOK
    <3>2. Unb!Range(bufcache) \subseteq Unb!Buffers /\ buf_w \notin Unb!Range(bufcache)
      BY <1>3, <2>1, <3>1, Members DEF Unb!OneOwner, c
    <3> QED BY <1>4, <2>1, <3>2 DEF Unb!OneOwner, Unb!emptyChannel
  <2> QED BY <1>1, <1>3, <1>6, <2>1, <2>2, <2>3 DEF Unb!OneOwner, Unb!emptyChannel, c
<1>11. Unb!TypeOK'
  <2>1. Unb!TypeOK
    BY DEF ChannelIInv
  <2>2. answer' \in [push : BOOLEAN, pop : BOOLEAN]
    BY <1>1, <2>1 DEF Unb!TypeOK
  <2>3. \A b \in Unb!Buffers : Len(cont'[b]) <= Size
    <3>1. \A b \in Unb!Buffers : Len(cont[b]) <= Size
      BY <2>1 DEF Unb!TypeOK
    <3>2. Len(cont'[buf_w]) <= Size
      BY <1>2, <1>5
    <3> QED BY <1>4, <3>1, <3>2
  <2>4. sent' \in 0 .. MaxPush /\ rcvd' \in 0 .. sent'
    BY <1>1, <1>2
  <2> QED BY <1>1, <1>4, <2>1, <2>2, <2>3, <2>4 DEF Unb!TypeOK
<1>12. Unb!TruthfulMiss'
  <2>1. answer'.pop = answer.pop /\ Unb!TruthfulMiss
    BY <1>1 DEF ChannelIInv, Unb!TypeOK
  <2> QED BY <1>1, <2>1 DEF Unb!TruthfulMiss
<1>13. \A i \in 1 .. m : cont[c[i]] # <<>> => cont'[c[i]] # <<>>
  BY <1>3, <1>4, <1>5
<1>14. MiddleFull'
  <2>1. MiddleFull
    BY DEF ChannelIInv
  <2>2. \A i \in 2 .. m - 1 : i \in 1 .. m
    BY <1>3
  <2> QED BY <1>6, <1>13, <2>1, <2>2 DEF MiddleFull, c
<1>15. Writing'
  BY <1>1, <1>6 DEF Writing
<1>16. Reading'
  <2>1. Reading
    BY DEF ChannelIInv
  <2>2. atC \in {"recheck", "unlink", "clear", "recycle"} => cont'[buf_r] = cont[buf_r]
    <3>1. buf_r \in Unb!Buffers
      BY ChainFacts
    <3> QED BY <1>4, <2>1, <3>1 DEF Reading
  <2>3. cont[c[1]] # <<>> => cont'[c[1]] # <<>>
    BY <1>3, <1>13
  <2> QED BY <1>1, <1>6, <2>1, <2>2, <2>3 DEF Reading, c
<1> QED BY <1>9, <1>10, <1>11, <1>12, <1>14, <1>15, <1>16 DEF ChannelIInv

-----------------------------------------------------------------------------
(* The consumer *)

\* When every channel of the chain is empty, so is the queue.
LEMMA AllEmpty ==
  ASSUME ChannelIInv, \A i \in 1 .. Len(Unb!chain) : cont[Unb!chain[i]] = <<>>
  PROVE  rcvd = sent
<1>1. \A b \in Unb!Range(Unb!chain) : Unb!Range(cont[b]) = {}
  <2>1. \A b \in Unb!Range(Unb!chain) : cont[b] = <<>>
    BY ChainFacts
  <2> QED BY <2>1 DEF Unb!Range
<1>2. UNION {Unb!Range(cont[b]) : b \in Unb!Range(Unb!chain)} = rcvd + 1 .. sent
  BY DEF ChannelIInv, Unb!ChainHoldsQueue
<1>3. sent \notin rcvd + 1 .. sent
  BY <1>1, <1>2
<1>4. sent \in 0 .. MaxPush /\ rcvd \in 0 .. sent
  BY DEF ChannelIInv, Unb!TypeOK
<1> QED BY <1>3, <1>4

\* The consumer's channel is the producer's only when nothing lies behind it.
LEMMA SameChannel ==
  ASSUME ChannelIInv, ~Unb!given, buf_r = buf_w, cont[buf_r] = <<>>
  PROVE  rcvd = sent
<1> DEFINE c == Unb!chain
           m == Len(c)
<1>1. /\ m \in Nat \ {0} /\ c[1] = buf_r
      /\ \A i, j \in 1 .. m : c[i] = c[j] => i = j
      /\ (atP = "switch" => m > 1 /\ t = c[m])
      /\ buf_w = IF atP = "switch" THEN c[m - 1] ELSE c[m]
      /\ (atP = "switch" => cont[t] = <<>>)
  BY ChainFacts DEF ChannelIInv, Writing
<1> HIDE DEF c, m
<1>2. CASE atP # "switch"
  <2>1. c[m] = c[1] /\ m \in 1 .. m /\ 1 \in 1 .. m
    BY <1>1, <1>2
  <2>2. m = 1
    BY <1>1, <2>1
  <2>3. \A i \in 1 .. m : cont[c[i]] = <<>>
    BY <1>1, <2>2
  <2> QED BY <2>3, AllEmpty DEF c, m
<1>3. CASE atP = "switch"
  <2>1. c[m - 1] = c[1] /\ m - 1 \in 1 .. m /\ 1 \in 1 .. m
    BY <1>1, <1>3
  <2>2. m - 1 = 1
    BY <1>1, <2>1
  <2>3. \A i \in 1 .. m : i = 1 \/ i = m
    BY <1>1, <2>2
  <2>4. \A i \in 1 .. m : cont[c[i]] = <<>>
    BY <1>1, <1>3, <2>3
  <2> QED BY <2>4, AllEmpty DEF c, m
<1> QED BY <1>2, <1>3

\* A look of the consumer leaves the producer and the queue as they are.
LEMMA LookKept ==
  ASSUME ChannelIInv, UNCHANGED <<cont, live, bufcache, inuse, tmp, buf_r, buf_w, sent, rcvd, atP, t>>,
         Unb!given' <=> Unb!given, Unb!holding' <=> Unb!holding
  PROVE  Unb!chain' = Unb!chain /\ Unb!ChainHoldsQueue' /\ Unb!OneOwner' /\ MiddleFull' /\ Writing'
<1>1. Unb!chain' = Unb!chain /\ Unb!ChainHoldsQueue' /\ MiddleFull'
  BY QuietStep
<1>2. Unb!OneOwner'
  <2>1. Unb!Linking' = Unb!Linking
    BY DEF Unb!Linking
  <2> QED BY <2>1, QuietStep
<1>3. Writing'
  BY <1>1 DEF ChannelIInv, Writing
<1> QED BY <1>1, <1>2, <1>3

\* pop looks into its channel for the first time.
LEMMA PopTestIInv ==
  ASSUME Unb!BoundAssumption, ChannelIInv, Unb!PopTest
  PROVE  ChannelIInv'
<1>1. /\ atC = "idle" /\ sawEmpty' = (rcvd = sent)
      /\ UNCHANGED <<cont, live, bufcache, inuse, tmp, buf_r, buf_w, sent, rcvd, atP, t, regP, regC,
                     answer, in_use_buffers, fixedsize>>
      /\ \/ cont[buf_r] = <<>> /\ atC' = "compare"
         \/ cont[buf_r] # <<>> /\ atC' = "get"
  BY DEF Unb!PopTest, Unb!fields, Unb!pool, Unb!producer, Unb!emptyChannel, Unb!Nothing
<1>2. /\ Unb!chain' = Unb!chain /\ Unb!ChainHoldsQueue' /\ Unb!OneOwner' /\ MiddleFull' /\ Writing'
      /\ ~Unb!given /\ ~Unb!given' /\ ~Unb!holding'
  <2>1. ~Unb!given /\ ~Unb!holding /\ ~Unb!given' /\ ~Unb!holding'
    BY <1>1 DEF Unb!given, Unb!holding
  <2> QED BY <1>1, <2>1, LookKept
<1>3. Unb!TypeOK'
  <2>1. Unb!TypeOK
    BY DEF ChannelIInv
  <2>2. sawEmpty' \in BOOLEAN
    BY <1>1
  <2> QED BY <1>1, <2>1, <2>2 DEF Unb!TypeOK
<1>4. Unb!TruthfulMiss'
  BY <1>1 DEF Unb!TruthfulMiss
<1>5. buf_r = buf_w /\ cont[buf_r] = <<>> => rcvd = sent
  BY <1>2, SameChannel
<1>6. Unb!chain[1] = buf_r
  BY <1>2, ChainFacts
<1>7. Reading'
  BY <1>1, <1>2, <1>5, <1>6 DEF Reading
<1> QED BY <1>2, <1>3, <1>4, <1>7 DEF ChannelIInv

\* pop compares the two ends.
LEMMA PopCompareIInv ==
  ASSUME Unb!BoundAssumption, ChannelIInv, Unb!PopCompare
  PROVE  ChannelIInv'
<1>1. /\ atC = "compare"
      /\ UNCHANGED <<cont, live, bufcache, inuse, tmp, buf_r, buf_w, sent, rcvd, atP, t, regP, regC,
                     sawEmpty, in_use_buffers, fixedsize>>
      /\ \/ buf_r = buf_w /\ atC' = "idle" /\ answer' = [answer EXCEPT !.pop = FALSE]
         \/ buf_r # buf_w /\ atC' = "recheck" /\ answer' = answer
  BY DEF Unb!PopCompare, Unb!fields, Unb!pool, Unb!producer
<1>2. /\ Unb!chain' = Unb!chain /\ Unb!ChainHoldsQueue' /\ Unb!OneOwner' /\ MiddleFull' /\ Writing'
      /\ ~Unb!given' /\ ~Unb!holding'
  <2>1. ~Unb!given /\ ~Unb!holding /\ ~Unb!given' /\ ~Unb!holding'
    BY <1>1 DEF Unb!given, Unb!holding
  <2> QED BY <1>1, <2>1, LookKept
<1>3. Unb!TypeOK'
  <2>1. Unb!TypeOK
    BY DEF ChannelIInv
  <2>2. answer' \in [push : BOOLEAN, pop : BOOLEAN]
    BY <1>1, <2>1 DEF Unb!TypeOK
  <2> QED BY <1>1, <2>1, <2>2 DEF Unb!TypeOK
<1>4. Unb!TruthfulMiss'
  BY <1>1 DEF ChannelIInv, Reading, Unb!TruthfulMiss
<1>5. Reading'
  BY <1>1, <1>2 DEF Reading
<1> QED BY <1>2, <1>3, <1>4, <1>5 DEF ChannelIInv

\* pop looks again: what was put there before the producer left is seen now.
LEMMA PopRecheckIInv ==
  ASSUME Unb!BoundAssumption, ChannelIInv, Unb!PopRecheck
  PROVE  ChannelIInv'
<1>1. /\ atC = "recheck"
      /\ UNCHANGED <<cont, live, bufcache, inuse, tmp, buf_r, buf_w, sent, rcvd, atP, t, regP, regC,
                     sawEmpty, answer, in_use_buffers, fixedsize>>
      /\ \/ cont[buf_r] = <<>> /\ atC' = "unlink"
         \/ cont[buf_r] # <<>> /\ atC' = "get"
  BY DEF Unb!PopRecheck, Unb!fields, Unb!pool, Unb!producer, Unb!history, Unb!emptyChannel
<1>2. /\ Unb!chain' = Unb!chain /\ Unb!ChainHoldsQueue' /\ Unb!OneOwner' /\ MiddleFull' /\ Writing'
      /\ ~Unb!given /\ ~Unb!given' /\ ~Unb!holding'
  <2>1. ~Unb!given /\ ~Unb!holding /\ ~Unb!given' /\ ~Unb!holding'
    BY <1>1 DEF Unb!given, Unb!holding
  <2> QED BY <1>1, <2>1, LookKept
<1>3. Unb!TypeOK'
  BY <1>1 DEF ChannelIInv, Unb!TypeOK
<1>4. Unb!TruthfulMiss'
  BY <1>1 DEF Unb!TruthfulMiss
<1>5. Unb!chain[1] = buf_r
  BY <1>2, ChainFacts
<1>6. Reading'
  BY <1>1, <1>2, <1>5 DEF ChannelIInv, Reading
<1> QED BY <1>2, <1>3, <1>4, <1>6 DEF ChannelIInv

\* The consumer's channel is not the last of the chain when the producer has left it.
LEMMA ChannelBehind ==
  ASSUME ChannelIInv, ~Unb!given, buf_r # buf_w
  PROVE  Len(Unb!chain) > 1 /\ (atP = "switch" => Len(Unb!chain) > 2)
<1> DEFINE c == Unb!chain
           m == Len(c)
<1>1. /\ m \in Nat \ {0} /\ c[1] = buf_r
      /\ (atP = "switch" => m > 1)
      /\ buf_w = IF atP = "switch" THEN c[m - 1] ELSE c[m]
  BY ChainFacts
<1> HIDE DEF c, m
<1>2. CASE atP # "switch"
  BY <1>1, <1>2 DEF c, m
<1>3. CASE atP = "switch"
  <2>1. m - 1 # 1
    BY <1>1, <1>3
  <2> QED BY <1>1, <1>3, <2>1 DEF c, m
<1> QED BY <1>2, <1>3

\* pop takes the next channel: it is there.
LEMMA PopUnlinkIInv ==
  ASSUME Unb!BoundAssumption, ChannelIInv, Unb!PopUnlink
  PROVE  ChannelIInv'
<1>1. /\ atC = "unlink" /\ ~Unb!given /\ ~Unb!holding /\ buf_r # buf_w /\ cont[buf_r] = <<>>
  BY DEF Unb!PopUnlink, Unb!given, Unb!holding, ChannelIInv, Reading
<1>2. /\ inuse \in Seq(Unb!Buffers) /\ buf_r \in Unb!Buffers /\ inuse # <<>>
      /\ Unb!ahead = inuse /\ Unb!chain = <<buf_r>> \o inuse
  <2>1. /\ inuse \in Seq(Unb!Buffers) /\ buf_r \in Unb!Buffers /\ Unb!ahead = inuse
        /\ Unb!chain = <<buf_r>> \o inuse
    BY <1>1, ChainFacts, ChainShape
  <2>2. Len(Unb!chain) = Len(inuse) + 1 /\ Len(Unb!chain) > 1 /\ Len(inuse) \in Nat
    BY <1>1, <2>1, OneBefore, ChannelBehind
  <2>3. inuse = <<>> => Len(inuse) = 0
    OBVIOUS
  <2> QED BY <2>1, <2>2, <2>3
<1>3. /\ tmp' = Head(inuse) /\ inuse' = Tail(inuse) /\ atC' = "clear"
      /\ UNCHANGED <<cont, live, bufcache, buf_r, buf_w, sent, rcvd, atP, t, regP, regC,
                     sawEmpty, answer, in_use_buffers, fixedsize>>
  BY <1>2 DEF Unb!PopUnlink, Unb!fields, Unb!producer, Unb!history
<1>4. tmp' \in Unb!Buffers /\ inuse' \in Seq(Unb!Buffers) /\ <<tmp'>> \o inuse' = inuse
  BY <1>2, <1>3, OneLess
<1>5. ~Unb!given' /\ Unb!holding'
  BY <1>3 DEF Unb!given, Unb!holding
<1>6. Unb!chain' = Unb!chain
  <2>1. Unb!ahead' = <<tmp'>> \o inuse'
    BY <1>5 DEF Unb!ahead
  <2>2. Unb!chain' = <<buf_r'>> \o Unb!ahead'
    BY <1>5 DEF Unb!chain
  <2> QED BY <1>2, <1>3, <1>4, <2>1, <2>2
<1>7. Unb!ChainHoldsQueue'
  BY <1>3, <1>6, QueueKept, ChainFacts DEF ChannelIInv
<1>8. Unb!OneOwner'
  <2>1. Unb!Linking' = Unb!Linking
    BY <1>3 DEF Unb!Linking
  <2> QED BY <1>3, <1>6, <2>1 DEF ChannelIInv, Unb!OneOwner, Unb!emptyChannel
<1>9. Unb!TypeOK'
  BY <1>3, <1>4 DEF ChannelIInv, Unb!TypeOK
<1>10. Unb!TruthfulMiss'
  BY <1>3 DEF Unb!TruthfulMiss
<1>11. MiddleFull' /\ Writing'
  BY <1>3, <1>6 DEF ChannelIInv, MiddleFull, Writing
<1>12. Reading'
  BY <1>1, <1>3, <1>4, <1>5, <1>6 DEF Reading
<1> QED BY <1>7, <1>8, <1>9, <1>10, <1>11, <1>12 DEF ChannelIInv

\* Resetting a channel that is already empty changes nothing.
LEMMA ReleaseResetIInv ==
  ASSUME Unb!BoundAssumption, ChannelIInv, Unb!ReleaseReset
  PROVE  ChannelIInv'
<1>1. /\ atC = "clear" /\ atC' = "recycle" /\ cont' = [cont EXCEPT ![buf_r] = <<>>]
      /\ UNCHANGED <<live, bufcache, inuse, tmp, buf_r, buf_w, sent, rcvd, atP, t, regP, regC,
                     sawEmpty, answer, in_use_buffers, fixedsize>>
  BY DEF Unb!ReleaseReset, Unb!fields, Unb!pool, Unb!producer, Unb!history
<1>2. cont' = cont
  <2>1. cont[buf_r] = <<>> /\ cont \in [Unb!Buffers -> Seq(1 .. MaxPush)] /\ buf_r \in Unb!Buffers
    BY <1>1 DEF ChannelIInv, Unb!TypeOK, Reading
  <2> QED BY <1>1, <2>1
<1>3. /\ Unb!chain' = Unb!chain /\ Unb!ChainHoldsQueue' /\ Unb!OneOwner' /\ MiddleFull' /\ Writing'
      /\ ~Unb!given'
  <2>1. ~Unb!given /\ Unb!holding /\ ~Unb!given' /\ Unb!holding'
    BY <1>1 DEF Unb!given, Unb!holding
  <2> QED BY <1>1, <1>2, <2>1, LookKept
<1>4. Unb!TypeOK'
  BY <1>1, <1>2 DEF ChannelIInv, Unb!TypeOK
<1>5. Unb!TruthfulMiss'
  BY <1>1 DEF Unb!TruthfulMiss
<1>6. Reading'
  <2>1. Unb!holding
    BY <1>1 DEF Unb!holding
  <2> QED BY <1>1, <1>2, <1>3, <2>1 DEF ChannelIInv, Reading
<1> QED BY <1>3, <1>4, <1>5, <1>6 DEF ChannelIInv

\* pop gives its channel back, to the cache or to free.
LEMMA ReleaseRecycleIInv ==
  ASSUME Unb!BoundAssumption, ChannelIInv, Unb!ReleaseRecycle
  PROVE  ChannelIInv'
<1> DEFINE c == Unb!chain
           m == Len(c)
<1>1. /\ atC = "recycle" /\ atC' = "uncount"
      /\ UNCHANGED <<cont, inuse, tmp, buf_r, buf_w, sent, rcvd, atP, t, regP, regC,
                     sawEmpty, answer, in_use_buffers, fixedsize>>
      /\ \/ Len(bufcache) < CacheSize /\ bufcache' = Append(bufcache, buf_r) /\ live' = live
         \/ live' = live \ {buf_r} /\ bufcache' = bufcache
  BY DEF Unb!ReleaseRecycle, Unb!fields, Unb!producer, Unb!history
<1>2. ~Unb!given /\ Unb!holding /\ Unb!given' /\ Unb!holding'
  BY <1>1 DEF Unb!given, Unb!holding
<1>3. /\ buf_r # buf_w /\ cont[buf_r] = <<>> /\ tmp \in Unb!Buffers
      /\ inuse \in Seq(Unb!Buffers) /\ buf_r \in Unb!Buffers
  BY <1>1, <1>2, ChainFacts DEF ChannelIInv, Reading
<1>4. /\ c \in Seq(Unb!Buffers) /\ c # <<>> /\ m \in Nat \ {0} /\ Unb!IsInjective(c)
      /\ \A i \in 1 .. m : c[i] \in Unb!Buffers /\ c[i] \in Unb!Range(c)
      /\ c[1] = buf_r /\ buf_r \in Unb!Range(c)
  <2>1. Unb!IsInjective(c) /\ c[1] = buf_r /\ m \in Nat \ {0}
    BY <1>2, ChainFacts DEF ChannelIInv, Unb!OneOwner
  <2>2. 1 \in 1 .. m
    BY <2>1
  <2> QED BY <2>1, <2>2, ChainFacts
<1>5. m > 1 /\ (atP = "switch" => m > 2)
  BY <1>2, <1>3, ChannelBehind
<1>6. c' = Tail(c)
  <2>1. Unb!ahead' = Unb!ahead
    BY <1>1, <1>2 DEF Unb!ahead
  <2>2. Unb!ahead \in Seq(Unb!Buffers) /\ Tail(c) = Unb!ahead
    BY <1>2, <1>3, ChainShape
  <2>3. Unb!chain' = <<>> \o Unb!ahead'
    BY <1>2 DEF Unb!chain
  <2> QED BY <2>1, <2>2, <2>3, ConcatEmptySeq
<1> HIDE DEF c
<1>7. /\ c' \in Seq(Unb!Buffers) /\ Len(c') = m - 1
      /\ \A i \in 1 .. m - 1 : c'[i] = c[i + 1] /\ i + 1 \in 1 .. m
      /\ Unb!Range(c') \cup {buf_r} = Unb!Range(c)
      /\ Unb!IsInjective(c') /\ buf_r \notin Unb!Range(c')
  <2>1. /\ Tail(c) \in Seq(Unb!Buffers) /\ Len(Tail(c)) = m - 1
        /\ \A i \in 1 .. m - 1 : Tail(c)[i] = c[i + 1]
        /\ Unb!Range(Tail(c)) \cup {c[1]} = Unb!Range(c)
        /\ Unb!IsInjective(Tail(c)) /\ c[1] \notin Unb!Range(Tail(c))
    BY <1>4, OneLess, Zenon
  <2>2. \A i \in 1 .. m - 1 : i + 1 \in 1 .. m
    BY <1>4
  <2> QED BY <1>4, <1>6, <2>1, <2>2
<1>8. Unb!ChainHoldsQueue'
  <2>1. /\ UNION {Unb!Range(cont[b]) : b \in Unb!Range(c)} = rcvd + 1 .. sent
        /\ \A b \in Unb!Range(c) : \A i, j \in 1 .. Len(cont[b]) : i < j => cont[b][i] < cont[b][j]
        /\ \A i, j \in 1 .. m : i < j =>
             \A x \in Unb!Range(cont[c[i]]), y \in Unb!Range(cont[c[j]]) : x < y
    BY DEF ChannelIInv, Unb!ChainHoldsQueue, c
  <2>2. Unb!Range(cont[buf_r]) = {}
    BY <1>3 DEF Unb!Range
  <2>3. UNION {Unb!Range(cont[b]) : b \in Unb!Range(c')} = rcvd + 1 .. sent
    BY <1>7, <2>1, <2>2
  <2>4. \A b \in Unb!Range(c') : \A i, j \in 1 .. Len(cont[b]) : i < j => cont[b][i] < cont[b][j]
    BY <1>7, <2>1
  <2>5. \A i, j \in 1 .. m - 1 : i < j =>
          \A x \in Unb!Range(cont[c'[i]]), y \in Unb!Range(cont[c'[j]]) : x < y
    <3> TAKE i, j \in 1 .. m - 1
    <3> HAVE i < j
    <3>1. i + 1 < j + 1
      OBVIOUS
    <3> QED BY <1>7, <2>1, <3>1
  <2>6. rcvd' = rcvd /\ sent' = sent /\ cont' = cont
    BY <1>1
  <2> QED BY <1>7, <2>3, <2>4, <2>5, <2>6 DEF Unb!ChainHoldsQueue, c
<1>9. /\ Unb!OneOwner /\ bufcache \in Seq(Unb!Buffers) /\ Len(bufcache) <= CacheSize
      /\ live \subseteq Unb!Buffers
  BY DEF ChannelIInv, Unb!TypeOK
<1>10. /\ bufcache' \in Seq(Unb!Buffers) /\ Len(bufcache') <= CacheSize /\ Unb!IsInjective(bufcache')
       /\ Unb!Range(bufcache') \subseteq Unb!Range(bufcache) \cup {buf_r}
       /\ live' = Unb!Range(c') \cup Unb!Range(bufcache') \cup Unb!Linking
  <2>1. /\ Unb!IsInjective(bufcache) /\ buf_r \notin Unb!Range(bufcache) /\ buf_r \notin Unb!Linking
        /\ live = Unb!Range(c) \cup Unb!Range(bufcache) \cup Unb!Linking
    BY <1>4, <1>9 DEF Unb!OneOwner, c
  <2>2. CASE Len(bufcache) < CacheSize /\ bufcache' = Append(bufcache, buf_r) /\ live' = live
    <3>1. /\ bufcache' \in Seq(Unb!Buffers) /\ Len(bufcache') = Len(bufcache) + 1
          /\ Unb!Range(bufcache') = Unb!Range(bufcache) \cup {buf_r} /\ Unb!IsInjective(bufcache')
      BY <1>3, <1>9, <2>1, <2>2, OneMore
    <3>2. Len(bufcache) \in Nat /\ CacheSize \in Nat
      BY <1>9 DEF Unb!BoundAssumption
    <3> QED BY <1>7, <2>1, <2>2, <3>1, <3>2
  <2>3. CASE live' = live \ {buf_r} /\ bufcache' = bufcache
    BY <1>7, <1>9, <2>1, <2>3
  <2> QED BY <1>1, <2>2, <2>3
<1>11. Unb!OneOwner'
  <2>1. Unb!Linking' = Unb!Linking
    BY <1>1 DEF Unb!Linking
  <2>2. /\ Unb!Range(c) \cap Unb!Range(bufcache) = {}
        /\ (Unb!Range(c) \cup Unb!Range(bufcache)) \cap Unb!Linking = {}
        /\ \A b \in Unb!Range(bufcache) : cont[b] = <<>>
        /\ buf_w = IF atP = "switch" THEN c[m - 1] ELSE c[m]
    BY <1>9 DEF Unb!OneOwner, Unb!emptyChannel, c
  <2>3. buf_w' = IF atP' = "switch" THEN c'[Len(c') - 1] ELSE c'[Len(c')]
    <3>1. CASE atP = "switch"
      <4>1. m - 2 \in 1 .. m - 1 /\ (m - 2) + 1 = m - 1 /\ (m - 1) - 1 = m - 2
        BY <1>4, <1>5, <3>1
      <4>2. c'[m - 2] = c[m - 1]
        BY <1>7, <4>1
      <4> QED BY <1>1, <1>7, <2>2, <3>1, <4>1, <4>2
    <3>2. CASE atP # "switch"
      <4>1. m - 1 \in 1 .. m - 1 /\ (m - 1) + 1 = m
        BY <1>4, <1>5
      <4> QED BY <1>1, <1>7, <2>2, <3>2, <4>1
    <3> QED BY <3>1, <3>2
  <2>4. /\ Unb!Range(c') \cap Unb!Range(bufcache') = {}
        /\ (Unb!Range(c') \cup Unb!Range(bufcache')) \cap Unb!Linking = {}
        /\ \A b \in Unb!Range(bufcache') : cont[b] = <<>>
    BY <1>3, <1>4, <1>7, <1>10, <2>2
  <2> QED BY <1>1, <1>7, <1>10, <2>1, <2>3, <2>4 DEF Unb!OneOwner, Unb!emptyChannel, c
<1>12. Unb!TypeOK'
  <2>1. Unb!TypeOK /\ live' \subseteq Unb!Buffers
    BY <1>1, <1>9 DEF ChannelIInv
  <2> QED BY <1>1, <1>10, <2>1 DEF Unb!TypeOK
<1>13. Unb!TruthfulMiss'
  BY <1>1 DEF Unb!TruthfulMiss
<1>14. MiddleFull'
  <2>1. ASSUME NEW i \in 2 .. m - 2 PROVE cont[c'[i]] # <<>>
    <3>1. i \in 1 .. m - 1 /\ i + 1 \in 2 .. m - 1
      BY <1>4
    <3> QED BY <1>7, <3>1 DEF ChannelIInv, MiddleFull, c
  <2>2. Len(c') - 1 = m - 2 /\ cont' = cont
    BY <1>1, <1>4, <1>7
  <2> QED BY <2>1, <2>2 DEF MiddleFull, c
<1>15. c'[m - 1] = c[m] /\ c'[1] = c[2] /\ m - 1 \in Nat \ {0}
  <2>1. m - 1 \in 1 .. m - 1 /\ (m - 1) + 1 = m /\ 1 \in 1 .. m - 1 /\ 1 + 1 = 2 /\ m - 1 \in Nat \ {0}
    BY <1>4, <1>5
  <2> QED BY <1>7, <2>1
<1>16. Writing'
  <2>1. Writing
    BY DEF ChannelIInv
  <2> QED BY <1>1, <1>4, <1>5, <1>7, <1>15, <2>1 DEF Writing, c
<1>17. Reading'
  <2>1. cont[c[2]] # <<>> \/ (m = 2 /\ atP \notin {"next", "link"})
    <3>1. CASE m > 2
      <4>1. 2 \in 2 .. m - 1
        BY <1>4, <3>1
      <4> QED BY <4>1 DEF ChannelIInv, MiddleFull, c
    <3>2. CASE m = 2
      BY <3>2 DEF ChannelIInv, Writing, c
    <3>3. m > 2 \/ m = 2
      <4>1. m \in Nat /\ m > 1
        BY <1>4, <1>5
      <4>2. \A n \in Nat : n > 1 => n > 2 \/ n = 2
        OBVIOUS
      <4> QED BY <4>1, <4>2
    <3> QED BY <3>1, <3>2, <3>3
  <2>2. cont'[c'[1]] # <<>> \/ (Len(c') = 1 /\ atP' \notin {"next", "link"})
    BY <1>1, <1>4, <1>7, <1>15, <2>1
  <2> QED BY <1>1, <1>3, <2>2 DEF Reading, c
<1> QED BY <1>8, <1>11, <1>12, <1>13, <1>14, <1>16, <1>17 DEF ChannelIInv

\* pop reads or writes the count of the channels in use.
LEMMA UncountIInv ==
  ASSUME Unb!BoundAssumption, ChannelIInv, Unb!UncountRead \/ Unb!UncountWrite
  PROVE  ChannelIInv'
<1>1. /\ atC \in {"uncount", "subtract"} /\ atC' \in {"subtract", "move"}
      /\ UNCHANGED <<cont, live, bufcache, inuse, tmp, buf_r, buf_w, sent, rcvd, atP, t, regP,
                     sawEmpty, answer, fixedsize>>
      /\ \/ regC' = in_use_buffers /\ UNCHANGED in_use_buffers
         \/ in_use_buffers' = (regC - 1) % Modulus /\ regC' = 0
  BY DEF Unb!UncountRead, Unb!UncountWrite, Unb!fields, Unb!pool, Unb!producer, Unb!history
<1>2. /\ Unb!chain' = Unb!chain /\ Unb!ChainHoldsQueue' /\ Unb!OneOwner' /\ MiddleFull' /\ Writing'
      /\ Unb!given /\ Unb!holding
  <2>1. Unb!given /\ Unb!holding /\ Unb!given' /\ Unb!holding'
    BY <1>1 DEF Unb!given, Unb!holding
  <2> QED BY <1>1, <2>1, LookKept
<1>3. Unb!TypeOK'
  <2>1. Modulus \in Nat \ {0, 1} /\ Unb!TypeOK
    BY DEF ChannelIInv, Unb!BoundAssumption
  <2>2. regC \in Nat /\ in_use_buffers \in 0 .. Modulus - 1
    BY <2>1 DEF Unb!TypeOK
  <2>3. (regC - 1) % Modulus \in 0 .. Modulus - 1
    BY <2>1, <2>2
  <2>4. regC' \in 0 .. Modulus - 1 /\ in_use_buffers' \in 0 .. Modulus - 1
    BY <1>1, <2>1, <2>2, <2>3
  <2> QED BY <1>1, <2>1, <2>4 DEF Unb!TypeOK
<1>4. Unb!TruthfulMiss'
  BY <1>1 DEF Unb!TruthfulMiss
<1>5. Reading'
  BY <1>1, <1>2 DEF ChannelIInv, Reading
<1> QED BY <1>2, <1>3, <1>4, <1>5 DEF ChannelIInv

\* pop reads from the next channel from now on.
LEMMA MoveOnIInv ==
  ASSUME Unb!BoundAssumption, ChannelIInv, Unb!MoveOn
  PROVE  ChannelIInv'
<1>1. /\ atC = "move" /\ atC' = "get" /\ buf_r' = tmp /\ tmp' = Unb!NULL
      /\ UNCHANGED <<cont, live, bufcache, inuse, buf_w, sent, rcvd, atP, t, regP, regC,
                     sawEmpty, answer, in_use_buffers, fixedsize>>
  BY DEF Unb!MoveOn, Unb!pool, Unb!producer, Unb!history
<1>2. Unb!given /\ Unb!holding /\ ~Unb!given' /\ ~Unb!holding'
  BY <1>1 DEF Unb!given, Unb!holding
<1>3. inuse \in Seq(Unb!Buffers) /\ tmp \in Unb!Buffers /\ buf_r \in Unb!Buffers
  BY <1>2, ChainFacts
<1>4. Unb!chain' = Unb!chain
  <2>1. Unb!chain = <<tmp>> \o inuse
    BY <1>2, <1>3, ChainShape
  <2>2. Unb!ahead' = <<>> \o inuse'
    BY <1>2 DEF Unb!ahead
  <2>3. Unb!ahead' = inuse
    BY <1>1, <1>3, <2>2, ConcatEmptySeq
  <2>4. Unb!chain' = <<buf_r'>> \o Unb!ahead'
    BY <1>2 DEF Unb!chain
  <2> QED BY <1>1, <2>1, <2>3, <2>4
<1>5. Unb!ChainHoldsQueue'
  BY <1>1, <1>4, QueueKept, ChainFacts DEF ChannelIInv
<1>6. Unb!OneOwner'
  <2>1. Unb!Linking' = Unb!Linking
    BY <1>1 DEF Unb!Linking
  <2> QED BY <1>1, <1>4, <2>1 DEF ChannelIInv, Unb!OneOwner, Unb!emptyChannel
<1>7. Unb!TypeOK'
  BY <1>1, <1>3 DEF ChannelIInv, Unb!TypeOK
<1>8. Unb!TruthfulMiss'
  BY <1>1 DEF Unb!TruthfulMiss
<1>9. MiddleFull' /\ Writing'
  BY <1>1, <1>4 DEF ChannelIInv, MiddleFull, Writing
<1>10. Reading'
  BY <1>1, <1>2, <1>4 DEF ChannelIInv, Reading
<1> QED BY <1>5, <1>6, <1>7, <1>8, <1>9, <1>10 DEF ChannelIInv

\* The oldest item is the first of the first channel.
LEMMA OldestFirst ==
  ASSUME ChannelIInv, ~Unb!given, cont[buf_r] # <<>>
  PROVE  /\ cont[buf_r] \in Seq(1 .. MaxPush) /\ rcvd < sent
         /\ cont[buf_r][1] = rcvd + 1 /\ Head(cont[buf_r]) = rcvd + 1
<1> DEFINE c == Unb!chain
           s == cont[buf_r]
<1>1. /\ s \in Seq(1 .. MaxPush) /\ Len(s) \in Nat \ {0} /\ 1 \in 1 .. Len(s)
      /\ s[1] \in Unb!Range(s) /\ Head(s) = s[1]
  <2>1. s \in Seq(1 .. MaxPush)
    BY ChainFacts DEF ChannelIInv, Unb!TypeOK
  <2>2. Len(s) \in Nat \ {0} /\ Head(s) = s[1] /\ s[1] \in Unb!Range(s)
    BY <2>1, OneLess
  <2> QED BY <2>1, <2>2
<1>2. /\ Len(c) \in Nat \ {0} /\ 1 \in 1 .. Len(c) /\ c[1] = buf_r /\ buf_r \in Unb!Range(c)
      /\ \A b \in Unb!Range(c) : \E i \in 1 .. Len(c) : b = c[i]
  <2>1. 1 \in 1 .. Len(c)
    BY ChainFacts
  <2> QED BY <2>1, ChainFacts
<1>3. /\ UNION {Unb!Range(cont[b]) : b \in Unb!Range(c)} = rcvd + 1 .. sent
      /\ \A i, j \in 1 .. Len(s) : i < j => s[i] < s[j]
      /\ \A i, j \in 1 .. Len(c) : i < j =>
           \A x \in Unb!Range(cont[c[i]]), y \in Unb!Range(cont[c[j]]) : x < y
  BY <1>2 DEF ChannelIInv, Unb!ChainHoldsQueue
<1>4. sent \in Int /\ rcvd \in Int
  BY DEF ChannelIInv, Unb!TypeOK
<1> HIDE DEF c, s
<1>5. s[1] \in rcvd + 1 .. sent
  BY <1>1, <1>2, <1>3 DEF s
<1>6. rcvd + 1 \in rcvd + 1 .. sent
  BY <1>4, <1>5
<1>7. PICK b \in Unb!Range(c) : rcvd + 1 \in Unb!Range(cont[b])
  BY <1>3, <1>6
<1>8. PICK j \in 1 .. Len(c) : b = c[j]
  BY <1>2
<1>9. s[1] <= rcvd + 1
  <2>1. CASE j = 1
    <3>1. rcvd + 1 \in Unb!Range(s)
      BY <1>2, <1>7, <1>8, <2>1 DEF s
    <3>2. PICK i \in 1 .. Len(s) : rcvd + 1 = s[i]
      BY <1>1, <3>1, Members
    <3>3. i = 1 \/ 1 < i
      BY <1>1
    <3> QED BY <1>1, <1>3, <1>4, <1>5, <3>2, <3>3
  <2>2. CASE j # 1
    <3>1. 1 < j
      BY <1>2, <2>2
    <3>2. s[1] < rcvd + 1
      BY <1>1, <1>2, <1>3, <1>7, <1>8, <3>1 DEF s
    <3> QED BY <1>4, <1>5, <3>2
  <2> QED BY <2>1, <2>2
<1>10. s[1] = rcvd + 1
  BY <1>4, <1>5, <1>9
<1> QED BY <1>1, <1>4, <1>5, <1>10 DEF s

\* pop finds nothing in the channel it came to.
LEMMA GetNothingIInv ==
  ASSUME Unb!BoundAssumption, ChannelIInv, Unb!Get, cont[buf_r] = <<>>
  PROVE  ChannelIInv'
<1>1. /\ atC = "get" /\ atC' = "idle" /\ answer' = [answer EXCEPT !.pop = FALSE]
      /\ sawEmpty' = (sawEmpty \/ rcvd = sent)
      /\ UNCHANGED <<cont, live, bufcache, inuse, tmp, buf_r, buf_w, sent, rcvd, atP, t, regP, regC,
                     in_use_buffers, fixedsize>>
  BY DEF Unb!Get, Unb!emptyChannel, Unb!fields, Unb!pool, Unb!producer, Unb!Nothing
<1>2. /\ Unb!chain' = Unb!chain /\ Unb!ChainHoldsQueue' /\ Unb!OneOwner' /\ MiddleFull' /\ Writing'
      /\ ~Unb!given /\ ~Unb!given' /\ ~Unb!holding'
  <2>1. ~Unb!given /\ ~Unb!holding /\ ~Unb!given' /\ ~Unb!holding'
    BY <1>1 DEF Unb!given, Unb!holding
  <2> QED BY <1>1, <2>1, LookKept
<1>3. rcvd = sent
  <2>1. Unb!chain[1] = buf_r
    BY <1>2, ChainFacts
  <2>2. Len(Unb!chain) = 1
    BY <1>1, <2>1 DEF ChannelIInv, Reading
  <2>3. \A i \in 1 .. Len(Unb!chain) : cont[Unb!chain[i]] = <<>>
    BY <2>1, <2>2
  <2> QED BY <2>3, AllEmpty
<1>4. sawEmpty' = TRUE
  BY <1>1, <1>3
<1>5. Unb!TypeOK'
  <2>1. Unb!TypeOK
    BY DEF ChannelIInv
  <2>2. answer' \in [push : BOOLEAN, pop : BOOLEAN]
    BY <1>1, <2>1 DEF Unb!TypeOK
  <2> QED BY <1>1, <1>4, <2>1, <2>2 DEF Unb!TypeOK
<1>6. Unb!TruthfulMiss'
  BY <1>4 DEF Unb!TruthfulMiss
<1>7. Reading'
  BY <1>1, <1>2 DEF Reading
<1> QED BY <1>2, <1>5, <1>6, <1>7 DEF ChannelIInv

\* pop takes the oldest item.
LEMMA GetItemIInv ==
  ASSUME Unb!BoundAssumption, ChannelIInv, Unb!Get, cont[buf_r] # <<>>
  PROVE  ChannelIInv'
<1> DEFINE c == Unb!chain
           m == Len(c)
           s == cont[buf_r]
<1>1. /\ atC = "get" /\ atC' = "idle" /\ rcvd' = Head(cont[buf_r])
      /\ cont' = [cont EXCEPT ![buf_r] = Tail(cont[buf_r])]
      /\ answer' = [answer EXCEPT !.pop = TRUE]
      /\ UNCHANGED <<live, bufcache, inuse, tmp, buf_r, buf_w, sent, atP, t, regP, regC,
                     sawEmpty, in_use_buffers, fixedsize>>
  BY DEF Unb!Get, Unb!emptyChannel, Unb!fields, Unb!pool, Unb!producer
<1>2. ~Unb!given /\ ~Unb!holding /\ ~Unb!given' /\ ~Unb!holding'
  BY <1>1 DEF Unb!given, Unb!holding
<1>3. c' = c
  BY <1>1, <1>2, ChainKept
<1>4. s \in Seq(1 .. MaxPush) /\ rcvd < sent /\ s[1] = rcvd + 1 /\ rcvd' = rcvd + 1
  BY <1>1, <1>2, OldestFirst
<1>5. /\ c \in Seq(Unb!Buffers) /\ m \in Nat \ {0}
      /\ \A i \in 1 .. m : c[i] \in Unb!Buffers /\ c[i] \in Unb!Range(c)
      /\ \A i, j \in 1 .. m : c[i] = c[j] => i = j
      /\ Unb!Range(c) \subseteq Unb!Buffers /\ c[1] = buf_r /\ buf_r \in Unb!Buffers
      /\ 1 \in 1 .. m /\ buf_r \in Unb!Range(c)
  <2>1. 1 \in 1 .. m
    BY ChainFacts
  <2> QED BY <1>2, <2>1, ChainFacts
<1> HIDE DEF c
<1>6. /\ UNION {Unb!Range(cont[b]) : b \in Unb!Range(c)} = rcvd + 1 .. sent
      /\ \A b \in Unb!Range(c) : \A i, j \in 1 .. Len(cont[b]) : i < j => cont[b][i] < cont[b][j]
      /\ \A i, j \in 1 .. m : i < j =>
           \A x \in Unb!Range(cont[c[i]]), y \in Unb!Range(cont[c[j]]) : x < y
  BY DEF ChannelIInv, Unb!ChainHoldsQueue, c
<1>7. /\ cont \in [Unb!Buffers -> Seq(1 .. MaxPush)] /\ MaxPush \in Nat
      /\ sent \in 0 .. MaxPush /\ rcvd \in 0 .. sent
  BY DEF ChannelIInv, Unb!TypeOK, Unb!BoundAssumption
<1>8. Unb!IsInjective(s)
  <2>1. \A i, j \in 1 .. Len(s) : i < j => s[i] < s[j]
    BY <1>5, <1>6
  <2> HIDE DEF s
  <2>2. \A i \in 1 .. Len(s) : s[i] \in Int
    <3>1. \A i \in 1 .. Len(s) : s[i] \in 1 .. MaxPush
      BY <1>4, Members
    <3> QED BY <3>1
  <2>3. \A i, j \in 1 .. Len(s) : s[i] = s[j] => i = j
    <3> TAKE i, j \in 1 .. Len(s)
    <3> HAVE s[i] = s[j]
    <3>1. i < j \/ j < i \/ i = j
      OBVIOUS
    <3> QED BY <2>1, <2>2, <3>1
  <2> QED BY <1>4, <2>3, Members
<1>9. /\ Tail(s) \in Seq(1 .. MaxPush) /\ Len(Tail(s)) = Len(s) - 1 /\ Len(s) \in Nat \ {0}
      /\ \A i \in 1 .. Len(s) - 1 : Tail(s)[i] = s[i + 1]
      /\ Unb!Range(Tail(s)) \cup {rcvd + 1} = Unb!Range(s) /\ rcvd + 1 \notin Unb!Range(Tail(s))
  <2> HIDE DEF s
  <2>1. s # <<>>
    BY DEF s
  <2>2. /\ Tail(s) \in Seq(1 .. MaxPush) /\ Len(Tail(s)) = Len(s) - 1 /\ Len(s) \in Nat \ {0}
        /\ \A i \in 1 .. Len(s) - 1 : Tail(s)[i] = s[i + 1]
        /\ Unb!Range(Tail(s)) \cup {s[1]} = Unb!Range(s) /\ s[1] \notin Unb!Range(Tail(s))
    <3>1. s \in Seq(1 .. MaxPush)
      BY <1>4
    <3>2. /\ Tail(s) \in Seq(1 .. MaxPush) /\ Len(Tail(s)) = Len(s) - 1 /\ Len(s) \in Nat \ {0}
          /\ \A i \in 1 .. Len(s) - 1 : Tail(s)[i] = s[i + 1]
      BY <2>1, <3>1, SMTT(30)
    <3>3. Unb!Range(Tail(s)) \cup {s[1]} = Unb!Range(s)
      BY <2>1, <3>1, OneLess, ZenonT(30)
    <3>4. s[1] \notin Unb!Range(Tail(s))
      BY <1>8, <2>1, <3>1, OneLess, ZenonT(30)
    <3> QED BY <3>2, <3>3, <3>4
  <2> QED BY <1>4, <2>2
<1>10. /\ cont' \in [Unb!Buffers -> Seq(1 .. MaxPush)] /\ cont'[buf_r] = Tail(s)
       /\ \A b \in Unb!Buffers : b # buf_r => cont'[b] = cont[b]
  BY <1>1, <1>5, <1>7, <1>9
<1>11. \A b \in Unb!Buffers : Len(cont'[b]) <= Len(cont[b]) /\ (cont[b] = <<>> => cont'[b] = <<>>)
  <2> TAKE b \in Unb!Buffers
  <2>1. CASE b = buf_r
    <3>1. Len(cont'[b]) = Len(cont[b]) - 1 /\ Len(cont[b]) \in Nat
      BY <1>9, <1>10, <2>1
    <3> QED BY <2>1, <3>1
  <2>2. CASE b # buf_r
    <3>1. cont'[b] = cont[b] /\ Len(cont[b]) \in Nat
      BY <1>7, <1>10, <2>2
    <3> QED BY <3>1
  <2> QED BY <2>1, <2>2
<1>12. \A b \in Unb!Range(c) : \A x : x \in Unb!Range(cont'[b]) => x \in Unb!Range(cont[b])
  BY <1>5, <1>9, <1>10
<1>13. Unb!ChainHoldsQueue'
  <2>1. UNION {Unb!Range(cont'[b]) : b \in Unb!Range(c)} = rcvd' + 1 .. sent
    <3>1. \A b \in Unb!Range(c) : b # buf_r => rcvd + 1 \notin Unb!Range(cont[b])
      <4> SUFFICES ASSUME NEW b \in Unb!Range(c), b # buf_r PROVE rcvd + 1 \notin Unb!Range(cont[b])
        OBVIOUS
      <4>1. PICK i \in 1 .. m : b = c[i]
        BY ChainFacts DEF c
      <4>2. 1 < i
        BY <1>5, <4>1
      <4>3. rcvd + 1 \in Unb!Range(cont[c[1]])
        BY <1>5, <1>9
      <4>4. ~(rcvd + 1 < rcvd + 1)
        BY <1>7
      <4> QED BY <1>5, <1>6, <4>1, <4>2, <4>3, <4>4
    <3>2. ASSUME NEW x PROVE (\E b \in Unb!Range(c) : x \in Unb!Range(cont'[b]))
                             <=> (\E b \in Unb!Range(c) : x \in Unb!Range(cont[b])) /\ x # rcvd + 1
      <4>1. \A b \in Unb!Range(c) :
              x \in Unb!Range(cont'[b]) <=> x \in Unb!Range(cont[b]) /\ x # rcvd + 1
        <5> TAKE b \in Unb!Range(c)
        <5>1. CASE b = buf_r
          BY <1>9, <1>10, <5>1
        <5>2. CASE b # buf_r
          BY <1>5, <1>10, <3>1, <5>2
        <5> QED BY <5>1, <5>2
      <4> QED BY <4>1
    <3>3. ASSUME NEW x PROVE (\E b \in Unb!Range(c) : x \in Unb!Range(cont[b])) <=> x \in rcvd + 1 .. sent
      BY <1>6
    <3>4. \A x : x \in rcvd' + 1 .. sent <=> x \in rcvd + 1 .. sent /\ x # rcvd + 1
      BY <1>4, <1>7
    <3>5. \A x : x \in UNION {Unb!Range(cont'[b]) : b \in Unb!Range(c)} <=> x \in rcvd' + 1 .. sent
      <4> TAKE x
      <4>1. x \in UNION {Unb!Range(cont'[b]) : b \in Unb!Range(c)}
              <=> \E b \in Unb!Range(c) : x \in Unb!Range(cont'[b])
        OBVIOUS
      <4> QED BY <3>2, <3>3, <3>4, <4>1, Zenon
    <3> QED BY <3>5, Zenon
  <2>2. \A b \in Unb!Range(c) : \A i, j \in 1 .. Len(cont'[b]) : i < j => cont'[b][i] < cont'[b][j]
    <3> TAKE b \in Unb!Range(c)
    <3>1. CASE b # buf_r
      BY <1>5, <1>6, <1>10, <3>1
    <3>2. CASE b = buf_r
      <4> SUFFICES ASSUME NEW i \in 1 .. Len(s) - 1, NEW j \in 1 .. Len(s) - 1, i < j
                   PROVE  Tail(s)[i] < Tail(s)[j]
        BY <1>9, <1>10, <3>2
      <4>1. i + 1 \in 1 .. Len(s) /\ j + 1 \in 1 .. Len(s) /\ i + 1 < j + 1
        BY <1>9
      <4>2. s[i + 1] < s[j + 1]
        BY <1>5, <1>6, <4>1
      <4> QED BY <1>9, <4>2
    <3> QED BY <3>1, <3>2
  <2>3. \A i, j \in 1 .. m : i < j =>
          \A x \in Unb!Range(cont'[c[i]]), y \in Unb!Range(cont'[c[j]]) : x < y
    BY <1>5, <1>6, <1>12
  <2>4. Unb!chain' = c /\ sent' = sent
    BY <1>1, <1>3 DEF c
  <2> QED BY <2>1, <2>2, <2>3, <2>4 DEF Unb!ChainHoldsQueue
<1>14. Unb!OneOwner'
  <2>1. Unb!OneOwner
    BY DEF ChannelIInv
  <2>2. Unb!Linking' = Unb!Linking
    BY <1>1 DEF Unb!Linking
  <2>3. \A b \in Unb!Range(bufcache) : cont'[b] = <<>>
    <3>1. bufcache \in Seq(Unb!Buffers)
      BY DEF ChannelIInv, Unb!TypeOK
    <3>2. Unb!Range(bufcache) \subseteq Unb!Buffers
      BY <3>1, Members
    <3> QED BY <1>11, <2>1, <3>2 DEF Unb!OneOwner, Unb!emptyChannel
  <2> QED BY <1>1, <1>3, <2>1, <2>2, <2>3 DEF Unb!OneOwner, Unb!emptyChannel, c
<1>15. Unb!TypeOK'
  <2>1. Unb!TypeOK
    BY DEF ChannelIInv
  <2>2. answer' \in [push : BOOLEAN, pop : BOOLEAN]
    BY <1>1, <2>1 DEF Unb!TypeOK
  <2>3. \A b \in Unb!Buffers : Len(cont'[b]) <= Size
    <3>1. \A b \in Unb!Buffers : Len(cont[b]) <= Size
      BY <2>1 DEF Unb!TypeOK
    <3>2. Size \in Nat
      BY DEF Unb!BoundAssumption
    <3>3. \A b \in Unb!Buffers : Len(cont[b]) \in Nat /\ Len(cont'[b]) \in Nat
      BY <1>7, <1>10
    <3> QED BY <1>11, <3>1, <3>2, <3>3
  <2>4. rcvd' \in 0 .. sent
    BY <1>4, <1>7
  <2> QED BY <1>1, <1>10, <2>1, <2>2, <2>3, <2>4 DEF Unb!TypeOK
<1>16. Unb!TruthfulMiss'
  <2>1. answer'.pop = TRUE
    BY <1>1 DEF ChannelIInv, Unb!TypeOK
  <2> QED BY <2>1 DEF Unb!TruthfulMiss
<1>17. \A i \in 2 .. m : i \in 1 .. m /\ cont'[c[i]] = cont[c[i]]
  <2> TAKE i \in 2 .. m
  <2>1. i \in 1 .. m /\ i # 1
    BY <1>5
  <2> QED BY <1>5, <1>10, <2>1
<1>18. MiddleFull'
  <2>1. \A i \in 2 .. m - 1 : i \in 2 .. m
    BY <1>5
  <2> QED BY <1>3, <1>17, <2>1 DEF ChannelIInv, MiddleFull, c
<1>19. Writing'
  <2>1. Writing
    BY DEF ChannelIInv
  <2>2. m > 1 => m \in 2 .. m
    BY <1>5
  <2>3. /\ buf_w \in Unb!Buffers /\ Size \in Nat
        /\ Len(cont[buf_w]) \in Nat /\ Len(cont'[buf_w]) \in Nat
    BY <1>7, <1>10 DEF ChannelIInv, Unb!TypeOK, Unb!BoundAssumption
  <2>4. Len(cont[buf_w]) < Size => Len(cont'[buf_w]) < Size
    BY <1>11, <2>3
  <2>5. atP \in {"link", "switch"} => cont'[t] = <<>>
    BY <1>11, <2>1 DEF Writing
  <2> QED BY <1>1, <1>3, <1>17, <2>1, <2>2, <2>4, <2>5 DEF Writing, c
<1>20. Reading'
  BY <1>1, <1>2 DEF Reading
<1> QED BY <1>13, <1>14, <1>15, <1>16, <1>18, <1>19, <1>20 DEF ChannelIInv

-----------------------------------------------------------------------------
(* Between two runs *)

\* A part of a sequence put behind another one.
LEMMA ConcatPart ==
  ASSUME NEW S, NEW s \in Seq(S), NEW u \in Seq(S), NEW n \in 0 .. Len(u)
  PROVE  /\ s \o SubSeq(u, 1, n) \in Seq(S) /\ Len(s \o SubSeq(u, 1, n)) = Len(s) + n
         /\ Unb!Range(s \o SubSeq(u, 1, n)) = Unb!Range(s) \cup {u[i] : i \in 1 .. n}
         /\ Unb!IsInjective(s) /\ Unb!IsInjective(u) /\ Unb!Range(s) \cap Unb!Range(u) = {}
            => Unb!IsInjective(s \o SubSeq(u, 1, n))
<1> DEFINE p == SubSeq(u, 1, n)
           c == s \o p
<1>1. Len(s) \in Nat /\ Len(u) \in Nat /\ n \in Nat /\ n <= Len(u)
  OBVIOUS
<1>2. p \in Seq(S) /\ Len(p) = n /\ \A i \in 1 .. n : p[i] = u[i] /\ i \in 1 .. Len(u)
  <2>1. \A i \in 1 .. n : u[i] \in S /\ i \in 1 .. Len(u)
    BY <1>1
  <2>2. p \in Seq(S) /\ Len(p) = (IF 1 <= n THEN n - 1 + 1 ELSE 0)
        /\ \A i \in 1 .. n - 1 + 1 : p[i] = u[1 + i - 1]
    BY <1>1, <2>1, SubSeqProperties
  <2>3. Len(p) = n
    BY <1>1, <2>2
  <2>4. ASSUME NEW i \in 1 .. n PROVE p[i] = u[i]
    <3>1. i \in 1 .. n - 1 + 1 /\ 1 + i - 1 = i
      BY <1>1
    <3> QED BY <2>2, <3>1
  <2> QED BY <2>1, <2>2, <2>3, <2>4
<1> HIDE DEF p
<1>3. /\ c \in Seq(S) /\ Len(c) = Len(s) + n
      /\ \A i \in 1 .. Len(s) + n : c[i] = IF i <= Len(s) THEN s[i] ELSE p[i - Len(s)]
  BY <1>2, ConcatProperties
<1> HIDE DEF c
<1>4. /\ \A i \in 1 .. Len(s) : c[i] = s[i] /\ i \in 1 .. Len(c)
      /\ \A i \in 1 .. n : c[Len(s) + i] = u[i] /\ Len(s) + i \in 1 .. Len(c)
  <2>1. ASSUME NEW i \in 1 .. Len(s) PROVE c[i] = s[i] /\ i \in 1 .. Len(c)
    BY <1>1, <1>3
  <2>2. ASSUME NEW i \in 1 .. n PROVE c[Len(s) + i] = u[i] /\ Len(s) + i \in 1 .. Len(c)
    <3>1. Len(s) + i \in 1 .. Len(s) + n /\ ~(Len(s) + i <= Len(s)) /\ Len(s) + i - Len(s) = i
      BY <1>1
    <3> QED BY <1>2, <1>3, <3>1, SMTT(30)
  <2> QED BY <2>1, <2>2
<1>5. \A i \in 1 .. Len(c) : i \in 1 .. Len(s) \/ \E j \in 1 .. n : i = Len(s) + j
  <2> TAKE i \in 1 .. Len(c)
  <2>1. i \in 1 .. Len(s) \/ i - Len(s) \in 1 .. n
    BY <1>1, <1>3
  <2>2. i = Len(s) + (i - Len(s))
    BY <1>1, <1>3
  <2> QED BY <2>1, <2>2
<1>6. Unb!Range(c) = Unb!Range(s) \cup {u[i] : i \in 1 .. n}
  <2>1. DOMAIN c = 1 .. Len(c) /\ DOMAIN s = 1 .. Len(s)
    BY <1>3
  <2>2. ASSUME NEW x \in Unb!Range(c) PROVE x \in Unb!Range(s) \cup {u[i] : i \in 1 .. n}
    <3>1. PICK i \in 1 .. Len(c) : x = c[i]
      BY <2>1 DEF Unb!Range
    <3>2. CASE i \in 1 .. Len(s)
      BY <1>4, <2>1, <3>1, <3>2 DEF Unb!Range
    <3>3. CASE \E j \in 1 .. n : i = Len(s) + j
      BY <1>4, <3>1, <3>3
    <3> QED BY <1>5, <3>2, <3>3
  <2>3. ASSUME NEW x \in Unb!Range(s) PROVE x \in Unb!Range(c)
    BY <1>4, <2>1 DEF Unb!Range
  <2>4. ASSUME NEW i \in 1 .. n PROVE u[i] \in Unb!Range(c)
    BY <1>4, <2>1 DEF Unb!Range
  <2> QED BY <2>2, <2>3, <2>4
<1>7. ASSUME Unb!IsInjective(s), Unb!IsInjective(u), Unb!Range(s) \cap Unb!Range(u) = {}
      PROVE  Unb!IsInjective(c)
  <2>1. \A i, j \in 1 .. Len(s) : s[i] = s[j] => i = j
    BY <1>7, Members
  <2>2. \A i, j \in 1 .. n : u[i] = u[j] => i = j
    BY <1>2, <1>7, Members
  <2>3. \A i \in 1 .. Len(s), j \in 1 .. n : s[i] # u[j]
    <3>1. \A i \in 1 .. Len(s) : s[i] \in Unb!Range(s)
      BY Members
    <3>2. \A j \in 1 .. n : u[j] \in Unb!Range(u)
      BY <1>2, Members
    <3> QED BY <1>7, <3>1, <3>2
  <2>4. \A i, j \in 1 .. Len(c) : c[i] = c[j] => i = j
    <3> TAKE i, j \in 1 .. Len(c)
    <3> HAVE c[i] = c[j]
    <3>1. CASE i \in 1 .. Len(s) /\ j \in 1 .. Len(s)
      BY <1>4, <2>1, <3>1
    <3>2. CASE i \in 1 .. Len(s) /\ \E l \in 1 .. n : j = Len(s) + l
      <4>1. PICK l \in 1 .. n : j = Len(s) + l
        BY <3>2
      <4>2. c[i] = s[i] /\ c[j] = u[l]
        BY <1>4, <3>2, <4>1
      <4> QED BY <2>3, <3>2, <4>2
    <3>3. CASE j \in 1 .. Len(s) /\ \E l \in 1 .. n : i = Len(s) + l
      <4>1. PICK l \in 1 .. n : i = Len(s) + l
        BY <3>3
      <4>2. c[j] = s[j] /\ c[i] = u[l]
        BY <1>4, <3>3, <4>1
      <4> QED BY <2>3, <3>3, <4>2
    <3>4. CASE (\E l \in 1 .. n : i = Len(s) + l) /\ (\E l \in 1 .. n : j = Len(s) + l)
      <4>1. PICK l \in 1 .. n : i = Len(s) + l
        BY <3>4
      <4>2. PICK o \in 1 .. n : j = Len(s) + o
        BY <3>4
      <4>3. u[l] = u[o]
        BY <1>4, <4>1, <4>2
      <4> QED BY <2>2, <4>1, <4>2, <4>3
    <3> QED BY <1>5, <3>1, <3>2, <3>3, <3>4
  <2> QED BY <1>3, <2>4, Members
<1> QED BY <1>3, <1>6, <1>7 DEF p, c

\* reset() gives every channel but the consumer's back to the pool.
LEMMA ChannelResetIInv ==
  ASSUME Unb!BoundAssumption, ChannelIInv, Unb!reset
  PROVE  ChannelIInv'
<1> DEFINE r == Unb!recyclable
           emptied == {buf_r, buf_w} \cup {inuse[i] : i \in DOMAIN inuse}
<1>1. /\ atP = "idle" /\ atC = "idle" /\ buf_w' = buf_r /\ inuse' = <<>> /\ rcvd' = sent
      /\ cont' = [b \in Unb!Buffers |-> IF b \in emptied THEN <<>> ELSE cont[b]]
      /\ bufcache' = bufcache \o SubSeq(inuse, 1, r)
      /\ live' = live \ {inuse[i] : i \in r + 1 .. Len(inuse)}
      /\ UNCHANGED <<buf_r, in_use_buffers, fixedsize, sent, sawEmpty, answer,
                     atP, t, regP, atC, tmp, regC>>
  BY DEF Unb!reset, Unb!producer, Unb!consumer
<1>2. ~Unb!given /\ ~Unb!holding /\ ~Unb!given' /\ ~Unb!holding'
  BY <1>1 DEF Unb!given, Unb!holding
<1>3. /\ inuse \in Seq(Unb!Buffers) /\ buf_r \in Unb!Buffers /\ bufcache \in Seq(Unb!Buffers)
      /\ Len(bufcache) <= CacheSize /\ CacheSize \in Nat
      /\ Len(inuse) \in Nat /\ Len(bufcache) \in Nat /\ DOMAIN inuse = 1 .. Len(inuse)
  BY DEF ChannelIInv, Unb!TypeOK, Unb!BoundAssumption
<1>4. r \in 0 .. Len(inuse) /\ Len(bufcache) + r <= CacheSize
  BY <1>3 DEF Unb!recyclable
<1>5. Unb!chain = <<buf_r>> \o inuse
  BY <1>2, <1>3, ChainShape
<1>6. Unb!chain' = <<buf_r>>
  <2>1. Unb!ahead' = <<>> \o <<>>
    BY <1>1, <1>2 DEF Unb!ahead
  <2>2. Unb!ahead' = <<>>
    BY <2>1, EmptySeq, ConcatEmptySeq
  <2>3. Unb!chain' = <<buf_r>> \o <<>>
    BY <1>1, <1>2, <2>2 DEF Unb!chain
  <2> QED BY <1>3, <2>3, ConcatEmptySeq
<1>7. /\ Unb!IsInjective(inuse) /\ buf_r \notin Unb!Range(inuse)
      /\ Unb!Range(Unb!chain) = {buf_r} \cup Unb!Range(inuse)
  <2>1. /\ Unb!chain \in Seq(Unb!Buffers) /\ Unb!chain # <<>> /\ Tail(Unb!chain) = inuse
        /\ Unb!chain[1] = buf_r /\ Unb!IsInjective(Unb!chain)
    BY <1>2, <1>3, ChainShape DEF ChannelIInv, Unb!OneOwner
  <2>2. /\ Unb!Range(Tail(Unb!chain)) \cup {Unb!chain[1]} = Unb!Range(Unb!chain)
        /\ Unb!IsInjective(Tail(Unb!chain)) /\ Unb!chain[1] \notin Unb!Range(Tail(Unb!chain))
    BY <2>1, OneLess, Zenon
  <2> QED BY <2>1, <2>2
<1>8. /\ Unb!IsInjective(bufcache) /\ Unb!Range(Unb!chain) \cap Unb!Range(bufcache) = {}
      /\ live = Unb!Range(Unb!chain) \cup Unb!Range(bufcache)
      /\ \A b \in Unb!Range(bufcache) : cont[b] = <<>>
      /\ buf_w \in Unb!Range(Unb!chain)
      /\ Unb!Linking = {} /\ Unb!Linking' = {}
  <2>1. Unb!Linking = {} /\ Unb!Linking' = {}
    BY <1>1 DEF Unb!Linking
  <2> QED BY <2>1, ChainFacts DEF ChannelIInv, Unb!OneOwner, Unb!emptyChannel
<1>9. /\ Unb!Range(inuse) = {inuse[i] : i \in 1 .. Len(inuse)}
      /\ emptied = Unb!Range(Unb!chain)
  <2>1. Unb!Range(inuse) = {inuse[i] : i \in 1 .. Len(inuse)}
    BY <1>3 DEF Unb!Range
  <2> QED BY <1>3, <1>7, <1>8, <2>1
<1> HIDE DEF emptied
<1>10. /\ cont' \in [Unb!Buffers -> Seq(1 .. MaxPush)]
       /\ \A b \in Unb!Buffers : cont'[b] = <<>> \/ cont'[b] = cont[b]
       /\ \A b \in Unb!Range(Unb!chain) : b \in Unb!Buffers => cont'[b] = <<>>
  <2>1. cont \in [Unb!Buffers -> Seq(1 .. MaxPush)] /\ <<>> \in Seq(1 .. MaxPush)
    BY EmptySeq DEF ChannelIInv, Unb!TypeOK
  <2> QED BY <1>1, <1>9, <2>1
<1> HIDE DEF r
<1>11. /\ bufcache' \in Seq(Unb!Buffers) /\ Len(bufcache') = Len(bufcache) + r
       /\ Unb!Range(bufcache') = Unb!Range(bufcache) \cup {inuse[i] : i \in 1 .. r}
       /\ Unb!IsInjective(bufcache')
  <2>1. Unb!Range(bufcache) \cap Unb!Range(inuse) = {}
    BY <1>7, <1>8
  <2>2. bufcache \in Seq(Unb!Buffers) /\ inuse \in Seq(Unb!Buffers) /\ r \in 0 .. Len(inuse)
    BY <1>3, <1>4
  <2>3. /\ bufcache \o SubSeq(inuse, 1, r) \in Seq(Unb!Buffers)
        /\ Len(bufcache \o SubSeq(inuse, 1, r)) = Len(bufcache) + r
        /\ Unb!Range(bufcache \o SubSeq(inuse, 1, r))
             = Unb!Range(bufcache) \cup {inuse[i] : i \in 1 .. r}
        /\ Unb!IsInjective(bufcache) /\ Unb!IsInjective(inuse)
             /\ Unb!Range(bufcache) \cap Unb!Range(inuse) = {}
            => Unb!IsInjective(bufcache \o SubSeq(inuse, 1, r))
    BY <2>2, ConcatPart, SMTT(30)
  <2>4. bufcache' = bufcache \o SubSeq(inuse, 1, r)
    BY <1>1
  <2> QED BY <1>7, <1>8, <2>1, <2>3, <2>4, Zenon
<1>12. Unb!Range(inuse) \subseteq Unb!Buffers /\ Unb!Range(bufcache) \subseteq Unb!Buffers
  BY <1>3, Members
<1>13. {inuse[i] : i \in 1 .. r} = Unb!Range(inuse) \ {inuse[i] : i \in r + 1 .. Len(inuse)}
  <2>1. \A i, j \in 1 .. Len(inuse) : inuse[i] = inuse[j] => i = j
    BY <1>3, <1>7, Members
  <2>2. \A i \in 1 .. r : i \in 1 .. Len(inuse) /\ i \notin r + 1 .. Len(inuse)
    BY <1>3, <1>4
  <2>3. \A i \in r + 1 .. Len(inuse) : i \in 1 .. Len(inuse)
    BY <1>3, <1>4
  <2>4. \A i \in 1 .. Len(inuse) : i \in 1 .. r \/ i \in r + 1 .. Len(inuse)
    BY <1>3, <1>4
  <2> QED BY <1>9, <2>1, <2>2, <2>3, <2>4
<1>14. live' = {buf_r} \cup Unb!Range(bufcache')
  <2>1. \A i \in r + 1 .. Len(inuse) : inuse[i] # buf_r /\ inuse[i] \notin Unb!Range(bufcache)
    <3>1. \A i \in r + 1 .. Len(inuse) : inuse[i] \in Unb!Range(inuse)
      BY <1>3, <1>4, <1>9
    <3> QED BY <1>7, <1>8, <3>1
  <2> QED BY <1>1, <1>7, <1>8, <1>11, <1>13, <2>1, ZenonT(30)
<1>15. /\ Unb!Range(<<buf_r>>) = {buf_r} /\ Unb!IsInjective(<<buf_r>>) /\ Len(<<buf_r>>) = 1
       /\ <<buf_r>>[1] = buf_r
  BY DEF Unb!Range, Unb!IsInjective
<1>16. \A b \in Unb!Range(bufcache') : cont'[b] = <<>>
  <2>1. ASSUME NEW b \in Unb!Range(bufcache) PROVE cont'[b] = <<>>
    BY <1>8, <1>10, <1>12
  <2>2. ASSUME NEW b \in Unb!Range(inuse) PROVE cont'[b] = <<>>
    BY <1>7, <1>10, <1>12
  <2> QED BY <1>11, <1>13, <2>1, <2>2
<1>17. Unb!OneOwner'
  <2>1. buf_r \notin Unb!Range(bufcache')
    BY <1>7, <1>8, <1>11, <1>13
  <2>2. atP' # "switch" /\ buf_w' = <<buf_r>>[Len(<<buf_r>>)]
    BY <1>1, <1>15
  <2> QED BY <1>6, <1>8, <1>11, <1>14, <1>15, <1>16, <2>1, <2>2 DEF Unb!OneOwner, Unb!emptyChannel
<1>18. cont'[buf_r] = <<>>
  BY <1>3, <1>7, <1>10
<1>19. sent \in 0 .. MaxPush /\ MaxPush \in Nat
  BY DEF ChannelIInv, Unb!TypeOK, Unb!BoundAssumption
<1>20. Unb!ChainHoldsQueue'
  <2>1. Unb!Range(cont'[buf_r]) = {} /\ Len(cont'[buf_r]) = 0
    BY <1>18 DEF Unb!Range
  <2>2. rcvd' + 1 .. sent' = {}
    BY <1>1, <1>19
  <2>3. UNION {Unb!Range(cont'[b]) : b \in Unb!Range(Unb!chain')} = rcvd' + 1 .. sent'
    BY <1>6, <1>15, <2>1, <2>2
  <2>4. \A b \in Unb!Range(Unb!chain') : \A i, j \in 1 .. Len(cont'[b]) : i < j => cont'[b][i] < cont'[b][j]
    BY <1>6, <1>15, <2>1
  <2>5. \A i, j \in 1 .. Len(Unb!chain') : ~(i < j)
    BY <1>6, <1>15
  <2> QED BY <2>3, <2>4, <2>5 DEF Unb!ChainHoldsQueue
<1>21. Unb!TypeOK'
  <2>1. Unb!TypeOK
    BY DEF ChannelIInv
  <2>2. \A b \in Unb!Buffers : Len(cont'[b]) <= Size
    <3>1. \A b \in Unb!Buffers : Len(cont[b]) <= Size
      BY <2>1 DEF Unb!TypeOK
    <3>2. Size \in Nat /\ Len(<<>>) = 0
      BY DEF Unb!BoundAssumption
    <3> QED BY <1>10, <3>1, <3>2
  <2>3. live' \subseteq Unb!Buffers
    BY <1>3, <1>11, <1>12, <1>13, <1>14
  <2>4. Len(bufcache') <= CacheSize /\ inuse' \in Seq(Unb!Buffers)
    BY <1>1, <1>4, <1>11, EmptySeq
  <2>5. rcvd' \in 0 .. sent' /\ buf_w' \in Unb!Buffers
    BY <1>1, <1>3, <1>19
  <2> QED BY <1>1, <1>10, <1>11, <2>1, <2>2, <2>3, <2>4, <2>5 DEF Unb!TypeOK
<1>22. Unb!TruthfulMiss'
  BY <1>1 DEF ChannelIInv, Unb!TruthfulMiss
<1>23. MiddleFull'
  BY <1>6, <1>15 DEF MiddleFull
<1>24. Writing' /\ Reading'
  BY <1>1, <1>2 DEF Writing, Reading
<1> QED BY <1>17, <1>20, <1>21, <1>22, <1>23, <1>24 DEF ChannelIInv

-----------------------------------------------------------------------------
(* Every behaviour *)

\* A new channel: one bounded channel for both ends, and spare ones that nobody uses.
LEMMA ChannelInitIInv == ASSUME Unb!BoundAssumption, Unb!Init PROVE ChannelIInv
<1>1. /\ CacheSize \in Nat \ {0} /\ MaxPush \in Nat /\ Modulus \in Nat \ {0, 1} /\ Size \in Nat
      /\ 1 \in Unb!Buffers /\ \A i \in 1 .. CacheSize : i + 1 \in Unb!Buffers
  BY DEF Unb!BoundAssumption, Unb!Buffers
<1>2. /\ cont = [b \in Unb!Buffers |-> <<>>] /\ buf_r = 1 /\ buf_w = 1 /\ inuse = <<>>
      /\ atP = "idle" /\ atC = "idle" /\ sent = 0 /\ rcvd = 0
      /\ answer = [push |-> TRUE, pop |-> TRUE]
  BY DEF Unb!Init
<1>3. ~Unb!given /\ ~Unb!holding
  BY <1>2 DEF Unb!given, Unb!holding
<1>4. Unb!chain = <<1>>
  <2>1. Unb!ahead = <<>> \o <<>>
    BY <1>2, <1>3 DEF Unb!ahead
  <2>2. Unb!ahead = <<>>
    BY <2>1, EmptySeq, ConcatEmptySeq
  <2>3. Unb!chain = <<1>> \o <<>>
    BY <1>2, <1>3, <2>2 DEF Unb!chain
  <2> QED BY <1>1, <2>3, ConcatEmptySeq
<1>5. /\ bufcache \in Seq(Unb!Buffers) /\ Len(bufcache) <= CacheSize
      /\ DOMAIN bufcache = 1 .. Len(bufcache) /\ \A i \in DOMAIN bufcache : bufcache[i] = i + 1
  <2>1. CASE bufcache = [i \in 1 .. CacheSize |-> i + 1]
    <3>1. bufcache \in [1 .. CacheSize -> Unb!Buffers]
      BY <1>1, <2>1
    <3>2. bufcache \in Seq(Unb!Buffers) /\ Len(bufcache) = CacheSize
      BY <1>1, <3>1
    <3> QED BY <1>1, <2>1, <3>2
  <2>2. CASE bufcache = <<>>
    BY <1>1, <2>2
  <2> QED BY <2>1, <2>2 DEF Unb!Init
<1>6. Unb!Range(<<1>>) = {1} /\ Unb!IsInjective(<<1>>) /\ Len(<<1>>) = 1 /\ <<1>>[1] = 1
  BY DEF Unb!Range, Unb!IsInjective
<1>7. /\ Unb!IsInjective(bufcache) /\ 1 \notin Unb!Range(bufcache)
      /\ Unb!Range(bufcache) \subseteq Unb!Buffers
      /\ Unb!Range(bufcache) = {bufcache[i] : i \in DOMAIN bufcache}
  BY <1>5 DEF Unb!Range, Unb!IsInjective
<1>8. Unb!OneOwner
  <2>1. Unb!Linking = {} /\ live = {1} \cup Unb!Range(bufcache)
    BY <1>2, <1>7 DEF Unb!Init, Unb!Linking
  <2>2. \A b \in Unb!Range(bufcache) : cont[b] = <<>>
    BY <1>2, <1>7
  <2> QED BY <1>2, <1>4, <1>6, <1>7, <2>1, <2>2 DEF Unb!OneOwner, Unb!emptyChannel
<1>9. Unb!ChainHoldsQueue
  <2>1. cont[1] = <<>>
    BY <1>1, <1>2
  <2>2. Unb!Range(cont[1]) = {} /\ Len(cont[1]) = 0
    BY <2>1 DEF Unb!Range
  <2>3. rcvd + 1 .. sent = {}
    BY <1>2
  <2>4. UNION {Unb!Range(cont[b]) : b \in Unb!Range(Unb!chain)} = rcvd + 1 .. sent
    BY <1>4, <1>6, <2>2, <2>3
  <2>5. \A b \in Unb!Range(Unb!chain) : \A i, j \in 1 .. Len(cont[b]) : i < j => cont[b][i] < cont[b][j]
    BY <1>4, <1>6, <2>2
  <2>6. \A i, j \in 1 .. Len(Unb!chain) : ~(i < j)
    BY <1>4, <1>6
  <2> QED BY <2>4, <2>5, <2>6 DEF Unb!ChainHoldsQueue
<1>10. Unb!TypeOK
  <2>1. live \subseteq Unb!Buffers
    BY <1>1, <1>7 DEF Unb!Init
  <2>2. /\ cont \in [Unb!Buffers -> Seq(1 .. MaxPush)]
        /\ \A b \in Unb!Buffers : Len(cont[b]) <= Size
    BY <1>1, <1>2
  <2>3. inuse \in Seq(Unb!Buffers)
    BY <1>2
  <2>4. answer \in [push : BOOLEAN, pop : BOOLEAN]
    BY <1>2
  <2>5. 1 \in 0 .. Modulus - 1 /\ 0 \in 0 .. Modulus - 1 /\ 0 \in 0 .. MaxPush /\ 0 \in 0 .. 0
    BY <1>1
  <2> QED BY <1>1, <1>2, <1>5, <2>1, <2>2, <2>3, <2>4, <2>5 DEF Unb!TypeOK, Unb!Init
<1>11. Unb!TruthfulMiss
  BY <1>2 DEF Unb!TruthfulMiss
<1>12. MiddleFull
  BY <1>4, <1>6 DEF MiddleFull
<1>13. Writing /\ Reading
  BY <1>2, <1>3 DEF Writing, Reading
<1> QED BY <1>8, <1>9, <1>10, <1>11, <1>12, <1>13 DEF ChannelIInv

\* A step that changes nothing.
LEMMA ChannelStutter == ASSUME ChannelIInv, UNCHANGED Unb!vars PROVE ChannelIInv'
<1>1. UNCHANGED <<cont, live, buf_r, buf_w, in_use_buffers, fixedsize, inuse, bufcache,
                  atP, t, regP, atC, tmp, regC, sent, rcvd, sawEmpty, answer>>
  BY DEF Unb!vars
<1>2. (Unb!given' <=> Unb!given) /\ (Unb!holding' <=> Unb!holding)
  BY <1>1 DEF Unb!given, Unb!holding
<1>3. Unb!chain' = Unb!chain /\ Unb!ChainHoldsQueue' /\ Unb!OneOwner' /\ MiddleFull' /\ Writing'
  BY <1>1, <1>2, LookKept
<1>4. Unb!TypeOK' /\ Unb!TruthfulMiss'
  BY <1>1 DEF ChannelIInv, Unb!TypeOK, Unb!TruthfulMiss
<1>5. Reading'
  BY <1>1, <1>2, <1>3 DEF ChannelIInv, Reading
<1> QED BY <1>3, <1>4, <1>5 DEF ChannelIInv

\* Every step keeps the invariant.
LEMMA ChannelNextIInv ==
  ASSUME Unb!BoundAssumption, ChannelIInv, [Unb!Next]_(Unb!vars)
  PROVE  ChannelIInv'
<1>1. CASE Unb!Push
  <2>1. CASE Unb!PushTest
    BY <2>1, PushTestIInv
  <2>2. CASE Unb!TakeBuffer
    BY <2>2, TakeBufferIInv
  <2>3. CASE Unb!LinkBuffer
    BY <2>3, LinkBufferIInv
  <2>4. CASE Unb!SwitchBuffer
    BY <2>4, SwitchBufferIInv
  <2>5. CASE Unb!CountRead \/ Unb!CountWrite
    BY <2>5, CountIInv
  <2>6. CASE Unb!Put
    BY <2>6, PutIInv
  <2> QED BY <1>1, <2>1, <2>2, <2>3, <2>4, <2>5, <2>6 DEF Unb!Push
<1>2. CASE Unb!Pop
  <2>1. CASE Unb!PopTest
    BY <2>1, PopTestIInv
  <2>2. CASE Unb!PopCompare
    BY <2>2, PopCompareIInv
  <2>3. CASE Unb!PopRecheck
    BY <2>3, PopRecheckIInv
  <2>4. CASE Unb!PopUnlink
    BY <2>4, PopUnlinkIInv
  <2>5. CASE Unb!ReleaseReset
    BY <2>5, ReleaseResetIInv
  <2>6. CASE Unb!ReleaseRecycle
    BY <2>6, ReleaseRecycleIInv
  <2>7. CASE Unb!UncountRead \/ Unb!UncountWrite
    BY <2>7, UncountIInv
  <2>8. CASE Unb!MoveOn
    BY <2>8, MoveOnIInv
  <2>9. CASE Unb!Get
    BY <2>9, GetNothingIInv, GetItemIInv
  <2> QED BY <1>2, <2>1, <2>2, <2>3, <2>4, <2>5, <2>6, <2>7, <2>8, <2>9 DEF Unb!Pop
<1>3. CASE Unb!reset
  BY <1>3, ChannelResetIInv
<1>4. CASE UNCHANGED Unb!vars
  BY <1>4, ChannelStutter
<1> QED BY <1>1, <1>2, <1>3, <1>4 DEF Unb!Next

\* Every behaviour keeps the invariant.
LEMMA ChannelAlways == ASSUME Unb!BoundAssumption PROVE Unb!Spec => []ChannelIInv
<1>1. Unb!Init => ChannelIInv
  BY ChannelInitIInv
<1>2. ChannelIInv /\ [Unb!Next]_(Unb!vars) => ChannelIInv'
  BY ChannelNextIInv
<1> QED BY <1>1, <1>2, PTL DEF Unb!Spec

\* push and pop of the unbounded channel, with reset between runs: along the chain lie
\* the items pushed and not yet popped, in order; none is lost or read twice where the
\* two threads go from one channel to the next, however they interleave.
THEOREM ChannelsInOrder ==
  ASSUME Unb!BoundAssumption PROVE Unb!Spec => []Unb!ChainHoldsQueue
<1>1. ChannelIInv => Unb!ChainHoldsQueue
  BY DEF ChannelIInv
<1> QED BY <1>1, ChannelAlways, PTL

\* BufferPool: a channel is on the chain, in the cache or in one thread's hands; it is
\* recycled or freed only when neither thread can reach it, and comes back empty.
THEOREM OneOwnerEach ==
  ASSUME Unb!BoundAssumption PROVE Unb!Spec => [](Unb!TypeOK /\ Unb!OneOwner)
<1>1. ChannelIInv => Unb!TypeOK /\ Unb!OneOwner
  BY DEF ChannelIInv
<1> QED BY <1>1, ChannelAlways, PTL

\* pop answers "nothing" only if at some instant of the call nothing was there: the
\* second look, after the comparison of the ends, is enough.
THEOREM MissesTrue ==
  ASSUME Unb!BoundAssumption PROVE Unb!Spec => []Unb!TruthfulMiss
<1>1. ChannelIInv => Unb!TruthfulMiss
  BY DEF ChannelIInv
<1> QED BY <1>1, ChannelAlways, PTL
\* uSWSR_Ptr_Buffer, together: the chain of channels holds the items, a channel has one
\* owner, and a pop that answers "empty" is right.
THEOREM ChainHoldsItems ==
  ASSUME Unb!BoundAssumption PROVE Unb!Spec => []Unb!QueuesHoldItems
<1>1. Unb!TypeOK /\ Unb!ChainHoldsQueue /\ Unb!OneOwner /\ Unb!TruthfulMiss => Unb!QueuesHoldItems
  BY DEF Unb!QueuesHoldItems
<1> QED BY <1>1, ChannelsInOrder, OneOwnerEach, MissesTrue, PTL
=============================================================================
