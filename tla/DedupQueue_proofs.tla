-------------------------- MODULE DedupQueue_proofs --------------------------
(***************************************************************************)
(* Proofs about queue_t for any number of producers and consumers, any      *)
(* queue size, batch limits and number of items.                            *)
(***************************************************************************)
EXTENDS DedupQueue, SequenceTheorems, FiniteSetTheorems, TLAPS

DoneProducers == {p \in Producers : state[p] = "done"}

\* nTerminated counts the producers that have left.
Counts == nTerminated = Cardinality(DoneProducers)

\* A producer that left has nothing to send; one inside queue_enqueue has.
ProducersKnow ==
  \A p \in Producers :
    /\ state[p] = "done" => sendBuf[p] = <<>> /\ made[p] = Items
    /\ state[p] \in {"waiting", "woken"} => sendBuf[p] # <<>>

\* A consumer inside queue_dequeue has an empty private ring.
ConsumersKnow ==
  \A c \in Consumers : state[c] \in {"waiting", "woken"} => recvBuf[c] = <<>>

\* The inductive invariant.
IInv ==
  /\ TypeOK
  /\ Counts
  /\ ProducersKnow
  /\ ConsumersKnow
  /\ LeavesWhenDrained
  /\ WakeupsSuffice

-----------------------------------------------------------------------------
(* Moving batches between rings *)

\* What is left of a ring after its n oldest items went is a sequence of items.
LEMMA AfterFirstType ==
  ASSUME NEW s \in Seq(Item), NEW n \in 0 .. Len(s)
  PROVE  afterFirst(s, n) \in Seq(Item) /\ Len(afterFirst(s, n)) = Len(s) - n
BY SubSeqProperties DEF afterFirst

\* The batch that is moved is a sequence of items of the length moved.
LEMMA BatchMoved ==
  ASSUME NEW s \in Seq(Item), NEW n \in 0 .. Len(s)
  PROVE  SubSeq(s, 1, n) \in Seq(Item) /\ Len(SubSeq(s, 1, n)) = n
BY SubSeqProperties

\* A call of queue_enqueue that finds room moves at least one item, fits in the
\* queue and takes no more than the ring holds.
LEMMA MovedRange ==
  ASSUME TypeOK, NEW p \in Producers, ~isFull, sendBuf[p] # <<>>
  PROVE  /\ moved(p) \in 1 .. Len(sendBuf[p])
         /\ Len(buf) + moved(p) <= Size
<1>1. Len(buf) \in Nat /\ Len(buf) < Size
  BY BoundAssumption DEF TypeOK, isFull
<1>2. sendBuf[p] \in Seq(Item) /\ Len(sendBuf[p]) \in Nat \ {0}
  BY DEF TypeOK
<1> QED BY <1>1, <1>2, BoundAssumption DEF moved, smallest

\* The termination count: terminated is all producers gone.
LEMMA TerminatedMeansDone ==
  ASSUME TypeOK, Counts
  PROVE  /\ nTerminated <= nProducers
         /\ queue_isTerminated <=> \A p \in Producers : state[p] = "done"
<1>1. DoneProducers \subseteq Producers /\ IsFiniteSet(Producers)
  BY ThreadAssumption DEF DoneProducers
<1>2. /\ IsFiniteSet(DoneProducers)
      /\ Cardinality(DoneProducers) <= Cardinality(Producers)
      /\ Cardinality(DoneProducers) = Cardinality(Producers)
           => DoneProducers = Producers
  BY <1>1, FS_Subset
<1>3. DoneProducers = Producers <=> \A p \in Producers : state[p] = "done"
  BY DEF DoneProducers
<1> QED BY <1>2, <1>3 DEF Counts, queue_isTerminated, nProducers

-----------------------------------------------------------------------------
(* The inductive invariant *)

\* Nobody waits and nothing is queued at the start.
LEMMA InitIInv == Init => IInv
<1> SUFFICES ASSUME Init PROVE IInv
  OBVIOUS
<1> USE ThreadAssumption, BoundAssumption DEF Init
<1>1. TypeOK
  BY DEF TypeOK, ThreadStates, Threads
<1>2. Counts
  <2>1. DoneProducers = {}
    BY DEF DoneProducers, Threads
  <2> QED BY <2>1, FS_EmptySet DEF Counts
<1>3. ProducersKnow /\ ConsumersKnow /\ LeavesWhenDrained /\ WakeupsSuffice
  BY DEF ProducersKnow, ConsumersKnow, LeavesWhenDrained, WakeupsSuffice,
         Threads, isEmpty
<1> QED BY <1>1, <1>2, <1>3 DEF IInv

\* A running producer adds to its own ring.
LEMMA ProduceIInv == ASSUME IInv, NEW p \in Producers, Produce(p) PROVE IInv'
<1> USE ThreadAssumption, BoundAssumption
<1>1. /\ state' = state /\ buf' = buf /\ nTerminated' = nTerminated
      /\ recvBuf' = recvBuf /\ got' = got /\ state[p] = "running"
  BY DEF Produce
<1>2. TypeOK'
  <2>1. made[p] + 1 \in 1 .. Items /\ <<p, made[p] + 1>> \in Item
    BY DEF IInv, TypeOK, Produce, Item
  <2>2. /\ Append(sendBuf[p], <<p, made[p] + 1>>) \in Seq(Item)
        /\ Len(Append(sendBuf[p], <<p, made[p] + 1>>)) <= Insert
    BY <2>1 DEF IInv, TypeOK, Produce
  <2> QED BY <1>1, <2>1, <2>2, SMTT(30) DEF IInv, TypeOK, Produce
<1>3. Counts'
  BY <1>1 DEF IInv, Counts, DoneProducers
<1>4. ProducersKnow'
  BY <1>1 DEF IInv, TypeOK, ProducersKnow, Produce
<1>5. ConsumersKnow' /\ WakeupsSuffice'
  BY <1>1 DEF IInv, ConsumersKnow, WakeupsSuffice, isEmpty
<1>6. LeavesWhenDrained'
  BY <1>1 DEF IInv, TypeOK, LeavesWhenDrained, isEmpty, Produce
<1> QED BY <1>2, <1>3, <1>4, <1>5, <1>6 DEF IInv

\* Taking an item from a private ring.
LEMMA ProcessIInv == ASSUME IInv, NEW c \in Consumers, Process(c) PROVE IInv'
<1> USE ThreadAssumption, BoundAssumption
<1>1. /\ state' = state /\ buf' = buf /\ nTerminated' = nTerminated
      /\ sendBuf' = sendBuf /\ made' = made /\ state[c] = "running"
  BY DEF Process
<1>2. TypeOK'
  <2>1. recvBuf[c] \in Seq(Item) /\ recvBuf[c] # <<>> /\ got[c] \in Seq(Item)
    BY DEF IInv, TypeOK, Process
  <2>2. /\ Tail(recvBuf[c]) \in Seq(Item)
        /\ Len(Tail(recvBuf[c])) <= Len(recvBuf[c])
        /\ Append(got[c], Head(recvBuf[c])) \in Seq(Item)
    BY <2>1
  <2> QED BY <1>1, <2>1, <2>2, SMTT(30) DEF IInv, TypeOK, Process
<1>3. Counts' /\ ProducersKnow' /\ WakeupsSuffice'
  BY <1>1 DEF IInv, Counts, DoneProducers, ProducersKnow, WakeupsSuffice, isEmpty
<1>4. ConsumersKnow'
  BY <1>1 DEF IInv, TypeOK, ConsumersKnow, Process
<1>5. LeavesWhenDrained'
  BY <1>1 DEF IInv, TypeOK, LeavesWhenDrained, isEmpty, Process
<1> QED BY <1>2, <1>3, <1>4, <1>5 DEF IInv

\* A thread that waits may return at any time: it tests its condition again.
LEMMA SpuriousIInv == ASSUME IInv, NEW t \in Threads, SpuriousWakeup(t) PROVE IInv'
<1> USE ThreadAssumption, BoundAssumption
<1>1. /\ buf' = buf /\ nTerminated' = nTerminated /\ sendBuf' = sendBuf
      /\ made' = made /\ recvBuf' = recvBuf /\ got' = got
      /\ state[t] = "waiting" /\ state' = [state EXCEPT ![t] = "woken"]
      /\ state \in [Threads -> ThreadStates]
  BY DEF SpuriousWakeup, IInv, TypeOK
<1>2. \A u \in Threads : state'[u] = IF u = t THEN "woken" ELSE state[u]
  BY <1>1
<1>3. TypeOK'
  BY <1>1 DEF IInv, TypeOK, ThreadStates
<1>4. Counts'
  <2>1. DoneProducers' = DoneProducers
    BY <1>1, <1>2 DEF DoneProducers, Threads
  <2> QED BY <1>1, <2>1 DEF IInv, Counts
<1>5. ProducersKnow' /\ ConsumersKnow' /\ LeavesWhenDrained'
  BY <1>1, <1>2
  DEF IInv, ProducersKnow, ConsumersKnow, LeavesWhenDrained, Threads, isEmpty
<1>6. WakeupsSuffice'
  BY <1>1, <1>2 DEF IInv, WakeupsSuffice, Threads, isEmpty
<1> QED BY <1>3, <1>4, <1>5, <1>6 DEF IInv

\* A producer that terminates adds itself to the count, and the last one wakes
\* every consumer.
LEMMA TerminateIInv ==
  ASSUME IInv, NEW p \in Producers, queue_terminate(p) PROVE IInv'
<1> USE ThreadAssumption, BoundAssumption
<1>1. /\ buf' = buf /\ sendBuf' = sendBuf /\ made' = made
      /\ recvBuf' = recvBuf /\ got' = got /\ state[p] = "running"
      /\ made[p] = Items /\ sendBuf[p] = <<>>
      /\ nTerminated' = nTerminated + 1
      /\ state \in [Threads -> ThreadStates]
  BY DEF queue_terminate, IInv, TypeOK
<1>2. \A u \in Threads :
        /\ u = p => state'[u] = "done"
        /\ u # p => \/ state'[u] = state[u]
                    \/ /\ state[u] = "waiting" /\ state'[u] = "woken"
                       /\ u \in Consumers
  BY DEF queue_terminate, wakeOnTermination
<1>3. p \in Threads /\ Producers \subseteq Threads /\ Consumers \subseteq Threads
  BY DEF Threads
<1>4. TypeOK'
  <2>1. state' \in [Threads -> ThreadStates]
    BY <1>1 DEF queue_terminate, wakeOnTermination, ThreadStates
  <2> QED BY <1>1, <2>1 DEF IInv, TypeOK
<1>5. Counts'
  <2>1. DoneProducers' = DoneProducers \cup {p} /\ p \notin DoneProducers
    BY <1>1, <1>2, <1>3 DEF DoneProducers
  <2>2. IsFiniteSet(DoneProducers)
    BY FS_Subset DEF DoneProducers
  <2>3. Cardinality(DoneProducers \cup {p}) = Cardinality(DoneProducers) + 1
    BY <2>1, <2>2, FS_AddElement
  <2> QED BY <1>1, <2>1, <2>3 DEF IInv, Counts
<1>6. ProducersKnow'
  BY <1>1, <1>2, <1>3 DEF IInv, ProducersKnow
<1>7. ConsumersKnow' /\ LeavesWhenDrained'
  BY <1>1, <1>2, <1>3 DEF IInv, ConsumersKnow, LeavesWhenDrained, isEmpty
<1>8. WakeupsSuffice'
  BY <1>1, <1>2, <1>3 DEF IInv, WakeupsSuffice, isEmpty
<1> QED BY <1>4, <1>5, <1>6, <1>7, <1>8 DEF IInv

\* What pthread_cond_signal does to the threads, seen from t.
LEMMA SignalEffect ==
  ASSUME TypeOK, NEW ts \in SUBSET Threads, NEW t \in Threads \ ts, signal(ts, t)
  PROVE  /\ state' \in [Threads -> ThreadStates]
         /\ state'[t] = "running"
         /\ \A u \in Threads \ {t} :
              \/ state'[u] = state[u]
              \/ u \in ts /\ state[u] = "waiting" /\ state'[u] = "woken"
         /\ (\E u \in ts : state[u] = "waiting") => \E u \in ts : state'[u] = "woken"
<1> DEFINE waiters == {w \in ts : state[w] = "waiting"}
<1>1. CASE waiters = {}
  BY <1>1 DEF signal, TypeOK, ThreadStates
<1>2. CASE waiters # {}
  <2>1. PICK w \in waiters :
          state' = [[state EXCEPT ![t] = "running"] EXCEPT ![w] = "woken"]
    BY <1>2 DEF signal
  <2> QED BY <2>1 DEF TypeOK, ThreadStates
<1> QED BY <1>1, <1>2

\* queue_enqueue, both when it has to wait and when it moves a batch.
LEMMA EnqueueIInv ==
  ASSUME IInv, NEW p \in Producers, queue_enqueue(p) PROVE IInv'
<1> USE ThreadAssumption, BoundAssumption
<1>1. /\ nTerminated' = nTerminated /\ made' = made /\ recvBuf' = recvBuf
      /\ got' = got /\ state \in [Threads -> ThreadStates]
      /\ state[p] \in {"running", "woken"} /\ sendBuf[p] # <<>>
      /\ p \in Threads \ Consumers
      /\ Consumers \in SUBSET Threads /\ Producers \in SUBSET Threads
  BY DEF queue_enqueue, InEnqueue, IInv, TypeOK, ProducersKnow, Threads
<1>2. CASE isFull
  <2>1. /\ state' = [state EXCEPT ![p] = "waiting"]
        /\ buf' = buf /\ sendBuf' = sendBuf
    BY <1>2 DEF queue_enqueue
  <2>2. \A u \in Threads : state'[u] = IF u = p THEN "waiting" ELSE state[u]
    BY <1>1, <2>1
  <2>3. buf # <<>>
    BY <1>2 DEF isFull
  <2>4. TypeOK'
    BY <1>1, <2>1 DEF IInv, TypeOK, ThreadStates
  <2>5. Counts'
    <3>1. DoneProducers' = DoneProducers
      BY <1>1, <2>2 DEF DoneProducers
    <3> QED BY <1>1, <3>1 DEF IInv, Counts
  <2>6. ProducersKnow' /\ ConsumersKnow' /\ LeavesWhenDrained'
    BY <1>1, <2>1, <2>2
    DEF IInv, ProducersKnow, ConsumersKnow, LeavesWhenDrained, isEmpty
  <2>7. WakeupsSuffice'
    BY <1>1, <2>1, <2>2, <2>3 DEF IInv, WakeupsSuffice, isEmpty
  <2> QED BY <2>4, <2>5, <2>6, <2>7 DEF IInv
<1>3. CASE ~isFull
  <2> DEFINE n == moved(p)
  <2>1. /\ n \in 1 .. Len(sendBuf[p]) /\ Len(buf) + n <= Size
        /\ sendBuf[p] \in Seq(Item) /\ buf \in Seq(Item)
    BY <1>1, <1>3, MovedRange DEF IInv, TypeOK
  <2>2. /\ buf' = buf \o SubSeq(sendBuf[p], 1, n)
        /\ sendBuf' = [sendBuf EXCEPT ![p] = afterFirst(sendBuf[p], n)]
        /\ signal(Consumers, p)
    BY <1>3 DEF queue_enqueue, inserted
  <2>3. /\ SubSeq(sendBuf[p], 1, n) \in Seq(Item)
        /\ Len(SubSeq(sendBuf[p], 1, n)) = n
    BY <2>1, BatchMoved
  <2>4. buf' \in Seq(Item) /\ Len(buf') = Len(buf) + n /\ buf' # <<>>
    BY <2>1, <2>2, <2>3
  <2>5. /\ afterFirst(sendBuf[p], n) \in Seq(Item)
        /\ Len(afterFirst(sendBuf[p], n)) <= Len(sendBuf[p])
    BY <2>1, AfterFirstType
  <2>6. /\ state' \in [Threads -> ThreadStates] /\ state'[p] = "running"
        /\ \A u \in Threads \ {p} :
             \/ state'[u] = state[u]
             \/ u \in Consumers /\ state[u] = "waiting" /\ state'[u] = "woken"
        /\ (\E u \in Consumers : state[u] = "waiting")
             => \E u \in Consumers : state'[u] = "woken"
    BY <1>1, <2>2, SignalEffect DEF IInv
  <2>7. \A c \in Consumers : state[c] # "done"
    BY <1>1 DEF IInv, LeavesWhenDrained
  <2>8. TypeOK'
    <3>1. /\ sendBuf \in [Producers -> Seq(Item)]
          /\ \A r \in Producers : Len(sendBuf[r]) \in Nat /\ Len(sendBuf[r]) <= Insert
      BY DEF IInv, TypeOK
    <3>2. sendBuf' \in [Producers -> Seq(Item)]
      BY <2>2, <2>5, <3>1
    <3>3. \A r \in Producers : Len(sendBuf'[r]) <= Insert
      <4> TAKE r \in Producers
      <4>1. CASE r = p
        <5>1. sendBuf'[r] = afterFirst(sendBuf[p], n)
          BY <2>2, <3>1, <4>1
        <5>2. Len(afterFirst(sendBuf[p], n)) \in Nat
          BY <2>5
        <5> QED BY <2>5, <3>1, <5>1, <5>2
      <4>2. CASE r # p
        <5>1. sendBuf'[r] = sendBuf[r]
          BY <2>2, <3>1, <4>2
        <5> QED BY <3>1, <5>1
      <4> QED BY <4>1, <4>2
    <3>4. Len(buf') <= Size
      BY <2>1, <2>4
    <3> QED BY <1>1, <2>4, <2>6, <3>2, <3>3, <3>4 DEF IInv, TypeOK
  <2>9. Counts'
    <3>1. DoneProducers' = DoneProducers
      BY <1>1, <2>6 DEF DoneProducers
    <3> QED BY <1>1, <3>1 DEF IInv, Counts
  <2>10. ProducersKnow'
    <3>1. \A r \in Producers \ {p} :
            sendBuf'[r] = sendBuf[r] /\ state'[r] = state[r]
      BY <1>1, <2>2, <2>6 DEF IInv, TypeOK
    <3> QED BY <1>1, <2>6, <3>1 DEF IInv, ProducersKnow
  <2>11. ConsumersKnow' /\ LeavesWhenDrained'
    BY <1>1, <2>6, <2>7 DEF IInv, ConsumersKnow, LeavesWhenDrained
  <2>12. WakeupsSuffice'
    <3>1. \E c \in Consumers : state'[c] \in {"running", "woken"}
      <4>1. CASE \E u \in Consumers : state[u] = "waiting"
        BY <2>6, <4>1
      <4>2. CASE ~\E u \in Consumers : state[u] = "waiting"
        <5>1. PICK c \in Consumers : TRUE
          OBVIOUS
        <5>2. state[c] \in {"running", "woken"}
          BY <1>1, <2>7, <4>2, <5>1 DEF ThreadStates
        <5>3. state'[c] = state[c]
          BY <1>1, <2>6, <4>2
        <5> QED BY <5>2, <5>3
      <4> QED BY <4>1, <4>2
    <3> QED BY <2>4, <3>1 DEF WakeupsSuffice, isEmpty
  <2> QED BY <2>8, <2>9, <2>10, <2>11, <2>12 DEF IInv
<1> QED BY <1>2, <1>3

\* queue_dequeue: waiting, leaving with -1, and taking a batch.
LEMMA DequeueIInv ==
  ASSUME IInv, NEW c \in Consumers, queue_dequeue(c) PROVE IInv'
<1> USE ThreadAssumption, BoundAssumption
<1>1. /\ nTerminated' = nTerminated /\ made' = made /\ sendBuf' = sendBuf
      /\ got' = got /\ state \in [Threads -> ThreadStates]
      /\ state[c] \in {"running", "woken"} /\ recvBuf[c] = <<>>
      /\ c \in Threads \ Producers
      /\ Consumers \in SUBSET Threads /\ Producers \in SUBSET Threads
  BY DEF queue_dequeue, InDequeue, IInv, TypeOK, ConsumersKnow, Threads
<1>2. ASSUME NEW v \in {"waiting", "done"}, isEmpty,
             state' = [state EXCEPT ![c] = v], UNCHANGED <<buf, recvBuf>>,
             v = "done" => queue_isTerminated
      PROVE  IInv'
  <2>1. \A u \in Threads : state'[u] = IF u = c THEN v ELSE state[u]
    BY <1>1, <1>2
  <2>2. TypeOK'
    BY <1>1, <1>2 DEF IInv, TypeOK, ThreadStates
  <2>3. Counts'
    <3>1. DoneProducers' = DoneProducers
      BY <1>1, <2>1 DEF DoneProducers
    <3> QED BY <1>1, <3>1 DEF IInv, Counts
  <2>4. ProducersKnow' /\ ConsumersKnow'
    BY <1>1, <1>2, <2>1 DEF IInv, ProducersKnow, ConsumersKnow
  <2>5. LeavesWhenDrained'
    <3>1. v = "done" => \A p \in Producers : state[p] = "done"
      BY <1>2, TerminatedMeansDone DEF IInv
    <3>2. v = "done" => \A p \in Producers : sendBuf[p] = <<>>
      BY <3>1 DEF IInv, ProducersKnow
    <3> QED BY <1>1, <1>2, <2>1, <3>1, <3>2 DEF IInv, LeavesWhenDrained, isEmpty
  <2>6. WakeupsSuffice'
    BY <1>1, <1>2, <2>1 DEF IInv, WakeupsSuffice, isEmpty
  <2> QED BY <2>2, <2>3, <2>4, <2>5, <2>6 DEF IInv
<1>3. ASSUME ~isEmpty,
             recvBuf' = [recvBuf EXCEPT ![c] = SubSeq(buf, 1, fetched)],
             buf' = afterFirst(buf, fetched),
             signal(Producers, c)
      PROVE  IInv'
  <2>1. buf \in Seq(Item) /\ Len(buf) \in Nat \ {0} /\ Len(buf) <= Size
    BY <1>3 DEF IInv, TypeOK, isEmpty
  <2>2. fetched \in 1 .. Len(buf) /\ fetched <= Fetch
    BY <2>1 DEF fetched, smallest
  <2>3. /\ SubSeq(buf, 1, fetched) \in Seq(Item)
        /\ Len(SubSeq(buf, 1, fetched)) = fetched
    BY <2>1, <2>2, BatchMoved
  <2>4. buf' \in Seq(Item) /\ Len(buf') <= Size
    <3>1. /\ afterFirst(buf, fetched) \in Seq(Item)
          /\ Len(afterFirst(buf, fetched)) = Len(buf) - fetched
      BY <2>1, <2>2, AfterFirstType
    <3> QED BY <1>3, <2>1, <2>2, <3>1
  <2>5. /\ state' \in [Threads -> ThreadStates] /\ state'[c] = "running"
        /\ \A u \in Threads \ {c} :
             \/ state'[u] = state[u]
             \/ u \in Producers /\ state[u] = "waiting" /\ state'[u] = "woken"
        /\ (\E u \in Producers : state[u] = "waiting")
             => \E u \in Producers : state'[u] = "woken"
    BY <1>1, <1>3, SignalEffect DEF IInv
  <2>6. TypeOK'
    BY <1>1, <1>3, <2>2, <2>3, <2>4, <2>5 DEF IInv, TypeOK
  <2>7. Counts'
    <3>1. DoneProducers' = DoneProducers
      BY <1>1, <2>5 DEF DoneProducers
    <3> QED BY <1>1, <3>1 DEF IInv, Counts
  <2>8. ProducersKnow'
    BY <1>1, <2>5 DEF IInv, ProducersKnow
  <2>9. ConsumersKnow'
    BY <1>1, <1>3, <2>5 DEF IInv, TypeOK, ConsumersKnow
  <2>10. LeavesWhenDrained'
    BY <1>1, <1>3, <2>5 DEF IInv, LeavesWhenDrained
  <2>11. WakeupsSuffice'
    <3>1. (\E p \in Producers : state'[p] = "waiting")
            => \E p \in Producers : state'[p] = "woken"
      BY <1>1, <2>5
    <3> QED BY <2>5, <3>1 DEF WakeupsSuffice
  <2> QED BY <2>6, <2>7, <2>8, <2>9, <2>10, <2>11 DEF IInv
<1> QED BY <1>2, <1>3 DEF queue_dequeue, mustWait

\* Every step keeps the invariant.
LEMMA NextIInv == ASSUME IInv, [Next]_vars PROVE IInv'
<1>1. CASE \E p \in Producers : ProducerStep(p)
  BY <1>1, ProduceIInv, EnqueueIInv, TerminateIInv DEF ProducerStep
<1>2. CASE \E c \in Consumers : ConsumerStep(c)
  BY <1>2, ProcessIInv, DequeueIInv DEF ConsumerStep
<1>3. CASE \E t \in Threads : SpuriousWakeup(t)
  BY <1>3, SpuriousIInv
<1>4. CASE UNCHANGED vars
  BY <1>4 DEF vars, IInv, TypeOK, Counts, DoneProducers, ProducersKnow,
              ConsumersKnow, LeavesWhenDrained, WakeupsSuffice, isEmpty
<1> QED BY <1>1, <1>2, <1>3, <1>4 DEF Next

-----------------------------------------------------------------------------
(* Where the items are *)

\* The items of a ring.
Content(s) == {s[i] : i \in 1 .. Len(s)}

\* One producer's items have rising numbers along a ring.
Sorted(s) ==
  \A i, j \in 1 .. Len(s) : i < j /\ s[i][1] = s[j][1] => s[i][2] < s[j][2]

\* No item of T was made before an item of S by the same producer.
Before(S, T) == \A x \in S, y \in T : x[1] = y[1] => x[2] < y[2]

\* What consumer c has taken from the queue so far, in order.
taken(c) == got[c] \o recvBuf[c]

\* A producer's ring holds its own items, and only items made so far are anywhere.
Numbered ==
  /\ \A p \in Producers : \A x \in Content(sendBuf[p]) : x[1] = p /\ x[2] <= made[p]
  /\ \A x \in Content(buf) : x[2] <= made[x[1]]
  /\ \A c \in Consumers : \A x \in Content(taken(c)) : x[2] <= made[x[1]]

\* An item that was made is still somewhere.
Somewhere ==
  \A x \in Item : x[2] <= made[x[1]] =>
    \/ x \in Content(sendBuf[x[1]])
    \/ x \in Content(buf)
    \/ \E c \in Consumers : x \in Content(taken(c))

\* Each ring is in order and the three an item goes through come one after another.
Ordered ==
  /\ \A p \in Producers : Sorted(sendBuf[p]) /\ Before(Content(buf), Content(sendBuf[p]))
  /\ Sorted(buf)
  /\ \A c \in Consumers :
       /\ Sorted(taken(c)) /\ Before(Content(taken(c)), Content(buf))
       /\ \A p \in Producers : Before(Content(taken(c)), Content(sendBuf[p]))

\* No two consumers take the same item.
Apart ==
  \A c, d \in Consumers : c # d => Content(taken(c)) \cap Content(taken(d)) = {}

\* Where the items are, relative to one another.
Delivery == Numbered /\ Somewhere /\ Ordered /\ Apart

\* Joining two rings puts their items together.
LEMMA ConcatContent ==
  ASSUME NEW s \in Seq(Item), NEW t \in Seq(Item)
  PROVE  Content(s \o t) = Content(s) \cup Content(t)
<1>1. \A i \in 1 .. Len(s) : (s \o t)[i] = s[i] /\ i \in 1 .. Len(s \o t)
  OBVIOUS
<1>2. \A i \in 1 .. Len(t) :
        (s \o t)[Len(s) + i] = t[i] /\ Len(s) + i \in 1 .. Len(s \o t)
  OBVIOUS
<1>3. \A k \in 1 .. Len(s \o t) :
        \/ k \in 1 .. Len(s) /\ (s \o t)[k] = s[k]
        \/ k - Len(s) \in 1 .. Len(t) /\ (s \o t)[k] = t[k - Len(s)]
  OBVIOUS
<1>4. Content(s) \cup Content(t) \subseteq Content(s \o t)
  BY <1>1, <1>2 DEF Content
<1>5. Content(s \o t) \subseteq Content(s) \cup Content(t)
  BY <1>3 DEF Content
<1> QED BY <1>4, <1>5

\* Two rings joined are in order when each is and the first comes before the second.
LEMMA ConcatSorted ==
  ASSUME NEW s \in Seq(Item), NEW t \in Seq(Item)
  PROVE  Sorted(s \o t)
         <=> Sorted(s) /\ Sorted(t) /\ Before(Content(s), Content(t))
<1> DEFINE u == s \o t
<1>1. \A i \in 1 .. Len(s) : u[i] = s[i] /\ i \in 1 .. Len(u)
  OBVIOUS
<1>2. \A i \in 1 .. Len(t) : u[Len(s) + i] = t[i] /\ Len(s) + i \in 1 .. Len(u)
  OBVIOUS
<1>3. \A k \in 1 .. Len(u) :
        \/ k \in 1 .. Len(s) /\ u[k] = s[k]
        \/ k - Len(s) \in 1 .. Len(t) /\ u[k] = t[k - Len(s)]
  OBVIOUS
<1>4. Len(s) \in Nat /\ Len(t) \in Nat
  OBVIOUS
<1> HIDE DEF u
<1>5. ASSUME Sorted(u) PROVE Sorted(s)
  BY <1>1, <1>5 DEF Sorted
<1>6. ASSUME Sorted(u) PROVE Sorted(t)
  <2> SUFFICES ASSUME NEW i \in 1 .. Len(t), NEW j \in 1 .. Len(t), i < j,
                      t[i][1] = t[j][1]
               PROVE  t[i][2] < t[j][2]
    BY DEF Sorted
  <2>1. Len(s) + i < Len(s) + j
    BY <1>4
  <2> QED BY <1>2, <1>6, <2>1 DEF Sorted
<1>7. ASSUME Sorted(u) PROVE Before(Content(s), Content(t))
  <2> SUFFICES ASSUME NEW i \in 1 .. Len(s), NEW j \in 1 .. Len(t),
                      s[i][1] = t[j][1]
               PROVE  s[i][2] < t[j][2]
    BY DEF Before, Content
  <2>1. i < Len(s) + j
    BY <1>4
  <2>2. /\ i \in 1 .. Len(u) /\ Len(s) + j \in 1 .. Len(u)
        /\ u[i] = s[i] /\ u[Len(s) + j] = t[j]
    BY <1>1, <1>2
  <2> DEFINE k == Len(s) + j
  <2> HIDE DEF k
  <2>3. i < k /\ k \in 1 .. Len(u) /\ u[i][1] = u[k][1]
    BY <2>1, <2>2 DEF k
  <2>4. u[i][2] < u[k][2]
    BY <1>7, <2>2, <2>3 DEF Sorted
  <2> QED BY <2>2, <2>4 DEF k
<1>8. ASSUME Sorted(s), Sorted(t), Before(Content(s), Content(t)) PROVE Sorted(u)
  <2> SUFFICES ASSUME NEW i \in 1 .. Len(u), NEW j \in 1 .. Len(u), i < j,
                      u[i][1] = u[j][1]
               PROVE  u[i][2] < u[j][2]
    BY DEF Sorted
  <2>1. CASE j \in 1 .. Len(s) /\ u[j] = s[j]
    <3>1. i \in 1 .. Len(s)
      BY <1>4, <2>1
    <3> QED BY <1>1, <1>8, <2>1, <3>1 DEF Sorted
  <2>2. CASE /\ j - Len(s) \in 1 .. Len(t) /\ u[j] = t[j - Len(s)]
             /\ i \in 1 .. Len(s) /\ u[i] = s[i]
    BY <1>8, <2>2 DEF Before, Content
  <2>3. CASE /\ j - Len(s) \in 1 .. Len(t) /\ u[j] = t[j - Len(s)]
             /\ i - Len(s) \in 1 .. Len(t) /\ u[i] = t[i - Len(s)]
    <3>1. i - Len(s) < j - Len(s)
      BY <1>4
    <3> QED BY <1>8, <2>3, <3>1 DEF Sorted
  <2> QED BY <1>3, <2>1, <2>2, <2>3
<1> QED BY <1>5, <1>6, <1>7, <1>8 DEF u

\* ringbuffer_remove splits a ring in the batch it took and what is left.
LEMMA SplitRing ==
  ASSUME NEW s \in Seq(Item), NEW n \in 0 .. Len(s)
  PROVE  /\ SubSeq(s, 1, n) \in Seq(Item) /\ afterFirst(s, n) \in Seq(Item)
         /\ s = SubSeq(s, 1, n) \o afterFirst(s, n)
<1> DEFINE u == SubSeq(s, 1, n)
           v == SubSeq(s, n + 1, Len(s))
<1>1. /\ u \in Seq(Item) /\ Len(u) = n
      /\ \A i \in 1 .. n : u[i] = s[i]
  BY SubSeqProperties
<1>2. /\ v \in Seq(Item) /\ Len(v) = Len(s) - n
      /\ \A i \in 1 .. Len(s) - n : v[i] = s[n + i]
  <2>1. \A i \in 1 .. Len(s) - n : v[i] = s[(n + 1) + i - 1] /\ (n + 1) + i - 1 = n + i
    BY SubSeqProperties
  <2> QED BY SubSeqProperties, <2>1
<1> HIDE DEF u, v
<1>3. /\ u \o v \in Seq(Item) /\ Len(u \o v) = Len(s)
      /\ \A i \in 1 .. Len(s) : (u \o v)[i] = IF i <= n THEN u[i] ELSE v[i - n]
  BY <1>1, <1>2
<1>4. \A i \in 1 .. Len(s) : (u \o v)[i] = s[i]
  <2> TAKE i \in 1 .. Len(s)
  <2>1. CASE i <= n
    BY <1>1, <1>3, <2>1
  <2>2. CASE ~(i <= n)
    <3>1. i - n \in 1 .. Len(s) - n /\ n + (i - n) = i
      BY <2>2
    <3> QED BY <1>2, <1>3, <2>2, <3>1
  <2> QED BY <2>1, <2>2
<1>5. s = u \o v
  <2> DEFINE w == u \o v
  <2>1. /\ w \in Seq(Item) /\ Len(s) = Len(w)
        /\ \A i \in 1 .. Len(s) : s[i] = w[i]
    BY <1>3, <1>4
  <2> HIDE DEF w
  <2>2. s = w
    BY <2>1, SeqEqual
  <2> QED BY <2>2 DEF w
<1> QED BY <1>1, <1>2, <1>5 DEF u, v, afterFirst

\* At first nothing has been made and nothing is anywhere.
LEMMA InitDelivery == Init => Delivery
<1> SUFFICES ASSUME Init PROVE Delivery
  OBVIOUS
<1>1. /\ \A p \in Producers : sendBuf[p] = <<>> /\ made[p] = 0
      /\ \A c \in Consumers : taken(c) = <<>>
      /\ buf = <<>>
  BY DEF Init, taken
<1>2. Content(<<>>) = {} /\ Sorted(<<>>)
  BY DEF Content, Sorted
<1>3. \A x \in Item : ~(x[2] <= made[x[1]])
  BY <1>1 DEF Item
<1> QED BY <1>1, <1>2, <1>3
        DEF Delivery, Numbered, Somewhere, Ordered, Apart, Before

\* A producer makes its next item: it comes after all that it made before.
LEMMA ProduceDelivery ==
  ASSUME TypeOK, Delivery, NEW p \in Producers, Produce(p) PROVE Delivery'
<1> DEFINE x == <<p, made[p] + 1>>
<1>1. /\ buf' = buf /\ recvBuf' = recvBuf /\ got' = got
      /\ \A q \in Producers \ {p} : sendBuf'[q] = sendBuf[q] /\ made'[q] = made[q]
      /\ sendBuf'[p] = sendBuf[p] \o <<x>> /\ made'[p] = made[p] + 1
      /\ made[p] \in Nat /\ x \in Item /\ x[1] = p /\ x[2] = made[p] + 1
      /\ sendBuf[p] \in Seq(Item)
  <2>1. /\ sendBuf[p] \in Seq(Item) /\ made[p] \in 0 .. Items /\ made[p] < Items
        /\ sendBuf \in [Producers -> Seq(Item)]
        /\ made \in [Producers -> 0 .. Items]
    BY DEF Produce, TypeOK
  <2>2. x \in Item /\ x[1] = p /\ x[2] = made[p] + 1
    BY <2>1, BoundAssumption DEF Item
  <2>3. Append(sendBuf[p], x) = sendBuf[p] \o <<x>>
    <3> HIDE DEF x
    <3> QED BY <2>1, <2>2
  <2>4. sendBuf' = [sendBuf EXCEPT ![p] = Append(@, x)]
    BY DEF Produce
  <2>5. sendBuf'[p] = Append(sendBuf[p], x)
    BY <2>1, <2>4
  <2>6. \A q \in Producers \ {p} : sendBuf'[q] = sendBuf[q]
    BY <2>1, <2>4
  <2>7. /\ buf' = buf /\ recvBuf' = recvBuf /\ got' = got
        /\ \A q \in Producers \ {p} : made'[q] = made[q]
        /\ made'[p] = made[p] + 1
    BY <2>1 DEF Produce
  <2> HIDE DEF x
  <2> QED BY <2>1, <2>2, <2>3, <2>5, <2>6, <2>7
<1>2. /\ \A q \in Producers : made[q] \in Nat /\ Content(sendBuf[q]) \subseteq Item
      /\ \A c \in Consumers : Content(taken(c)) \subseteq Item
      /\ Content(buf) \subseteq Item
  BY BoundAssumption, SMTT(30) DEF TypeOK, Content, taken
<1>3. /\ Content(<<x>>) = {x} /\ Sorted(<<x>>)
      /\ Content(sendBuf'[p]) = Content(sendBuf[p]) \cup {x}
  <2>1. Content(<<x>>) = {x} /\ Sorted(<<x>>)
    BY DEF Content, Sorted
  <2>2. <<x>> \in Seq(Item)
    BY <1>1
  <2> HIDE DEF x
  <2> QED BY <1>1, <2>1, <2>2, ConcatContent, ZenonT(30)
<1>4. \A c \in Consumers : taken(c)' = taken(c)
  BY <1>1 DEF taken
<1> HIDE DEF x
<1>5. \A y \in Item : y[1] = p => x[2] > made[p]
  BY <1>1
<1>6. /\ \A y \in Content(sendBuf[p]) \cup Content(buf) : y[1] = p => y[2] < x[2]
      /\ \A c \in Consumers : \A y \in Content(taken(c)) : y[1] = p => y[2] < x[2]
  <2>1. \A y \in Item : y[2] \in Nat
    BY BoundAssumption DEF Item
  <2>2. \A y \in Item : y[2] <= made[p] => y[2] < x[2]
    BY <1>1, <2>1
  <2> QED BY <1>2, <2>2 DEF Delivery, Numbered
<1>7. Numbered'
  <2>1. \A y \in Item : /\ y[2] \in Nat /\ y[1] \in Producers
                        /\ y[2] <= made[y[1]] => y[2] <= made'[y[1]]
    <3> TAKE y \in Item
    <3>1. y[2] \in Nat /\ y[1] \in Producers
      BY BoundAssumption DEF Item
    <3> QED BY <1>1, <1>2, <3>1
  <2>2. \A q \in Producers : \A y \in Content(sendBuf'[q]) : y[1] = q /\ y[2] <= made'[q]
    <3>1. x[1] = p /\ x[2] <= made'[p]
      BY <1>1
    <3>2. \A q \in Producers : \A y \in Content(sendBuf[q]) : y[1] = q /\ y[2] <= made'[q]
      BY <1>2, <2>1 DEF Delivery, Numbered
    <3> QED BY <1>1, <1>3, <3>1, <3>2
  <2>3. \A y \in Content(buf') : y[2] <= made'[y[1]]
    BY <1>1, <1>2, <2>1 DEF Delivery, Numbered
  <2>4. \A c \in Consumers : \A y \in Content(taken(c)') : y[2] <= made'[y[1]]
    BY <1>2, <1>4, <2>1 DEF Delivery, Numbered
  <2> QED BY <2>2, <2>3, <2>4 DEF Numbered
<1>8. Somewhere'
  <2> SUFFICES ASSUME NEW y \in Item, y[2] <= made'[y[1]]
               PROVE  \/ y \in Content(sendBuf'[y[1]])
                      \/ y \in Content(buf')
                      \/ \E c \in Consumers : y \in Content(taken(c)')
    BY DEF Somewhere
  <2>1. y = <<y[1], y[2]>> /\ y[1] \in Producers /\ y[2] \in Nat
    BY BoundAssumption DEF Item
  <2>2. CASE y[2] <= made[y[1]]
    BY <1>1, <1>3, <1>4, <2>1, <2>2 DEF Delivery, Somewhere
  <2>3. CASE ~(y[2] <= made[y[1]])
    <3>1. y[1] = p
      BY <1>1, <2>1, <2>3
    <3>2. y[2] = made[p] + 1
      BY <1>1, <2>1, <2>3, <3>1
    <3>3. y = x
      BY <2>1, <3>1, <3>2 DEF x
    <3> QED BY <1>3, <3>1, <3>3
  <2> QED BY <2>2, <2>3
<1>9. Ordered'
  <2>1. Sorted(sendBuf'[p])
    <3>1. Before(Content(sendBuf[p]), Content(<<x>>))
      BY <1>1, <1>3, <1>6 DEF Before
    <3>2. sendBuf[p] \in Seq(Item) /\ Sorted(sendBuf[p]) /\ <<x>> \in Seq(Item)
      BY <1>1 DEF Delivery, Ordered
    <3>3. Sorted(sendBuf[p] \o <<x>>)
      BY <1>3, <3>1, <3>2, ConcatSorted
    <3> QED BY <1>1, <3>3
  <2>2. Before(Content(buf), Content(sendBuf'[p]))
    BY <1>1, <1>3, <1>6 DEF Before, Delivery, Ordered
  <2>3. \A c \in Consumers : Before(Content(taken(c)), Content(sendBuf'[p]))
    BY <1>1, <1>3, <1>6 DEF Before, Delivery, Ordered
  <2> QED BY <1>1, <1>4, <2>1, <2>2, <2>3 DEF Delivery, Ordered
<1>10. Apart'
  BY <1>4 DEF Delivery, Apart
<1> QED BY <1>7, <1>8, <1>9, <1>10 DEF Delivery

\* queue_enqueue moves the oldest items of one ring behind those in the queue.
LEMMA EnqueueDelivery ==
  ASSUME IInv, Delivery, NEW p \in Producers, queue_enqueue(p) PROVE Delivery'
<1>1. /\ made' = made /\ recvBuf' = recvBuf /\ got' = got
      /\ \A c \in Consumers : taken(c)' = taken(c)
  BY DEF queue_enqueue, taken
<1>2. CASE isFull
  BY <1>1, <1>2 DEF queue_enqueue, Delivery, Numbered, Somewhere, Ordered, Apart
<1>3. CASE ~isFull
  <2>1. /\ sendBuf[p] \in Seq(Item) /\ buf \in Seq(Item)
        /\ sendBuf \in [Producers -> Seq(Item)] /\ sendBuf[p] # <<>>
        /\ moved(p) \in 0 .. Len(sendBuf[p])
    <3>1. sendBuf[p] # <<>>
      BY DEF queue_enqueue, InEnqueue, IInv, ProducersKnow
    <3>2. moved(p) \in 1 .. Len(sendBuf[p])
      BY <1>3, <3>1, MovedRange DEF IInv
    <3> QED BY <3>1, <3>2 DEF IInv, TypeOK
  <2>2. PICK u \in Seq(Item), v \in Seq(Item) :
          /\ u = SubSeq(sendBuf[p], 1, moved(p))
          /\ v = afterFirst(sendBuf[p], moved(p))
          /\ sendBuf[p] = u \o v
    BY <2>1, SplitRing
  <2>3. /\ buf' = buf \o u /\ sendBuf'[p] = v
        /\ \A q \in Producers \ {p} : sendBuf'[q] = sendBuf[q]
    BY <1>3, <2>1, <2>2 DEF queue_enqueue, inserted
  <2>4. /\ Content(sendBuf[p]) = Content(u) \cup Content(v)
        /\ Content(buf') = Content(buf) \cup Content(u)
    BY <2>1, <2>2, <2>3, ConcatContent
  <2>5. /\ Sorted(u) /\ Sorted(v) /\ Before(Content(u), Content(v))
    <3>1. Sorted(u \o v)
      BY <2>2 DEF Delivery, Ordered
    <3> QED BY <3>1, ConcatSorted
  <2>6. \A x \in Content(u) : x[1] = p /\ x[2] <= made[p]
    BY <2>4 DEF Delivery, Numbered
  <2>7. Numbered'
    <3>1. \A q \in Producers : \A x \in Content(sendBuf'[q]) : x[1] = q /\ x[2] <= made[q]
      BY <2>3, <2>4 DEF Delivery, Numbered
    <3> QED BY <1>1, <2>4, <2>6, <3>1 DEF Delivery, Numbered
  <2>8. Somewhere'
    <3> SUFFICES ASSUME NEW x \in Item, x[2] <= made[x[1]]
                 PROVE  \/ x \in Content(sendBuf'[x[1]])
                        \/ x \in Content(buf')
                        \/ \E c \in Consumers : x \in Content(taken(c))
      BY <1>1 DEF Somewhere
    <3>1. x[1] \in Producers
      BY DEF Item
    <3> QED BY <2>3, <2>4, <3>1 DEF Delivery, Somewhere
  <2>9. Ordered'
    <3>1. Sorted(buf')
      <4>1. Before(Content(buf), Content(u)) /\ Sorted(buf)
        BY <2>4 DEF Delivery, Ordered, Before
      <4>2. buf \in Seq(Item) /\ Sorted(u)
        BY <2>1, <2>5
      <4>3. Sorted(buf \o u)
        BY <4>1, <4>2, ConcatSorted
      <4> QED BY <2>3, <4>3
    <3>2. \A q \in Producers :
            Sorted(sendBuf'[q]) /\ Before(Content(buf'), Content(sendBuf'[q]))
      <4> TAKE q \in Producers
      <4>1. CASE q = p
        BY <2>3, <2>4, <2>5, <4>1 DEF Delivery, Ordered, Before
      <4>2. CASE q # p
        <5>1. Before(Content(u), Content(sendBuf[q]))
          BY <2>6, <4>2 DEF Delivery, Numbered, Before
        <5> QED BY <2>3, <2>4, <4>2, <5>1 DEF Delivery, Ordered, Before
      <4> QED BY <4>1, <4>2
    <3>3. \A c \in Consumers :
            /\ Before(Content(taken(c)), Content(buf'))
            /\ \A q \in Producers : Before(Content(taken(c)), Content(sendBuf'[q]))
      BY <2>3, <2>4 DEF Delivery, Ordered, Before
    <3> QED BY <1>1, <3>1, <3>2, <3>3 DEF Delivery, Ordered
  <2>10. Apart'
    BY <1>1 DEF Delivery, Apart
  <2> QED BY <2>7, <2>8, <2>9, <2>10 DEF Delivery
<1> QED BY <1>2, <1>3

\* queue_dequeue moves the oldest items of the queue behind those c has taken.
LEMMA DequeueDelivery ==
  ASSUME IInv, Delivery, NEW c \in Consumers, queue_dequeue(c) PROVE Delivery'
<1>1. made' = made /\ sendBuf' = sendBuf /\ got' = got
  BY DEF queue_dequeue
<1>2. CASE UNCHANGED <<buf, recvBuf>>
  BY <1>1, <1>2 DEF Delivery, Numbered, Somewhere, Ordered, Apart, taken
<1>3. CASE /\ ~isEmpty
           /\ recvBuf' = [recvBuf EXCEPT ![c] = SubSeq(buf, 1, fetched)]
           /\ buf' = afterFirst(buf, fetched)
  <2>1. /\ buf \in Seq(Item) /\ recvBuf[c] = <<>> /\ got[c] \in Seq(Item)
        /\ recvBuf \in [Consumers -> Seq(Item)] /\ fetched \in 0 .. Len(buf)
    BY BoundAssumption
    DEF queue_dequeue, InDequeue, IInv, TypeOK, ConsumersKnow, fetched, smallest
  <2>2. PICK u \in Seq(Item), v \in Seq(Item) :
          /\ u = SubSeq(buf, 1, fetched)
          /\ v = afterFirst(buf, fetched)
          /\ buf = u \o v
    BY <2>1, SplitRing
  <2>3. /\ buf' = v /\ taken(c)' = taken(c) \o u /\ taken(c) \in Seq(Item)
        /\ \A d \in Consumers \ {c} : taken(d)' = taken(d)
    <3>1. recvBuf'[c] = u /\ \A d \in Consumers \ {c} : recvBuf'[d] = recvBuf[d]
      BY <1>3, <2>1, <2>2
    <3>2. got[c] \o recvBuf[c] = got[c]
      BY <2>1
    <3> QED BY <1>1, <1>3, <2>1, <2>2, <3>1, <3>2 DEF taken
  <2>4. /\ Content(buf) = Content(u) \cup Content(v)
        /\ Content(taken(c))' = Content(taken(c)) \cup Content(u)
        /\ \A d \in Consumers \ {c} : Content(taken(d))' = Content(taken(d))
    <3>1. Content(taken(c))' = Content(taken(c)')
      BY DEF Content
    <3>2. \A d \in Consumers : Content(taken(d))' = Content(taken(d)')
      BY DEF Content
    <3> QED BY <2>2, <2>3, <3>1, <3>2, ConcatContent
  <2>5. Sorted(u) /\ Sorted(v) /\ Before(Content(u), Content(v))
    BY <2>2, ConcatSorted DEF Delivery, Ordered
  <2>6. Numbered'
    BY <1>1, <2>3, <2>4 DEF Delivery, Numbered
  <2>7. Somewhere'
    BY <1>1, <2>3, <2>4 DEF Delivery, Somewhere
  <2>8. Ordered'
    <3>1. Sorted(taken(c))'
      <4>1. Before(Content(taken(c)), Content(u)) /\ Sorted(taken(c))
        BY <2>4 DEF Delivery, Ordered, Before
      <4>2. Sorted(taken(c) \o u)
        BY <2>2, <2>3, <2>5, <4>1, ConcatSorted
      <4> QED BY <2>3, <4>2 DEF Sorted
    <3>2. \A d \in Consumers \ {c} : Sorted(taken(d))'
      BY <2>3 DEF Delivery, Ordered, Sorted
    <3>3. \A d \in Consumers : Before(Content(taken(d)), Content(buf))'
      BY <2>3, <2>4, <2>5 DEF Delivery, Ordered, Before
    <3>4. \A d \in Consumers, p \in Producers :
            Before(Content(taken(d)), Content(sendBuf[p]))'
      BY <1>1, <2>3, <2>4 DEF Delivery, Ordered, Before
    <3>5. \A p \in Producers : Before(Content(buf), Content(sendBuf[p]))'
      BY <1>1, <2>3, <2>4 DEF Delivery, Ordered, Before
    <3> QED BY <1>1, <2>3, <2>5, <3>1, <3>2, <3>3, <3>4, <3>5 DEF Delivery, Ordered
  <2>9. Apart'
    <3>1. \A d \in Consumers : Content(taken(d)) \cap Content(u) = {}
      <4> SUFFICES ASSUME NEW d \in Consumers, NEW x \in Content(taken(d)),
                          x \in Content(u)
                   PROVE  FALSE
        OBVIOUS
      <4>1. x[2] < x[2]
        BY <2>4 DEF Delivery, Ordered, Before
      <4>2. x \in Item
        BY DEF Content
      <4> QED BY <4>1, <4>2, BoundAssumption DEF Item
    <3> QED BY <2>4, <3>1 DEF Delivery, Apart
  <2> QED BY <2>6, <2>7, <2>8, <2>9 DEF Delivery
<1> QED BY <1>2, <1>3 DEF queue_dequeue

\* Processing an item leaves what the consumer has taken as it is.
LEMMA ProcessDelivery ==
  ASSUME TypeOK, Delivery, NEW c \in Consumers, Process(c) PROVE Delivery'
<1>1. \A d \in Consumers : taken(d)' = taken(d)
  <2>1. /\ recvBuf[c] \in Seq(Item) /\ recvBuf[c] # <<>> /\ got[c] \in Seq(Item)
        /\ recvBuf \in [Consumers -> Seq(Item)] /\ got \in [Consumers -> Seq(Item)]
        /\ recvBuf' = [recvBuf EXCEPT ![c] = Tail(@)]
        /\ got' = [got EXCEPT ![c] = Append(@, Head(recvBuf[c]))]
    BY DEF Process, TypeOK
  <2>2. \A s, t \in Seq(Item) : t # <<>> => Append(s, Head(t)) \o Tail(t) = s \o t
    OBVIOUS
  <2> QED BY <2>1, <2>2 DEF taken
<1> QED BY <1>1 DEF Process, Delivery, Numbered, Somewhere, Ordered, Apart

\* Every step keeps every item in one place and in order.
LEMMA NextDelivery ==
  ASSUME IInv, Delivery, [Next]_vars PROVE Delivery'
<1>1. CASE \E p \in Producers : Produce(p) \/ queue_enqueue(p)
  BY <1>1, ProduceDelivery, EnqueueDelivery DEF IInv
<1>2. CASE \E c \in Consumers : ConsumerStep(c)
  BY <1>2, ProcessDelivery, DequeueDelivery DEF ConsumerStep, IInv
<1>3. CASE UNCHANGED <<buf, sendBuf, made, recvBuf, got>>
  BY <1>3 DEF Delivery, Numbered, Somewhere, Ordered, Apart, taken
<1> QED BY <1>1, <1>2, <1>3
        DEF Next, ProducerStep, queue_terminate, SpuriousWakeup, vars

-----------------------------------------------------------------------------
\* A ring in which one producer's items are in order holds no item twice, and
\* neither does it when its two parts change places.
LEMMA SortedOnce ==
  ASSUME NEW s \in Seq(Item), NEW t \in Seq(Item), Sorted(s \o t),
         NEW i \in 1 .. Len(t \o s), NEW j \in 1 .. Len(t \o s),
         (t \o s)[i] = (t \o s)[j]
  PROVE  i = j
<1>1. Sorted(s) /\ Sorted(t) /\ Before(Content(s), Content(t))
  BY ConcatSorted
<1>2. \A x \in Item : ~(x[2] < x[2])
  BY BoundAssumption DEF Item
<1>3. /\ \A k, l \in 1 .. Len(s) : s[k] = s[l] => k = l
      /\ \A k, l \in 1 .. Len(t) : t[k] = t[l] => k = l
  <2>1. ASSUME NEW r \in Seq(Item), Sorted(r), NEW k \in 1 .. Len(r),
               NEW l \in 1 .. Len(r), r[k] = r[l]
        PROVE  k = l
    <3>1. r[k] \in Item /\ r[l] \in Item
      OBVIOUS
    <3>2. ~(k < l) /\ ~(l < k)
      BY <1>2, <2>1, <3>1 DEF Sorted
    <3> QED BY <3>2
  <2> QED BY <1>1, <2>1
<1>4. \A k \in 1 .. Len(s), l \in 1 .. Len(t) : s[k] # t[l]
  <2>1. \A x \in Content(s), y \in Content(t) : x # y
    BY <1>1, <1>2, SMTT(30) DEF Before, Content
  <2> QED BY <2>1 DEF Content
<1>5. \A k \in 1 .. Len(t \o s) :
        \/ k \in 1 .. Len(t) /\ (t \o s)[k] = t[k]
        \/ k - Len(t) \in 1 .. Len(s) /\ (t \o s)[k] = s[k - Len(t)]
  OBVIOUS
<1>6. Len(t) \in Nat
  OBVIOUS
<1>7. CASE i \in 1 .. Len(t) /\ (t \o s)[i] = t[i]
  <2>1. CASE j \in 1 .. Len(t) /\ (t \o s)[j] = t[j]
    BY <1>3, <1>7, <2>1
  <2>2. CASE j - Len(t) \in 1 .. Len(s) /\ (t \o s)[j] = s[j - Len(t)]
    BY <1>4, <1>7, <2>2
  <2> QED BY <1>5, <2>1, <2>2
<1>8. CASE i - Len(t) \in 1 .. Len(s) /\ (t \o s)[i] = s[i - Len(t)]
  <2>1. j - Len(t) \in 1 .. Len(s) /\ (t \o s)[j] = s[j - Len(t)]
    BY <1>4, <1>5, <1>8
  <2>2. i - Len(t) = j - Len(t)
    BY <1>3, <1>8, <2>1
  <2>3. i \in Int /\ j \in Int
    OBVIOUS
  <2> QED BY <1>6, <2>2, <2>3
<1> QED BY <1>5, <1>7, <1>8

\* What the consumers have processed and hold, what is queued and what a producer
\* holds is in order along that line.
LEMMA DeliveryInOrder == ASSUME TypeOK, Delivery PROVE InOrder
<1> SUFFICES ASSUME NEW p \in Producers, NEW c \in Consumers
             PROVE  LET line == got[c] \o recvBuf[c] \o buf \o sendBuf[p]
                    IN  Sorted(line) /\ line \in Seq(Item)
  <2>1. \A s \in Seq(Item) : Sorted(s) =>
          \A i, j \in DOMAIN s : i < j /\ s[i][1] = s[j][1] => s[i][2] < s[j][2]
    BY DEF Sorted
  <2> QED BY <2>1 DEF InOrder
<1>1. taken(c) \in Seq(Item) /\ buf \in Seq(Item) /\ sendBuf[p] \in Seq(Item)
  BY DEF TypeOK, taken
<1>2. taken(c) \o buf \in Seq(Item) /\ Sorted(taken(c) \o buf)
  BY <1>1, ConcatSorted DEF Delivery, Ordered
<1>3. Before(Content(taken(c) \o buf), Content(sendBuf[p]))
  BY <1>1, ConcatContent DEF Delivery, Ordered, Before
<1>4. Sorted((taken(c) \o buf) \o sendBuf[p])
  BY <1>1, <1>2, <1>3, ConcatSorted DEF Delivery, Ordered
<1>5. (taken(c) \o buf) \o sendBuf[p] \in Seq(Item)
  BY <1>1, <1>2
<1> QED BY <1>4, <1>5 DEF taken

\* The places of an item, in one set.
Places(x) ==
     {<<p, i>> : p \in {x[1]}, i \in At(x, sendBuf[x[1]])}
\cup {<<"queue", i>> : i \in At(x, buf)}
\cup UNION {{<<c, i>> : i \in At(x, recvBuf[c] \o got[c])} : c \in Consumers}

\* The invariant leaves every item that was made one place, and no other any.
LEMMA DeliveryOnce == ASSUME TypeOK, Delivery PROVE ExactlyOnce
<1> SUFFICES ASSUME NEW x \in Item
             PROVE  Cardinality(Places(x)) = IF x[2] <= made[x[1]] THEN 1 ELSE 0
  BY DEF ExactlyOnce, Places
<1> DEFINE P == x[1]
<1>1. /\ P \in Producers /\ sendBuf[P] \in Seq(Item) /\ buf \in Seq(Item)
      /\ \A c \in Consumers : /\ got[c] \in Seq(Item) /\ recvBuf[c] \in Seq(Item)
                              /\ recvBuf[c] \o got[c] \in Seq(Item)
  BY DEF TypeOK, Item
<1>2. \A c \in Consumers : Content(recvBuf[c] \o got[c]) = Content(taken(c))
  <2> TAKE c \in Consumers
  <2>1. Content(recvBuf[c] \o got[c]) = Content(recvBuf[c]) \cup Content(got[c])
    BY <1>1, ConcatContent
  <2>2. Content(got[c] \o recvBuf[c]) = Content(got[c]) \cup Content(recvBuf[c])
    BY <1>1, ConcatContent
  <2> QED BY <2>1, <2>2 DEF taken
<1>3. \A s \in Seq(Item) : /\ x \in Content(s) <=> At(x, s) # {}
                           /\ \A i \in At(x, s) : i \in 1 .. Len(s) /\ s[i] = x
  BY DEF Content, At
<1>4. CASE x[2] <= made[P]
  <2>1. Places(x) # {}
    <3>1. \/ x \in Content(sendBuf[P])
          \/ x \in Content(buf)
          \/ \E c \in Consumers : x \in Content(recvBuf[c] \o got[c])
      BY <1>2, <1>4 DEF Delivery, Somewhere
    <3>2. CASE x \in Content(sendBuf[P])
      <4>1. PICK i \in At(x, sendBuf[P]) : TRUE
        BY <1>1, <1>3, <3>2
      <4>2. <<P, i>> \in Places(x)
        BY DEF Places
      <4> QED BY <4>2
    <3>3. CASE x \in Content(buf)
      <4>1. PICK i \in At(x, buf) : TRUE
        BY <1>1, <1>3, <3>3
      <4>2. <<"queue", i>> \in Places(x)
        BY DEF Places
      <4> QED BY <4>2
    <3>4. CASE \E c \in Consumers : x \in Content(recvBuf[c] \o got[c])
      <4>1. PICK c \in Consumers : x \in Content(recvBuf[c] \o got[c])
        BY <3>4
      <4>2. PICK i \in At(x, recvBuf[c] \o got[c]) : TRUE
        BY <1>1, <1>3, <4>1
      <4>3. <<c, i>> \in Places(x)
        BY DEF Places
      <4> QED BY <4>3
    <3> QED BY <3>1, <3>2, <3>3, <3>4
  <2>2. \A a, b \in Places(x) : a = b
    <3>1. \A i, j \in At(x, sendBuf[P]) : i = j
      <4>1. \A s \in Seq(Item) : Sorted(s) => \A i, j \in At(x, s) : i = j
        <5> TAKE s \in Seq(Item)
        <5> HAVE Sorted(s)
        <5> TAKE i, j \in At(x, s)
        <5>1. i \in 1 .. Len(s) /\ j \in 1 .. Len(s) /\ s[i] = x /\ s[j] = x
          BY <1>3
        <5>2. x[2] \in Nat
          BY BoundAssumption DEF Item
        <5>3. ~(i < j) /\ ~(j < i)
          BY <5>1, <5>2 DEF Sorted
        <5> QED BY <5>1, <5>3
      <4> QED BY <1>1, <4>1 DEF Delivery, Ordered
    <3>2. \A i, j \in At(x, buf) : i = j
      <4> TAKE i, j \in At(x, buf)
      <4>1. i \in 1 .. Len(buf) /\ j \in 1 .. Len(buf) /\ buf[i] = x /\ buf[j] = x
        BY <1>1, <1>3
      <4>2. x[2] \in Nat
        BY BoundAssumption DEF Item
      <4>3. ~(i < j) /\ ~(j < i)
        BY <4>1, <4>2 DEF Sorted, Delivery, Ordered
      <4> QED BY <4>1, <4>3
    <3>3. \A c \in Consumers : \A i, j \in At(x, recvBuf[c] \o got[c]) : i = j
      <4> TAKE c \in Consumers
      <4> TAKE i, j \in At(x, recvBuf[c] \o got[c])
      <4>1. Sorted(got[c] \o recvBuf[c])
        BY DEF Delivery, Ordered, taken
      <4>2. /\ i \in 1 .. Len(recvBuf[c] \o got[c])
            /\ j \in 1 .. Len(recvBuf[c] \o got[c])
            /\ (recvBuf[c] \o got[c])[i] = (recvBuf[c] \o got[c])[j]
        BY <1>1, <1>3
      <4> QED BY <1>1, <4>1, <4>2, SortedOnce
    <3>4. x[2] \in Nat
      BY BoundAssumption DEF Item
    <3>5. ~(x \in Content(sendBuf[P]) /\ x \in Content(buf))
      BY <1>1, <3>4 DEF Delivery, Ordered, Before
    <3>6. \A c \in Consumers :
            /\ ~(x \in Content(taken(c)) /\ x \in Content(buf))
            /\ ~(x \in Content(taken(c)) /\ x \in Content(sendBuf[P]))
      BY <1>1, <3>4 DEF Delivery, Ordered, Before
    <3>7. \A c, d \in Consumers :
            x \in Content(taken(c)) /\ x \in Content(taken(d)) => c = d
      BY DEF Delivery, Apart
    <3>8. \A a \in Places(x) :
            \/ \E i \in At(x, sendBuf[P]) : a = <<P, i>>
            \/ \E i \in At(x, buf) : a = <<"queue", i>>
            \/ \E c \in Consumers : \E i \in At(x, recvBuf[c] \o got[c]) : a = <<c, i>>
      BY DEF Places
    <3>9. /\ (\E i \in At(x, sendBuf[P]) : TRUE) => x \in Content(sendBuf[P])
          /\ (\E i \in At(x, buf) : TRUE) => x \in Content(buf)
          /\ \A c \in Consumers : (\E i \in At(x, recvBuf[c] \o got[c]) : TRUE)
                                    => x \in Content(taken(c))
      BY <1>1, <1>2, <1>3
    <3> QED BY <3>1, <3>2, <3>3, <3>5, <3>6, <3>7, <3>8, <3>9
  <2>3. \E a : Places(x) = {a}
    BY <2>1, <2>2
  <2> QED BY <1>4, <2>3, FS_Singleton
<1>5. CASE ~(x[2] <= made[P])
  <2>1. /\ x \notin Content(sendBuf[P]) /\ x \notin Content(buf)
        /\ \A c \in Consumers : x \notin Content(recvBuf[c] \o got[c])
    BY <1>1, <1>2, <1>5 DEF Delivery, Numbered
  <2>2. /\ At(x, sendBuf[P]) = {} /\ At(x, buf) = {}
        /\ \A c \in Consumers : At(x, recvBuf[c] \o got[c]) = {}
    BY <1>1, <1>3, <2>1
  <2>3. Places(x) = {}
    BY <2>2 DEF Places
  <2> QED BY <1>5, <2>3, FS_EmptySet
<1> QED BY <1>4, <1>5

-----------------------------------------------------------------------------
(* What the queue guarantees *)

\* The fields of queue_t and the private rings keep their types and capacities.
THEOREM TypeCorrect == Spec => []TypeOK
<1>1. Init => IInv
  BY InitIInv
<1>2. IInv /\ [Next]_vars => IInv'
  BY NextIInv
<1>3. IInv => TypeOK
  BY DEF IInv
<1> QED BY <1>1, <1>2, <1>3, PTL DEF Spec

\* One pthread_cond_signal per call suffices, for any number of threads: the
\* producers and consumers are never all asleep.
THEOREM NoLostWakeup == Spec => []WakeupsSuffice
<1>1. Init => IInv
  BY InitIInv
<1>2. IInv /\ [Next]_vars => IInv'
  BY NextIInv
<1>3. IInv => WakeupsSuffice
  BY DEF IInv
<1> QED BY <1>1, <1>2, <1>3, PTL DEF Spec

\* A consumer that leaves on -1 leaves nothing behind.
THEOREM TerminationIsFinal == Spec => []LeavesWhenDrained
<1>1. Init => IInv
  BY InitIInv
<1>2. IInv /\ [Next]_vars => IInv'
  BY NextIInv
<1>3. IInv => LeavesWhenDrained
  BY DEF IInv
<1> QED BY <1>1, <1>2, <1>3, PTL DEF Spec

\* The assertions of queue.c never fail.
THEOREM AssertionsNeverFail == Spec => []AssertionsHold
<1>1. IInv => AssertionsHold
  <2> SUFFICES ASSUME IInv PROVE AssertionsHold
    OBVIOUS
  <2>1. /\ nTerminated <= nProducers
        /\ queue_isTerminated <=> \A p \in Producers : state[p] = "done"
    BY TerminatedMeansDone DEF IInv
  <2> QED BY <2>1 DEF AssertionsHold, InEnqueue
<1>2. Init => IInv
  BY InitIInv
<1>3. IInv /\ [Next]_vars => IInv'
  BY NextIInv
<1> QED BY <1>1, <1>2, <1>3, PTL DEF Spec

\* Batches cut short by a full queue lose nothing, duplicate nothing and keep each
\* producer's order, for any number of threads, any ring sizes and any number of
\* items.
THEOREM AllDelivered == Spec => []ItemsDelivered
<1>1. Init => IInv /\ Delivery
  BY InitIInv, InitDelivery
<1>2. IInv /\ Delivery /\ [Next]_vars => IInv' /\ Delivery'
  BY NextIInv, NextDelivery
<1>3. IInv /\ Delivery => ItemsDelivered
  BY DeliveryInOrder, DeliveryOnce DEF IInv, ItemsDelivered
<1> QED BY <1>1, <1>2, <1>3, PTL DEF Spec
=============================================================================
