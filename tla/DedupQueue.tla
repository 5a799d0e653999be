----------------------------- MODULE DedupQueue -----------------------------
(***************************************************************************)
(* queue_t (kernels/dedup/src/queue.c): the bounded queue with batch        *)
(* enqueue and dequeue that joins two stages of the dedup pipeline, driven  *)
(* the way the stage loops of encoder.c drive it.  A producer collects      *)
(* items in a private ring and enqueues when the ring is full, and what is  *)
(* left when its input ends; then it terminates the queue.  A consumer      *)
(* dequeues when its private ring is empty and leaves on the answer -1.     *)
(*                                                                         *)
(* Every access to the queue is made under its mutex, so the code between   *)
(* acquiring the mutex and releasing it or waiting is one step.  The two    *)
(* condition variables are the sets of threads that wait on them.           *)
(***************************************************************************)
EXTENDS Integers, Sequences, FiniteSets

CONSTANTS Producers, Consumers,
          Size,      \* QUEUE_SIZE
          Insert,    \* ITEM_PER_INSERT: private ring and limit of a producer
          Fetch,     \* ITEM_PER_FETCH: private ring and limit of a consumer
          Items      \* bound: how many items each producer has to send

ASSUME ThreadAssumption ==
  /\ IsFiniteSet(Producers) /\ Producers # {}
  /\ IsFiniteSet(Consumers) /\ Consumers # {}
  /\ Producers \cap Consumers = {}
ASSUME BoundAssumption ==
  /\ Size \in Nat \ {0} /\ Insert \in Nat \ {0} /\ Fetch \in Nat \ {0}
  /\ Items \in Nat

VARIABLES
  buf,          \* que->buf: the items in the queue, oldest first
  nTerminated,  \* que->nTerminated
  state,        \* of each thread: see ThreadStates
  sendBuf,      \* private ring of each producer
  made,         \* how many items each producer has put in its ring so far
  recvBuf,      \* private ring of each consumer
  got           \* history: what each consumer has processed, in order

vars == <<buf, nTerminated, state, sendBuf, made, recvBuf, got>>

Threads == Producers \cup Consumers

\* "waiting" is inside pthread_cond_wait; "woken" has been signalled and will
\* test its condition again once it has the mutex; "done" has left its loop.
ThreadStates == {"running", "waiting", "woken", "done"}

\* The n-th item of producer p.
Item == Producers \X (1 .. Items)

nProducers == Cardinality(Producers)

smallest(a, b) == IF a <= b THEN a ELSE b

\* Seeded fault: terminated as soon as one producer is.
anyTerminated == nTerminated >= 1

\* queue_isTerminated
queue_isTerminated == nTerminated = nProducers

isEmpty == buf = <<>>

isFull == Len(buf) = Size

\* Seeded fault: the two conditions share one variable.
signalAnyone(ts, t) ==
  LET waiters == {w \in Threads : state[w] = "waiting"}
      here == [state EXCEPT ![t] = "running"]
  IN  IF waiters = {} THEN state' = here
      ELSE \E w \in waiters : state' = [here EXCEPT ![w] = "woken"]

\* pthread_cond_signal: one thread of those that wait on the variable, if any.
\* t itself goes on.
signal(ts, t) ==
  LET waiters == {w \in ts : state[w] = "waiting"}
      here == [state EXCEPT ![t] = "running"]
  IN  IF waiters = {} THEN state' = here
      ELSE \E w \in waiters : state' = [here EXCEPT ![w] = "woken"]

Init ==
  /\ buf = <<>> /\ nTerminated = 0
  /\ state = [t \in Threads |-> "running"]
  /\ sendBuf = [p \in Producers |-> <<>>]
  /\ made = [p \in Producers |-> 0]
  /\ recvBuf = [c \in Consumers |-> <<>>]
  /\ got = [c \in Consumers |-> <<>>]

-----------------------------------------------------------------------------
(* Producers *)

\* ringbuffer_insert(&send_buf, item), while the ring has room.
Produce(p) ==
  /\ state[p] = "running"
  /\ made[p] < Items /\ Len(sendBuf[p]) < Insert
  /\ made' = [made EXCEPT ![p] = @ + 1]
  /\ sendBuf' = [sendBuf EXCEPT ![p] = Append(@, <<p, made[p] + 1>>)]
  /\ UNCHANGED <<buf, nTerminated, state, recvBuf, got>>

\* The stage loop calls queue_enqueue when the ring is full or the input ended.
\* A thread woken inside queue_enqueue goes on there.
InEnqueue(p) ==
  \/ state[p] = "woken"
  \/ /\ state[p] = "running"
     /\ sendBuf[p] # <<>>
     /\ Len(sendBuf[p]) = Insert \/ made[p] = Items

\* Seeded fault: ignores the room left in the queue.
movedAnyway(p) == smallest(Insert, Len(sendBuf[p]))

\* How many items one call moves.
moved(p) == smallest(Insert, smallest(Size - Len(buf), Len(sendBuf[p])))

\* Seeded fault: the item moved last stays in the ring it came from.
afterFirstKeepsOne(s, n) == SubSeq(s, n, Len(s))

\* A ring after ringbuffer_remove took its n oldest items.
afterFirst(s, n) == SubSeq(s, n + 1, Len(s))

\* The queue's ring after ringbuffer_insert of the batch.
inserted(p) == buf \o SubSeq(sendBuf[p], 1, moved(p))

\* queue_enqueue: wait while full; move what fits; one signal on notEmpty.
\* i > 0 always, since the queue has room and the ring is not empty.
queue_enqueue(p) ==
  /\ InEnqueue(p)
  /\ IF isFull
     THEN /\ state' = [state EXCEPT ![p] = "waiting"]
          /\ UNCHANGED <<buf, sendBuf>>
     ELSE /\ buf' = inserted(p)
          /\ sendBuf' = [sendBuf EXCEPT ![p] = afterFirst(@, moved(p))]
          /\ signal(Consumers, p)
  /\ UNCHANGED <<nTerminated, made, recvBuf, got>>

\* Seeded fault: the last producer wakes one consumer instead of all.
wakeOnTerminationOne(p) ==
  LET waiters == {c \in Consumers : state[c] = "waiting"}
  IN  IF waiters = {} THEN state' = [state EXCEPT ![p] = "done"]
      ELSE \E w \in waiters : state' = [state EXCEPT ![p] = "done", ![w] = "woken"]

\* if(queue_isTerminated(que)) pthread_cond_broadcast(&que->notEmpty)
wakeOnTermination(p) ==
  state' = [t \in Threads |->
              IF t = p THEN "done"
              ELSE IF t \in Consumers /\ state[t] = "waiting"
                      /\ nTerminated' = nProducers
                   THEN "woken" ELSE state[t]]

\* queue_terminate, called once by each producer when nothing is left to send.
queue_terminate(p) ==
  /\ state[p] = "running"
  /\ made[p] = Items /\ sendBuf[p] = <<>>
  /\ nTerminated' = nTerminated + 1
  /\ wakeOnTermination(p)
  /\ UNCHANGED <<buf, sendBuf, made, recvBuf, got>>

-----------------------------------------------------------------------------
(* Consumers *)

\* ringbuffer_remove(&recv_buf) and the work of the stage on the item.
Process(c) ==
  /\ state[c] = "running"
  /\ recvBuf[c] # <<>>
  /\ got' = [got EXCEPT ![c] = Append(@, Head(recvBuf[c]))]
  /\ recvBuf' = [recvBuf EXCEPT ![c] = Tail(@)]
  /\ UNCHANGED <<buf, nTerminated, state, sendBuf, made>>

InDequeue(c) ==
  \/ state[c] = "woken"
  \/ state[c] = "running" /\ recvBuf[c] = <<>>

fetched == smallest(Fetch, Len(buf))

\* The loop condition around pthread_cond_wait(&que->notEmpty).
mustWait == isEmpty /\ ~queue_isTerminated

\* queue_dequeue: wait while empty and not terminated; -1 when empty and
\* terminated; else take up to the limit and signal notFull once.
queue_dequeue(c) ==
  /\ InDequeue(c)
  /\ \/ /\ mustWait
        /\ state' = [state EXCEPT ![c] = "waiting"]
        /\ UNCHANGED <<buf, recvBuf>>
     \/ /\ ~mustWait /\ isEmpty
        /\ state' = [state EXCEPT ![c] = "done"]
        /\ UNCHANGED <<buf, recvBuf>>
     \/ /\ ~isEmpty
        /\ recvBuf' = [recvBuf EXCEPT ![c] = SubSeq(buf, 1, fetched)]
        /\ buf' = afterFirst(buf, fetched)
        /\ signal(Producers, c)
  /\ UNCHANGED <<nTerminated, sendBuf, made, got>>

\* POSIX lets pthread_cond_wait return without a signal.
SpuriousWakeup(t) ==
  /\ state[t] = "waiting"
  /\ state' = [state EXCEPT ![t] = "woken"]
  /\ UNCHANGED <<buf, nTerminated, sendBuf, made, recvBuf, got>>

ProducerStep(p) == Produce(p) \/ queue_enqueue(p) \/ queue_terminate(p)

ConsumerStep(c) == Process(c) \/ queue_dequeue(c)

Finished == \A t \in Threads : state[t] = "done"

Next ==
  \/ \E p \in Producers : ProducerStep(p)
  \/ \E c \in Consumers : ConsumerStep(c)
  \/ \E t \in Threads : SpuriousWakeup(t)
  \/ Finished /\ UNCHANGED vars

Spec == Init /\ [][Next]_vars

\* The scheduler runs every thread that can run and the mutex starves nobody.
\* No fairness is asked of spurious wakeups.
FairSpec ==
  /\ Spec
  /\ \A p \in Producers : WF_vars(ProducerStep(p))
  /\ \A c \in Consumers : WF_vars(ConsumerStep(c))

-----------------------------------------------------------------------------
(* Properties *)

\* Type correctness: neither the queue nor a private ring ever holds more than
\* the size queue_init and ringbuffer_init gave it.
TypeOK ==
  /\ buf \in Seq(Item) /\ Len(buf) <= Size
  /\ nTerminated \in Nat
  /\ state \in [Threads -> ThreadStates]
  /\ sendBuf \in [Producers -> Seq(Item)]
  /\ \A p \in Producers : Len(sendBuf[p]) <= Insert
  /\ made \in [Producers -> 0 .. Items]
  /\ recvBuf \in [Consumers -> Seq(Item)]
  /\ \A c \in Consumers : Len(recvBuf[c]) <= Fetch
  /\ got \in [Consumers -> Seq(Item)]

\* The positions of x in a sequence.
At(x, s) == {i \in DOMAIN s : s[i] = x}

\* queue_enqueue and queue_dequeue move pointers between rings in batches that
\* may be cut short by a full queue: every item a producer has made is in
\* exactly one place, and no other item is anywhere.
ExactlyOnce ==
  \A x \in Item :
    Cardinality(   {<<p, i>> : p \in {x[1]}, i \in At(x, sendBuf[x[1]])}
              \cup {<<"queue", i>> : i \in At(x, buf)}
              \cup UNION {{<<c, i>> : i \in At(x, recvBuf[c] \o got[c])}
                            : c \in Consumers})
    = IF x[2] <= made[x[1]] THEN 1 ELSE 0

\* What one producer sends is in order wherever it is: a consumer processes a
\* producer's items in the order they were made, however calls interleave.
InOrder ==
  \A p \in Producers, c \in Consumers :
    LET line == got[c] \o recvBuf[c] \o buf \o sendBuf[p]
    IN  \A i, j \in DOMAIN line :
          i < j /\ line[i][1] = line[j][1] => line[i][2] < line[j][2]

\* Batches cut short by a full queue lose nothing, duplicate nothing and keep each
\* producer's order.
ItemsDelivered == ExactlyOnce /\ InOrder

\* One signal per call is enough.  While items are queued some consumer is
\* awake, and when the queue is empty and a producer sleeps on notFull another
\* has been woken; so the threads are never all asleep.
WakeupsSuffice ==
  /\ ~isEmpty => \E c \in Consumers : state[c] \in {"running", "woken"}
  /\ isEmpty /\ (\E p \in Producers : state[p] = "waiting")
       => \E p \in Producers : state[p] = "woken"

\* The answer -1 is final: a consumer that got it left nothing behind and no
\* producer can add anything.
LeavesWhenDrained ==
  \A c \in Consumers : state[c] = "done" =>
    /\ isEmpty /\ recvBuf[c] = <<>>
    /\ \A p \in Producers : state[p] = "done" /\ sendBuf[p] = <<>>

\* The assertions of queue.c: nTerminated never passes nProducers, and nobody
\* is inside queue_enqueue on a terminated queue.
AssertionsHold ==
  /\ nTerminated <= nProducers
  /\ \A p \in Producers :
       state[p] \in {"waiting", "woken"} \/ InEnqueue(p) => ~queue_isTerminated

\* Every thread leaves its loop: no item and no termination notice is missed.
AllFinish == <>Finished
=============================================================================
