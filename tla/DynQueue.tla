------------------------------ MODULE DynQueue ------------------------------
(***************************************************************************)
(* dynqueue (libs/fastflow/ff/dynqueue.hpp): the list-based unbounded queue  *)
(* between one producer and one consumer in which BufferPool keeps the       *)
(* channels in use.  The list always has a dummy node at its head; a popped  *)
(* dummy goes back to the producer through a bounded cache of nodes, which   *)
(* is a SWSR_Ptr_Buffer and is used through its promise.  One step is one    *)
(* access to a field the two threads share.                                  *)
(***************************************************************************)
EXTENDS Naturals, Sequences, Functions

CONSTANTS Item,       \* the pointers carried
          CacheSize,  \* capacity of the node cache
          MaxLen      \* bound: items in the queue at once

BoundAssumption == CacheSize \in Nat \ {0} /\ MaxLen \in Nat \ {0}

NULL == 0

\* Addresses of nodes: enough that malloc never fails.
Nodes == 1 .. (MaxLen + CacheSize + 3)

VARIABLES
  next, data,         \* the fields of every node
  head, tail, cache,  \* the fields of the queue
  live,               \* nodes allocated and not freed
  pcP, n,             \* producer: next step and the node it links
  pcC, old,           \* consumer: next step and the dummy it gives back
  out,                \* the pointer the consumer read
  list,               \* history: the nodes linked, dummy first,
  q, pushed, popped   \* the queue and the last answers

vars == <<next, data, head, tail, cache, live, pcP, n, pcC, old, out, list, q,
          pushed, popped>>

\* The constructor: a dummy node and an empty cache, or with fillcache a cache
\* full of nodes.
Init ==
  /\ next = [x \in Nodes |-> NULL] /\ data = [x \in Nodes |-> NULL]
  /\ head = 1 /\ tail = 1
  /\ \E fillcache \in BOOLEAN :
       cache = IF fillcache THEN [i \in 1 .. CacheSize |-> i + 1] ELSE <<>>
  /\ live = {1} \cup {cache[i] : i \in DOMAIN cache}
  /\ pcP = "idle" /\ n = NULL
  /\ pcC = "idle" /\ old = NULL /\ out = NULL
  /\ list = <<1>> /\ q = <<>> /\ pushed = TRUE /\ popped = NULL

-----------------------------------------------------------------------------
(* Producer *)

\* allocnode: a node from the cache, else from malloc.
allocnode ==
  \/ cache # <<>> /\ n' = Head(cache) /\ cache' = Tail(cache) /\ UNCHANGED live
  \/ /\ cache = <<>> /\ n' = (CHOOSE x \in Nodes : x \notin live)
     /\ live' = live \cup {n'} /\ UNCHANGED cache

\* allocnode and the two stores to the new node, which nobody else sees yet.
pushFill(d) ==
  /\ pcP = "idle" /\ Len(q) < MaxLen
  /\ allocnode
  /\ data' = [data EXCEPT ![n'] = d]
  /\ next' = [next EXCEPT ![n'] = NULL]
  /\ pcP' = "link"
  /\ UNCHANGED <<head, tail, pcC, old, out, list, q, pushed, popped>>

\* tail->next = n: the item becomes visible.
pushLink ==
  /\ pcP = "link"
  /\ next' = [next EXCEPT ![tail] = n]
  /\ pcP' = "tail"
  /\ list' = Append(list, n) /\ q' = Append(q, data[n]) /\ pushed' = TRUE
  /\ UNCHANGED <<data, head, tail, cache, live, n, pcC, old, out, popped>>

\* tail = n
pushTail ==
  /\ pcP = "tail"
  /\ tail' = n
  /\ pcP' = "idle" /\ n' = NULL
  /\ UNCHANGED <<next, data, head, cache, live, pcC, old, out, list, q, pushed, popped>>

-----------------------------------------------------------------------------
(* Consumer *)

\* if (head->next): answer false, or read the item behind the dummy.
popRead ==
  /\ pcC = "idle"
  /\ IF next[head] = NULL
     THEN popped' = NULL /\ UNCHANGED <<pcC, old, out>>
     ELSE /\ old' = head /\ out' = data[next[head]]
          /\ pcC' = "head" /\ UNCHANGED popped
  /\ UNCHANGED <<next, data, head, tail, cache, live, pcP, n, list, q, pushed>>

\* head = head->next: the item's node is the new dummy.
popHead ==
  /\ pcC = "head"
  /\ head' = next[head]
  /\ pcC' = "recycle"
  /\ popped' = out /\ list' = Tail(list) /\ q' = Tail(q)
  /\ UNCHANGED <<next, data, tail, cache, live, pcP, n, old, out, pushed>>

\* Seeded fault: the new dummy is given back instead of the old one.
popRecycleHead ==
  /\ pcC = "recycle"
  /\ IF Len(cache) < CacheSize THEN cache' = Append(cache, head) /\ UNCHANGED live
     ELSE live' = live \ {head} /\ UNCHANGED cache
  /\ pcC' = "idle" /\ old' = NULL /\ out' = NULL
  /\ UNCHANGED <<next, data, head, tail, pcP, n, list, q, pushed, popped>>

\* if (!cache.push(n)) ::free(n)
popRecycle ==
  /\ pcC = "recycle"
  /\ IF Len(cache) < CacheSize THEN cache' = Append(cache, old) /\ UNCHANGED live
     ELSE live' = live \ {old} /\ UNCHANGED cache
  /\ pcC' = "idle" /\ old' = NULL /\ out' = NULL
  /\ UNCHANGED <<next, data, head, tail, pcP, n, list, q, pushed, popped>>

Next ==
  \/ \E d \in Item : pushFill(d)
  \/ pushLink \/ pushTail
  \/ popRead \/ popHead \/ popRecycle

Spec == Init /\ [][Next]_vars

-----------------------------------------------------------------------------
(* Properties *)

\* Following next from the dummy finds the queue and then NULL, and tail is the
\* last node or, between the two stores of push, the one before it.  A dummy on
\* its way back to the cache may still be what tail names.
ListHoldsQueue ==
  /\ Len(list) = Len(q) + 1 /\ list[1] = head
  /\ \A i \in 1 .. Len(q) : next[list[i]] = list[i + 1] /\ data[list[i + 1]] = q[i]
  /\ next[list[Len(list)]] = NULL
  /\ IF pcP = "tail" THEN n = list[Len(list)] ELSE tail = list[Len(list)]

\* The nodes a thread has in hand: being linked or being given back.
Linking == IF pcP = "link" THEN {n} ELSE {}
GivingBack == IF pcC = "recycle" THEN {old} ELSE {}

\* A node has one use at a time: in the list, in the cache, being linked or
\* being given back.  A node is never recycled while a thread can reach it, and none
\* is lost.
OneUse ==
  /\ IsInjective(list) /\ IsInjective(cache)
  /\ Range(list) \cap Range(cache) = {} /\ Linking \cap GivingBack = {}
  /\ (Range(list) \cup Range(cache)) \cap (Linking \cup GivingBack) = {}
  /\ live = Range(list) \cup Range(cache) \cup Linking \cup GivingBack

\* What the two threads may not make of the nodes, together.
QueuesHoldItems == ListHoldsQueue /\ OneUse

Fifo == INSTANCE BoundedFifo WITH
          Batch <- {<<d>> : d \in Item}, NoItem <- NULL, Capacity <- MaxLen

\* Two threads that share only the links implement a first-in first-out queue.
ImplementsFifo == Fifo!FifoSpec
=============================================================================
