---------------------------- MODULE DedupPipeline ----------------------------
(***************************************************************************)
(* The pthreads encoder of dedup (kernels/dedup/src/encoder.c): a five-stage *)
(* pipeline of threads joined by queue_t queues.                             *)
(*                                                                         *)
(*   Fragment -> FragmentRefine -> Deduplicate -> Compress -> Reorder        *)
(*                                       \-------------------/               *)
(*                                                                         *)
(* A duplicate goes from Deduplicate straight to Reorder.  Threads work in   *)
(* groups of PerQueue, each group with its own queues.  The queues are used  *)
(* through what DedupQueue establishes: bounded, first-in first-out, -1 only *)
(* when empty and terminated by all its declared producers.                  *)
(*                                                                         *)
(* The input is cut into coarse chunks and these into fine chunks; a fine    *)
(* chunk is its two-level sequence number <<l1num, l2num>> and its data is   *)
(* known by its SHA1 sum only.  All batches have the length GRAIN = 1 of     *)
(* dedupdef.h, except what FragmentRefine fetches.                           *)
(***************************************************************************)
EXTENDS Naturals, Sequences, FiniteSets

CONSTANTS Inputs,       \* inputs: sequences of coarse chunks = sequences of sums
          NThreads,     \* conf->nthreads
          PerQueue,     \* MAX_THREADS_PER_QUEUE
          QueueSize,    \* QUEUE_SIZE
          MaxPerFetch,  \* MAX_PER_FETCH
          AnchorMax     \* initial chunks_per_anchor_max

BoundAssumption ==
  /\ NThreads \in Nat \ {0} /\ PerQueue \in Nat \ {0} /\ QueueSize \in Nat \ {0}
  /\ MaxPerFetch \in Nat \ {0} /\ AnchorMax \in Nat \ {0}

Tids == 0 .. NThreads - 1

\* args->tid / MAX_THREADS_PER_QUEUE
qid(t) == t \div PerQueue

nqueues == (NThreads \div PerQueue) + (IF NThreads % PerQueue # 0 THEN 1 ELSE 0)

Queues == 0 .. nqueues - 1

threads_per_queue(i) ==
  IF i < nqueues - 1 \/ NThreads % PerQueue = 0 THEN PerQueue
  ELSE NThreads % PerQueue

Stages == {"refine", "deduplicate", "compress", "reorder"}

VARIABLES
  input,             \* the file being encoded
  que,               \* the queue in front of each stage and group
  terminated,        \* nTerminated of each queue
  sent,              \* Fragment: coarse chunks sent, then queues terminated
  refine, dedup, compress,  \* the threads of the three pools
  cache,             \* the hash table: which chunk is the original of a sum
  state,             \* header.state of each fine chunk
  reorder,           \* the Reorder thread's private state
  chunks_per_anchor, anchor_max,
  output             \* the records in the output file

vars == <<input, que, terminated, sent, refine, dedup, compress, cache, state,
          reorder, chunks_per_anchor, anchor_max, output>>
pools == <<refine, dedup, compress>>
writer == <<reorder, chunks_per_anchor, anchor_max, output>>

Coarse == 0 .. Len(input) - 1
Chunks == {c \in Coarse \X (0 .. 9) : c[2] < Len(input[c[1] + 1])}
sum(c) == input[c[1] + 1][c[2] + 1]
isLastL2Chunk(c) == c[2] = Len(input[c[1] + 1]) - 1
None == <<>>

sequence_lt(a, b) == a[1] < b[1] \/ (a[1] = b[1] /\ a[2] < b[2])

\* queue_init's last argument: the refine queues have one producer, the others
\* one per thread of the group that terminates them.
nProducers(s, i) == IF s = "refine" THEN 1 ELSE threads_per_queue(i)

isTerminated(s, i) == terminated[s][i] = nProducers(s, i)

hasRoom(s, i) == Len(que[s][i]) < QueueSize

Enqueue(s, i, x) == que' = [que EXCEPT ![s][i] = Append(@, x)]

Terminate(s, i) == terminated' = [terminated EXCEPT ![s][i] = @ + 1]

Drained(s, i) == que[s][i] = <<>> /\ isTerminated(s, i)

\* Encode: queues, thread pools and the empty hash table.
Init ==
  /\ input \in Inputs
  /\ que = [s \in Stages |-> [i \in Queues |-> <<>>]]
  /\ terminated = [s \in Stages |-> [i \in Queues |-> 0]]
  /\ sent = 0
  /\ refine = [t \in Tids |-> [at |-> "get", recv |-> <<>>, l2num |-> 0]]
  /\ dedup = [t \in Tids |-> [at |-> "get", chunk |-> None]]
  /\ compress = [t \in Tids |-> [at |-> "get", chunk |-> None]]
  /\ cache = [h \in {sum(c) : c \in Chunks} |-> None]
  /\ state = [c \in Chunks |-> "UNCOMPRESSED"]
  /\ reorder = [at |-> "get", qid |-> 0, tries |-> 0, chunk |-> None,
                next |-> <<0, 0>>, tree |-> {}]
  /\ chunks_per_anchor = [l \in Coarse |-> 0]
  /\ anchor_max = AnchorMax
  /\ output = <<>>

-----------------------------------------------------------------------------
(* Fragment: coarse chunks, round-robin over the groups *)

FragmentSend ==
  /\ sent < Len(input)
  /\ hasRoom("refine", sent % nqueues)
  /\ Enqueue("refine", sent % nqueues, sent)
  /\ sent' = sent + 1
  /\ UNCHANGED <<input, terminated, pools, cache, state, writer>>

\* The final loop of queue_terminate over all refine queues.
FragmentTerminate ==
  /\ sent >= Len(input) /\ sent < Len(input) + nqueues
  /\ Terminate("refine", sent - Len(input))
  /\ sent' = sent + 1
  /\ UNCHANGED <<input, que, pools, cache, state, writer>>

-----------------------------------------------------------------------------
(* FragmentRefine *)

smallest(a, b) == IF a <= b THEN a ELSE b

\* queue_dequeue of up to MAX_PER_FETCH coarse chunks.
RefineGet(t) ==
  LET q == que["refine"][qid(t)]
      n == smallest(MaxPerFetch, Len(q))
  IN  /\ refine[t].at = "get" /\ refine[t].recv = <<>> /\ q # <<>>
      /\ refine' = [refine EXCEPT ![t].recv = SubSeq(q, 1, n)]
      /\ que' = [que EXCEPT !["refine"][qid(t)] = SubSeq(q, n + 1, Len(q))]
      /\ UNCHANGED <<input, terminated, sent, dedup, compress, cache, state,
                     writer>>

\* Splits off the next fine chunk of the coarse chunk in hand and sends it.
RefineSend(t) ==
  LET c == <<Head(refine[t].recv), refine[t].l2num>>
  IN  /\ refine[t].at = "get" /\ refine[t].recv # <<>>
      /\ hasRoom("deduplicate", qid(t))
      /\ Enqueue("deduplicate", qid(t), c)
      /\ refine' = [refine EXCEPT ![t] =
           IF isLastL2Chunk(c) THEN [@ EXCEPT !.recv = Tail(@), !.l2num = 0]
           ELSE [@ EXCEPT !.l2num = @ + 1]]
      /\ UNCHANGED <<input, terminated, sent, dedup, compress, cache, state,
                     writer>>

RefineTerminate(t) ==
  /\ refine[t].at = "get" /\ refine[t].recv = <<>>
  /\ Drained("refine", qid(t))
  /\ Terminate("deduplicate", qid(t))
  /\ refine' = [refine EXCEPT ![t].at = "done"]
  /\ UNCHANGED <<input, que, sent, dedup, compress, cache, state, writer>>

-----------------------------------------------------------------------------
(* Deduplicate *)

DedupGet(t) ==
  LET q == que["deduplicate"][qid(t)]
  IN  /\ dedup[t].at = "get" /\ q # <<>>
      /\ dedup' = [dedup EXCEPT ![t] = [at |-> "work", chunk |-> Head(q)]]
      /\ que' = [que EXCEPT !["deduplicate"][qid(t)] = Tail(q)]
      /\ UNCHANGED <<input, terminated, sent, refine, compress, cache, state,
                     writer>>

\* sub_Deduplicate: search and insert under the lock of the hash bucket.  The
\* chunk that finds no entry becomes the original and goes to compression.
sub_Deduplicate(t) ==
  LET c == dedup[t].chunk
  IN  /\ dedup[t].at = "work"
      /\ IF cache[sum(c)] = None
         THEN /\ cache' = [cache EXCEPT ![sum(c)] = c]
              /\ dedup' = [dedup EXCEPT ![t].at = "compress"]
         ELSE /\ dedup' = [dedup EXCEPT ![t].at = "reorder"]
              /\ UNCHANGED cache
      /\ UNCHANGED <<input, que, terminated, sent, refine, compress, state,
                     writer>>

\* queue_enqueue on the queue the chunk is routed to.
DedupSend(t) ==
  LET s == dedup[t].at
  IN  /\ s \in {"compress", "reorder"}
      /\ hasRoom(s, qid(t))
      /\ Enqueue(s, qid(t), dedup[t].chunk)
      /\ dedup' = [dedup EXCEPT ![t] = [at |-> "get", chunk |-> None]]
      /\ UNCHANGED <<input, terminated, sent, refine, compress, cache, state,
                     writer>>

\* Only the compression queue is told that this thread is done.
DedupTerminate(t) ==
  /\ dedup[t].at = "get" /\ Drained("deduplicate", qid(t))
  /\ Terminate("compress", qid(t))
  /\ dedup' = [dedup EXCEPT ![t].at = "done"]
  /\ UNCHANGED <<input, que, sent, refine, compress, cache, state, writer>>

-----------------------------------------------------------------------------
(* Compress *)

CompressGet(t) ==
  LET q == que["compress"][qid(t)]
  IN  /\ compress[t].at = "get" /\ q # <<>>
      /\ compress' = [compress EXCEPT ![t] = [at |-> "work", chunk |-> Head(q)]]
      /\ que' = [que EXCEPT !["compress"][qid(t)] = Tail(q)]
      /\ UNCHANGED <<input, terminated, sent, refine, dedup, cache, state, writer>>

\* sub_Compress under the chunk's lock; the broadcast wakes Reorder if it waits.
sub_Compress(t) ==
  /\ compress[t].at = "work"
  /\ state' = [state EXCEPT ![compress[t].chunk] = "COMPRESSED"]
  /\ compress' = [compress EXCEPT ![t].at = "send"]
  /\ UNCHANGED <<input, que, terminated, sent, refine, dedup, cache, writer>>

CompressSend(t) ==
  /\ compress[t].at = "send"
  /\ hasRoom("reorder", qid(t))
  /\ Enqueue("reorder", qid(t), compress[t].chunk)
  /\ compress' = [compress EXCEPT ![t] = [at |-> "get", chunk |-> None]]
  /\ UNCHANGED <<input, terminated, sent, refine, dedup, cache, state, writer>>

CompressTerminate(t) ==
  /\ compress[t].at = "get" /\ Drained("compress", qid(t))
  /\ Terminate("reorder", qid(t))
  /\ compress' = [compress EXCEPT ![t].at = "done"]
  /\ UNCHANGED <<input, que, sent, refine, dedup, cache, state, writer>>

-----------------------------------------------------------------------------
(* Reorder *)

\* TreeFindMin and FindMin: the chunk with the least sequence number.
FindMin(tree) == CHOOSE c \in tree : \A d \in tree : ~sequence_lt(d, c)

\* Seeded fault: only the coarse sequence number is compared.
nextIsCachedL1(tree, next) == tree # {} /\ FindMin(tree)[1] = next[1]

\* Whether the cached chunks hold the one to write next, at the front.
nextIsCached(tree, next) == tree # {} /\ FindMin(tree) = next

\* sequence_inc_l2, and sequence_inc_l1 when the coarse chunk is known to be over.
following(next) ==
  IF /\ chunks_per_anchor[next[1]] # 0
     /\ next[2] + 1 = chunks_per_anchor[next[1]]
  THEN <<next[1] + 1, 0>> ELSE <<next[1], next[2] + 1>>

\* The size of the array after the test "double if necessary".
grown(l1num) == IF l1num >= anchor_max THEN 2 * anchor_max ELSE anchor_max

\* One queue_dequeue that yields a chunk, and what is done with it: the array is
\* grown, the length of a finished coarse chunk recorded, and the chunk put
\* aside unless it is the next one.
ReorderGet ==
  LET i == reorder.qid
      c == Head(que["reorder"][i])
  IN  /\ reorder.at = "get" /\ que["reorder"][i] # <<>>
      /\ que' = [que EXCEPT !["reorder"][i] = Tail(@)]
      /\ anchor_max' = grown(c[1])
      /\ chunks_per_anchor' = IF isLastL2Chunk(c)
                              THEN [chunks_per_anchor EXCEPT ![c[1]] = c[2] + 1]
                              ELSE chunks_per_anchor
      /\ reorder' = [reorder EXCEPT
           !.qid = (i + 1) % nqueues, !.tries = 0,
           !.at = IF c = reorder.next THEN "write" ELSE "get",
           !.chunk = IF c = reorder.next THEN c ELSE None,
           !.tree = IF c = reorder.next THEN @ ELSE @ \cup {c}]
      /\ UNCHANGED <<input, terminated, sent, pools, cache, state, output>>

\* Seeded fault: the first queue that answers -1 ends the loop.
ReorderNoneFirst ==
  /\ reorder.at = "get" /\ Drained("reorder", reorder.qid)
  /\ reorder' = [reorder EXCEPT !.at = "flush"]
  /\ UNCHANGED <<input, que, terminated, sent, pools, cache, state,
                 chunks_per_anchor, anchor_max, output>>

\* A queue_dequeue that answers -1: on to the next queue; the loop ends when
\* each queue has answered so in turn.
ReorderNone ==
  /\ reorder.at = "get" /\ Drained("reorder", reorder.qid)
  /\ reorder' = [reorder EXCEPT
       !.qid = (@ + 1) % nqueues, !.tries = @ + 1,
       !.at = IF reorder.tries + 1 = nqueues THEN "flush" ELSE "get"]
  /\ UNCHANGED <<input, que, terminated, sent, pools, cache, state,
                 chunks_per_anchor, anchor_max, output>>

\* write_chunk_to_file: wait until the original is compressed; its data the
\* first time, its sum afterwards.  Then on to the cached chunk that follows.
write_chunk_to_file ==
  LET c == reorder.chunk
      original == cache[sum(c)]
      next == following(reorder.next)
      more == reorder.at = "write" /\ nextIsCached(reorder.tree, next)
  IN  /\ reorder.at \in {"write", "flushwrite"}
      /\ state[original] # "UNCOMPRESSED"
      /\ output' = Append(output,
           [type |-> IF state[original] = "COMPRESSED" THEN "COMPRESS"
                     ELSE "FINGERPRINT", sum |-> sum(original)])
      /\ state' = [state EXCEPT ![original] = "FLUSHED"]
      /\ reorder' = [reorder EXCEPT
           !.next = next,
           !.at = IF more THEN "write"
                  ELSE IF @ = "write" THEN "get" ELSE "flush",
           !.chunk = IF more THEN FindMin(reorder.tree) ELSE None,
           !.tree = IF more THEN @ \ {FindMin(@)} ELSE @]
      /\ UNCHANGED <<input, que, terminated, sent, pools, cache,
                     chunks_per_anchor, anchor_max>>

\* The final loop over chunks left aside; EXIT_TRACE on a gap in the sequence.
ReorderFlush ==
  /\ reorder.at = "flush"
  /\ IF nextIsCached(reorder.tree, reorder.next)
     THEN reorder' = [reorder EXCEPT !.at = "flushwrite",
            !.chunk = FindMin(reorder.tree), !.tree = @ \ {FindMin(@)}]
     ELSE reorder' = [reorder EXCEPT
            !.at = IF reorder.tree = {} THEN "done" ELSE "exit"]
  /\ UNCHANGED <<input, que, terminated, sent, pools, cache, state,
                 chunks_per_anchor, anchor_max, output>>

-----------------------------------------------------------------------------
Fragment == FragmentSend \/ FragmentTerminate

FragmentRefine(t) == RefineGet(t) \/ RefineSend(t) \/ RefineTerminate(t)

Deduplicate(t) ==
  DedupGet(t) \/ sub_Deduplicate(t) \/ DedupSend(t) \/ DedupTerminate(t)

Compress(t) ==
  CompressGet(t) \/ sub_Compress(t) \/ CompressSend(t) \/ CompressTerminate(t)

Reorder == ReorderGet \/ ReorderNone \/ write_chunk_to_file \/ ReorderFlush

Work ==
  \/ Fragment
  \/ \E t \in Tids : FragmentRefine(t) \/ Deduplicate(t) \/ Compress(t)
  \/ Reorder

\* Encode returns when all threads are joined.
Joined ==
  /\ sent = Len(input) + nqueues
  /\ \A t \in Tids : refine[t].at = "done" /\ dedup[t].at = "done"
                     /\ compress[t].at = "done"
  /\ reorder.at = "done"

Next == Work \/ (Joined /\ UNCHANGED vars)

Spec == Init /\ [][Next]_vars

\* As long as a thread can run, one of them does.
FairSpec == Spec /\ WF_vars(Work)

-----------------------------------------------------------------------------
(* Properties *)

\* Type correctness: no queue holds more than QUEUE_SIZE chunks, none is
\* terminated more often than it has producers, and each thread is at a known
\* point of its loop with a chunk of the file or none.
TypeOK ==
  /\ \A s \in Stages, i \in Queues :
       /\ Len(que[s][i]) <= QueueSize
       /\ terminated[s][i] \in 0 .. nProducers(s, i)
  /\ \A t \in Tids :
       /\ refine[t].at \in {"get", "done"} /\ refine[t].recv \in Seq(Coarse)
       /\ dedup[t].at \in {"get", "work", "compress", "reorder", "done"}
       /\ dedup[t].chunk \in Chunks \cup {None}
       /\ compress[t].at \in {"get", "work", "send", "done"}
       /\ compress[t].chunk \in Chunks \cup {None}
  /\ \A h \in DOMAIN cache : cache[h] \in Chunks \cup {None}
  /\ state \in [Chunks -> {"UNCOMPRESSED", "COMPRESSED", "FLUSHED"}]
  /\ reorder.at \in {"get", "write", "flush", "flushwrite", "exit", "done"}
  /\ reorder.qid \in Queues /\ reorder.tree \subseteq Chunks
  /\ chunks_per_anchor \in [Coarse -> Nat] /\ anchor_max \in Nat

\* The sums of the file's fine chunks in file order.
Stream[n \in 0 .. Len(input)] == IF n = 0 THEN <<>> ELSE Stream[n - 1] \o input[n]

\* The output can be decoded record by record: the n-th record is for the n-th
\* chunk of the file, whatever order the threads finished in, and it carries
\* the data exactly when no earlier record did.
Decodable ==
  \A n \in DOMAIN output :
    /\ n <= Len(Stream[Len(input)])
    /\ output[n].sum = Stream[Len(input)][n]
    /\ output[n].type = "FINGERPRINT" <=> \E m \in 1 .. n - 1 :
                                            output[m].sum = output[n].sum

\* When Reorder stops it has written every chunk: the thread leaves its main
\* loop with nothing put aside, and never on a sequence mismatch.
NothingLeftBehind ==
  reorder.at \in {"flush", "flushwrite", "exit", "done"} =>
    reorder.tree = {} /\ Len(output) = Len(Stream[Len(input)])

\* The threads that are about to put something in a queue.
Senders(s, i) ==
  CASE s = "refine"      -> IF sent < Len(input) THEN {"Fragment"} ELSE {}
    [] s = "deduplicate" -> {t \in Tids : qid(t) = i /\ refine[t].recv # <<>>}
    [] s = "compress"    -> {t \in Tids : qid(t) = i /\ dedup[t].at \in {"work", "compress"}}
    [] s = "reorder"     -> {t \in Tids : qid(t) = i /\
                               (dedup[t].at \in {"work", "reorder"}
                                \/ compress[t].at \in {"work", "send"})}

\* assert(!queue_isTerminated(que)) in queue_enqueue: also for Deduplicate, which
\* feeds the reorder queue without being counted among its producers.
NoSendAfterTermination ==
  \A s \in Stages, i \in Queues : isTerminated(s, i) => Senders(s, i) = {}

\* assert(state == UNCOMPRESSED) in sub_Compress, and the database holds one
\* original per sum: a chunk is compressed at most once.
CompressedOnce ==
  \A t \in Tids : compress[t].at = "work" =>
    /\ state[compress[t].chunk] = "UNCOMPRESSED"
    /\ cache[sum(compress[t].chunk)] = compress[t].chunk

\* The threads stop short of the end in two ways only, both with a full reorder
\* queue: Reorder waits in write_chunk_to_file for an original whose compression
\* is behind that queue, or in queue_dequeue on a group whose next coarse chunk
\* Fragment cannot send because the group of the full queue holds it up.
StopsOnlyOnFullQueue ==
  ~ENABLED Next =>
    \E i \in Queues :
      /\ ~hasRoom("reorder", i)
      /\ \/ reorder.at = "write"
         \/ reorder.at = "get" /\ reorder.qid # i /\ sent < Len(input)

\* The array that counts fine chunks is large enough for every coarse chunk that
\* is recorded in it: "Double size of sequence number array if necessary".
AnchorsInBounds ==
  \A c \in reorder.tree \cup ({reorder.chunk} \ {None}) :
    isLastL2Chunk(c) => c[1] < anchor_max

\* The whole file is written and Encode returns.
EncodeReturns == <>Joined
=============================================================================
