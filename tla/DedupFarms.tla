------------------------------ MODULE DedupFarms ------------------------------
(***************************************************************************)
(* The FastFlow encoders of dedup (kernels/dedup/src/encoder_ff_*.cpp), by   *)
(* the shape of their farms:                                                 *)
(*   "farm"         one farm, a worker does the three stages in one svc      *)
(*   "ofarm"        the same in an ordered farm, whose collector only writes *)
(*   "farmofpipes"  one farm whose workers are pipelines of three nodes      *)
(*   "pipeoffarms"  a farm for each stage, joined collector to emitter       *)
(* Fragment is the emitter of the first farm and Reorder the collector of    *)
(* the last.  Besides FastFlow's EOS the encoder sends its own mark behind   *)
(* the data, a ring buffer that isLast, so that Reorder knows when to close  *)
(* the file.                                                                 *)
(*                                                                         *)
(* Channels are the unbounded queues of the default build, so that a put     *)
(* succeeds.  Ring buffers hold one chunk (GRAIN = 1), but for those that    *)
(* leave a collapsed worker.  A node takes a buffer, does at most one access *)
(* to what threads share and sends; that is one step here.                   *)
(***************************************************************************)
EXTENDS Naturals, Sequences, FiniteSets

CONSTANTS Shape,   \* which of the four encoders
          Inputs,  \* files: sequences of coarse chunks = sequences of sums
          NW       \* conf->nthreads

FarmsAssumption ==
  /\ Shape \in {"farm", "ofarm", "farmofpipes", "pipeoffarms"}
  /\ NW \in Nat \ {0}

Workers == 0 .. NW - 1
Collapsed == Shape \in {"farm", "ofarm"}
Ordered == Shape = "ofarm"

\* The nodes of a worker; 1, 2 and 3 are FragmentRefine, Deduplicate and Compress.
LastStage == IF Collapsed THEN 1 ELSE 3
Stages == 1 .. LastStage

\* The stages with a collector behind them, and those whose collector is a POFCollector.
Gathered == IF Shape = "pipeoffarms" THEN Stages ELSE {LastStage}
Joints == Gathered \ {LastStage}

VARIABLES
  input,        \* the file
  sent,         \* Fragment: buffers sent, then EOS
  nextw,        \* the round-robin index of each emitter
  inq, outq,    \* the queues in front of each node and behind each farm's worker
  offline,      \* the workers whose EOS a collector has seen
  rcvd,         \* POFCollector: buffers that were last
  work,         \* a collapsed worker inside its svc
  cache, state, \* the hash table and header.state, as in the pthreads encoder
  reorder, chunks_per_anchor, output

vars == <<input, sent, nextw, inq, outq, offline, rcvd, work, cache, state,
          reorder, chunks_per_anchor, output>>
emitters == <<sent, nextw>>
collectors == <<offline, rcvd>>
shared == <<cache, state>>
writer == <<reorder, chunks_per_anchor, output>>

Coarse == 0 .. Len(input) - 1
Chunks == {c \in Coarse \X (0 .. 9) : c[2] < Len(input[c[1] + 1])}
sum(c) == input[c[1] + 1][c[2] + 1]
isLastL2Chunk(c) == c[2] = Len(input[c[1] + 1]) - 1
None == <<>>
isDuplicate(c) == cache[sum(c)] # c

\* A ring buffer: its chunks, and whether it is marked as last or to bypass Compress.
Buffer(chunks, mark) == [chunks |-> chunks, mark |-> mark]
Eos == Buffer(<<>>, "eos")
isLast(b) == b.mark = "last"

\* The fine chunks FragmentRefine makes of a coarse chunk.
refined(b) ==
  IF b.chunks = <<>> THEN <<>>
  ELSE [i \in 1 .. Len(input[b.chunks[1] + 1]) |-> <<b.chunks[1], i - 1>>]

Init ==
  /\ input \in Inputs
  /\ sent = 0 /\ nextw = [s \in Stages |-> NW - 1]
  /\ inq = [s \in Stages |-> [w \in Workers |-> <<>>]]
  /\ outq = [s \in Gathered |-> [w \in Workers |-> <<>>]]
  /\ offline = [s \in Gathered |-> {}] /\ rcvd = [s \in Joints |-> 0]
  /\ work = [w \in Workers |-> [at |-> "get", chunks |-> <<>>, i |-> 1]]
  /\ cache = [h \in {sum(c) : c \in Chunks} |-> None]
  /\ state = [c \in Chunks |-> "UNCOMPRESSED"]
  /\ reorder = [at |-> "get", todo |-> <<>>, last |-> FALSE, chunk |-> None,
                next |-> <<0, 0>>, tree |-> {}, turn |-> 0,
                terminated_w |-> 0, closed |-> 0]
  /\ chunks_per_anchor = [l \in Coarse |-> 0]
  /\ output = <<>>

-----------------------------------------------------------------------------
(* Emitters *)

\* ff_send_out: schedule_task on the next worker in turn.
SendOut(s, b) ==
  LET w == (nextw[s] + 1) % NW
  IN  /\ nextw' = [nextw EXCEPT ![s] = w]
      /\ inq' = [inq EXCEPT ![s][w] = Append(@, b)]

\* ff_send_out_to: straight to one worker.
SendOutTo(s, b, w) ==
  /\ inq' = [inq EXCEPT ![s][w] = Append(@, b)]
  /\ UNCHANGED nextw

\* A buffer for worker 0 and an empty one for each of the others, all last.
lastFor(b, w) == IF w = 0 THEN b ELSE Buffer(<<>>, "last")

\* The buffers Fragment sends before the one it marks as last: all coarse chunks
\* but the final one, which is still in send_buf when the file ends.
Plain == IF input = <<>> THEN 0 ELSE Len(input) - 1

\* One turn of Fragment: a coarse chunk; then the last buffers, to each worker by
\* name or, in the ordered farm, in turn; then EOS for all.
Fragment ==
  LET final == Buffer(IF input = <<>> THEN <<>> ELSE <<Plain>>, "last")
      w == sent - Plain
  IN  /\ sent <= Plain + NW
      /\ sent' = sent + 1
      /\ IF sent < Plain THEN SendOut(1, Buffer(<<sent>>, ""))
         ELSE IF w < NW
              THEN IF Ordered THEN SendOut(1, lastFor(final, w))
                   ELSE SendOutTo(1, lastFor(final, w), w)
              ELSE /\ inq' = [inq EXCEPT ![1] =
                                [v \in Workers |-> Append(inq[1][v], Eos)]]
                   /\ UNCHANGED nextw
      /\ UNCHANGED <<input, outq, collectors, work, shared, writer>>

\* One svc of a POFEmitter: the last buffer and EOS go to all workers, any other
\* buffer to the next in turn.
POFEmitter(s, b) ==
  IF b = Eos \/ isLast(b)
  THEN /\ inq' = [inq EXCEPT ![s] = [w \in Workers |->
             Append(inq[s][w], IF b = Eos THEN Eos ELSE lastFor(b, w))]]
       /\ UNCHANGED nextw
  ELSE SendOut(s, b)

-----------------------------------------------------------------------------
(* Workers *)

\* The node takes its next buffer and sends bs, to the next node of its pipeline
\* or to the collector of its farm.
Pass(s, w, bs) ==
  IF s \in Gathered
  THEN /\ inq' = [inq EXCEPT ![s][w] = Tail(@)]
       /\ outq' = [outq EXCEPT ![s][w] = @ \o bs]
  ELSE /\ inq' = [inq EXCEPT ![s][w] = Tail(@), ![s + 1][w] = @ \o bs]
       /\ UNCHANGED outq

Ready(s, w) == s \in Stages /\ inq[s][w] # <<>>

\* A node passes the end of stream on and leaves.
PassEos(s, w) ==
  /\ Ready(s, w) /\ Head(inq[s][w]) = Eos
  /\ work[w].at = "get"
  /\ Pass(s, w, <<Eos>>)
  /\ UNCHANGED <<input, emitters, collectors, work, shared, writer>>

\* FragmentRefine: a buffer for each fine chunk, and an empty one that is last.
FragmentRefine(w) ==
  LET b == Head(inq[1][w])
      fine == [i \in DOMAIN refined(b) |-> Buffer(<<refined(b)[i]>>, "")]
  IN  /\ ~Collapsed /\ Ready(1, w) /\ b # Eos
      /\ Pass(1, w, fine \o (IF isLast(b) THEN <<Buffer(<<>>, "last")>> ELSE <<>>))
      /\ UNCHANGED <<input, emitters, collectors, work, shared, writer>>

\* sub_Deduplicate, under the lock of the bucket.
sub_Deduplicate(c) ==
  cache' = [cache EXCEPT ![sum(c)] = IF @ = None THEN c ELSE @]

\* What Deduplicate sends when its last buffer is done.
drained == <<Buffer(<<>>, "bypass"), Buffer(<<>>, "last")>>

\* Deduplicate: originals go to Compress, duplicates are to bypass it.
Deduplicate(w) ==
  LET b == Head(inq[2][w])
  IN  /\ ~Collapsed /\ Ready(2, w) /\ b # Eos
      /\ IF b.chunks = <<>>
         THEN /\ Pass(2, w, IF isLast(b) THEN drained ELSE <<>>)
              /\ UNCHANGED cache
         ELSE LET c == b.chunks[1]
              IN  /\ sub_Deduplicate(c)
                  /\ Pass(2, w, <<Buffer(<<c>>, IF cache'[sum(c)] = c THEN ""
                                               ELSE "bypass")>>)
      /\ UNCHANGED <<input, emitters, collectors, work, state, writer>>

\* sub_Compress, under the lock of the chunk.
sub_Compress(c) == state' = [state EXCEPT ![c] = "COMPRESSED"]

\* Compress: forwards what bypasses it.
Compress(w) ==
  LET b == Head(inq[3][w])
  IN  /\ ~Collapsed /\ Ready(3, w) /\ b # Eos
      /\ Pass(3, w, IF b.mark = "bypass" \/ b.chunks # <<>> \/ isLast(b)
                    THEN <<b>> ELSE <<>>)
      /\ IF b.mark # "bypass" /\ b.chunks # <<>> THEN sub_Compress(b.chunks[1])
         ELSE UNCHANGED state
      /\ UNCHANGED <<input, emitters, collectors, work, cache, writer>>

\* CollapsedPipeline::svc: refines the coarse chunk ...
CollapsedTake(w) ==
  LET b == Head(inq[1][w])
  IN  /\ Collapsed /\ work[w].at = "get" /\ Ready(1, w) /\ b # Eos
      /\ inq' = [inq EXCEPT ![1][w] = Tail(@)]
      /\ work' = [work EXCEPT ![w] =
                    [at |-> "dedup", chunks |-> refined(b), i |-> 1]]
      /\ UNCHANGED <<input, emitters, outq, collectors, shared, writer>>

\* ... looks its fine chunks up one by one, ...
CollapsedDeduplicate(w) ==
  /\ work[w].at = "dedup" /\ work[w].i <= Len(work[w].chunks)
  /\ sub_Deduplicate(work[w].chunks[work[w].i])
  /\ work' = [work EXCEPT ![w].i = @ + 1]
  /\ UNCHANGED <<input, emitters, inq, outq, collectors, state, writer>>

\* ... compresses those that are not duplicates, ...
CollapsedCompress(w) ==
  LET c == work[w].chunks[work[w].i]
  IN  /\ work[w].at = "compress" /\ work[w].i <= Len(work[w].chunks)
      /\ IF isDuplicate(c) THEN UNCHANGED state ELSE sub_Compress(c)
      /\ work' = [work EXCEPT ![w].i = @ + 1]
      /\ UNCHANGED <<input, emitters, inq, outq, collectors, cache, writer>>

\* ... and returns them in one new buffer, which is never marked as last.
CollapsedDone(w) ==
  /\ work[w].at \in {"dedup", "compress"} /\ work[w].i > Len(work[w].chunks)
  /\ IF work[w].at = "dedup"
     THEN /\ work' = [work EXCEPT ![w].at = "compress", ![w].i = 1]
          /\ UNCHANGED outq
     ELSE /\ work' = [work EXCEPT ![w] = [at |-> "get", chunks |-> <<>>, i |-> 1]]
          /\ outq' = [outq EXCEPT ![1][w] = Append(@, Buffer(work[w].chunks, ""))]
  /\ UNCHANGED <<input, emitters, inq, collectors, shared, writer>>

-----------------------------------------------------------------------------
(* Collectors *)

\* gather_task: any worker that is not offline and has something.  The pointer
\* that goes round has passed the others while they had nothing; the ordered
\* farm waits for the worker whose turn it is.
Gatherable(s, w) ==
  /\ s \in Gathered /\ w \notin offline[s] /\ outq[s][w] # <<>>
  /\ Ordered => w = reorder.turn

\* Seeded fault: every buffer that is last stays so.
markedEach(s) == TRUE

\* Whether the buffer that is last at this collector is the last of all workers.
markedForAll(s) == rcvd[s] + 1 = NW

\* One task of a POFCollector: only the last of the last buffers remains so; EOS
\* is sent when all workers have sent theirs.  The emitter of the next farm does
\* nothing but deal what it gets; it takes the buffer in the same step.
POFCollector(s) ==
  \E w \in Workers :
    /\ Gatherable(s, w)
    /\ outq' = [outq EXCEPT ![s][w] = Tail(@)]
    /\ LET b == Head(outq[s][w])
       IN  IF b = Eos
           THEN /\ offline' = [offline EXCEPT ![s] = @ \cup {w}]
                /\ IF offline'[s] = Workers THEN POFEmitter(s + 1, Eos)
                   ELSE UNCHANGED <<inq, nextw>>
                /\ UNCHANGED rcvd
           ELSE /\ POFEmitter(s + 1, IF isLast(b) /\ ~markedForAll(s)
                                     THEN Buffer(b.chunks, "") ELSE b)
                /\ rcvd' = IF isLast(b) THEN [rcvd EXCEPT ![s] = (@ + 1) % NW] ELSE rcvd
                /\ UNCHANGED offline
    /\ UNCHANGED <<input, sent, work, shared, writer>>

\* The next task of Reorder: a ring buffer, or the EOS of a worker.
ReorderGet ==
  \E w \in Workers :
    /\ reorder.at = "get" /\ Gatherable(LastStage, w)
    /\ outq' = [outq EXCEPT ![LastStage][w] = Tail(@)]
    /\ LET b == Head(outq[LastStage][w])
       IN  IF b = Eos
           THEN /\ offline' = [offline EXCEPT ![LastStage] = @ \cup {w}]
                /\ reorder' = [reorder EXCEPT !.turn = (w + 1) % NW, !.at =
                                 IF offline'[LastStage] = Workers THEN "done" ELSE @]
           ELSE /\ reorder' = [reorder EXCEPT !.at = "ring", !.todo = b.chunks,
                                 !.turn = (w + 1) % NW, !.last = isLast(b)]
                /\ UNCHANGED offline
    /\ UNCHANGED <<input, emitters, inq, rcvd, work, shared,
                   chunks_per_anchor, output>>

-----------------------------------------------------------------------------
(* Reorder *)

sequence_lt(a, b) == a[1] < b[1] \/ (a[1] = b[1] /\ a[2] < b[2])

\* TreeFindMin and FindMin: the cached chunk with the least sequence number.
FindMin(tree) == CHOOSE c \in tree : \A d \in tree : ~sequence_lt(d, c)

nextIsCached(tree, next) == tree # {} /\ FindMin(tree) = next

\* sequence_inc_l2, and sequence_inc_l1 when the coarse chunk is known to be over.
following(next) ==
  IF /\ chunks_per_anchor[next[1]] # 0
     /\ next[2] + 1 = chunks_per_anchor[next[1]]
  THEN <<next[1] + 1, 0>> ELSE <<next[1], next[2] + 1>>

\* One chunk of the ring buffer: the length of a finished coarse chunk is
\* recorded, and the chunk put aside unless it is the next one.  In the ordered
\* farm it is written as it comes.
ReorderTake ==
  LET c == Head(reorder.todo)
      now == Ordered \/ c = reorder.next
  IN  /\ reorder.at = "ring" /\ reorder.todo # <<>>
      /\ reorder' = [reorder EXCEPT
           !.todo = Tail(@),
           !.at = IF now THEN "write" ELSE "ring",
           !.chunk = IF now THEN c ELSE None,
           !.tree = IF now THEN @ ELSE @ \cup {c}]
      /\ chunks_per_anchor' = IF isLastL2Chunk(c) /\ ~Ordered
                              THEN [chunks_per_anchor EXCEPT ![c[1]] = c[2] + 1]
                              ELSE chunks_per_anchor
      /\ UNCHANGED <<input, emitters, inq, outq, collectors, work, shared, output>>

\* write_chunk_to_file: wait until the original is compressed; its data the first
\* time, its sum afterwards.  Then on to the cached chunk that follows.
write_chunk_to_file ==
  LET c == reorder.chunk
      original == cache[sum(c)]
      next == IF Ordered THEN reorder.next ELSE following(reorder.next)
      more == reorder.at = "write" /\ nextIsCached(reorder.tree, next)
  IN  /\ reorder.at \in {"write", "flushwrite"}
      /\ state[original] # "UNCOMPRESSED"
      /\ output' = Append(output,
           [type |-> IF state[original] = "COMPRESSED" THEN "COMPRESS"
                     ELSE "FINGERPRINT", sum |-> sum(original)])
      /\ state' = [state EXCEPT ![original] = "FLUSHED"]
      /\ reorder' = [reorder EXCEPT
           !.next = next,
           !.at = IF more THEN "write" ELSE IF @ = "write" THEN "ring" ELSE "flush",
           !.chunk = IF more THEN FindMin(reorder.tree) ELSE None,
           !.tree = IF more THEN @ \ {FindMin(@)} ELSE @]
      /\ UNCHANGED <<input, emitters, inq, outq, collectors, work, cache,
                     chunks_per_anchor>>

\* The ring buffer is empty: once NW of them were last, what is left aside is
\* flushed, at this one and at every later one.
ReorderRingDone ==
  LET n == reorder.terminated_w + (IF reorder.last THEN 1 ELSE 0)
  IN  /\ reorder.at = "ring" /\ reorder.todo = <<>>
      /\ reorder' = [reorder EXCEPT !.terminated_w = n,
                       !.at = IF n = NW /\ ~Ordered THEN "flush" ELSE "get"]
      /\ UNCHANGED <<input, emitters, inq, outq, collectors, work, shared,
                     chunks_per_anchor, output>>

\* The flush, EXIT_TRACE on a gap in the sequence, and then close(fd) and
\* free(chunks_per_anchor).
ReorderFlush ==
  /\ reorder.at = "flush"
  /\ reorder' =
       IF nextIsCached(reorder.tree, reorder.next)
       THEN [reorder EXCEPT !.at = "flushwrite", !.chunk = FindMin(reorder.tree),
                            !.tree = @ \ {FindMin(@)}]
       ELSE IF reorder.tree = {}
            THEN [reorder EXCEPT !.at = "get", !.closed = @ + 1]
            ELSE [reorder EXCEPT !.at = "exit"]
  /\ UNCHANGED <<input, emitters, inq, outq, collectors, work, shared,
                 chunks_per_anchor, output>>

-----------------------------------------------------------------------------
Node(s, w) ==
  \/ PassEos(s, w)
  \/ s = 1 /\ FragmentRefine(w)
  \/ s = 1 /\ (CollapsedTake(w) \/ CollapsedDeduplicate(w) \/ CollapsedCompress(w) \/ CollapsedDone(w))
  \/ s = 2 /\ Deduplicate(w)
  \/ s = 3 /\ Compress(w)

Reorder ==
  ReorderGet \/ ReorderTake \/ write_chunk_to_file \/ ReorderRingDone \/ ReorderFlush

\* run_and_wait_end returns when all threads have met the end of the stream.
Joined == sent > Plain + NW /\ reorder.at = "done"

Work ==
  \/ Fragment
  \/ \E s \in Joints : POFCollector(s)
  \/ \E s \in Stages, w \in Workers : Node(s, w)
  \/ Reorder

Next == Work \/ (Joined /\ UNCHANGED vars)

Spec == Init /\ [][Next]_vars

\* As long as a thread can run, one of them does.
FairSpec == Spec /\ WF_vars(Work)

-----------------------------------------------------------------------------
(* Properties *)

\* Type correctness.
TypeOK ==
  /\ nextw \in [Stages -> Workers] /\ rcvd \in [Joints -> Workers]
  /\ offline \in [Gathered -> SUBSET Workers]
  /\ state \in [Chunks -> {"UNCOMPRESSED", "COMPRESSED", "FLUSHED"}]
  /\ reorder.at \in {"get", "ring", "write", "flush", "flushwrite", "exit", "done"}
  /\ reorder.tree \subseteq Chunks /\ reorder.terminated_w \in 0 .. NW

\* The sums of the file's fine chunks in file order.
Stream[n \in 0 .. Len(input)] == IF n = 0 THEN <<>> ELSE Stream[n - 1] \o input[n]

\* The output can be decoded record by record, whatever the shape and whatever
\* order the workers finished in: the n-th record is for the n-th chunk of the
\* file, and it carries the data exactly when no earlier record did.
Decodable ==
  \A n \in DOMAIN output :
    /\ n <= Len(Stream[Len(input)])
    /\ output[n].sum = Stream[Len(input)][n]
    /\ output[n].type = "FINGERPRINT" <=> \E m \in 1 .. n - 1 :
                                            output[m].sum = output[n].sum

\* What Reorder's svc still has to come.
Coming == \E w \in Workers : \E k \in DOMAIN outq[LastStage][w] :
            outq[LastStage][w][k] # Eos

\* assert(state == UNCOMPRESSED) in sub_Compress: a chunk that goes to Compress is
\* the original of its sum, and compressed once.
CompressedOnce ==
  /\ ~Collapsed => \A w \in Workers : \A k \in DOMAIN inq[3][w] :
       LET b == inq[3][w][k]
       IN  b.mark = "" /\ b.chunks # <<>> =>
             state[b.chunks[1]] = "UNCOMPRESSED" /\ ~isDuplicate(b.chunks[1])
  /\ \A w \in Workers : work[w].at = "compress" =>
       \A k \in work[w].i .. Len(work[w].chunks) :
         ~isDuplicate(work[w].chunks[k]) => state[work[w].chunks[k]] = "UNCOMPRESSED"

\* Reorder counts one last buffer of each worker, though the marks pass through two
\* farms that merge and multiply them: when it closes the file and frees its
\* array, everything is written, nothing but EOS is still to come, and it does so
\* once.  Workers that collapse the stages drop the mark: there the end of the
\* stream finds the file open and complete.
ClosedOnce ==
  /\ reorder.closed <= 1 /\ reorder.at # "exit"
  /\ reorder.closed = 1 \/ reorder.at = "done" =>
       ~Coming /\ reorder.tree = {} /\ Len(output) = Len(Stream[Len(input)])
  /\ reorder.at = "done" => (reorder.closed = 1 <=> ~Collapsed)

\* The end of the stream is the last thing in every channel: no node leaves, and
\* no collector sends it on, while a buffer is behind.
EosIsLast ==
  \A s \in Stages, w \in Workers : \A k \in DOMAIN inq[s][w] :
    inq[s][w][k] = Eos => k = Len(inq[s][w])

\* The whole file is written and EncodeFF returns.
EncodeReturns == <>Joined
=============================================================================
