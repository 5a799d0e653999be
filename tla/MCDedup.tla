------------------------------- MODULE MCDedup -------------------------------
(****************************************************************************)
(* The encoders of dedup, on pthreads and on FastFlow, and their memory buffers on *)
(* small instances.  They do not meet: a behaviour runs one of them.  The     *)
(* buffers are those of MBuffer itself, with its constants in the           *)
(* configuration.                                                           *)
(****************************************************************************)
EXTENDS MBuffer, Sequences

VARIABLES
  on,  \* the key of the instance that runs
  \* DedupPipeline
  ded_input, ded_que, ded_terminated, ded_sent, ded_refine, ded_dedup,
  ded_compress, ded_cache, ded_state, ded_reorder, ded_chunks_per_anchor,
  ded_anchor_max, ded_output,
  \* DedupFarms
  frm_input, frm_sent, frm_nextw, frm_inq, frm_outq, frm_offline, frm_rcvd,
  frm_work, frm_cache, frm_state, frm_reorder, frm_chunks_per_anchor,
  frm_output

\* A single coarse chunk, two coarse chunks with a duplicate inside one and one
\* across the two, and three coarse chunks of which two are equal.
Files == {<<<<"a", "b", "a">>>>, <<<<"a", "a">>, <<"a">>>>,
          <<<<"a">>, <<"b">>, <<"a">>>>}

\* One coarse chunk that ends as it begins, and a file of equal chunks whose
\* second coarse chunk is much longer than the others.
LongFiles == {<<<<"a", "b", "c", "d", "a">>>>,
              <<<<"a">>, <<"a", "a", "a", "a", "a", "a", "a">>,
                <<"a">>, <<"a">>, <<"a">>, <<"a">>>>}

\* For the FastFlow encoders: a duplicate of a chunk of the next worker and one of
\* the same, no data at all, and two equal chunks.
Farmed == {<<<<"a", "b">>, <<"a">>, <<"b", "a">>>>, <<>>}
Piped == {<<<<"a", "b">>, <<"a">>>>, <<<<"a">>, <<"b">>, <<"a">>>>}
Joined == {<<<<"a">>, <<"a">>>>}

\* Two threads of each kind in one group, queues of one chunk.
Pipeline == INSTANCE DedupPipeline WITH
  Inputs <- Files, NThreads <- 2, PerQueue <- 2, QueueSize <- 1,
  MaxPerFetch <- 2, AnchorMax <- 3, input <- ded_input, que <- ded_que,
  terminated <- ded_terminated, sent <- ded_sent, refine <- ded_refine,
  dedup <- ded_dedup, compress <- ded_compress, cache <- ded_cache,
  state <- ded_state, reorder <- ded_reorder,
  chunks_per_anchor <- ded_chunks_per_anchor, anchor_max <- ded_anchor_max,
  output <- ded_output

\* Three threads of each kind: a full group and one of a single thread.
Groups == INSTANCE DedupPipeline WITH
  Inputs <- Files, NThreads <- 3, PerQueue <- 2, QueueSize <- 1,
  MaxPerFetch <- 2, AnchorMax <- 3, input <- ded_input, que <- ded_que,
  terminated <- ded_terminated, sent <- ded_sent, refine <- ded_refine,
  dedup <- ded_dedup, compress <- ded_compress, cache <- ded_cache,
  state <- ded_state, reorder <- ded_reorder,
  chunks_per_anchor <- ded_chunks_per_anchor, anchor_max <- ded_anchor_max,
  output <- ded_output

\* Files that fill the queues towards Reorder, which may stop the encoder.
FullQueues == INSTANCE DedupPipeline WITH
  Inputs <- LongFiles, NThreads <- 3, PerQueue <- 2, QueueSize <- 1,
  MaxPerFetch <- 1, AnchorMax <- 3, input <- ded_input, que <- ded_que,
  terminated <- ded_terminated, sent <- ded_sent, refine <- ded_refine,
  dedup <- ded_dedup, compress <- ded_compress, cache <- ded_cache,
  state <- ded_state, reorder <- ded_reorder,
  chunks_per_anchor <- ded_chunks_per_anchor, anchor_max <- ded_anchor_max,
  output <- ded_output

\* One farm of collapsed workers.
Farm == INSTANCE DedupFarms WITH
  Shape <- "farm", Inputs <- Farmed, NW <- 2, input <- frm_input,
  sent <- frm_sent, nextw <- frm_nextw, inq <- frm_inq, outq <- frm_outq,
  offline <- frm_offline, rcvd <- frm_rcvd, work <- frm_work,
  cache <- frm_cache, state <- frm_state, reorder <- frm_reorder,
  chunks_per_anchor <- frm_chunks_per_anchor, output <- frm_output

\* The ordered farm.
OFarm == INSTANCE DedupFarms WITH
  Shape <- "ofarm", Inputs <- Farmed, NW <- 2, input <- frm_input,
  sent <- frm_sent, nextw <- frm_nextw, inq <- frm_inq, outq <- frm_outq,
  offline <- frm_offline, rcvd <- frm_rcvd, work <- frm_work,
  cache <- frm_cache, state <- frm_state, reorder <- frm_reorder,
  chunks_per_anchor <- frm_chunks_per_anchor, output <- frm_output

\* A farm whose workers are pipelines.
FarmOfPipes == INSTANCE DedupFarms WITH
  Shape <- "farmofpipes", Inputs <- Piped, NW <- 2, input <- frm_input,
  sent <- frm_sent, nextw <- frm_nextw, inq <- frm_inq, outq <- frm_outq,
  offline <- frm_offline, rcvd <- frm_rcvd, work <- frm_work,
  cache <- frm_cache, state <- frm_state, reorder <- frm_reorder,
  chunks_per_anchor <- frm_chunks_per_anchor, output <- frm_output

\* Three farms in a row.
PipeOfFarms == INSTANCE DedupFarms WITH
  Shape <- "pipeoffarms", Inputs <- Joined, NW <- 2, input <- frm_input,
  sent <- frm_sent, nextw <- frm_nextw, inq <- frm_inq, outq <- frm_outq,
  offline <- frm_offline, rcvd <- frm_rcvd, work <- frm_work,
  cache <- frm_cache, state <- frm_state, reorder <- frm_reorder,
  chunks_per_anchor <- frm_chunks_per_anchor, output <- frm_output

ASSUME /\ Pipeline!BoundAssumption /\ Groups!BoundAssumption
       /\ FullQueues!BoundAssumption
       /\ BoundAssumption /\ HandlesAssumption
       /\ Farm!FarmsAssumption /\ OFarm!FarmsAssumption
       /\ FarmOfPipes!FarmsAssumption /\ PipeOfFarms!FarmsAssumption

dedVars == <<ded_input, ded_que, ded_terminated, ded_sent, ded_refine,
  ded_dedup, ded_compress, ded_cache, ded_state, ded_reorder,
  ded_chunks_per_anchor, ded_anchor_max, ded_output>>
frmVars == <<frm_input, frm_sent, frm_nextw, frm_inq, frm_outq, frm_offline,
  frm_rcvd, frm_work, frm_cache, frm_state, frm_reorder,
  frm_chunks_per_anchor, frm_output>>
dedupVars == <<on, dedVars, vars, frmVars>>

\* One of them is chosen; the others stay as they begin.
DedupInit ==
  /\ on \in {"pipeline", "groups", "full", "buffers", "farm", "ofarm",
           "farmofpipes", "pipeoffarms"}
  /\ IF on = "groups" THEN Groups!Init ELSE
     IF on = "full" THEN FullQueues!Init ELSE Pipeline!Init
  /\ (on \notin {"pipeline", "groups", "full"} => ded_input = <<<<"a", "b", "a">>>>)
  /\ Init
  /\ IF on = "ofarm" THEN OFarm!Init ELSE
     IF on = "farmofpipes" THEN FarmOfPipes!Init ELSE
     IF on = "pipeoffarms" THEN PipeOfFarms!Init ELSE Farm!Init
  /\ (on \notin {"farm", "ofarm", "farmofpipes", "pipeoffarms"} => frm_input = <<>>)

DedupNext ==
  \/ on = "pipeline" /\ Pipeline!Next /\ UNCHANGED <<on, vars, frmVars>>
  \/ on = "groups" /\ Groups!Next /\ UNCHANGED <<on, vars, frmVars>>
  \/ on = "full" /\ FullQueues!Next /\ UNCHANGED <<on, vars, frmVars>>
  \/ on = "buffers" /\ Next /\ UNCHANGED <<on, dedVars, frmVars>>
  \/ on = "farm" /\ Farm!Next /\ UNCHANGED <<on, dedVars, vars>>
  \/ on = "ofarm" /\ OFarm!Next /\ UNCHANGED <<on, dedVars, vars>>
  \/ on = "farmofpipes" /\ FarmOfPipes!Next /\ UNCHANGED <<on, dedVars,
       vars>>
  \/ on = "pipeoffarms" /\ PipeOfFarms!Next /\ UNCHANGED <<on, dedVars,
       vars>>

\* As long as a thread can run, one of them does.
DedupSpec ==
  /\ DedupInit /\ [][DedupNext]_dedupVars
  /\ WF_dedupVars(on \notin {"full", "buffers"} /\ DedupNext)

------------------------------------------------------------------------------
\* Whatever order the threads finish in, the records of the output are those of
\* the file in file order, a chunk's data comes with the first of its equals and
\* only there, and one thread compresses it.
OutputDecodable ==
  CASE on = "groups" -> Groups!TypeOK /\ Groups!Decodable /\ Groups!CompressedOnce
    [] on = "full" -> FullQueues!TypeOK /\ FullQueues!Decodable
    [] OTHER -> Pipeline!TypeOK /\ Pipeline!Decodable /\ Pipeline!CompressedOnce

\* The queues are shut down in order: nothing is sent to a queue that has been
\* terminated, the encoder that ends has taken every chunk out of them, and one
\* that stops has a queue towards Reorder full.
ShutDownInOrder ==
  CASE on = "groups" -> Groups!NothingLeftBehind /\ Groups!NoSendAfterTermination
    [] on = "full" -> FullQueues!StopsOnlyOnFullQueue
    [] OTHER -> Pipeline!NothingLeftBehind /\ Pipeline!NoSendAfterTermination

\* The FastFlow encoders of dedup: whatever the shape of the farms and the order the
\* workers finish in, the records of the output are those of the file in file order,
\* a chunk's data comes once and with the first of its equals, and the marks behind
\* the data let Reorder close the file once and after everything.
FarmedOutputDecodable ==
  CASE on = "farm" -> /\ Farm!TypeOK /\ Farm!Decodable /\ Farm!CompressedOnce
                      /\ Farm!ClosedOnce /\ Farm!EosIsLast
    [] on = "ofarm" -> /\ OFarm!TypeOK /\ OFarm!Decodable /\ OFarm!CompressedOnce
                       /\ OFarm!ClosedOnce /\ OFarm!EosIsLast
    [] on = "farmofpipes" -> /\ FarmOfPipes!TypeOK /\ FarmOfPipes!Decodable
                             /\ FarmOfPipes!CompressedOnce
                             /\ FarmOfPipes!ClosedOnce /\ FarmOfPipes!EosIsLast
    [] on = "pipeoffarms" -> /\ PipeOfFarms!TypeOK /\ PipeOfFarms!Decodable
                             /\ PipeOfFarms!CompressedOnce
                             /\ PipeOfFarms!ClosedOnce /\ PipeOfFarms!EosIsLast
    [] OTHER -> TRUE

Returned ==
  CASE on = "pipeline" -> Pipeline!Joined
    [] on = "groups" -> Groups!Joined
    [] on = "farm" -> Farm!Joined
    [] on = "ofarm" -> OFarm!Joined
    [] on = "farmofpipes" -> FarmOfPipes!Joined
    [] on = "pipeoffarms" -> PipeOfFarms!Joined
    [] OTHER -> TRUE

\* Encode returns on files that do not fill the queues towards Reorder, and EncodeFF
\* on all files.
EncodeReturns == <>Returned
==============================================================================
