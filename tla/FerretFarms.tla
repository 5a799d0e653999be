----------------------------- MODULE FerretFarms -----------------------------
(***************************************************************************)
(* ferret on FastFlow (ferret/src/benchmark/ferret-ff-*.cpp), by the shape   *)
(* of its farms:                                                             *)
(*   "farm"         one farm, a worker does all four stages (and loads the    *)
(*                  image, in ferret-ff-farm-optimized.cpp)                  *)
(*   "farmofpipes"  one farm whose workers are pipelines of four nodes       *)
(*   "pipeoffarms"  a farm for each stage and no collectors between them:    *)
(*                  the emitter of a farm takes its input from all workers   *)
(*                  of the farm before (setMultiInput, remove_collector)     *)
(*                                                                         *)
(* Load is the emitter of the first farm and Out the collector of the last.  *)
(* Channels are the unbounded queues of the default build.  A node takes a   *)
(* task and sends its result in one step: nothing else is shared.            *)
(***************************************************************************)
EXTENDS Naturals, Sequences, FiniteSets

CONSTANTS Shape,   \* which of the encodings
          Images,  \* how many query images there are
          NW       \* nthreads

FerretFarmsAssumption ==
  /\ Shape \in {"farm", "farmofpipes", "pipeoffarms"}
  /\ Images \in Nat /\ NW \in Nat \ {0}

Workers == 0 .. NW - 1
LastStage == IF Shape = "farm" THEN 1 ELSE 4
Stages == 1 .. LastStage

\* The stages whose workers are read by an emitter of a farm, or by Out.
Gathered == IF Shape = "pipeoffarms" THEN Stages ELSE {LastStage}

EOS == 0   \* images are numbered from 1

VARIABLES
  inq, outq,     \* the queues in front of each node and behind each farm's worker
  nextw,         \* the round-robin index of each emitter
  loading,       \* Load::svc has not returned
  nw,            \* per reader of workers: those whose EOS is still to come
  cnt_enqueue, cnt_dequeue,
  printed        \* the images Out has printed

vars == <<inq, outq, nextw, loading, nw, cnt_enqueue, cnt_dequeue, printed>>
counts == <<cnt_enqueue, cnt_dequeue, printed>>

Init ==
  /\ inq = [s \in Stages |-> [w \in Workers |-> <<>>]]
  /\ outq = [s \in Gathered |-> [w \in Workers |-> <<>>]]
  /\ nextw = [s \in Stages |-> NW - 1]
  /\ loading = TRUE
  /\ nw = [s \in Gathered |-> NW]
  /\ cnt_enqueue = 0 /\ cnt_dequeue = 0
  /\ printed = <<>>

\* schedule_task: the next worker in turn.
schedule_task(s, x) ==
  LET w == (nextw[s] + 1) % NW
  IN  /\ nextw' = [nextw EXCEPT ![s] = w]
      /\ inq' = [inq EXCEPT ![s][w] = Append(@, x)]

\* push_eos: to every worker.
push_eos(s) ==
  /\ inq' = [inq EXCEPT ![s] = [w \in Workers |-> Append(inq[s][w], EOS)]]
  /\ UNCHANGED nextw

\* Load::svc sends all images from inside one call and returns EOS.
Load ==
  /\ loading
  /\ IF cnt_enqueue < Images
     THEN /\ schedule_task(1, cnt_enqueue + 1)
          /\ cnt_enqueue' = cnt_enqueue + 1
          /\ UNCHANGED loading
     ELSE /\ push_eos(1)
          /\ loading' = FALSE
          /\ UNCHANGED cnt_enqueue
  /\ UNCHANGED <<outq, nw, cnt_dequeue, printed>>

\* Seg, Extract, Vec and Rank, or all of them in one: the result, or EOS, goes to
\* the next node of the worker or to whoever reads the farm.
Node(s, w) ==
  /\ inq[s][w] # <<>>
  /\ LET x == Head(inq[s][w])
     IN  IF s \in Gathered
         THEN /\ inq' = [inq EXCEPT ![s][w] = Tail(@)]
              /\ outq' = [outq EXCEPT ![s][w] = Append(@, x)]
         ELSE /\ inq' = [inq EXCEPT ![s][w] = Tail(@), ![s + 1][w] = Append(@, x)]
              /\ UNCHANGED outq
  /\ UNCHANGED <<nextw, nw, loading, counts>>

\* Seeded fault: the first EOS is taken for the end of the stream.
FirstEos(s) == nw[s] = NW

\* Whether the EOS just received is the last one that can come.
LastEos(s) == nw[s] = 1

\* ff_loadbalancer::svc of a farm that reads the workers of the farm before:
\* collect_task takes from any of them (the iterator has passed those that were
\* empty when it looked), EOS is counted and sent on with the last.
Emitter(s) ==
  \E w \in Workers :
    /\ s \in Gathered \ {LastStage} /\ nw[s] > 0 /\ outq[s][w] # <<>>
    /\ outq' = [outq EXCEPT ![s][w] = Tail(@)]
    /\ LET x == Head(outq[s][w])
       IN  IF x # EOS THEN schedule_task(s + 1, x) /\ UNCHANGED nw
           ELSE IF LastEos(s) THEN push_eos(s + 1) /\ nw' = [nw EXCEPT ![s] = 0]
           ELSE nw' = [nw EXCEPT ![s] = @ - 1] /\ UNCHANGED <<inq, nextw>>
    /\ UNCHANGED <<loading, counts>>

\* Out, in the collector of the last farm.
Out ==
  \E w \in Workers :
    /\ outq[LastStage][w] # <<>>
    /\ outq' = [outq EXCEPT ![LastStage][w] = Tail(@)]
    /\ LET x == Head(outq[LastStage][w])
       IN  IF x = EOS
           THEN nw' = [nw EXCEPT ![LastStage] = @ - 1] /\ UNCHANGED <<cnt_dequeue, printed>>
           ELSE /\ printed' = Append(printed, x)
                /\ cnt_dequeue' = cnt_dequeue + 1
                /\ UNCHANGED nw
    /\ UNCHANGED <<inq, nextw, loading, cnt_enqueue>>

\* run_and_wait_end returns when every thread has met its end of the stream; the
\* collector is the last of them.
Joined == nw[LastStage] = 0

Next ==
  \/ Load
  \/ \E s \in Stages, w \in Workers : Node(s, w)
  \/ \E s \in Gathered : Emitter(s)
  \/ Out
  \/ Joined /\ UNCHANGED vars

Spec == Init /\ [][Next]_vars

FairSpec == Spec /\ WF_vars(Next)

-----------------------------------------------------------------------------
(* Properties *)

\* Type correctness.
TypeOK ==
  /\ nextw \in [Stages -> Workers] /\ nw \in [Gathered -> 0 .. NW]
  /\ loading \in BOOLEAN
  /\ cnt_enqueue \in 0 .. Images /\ cnt_dequeue = Len(printed)

\* assert(cnt_enqueue == cnt_dequeue) after run_and_wait_end: when the collector has
\* seen the EOS of all its workers, every image has been printed, and once, however
\* many farms the EOS has been counted and multiplied in.
Matched ==
  Joined => /\ cnt_enqueue = cnt_dequeue
            /\ {printed[k] : k \in DOMAIN printed} = 1 .. Images

\* The end of the stream is the last thing in every channel, and comes once: no
\* node leaves with a task behind it.
EosIsLast ==
  /\ \A s \in Stages, w \in Workers : \A k \in DOMAIN inq[s][w] :
       inq[s][w][k] = EOS => k = Len(inq[s][w])
  /\ \A s \in Gathered, w \in Workers : \A k \in DOMAIN outq[s][w] :
       outq[s][w][k] = EOS => k = Len(outq[s][w])

\* What ferret promises of its farms in any state, as one.
QueriesMatched == TypeOK /\ Matched /\ EosIsLast

\* The pipeline ends.
Returns == <>Joined
=============================================================================
