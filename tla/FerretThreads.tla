---------------------------- MODULE FerretThreads ----------------------------
(***************************************************************************)
(* ferret on pthreads (ferret/src/benchmark/ferret-pthreads.c): t_load walks *)
(* the query directory, pools of N threads segment, extract, index and rank  *)
(* the images, and t_out prints one line for each.  Between two pools is a   *)
(* bounded queue that ends when all its producers have signalled so.         *)
(*                                                                         *)
(* The queue is library code outside src/; it is modelled from its use:      *)
(* queue_init(q, depth, producers), enqueue that waits for room, dequeue     *)
(* that waits for an item and fails once there will be none.                 *)
(***************************************************************************)
EXTENDS Naturals, Sequences, FiniteSets

CONSTANTS Images,  \* how many query images there are
          N,       \* NTHREAD_SEG, _EXTRACT, _VEC and _RANK: the sixth argument
          DEPTH    \* the fifth argument

FerretAssumption == Images \in Nat /\ N \in Nat \ {0} /\ DEPTH \in Nat \ {0}

\* The pools behind t_load: t_seg, t_extract, t_vec, t_rank and t_out.  Queue s is
\* the one in front of pool s.
Pools == 1 .. 5
Out == 5
Threads(s) == IF s = Out THEN {1} ELSE 1 .. N

\* The third argument of queue_init, by which the queue knows that it has ended.
Producers(s) == IF s = 1 THEN 1 ELSE N

VARIABLES
  q,            \* per queue: its items and how many producers have signalled
  held,         \* per thread: the image it works on; 0 for none
  left,         \* the threads that have returned; <<0, 1>> is t_load
  cnt_enqueue, cnt_dequeue,
  printed       \* the images t_out has printed, in order

vars == <<q, held, left, cnt_enqueue, cnt_dequeue, printed>>

Thread == {<<0, 1>>} \cup UNION {{s} \X Threads(s) : s \in Pools}

\* main: the queues, then the pools.
Init ==
  /\ q = [s \in Pools |-> [items |-> <<>>, ended |-> 0]]
  /\ held = [t \in Thread |-> 0]
  /\ left = {}
  /\ cnt_enqueue = 0 /\ cnt_dequeue = 0
  /\ printed = <<>>

enqueue(s, x) ==
  /\ Len(q[s].items) < DEPTH
  /\ q' = [q EXCEPT ![s].items = Append(@, x)]

queue_signal_terminate(s) == q' = [q EXCEPT ![s].ended = @ + 1]

Ended(s) == q[s].items = <<>> /\ q[s].ended = Producers(s)

\* file_helper: the next image is read and counted ...
file_helper ==
  /\ held[<<0, 1>>] = 0 /\ cnt_enqueue < Images
  /\ cnt_enqueue' = cnt_enqueue + 1
  /\ held' = [held EXCEPT ![<<0, 1>>] = cnt_enqueue + 1]
  /\ UNCHANGED <<q, left, cnt_dequeue, printed>>

\* A pool thread gets its next image.
Get(s, w) ==
  /\ s # Out /\ held[<<s, w>>] = 0 /\ q[s].items # <<>>
  /\ held' = [held EXCEPT ![<<s, w>>] = Head(q[s].items)]
  /\ q' = [q EXCEPT ![s].items = Tail(@)]
  /\ UNCHANGED <<left, cnt_enqueue, cnt_dequeue, printed>>

\* What a thread has made of its image goes on, as soon as there is room.
Put(s, w) ==
  /\ s # Out /\ held[<<s, w>>] # 0
  /\ enqueue(s + 1, held[<<s, w>>])
  /\ held' = [held EXCEPT ![<<s, w>>] = 0]
  /\ UNCHANGED <<left, cnt_enqueue, cnt_dequeue, printed>>

\* Nothing more to come: the thread tells the next queue and returns.
Leave(s, w) ==
  /\ s # Out /\ <<s, w>> \notin left /\ held[<<s, w>>] = 0
  /\ IF s = 0 THEN cnt_enqueue = Images ELSE Ended(s)
  /\ queue_signal_terminate(s + 1)
  /\ left' = left \cup {<<s, w>>}
  /\ UNCHANGED <<held, cnt_enqueue, cnt_dequeue, printed>>

\* t_out prints the next result, and returns when there are no more.
t_out ==
  /\ <<Out, 1>> \notin left
  /\ \/ /\ q[Out].items # <<>>
        /\ printed' = Append(printed, Head(q[Out].items))
        /\ q' = [q EXCEPT ![Out].items = Tail(@)]
        /\ cnt_dequeue' = cnt_dequeue + 1
        /\ UNCHANGED left
     \/ /\ Ended(Out)
        /\ left' = left \cup {<<Out, 1>>}
        /\ UNCHANGED <<q, cnt_dequeue, printed>>
  /\ UNCHANGED <<held, cnt_enqueue>>

t_load == file_helper \/ Put(0, 1) \/ Leave(0, 1)

Pool(s, w) == Get(s, w) \/ Put(s, w) \/ Leave(s, w)

\* main joins the pools.
Joined == left = Thread

Next ==
  \/ t_load
  \/ \E s \in Pools : \E w \in Threads(s) : Pool(s, w)
  \/ t_out
  \/ Joined /\ UNCHANGED vars

Spec == Init /\ [][Next]_vars

FairSpec == Spec /\ WF_vars(Next)

-----------------------------------------------------------------------------
(* Properties *)

\* Type correctness.
TypeOK ==
  /\ \A s \in Pools : Len(q[s].items) <= DEPTH /\ q[s].ended \in 0 .. Producers(s)
  /\ held \in [Thread -> 0 .. Images] /\ left \subseteq Thread
  /\ cnt_enqueue \in 0 .. Images /\ cnt_dequeue = Len(printed)

\* assert(cnt_enqueue == cnt_dequeue) when t_out ends: nobody took a pause for the
\* end, so every image is printed, and once.
Matched ==
  <<Out, 1>> \in left =>
    /\ cnt_enqueue = cnt_dequeue
    /\ {printed[k] : k \in DOMAIN printed} = 1 .. Images

\* What ferret promises of its threads in any state, as one.
QueriesMatched == TypeOK /\ Matched

\* All threads return.
Returns == <>Joined
=============================================================================
