------------------------------ MODULE MCRuntime ------------------------------
(****************************************************************************)
(* The shared-memory protocols of FastFlow on small instances: the linked   *)
(* queue, the unbounded channel, the queue of many producers and consumers, the *)
(* CLH lock, the spinning barrier of the parallel loops, the freezing and   *)
(* thawing of threads, and the farms: the balancer and its workers in blocking *)
(* mode, and the ordered farm.  A behaviour runs one of them.  The ordered farm *)
(* has its own variables and constants here (its values are in the .cfg);    *)
(* the others are instances.                                                *)
(****************************************************************************)
EXTENDS OrderedFarm

VARIABLES
  on,  \* the key of the instance that runs
  \* DynQueue
  dyn_next, dyn_data, dyn_head, dyn_tail, dyn_cache, dyn_live, dyn_pcP,
  dyn_n, dyn_pcC, dyn_old, dyn_out, dyn_list, dyn_q, dyn_pushed, dyn_popped,
  \* UnboundedBuffer
  unb_cont, unb_live, unb_buf_r, unb_buf_w, unb_in_use_buffers,
  unb_fixedsize, unb_inuse, unb_bufcache, unb_pcP, unb_t, unb_regP, unb_pcC,
  unb_tmp, unb_regC, unb_sent, unb_rcvd, unb_sawEmpty, unb_answer,
  \* CLHLock
  clh_Tail_, clh_locked, clh_MyNode, clh_MyPred, clh_pc, clh_asked,
  \* SpinBarrier
  bar_barrier, bar_barArray, bar_B, bar_nw, bar_loops, bar_inbox, bar_pc,
  bar_w, bar_arrived, bar_left,
  \* BlockingFarm
  blk_q, blk_prod_counter, blk_cons_counter, blk_epc, blk_nextw, blk_cnt,
  blk_left, blk_retry, blk_wpc, blk_got,
  \* FFThread
  thr_stp, thr_freezing, thr_frozen, thr_spawned, thr_init_error, thr_locked,
  thr_pc, thr_ret, thr_owner, thr_asked, thr_runs, thr_nofreeze,
  \* MPMCQueue
  mq_seq, mq_data, mq_pwrite, mq_pread, mq_pc, mq_pos, mq_got, mq_taken,
  mq_refusedTruly

Lockers == {"t1", "t2", "t3"}

\* A cache of one node under a queue of two items: nodes are recycled, freed and
\* allocated again while the other thread is between two stores.
Dyn == INSTANCE DynQueue WITH
  Item <- {1, 2}, CacheSize <- 1, MaxLen <- 2, next <- dyn_next,
  data <- dyn_data, head <- dyn_head, tail <- dyn_tail, cache <- dyn_cache,
  live <- dyn_live, pcP <- dyn_pcP, n <- dyn_n, pcC <- dyn_pcC,
  old <- dyn_old, out <- dyn_out, list <- dyn_list, q <- dyn_q, pushed <- dyn_pushed,
  popped <- dyn_popped

\* Channels of two slots and eight items: the chain grows to four channels,
\* shrinks, recycles through a cache of one and frees what does not fit.
Unb == INSTANCE UnboundedBuffer WITH
  Size <- 2, CacheSize <- 1, MaxPush <- 8, Modulus <- 8, cont <- unb_cont,
  live <- unb_live, buf_r <- unb_buf_r, buf_w <- unb_buf_w,
  in_use_buffers <- unb_in_use_buffers, fixedsize <- unb_fixedsize,
  inuse <- unb_inuse, bufcache <- unb_bufcache, pcP <- unb_pcP, t <- unb_t,
  regP <- unb_regP, pcC <- unb_pcC, tmp <- unb_tmp, regC <- unb_regC,
  sent <- unb_sent, rcvd <- unb_rcvd, sawEmpty <- unb_sawEmpty,
  answer <- unb_answer

\* Three threads lock and unlock for ever.
Clh == INSTANCE CLHLock WITH
  Procs <- Lockers, None <- "none", Tail_ <- clh_Tail_, locked <- clh_locked,
  MyNode <- clh_MyNode, MyPred <- clh_MyPred, pc <- clh_pc,
  asked <- clh_asked

\* Four loops with the same two workers: the barrier is used again and again
\* without a set-up.
Bar == INSTANCE SpinBarrier WITH
  MaxWorkers <- 2, Sizes <- {2}, MaxLoops <- 4, _barrier <- bar_barrier,
  barArray <- bar_barArray, B <- bar_B, nw <- bar_nw, loops <- bar_loops,
  inbox <- bar_inbox, pc <- bar_pc, w <- bar_w, arrived <- bar_arrived,
  left <- bar_left

\* The thread is run, frozen, thawed, also early, and waited for.
Thr == INSTANCE FFThread WITH
  MaxRuns <- 4, MaxNoFreeze <- 0, EarlyThaw <- TRUE, stp <- thr_stp,
  freezing <- thr_freezing, frozen <- thr_frozen, spawned <- thr_spawned,
  init_error <- thr_init_error, locked <- thr_locked, pc <- thr_pc,
  ret <- thr_ret, owner <- thr_owner, asked <- thr_asked, runs <- thr_runs,
  nofreeze <- thr_nofreeze

\* This one may also go on without freezing; it is not thawed early.
Keep == INSTANCE FFThread WITH
  MaxRuns <- 4, MaxNoFreeze <- 2, EarlyThaw <- FALSE, stp <- thr_stp,
  freezing <- thr_freezing, frozen <- thr_frozen, spawned <- thr_spawned,
  init_error <- thr_init_error, locked <- thr_locked, pc <- thr_pc,
  ret <- thr_ret, owner <- thr_owner, asked <- thr_asked, runs <- thr_runs,
  nofreeze <- thr_nofreeze

\* An emitter and two workers, channels of one task.
Block == INSTANCE BlockingFarm WITH
  Running <- 2, Size <- 1, NTasks <- 4, Ordered <- FALSE, Modulus <- 8,
  q <- blk_q, prod_counter <- blk_prod_counter,
  cons_counter <- blk_cons_counter, epc <- blk_epc, nextw <- blk_nextw,
  cnt <- blk_cnt, left <- blk_left, retry <- blk_retry, wpc <- blk_wpc,
  got <- blk_got

\* The emitter of the ordered farm in blocking mode, while it is awake.
Turns == INSTANCE BlockingFarm WITH
  Running <- 2, Size <- 1, NTasks <- 4, Ordered <- TRUE, Modulus <- 8,
  q <- blk_q, prod_counter <- blk_prod_counter,
  cons_counter <- blk_cons_counter, epc <- blk_epc, nextw <- blk_nextw,
  cnt <- blk_cnt, left <- blk_left, retry <- blk_retry, wpc <- blk_wpc,
  got <- blk_got

\* Three threads that push and pop in two slots.
Mpmc == INSTANCE MPMCQueue WITH
  Threads <- Lockers, Size <- 2, MaxPush <- 3, seq <- mq_seq,
  data <- mq_data, pwrite <- mq_pwrite, pread <- mq_pread, pc <- mq_pc,
  pos <- mq_pos, got <- mq_got, taken <- mq_taken,
  refusedTruly <- mq_refusedTruly

ASSUME /\ Dyn!BoundAssumption /\ Unb!BoundAssumption /\ Clh!ProcsAssumption
       /\ Bar!SizesAssumption /\ Thr!BoundsAssumption /\ Keep!BoundsAssumption
       /\ Block!SizeAssumption /\ Turns!SizeAssumption /\ OrderedFarmAssumption
       /\ Mpmc!SizeAssumption

dynVars == <<dyn_next, dyn_data, dyn_head, dyn_tail, dyn_cache, dyn_live,
  dyn_pcP, dyn_n, dyn_pcC, dyn_old, dyn_out, dyn_list, dyn_q, dyn_pushed,
  dyn_popped>>
unbVars == <<unb_cont, unb_live, unb_buf_r, unb_buf_w, unb_in_use_buffers,
  unb_fixedsize, unb_inuse, unb_bufcache, unb_pcP, unb_t, unb_regP, unb_pcC,
  unb_tmp, unb_regC, unb_sent, unb_rcvd, unb_sawEmpty, unb_answer>>
clhVars == <<clh_Tail_, clh_locked, clh_MyNode, clh_MyPred, clh_pc, clh_asked>>
barVars == <<bar_barrier, bar_barArray, bar_B, bar_nw, bar_loops, bar_inbox,
  bar_pc, bar_w, bar_arrived, bar_left>>
blkVars == <<blk_q, blk_prod_counter, blk_cons_counter, blk_epc, blk_nextw,
  blk_cnt, blk_left, blk_retry, blk_wpc, blk_got>>
thrVars == <<thr_stp, thr_freezing, thr_frozen, thr_spawned, thr_init_error,
  thr_locked, thr_pc, thr_ret, thr_owner, thr_asked, thr_runs, thr_nofreeze>>
mqVars == <<mq_seq, mq_data, mq_pwrite, mq_pread, mq_pc, mq_pos, mq_got,
  mq_taken, mq_refusedTruly>>
runtimeVars == <<on, dynVars, unbVars, clhVars, barVars, thrVars, blkVars, vars, mqVars>>

\* One of them is chosen; the others stay as they begin.
RuntimeInit ==
  /\ on \in {"dyn", "unb", "clh", "bar", "thr", "keep", "block", "turns",
           "ordered", "mpmc"}
  /\ Dyn!Init
  /\ (on # "dyn" => dyn_cache = <<>>)
  /\ Unb!Init
  /\ (on # "unb" => ~unb_fixedsize /\ unb_bufcache = <<>>)
  /\ Clh!Init
  /\ (on # "clh" => clh_locked = [n \in Clh!Nodes |-> FALSE])
  /\ Bar!Init
  /\ (on # "bar" => bar_barArray = [n \in 0 .. 2 |-> FALSE] /\ bar_B = [c \in BOOLEAN |-> 0])
  /\ IF on = "keep" THEN Keep!Init ELSE Thr!Init
  /\ IF on = "turns" THEN Turns!Init ELSE Block!Init
  /\ Init
  /\ Mpmc!Init

RuntimeNext ==
  \/ on = "dyn" /\ Dyn!Next /\ UNCHANGED <<on, unbVars, clhVars, barVars,
       thrVars, blkVars, vars, mqVars>>
  \/ on = "unb" /\ Unb!Next /\ UNCHANGED <<on, dynVars, clhVars, barVars,
       thrVars, blkVars, vars, mqVars>>
  \/ on = "clh" /\ Clh!Next /\ UNCHANGED <<on, dynVars, unbVars, barVars,
       thrVars, blkVars, vars, mqVars>>
  \/ on = "bar" /\ Bar!Next /\ UNCHANGED <<on, dynVars, unbVars, clhVars,
       thrVars, blkVars, vars, mqVars>>
  \/ on = "thr" /\ Thr!Next /\ UNCHANGED <<on, dynVars, unbVars, clhVars,
       barVars, blkVars, vars, mqVars>>
  \/ on = "keep" /\ Keep!Next /\ UNCHANGED <<on, dynVars, unbVars, clhVars,
       barVars, blkVars, vars, mqVars>>
  \/ on = "block" /\ Block!Next /\ UNCHANGED <<on, dynVars, unbVars, clhVars,
       barVars, thrVars, vars, mqVars>>
  \/ on = "turns" /\ Turns!Next /\ UNCHANGED <<on, dynVars, unbVars, clhVars,
       barVars, thrVars, vars, mqVars>>
  \/ on = "ordered" /\ Next /\ UNCHANGED <<on, dynVars, unbVars,
       clhVars, barVars, thrVars, blkVars, mqVars>>
  \/ on = "mpmc" /\ Mpmc!Next /\ UNCHANGED <<on, dynVars, unbVars, clhVars,
       barVars, thrVars, blkVars, vars>>

\* The fairness of each instance (its own module says why).
RuntimeSpec ==
  /\ RuntimeInit /\ [][RuntimeNext]_runtimeVars
  /\ WF_unbVars(on = "unb" /\ Unb!Push) /\ WF_unbVars(on = "unb" /\ Unb!Pop)
  /\ \A p \in Lockers : WF_clhVars(on = "clh" /\ Clh!Step(p))
  /\ \A t \in Bar!Threads : WF_barVars(on = "bar" /\ Bar!Step(t))
  /\ \A i \in Bar!Workers : WF_barVars(on = "bar" /\ Bar!Work(i))
  /\ WF_thrVars((on = "thr" /\ Thr!Thread) \/ (on = "keep" /\ Keep!Thread))
  /\ SF_thrVars((on = "thr" /\ Thr!Owner) \/ (on = "keep" /\ Keep!Owner))
  /\ WF_blkVars(on = "block" /\ Block!Emitter)
  /\ \A w \in Block!Workers : WF_blkVars(on = "block" /\ Block!Worker(w))
  /\ WF_vars(on = "ordered" /\ (EmitterInit \/ Send \/ Broadcast))
  /\ WF_vars(on = "ordered" /\ (CollectorInit \/ Gather \/ GatherEos))
  /\ \A w \in Workers : WF_vars(on = "ordered" /\ (Pop(w) \/ Push(w)))
  /\ WF_vars(on = "ordered" /\ WaitFreezing)

------------------------------------------------------------------------------
\* dynqueue and uSWSR_Ptr_Buffer: whatever the two threads are in the middle of, the
\* linked nodes, or the chain of channels, hold the items in order; a node or a
\* channel has one use at a time, be it in the list, the cache, the pool or the
\* hands of one thread; and a pop that answers "empty" does so only if that was
\* true at some instant of the call.  MPMC_Ptr_Queue: between claim and hand-over a
\* slot is one thread's, and what comes out of a position is what was put there.
QueuesHoldItems == Dyn!QueuesHoldItems /\ Unb!QueuesHoldItems /\ Mpmc!QueuesHoldItems

\* dynqueue: the two unsynchronised threads implement an indivisible queue.
\* CLHSpinLock: threads swap nodes and take over one another's; still they
\* implement a lock granted in the order of the swaps.
\* farm.hpp: from outside the ordered farm is one queue; the workers, in whatever
\* order they work, and however often it is frozen and restarted, never show in the
\* order of the results.
InArrivalOrder == Dyn!ImplementsFifo /\ Clh!IsFifoLock /\ ImplementsFifo

\* Two who hold the lock, or share a node, and a barrier that lets one through
\* before all have come or gets more than one loop ahead of anybody.
SpinningIsSafe == Clh!SpinningIsSafe /\ Bar!SpinningIsSafe

\* lb.hpp, node.hpp, farm.hpp: in blocking mode nobody sleeps through his work.  The
\* counters that tell when to sleep and when to wake, one half of them changed
\* outside the mutexes, are off by what the threads are in the middle of and by no
\* more; every task reaches one worker, in order (of the ordered farm in turn), and
\* every worker one end of stream.
NobodySleepsThrough ==
  IF on = "turns" THEN Turns!NobodySleepsThrough
  ELSE on = "block" => Block!NobodySleepsThrough

\* node.hpp: when wait_freezing has returned every run asked for was done once, and
\* the thread is not inside the node's code.
RunsAndRests == IF on = "keep" THEN Keep!RunsAndRests ELSE Thr!RunsAndRests

\* Nobody waits for ever: items pushed arrive, who asks gets the lock, the loop
\* barrier opens, the owner's wait and wait_freezing return, the stream of a farm
\* ends for everybody, and so does every run of a frozen farm.
NobodyHangs ==
  /\ Unb!Delivered /\ Clh!Served /\ Bar!LoopBarrierEnds
  /\ on = "thr" => Thr!WaitReturns /\ Thr!WaitFreezingReturns
  /\ on = "keep" => Keep!WaitReturns
  /\ on = "block" => Block!AllEnd
  /\ on = "ordered" => EachRunEnds
==============================================================================
