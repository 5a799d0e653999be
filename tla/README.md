# A verification of the concurrent core of P3ARSEC

P3ARSEC is the PARSEC benchmark suite rewritten with parallel patterns. Most of
its 120,000 lines are vendored packages, GPU and network back ends and floating
point; what is hard to get right, and hardly reached by running the benchmarks,
is how their threads work together. That is what is modelled here, from the
source, checked with TLC and, for most of it, proved with TLAPS:

* the **FastFlow runtime** (`src/parsec-ff/pkgs/libs/fastflow/ff`, `ff/` below):
  lock-free channels, barriers, locks, the life cycle of a thread, farms, the
  parallel loop, the macro data-flow executor, the allocator;
* **dedup** (`pkgs/kernels/dedup/src`): five stages joined by queues, on pthreads and
  in four shapes of FastFlow farms;
* **canneal, streamcluster, fluidanimate, ferret, freqmine** and the thread
  primitives of **bodytrack** and the thread pool of **vips**.

## 1. Inventory

| Part | State | Operations | Hard because | Correct when |
|---|---|---|---|---|
| `SWSR_Ptr_Buffer` (`ff/buffer.hpp`) | slots, `pread`, `pwrite` | `push`, `multipush`, `pop`, `reset`, `length` | each side decides on a slot the other is changing | an indivisible bounded FIFO |
| `uSWSR_Ptr_Buffer`, `BufferPool` (`ff/ubuffer.hpp`) | chain and cache of bounded channels | `push`, `pop`, `reset`, `length` | a channel is left by the producer and later by the consumer | a FIFO across channels, one owner each |
| `dynqueue` (`ff/dynqueue.hpp`) | linked nodes, node cache | `push`, `pop` | nodes are recycled while the other thread may reach them | a FIFO, one use per node |
| `MPMC_Ptr_Queue` (`ff/mpmc/MPMCqueues.hpp`) | slots with sequence numbers | `push`, `pop` | a thread held up between its claim and its store | one thread per slot, order of the claims |
| locks and barriers (`ff/spin-lock.hpp`, `ff/barrier.hpp`) | queue of nodes; two counters | `lock`, `unlock`, `doBarrier` | nodes change hands; a fast thread is a barrier ahead | mutual exclusion in order; nobody passes early |
| `ff_thread` (`ff/node.hpp`) | `freezing`, `frozen`, `stp` | run, freeze, thaw, wait | a thaw against a freeze | one call of `svc` loop per run asked for |
| farm (`ff/lb.hpp`, `ff/gt.hpp`, `ff/farm.hpp`) | channels, counters of put and taken tasks, turns | scheduling, gathering, ordered farm, broadcast | counters changed outside their mutex; end of stream over many channels | nobody sleeps through work; each task once, in order if ordered |
| parallel loop (`ff/parallel_for*.hpp`) | ranges per worker, shared table, shared counter | split, scheduler thread, stealing | two workers take from one range; what an earlier loop left | each index once |
| macro data-flow (`ff/mdf.hpp`, `ff/task_internals.hpp`) | task tables, ready queue, ring of messages | `AddTask`, scheduling, freezing | write after read, tasks forgotten while named | dependencies respected, run ends |
| allocator (`ff/allocator.hpp`) | segments, leak queues, table of threads | `getitem`, `putitem`, deregistration | others free and register while the owner allocates or leaves | a buffer has one user, a segment is freed once |
| dedup on pthreads (`queue.c`, `encoder.c`, `mbuffer.c`, `hashtable.c`) | ring with mutex and conditions, chunk database, reorder state, reference counts | the five stages, `Encode` | one signal per batch, duplicates overtake originals | the file can be decoded, `Encode` returns |
| dedup on FastFlow (`encoder_ff_*.cpp`) | as above, marks of the last buffer | collapsed workers, pipelines, farms | marks merged and multiplied by farms | as above, file closed once |
| canneal (`annealer_thread*.cpp`) | barrier, flags, counters | temperature step | each thread decides by itself; emitter reads counters | lockstep of all threads |
| streamcluster (`streamcluster.cpp`) | shared statics, rows of `work_mem`, `open` flag | `pspeedy`, `pgain`, `pFL`, `pkmedian` | nine barriers, flags without a generation | costs exact, threads agree |
| fluidanimate (`pthreads.cpp`) | grid, border locks | phases of a frame | cells shared by blocks | no particle, no force lost |
| ferret (`ferret-*.c*`) | queues or channels | six stages | end of stream through farms of farms | every query answered once |
| freqmine (`fp_tree.cpp`) | prefix trees, arrays of them, progress of threads | tiling, building, mining | sizes counted in another traversal, racy release | every frequent set once, with its support |
| bodytrack threads (`Condition.cpp`, `Barrier.cpp`) | tickets, generations, counters | wait, notify, barrier | tickets may be stolen, rounds overlap | no wake-up lost, rounds whole |
| vips pool (`threadpool.cc`) | `stop`, `error`, `tick`, `finish` | allocate, work, progress | stop, errors and ticks race | every unit worked on, pool freed when done |

How they meet. A FastFlow node writes into an unbounded channel, a chain of bounded
ones recycled through a pool whose linked queue recycles its nodes through a bounded
channel; buffers freed by a node go through such a channel back to their owner.
Farms and loops are threads that freeze and thaw, joined by channels. The
applications sit on top, on FastFlow or on mutexes and barriers of pthreads. In
dedup two stages are joined a second time: a duplicate names its original, whose
state `Reorder` waits on.

## 2. Modules

One module per component; "uses" says what of another component is taken as the
abstract thing that component's own module establishes.

| Module | Models | Uses |
|---|---|---|
| `BoundedFifo`, `FifoLock`, `Annealing` | abstract: a bounded queue, a fair lock, temperature steps in lockstep | |
| `SWSRBuffer`, `SWSRBuffer_proofs` | `ff/buffer.hpp` | implements `BoundedFifo` |
| `DynQueue`, `LockFree_proofs` | `ff/dynqueue.hpp` | implements `BoundedFifo` |
| `UnboundedBuffer`, proofs in `SWSRBuffer_proofs` | `ff/ubuffer.hpp` | channels and pool queues as FIFOs |
| `MPMCQueue`, `LockFree_proofs` | `ff/mpmc/MPMCqueues.hpp`, the bounded queue | |
| `CLHLock`, `LockFree_proofs` | `ff/spin-lock.hpp` | implements `FifoLock` |
| `SpinBarrier`, `LockFree_proofs` | `ff/barrier.hpp` and the loop around it | |
| `FFThread`, proofs in `Freezing_proofs` | life cycle in `ff/node.hpp` | |
| `BlockingFarm`, proofs in `Farms_proofs` | `ff/lb.hpp`, `ff/node.hpp` in blocking mode | channels as bounded FIFOs |
| `OrderedFarm`, `Freezing_proofs` | `ff/farm.hpp`, the ordered farm with freezes | implements `BoundedFifo`; frozen threads as `FFThread` leaves them |
| `ParallelFor` | `ff/parallel_for_internals.hpp` | |
| `MacroDataflow` | `ff/mdf.hpp`, `ff/task_internals.hpp` | |
| `SlabCache`, `SlabCache_proofs` | `ff/allocator.hpp`, one cache | leak queues as FIFOs; a run ends where an unset table entry is followed |
| `DedupQueue`, `DedupQueue_proofs` | `queue.c`, `queue.h` and the loops that call it | |
| `DedupPipeline`, `MCDedupPipeline` | `encoder.c`, `dedupdef.h` | queues as `DedupQueue` has them |
| `DedupFarms` | `encoder_ff_farm`, `_ofarm`, `_farmofpipes`, `_pipeoffarms` | farms on unbounded FIFOs |
| `MBuffer`, `MBuffer_proofs` | `mbuffer.c` | |
| `CannealThreads`; `CannealFarm`, both proved about in `Farms_proofs` | `annealer_thread.cpp`, `annealer_thread_ff.cpp` | both implement `Annealing` |
| `StreamSpeedy`, `StreamGain`, `StreamMedian` | `pspeedy`; `pgain`; the search around them in `streamcluster.cpp` | `StreamMedian` takes the calls of the other two as one step per thread between barriers |
| `FluidGrid` | fluidanimate's `pthreads.cpp` | |
| `FerretThreads`, `FerretFarms`, proofs in `Farms_proofs` | `ferret-pthreads.c`; `ferret-ff-farm`, `-farmofpipes`, `-pipeoffarms` | |
| `FPGrowth`, `FreqMine` | trees and arrays of `fp_tree.cpp`; its parallel loops | `FreqMine` extends `FPGrowth` |
| `Condition`, `BodyBarrier`, both proved about in `Apps_proofs` | bodytrack's `Condition.cpp`; `Barrier.cpp` | `BodyBarrier`: its condition as tickets |
| `VipsPool`, proofs in `Apps_proofs` | `threadpool.cc`, pthreads and FastFlow | |

**Instances.** `MCRuntime`, `MCTasks`, `MCDedup`, `MCKernels` and `MCApps` each hold
several components side by side. They do not interact: the variable `on`, chosen in
`Init`, names the one that runs and all others stay as they begin, so such a run
explores the sum and not the product of their states. Each EXTENDS one component,
which has its constants in the `.cfg` (`OrderedFarm`, `SlabCache`, `MBuffer`,
`CannealFarm`, `Condition`, those with theorems that state a property of the run); the others are
named instances. The properties of an extended component (`FrozenFarmIsEmpty`, `BuffersReturn`,
`BuffersSafe`, `JudgedAtRest`, `ImplementsAnnealing`, `WakeupsReachWaiters`) are checked under their own names;
the other properties are conjunctions of the properties of the same kind of the instances.

**How state and actions correspond to the code.** Variables and actions have the names
of fields and functions. Where threads share memory without a lock, an action is one
access to it (`SWSRBuffer`, `DynQueue`, `UnboundedBuffer`, `MPMCQueue`, `CLHLock`,
`SpinBarrier`, `FFThread`, the stealing loop of `ParallelFor`, `SlabCache`, the release in
`FreqMine`, the additions without a lock in `FluidGrid`). Where there is a mutex, an
action is what happens between lock and unlock or wait; a condition variable is the set
of its sleepers, who may also wake for no reason. Between two barriers, where a thread
touches only its own data, a phase is one action. Memory is sequentially consistent.

* `SWSRBuffer`: `push` and `multipush` test a slot, `StoreSlot` writes one (the batch
  from its end), `AdvanceWrite` moves `pwrite`; `ClearSlot` and `AdvanceRead` are the two
  writes of `inc`.
* `BlockingFarm`: the emitter's counter is raised outside its mutex after the worker's,
  as in `put_done`; the counters have a modulus, as unsigned ones do.
* `ParallelFor`: a worker reads start, end and the shared `maxid` in steps of their own
  and takes with a compare-and-swap; `jump`, `data` and `maxid` keep what an earlier loop left.
* `MacroDataflow`: the ring of messages, the bounded channel, the scheduler's tables and
  workers; a task names a datum at most once as OUTPUT and not as INPUT after that.
* `DedupPipeline`, `DedupFarms`: a file is a sequence of coarse chunks, each a sequence
  of sums. Where Rabin fingerprints cut and what SHA1 and compression compute is data. In
  `DedupFarms` a collector takes from any worker that has something, which includes the
  round-robin order of the code; `POFCollector` and the emitter behind it are one step.
* `StreamGain`: points on a line, distances as small integers; `StreamMedian` lets
  gains come out as they may. `FluidGrid`: all particles in touching cells are near, and a
  particle moves at most one cell per frame (the time step is chosen so).
* `FPGrowth`: a tree is the sequence of the root's children in the order of the sibling
  pointers; `insert`, the writing of the array, conditional trees and the recursion follow
  the code's loops, including what it counts beforehand (`dataNum`, `hotNum`, `sumntype`).
  `FreqMine`'s garbage: `temp` is not initialised in the second scan
  (`fp_tree.cpp:1108`), so both outcomes are explored for sets outside the fast table.

Definitions commented "Seeded fault" are no part of any specification. Each is a
plausible mistake in the definition after it; put in its place, TLC reports the property
it is listed with in `PROJECT.json`.

## 3. Runs

| Run | Shows | Bounds, and why they are enough |
|---|---|---|
| `swsr_buffer` | slots agree with the queue inside every operation, nothing is overwritten, refinement of `BoundedFifo`, a refused producer is accepted later | 3 slots, batches up to 3, 2 values: a batch wraps, meets a full buffer, finds only its last slot free |
| `dedup_queue` | every item once and in order per producer, signals suffice, -1 is final, assertions of `queue.c`, all threads end | 2 producers with 3 items, 2 consumers, queue 2, rings 2 and 1: batches are cut short, both conditions have two sleepers |
| `runtime` | `QueuesHoldItems`, `SpinningIsSafe`, `RunsAndRests`, `NobodySleepsThrough`, `FrozenFarmIsEmpty`, `InArrivalOrder` (refinements), `NobodyHangs` | linked queue with a node cache of 1; channels of 2 and 8 items: the chain grows to four and shrinks; 3 lockers; 4 loops of 2 workers at one barrier; 4 runs of a thread; farm of 2 workers with channels of 1; ordered farm of 3, frozen once; 3 threads on a queue of 2 that wraps |
| `tasks` | `LoopExactlyOnce`, `DataFlowRespected`, `BuffersReturn`, `TasksEnd` | all loops of 1 to 12 iterations, steps 1 to 3, chunks 0 to 3, 1 to 3 workers; two loops in a row; all programs of 3 tasks over 2 data and four longer ones; 3 threads, segments of 2, 3 allocations: the queues are read, a segment is made, the owner leaves at every point |
| `dedup` | `OutputDecodable`, `ShutDownInOrder`, `FarmedOutputDecodable`, `BuffersSafe`, `EncodeReturns` | one and two groups of threads, queues of 1, duplicates inside and across coarse chunks; files that fill queues; 2 workers in each shape of farm, also an empty file; 4 structs on 2 blocks of 3 bytes |
| `kernels` | `JudgedAtRest`, `CostsAreExact`, `SearchesAgree`, `FluidExact`, `QueriesMatched`, `MiningIsExact`, `ImplementsAnnealing` and `AnnealsInLockstep` (refinements), `KernelsEnd` | 3 annealing threads, 2 or 3 temperature steps; 2 and 3 threads over 4 points; 3 particles in 3 cells, two frames; 3 queries, 2 threads per stage, queues of 1; freqmine below |
| `apps` | `WakeupsReachWaiters`, `RoundsAreWhole`, `RunIsComplete`, `WaitsEnd` | 3 threads with 3 calls on a condition, of pthreads and of Windows; 4 threads in rounds of 3; 3 workers on 3 units, and 2 workers where every callback may fail |
| `unbounded_length`, `dedup_anchors`, `canneal_converge`, `vips_lost_error`, `fluid_walls` | **violations**, section 5 | |

freqmine is checked twice: two threads on files of up to three chunks (the threads share
the loops in every way; seven items reach the last of the three item types), and one thread on
files of four transactions over up to five items with support 2 (hot sets of two, several groups,
single paths, all three item types). The types hold 2, 4 and 8 items here instead of
2^8, 2^16, 2^32, so that a tree crosses from one to the next.

All bounds are CONSTANTS (`MaxPush`, `MaxGets`, `MaxTicks`, `MaxSteps`, `MaxSpeedy`, `MaxGains`,
`MaxRuns`, `MaxLoops`) that limit how often something is asked for; where one cuts a run
off, its liveness property does not count what was cut.

Deadlock is checked in `swsr_buffer`, `dedup_queue` and `tasks`. Elsewhere systems
really stop: users have no calls left, a farm stays frozen after its last run, kernels end,
and in `dedup` the encoder may stop on a full queue. That last is a property: with
`QUEUE_SIZE` of a million it takes a million chunks behind an uncompressed original,
or one group of threads far ahead of another, and `ShutDownInOrder` says that it happens in no
other way. No document of the repository contradicts it.

**Fairness.** Weak fairness per thread: threads of FastFlow poll, and mutexes are held for a
bounded time. Strong fairness where the code retries: the owner of an `FFThread` (it waits on
a condition the thread keeps signalling), the compare-and-swap of a stealing worker in
`ParallelFor` (somebody else's success is bounded by the indices left), and a waiter of
bodytrack that may leave and must get the mutex for it. `MCDedup` and the finite instances of
fluidanimate and ferret only need that some thread goes on while any can. `StreamGain`,
`FreqMine`, `SlabCache`, `DynQueue` and `MPMCQueue` are checked for safety only. In
`swsr_buffer` the producer's fairness is for single pushes, as a node makes them.

## 4. Proofs

For every value of the constants, from the assumptions named. What is proved here TLC also
checks on the run of its component, within the bounds of section 3.

* `SWSRBuffer_proofs`: `TypeCorrect`, `SlotsCorrect`, `LengthCorrect`, `NeverOverwrites`,
  `Refinement`, from `Size > 0`, `MaxBatch > 0`, `NULL` not an item and a line end inside the
  array. The invariant is `TypeOK /\ SlotsHoldQueue /\ InsideOperation`. `SlotsHoldQueue` alone
  is not inductive: a store could hit a used slot unless the producer knows, from the one slot
  it tested, that its batch fits, and clearing a slot removes the oldest item only if the
  pointer read is still that item. One slot is enough because free slots are contiguous:
  if the last slot of the batch is free so are all before it. Four lemmas about circular
  indices carry the argument.
  Of the unbounded channel, in the second part: `ChannelsInOrder` (`ChainHoldsQueue`),
  `OneOwnerEach` (`OneOwner`), `MissesTrue` (`TruthfulMiss`), joined in `ChainHoldsItems`, for any number of slots, any cache and
  any bound on the items, with the two ends and `reset` interleaved. What makes them inductive:
  a channel in the middle of the chain is not empty (`MiddleFull`), the last is not while the producer
  fetches another, and has room when the producer comes to write (`Writing`); and the consumer gives
  back only a channel that is empty and that the producer has left, behind which is one that is empty only
  if it is the last (`Reading`). The second `empty()` of `pop` is what `Reading` rests on. That `malloc`
  finds a channel in the model is counted: those behind the first hold different items (`RoomForChannel`).
* `DedupQueue_proofs`: `TypeCorrect`, `NoLostWakeup`, `TerminationIsFinal`,
  `AssertionsNeverFail`, `AllDelivered`, for any finite non-empty sets of threads and any sizes.
  The invariant adds that `nTerminated` counts the producers that are done and what a thread
  inside a call knows of its ring. `SignalEffect` says what one
  signal does; the thread that signals is awake itself and carries the duty to go on when it
  wakes nobody. `AllDelivered` (the property `ItemsDelivered`) rests on `Delivery`: every item made
  is in one place, and along the way of a producer's items, from its ring through the
  queue to a consumer, their numbers ascend.
* `Freezing_proofs`, first part: `FrozenFarm` (the property `FrozenFarmIsEmpty`) and its parts, for any
  number of workers, tasks and runs, any length of the channels and whichever workers are woken. The
  invariant follows each worker's lane, from the emitter's channel through its hands to the collector's:
  it holds every `n`-th task, from the one that is due at the collector's turn to the last the emitter
  dealt, and then the end of the stream (`Holds`). The ends that the collector has met are those of the
  workers before its turn, so that it skips none that still owes a result. A thaw that leaves the worker
  whose turn it is asleep gives a run in which the collector waits for that worker for ever (`StuckRun`):
  nothing comes out in the wrong order, but nothing more comes out (section 5, `farm.hpp:1536`).
  `OneQueue` and `AllWorkersAwake` (`ImplementsFifo`, one part of `InArrivalOrder`): the ordered farm refines
  `BoundedFifo` in every behaviour in which the worker that has the turn is awake (`TurnIsAwake`), hence
  always when the owner wakes all workers. In a `StuckRun` the refinement is false, as the tasks sent to workers
  that are awake do not follow on the one that is due. The tasks inside are as many as sent and not yet
  given out (`Counted`), and are numbered after the last result (`InFlightIsNext`); there is room for
  one more because the emitter's victim has room and no lane is longer than it by more than one.
  Second part, the thread of a node: `FreezeIsSafe` (`RunsAndRests` of `FFThread`) and its parts, for any number
  of runs. `Due` is the strengthening: as long as the thread lives, the runs asked for are those
  done, plus the one it is in, plus one for a thaw it has not seen, which is what makes
  `freezing = 2` a counter of at most one. Beyond the types it assumes `OneAtATime`: a thaw comes early only
  to nodes that never answer `EOS_NOFREEZE`. Without it the property is false, section 5.
* `MBuffer_proofs`: `AlwaysSafe` (the property `BuffersSafe`), for any finite set of structs, any control
  blocks and sizes. Inductive as it stands; the work is in counting the structs that refer
  to a block across a step.
* `Farms_proofs`: `JudgesAtRest` (the property `JudgedAtRest`) and `Refinement` of `Annealing`
  (`ImplementsAnnealing`), for any number of workers, moves and steps, whether their number is fixed
  or the design converges. The invariant says for each place the emitter is in what every worker
  is doing (resting, working, answered, leaving) and that `tasksRcvd` is the number
  that have answered; that the emitter reads the counters at rest follows from the count alone.
  `ThreadsDoTheirSteps` (`AsManySteps`) and `ThreadsInLockstep` (`ImplementsAnnealing`) of
  `CannealThreads`, for any finite set of threads that do a fixed number of steps; while they converge
  threads do not all end after the same step (section 5). The invariant: all threads have left the
  same number of barriers.
  `ThreadsMatch` and `FarmsMatch` (`QueriesMatched` of `FerretThreads` and `FerretFarms`), for any
  number of images, threads of a stage, slots of a queue and workers, and for each of the three shapes. The invariant of
  both is that the images loaded so far are 1 to `cnt_enqueue`, each in exactly one place (`Whole`): a
  queue, a thread's hands, or printed; two lemmas, for a new image and for one
  that moves (`WholeAdded`, `WholeMoved`), serve every action, and when all places but the last are empty, that one
  holds them all (`WholeIn`). That they are empty when the last stage ends is the other half. On pthreads the ends
  counted at a queue are the threads of the stage before that have left, who leave
  holding nothing, and a thread leaves only when its own queue is empty and all are counted. In the
  farms the end of the stream is the last message of a channel, a node that passed it
  on reads no more, and an emitter or the collector leaves when it has seen one from each of its workers.
  `NobodySleeps` (`NobodySleepsThrough` of `BlockingFarm`), for any number of workers and tasks, any
  length of the channels, the ordered farm and the other, counters that wrap included. `BlkCounts`
  writes each counter as what it counts (`Load`, `Due`) modulo its width, so that every one of its
  steps changes both by the same; that it is nowhere below minus one (`DueBounds`) makes the comparisons with
  zero and with the size mean what they say. `BlkSleep` keeps the reason for which a thread went to
  sleep: an emitter, a channel's worth of tasks that are out, which is what `MustWake` asks the
  one who ends a task. For the end, `Whole` again: with tasks in the order of sending (`Flip`) those dealt are
  in one place each, and the end of the stream is the last a worker gets (`BlkEos`), which is why a worker
  holds at most `NTasks` before it. In the ordered farm the `i`-th task at worker `w` is `Turn(w, i)`, and the
  next turns of all workers are the next `Running` tasks, of different remainders (`BlkTurn`, `Turns`).
* `SlabCache_proofs`: `BuffersComeBack` (the property `BuffersReturn`), for any threads the table has
  room for, any length of a segment and any number of calls. One statement (line 700) raises the size of
  the table and stores the entry; the model takes the two in either order, and ends when a reader without
  the lock follows an entry that counts and is not stored. So the theorem speaks of the time until then, and
  says that it comes only while another thread is between the two (`CrashesInRegister`). The
  invariant: no buffer is in two places
  (`Disjoint`, `Carried`); until the owner deregisters what was handed out is exactly what is
  with users and in queues (`Handed`), from which the counts of the segments are exact; the size and the
  stored entries differ by at most one, the one of the thread with the lock (`Entries`); and behind the
  owner's walk through the table a queue holds at most what a thread that was inside `putitem` then still
  pushes (`Behind`). `RoomAssumption` is what makes the model one of the code: its table does not move.
* `LockFree_proofs`, the queue of many producers and consumers, the lock, the spinning barrier and
  the linked queue, each from its own specification:
  `TypeCorrect`, `SlotsClaimedOnce`, `ItemsInClaimOrder`, `RefusalsTrue` of `MPMCQueue`, joined in `SlotsHoldItems`, for any
  threads and any number of slots above one (with one slot the sequence number of a stored
  item and of the next free slot coincide). The invariant says what the sequence number of a slot
  means: the item of that position is there (`Stored`), the lap before has been taken (`Freed`),
  it is not behind the claims (`NotBehind`); and that it waits for the thread that claimed the
  slot (`Holding`). A claim succeeds only if the counter still is what was read, and then the
  slot still is as it was seen (`Trying`), although other threads worked between. Of the
  arithmetic three facts are needed: positions less than a lap apart differ in their slots, a lap later
  the slot is the same, and a slot is in the array.
  `LockTypes`, `Exclusion`, `NodesPrivate`, `LockInOrder` (the refinement of `FifoLock`) of
  `CLHLock`, for any finite set of threads. The invariant is the queue no field holds: the threads
  between their swap and their unlock are in line, each spinning on the node of the one before;
  every node has one owner but the one in front, which is clear and has none. Mutual exclusion is
  not inductive without the last part, as a thread takes its predecessor's node over when it unlocks.
  `LockIsSafe` (`SpinningIsSafe`) joins the two.
  `LoopsApart` (`Together`) and `TwoCountersEnough` (`OneBehind`) of `SpinBarrier`, for any
  number of workers, the same in all loops (`OneSize`; otherwise they are false, section 5). The
  invariant follows the current counter through a loop: it counts who came (`Gathering`), it is full and one
  thread knows that it was the last (`Complete`), it is zero and all may leave (`Open`), while the
  other counter is zero all the time, so that those still spinning there leave too. What keeps the rounds apart is
  that the caller, who starts the next loop, leaves this one only in `Open`.
  `LinksHoldQueue` (`ListHoldsQueue`), `NodesHaveOneUse` (`OneUse`), joined in `LinksHoldItems`, and `QueueInOrder`
  (the refinement of `BoundedFifo`) of `DynQueue`, for any cache and any bound on the items. The history `list` names the
  linked nodes; that the links follow it, and no node is in two of list, cache and hands, is
  inductive once a filled node has room (`Pushing`) and what `pop` read is still the oldest item (`Popping`).
  That `malloc` finds a node in the model is counted: fewer nodes are live than there are (`RoomForNode`).
* `Apps_proofs`: `NoTicketLost` (the property `WakeupsReachWaiters`), for any finite set of
  threads and any number of calls, with and without `NotifyOne`, on pthreads and on a Windows
  event. The invariant adds that no waiter is ahead of `genCounter`, and that, with `NotifyAll` alone,
  every waiter that was notified is one that `NotifyAll` promised to wake: the tickets are theirs.
  `OneReturnsTrue` (`OneMaster`), `NobodyReturnsEarly` (`NobodyEarly`) and `RoundsAreFull`
  (`RoundSize`) of `BodyBarrier`, for any finite set of threads, more than make a round too, from
  `BarrierAssumption`. The invariant: each condition has as many
  tickets as threads that were notified (`Ticketed`), and the barrier either fills or empties.
  While it fills (`Filling`) every sleeper is of this round and whoever waits for the reset has been told; while
  it empties (`Emptying`) the sleepers have been told, and of those who wait for the reset nobody of
  this round has, so that no ticket of a `NotifyAll` goes to a thread of another round. `Past` says what is left of a
  round that is over: with those still to return it has one `TRUE` and `n - 1` times `FALSE`.
  `RoundsWhole` (`RoundsAreWhole`) joins them to the types, for which the calls made and to be made are counted.
  `PoolRunsComplete` (`RunIsComplete`) of `VipsPool` and its parts (`PoolTyped`, `PoolFreesLast`,
  `PoolWorksAll`, `PoolProgressForUnits`, `PoolProgressForAll`), for any finite set of workers, any
  units and any bound on the calls of progress, on pthreads and with FastFlow. The invariant accounts for every
  unit as still to be allocated, in a worker's hands or worked on, one being lost only to an error (`Accounted`);
  a worker leaves only after `stop`, when nothing is left to allocate, or an error (`Stopping`); and before `stop` every
  tick, made, to be taken or answered, stands for a unit (`Answered`, `AnsweredAll`).

Only model-checked, and why:

* all liveness: out of the prover's reach;
* `FPGrowth` and `FreqMine`, recursive over trees, which the prover cannot follow; and whatever is
  computed by a fold over data of any length (`OutputDecodable`, `CostsAreExact`, `FluidExact`);
* the components that section 2 gives no `_proofs` module. A property of `MCRuntime`, `MCKernels` or `MCApps` that is a
  conjunction over instances is proved for the components as they state it, under the same
  name: `QueuesHoldItems`, `SpinningIsSafe`, `RunsAndRests` and `NobodySleepsThrough` for all their instances, `QueriesMatched`,
  `RunIsComplete` and `RoundsAreWhole` for all theirs;
* sequential consistency, one more assumption of all proofs.

## 5. Findings

Each is a run whose counterexample is the behaviour named:

1. `unbounded_length`, `ubuffer.hpp:458`: `assert(in_use_buffers>2)` is false when the chain
   has exactly two channels; `length()` aborts in a build with assertions.
2. `dedup_anchors`, `encoder.c:1257`: one doubling of `chunks_per_anchor` is not enough when
   the first chunk to arrive is far ahead.
3. `canneal_converge`, `annealer_thread.cpp:155`: threads that decide by themselves whether the
   design has converged can leave one of them at a barrier for ever.
4. `vips_lost_error`, `threadpool.cc:565`: an error of a worker does not reach the result.
5. `fluid_walls`, `pthreads.cpp:941` of fluidanimate: cells at exactly one of the far y and z
   walls are passed over when the walls act, through an `==` in place of `||`.

The following were met while modelling; the constants or the formula given show them.

* Static grain (`parallel_for_internals.hpp:529`, `:522`, `:527`): a step other than one repeats
  and skips indices (`Loop(0, 8, 2, -2, 2)`); a start below zero ends early
  (`Loop(-8, 0, 1, -1, 2)`); the ninth such loop on one object fails the assertion at line 599
  (`Loop(0, 4, 1, -1, 2)`, nine loops). The `Grain` instance keeps to step one and starts from zero up.
* `parallel_for_internals.hpp:1043`: restarting the barrier for another number of workers
  while a worker still spins, although the comment in the line before calls that safe (`SpinBarrier`
  with `Sizes` {1, 2, 3} violates `LoopBarrierEnds`, and also `Together`: a worker that has counted
  compares with the new number, takes itself for the last and clears the counter of the new loop).
* `node.hpp:218`: a return without freezing uses up an early thaw (`FFThread` with `EarlyThaw` and
  `MaxNoFreeze` 2 violates `EachRunOnce`).
* `farm.hpp:1536`: the ordered farm thawed with a subset may send to a worker that sleeps
  (`OrderedFarm`, 3 workers, `Subsets` {2}, `Size` 1, two tasks, violates `EachRunEnds`).
* `farm.hpp:1333`: the ordered broadcast in blocking mode waits without testing again
  (`BlockingFarm`, `Ordered`, with fairness violates `AllEnd`).
* `mdf.hpp:151`: the executor run a second time reads the end of stream of the first
  (`MacroDataflow`, `Runs` 2, violates `NoEosRead`).
* `Condition.cpp:209`, `:253`: a newcomer, or a waiter after a mixture of the two
  notifications, takes another's ticket (`AllWoken` on pthreads, or with `NotifiesOne`).
* `threadpool.cc`: progress is called fewer times than there are units (`:1135`), or more in
  FastFlow (`:918`) (`ProgressOncePerUnit`); if all workers fail nobody stops the pool (`:526`); a
  failed creation hands empty slots to `vips_thread_free` (`:674`, `KillsExisting`).
* `streamcluster.cpp:1995`, `:1996`: with few points thread 0 frees `hizs` while others add it up,
  and `kfinal` is that of an earlier search (`AllPointsCounted`).
* `encoder_ff_farm.cpp:1122`: when only collapsed workers see the end of the stream, no mark
  remains and the file is left to the end of the process to be closed; `ClosedOnce` counts closings.
* fluidanimate `pthreads.cpp:735`: neighbours are only the cells of a lower index, and pairs are
  compared by address besides; with a particle outside the heads of the lists, in a cell that came
  from a pool, the addresses may be the other way round and the pair is dropped
  (`EveryPairCounted`). `FluidExact` states what holds all the same: both particles of a pair or neither.
* `fp_tree.cpp:615`: the block behind the tiling loop uses `i` where the loop uses
  `thread`, and room for `has + 1` entries is tested where `has + 2` are written. Chunks of
  5,000,000 entries are not modelled.
* `allocator.hpp:565`: `fb` and `fb_size` are read without the lock that guards them.
  `fb[entry=(int) fb_size++] = xtd` (`:700`) raises the size and stores the entry with nothing that
  orders the two for other threads, so `getfrom_fb`, `searchfb` (`:580`) and `deregisterAllocator` (`:719`,
  which asserts `fb[i]`) can follow a pointer that was never stored: `SlabCache` violates
  `EntriesStored` in eleven steps, and `BuffersReturn` says what holds until then. Beyond 32
  threads the table is moved by `realloc` under its readers, although the comment at line 687
  calls it thread safe. `RoomAssumption` keeps the model below that. A buffer freed just
  while the owner leaves stays in its queue for good (`OnlyLateStay`).
* `MPMCqueues.hpp`: "full" and "empty" may be answered behind a slow thread although
  items or room are there; `TruthfulRefusals` says what is promised.

## 6. What is left

* Proofs, in the order given at the end of section 4.
* Parts of modelled components: `mp_push`, `mp_pop`, `Lamport_Buffer` and the staging of
  `SWSR_MULTIPUSH`; scheduling on demand and by hand; multi-input and multi-output nodes;
  `BLK`/`NBLK` mode switching; `uMPMC_Ptr_Queue`, `multiSWSR_Ptr_Queue`, `MSqueue`;
  `PARFOR_MULTIPLE_TASKS_STEALING` and reductions; `delayedReclaim` and `FFAllocator`; the
  buckets of `hashtable.c`; `SerialIntegratedPipeline`.
* Exact limits of the models: ties of `CompareTask_Par` are broken by number; `CannealFarm` makes
  at least one step; integer overflow of the binomials in `Single_path` is not modelled;
  prints of freqmine's threads are one report per call; the GPU state `PENDING_DONE` of
  `tpcnode.hpp` is left out; bodytrack's mutex and reader-writer lock hand each call to pthreads.

## 7. Not modelled

blackscholes, swaptions, facesim, raytrace, x264, the arithmetic of streamcluster and ferret,
Rabin, SHA1 and compression: data or loops over independent data, whose concurrency is the
parallel loop. SkePU2, CAF, Nornir and TBB variants: the same phases on runtimes that are not
in the repository. GPU, OpenCL and distributed nodes of FastFlow: external runtimes. Vendored
packages (gsl, libjpeg, mesa, lodepng and others), examples and scripts: no logic of
the program. They are by far the larger part of the lines, which is why the map covers only a small
share of the whole. Failure of `malloc`, and an I/O error, end a program and are no actions.
