------------------------------- MODULE MCApps --------------------------------
(****************************************************************************)
(* The thread primitives of two applications on small instances: bodytrack's *)
(* condition variable and barrier, and the thread pool of vips.  They do not *)
(* meet: a behaviour runs one instance.  Condition itself is the one on a    *)
(* Windows event, notified as Barrier does (constants in MCApps.cfg).        *)
(****************************************************************************)
EXTENDS Condition, Sequences

VARIABLES
  on,  \* the key of the instance that runs
  \* Condition on pthreads
  cond_nWaiting, cond_nWakeupTickets, cond_genCounter, cond_myGeneration,
  cond_signaled, cond_asleep, cond_awake, cond_calls, cond_covered,
  \* BodyBarrier
  bb_countSleep, bb_countReset, bb_cond, bb_myGeneration, bb_at, bb_master,
  bb_calls, bb_round, bb_entered, bb_returned,
  \* VipsPool
  pool_at, pool_threadError, pool_stop, pool_error, pool_tick, pool_finish,
  pool_main, pool_index, pool_result, pool_unitsLeft, pool_worked,
  pool_progressed

Meeting == Threads \cup {"t4"}

\* On a pthread condition variable.
Pthread == INSTANCE Condition WITH
  Threads <- Threads, Calls <- Calls, Generations <- FALSE, NotifiesOne <- TRUE,
  nWaiting <- cond_nWaiting, nWakeupTickets <- cond_nWakeupTickets,
  genCounter <- cond_genCounter, myGeneration <- cond_myGeneration,
  signaled <- cond_signaled, asleep <- cond_asleep, awake <- cond_awake,
  calls <- cond_calls, covered <- cond_covered

\* Rounds of three among four threads, two calls each.
Barrier == INSTANCE BodyBarrier WITH
  Threads <- Meeting, n <- 3, Calls <- 2, countSleep <- bb_countSleep,
  countReset <- bb_countReset, cond <- bb_cond,
  myGeneration <- bb_myGeneration, at <- bb_at, master <- bb_master,
  calls <- bb_calls, round <- bb_round, entered <- bb_entered,
  returned <- bb_returned

\* On pthreads; a progress call may fail.
Pool == INSTANCE VipsPool WITH
  nthr <- 3, Units <- 3, FastFlow <- FALSE, WorkFails <- FALSE,
  ProgressFails <- TRUE, CreateFails <- FALSE, MaxTicks <- 12, at <- pool_at,
  threadError <- pool_threadError, stop <- pool_stop, error <- pool_error,
  tick <- pool_tick, finish <- pool_finish, main <- pool_main,
  index <- pool_index, result <- pool_result, unitsLeft <- pool_unitsLeft,
  worked <- pool_worked, progressed <- pool_progressed

\* As a FastFlow farm; a progress call may fail.
PoolFF == INSTANCE VipsPool WITH
  nthr <- 3, Units <- 3, FastFlow <- TRUE, WorkFails <- FALSE,
  ProgressFails <- TRUE, CreateFails <- FALSE, MaxTicks <- 12, at <- pool_at,
  threadError <- pool_threadError, stop <- pool_stop, error <- pool_error,
  tick <- pool_tick, finish <- pool_finish, main <- pool_main,
  index <- pool_index, result <- pool_result, unitsLeft <- pool_unitsLeft,
  worked <- pool_worked, progressed <- pool_progressed

\* On pthreads; every callback and the creation of a worker may fail.
PoolErrors == INSTANCE VipsPool WITH
  nthr <- 2, Units <- 2, FastFlow <- FALSE, WorkFails <- TRUE,
  ProgressFails <- TRUE, CreateFails <- TRUE, MaxTicks <- 7, at <- pool_at,
  threadError <- pool_threadError, stop <- pool_stop, error <- pool_error,
  tick <- pool_tick, finish <- pool_finish, main <- pool_main,
  index <- pool_index, result <- pool_result, unitsLeft <- pool_unitsLeft,
  worked <- pool_worked, progressed <- pool_progressed

ASSUME /\ CallsAssumption /\ Pthread!CallsAssumption /\ Barrier!BarrierAssumption
       /\ Pool!PoolAssumption /\ PoolFF!PoolAssumption /\ PoolErrors!PoolAssumption

condVars == <<cond_nWaiting, cond_nWakeupTickets, cond_genCounter,
  cond_myGeneration, cond_signaled, cond_asleep, cond_awake, cond_calls,
  cond_covered>>
bbVars == <<bb_countSleep, bb_countReset, bb_cond, bb_myGeneration, bb_at,
  bb_master, bb_calls, bb_round, bb_entered, bb_returned>>
poolVars == <<pool_at, pool_threadError, pool_stop, pool_error, pool_tick,
  pool_finish, pool_main, pool_index, pool_result, pool_unitsLeft,
  pool_worked, pool_progressed>>
appsVars == <<on, vars, condVars, bbVars, poolVars>>

\* One of them is chosen; the others stay as they begin.
AppsInit ==
  /\ on \in {"pthread", "event", "barrier", "pool", "poolFF", "poolErrors"}
  /\ Init /\ Pthread!Init /\ Barrier!Init
  /\ IF on = "poolFF" THEN PoolFF!Init ELSE
     IF on = "poolErrors" THEN PoolErrors!Init ELSE Pool!Init

AppsNext ==
  \/ on = "event" /\ Next /\ UNCHANGED <<on, condVars, bbVars, poolVars>>
  \/ on = "pthread" /\ Pthread!Next /\ UNCHANGED <<on, vars, bbVars, poolVars>>
  \/ on = "barrier" /\ Barrier!Next /\ UNCHANGED <<on, vars, condVars, poolVars>>
  \/ on = "pool" /\ Pool!Next /\ UNCHANGED <<on, vars, condVars, bbVars>>
  \/ on = "poolFF" /\ PoolFF!Next /\ UNCHANGED <<on, vars, condVars, bbVars>>
  \/ on = "poolErrors" /\ PoolErrors!Next /\ UNCHANGED <<on, vars, condVars, bbVars>>

Retests(t) == on = "pthread" /\ Pthread!Retest(t)

\* A thread that may return from its wait, again and again, gets the mutex.
WakesUp(t) ==
  /\ UNCHANGED <<on, poolVars>>
  /\ \/ /\ t \in Threads /\ UNCHANGED bbVars
        /\ \/ on = "pthread" /\ Pthread!Retest(t) /\ Pthread!MayLeave(t) /\ UNCHANGED vars
           \/ on = "event" /\ Retest(t) /\ MayLeave(t) /\ UNCHANGED condVars
     \/ /\ on = "barrier" /\ UNCHANGED <<vars, condVars>>
        /\ Barrier!WakeSleeper(t) \/ Barrier!WakeEarly(t) \/ Barrier!WakeLeaver(t)

\* The fairness of each instance (its own module says why).
AppsSpec ==
  /\ AppsInit /\ [][AppsNext]_appsVars
  /\ \A t \in Threads : /\ WF_vars(on = "event" /\ Release(t))
                        /\ WF_vars(on = "event" /\ Retest(t))
                        /\ WF_condVars(Retests(t))
  /\ \A t \in Meeting : SF_appsVars(WakesUp(t))
  /\ WF_poolVars(on = "pool" /\ Pool!Main) /\ \A i \in Pool!Thr : WF_poolVars(on = "pool" /\ Pool!Worker(i))
  /\ WF_poolVars(on = "poolFF" /\ PoolFF!Main) /\ \A i \in PoolFF!Thr : WF_poolVars(on = "poolFF" /\ PoolFF!Worker(i))

------------------------------------------------------------------------------
\* bodytrack: a round of a Barrier lets exactly n threads through, none before all
\* have come, and tells one of them that it is the master; of its conditions on
\* pthreads, a ticket is there for nobody but a waiter, and none while all sleep.
RoundsAreWhole == Barrier!RoundsAreWhole /\ Pthread!WakeupsReachWaiters

\* vips: the pool is freed when all its workers are through with it, and a run
\* without an error has worked on every unit and reported progress as far as VipsPool
\* states; "once for every work unit processed" (threadpool.cc:832) is more than that,
\* and false (ProgressOncePerUnit).
RunIsComplete ==
  CASE on = "poolFF" -> PoolFF!RunIsComplete
    [] on = "poolErrors" -> PoolErrors!RunIsComplete
    [] OTHER -> Pool!RunIsComplete

\* Everybody gets on: tickets are used, NotifyAll wakes whom it must, a full
\* round leaves the barrier, and vips_threadpool_run returns.
WaitsEnd ==
  /\ on = "pthread" => Pthread!TicketsUsed
  /\ on = "event" => WokenByNotifyAll
  /\ Barrier!LeavesFullRound
  /\ on = "pool" => Pool!Returns
  /\ on = "poolFF" => PoolFF!Returns
==============================================================================
