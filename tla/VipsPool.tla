------------------------------- MODULE VipsPool -------------------------------
(***************************************************************************)
(* vips_threadpool_run of vips: workers take turns to allocate units of work *)
(* under a lock and process them in parallel; after every turn a worker      *)
(* ticks, and the main thread (the farm's collector with FastFlow) answers a *)
(* tick with a call of progress.  Ticks are a semaphore on pthreads and the  *)
(* messages to the collector with FastFlow, where farm.run_and_wait_end      *)
(* stands for the finish semaphore.  start, allocate, work and progress are  *)
(* the caller's: allocate hands out Units units and then sets stop.          *)
(***************************************************************************)
EXTENDS Integers, FiniteSets

CONSTANTS nthr, Units,
          FastFlow,       \* which vips_threadpool_run
          WorkFails,      \* start, allocate or work may return an error
          ProgressFails,  \* progress may return an error
          CreateFails,    \* a worker may not be created
          MaxTicks        \* bound on ticks that wait and on progress calls

PoolAssumption ==
    /\ nthr \in Nat \ {0} /\ Units \in Nat
    /\ FastFlow \in BOOLEAN /\ WorkFails \in BOOLEAN
    /\ ProgressFails \in BOOLEAN /\ CreateFails \in BOOLEAN
    /\ MaxTicks \in Nat /\ MaxTicks > Units + 2 * nthr

Thr == 0..(nthr - 1)

VARIABLES at,        \* where each worker is
          threadError, \* thr->error
          stop, error,  \* of the pool
          tick, finish,  \* the semaphores
          main,      \* where the main thread is
          index,     \* the worker it creates or frees
          result,    \* what vips_threadpool_run returned
          unitsLeft, worked, progressed  \* units to allocate and done, progress calls

vars == <<at, threadError, stop, error, tick, finish, main, index, result,
          unitsLeft, worked, progressed>>
counts == <<unitsLeft, worked, progressed>>

TypeOK == /\ at \in [Thr -> {"none", "top", "work", "tick", "check", "end", "done"}]
          /\ threadError \in [Thr -> BOOLEAN]
          /\ stop \in BOOLEAN /\ error \in BOOLEAN
          /\ tick \in 0..MaxTicks /\ finish \in 0..nthr
          /\ main \in {"create", "down", "progress", "check", "downn", "free",
                       "kill", "returned", "crashed"}
          /\ index \in 0..nthr /\ result \in {0, 1}
          /\ unitsLeft \in 0..Units /\ worked \in 0..Units /\ progressed \in 0..MaxTicks

Init == /\ at = [i \in Thr |-> "none"]
        /\ threadError = [i \in Thr |-> FALSE]
        /\ stop = FALSE /\ error = FALSE
        /\ tick = 0 /\ finish = 0
        /\ main = "create" /\ index = 0 /\ result = 0
        /\ unitsLeft = Units /\ worked = 0 /\ progressed = 0

Go(i, place) == at' = [at EXCEPT ![i] = place]

-----------------------------------------------------------------------------
\* A worker (vips_thread_work_unit and the loop around it).

SetsError(i) == threadError' = [threadError EXCEPT ![i] = TRUE]

\* Up to the end of the critical section: a failed worker does nothing, a
\* stopped pool allocates nothing, allocate gives a unit, sets stop or fails.
Allocate(i) ==
    /\ at[i] = "top"
    /\ \/ /\ threadError[i] \/ stop
          /\ Go(i, "tick") /\ UNCHANGED <<threadError, stop, unitsLeft>>
       \/ /\ ~threadError[i] /\ ~stop /\ unitsLeft > 0
          /\ unitsLeft' = unitsLeft - 1
          /\ Go(i, "work") /\ UNCHANGED <<threadError, stop>>
       \/ /\ ~threadError[i] /\ ~stop /\ unitsLeft = 0
          /\ stop' = TRUE
          /\ Go(i, "tick") /\ UNCHANGED <<threadError, unitsLeft>>
       \/ /\ ~threadError[i] /\ ~stop /\ WorkFails
          /\ SetsError(i)
          /\ Go(i, "tick") /\ UNCHANGED <<stop, unitsLeft>>
    /\ UNCHANGED <<error, tick, finish, main, index, result, worked, progressed>>

Work(i) ==
    /\ at[i] = "work"
    /\ \/ worked' = worked + 1 /\ UNCHANGED threadError
       \/ WorkFails /\ SetsError(i) /\ UNCHANGED worked
    /\ Go(i, "tick")
    /\ UNCHANGED <<stop, error, tick, finish, main, index, result, unitsLeft, progressed>>

\* Seeded fault: a worker that finds the pool stopped does not tick.
TickUnlessStopped(i) ==
    /\ at[i] = "tick" /\ tick < MaxTicks
    /\ tick' = IF stop THEN tick ELSE tick + 1
    /\ Go(i, "check")
    /\ UNCHANGED <<threadError, stop, error, finish, main, index, result, counts>>

\* "Always tick, even if we are stopping."
Tick(i) == /\ at[i] = "tick" /\ tick < MaxTicks
           /\ tick' = tick + 1
           /\ Go(i, "check")
           /\ UNCHANGED <<threadError, stop, error, finish, main, index, result, counts>>

Check(i) == /\ at[i] = "check"
            /\ Go(i, IF stop \/ error THEN "end" ELSE "top")
            /\ UNCHANGED <<threadError, stop, error, tick, finish, main, index, result, counts>>

\* The up of finish; with FastFlow the EOS to the collector.
Finish(i) == /\ at[i] = "end"
             /\ finish' = finish + 1
             /\ Go(i, "done")
             /\ UNCHANGED <<threadError, stop, error, tick, main, index, result, counts>>

Worker(i) == Allocate(i) \/ Work(i) \/ Tick(i) \/ Check(i) \/ Finish(i)

-----------------------------------------------------------------------------
\* The main thread.

\* vips_threadpool_create_threads: the worker runs at once on pthreads; the
\* farm starts all of them after the last.
Create ==
    /\ main = "create" /\ index < nthr
    /\ \/ /\ index' = index + 1
          /\ at' = IF ~FastFlow THEN [at EXCEPT ![index] = "top"]
                   ELSE IF index + 1 = nthr THEN [i \in Thr |-> "top"] ELSE at
          /\ main' = IF index + 1 = nthr THEN "down" ELSE "create"
       \/ /\ CreateFails
          /\ main' = "kill" /\ index' = 0
          /\ UNCHANGED at
    /\ UNCHANGED <<threadError, stop, error, tick, finish, result, counts>>

\* vips_threadpool_kill_threads after a failure: it joins the workers there
\* are (setting thr->exit, which nobody reads) and frees one that is not there.
Kill ==
    /\ main = "kill"
    /\ \/ /\ at[index] = "none" /\ main' = "crashed" /\ UNCHANGED index
       \/ /\ at[index] = "done" /\ index' = index + 1 /\ UNCHANGED main
    /\ UNCHANGED <<at, threadError, stop, error, tick, finish, result, counts>>

\* Seeded fault: progress is called without a second look at stop.
DownWithoutTest ==
    /\ ~FastFlow /\ main = "down" /\ tick > 0
    /\ tick' = tick - 1
    /\ main' = "progress"
    /\ UNCHANGED <<at, threadError, stop, error, finish, index, result, counts>>

\* im_semaphore_down, and the test before progress.
Down == /\ ~FastFlow /\ main = "down" /\ tick > 0
        /\ tick' = tick - 1
        /\ main' = IF stop \/ error THEN "downn" ELSE "progress"
        /\ UNCHANGED <<at, threadError, stop, error, finish, index, result, counts>>

Progressed == progressed' = IF progressed < MaxTicks THEN progressed + 1 ELSE MaxTicks

Progress == /\ main = "progress"
            /\ Progressed
            /\ error' \in {error, error \/ ProgressFails}
            /\ main' = "check"
            /\ UNCHANGED <<at, threadError, stop, tick, finish, index, result, unitsLeft, worked>>

MainCheck == /\ main = "check"
             /\ main' = IF stop \/ error THEN "downn" ELSE "down"
             /\ UNCHANGED <<at, threadError, stop, error, tick, finish, index, result, counts>>

\* Collector::svc: every message is a tick, stop or not.
Collect == /\ FastFlow /\ main = "down" /\ tick > 0
           /\ tick' = tick - 1
           /\ Progressed
           /\ error' \in {error, error \/ ProgressFails}
           /\ UNCHANGED <<at, threadError, stop, finish, main, index, result, unitsLeft, worked>>

\* im_semaphore_downn, or the end of the farm.
Downn == /\ finish = nthr
         /\ main = "downn" \/ (FastFlow /\ main = "down" /\ tick = 0)
         /\ finish' = 0
         /\ result' = IF error THEN 1 ELSE 0
         /\ main' = "free" /\ index' = 0
         /\ UNCHANGED <<at, threadError, stop, error, tick, counts>>

\* vips_threadpool_free: joins each worker (pthreads), frees its state.
Free == /\ main = "free"
        /\ IF index = nthr
           THEN main' = "returned" /\ UNCHANGED index
           ELSE /\ FastFlow \/ at[index] = "done"
                /\ index' = index + 1 /\ UNCHANGED main
        /\ UNCHANGED <<at, threadError, stop, error, tick, finish, result, counts>>

Main == Create \/ Kill \/ Down \/ Progress \/ MainCheck \/ Collect \/ Downn \/ Free

Next == Main \/ \E i \in Thr : Worker(i)

Fairness == WF_vars(Main) /\ \A i \in Thr : WF_vars(Worker(i))

Spec == Init /\ [][Next]_vars /\ Fairness

-----------------------------------------------------------------------------
Clean == \A i \in Thr : ~threadError[i]

\* A worker's state is freed when the worker will never use it again.
FreedWhenDone ==
    main \in {"free", "returned"} => \A i \in Thr : at[i] = "done"

\* When the run says it succeeded, and no callback failed, every unit was
\* allocated and worked: the worker that sets stop does not cut off a unit
\* another one still has.
AllWorked ==
    (main = "returned" /\ result = 0 /\ Clean) => worked = Units

\* On pthreads progress is called for units that were processed: ticks of
\* turns without a unit come after stop, which the main thread looks at first.
ProgressForUnits == Clean => progressed <= worked

\* With FastFlow no processed unit goes without its progress call, and each
\* worker adds at most the one turn that found no unit.
EveryUnitProgress ==
    (main = "returned" /\ Clean /\ result = 0) =>
        progressed \in worked..(worked + nthr)

\* What a run that returns has done, however it is run.
RunIsComplete ==
    /\ TypeOK /\ FreedWhenDone /\ AllWorked
    /\ IF FastFlow THEN EveryUnitProgress ELSE ProgressForUnits

\* vips_threadpool_run returns: a tick follows every turn, so the main thread
\* always looks at stop again, and every worker passes finish.
Returns == <>(main = "returned")

\* threadpool.cc:832, "This function is called by the main thread once for
\* every work unit processed".
ProgressOncePerUnit == (main = "returned" /\ Clean /\ result = 0) => progressed = worked

\* threadpool.cc:869, "Returns: 0 on success, or -1 on error".
ErrorReturned == main = "returned" /\ result = 0 => Clean

\* threadpool.cc:665, "Kill all threads in a threadpool, if there are any".
KillsExisting == main # "crashed"
=============================================================================
