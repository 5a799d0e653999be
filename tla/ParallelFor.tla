---------------------------- MODULE ParallelFor ----------------------------
(***************************************************************************)
(* The parallel loop of FastFlow (parallel_for_internals.hpp): how          *)
(* forall_Scheduler cuts an index range into tasks and how the tasks reach  *)
(* the workers.  Either a scheduler thread hands them out over the farm's   *)
(* channels (svc, nextTask), or there is no such thread and the workers     *)
(* take tasks from one shared table, first from their own entry and then    *)
(* from the fullest one (nextTaskConcurrent), with one compare-and-swap and *)
(* one counter per entry.  A step of a worker is one access to that table.  *)
(*                                                                         *)
(* One object runs loop after loop, so what a loop leaves behind in the     *)
(* table and in the fields is there when the next one is set up.            *)
(***************************************************************************)
EXTENDS Integers, Sequences, FiniteSets, FiniteSetsExt

CONSTANTS
  Loops,       \* the loops a user may ask for: start, stop, step, chunk, nw
  Workers,     \* ids of the worker threads, 0 .. maxnw-1
  Cores,       \* ff_numCores()
  MaxLoops,    \* bound: loops one object runs
  NoStealing   \* built with FF_PARFOR_PASSIVE_NOSTEALING

WorkersAssumption ==
  IsFiniteSet(Workers) /\ 0 \in Workers /\ Workers = 0 .. Cardinality(Workers) - 1
LoopsAssumption ==
  \A l \in Loops : /\ l.start \in Int /\ l.stop \in Int /\ l.start < l.stop
                   /\ l.step \in Nat \ {0} /\ l.chunk \in Int
                   /\ l.nw \in 1 .. Cardinality(Workers)

VARIABLES
  loop, loops,        \* the current request, and how many there were
  phase,              \* "idle", "run" (workers alone) or "sched" (with scheduler)
  data, size,         \* the task table and its length as a vector
  chunk, nw,          \* _chunk and _nw as init_data and setloop leave them
  total, maxid, jump, \* totaltasks, maxid, jump
  eossent,            \* workers that were told to leave
  next,               \* _nextIteration
  inq, outq,          \* channels from and to the scheduler
  pc, w,              \* workers: where each is, and its local variables
  runs                \* history: how often each index was executed

sched == <<total, eossent, inq, outq>>
worker == <<pc, w>>
shape == <<loop, loops, phase, size, chunk, nw, jump>>
vars == <<shape, sched, worker, data, maxid, next, runs>>

NoPair == [ntask |-> 0, start |-> 0, end |-> 0]
NoLocals == [start |-> 0, end |-> 0, id |-> 0, old |-> 0, cut |-> 0]

Indices == UNION {l.start - 1 .. l.stop + 2 * l.step : l \in Loops}

CeilDiv(a, b) == (a + b - 1) \div b

Min2(a, b) == IF a < b THEN a ELSE b

Active == {i \in Workers : i < nw}

-----------------------------------------------------------------------------
(* Setting up a loop *)

\* The indices the loop is about: for (i = start; i < stop; i += step).
Expected(l) == {i \in l.start .. l.stop - 1 : (i - l.start) % l.step = 0}

numtasks(l) == CeilDiv(l.stop - l.start, l.step)

\* The tasks of worker i when each gets n and r are left over; a single one
\* left over is not given out here.
share(n, i, r) == n + (IF r > 1 /\ i < r THEN 1 ELSE 0)

\* init_data: consecutive ranges of whole tasks while tasks are left.
dynamicRanges(l, n) ==
  LET ntx == IF n \div l.nw = 0 /\ n % l.nw >= 1 THEN 1 ELSE n \div l.nw
      r == IF n \div l.nw = 0 THEN 0 ELSE n % l.nw
      cell[i \in 0 .. l.nw - 1] ==
        LET s == IF i = 0 THEN l.start ELSE cell[i - 1].end - 1 + l.step
            left == IF i = 0 THEN n ELSE cell[i - 1].left - cell[i - 1].ntask
            t == IF left > 0 THEN share(ntx, i, r) ELSE 0
        IN [ntask |-> t, left |-> left, start |-> s,
            end |-> IF left > 0 THEN Min2(s + (t * l.chunk - 1) * l.step + 1, l.stop)
                    ELSE s - l.step + 1]
  IN [cells |-> cell, ntx |-> ntx,
      left |-> n - MapThenSumSet(LAMBDA i : cell[i].ntask, 0 .. l.nw - 1)]

\* The vector after resize(n): entries it did not have are new.
resized(n) == [i \in Workers |-> IF i >= Min2(size, n) THEN NoPair ELSE data[i]]

\* init_data: dynamic scheduling with grain chunk.
init_data(l) ==
  LET n == CeilDiv(numtasks(l), l.chunk)
      d == dynamicRanges(l, n)
      last == l.nw - 1
      filled == [i \in Workers |->
                  IF i <= last /\ d.cells[i].left > 0
                  THEN [ntask |-> d.cells[i].ntask, start |-> d.cells[i].start,
                        end |-> d.cells[i].end]
                  ELSE resized(l.nw)[i]]
  IN /\ data' = IF d.left = 0 THEN filled
                ELSE [filled EXCEPT ![last].end = l.stop,
                                    ![last].ntask = IF d.ntx > 1 THEN @ + d.left ELSE @]
     /\ chunk' = IF d.left # 0 /\ d.ntx <= 1 THEN l.chunk * 2 ELSE l.chunk
     /\ total' = IF d.left # 0 /\ d.ntx <= 1 THEN n - 1 ELSE n
     /\ size' = l.nw /\ jump' = 0 /\ maxid' = -1

\* init_data_static with chunk 0: one range per worker, as even as possible.
init_data_static(l) ==
  LET n == numtasks(l)
      c == n \div l.nw
      r == n % l.nw
      cell[i \in 0 .. l.nw - 1] ==
        LET s == IF i = 0 THEN l.start ELSE cell[i - 1].end - 1 + l.step
        IN [ntask |-> 1, start |-> s,
            end |-> Min2(s + (c - 1) * l.step + 1 + (IF i < r THEN l.step ELSE 0), l.stop)]
  IN /\ data' = [i \in Workers |-> IF i < l.nw THEN cell[i] ELSE resized(l.nw)[i]]
     /\ chunk' = c + (IF r > 0 THEN 1 ELSE 0)
     /\ total' = l.nw
     /\ size' = l.nw /\ jump' = 0 /\ maxid' = -1

\* init_data_static with a grain: only where each worker starts.
init_data_grain(l) ==
  LET c == -l.chunk
      n == Min2(l.nw, CeilDiv(numtasks(l), c))
  IN /\ data' = [i \in Workers |->
                  IF i < n THEN [ntask |-> 1, start |-> l.start + i * c, end |-> l.stop]
                  ELSE data[i]]
     /\ chunk' = l.stop
     /\ total' = n
     /\ UNCHANGED <<size, jump, maxid>>

\* What the body of the loop executes for a task (s, e): the plain loop, or for
\* a static grain every nw-th block of it.
body(l, s, e) ==
  IF l.chunk >= 0 THEN {i \in s .. e - 1 : (i - s) % l.step = 0}
  ELSE LET jump1 == -l.chunk * l.step
       IN {i \in s .. e - 1 : /\ (i - s) % (nw * jump1) < jump1
                              /\ ((i - s) % (nw * jump1)) % l.step = 0}

execute(s, e) ==
  runs' = [i \in DOMAIN runs |-> runs[i] + (IF i \in body(loop, s, e) THEN 1 ELSE 0)]

canUseNoStealing == NoStealing /\ loop.chunk > 0 /\ loop.step = 1 /\ chunk = 1

Init ==
  /\ loop = CHOOSE l \in Loops : TRUE
  /\ loops = 0 /\ phase = "idle"
  /\ data = [i \in Workers |-> NoPair] /\ size = Cardinality(Workers)
  /\ chunk = 1 /\ nw = Cardinality(Workers) /\ total = 0 /\ maxid = -1 /\ jump = 0
  /\ eossent = {} /\ next = 0
  /\ inq = [i \in Workers |-> <<>>] /\ outq = [i \in Workers |-> <<>>]
  /\ pc = [i \in Workers |-> "frozen"] /\ w = [i \in Workers |-> NoLocals]
  /\ runs = [i \in Indices |-> 0]

\* setloop: fill the table, then start no more workers than there are tasks.
\* The history starts again with the loop.
setloop(l) ==
  /\ phase = "idle" /\ loops < MaxLoops
  /\ loops' = loops + 1 /\ loop' = l /\ next' = l.start
  /\ CASE l.chunk > 0 -> init_data(l)
       [] l.chunk = 0 -> init_data_static(l)
       [] OTHER -> init_data_grain(l)
  /\ nw' = IF total' <= l.nw \/ total' = 1 THEN total' ELSE l.nw
  /\ phase' = "set"
  /\ runs' = [i \in Indices |-> 0]
  /\ UNCHANGED <<eossent, inq, outq, worker>>

\* startScheduler and the choice of setF.
startScheduler == total > nw /\ nw < Cores

endchunk == (chunk - 1) * loop.step + 1

\* One round of sendTask's table: the task of each worker that has one, and the
\* table without it.
firstTask(d, i) == <<d[i].start, Min2(d[i].start + endchunk, d[i].end)>>

taken(d) ==
  [i \in Workers |->
    IF i < nw /\ d[i].ntask > 0
    THEN [d[i] EXCEPT !.ntask = @ - 1, !.start = firstTask(d, i)[2] - 1 + loop.step]
    ELSE d[i]]

sent(d, i) == IF i < nw /\ d[i].ntask > 0 THEN <<firstTask(d, i)>> ELSE <<>>

\* A loop left with one worker is run by the caller.
RunAlone ==
  /\ phase = "set" /\ nw = 1
  /\ execute(loop.start, loop.stop)
  /\ phase' = "idle"
  /\ UNCHANGED <<loop, loops, size, chunk, nw, jump, sched, worker, data, maxid, next>>

\* run_then_freeze without a scheduler: each worker gets its first task, or with
\* the shared counter only a wake-up, and is thawed.
StartWorkers ==
  /\ phase = "set" /\ nw > 1 /\ ~startScheduler
  /\ phase' = "run"
  /\ \/ /\ canUseNoStealing
        /\ pc' = [i \in Workers |-> IF i \in Active THEN "next" ELSE "frozen"]
        /\ UNCHANGED <<data, w, jump>>
     \/ /\ ~canUseNoStealing
        /\ data' = taken(data)
        /\ jump' = jump + nw
        /\ pc' = [i \in Workers |-> IF i \notin Active THEN "frozen"
                                   ELSE IF sent(data, i) # <<>> THEN "F" ELSE "pop"]
        /\ w' = [i \in Workers |->
                  IF sent(data, i) = <<>> THEN w[i]
                  ELSE [w[i] EXCEPT !.start = firstTask(data, i)[1],
                                    !.end = firstTask(data, i)[2]]]
  /\ UNCHANGED <<loop, loops, size, chunk, nw, sched, maxid, next, runs>>

\* GO_OUT is sent to a worker once.
tellToLeave(q, i) == IF i \in eossent THEN q[i] ELSE Append(q[i], "GO_OUT")

\* run_then_freeze with the scheduler thread: svc(NULL) sends one task to each
\* worker, and a second one when there are many.
StartScheduler ==
  /\ phase = "set" /\ nw > 1 /\ startScheduler
  /\ phase' = "sched"
  /\ LET more == total >= 4 * nw /\ \A i \in Active : data[i].ntask > 0
         d1 == taken(data)
     IN /\ data' = IF more THEN taken(d1) ELSE d1
        /\ jump' = jump + (IF more THEN 2 * nw ELSE nw)
        /\ inq' = [i \in Workers |->
                    sent(data, i) \o (IF more THEN sent(d1, i) ELSE <<>>)]
        /\ pc' = [i \in Workers |-> IF i \in Active THEN "pop" ELSE "frozen"]
        /\ eossent' = eossent \ {i \in Active : data[i].ntask > 0}
  /\ UNCHANGED <<loop, loops, size, chunk, nw, total, outq, w, maxid, next, runs>>

-----------------------------------------------------------------------------
(* With the scheduler thread *)

\* forallreduce_W::svc with a scheduler: run the task and return it.
ServeTask(i) ==
  /\ phase = "sched" /\ pc[i] = "pop" /\ inq[i] # <<>>
  /\ inq' = [inq EXCEPT ![i] = Tail(@)]
  /\ LET t == Head(inq[i])
     IN \/ /\ t = "GO_OUT"
           /\ pc' = [pc EXCEPT ![i] = "frozen"]
           /\ UNCHANGED <<outq, runs>>
        \/ /\ t # "GO_OUT"
           /\ execute(t[1], t[2])
           /\ outq' = [outq EXCEPT ![i] = Append(@, t)]
           /\ UNCHANGED pc
  /\ UNCHANGED <<shape, total, eossent, w, data, maxid, next>>

\* The entry nextTask takes from: the worker's own, the remembered fullest one,
\* or the fullest one now.
fullest == CHOOSE i \in 0 .. size - 1 :
             /\ \A j \in 0 .. size - 1 : data[j].ntask <= data[i].ntask
             /\ \A j \in 0 .. i - 1 : data[j].ntask < data[i].ntask

nextEntry(i) == IF data[i].ntask # 0 THEN i
                ELSE IF maxid >= 0 /\ data[maxid].ntask > 0 THEN maxid
                ELSE fullest

\* forall_Scheduler::svc with the task worker i has finished.
Schedule(i) ==
  /\ phase = "sched" /\ outq[i] # <<>>
  /\ outq' = [outq EXCEPT ![i] = Tail(@)]
  /\ total' = total - 1
  /\ maxid' = IF total' <= 0 \/ data[i].ntask # 0 THEN maxid ELSE nextEntry(i)
  /\ LET e == nextEntry(i)
         t == firstTask(data, e)
     IN \/ /\ total' > 0 /\ data[e].ntask > 0
           /\ data' = [data EXCEPT ![e].ntask = @ - 1, ![e].start = t[2] - 1 + loop.step]
           /\ inq' = [inq EXCEPT ![i] = Append(@, t)]
           /\ UNCHANGED <<eossent, phase>>
        \/ /\ total' <= 0 \/ data[e].ntask <= 0
           /\ inq' = [inq EXCEPT ![i] = tellToLeave(inq, i)]
           /\ eossent' = eossent \cup {i}
           /\ phase' = IF total' <= 0 THEN "drain" ELSE phase
           /\ UNCHANGED data
  /\ UNCHANGED <<loop, loops, size, chunk, nw, jump, worker, next, runs>>

\* The scheduler has left and the loop is over for the caller, who waits for
\* the scheduler only; a worker leaves when it finds its GO_OUT, at the latest
\* before it takes a task of the next loop from the same channel.
Drain ==
  /\ phase = "drain"
  /\ \A i \in Workers : pc[i] = "pop" => inq[i] # <<>> /\ Head(inq[i]) = "GO_OUT"
  /\ inq' = [i \in Workers |-> IF pc[i] = "pop" THEN Tail(inq[i]) ELSE inq[i]]
  /\ pc' = [i \in Workers |-> "frozen"]
  /\ phase' = "idle"
  /\ UNCHANGED <<loop, loops, size, chunk, nw, jump, total, eossent, outq, w,
                 data, maxid, next, runs>>

-----------------------------------------------------------------------------
(* Workers alone: nextTaskConcurrent *)

Goto(i, l) == pc' = [pc EXCEPT ![i] = l]

Table == <<data, maxid, next>>

\* F(task->start, task->end)
Run(i) ==
  /\ phase = "run" /\ pc[i] = "F"
  /\ execute(w[i].start, w[i].end)
  /\ Goto(i, "next")
  /\ w' = [w EXCEPT ![i].id = i]
  /\ UNCHANGED <<shape, sched, Table>>

\* The shared counter of nextTaskConcurrentNoStealing: one fetch_add.
FetchAdd(i) ==
  /\ phase = "run" /\ pc[i] = "next" /\ canUseNoStealing
  /\ next' = next + loop.step
  /\ \/ next >= loop.stop /\ Goto(i, "done") /\ UNCHANGED w
     \/ /\ next < loop.stop /\ Goto(i, "F")
        /\ w' = [w EXCEPT ![i].start = next, ![i].end = next + loop.step]
  /\ UNCHANGED <<shape, sched, data, maxid, runs>>

\* L1: is there a task in the entry?
LoadCount(i) ==
  /\ phase = "run" /\ pc[i] = "next" /\ ~canUseNoStealing
  /\ IF data[w[i].id].ntask > 0 THEN Goto(i, "load")
     ELSE Goto(i, IF loop.chunk <= 0 THEN "done" ELSE "steal")
  /\ UNCHANGED <<shape, sched, w, Table, runs>>

\* oldstart and end are read; newstart follows from them.
LoadStart(i) ==
  /\ pc[i] = "load"
  /\ LET d == data[w[i].id]
     IN w' = [w EXCEPT ![i].old = d.start, ![i].cut = Min2(d.start + endchunk, d.end)]
  /\ Goto(i, "cas")
  /\ UNCHANGED <<shape, sched, Table, runs>>

\* Seeded fault: a plain store in place of the compare-and-swap.
StoreStart(i) ==
  /\ pc[i] = "cas"
  /\ data' = [data EXCEPT ![w[i].id].start = w[i].cut - 1 + loop.step]
  /\ Goto(i, "sub")
  /\ UNCHANGED <<shape, sched, w, maxid, next, runs>>

\* compare_exchange_weak: may also fail when start is unchanged.
CompareExchange(i) ==
  /\ pc[i] = "cas"
  /\ \/ /\ data[w[i].id].start = w[i].old
        /\ data' = [data EXCEPT ![w[i].id].start = w[i].cut - 1 + loop.step]
        /\ Goto(i, "sub")
     \/ Goto(i, "next") /\ UNCHANGED data
  /\ UNCHANGED <<shape, sched, w, maxid, next, runs>>

\* fetch_sub may take ntask below zero; then the range won is empty.
FetchSub(i) ==
  /\ pc[i] = "sub"
  /\ data' = [data EXCEPT ![w[i].id].ntask = @ - 1]
  /\ IF w[i].old < w[i].cut
     THEN w' = [w EXCEPT ![i].start = w[i].old, ![i].end = w[i].cut] /\ Goto(i, "F")
     ELSE UNCHANGED w /\ Goto(i, IF loop.chunk <= 0 THEN "done" ELSE "steal")
  /\ UNCHANGED <<shape, sched, maxid, next, runs>>

\* The entry to steal from: the remembered one, or the result of max_element,
\* whose reads of the counters are spread over time and may yield any entry.
ChooseVictim(i) ==
  /\ pc[i] = "steal"
  /\ \E m \in IF maxid < 0 THEN 0 .. size - 1 ELSE {maxid} :
       w' = [w EXCEPT ![i].id = m]
  /\ Goto(i, "victim")
  /\ UNCHANGED <<shape, sched, Table, runs>>

\* Go on with the victim's entry when it has tasks, and remember it.
Steal(i) ==
  /\ pc[i] = "victim"
  /\ \/ /\ data[w[i].id].ntask > 0
        /\ maxid' = w[i].id /\ Goto(i, "next")
     \/ data[w[i].id].ntask <= 0 /\ Goto(i, "done") /\ UNCHANGED maxid
  /\ UNCHANGED <<shape, sched, w, data, next, runs>>

\* wait_freezingWorkers: every worker has left the loop.
Finish ==
  /\ phase = "run" /\ \A i \in Workers : pc[i] \in {"done", "frozen"}
  /\ phase' = "idle"
  /\ pc' = [i \in Workers |-> "frozen"]
  /\ UNCHANGED <<loop, loops, size, chunk, nw, jump, sched, w, Table, runs>>

Step(i) == \/ ServeTask(i) \/ Schedule(i) \/ Run(i) \/ FetchAdd(i) \/ LoadCount(i)
           \/ LoadStart(i) \/ CompareExchange(i) \/ FetchSub(i)
           \/ ChooseVictim(i) \/ Steal(i)

Caller == RunAlone \/ StartWorkers \/ StartScheduler \/ Drain \/ Finish

Exchanges(i) == CompareExchange(i) /\ pc'[i] = "sub"

Terminating == phase = "idle" /\ loops = MaxLoops /\ UNCHANGED vars

Next == \/ \E l \in Loops : setloop(l)
        \/ Caller
        \/ \E i \in Workers : Step(i)
        \/ Terminating

Spec == Init /\ [][Next]_vars

\* Every thread runs, and a compare-and-swap that nobody disturbs does not fail
\* for ever.
Fairness ==
  /\ WF_vars(Caller)
  /\ \A i \in Workers : WF_vars(Step(i)) /\ SF_vars(Exchanges(i))

FairSpec == Spec /\ Fairness

-----------------------------------------------------------------------------
(* Properties *)

\* Type correctness of the scheduler's fields.
TypeOK ==
  /\ loop \in Loops /\ loops \in 0 .. MaxLoops
  /\ phase \in {"idle", "set", "run", "sched", "drain"}
  /\ \A i \in Workers : data[i].ntask \in Int /\ data[i].start \in Int
  /\ nw \in 1 .. Cardinality(Workers) /\ size \in 1 .. Cardinality(Workers)
  /\ maxid \in {-1} \cup Workers
  /\ total \in Nat /\ jump \in Nat /\ eossent \subseteq Workers

\* No index is executed twice, whoever takes tasks from whom at the same time.
AtMostOnce == \A i \in Indices : runs[i] <= (IF i \in Expected(loop) THEN 1 ELSE 0)

\* When the caller goes on, every index of the loop was executed exactly once
\* and no other.
ExactlyOnce ==
  phase = "idle" /\ loops > 0 =>
    \A i \in Indices : runs[i] = (IF i \in Expected(loop) THEN 1 ELSE 0)

\* With the scheduler, the tasks not yet finished are those in the table and in
\* the channels: totaltasks reaches zero with the last one.
TasksAccounted ==
  phase = "sched" =>
    total = MapThenSumSet(LAMBDA i : data[i].ntask + Len(outq[i])
                            + Len(SelectSeq(inq[i], LAMBDA t : t # "GO_OUT")), Workers)

\* Every worker that was started is told to leave once, after its last task, so
\* that nothing is left in its channel for the next loop.
LeavesOnce ==
  /\ phase = "idle" => \A i \in Workers : inq[i] = <<>>
  /\ \A i \in Workers : Cardinality({k \in DOMAIN inq[i] : inq[i][k] = "GO_OUT"}) <= 1

\* The assertions of init_data, setloop and sendTask: at most one task is left
\* over by the split, there is a task, and the tasks sent at the start fit in
\* taskv.
AssertionsHold ==
  /\ loops > 0 /\ loop.chunk > 0 =>
       dynamicRanges(loop, CeilDiv(numtasks(loop), loop.chunk)).left \in {0, 1}
  /\ phase = "set" => total >= 1
  /\ jump <= 8 * nw

\* A loop that was set up ends.
LoopEnds == phase = "set" ~> phase = "idle"
=============================================================================
