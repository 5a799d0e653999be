------------------------------- MODULE MCTasks -------------------------------
(****************************************************************************)
(* The parallel loop, the macro data-flow executor and the slab allocator of *)
(* FastFlow on small instances.  A behaviour runs one of them.  The          *)
(* allocator has its own variables and constants here (its values are in the  *)
(* .cfg); the others are instances.                                          *)
(****************************************************************************)
EXTENDS SlabCache, FiniteSetsExt

VARIABLES
  on,  \* the key of the instance that runs
  \* ParallelFor
  pf_loop, pf_loops, pf_phase, pf_data, pf_size, pf_chunk, pf_nw, pf_total,
  pf_maxid, pf_jump, pf_eossent, pf_next, pf_inq, pf_outq, pf_pc, pf_w,
  pf_runs,
  \* MacroDataflow
  mdf_program, mdf_gd, mdf_slot, mdf_written, mdf_TASKS, mdf_inq, mdf_run,
  mdf_sched, mdf_in_active, mdf_gd_ended, mdf_task_numb, mdf_task_completed,
  mdf_lbpc, mdf_popped, mdf_nw, mdf_absorbed, mdf_q, mdf_back, mdf_wpc,
  mdf_inserted, mdf_finished

Loop(start, stop, step, c, n) ==
  [start |-> start, stop |-> stop, step |-> step, chunk |-> c, nw |-> n]

\* Every short loop, dynamic or split evenly, also from a negative start.
ManyLoops ==
  {Loop(s, s + n, k, c, m) :
     s \in {-3, 0}, n \in {1, 2, 5, 7, 9, 12}, k \in 1 .. 3, c \in 0 .. 3, m \in 1 .. 3}

\* Uneven loops for two workers: with a left-over task, with a last task that is
\* cut short, with a step, and one split evenly.
FewLoops == {Loop(0, 5, 1, 1, 2), Loop(0, 5, 1, 2, 2), Loop(0, 9, 2, 1, 2),
             Loop(0, 3, 1, 0, 2), Loop(0, 4, 1, -1, 2)}

\* And one with two tasks per worker at the start.
ScheduledLoops == FewLoops \cup {Loop(0, 9, 1, 1, 2)}

\* Loops for three workers.
ThreeLoops == {Loop(0, 7, 1, 1, 3), Loop(0, 2, 1, 1, 3)}

\* Static grain: blocks of one, two and three iterations, step one.
GrainLoops == {Loop(s, s + n, 1, -g, m) :
                 s \in {0, 2}, n \in 1 .. 9, g \in 1 .. 3, m \in 1 .. 3}

Input(d) == [tag |-> d, dir |-> "INPUT"]
Output(d) == [tag |-> d, dir |-> "OUTPUT"]

\* Tasks that read or write one of the data, update one, or copy one to the other.
MdfTasks ==
  {<<Input(d)>> : d \in {"a", "b"}} \union {<<Output(d)>> : d \in {"a", "b"}}
    \union {<<Input(d), Output(e)>> : d, e \in {"a", "b"}}

\* Every program of three tasks.
AllPrograms == [1 .. 3 -> MdfTasks]

\* Longer ones: readers between writers, a diamond, a task that writes both data.
LongPrograms ==
  LET a == "a"
      b == "b"
  IN { <<  <<Output(a)>>, <<Input(a)>>, <<Input(a)>>, <<Output(a)>>, <<Input(a)>> >>,
       <<  <<Output(a), Output(b)>>, <<Input(a)>>, <<Input(b)>>, <<Input(a), Output(a)>>, <<Input(a), Input(b)>> >>,
       <<  <<Input(a), Output(b)>>, <<Input(b), Output(a)>>, <<Input(a), Output(b)>>, <<Output(a), Output(b)>> >>,
       <<  <<Input(a), Input(b)>>, <<Output(a)>>, <<Input(a), Output(b)>>, <<Input(b), Output(a)>>, <<Output(b)>> >> }

\* CompareTask_Par: the task that unblocks most.
TopPar(ready, tasks) ==
  CHOOSE t \in ready : \A u \in ready :
    \/ Len(tasks[t].unblock) > Len(tasks[u].unblock)
    \/ Len(tasks[t].unblock) = Len(tasks[u].unblock) /\ t <= u

\* CompareTask_FIFO
TopFifo(ready, tasks) == Min(ready)

\* Every short loop, tasks handed out by the scheduler thread.
Split == INSTANCE ParallelFor WITH
  Loops <- ManyLoops, Workers <- 0 .. 2, Cores <- 8, MaxLoops <- 1,
  NoStealing <- FALSE, loop <- pf_loop, loops <- pf_loops, phase <- pf_phase,
  data <- pf_data, size <- pf_size, chunk <- pf_chunk, nw <- pf_nw,
  total <- pf_total, maxid <- pf_maxid, jump <- pf_jump,
  eossent <- pf_eossent, next <- pf_next, inq <- pf_inq, outq <- pf_outq,
  pc <- pf_pc, w <- pf_w, runs <- pf_runs

\* Loop after loop with the scheduler thread.
Scheduled == INSTANCE ParallelFor WITH
  Loops <- ScheduledLoops, Workers <- 0 .. 1, Cores <- 8, MaxLoops <- 2,
  NoStealing <- FALSE, loop <- pf_loop, loops <- pf_loops, phase <- pf_phase,
  data <- pf_data, size <- pf_size, chunk <- pf_chunk, nw <- pf_nw,
  total <- pf_total, maxid <- pf_maxid, jump <- pf_jump,
  eossent <- pf_eossent, next <- pf_next, inq <- pf_inq, outq <- pf_outq,
  pc <- pf_pc, w <- pf_w, runs <- pf_runs

\* Loop after loop, the workers alone on the shared table.
Alone == INSTANCE ParallelFor WITH
  Loops <- FewLoops, Workers <- 0 .. 1, Cores <- 1, MaxLoops <- 2,
  NoStealing <- FALSE, loop <- pf_loop, loops <- pf_loops, phase <- pf_phase,
  data <- pf_data, size <- pf_size, chunk <- pf_chunk, nw <- pf_nw,
  total <- pf_total, maxid <- pf_maxid, jump <- pf_jump,
  eossent <- pf_eossent, next <- pf_next, inq <- pf_inq, outq <- pf_outq,
  pc <- pf_pc, w <- pf_w, runs <- pf_runs

\* Three workers take tasks from one another.
Thieves == INSTANCE ParallelFor WITH
  Loops <- ThreeLoops, Workers <- 0 .. 2, Cores <- 1, MaxLoops <- 1,
  NoStealing <- FALSE, loop <- pf_loop, loops <- pf_loops, phase <- pf_phase,
  data <- pf_data, size <- pf_size, chunk <- pf_chunk, nw <- pf_nw,
  total <- pf_total, maxid <- pf_maxid, jump <- pf_jump,
  eossent <- pf_eossent, next <- pf_next, inq <- pf_inq, outq <- pf_outq,
  pc <- pf_pc, w <- pf_w, runs <- pf_runs

\* Workers on the shared counter.
Counter == INSTANCE ParallelFor WITH
  Loops <- FewLoops, Workers <- 0 .. 1, Cores <- 1, MaxLoops <- 1,
  NoStealing <- TRUE, loop <- pf_loop, loops <- pf_loops, phase <- pf_phase,
  data <- pf_data, size <- pf_size, chunk <- pf_chunk, nw <- pf_nw,
  total <- pf_total, maxid <- pf_maxid, jump <- pf_jump,
  eossent <- pf_eossent, next <- pf_next, inq <- pf_inq, outq <- pf_outq,
  pc <- pf_pc, w <- pf_w, runs <- pf_runs

\* Static grain, step one, start not negative.
Grain == INSTANCE ParallelFor WITH
  Loops <- GrainLoops, Workers <- 0 .. 2, Cores <- 1, MaxLoops <- 1,
  NoStealing <- FALSE, loop <- pf_loop, loops <- pf_loops, phase <- pf_phase,
  data <- pf_data, size <- pf_size, chunk <- pf_chunk, nw <- pf_nw,
  total <- pf_total, maxid <- pf_maxid, jump <- pf_jump,
  eossent <- pf_eossent, next <- pf_next, inq <- pf_inq, outq <- pf_outq,
  pc <- pf_pc, w <- pf_w, runs <- pf_runs

\* Every program of three tasks, two workers.
Executor == INSTANCE MacroDataflow WITH
  Tags <- {"a", "b"}, Programs <- AllPrograms, NWorkers <- 2, Top <- TopPar,
  LOWER_TH <- 2, QSize <- 2, maxMsgs <- 4, Runs <- 1, program <- mdf_program,
  gd <- mdf_gd, slot <- mdf_slot, written <- mdf_written, TASKS <- mdf_TASKS,
  inq <- mdf_inq, run <- mdf_run, sched <- mdf_sched,
  in_active <- mdf_in_active, gd_ended <- mdf_gd_ended,
  task_numb <- mdf_task_numb, task_completed <- mdf_task_completed,
  lbpc <- mdf_lbpc, popped <- mdf_popped, nw <- mdf_nw,
  absorbed <- mdf_absorbed, q <- mdf_q, back <- mdf_back, wpc <- mdf_wpc,
  inserted <- mdf_inserted, finished <- mdf_finished

\* Longer programs, first in first out; the input stops at three outstanding tasks.
LongRun == INSTANCE MacroDataflow WITH
  Tags <- {"a", "b"}, Programs <- LongPrograms, NWorkers <- 2,
  Top <- TopFifo, LOWER_TH <- 2, QSize <- 2, maxMsgs <- 4, Runs <- 1,
  program <- mdf_program, gd <- mdf_gd, slot <- mdf_slot,
  written <- mdf_written, TASKS <- mdf_TASKS, inq <- mdf_inq, run <- mdf_run,
  sched <- mdf_sched, in_active <- mdf_in_active, gd_ended <- mdf_gd_ended,
  task_numb <- mdf_task_numb, task_completed <- mdf_task_completed,
  lbpc <- mdf_lbpc, popped <- mdf_popped, nw <- mdf_nw,
  absorbed <- mdf_absorbed, q <- mdf_q, back <- mdf_back, wpc <- mdf_wpc,
  inserted <- mdf_inserted, finished <- mdf_finished

ASSUME /\ Split!WorkersAssumption /\ Split!LoopsAssumption
       /\ Scheduled!WorkersAssumption /\ Scheduled!LoopsAssumption
       /\ Alone!WorkersAssumption /\ Alone!LoopsAssumption
       /\ Thieves!WorkersAssumption /\ Thieves!LoopsAssumption
       /\ Counter!WorkersAssumption /\ Counter!LoopsAssumption
       /\ Grain!WorkersAssumption /\ Grain!LoopsAssumption
       /\ Executor!MdfAssumption /\ LongRun!MdfAssumption
       /\ SlabAssumption /\ NobodyAssumption /\ RoomAssumption

pfVars == <<pf_loop, pf_loops, pf_phase, pf_data, pf_size, pf_chunk, pf_nw,
  pf_total, pf_maxid, pf_jump, pf_eossent, pf_next, pf_inq, pf_outq, pf_pc,
  pf_w, pf_runs>>
mdfVars == <<mdf_program, mdf_gd, mdf_slot, mdf_written, mdf_TASKS, mdf_inq,
  mdf_run, mdf_sched, mdf_in_active, mdf_gd_ended, mdf_task_numb,
  mdf_task_completed, mdf_lbpc, mdf_popped, mdf_nw, mdf_absorbed, mdf_q,
  mdf_back, mdf_wpc, mdf_inserted, mdf_finished>>
tasksVars == <<on, pfVars, mdfVars, vars>>

\* One of them is chosen; the others stay as they begin.
TasksInit ==
  /\ on \in {"split", "scheduler", "workers", "thieves", "counter", "grain",
           "programs", "long", "alloc"}
  /\ IF on = "scheduler" THEN Scheduled!Init ELSE
     IF on = "workers" THEN Alone!Init ELSE
     IF on = "thieves" THEN Thieves!Init ELSE
     IF on = "counter" THEN Counter!Init ELSE
     IF on = "grain" THEN Grain!Init ELSE Split!Init
  /\ IF on = "long" THEN LongRun!Init ELSE Executor!Init
  /\ (on \notin {"programs", "long"} => mdf_program = [n \in 1 .. 3 |-> <<Input("a")>>])
  /\ Init

TasksNext ==
  \/ on = "split" /\ Split!Next /\ UNCHANGED <<on, mdfVars, vars>>
  \/ on = "scheduler" /\ Scheduled!Next /\ UNCHANGED <<on, mdfVars, vars>>
  \/ on = "workers" /\ Alone!Next /\ UNCHANGED <<on, mdfVars, vars>>
  \/ on = "thieves" /\ Thieves!Next /\ UNCHANGED <<on, mdfVars, vars>>
  \/ on = "counter" /\ Counter!Next /\ UNCHANGED <<on, mdfVars, vars>>
  \/ on = "grain" /\ Grain!Next /\ UNCHANGED <<on, mdfVars, vars>>
  \/ on = "programs" /\ Executor!Next /\ UNCHANGED <<on, pfVars, vars>>
  \/ on = "long" /\ LongRun!Next /\ UNCHANGED <<on, pfVars, vars>>
  \/ on = "alloc" /\ Next /\ UNCHANGED <<on, pfVars, mdfVars>>
  \* At the end the executor stays frozen and the allocator unused; waiting is
  \* spinning, which is no action.
  \/ on \in {"programs", "long", "alloc"} /\ UNCHANGED tasksVars

\* The fairness of each instance (its own module says why).
TasksSpec ==
  /\ TasksInit /\ [][TasksNext]_tasksVars
  /\ WF_pfVars(on = "workers" /\ Alone!Caller)
  /\ \A i \in 0 .. 1 : /\ WF_pfVars(on = "workers" /\ Alone!Step(i))
                    /\ SF_pfVars(on = "workers" /\ Alone!Exchanges(i))
  /\ WF_mdfVars(on = "long" /\ LongRun!GD) /\ WF_mdfVars(on = "long" /\ LongRun!PopInput)
  /\ WF_mdfVars(on = "long" /\ LongRun!SvcInput) /\ WF_mdfVars(on = "long" /\ LongRun!SvcNull)
  /\ WF_mdfVars(on = "long" /\ LongRun!Absorb) /\ WF_mdfVars(on = "long" /\ LongRun!Start)
  /\ \A v \in LongRun!Workers : /\ WF_mdfVars(on = "long" /\ LongRun!SvcResult(v))
                               /\ WF_mdfVars(on = "long" /\ (LongRun!Take(v) \/ LongRun!Execute(v)))

------------------------------------------------------------------------------
\* The parallel loop: when the caller goes on every index of its loop was executed
\* once and no other, and none ever twice, whoever takes tasks from whom; the
\* assertions of the split hold; and the scheduler thread counts the tasks down to
\* zero with the last one and tells every worker to leave once, after its last task.
LoopExactlyOnce ==
  CASE on = "split" -> Split!TypeOK /\ Split!ExactlyOnce /\ Split!AssertionsHold
    [] on = "scheduler" -> /\ Scheduled!ExactlyOnce
                           /\ Scheduled!TasksAccounted /\ Scheduled!LeavesOnce
    [] on = "workers" -> Alone!ExactlyOnce
    [] on = "thieves" -> Thieves!AtMostOnce
    [] on = "counter" -> Counter!ExactlyOnce
    [] OTHER -> on = "grain" => Grain!ExactlyOnce

\* The macro data-flow executor: a worker is given a task only when the earlier
\* tasks it conflicts with have been executed, on the message its user wrote; a
\* run that ends has executed all, and forgets just what nobody needs.
DataFlowRespected ==
  IF on = "long" THEN LongRun!InDataOrder /\ LongRun!MessageIntact /\ LongRun!RunComplete
  ELSE /\ Executor!TypeOK /\ Executor!InDataOrder
       /\ Executor!AssertionsHold /\ Executor!TablesExact

\* Every loop and every run ends: no worker spins for ever on an entry others keep
\* changing, and stopping the input at LOWER_TH outstanding tasks blocks nobody.
TasksEnd == /\ on = "workers" => Alone!LoopEnds
            /\ on = "long" => LongRun!RunEnds
==============================================================================
