--------------------------- MODULE MacroDataflow ---------------------------
(***************************************************************************)
(* FastFlow's macro data-flow executor (mdf.hpp, task_internals.hpp).  A    *)
(* user function (GD) describes tasks one after the other, each with the    *)
(* data it reads and writes; a scheduler, the emitter of a farm without     *)
(* collector, derives from them which tasks wait for which, and gives a     *)
(* task to a worker when nothing it waits for is left.  The workers give    *)
(* the tasks back on their feedback channels.  A call of the scheduler's    *)
(* svc is one step: it touches nothing that a worker reads except by        *)
(* putting tasks in its channel.                                            *)
(***************************************************************************)
EXTENDS Integers, Sequences, FiniteSets, SequencesExt, FiniteSetsExt, Functions

CONSTANTS
  Tags,        \* the data
  Programs,    \* sequences of tasks; a task is a sequence of [tag, dir]
  NWorkers,
  Top(_, _),   \* compare_t: the task at the top of a ready queue
  LOWER_TH,    \* outstanding tasks at which the input stops
  QSize,       \* capacity of the channel from GD
  maxMsgs,     \* messages GD writes in turn
  Runs         \* bound: calls of run_then_freeze

MdfAssumption ==
  /\ NWorkers \in Nat \ {0} /\ LOWER_TH \in Nat \ {0}
  /\ QSize \in Nat \ {0} /\ maxMsgs \in Nat \ {0} /\ Runs \in Nat

EOS == -1       \* end of stream
END == -2       \* GD's END task
None == 0       \* tasks have numbers from 1 on

Workers == 0 .. NWorkers - 1

VARIABLES
  program,
  gd, slot, written, TASKS,    \* GD: the task it is at, and its messages
  inq,                         \* its channel: indices of messages, and EOS
  run,                         \* calls of run_then_freeze; 0 in the constructor
  sched, in_active,            \* the scheduler's tables, and its input switch
  gd_ended, task_numb, task_completed,
  lbpc, popped, nw, absorbed,  \* the balancer, and the ends of stream it counts
  q, back, wpc,                \* the channels to and from the workers, and the workers
  inserted, finished           \* of this run: tasks inserted, in order, and executed

gdVars == <<gd, slot, written, TASKS>>
counters == <<in_active, gd_ended, task_numb, task_completed>>
balancer == <<lbpc, popped, nw, absorbed>>
channels == <<q, back>>
vars == <<program, gdVars, inq, run, sched, counters, balancer, channels, wpc,
          inserted, finished>>

\* FoldLeft with the intermediate results as values, each computed once.
Fold(op(_, _), base, seq) ==
  FoldLeft(LAMBDA x, e : CHOOSE r \in {op(y, e) : y \in {x}} : TRUE, base, seq)

-----------------------------------------------------------------------------
(* The scheduler's tables: task_set and address_set, the ready queues, and   *)
(* the tasks sent in this call.                                              *)

EmptyTables ==
  [tasks |-> <<>>, addr |-> [d \in Tags |-> None], id |-> 1,
   ready |-> [w \in Workers |-> {}], nsched |-> [w \in Workers |-> 0],
   m |-> 0, mmax |-> 0, sent |-> <<>>, failed |-> FALSE]

NewTask(status, place) ==
  [status |-> status, dep |-> 0, unblock |-> <<>>, num_out |-> 0, place |-> place]

\* Task t unblocks act; setDep: and act waits for it.
Unblocks(s, t, act) == [s EXCEPT !.tasks[t].unblock = Append(@, act)]
SetDep(s, t, act) == [Unblocks(s, t, act) EXCEPT !.tasks[act].dep = @ + 1]

Without(s, t) == [s EXCEPT !.tasks = Restrict(@, DOMAIN @ \ {t})]

\* A reader waits for the last writer; where there is none, a finished dummy
\* stands for it and remembers its readers.
Input(s, act, d) ==
  LET t == s.addr[d]
  IN  IF t = None
      THEN [s EXCEPT
             !.tasks = @ @@ (s.id :> [NewTask("DONE", 0) EXCEPT !.unblock = <<act>>, !.num_out = 1]),
             !.addr[d] = s.id, !.id = @ + 1]
      ELSE IF s.tasks[t].status # "DONE" THEN SetDep(s, t, act) ELSE Unblocks(s, t, act)

\* Seeded fault: a writer waits for the last writer and not for its readers.
OutputIgnoresReaders(s, act, d) ==
  LET t == s.addr[d]
      waiting == IF t # None /\ s.tasks[t].status # "DONE" THEN SetDep(s, t, act) ELSE s
      released == IF t = None THEN waiting ELSE [waiting EXCEPT !.tasks[t].num_out = @ - 1]
      kept == IF t # None /\ released.tasks[t].status = "DONE"
                 /\ released.tasks[t].num_out = 0
              THEN Without(released, t) ELSE released
  IN  [kept EXCEPT !.addr[d] = act, !.tasks[act].num_out = @ + 1]

\* A writer waits for the readers of what it overwrites that are not done, or,
\* when nobody reads it, for its writer; the writer forgotten by everybody goes.
Output(s, act, d) ==
  LET t == s.addr[d]
      readers == SelectSeq(s.tasks[t].unblock, LAMBDA r :
                   r \in DOMAIN s.tasks /\ r # act /\ s.tasks[r].status # "DONE")
      waiting == IF t = None THEN s
                 ELSE IF s.tasks[t].unblock # <<>>
                 THEN Fold(LAMBDA x, r : SetDep(x, r, act), s, readers)
                 ELSE IF s.tasks[t].status # "DONE" THEN SetDep(s, t, act) ELSE s
      released == IF t = None THEN waiting ELSE [waiting EXCEPT !.tasks[t].num_out = @ - 1]
      kept == IF t # None /\ released.tasks[t].status = "DONE"
                 /\ released.tasks[t].num_out = 0
              THEN Without(released, t) ELSE released
  IN  [kept EXCEPT !.addr[d] = act, !.tasks[act].num_out = @ + 1]

InsertTask(s, params, place) ==
  LET act == s.id
      new == [s EXCEPT !.tasks = @ @@ (act :> NewTask("NOT_READY", place)), !.id = @ + 1]
      x == Fold(LAMBDA y, p : IF p.dir = "INPUT" THEN Input(y, act, p.tag)
                                  ELSE Output(y, act, p.tag), new, params)
  IN  IF x.tasks[act].dep > 0 THEN x
      ELSE [x EXCEPT !.tasks[act].status = "READY",
                     !.ready[x.m] = @ \union {act}, !.m = (@ + 1) % NWorkers]

\* The top of queue j goes to worker i.
SendTop(s, i, j) ==
  LET t == Top(s.ready[j], s.tasks)
  IN  [s EXCEPT !.ready[j] = @ \ {t}, !.nsched[i] = @ + 1, !.sent = Append(@, <<i, t>>),
                !.failed = @ \/ s.tasks[t].status # "READY"]

\* schedule_task(th): a worker with no more than th tasks gets one of its own
\* ready queue, or of the next queue that has one.
ScheduleTask(s, th) ==
  LET Serve(x, i) ==
        IF x.nsched[i] > th \/ (\A j \in Workers : x.ready[j] = {}) THEN x
        ELSE IF x.ready[i] # {} THEN SendTop(x, i, i)
        ELSE LET k == Min({n \in Workers : x.ready[(x.mmax + n) % NWorkers] # {}})
             IN  [SendTop(x, i, (x.mmax + k) % NWorkers)
                    EXCEPT !.mmax = (x.mmax + k + 1) % NWorkers]
  IN  Fold(Serve, s, [i \in 1 .. NWorkers |-> i - 1])

\* One task less to wait for.
Unblock(s, t, w) ==
  IF t \notin DOMAIN s.tasks THEN [s EXCEPT !.failed = TRUE]
  ELSE LET x == [s EXCEPT !.tasks[t].dep = @ - 1]
       IN  IF x.tasks[t].dep = 0 /\ x.tasks[t].status = "NOT_READY"
           THEN [x EXCEPT !.tasks[t].status = "READY", !.ready[w] = @ \union {t}]
           ELSE x

\* handleCompletedTask, handleTask: a finished task lives on while it is the last
\* writer of something.
HandleCompletedTask(s, t, w) ==
  LET x == Fold(LAMBDA y, u : Unblock(y, u, w),
                    [s EXCEPT !.nsched[w] = @ - 1], s.tasks[t].unblock)
      done == [ScheduleTask(x, 0) EXCEPT !.tasks[t].status = "DONE"]
  IN  IF done.tasks[t].num_out = 0 THEN Without(done, t) ELSE done

-----------------------------------------------------------------------------
(* The constructor's run: GD is not active yet and ends its stream at once.  *)
Init ==
  /\ program \in Programs
  /\ gd = EOS /\ slot = 0 /\ written = FALSE
  /\ TASKS = [i \in 0 .. maxMsgs - 1 |-> None] /\ inq = <<>>
  /\ run = 0
  /\ sched = EmptyTables /\ in_active = TRUE /\ gd_ended = FALSE
  /\ task_numb = 0 /\ task_completed = 0
  /\ lbpc = "loop" /\ popped = None /\ nw = NWorkers + 1 /\ absorbed = 0
  /\ q = [w \in Workers |-> <<>>] /\ back = [w \in Workers |-> <<>>]
  /\ wpc = [w \in Workers |-> None]
  /\ inserted = <<>> /\ finished = {}

-----------------------------------------------------------------------------
(* GD: the user's function, whose AddTask calls are alloc_and_send, and then *)
(* the END task and the end of stream.                                       *)

\* The message is written before there is room for it in the channel.
AllocTask ==
  /\ gd \in 1 .. Len(program) \union {END} /\ ~written
  /\ TASKS' = [TASKS EXCEPT ![slot] = gd]
  /\ written' = TRUE
  /\ UNCHANGED <<program, gd, slot, inq, run, sched, counters, balancer, channels, wpc,
                 inserted, finished>>

NextSlot == (slot + 1) % maxMsgs

Room == Len(inq) < QSize

Send ==
  /\ written /\ Room
  /\ inq' = Append(inq, slot)
  /\ written' = FALSE
  /\ slot' = NextSlot
  /\ gd' = IF gd = END THEN EOS ELSE IF gd < Len(program) THEN gd + 1 ELSE END
  /\ UNCHANGED <<program, TASKS, run, sched, counters, balancer, channels, wpc,
                 inserted, finished>>

SendEos ==
  /\ gd = EOS /\ Room
  /\ inq' = Append(inq, EOS)
  /\ gd' = None
  /\ UNCHANGED <<program, slot, written, TASKS, run, sched, counters, balancer, channels, wpc,
                 inserted, finished>>

-----------------------------------------------------------------------------
(* The balancer and its scheduler *)

EosToAll == [w \in Workers |-> Append(q[w], EOS)]

\* The tasks of this call go to their workers, and the call is over.
Dispatch(s) ==
  /\ q' = [w \in Workers |->
             q[w] \o [i \in 1 .. Len(SelectSeq(s.sent, LAMBDA x : x[1] = w)) |->
                        SelectSeq(s.sent, LAMBDA x : x[1] = w)[i][2]]]
  /\ sched' = [s EXCEPT !.sent = <<>>]

\* One end of stream less to come: after the last one the thread freezes.
CountEos == nw' = nw - 1 /\ lbpc' = IF nw' = 0 THEN "frozen" ELSE "loop"

\* A message; or the end of stream, which eosnotify broadcasts.
PopInput ==
  /\ lbpc = "loop" /\ in_active /\ inq # <<>>
  /\ inq' = Tail(inq)
  /\ IF Head(inq) = EOS
     THEN CountEos /\ q' = EosToAll /\ UNCHANGED popped
     ELSE popped' = Head(inq) /\ lbpc' = "svc" /\ UNCHANGED <<nw, q>>
  /\ UNCHANGED <<program, gdVars, run, sched, counters, absorbed, back, wpc,
                 inserted, finished>>

Done(completed, ended) == task_numb = completed /\ ended

\* svc returns EOS: the workers get it, and give it back.
End == lbpc' = "absorb" /\ absorbed' = 0

\* svc of a message: the END task closes the input, a task is inserted.
SvcInput ==
  /\ lbpc = "svc"
  /\ LET place == TASKS[popped]
         s == InsertTask(sched, program[place], place)
     IN  IF place = END
         THEN /\ gd_ended' = TRUE /\ in_active' = FALSE
              /\ IF Done(task_completed, TRUE)
                 THEN End /\ q' = EosToAll
                 ELSE lbpc' = "loop" /\ UNCHANGED <<absorbed, q>>
              /\ UNCHANGED <<sched, task_numb, inserted>>
         ELSE /\ task_numb' = task_numb + 1
              /\ inserted' = Append(inserted, place)
              /\ Dispatch(ScheduleTask(s, 0))
              /\ in_active' = (in_active /\ task_numb' - task_completed <= LOWER_TH)
              /\ lbpc' = "loop"
              /\ UNCHANGED <<gd_ended, absorbed>>
  /\ UNCHANGED <<program, gdVars, inq, run, task_completed, popped, nw, back, wpc, finished>>

\* Seeded fault: the test that stops the input.
FewOutSwapped == task_numb - task_completed > LOWER_TH

FewOut == task_numb - task_completed < LOWER_TH

\* svc without a task: nothing came back, and the input is off.
SvcNull ==
  /\ lbpc = "loop" /\ ~in_active
  /\ ~gd_ended /\ FewOut
  /\ in_active' = TRUE
  /\ UNCHANGED <<program, gdVars, inq, run, sched, gd_ended, task_numb, task_completed,
                 balancer, channels, wpc, inserted, finished>>

\* svc of a finished task; or the worker's end of stream, again broadcast.
SvcResult(w) ==
  /\ lbpc = "loop" /\ back[w] # <<>>
  /\ back' = [back EXCEPT ![w] = Tail(@)]
  /\ IF Head(back[w]) = EOS
     THEN CountEos /\ q' = EosToAll /\ UNCHANGED <<sched, task_completed, absorbed>>
     ELSE LET s == ScheduleTask(HandleCompletedTask(sched, Head(back[w]), w), 1)
          IN  /\ task_completed' = task_completed + 1
              /\ IF Done(task_completed', gd_ended)
                 THEN End /\ q' = EosToAll /\ sched' = s
                 ELSE Dispatch(s) /\ lbpc' = "loop" /\ UNCHANGED absorbed
              /\ UNCHANGED nw
  /\ UNCHANGED <<program, gdVars, inq, run, in_active, gd_ended, task_numb, popped, wpc,
                 inserted, finished>>

\* absorb_eos takes one item of each worker and asserts that it is the end of stream.
Absorb ==
  /\ lbpc = "absorb"
  /\ IF absorbed < NWorkers
     THEN /\ back[absorbed] # <<>>
          /\ back' = [back EXCEPT ![absorbed] = Tail(@)]
          /\ sched' = [sched EXCEPT !.failed = @ \/ Head(back[absorbed]) # EOS]
          /\ absorbed' = absorbed + 1 /\ UNCHANGED lbpc
     ELSE lbpc' = "frozen" /\ UNCHANGED <<back, sched, absorbed>>
  /\ UNCHANGED <<program, gdVars, inq, run, counters, popped, nw, q, wpc, inserted, finished>>

-----------------------------------------------------------------------------
(* The workers, and the owner *)

\* A worker takes a task; or the end of stream, gives it back and freezes.
Take(w) ==
  /\ wpc[w] = None /\ q[w] # <<>>
  /\ q' = [q EXCEPT ![w] = Tail(@)]
  /\ wpc' = [wpc EXCEPT ![w] = Head(q[w])]
  /\ back' = IF Head(q[w]) = EOS THEN [back EXCEPT ![w] = Append(@, EOS)] ELSE back
  /\ UNCHANGED <<program, gdVars, inq, run, sched, counters, balancer, inserted, finished>>

Execute(w) ==
  /\ wpc[w] \notin {None, EOS}
  /\ back' = [back EXCEPT ![w] = Append(@, wpc[w])]
  /\ wpc' = [wpc EXCEPT ![w] = None]
  /\ finished' = finished \union {sched.tasks[wpc[w]].place}
  /\ UNCHANGED <<program, gdVars, inq, run, sched, counters, balancer, q, inserted>>

Frozen == gd = None /\ lbpc = "frozen" /\ \A w \in Workers : wpc[w] = EOS

\* run_then_freeze after wait_freezing; the constructor empties the channels.
Start ==
  /\ Frozen /\ run < Runs
  /\ run' = run + 1
  /\ gd' = IF program = <<>> THEN END ELSE 1
  /\ IF run = 0
     THEN /\ inq' = <<>>
          /\ q' = [w \in Workers |-> <<>>] /\ back' = [w \in Workers |-> <<>>]
     ELSE UNCHANGED <<inq, channels>>
  /\ sched' = EmptyTables /\ in_active' = TRUE /\ gd_ended' = FALSE
  /\ task_numb' = 0 /\ task_completed' = 0
  /\ lbpc' = "loop" /\ nw' = NWorkers + 1 /\ absorbed' = 0
  /\ wpc' = [w \in Workers |-> None]
  /\ inserted' = <<>> /\ finished' = {}
  /\ UNCHANGED <<program, slot, written, TASKS, popped>>

GD == AllocTask \/ Send \/ SendEos

Scheduler == PopInput \/ SvcInput \/ SvcNull \/ (\E w \in Workers : SvcResult(w)) \/ Absorb

Next == GD \/ Scheduler \/ (\E w \in Workers : Take(w) \/ Execute(w)) \/ Start

Spec == Init /\ [][Next]_vars

\* The threads run, and collect_task looks at every channel in turn, at the input
\* last.
FairSpec ==
  /\ Spec
  /\ WF_vars(GD) /\ WF_vars(PopInput) /\ WF_vars(SvcInput) /\ WF_vars(SvcNull) /\ WF_vars(Absorb)
  /\ \A w \in Workers : WF_vars(SvcResult(w)) /\ WF_vars(Take(w) \/ Execute(w))
  /\ WF_vars(Start)

-----------------------------------------------------------------------------
(* Properties *)

Given(w) == (ToSet(q[w]) \union {wpc[w]}) \ {EOS, None}

\* Type correctness.
TypeOK ==
  /\ Len(inq) <= QSize
  /\ \A t \in DOMAIN sched.tasks :
       /\ sched.tasks[t].status \in {"NOT_READY", "READY", "DONE"}
       /\ sched.tasks[t].dep >= 0 /\ sched.tasks[t].num_out >= 0
  /\ sched.nsched \in [Workers -> 0 .. 2]
  /\ lbpc \in {"loop", "svc", "absorb", "frozen"}

Conflict(a, b) ==
  \E i \in DOMAIN a, j \in DOMAIN b :
    a[i].tag = b[j].tag /\ "OUTPUT" \in {a[i].dir, b[j].dir}

\* A worker is given a task only when every earlier task that writes what it reads
\* or writes, or reads what it writes, has been executed: the tasks in parallel do
\* what the user's function would do in sequence.
InDataOrder ==
  \A w \in Workers : \A t \in Given(w) :
    /\ t \in DOMAIN sched.tasks
    /\ LET k == sched.tasks[t].place
       IN  \A j \in 1 .. k - 1 : Conflict(program[j], program[k]) => j \in finished

\* The assertions of handleTask, schedule_task and absorb_eos hold.
AssertionsHold == ~sched.failed

\* The tables keep what is needed and forget the rest: num_out is the number of
\* data of which the task is the last writer, no table names a forgotten task, and
\* a finished task is kept exactly while it is somebody's last writer.
TablesExact ==
  /\ \A d \in Tags : sched.addr[d] \in DOMAIN sched.tasks \union {None}
  /\ \A t \in DOMAIN sched.tasks :
       /\ sched.tasks[t].num_out = Cardinality({d \in Tags : sched.addr[d] = t})
       /\ sched.tasks[t].status = "DONE" => sched.tasks[t].num_out > 0

\* GD writes the messages in turn, again and again, and none that the scheduler has
\* yet to read (mdf.hpp:200: "TASKS must be greater than pipe's queue!").
MessageIntact == inserted = [i \in 1 .. Len(inserted) |-> i]

\* A run ends when every task has been executed, and not before.
RunComplete == Frozen /\ run > 0 => finished = 1 .. Len(program)

\* "we don't want to read FF_EOS" (mdf.hpp:151): in the user's runs the scheduler
\* goes by the END task, and the balancer reads no end of stream.
NoEosRead == run > 0 => nw = NWorkers + 1

\* Every run ends: stopping the input at LOWER_TH outstanding tasks blocks nobody.
RunEnds == <>(Frozen /\ run = Runs)
=============================================================================
