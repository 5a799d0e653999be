----------------------------- MODULE CannealFarm -----------------------------
(***************************************************************************)
(* The FastFlow version of canneal (annealer_thread_ff.cpp): a farm with     *)
(* feedback whose emitter broadcasts a task per temperature step, collects   *)
(* one answer of every worker and decides from their counters, run by the    *)
(* master-worker loop of the load balancer (lb.hpp).                         *)
(***************************************************************************)
EXTENDS Integers, Sequences, FiniteSets

CONSTANTS
  NWorkers,             \* workers are 1 .. NWorkers
  Moves,                \* moves of a worker in a temperature step
  Converging,           \* _number_temp_steps is -1: run until the design converges
  _number_temp_steps,
  MaxSteps              \* bound: an improving step number MaxSteps is left out

WorkersAssumption == NWorkers \in Nat \ {0}
StepsAssumption ==
  Moves \in Nat \ {0} /\ MaxSteps \in Nat
  /\ Converging \in BOOLEAN /\ _number_temp_steps \in 1 .. MaxSteps

Workers == 1 .. NWorkers

VARIABLES
  in,        \* channel from the load balancer to each worker
  back,      \* feedback channel of each worker
  wpc,       \* the workers
  cooled,    \* temperature steps begun: T was divided so often by 1.5
  allTasks,  \* the counters each worker left
  lpc,       \* the load balancer: what it does
  sending,   \* broadcast_task: what is broadcast, and to which worker next
  tasksRcvd, temp_steps_completed, _keep_going_global_flag, _firstRun  \* the emitter

channels == <<in, back>>
workers == <<wpc, cooled, allTasks>>
emitter == <<tasksRcvd, temp_steps_completed, _keep_going_global_flag, _firstRun>>
vars == <<channels, workers, lpc, sending, emitter>>

Init ==
  /\ in = [w \in Workers |-> <<>>] /\ back = [w \in Workers |-> <<>>]
  /\ wpc = [w \in Workers |-> "pop"]
  /\ cooled = [w \in Workers |-> 0]
  /\ allTasks = [w \in Workers |-> [good |-> 0, bad |-> -1]]
  /\ lpc = "svc" /\ sending = [task |-> "dummy", to |-> 1]
  /\ tasksRcvd = 0 /\ temp_steps_completed = 0
  /\ _keep_going_global_flag = TRUE /\ _firstRun = TRUE

-----------------------------------------------------------------------------
(* A worker *)

\* thWorker pops a task and svc begins with the next temperature; an end of stream
\* is passed on and ends the worker.
Pop(w) ==
  /\ wpc[w] = "pop" /\ in[w] # <<>>
  /\ in' = [in EXCEPT ![w] = Tail(@)]
  /\ IF Head(in[w]) = "EOS"
     THEN /\ wpc' = [wpc EXCEPT ![w] = "end"]
          /\ back' = [back EXCEPT ![w] = Append(@, "EOS")]
          /\ UNCHANGED cooled
     ELSE /\ wpc' = [wpc EXCEPT ![w] = "moves"]
          /\ cooled' = [cooled EXCEPT ![w] = @ + 1]
          /\ UNCHANGED back
  /\ UNCHANGED <<allTasks, lpc, sending, emitter>>

\* The rest of svc: the moves, and the counters into the worker's own slot.
svc(w) ==
  /\ wpc[w] = "moves"
  /\ \E good, bad \in 0 .. Moves :
       /\ good + bad <= Moves
       /\ cooled[w] = MaxSteps => good <= bad
       /\ allTasks' = [allTasks EXCEPT ![w] = [good |-> good, bad |-> bad]]
  /\ wpc' = [wpc EXCEPT ![w] = "push"]
  /\ UNCHANGED <<channels, cooled, lpc, sending, emitter>>

\* The answer goes back to the load balancer.
Push(w) ==
  /\ wpc[w] = "push"
  /\ back' = [back EXCEPT ![w] = Append(@, "dummy")]
  /\ wpc' = [wpc EXCEPT ![w] = "pop"]
  /\ UNCHANGED <<in, cooled, allTasks, lpc, sending, emitter>>

-----------------------------------------------------------------------------
(* The load balancer and the emitter *)

\* Seeded fault: the answers are not counted from zero again.
EmitterKeepsCount ==
  /\ lpc = "svc" /\ UNCHANGED <<channels, workers>>
  /\ \/ /\ _firstRun
        /\ _firstRun' = FALSE
        /\ lpc' = "broadcast" /\ sending' = [task |-> "dummy", to |-> 1]
        /\ UNCHANGED <<tasksRcvd, temp_steps_completed, _keep_going_global_flag>>
     \/ /\ ~_firstRun /\ tasksRcvd + 1 < NWorkers
        /\ tasksRcvd' = tasksRcvd + 1 /\ lpc' = "collect"
        /\ UNCHANGED <<sending, temp_steps_completed, _keep_going_global_flag, _firstRun>>
     \/ /\ ~_firstRun /\ tasksRcvd + 1 >= NWorkers
        /\ tasksRcvd' = tasksRcvd + 1
        /\ temp_steps_completed' = temp_steps_completed + 1
        /\ lpc' = "keep_going" /\ sending' = [sending EXCEPT !.to = 1]
        /\ UNCHANGED <<_keep_going_global_flag, _firstRun>>

\* Emitter::svc: the first call starts the workers; later the answers are counted,
\* and when the last one is there the emitter looks at every worker's counters.
Emitter ==
  /\ lpc = "svc" /\ UNCHANGED <<channels, workers>>
  /\ \/ /\ _firstRun
        /\ _firstRun' = FALSE
        /\ lpc' = "broadcast" /\ sending' = [task |-> "dummy", to |-> 1]
        /\ UNCHANGED <<tasksRcvd, temp_steps_completed, _keep_going_global_flag>>
     \/ /\ ~_firstRun /\ tasksRcvd + 1 # NWorkers
        /\ tasksRcvd' = tasksRcvd + 1 /\ lpc' = "collect"
        /\ UNCHANGED <<sending, temp_steps_completed, _keep_going_global_flag, _firstRun>>
     \/ /\ ~_firstRun /\ tasksRcvd + 1 = NWorkers
        /\ tasksRcvd' = 0
        /\ temp_steps_completed' = temp_steps_completed + 1
        /\ lpc' = "keep_going" /\ sending' = [sending EXCEPT !.to = 1]
        /\ UNCHANGED <<_keep_going_global_flag, _firstRun>>

KeepsGoing(w) ==
  IF Converging THEN _keep_going_global_flag /\ allTasks[w].good > allTasks[w].bad
  ELSE temp_steps_completed < _number_temp_steps

\* keep_going for one worker after the other; the first no ends the stream.
keep_going ==
  /\ lpc = "keep_going"
  /\ LET w == sending.to
         rv == KeepsGoing(w)
     IN /\ _keep_going_global_flag' = (_keep_going_global_flag /\ (Converging => rv))
        /\ IF rv /\ w < NWorkers
           THEN sending' = [sending EXCEPT !.to = w + 1] /\ UNCHANGED lpc
           ELSE /\ sending' = [task |-> IF rv THEN "dummy" ELSE "EOS", to |-> 1]
                /\ lpc' = "broadcast"
  /\ UNCHANGED <<channels, workers, tasksRcvd, temp_steps_completed, _firstRun>>

\* broadcast_task: into one worker's channel after the other (ChannelsHoldOne says
\* why none is ever full).  After the end of stream the load balancer ends.
broadcast_task ==
  /\ lpc = "broadcast"
  /\ in' = [in EXCEPT ![sending.to] = Append(@, sending.task)]
  /\ IF sending.to < NWorkers
     THEN sending' = [sending EXCEPT !.to = @ + 1] /\ UNCHANGED lpc
     ELSE lpc' = (IF sending.task = "EOS" THEN "end" ELSE "collect") /\ UNCHANGED sending
  /\ UNCHANGED <<back, workers, emitter>>

\* Seeded fault: the emitter starts over while the answers are still coming.
collect_taskKeeps(w) ==
  /\ lpc = "collect" /\ back[w] # <<>>
  /\ lpc' = "svc"
  /\ UNCHANGED <<channels, workers, sending, emitter>>

\* collect_task: an answer of any worker, and the emitter is called.
collect_task(w) ==
  /\ lpc = "collect" /\ back[w] # <<>>
  /\ back' = [back EXCEPT ![w] = Tail(@)]
  /\ lpc' = "svc"
  /\ UNCHANGED <<in, workers, sending, emitter>>

Balancer == Emitter \/ keep_going \/ broadcast_task \/ \E w \in Workers : collect_task(w)

Worker(w) == Pop(w) \/ svc(w) \/ Push(w)

Next == Balancer \/ \E w \in Workers : Worker(w)

Spec == Init /\ [][Next]_vars

\* The threads run.
FairSpec == Spec /\ WF_vars(Balancer) /\ \A w \in Workers : WF_vars(Worker(w))

-----------------------------------------------------------------------------
(* Properties *)

TypeOK ==
  /\ in \in [Workers -> Seq({"dummy", "EOS"})] /\ back \in [Workers -> Seq({"dummy", "EOS"})]
  /\ wpc \in [Workers -> {"pop", "moves", "push", "end"}]
  /\ cooled \in [Workers -> 0 .. MaxSteps]
  /\ allTasks \in [Workers -> [good : 0 .. Moves, bad : -1 .. Moves]]
  /\ lpc \in {"svc", "keep_going", "broadcast", "collect", "end"}
  /\ sending \in [task : {"dummy", "EOS"}, to : Workers]
  /\ tasksRcvd \in 0 .. NWorkers - 1
  /\ temp_steps_completed \in 0 .. MaxSteps
  /\ _keep_going_global_flag \in BOOLEAN /\ _firstRun \in BOOLEAN

\* While the emitter decides, no worker moves elements or writes its counters, no
\* task and no answer is under way, and every worker did the step that is judged:
\* the counters, which no lock protects, are all of the same step.
DecidesAtRest ==
  lpc = "keep_going" =>
    \A w \in Workers : /\ wpc[w] = "pop" /\ in[w] = <<>> /\ back[w] = <<>>
                       /\ cooled[w] = temp_steps_completed

\* A channel holds at most one message before the stream ends, and none is pushed
\* into a full one: broadcast_task needs no second try.
ChannelsHoldOne == \A w \in Workers : Len(in[w]) <= 1 /\ Len(back[w]) <= 1

\* The farm implements the lockstep of the pthreads version's barrier.
Lockstep == INSTANCE Annealing WITH
  Threads <- Workers, steps <- cooled,
  over <- lpc = "end" \/ (lpc = "broadcast" /\ sending.task = "EOS")

ImplementsAnnealing == Lockstep!Spec

\* All threads end, also when only one worker says that the design has converged.
Ended == lpc = "end" /\ \A w \in Workers : wpc[w] = "end"
AllEnd == <>Ended

\* With a fixed number of steps, each worker does that many.
AsManySteps ==
  ~Converging /\ lpc = "end" => \A w \in Workers : cooled[w] = _number_temp_steps

\* The counters, which no lock protects, are judged at rest and of the same step,
\* broadcast_task needs no second try, and who is asked for a number of steps does
\* that many.
JudgedAtRest == TypeOK /\ DecidesAtRest /\ ChannelsHoldOne /\ AsManySteps
=============================================================================
