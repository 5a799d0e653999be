---------------------------- MODULE Farms_proofs ----------------------------
(***************************************************************************)
(* Proofs about farms of workers and the kernels that run on them.  The      *)
(* annealing farm of canneal, for any number of workers, whether it runs a   *)
(* fixed number of temperature steps or until the design converges, and the  *)
(* pthreads version for a fixed number.  The pipelines of ferret on pthreads *)
(* and on FastFlow, for any number of images, threads and workers.  And the  *)
(* farm of FastFlow in blocking mode.                                       *)
(***************************************************************************)
EXTENDS CannealFarm, FiniteSetTheorems, TLAPS

Assumptions == WorkersAssumption /\ StepsAssumption

\* The temperature steps after which no worker improves the design any more.
LastStep == IF Converging THEN MaxSteps ELSE _number_temp_steps

\* A worker that did the last step completed and was told nothing since.
Resting(w) ==
  /\ wpc[w] = "pop" /\ in[w] = <<>> /\ back[w] = <<>>
  /\ cooled[w] = temp_steps_completed

\* One that has been told to do the next step and whose answer was not collected.
Working(w) ==
  \/ /\ wpc[w] = "pop" /\ in[w] = <<"dummy">> /\ back[w] = <<>>
     /\ cooled[w] = temp_steps_completed
  \/ /\ wpc[w] \in {"moves", "push"} /\ in[w] = <<>> /\ back[w] = <<>>
     /\ cooled[w] = temp_steps_completed + 1
  \/ /\ wpc[w] = "pop" /\ in[w] = <<>> /\ back[w] = <<"dummy">>
     /\ cooled[w] = temp_steps_completed + 1

\* One whose answer was collected.
Answered(w) ==
  /\ wpc[w] = "pop" /\ in[w] = <<>> /\ back[w] = <<>>
  /\ cooled[w] = temp_steps_completed + 1

\* One that has been told that the stream ended.
Leaving(w) ==
  /\ cooled[w] = temp_steps_completed
  /\ \/ wpc[w] = "pop" /\ in[w] = <<"EOS">> /\ back[w] = <<>>
     \/ wpc[w] = "end" /\ in[w] = <<>> /\ back[w] = <<"EOS">>

AnsweredSet == {w \in Workers : Answered(w)}

\* The counters of a worker that did the last step that may improve say so.
Settled ==
  \A w \in Workers : wpc[w] # "moves" /\ cooled[w] = MaxSteps
                       => allTasks[w].good <= allTasks[w].bad

Starting ==
  _firstRun =>
    /\ lpc = "svc" /\ tasksRcvd = 0 /\ temp_steps_completed = 0
    /\ \A w \in Workers : Resting(w)

\* The workers before the one that comes next have been told.
Telling ==
  lpc = "broadcast" =>
    /\ tasksRcvd = 0
    /\ \A w \in Workers :
         IF w >= sending.to THEN Resting(w)
         ELSE IF sending.task = "dummy" THEN Working(w) ELSE Leaving(w)

\* tasksRcvd counts the answers, but for the one that svc was just called with.
Collecting ==
  ~_firstRun /\ lpc \in {"collect", "svc"} =>
    /\ \A w \in Workers : Working(w) \/ Answered(w)
    /\ Cardinality(AnsweredSet) = tasksRcvd + (IF lpc = "svc" THEN 1 ELSE 0)

Deciding == lpc = "keep_going" => tasksRcvd = 0 /\ \A w \in Workers : Resting(w)

Over == lpc = "end" => \A w \in Workers : Leaving(w)

\* A step is being done, or about to be.
Going == \/ lpc \in {"collect", "svc"}
         \/ lpc = "broadcast" /\ sending.task = "dummy"

\* It has been decided to stop.
Stopping == lpc = "end" \/ (lpc = "broadcast" /\ sending.task = "EOS")

\* No step past the last one is begun, and a fixed number of steps is done.
InBounds ==
  /\ temp_steps_completed <= LastStep
  /\ Going => temp_steps_completed < LastStep
  /\ ~Converging /\ Stopping => temp_steps_completed = _number_temp_steps

\* The inductive invariant.
IInv ==
  /\ TypeOK
  /\ Settled
  /\ Starting
  /\ Telling
  /\ Collecting
  /\ Deciding
  /\ Over
  /\ InBounds

-----------------------------------------------------------------------------
(* The inductive invariant *)

\* At first every worker rests.
LEMMA InitIInv == ASSUME Assumptions, Init PROVE IInv
<1> USE DEF Assumptions, WorkersAssumption, StepsAssumption
<1>1. 1 \in Workers /\ MaxSteps \in Nat \ {0} /\ 0 < LastStep /\ 0 <= LastStep
  BY DEF Workers, LastStep
<1>2. TypeOK
  <2>1. /\ in \in [Workers -> Seq({"dummy", "EOS"})]
        /\ back \in [Workers -> Seq({"dummy", "EOS"})]
    BY DEF Init
  <2>2. cooled \in [Workers -> 0 .. MaxSteps]
    BY <1>1 DEF Init
  <2>3. allTasks \in [Workers -> [good : 0 .. Moves, bad : -1 .. Moves]]
    <3>1. [good |-> 0, bad |-> -1] \in [good : 0 .. Moves, bad : -1 .. Moves]
      BY <1>1
    <3> QED BY <3>1 DEF Init
  <2>4. sending \in [task : {"dummy", "EOS"}, to : Workers]
    BY <1>1 DEF Init
  <2>5. /\ wpc \in [Workers -> {"pop", "moves", "push", "end"}]
        /\ lpc \in {"svc", "keep_going", "broadcast", "collect", "end"}
        /\ tasksRcvd \in 0 .. NWorkers - 1 /\ temp_steps_completed \in 0 .. MaxSteps
    BY <1>1 DEF Init
  <2>6. _keep_going_global_flag \in BOOLEAN /\ _firstRun \in BOOLEAN
    BY DEF Init
  <2> QED BY <2>1, <2>2, <2>3, <2>4, <2>5, <2>6 DEF TypeOK
<1>3. Starting /\ Telling /\ Collecting /\ Deciding /\ Over
  BY DEF Init, Starting, Telling, Collecting, Deciding, Over, Resting
<1>4. Settled /\ InBounds
  BY <1>1 DEF Init, Settled, InBounds, Going, Stopping
<1> QED BY <1>2, <1>3, <1>4 DEF IInv

\* What a step of worker w may change: what is its own.
LEMMA OwnOnly ==
  ASSUME TypeOK, NEW w \in Workers, Worker(w)
  PROVE  /\ \A v \in Workers \ {w} :
              /\ in'[v] = in[v] /\ back'[v] = back[v] /\ wpc'[v] = wpc[v]
              /\ cooled'[v] = cooled[v] /\ allTasks'[v] = allTasks[v]
         /\ UNCHANGED <<lpc, sending, emitter>>
BY DEF Worker, Pop, svc, Push, TypeOK, channels, workers

\* Wherever the load balancer is, a worker is in one of four states.
LEMMA FourStates ==
  ASSUME Assumptions, IInv, NEW w \in Workers
  PROVE  Resting(w) \/ Answered(w) \/ (Working(w) /\ Going) \/ (Leaving(w) /\ Stopping)
BY DEF IInv, TypeOK, Starting, Telling, Collecting, Deciding, Over, Going, Stopping

\* A worker moves only between being told and being asked: its step leaves it
\* working, or leaving.
LEMMA WorkerKeeps ==
  ASSUME Assumptions, IInv, NEW w \in Workers, Worker(w)
  PROVE  \/ Working(w) /\ Working(w)' /\ Going
         \/ Leaving(w) /\ Leaving(w)' /\ Stopping /\ cooled'[w] = cooled[w]
<1>1. /\ in \in [Workers -> Seq({"dummy", "EOS"})]
      /\ back \in [Workers -> Seq({"dummy", "EOS"})]
      /\ wpc \in [Workers -> {"pop", "moves", "push", "end"}]
      /\ cooled \in [Workers -> 0 .. MaxSteps]
      /\ temp_steps_completed \in Nat
  BY DEF IInv, TypeOK
<1>2. temp_steps_completed' = temp_steps_completed
  BY OwnOnly DEF IInv, emitter
<1>3. ~Resting(w) /\ ~Answered(w)
  BY DEF Resting, Answered, Worker, Pop, svc, Push
<1>4. CASE Working(w) /\ Going
  <2>1. CASE Pop(w)
    <3>1. in[w] = <<"dummy">> /\ wpc[w] = "pop" /\ back[w] = <<>>
          /\ cooled[w] = temp_steps_completed
      BY <1>4, <2>1 DEF Pop, Working
    <3>2. Head(in[w]) = "dummy" /\ Tail(in[w]) = <<>>
      BY <3>1
    <3>3. /\ in'[w] = <<>> /\ back'[w] = <<>> /\ wpc'[w] = "moves"
          /\ cooled'[w] = cooled[w] + 1
      BY <1>1, <2>1, <3>1, <3>2 DEF Pop
    <3> QED BY <1>2, <1>4, <3>1, <3>3 DEF Working
  <2>2. CASE svc(w)
    <3>1. /\ wpc[w] = "moves" /\ in'[w] = in[w] /\ back'[w] = back[w]
          /\ wpc'[w] = "push" /\ cooled'[w] = cooled[w]
      BY <1>1, <2>2 DEF svc, channels
    <3> QED BY <1>2, <1>4, <3>1 DEF Working
  <2>3. CASE Push(w)
    <3>1. /\ wpc[w] = "push" /\ in[w] = <<>> /\ back[w] = <<>>
          /\ cooled[w] = temp_steps_completed + 1
      BY <1>4, <2>3 DEF Push, Working
    <3>2. Append(back[w], "dummy") = <<"dummy">>
      BY <3>1
    <3>3. /\ in'[w] = in[w] /\ back'[w] = <<"dummy">>
          /\ wpc'[w] = "pop" /\ cooled'[w] = cooled[w]
      BY <1>1, <2>3, <3>2 DEF Push
    <3> QED BY <1>2, <1>4, <3>1, <3>3 DEF Working
  <2> QED BY <2>1, <2>2, <2>3 DEF Worker
<1>5. CASE Leaving(w) /\ Stopping
  <2>1. Pop(w) /\ in[w] = <<"EOS">> /\ back[w] = <<>> /\ wpc[w] = "pop"
    BY <1>5 DEF Leaving, Worker, Pop, svc, Push
  <2>2. /\ Head(in[w]) = "EOS" /\ Tail(in[w]) = <<>>
        /\ Append(back[w], "EOS") = <<"EOS">>
    BY <2>1
  <2>3. /\ in'[w] = <<>> /\ back'[w] = <<"EOS">> /\ wpc'[w] = "end"
        /\ cooled'[w] = cooled[w]
    BY <1>1, <2>1, <2>2 DEF Pop
  <2> QED BY <1>2, <1>5, <2>3 DEF Leaving
<1> QED BY <1>3, <1>4, <1>5, FourStates

\* A step of a worker keeps the types.
LEMMA WorkerTypes ==
  ASSUME Assumptions, IInv, NEW w \in Workers, Worker(w) PROVE TypeOK'
<1> USE DEF Assumptions, WorkersAssumption, StepsAssumption
<1>1. UNCHANGED <<lpc, sending, emitter>>
  BY OwnOnly DEF IInv
<1>2. /\ \A v \in Workers \ {w} : in'[v] = in[v] /\ back'[v] = back[v]
      /\ in'[w] \in Seq({"dummy", "EOS"}) /\ back'[w] \in Seq({"dummy", "EOS"})
  <2>1. /\ <<>> \in Seq({"dummy", "EOS"}) /\ <<"dummy">> \in Seq({"dummy", "EOS"})
        /\ <<"EOS">> \in Seq({"dummy", "EOS"})
    OBVIOUS
  <2> QED BY <2>1, WorkerKeeps, OwnOnly DEF Working, Leaving, IInv
<1>3. DOMAIN in' = Workers /\ DOMAIN back' = Workers
  BY DEF Worker, Pop, svc, Push, IInv, TypeOK, channels
<1>4. wpc' \in [Workers -> {"pop", "moves", "push", "end"}]
  BY DEF Worker, Pop, svc, Push, IInv, TypeOK
<1>5. cooled' \in [Workers -> 0 .. MaxSteps]
  <2>1. /\ cooled \in [Workers -> 0 .. MaxSteps] /\ temp_steps_completed \in Nat
        /\ temp_steps_completed' = temp_steps_completed
    BY <1>1 DEF IInv, TypeOK, emitter
  <2>2. Going => temp_steps_completed + 1 <= MaxSteps
    <3>1. LastStep \in Nat /\ LastStep <= MaxSteps
      BY DEF LastStep
    <3> QED BY <2>1, <3>1 DEF IInv, InBounds
  <2>3. cooled'[w] \in 0 .. MaxSteps
    BY <2>1, <2>2, WorkerKeeps DEF Working
  <2>4. \A v \in Workers \ {w} : cooled'[v] = cooled[v]
    BY OwnOnly DEF IInv
  <2>5. cooled' = [cooled EXCEPT ![w] = cooled'[w]]
    BY <2>1 DEF Worker, Pop, svc, Push, workers
  <2> QED BY <2>1, <2>3, <2>5
<1>6. allTasks' \in [Workers -> [good : 0 .. Moves, bad : -1 .. Moves]]
  <2>1. CASE svc(w)
    <3>1. PICK good \in 0 .. Moves, bad \in 0 .. Moves :
            allTasks' = [allTasks EXCEPT ![w] = [good |-> good, bad |-> bad]]
      BY <2>1 DEF svc
    <3>2. bad \in -1 .. Moves
      OBVIOUS
    <3>3. [good |-> good, bad |-> bad] \in [good : 0 .. Moves, bad : -1 .. Moves]
      BY <3>2
    <3> QED BY <3>1, <3>3 DEF IInv, TypeOK
  <2>2. CASE ~svc(w)
    BY <2>2 DEF Worker, Pop, Push, IInv, TypeOK
  <2> QED BY <2>1, <2>2
<1>7. in' \in [Workers -> Seq({"dummy", "EOS"})]
      /\ back' \in [Workers -> Seq({"dummy", "EOS"})]
  <2>1. in' = [v \in Workers |-> in'[v]] /\ back' = [v \in Workers |-> back'[v]]
    BY <1>3, SMTT(30) DEF Worker, Pop, svc, Push, IInv, TypeOK, channels
  <2>2. \A v \in Workers : /\ in'[v] \in Seq({"dummy", "EOS"})
                           /\ back'[v] \in Seq({"dummy", "EOS"})
    BY <1>2 DEF IInv, TypeOK
  <2> QED BY <2>1, <2>2
<1> QED BY <1>1, <1>4, <1>5, <1>6, <1>7 DEF IInv, TypeOK, emitter

\* A step of a worker, whatever the others do.
LEMMA WorkerIInv ==
  ASSUME Assumptions, IInv, NEW w \in Workers, Worker(w) PROVE IInv'
<1>1. /\ \A v \in Workers \ {w} :
           /\ in'[v] = in[v] /\ back'[v] = back[v] /\ wpc'[v] = wpc[v]
           /\ cooled'[v] = cooled[v] /\ allTasks'[v] = allTasks[v]
      /\ lpc' = lpc /\ sending' = sending /\ tasksRcvd' = tasksRcvd
      /\ temp_steps_completed' = temp_steps_completed /\ _firstRun' = _firstRun
  BY OwnOnly DEF IInv, emitter
<1>2. /\ \A v \in Workers : Resting(v) => Resting(v)' /\ v # w
      /\ \A v \in Workers : Working(v) => Working(v)'
      /\ \A v \in Workers : Leaving(v) => Leaving(v)'
      /\ \A v \in Workers : Answered(v) <=> Answered(v)'
  <2>1. ~Resting(w) /\ ~Answered(w)
    BY DEF Resting, Answered, Worker, Pop, svc, Push
  <2>2. \/ Working(w) /\ Working(w)' /\ ~Leaving(w)
        \/ Leaving(w) /\ Leaving(w)' /\ ~Working(w)
    BY WorkerKeeps DEF Working, Leaving
  <2>3. ~Answered(w)'
    BY <2>2 DEF Working, Leaving, Answered
  <2> QED BY <1>1, <2>1, <2>2, <2>3 DEF Resting, Working, Leaving, Answered
<1>3. Starting' /\ Telling' /\ Deciding' /\ Over'
  BY <1>1, <1>2 DEF IInv, Starting, Telling, Deciding, Over
<1>4. Collecting'
  <2>1. AnsweredSet' = AnsweredSet
    BY <1>2 DEF AnsweredSet
  <2> QED BY <1>1, <1>2, <2>1 DEF IInv, Collecting
<1>5. Settled'
  <2> SUFFICES ASSUME wpc'[w] # "moves", cooled'[w] = MaxSteps
               PROVE  allTasks'[w].good <= allTasks'[w].bad
    BY <1>1 DEF IInv, Settled
  <2>1. CASE Pop(w)
    <3>1. wpc[w] = "pop" /\ cooled'[w] = cooled[w] /\ allTasks' = allTasks
      BY <2>1 DEF Pop, IInv, TypeOK
    <3> QED BY <3>1 DEF IInv, Settled
  <2>2. CASE svc(w)
    <3>1. cooled' = cooled
      BY <2>2 DEF svc
    <3>2. PICK good \in 0 .. Moves, bad \in 0 .. Moves :
            /\ good <= bad
            /\ allTasks' = [allTasks EXCEPT ![w] = [good |-> good, bad |-> bad]]
      BY <2>2, <3>1 DEF svc
    <3>3. allTasks'[w] = [good |-> good, bad |-> bad]
      BY <3>2 DEF IInv, TypeOK
    <3> QED BY <3>2, <3>3
  <2>3. CASE Push(w)
    <3>1. wpc[w] = "push" /\ cooled' = cooled /\ allTasks' = allTasks
      BY <2>3 DEF Push
    <3> QED BY <3>1 DEF IInv, Settled
  <2> QED BY <2>1, <2>2, <2>3 DEF Worker
<1>6. InBounds'
  BY <1>1 DEF IInv, InBounds, Going, Stopping
<1> QED BY <1>3, <1>4, <1>5, <1>6, WorkerTypes DEF IInv

\* The first call of the emitter, one that counts an answer, and the one that
\* counts the last answer: then every worker did the step.
LEMMA EmitterIInv == ASSUME Assumptions, IInv, Emitter PROVE IInv'
<1> USE DEF Assumptions, WorkersAssumption, StepsAssumption
<1>1. /\ lpc = "svc" /\ UNCHANGED <<channels, workers>>
      /\ tasksRcvd \in 0 .. NWorkers - 1 /\ temp_steps_completed \in Nat
      /\ sending \in [task : {"dummy", "EOS"}, to : Workers]
      /\ 1 \in Workers /\ LastStep \in Nat /\ LastStep <= MaxSteps
      /\ temp_steps_completed < LastStep
  BY SMTT(30) DEF Emitter, IInv, TypeOK, InBounds, Going, LastStep, Workers
<1>2. Settled'
  BY <1>1 DEF IInv, Settled, workers
<1>3. CASE _firstRun
  <2>1. /\ _firstRun' = FALSE /\ lpc' = "broadcast"
        /\ sending' = [task |-> "dummy", to |-> 1]
        /\ UNCHANGED <<tasksRcvd, temp_steps_completed, _keep_going_global_flag>>
    BY <1>3 DEF Emitter
  <2>2. TypeOK'
    BY <1>1, <2>1 DEF IInv, TypeOK, channels, workers
  <2>3. \A w \in Workers : Resting(w)'
    BY <1>1, <1>3, <2>1 DEF IInv, Starting, Resting, channels, workers
  <2>4. Starting' /\ Telling' /\ Collecting' /\ Deciding' /\ Over'
    BY <1>1, <1>3, <2>1, <2>3 DEF IInv, Starting, Telling, Collecting, Deciding, Over, Workers
  <2>5. InBounds'
    BY <1>1, <2>1 DEF InBounds, Going, Stopping, LastStep
  <2> QED BY <1>2, <2>2, <2>4, <2>5 DEF IInv
<1>4. CASE ~_firstRun /\ tasksRcvd + 1 # NWorkers
  <2>1. /\ tasksRcvd' = tasksRcvd + 1 /\ lpc' = "collect"
        /\ UNCHANGED <<sending, temp_steps_completed, _keep_going_global_flag, _firstRun>>
    BY <1>1, <1>4 DEF Emitter
  <2>2. TypeOK'
    <3>1. tasksRcvd' \in 0 .. NWorkers - 1
      BY <1>1, <1>4, <2>1
    <3> QED BY <1>1, <2>1, <3>1 DEF IInv, TypeOK, channels, workers
  <2>3. \A w \in Workers : (Working(w) <=> Working(w)') /\ (Answered(w) <=> Answered(w)')
    BY <1>1, <2>1 DEF Working, Answered, channels, workers
  <2>4. Collecting'
    <3>1. AnsweredSet' = AnsweredSet
      BY <2>3 DEF AnsweredSet
    <3> QED BY <1>1, <1>4, <2>1, <2>3, <3>1 DEF IInv, Collecting
  <2>5. Starting' /\ Telling' /\ Deciding' /\ Over'
    BY <1>4, <2>1 DEF Starting, Telling, Deciding, Over
  <2>6. InBounds'
    BY <1>1, <2>1 DEF InBounds, Going, Stopping, LastStep
  <2> QED BY <1>2, <2>2, <2>4, <2>5, <2>6 DEF IInv
<1>5. CASE ~_firstRun /\ tasksRcvd + 1 = NWorkers
  <2>1. /\ tasksRcvd' = 0 /\ temp_steps_completed' = temp_steps_completed + 1
        /\ lpc' = "keep_going" /\ sending' = [sending EXCEPT !.to = 1]
        /\ UNCHANGED <<_keep_going_global_flag, _firstRun>>
    BY <1>1, <1>5 DEF Emitter
  <2>2. TypeOK'
    <3>1. tasksRcvd' \in 0 .. NWorkers - 1 /\ temp_steps_completed' \in 0 .. MaxSteps
      BY <1>1, <2>1
    <3>2. sending' \in [task : {"dummy", "EOS"}, to : Workers]
      BY <1>1, <2>1
    <3> QED BY <1>1, <2>1, <3>1, <3>2 DEF IInv, TypeOK, channels, workers
  <2>3. \A w \in Workers : Answered(w)
    <3>1. Cardinality(AnsweredSet) = NWorkers
      BY <1>1, <1>5 DEF IInv, Collecting
    <3>2. IsFiniteSet(Workers) /\ Cardinality(Workers) = NWorkers
      BY FS_Interval DEF Workers
    <3>3. AnsweredSet \subseteq Workers
      BY DEF AnsweredSet
    <3>4. AnsweredSet = Workers
      BY <3>1, <3>2, <3>3, FS_Subset
    <3> QED BY <3>4 DEF AnsweredSet
  <2>4. \A w \in Workers : Resting(w)'
    BY <1>1, <2>1, <2>3 DEF Answered, Resting, channels, workers
  <2>5. Starting' /\ Telling' /\ Collecting' /\ Deciding' /\ Over'
    BY <1>5, <2>1, <2>4 DEF Starting, Telling, Collecting, Deciding, Over
  <2>6. InBounds'
    <3>1. LastStep' = LastStep
      BY DEF LastStep
    <3> QED BY <1>1, <2>1, <3>1 DEF InBounds, Going, Stopping
  <2> QED BY <1>2, <2>2, <2>5, <2>6 DEF IInv
<1> QED BY <1>3, <1>4, <1>5

\* The emitter decides on a step past the last one only to stop.
LEMMA KeepGoingIInv == ASSUME Assumptions, IInv, keep_going PROVE IInv'
<1> USE DEF Assumptions, WorkersAssumption, StepsAssumption
<1> DEFINE w == sending.to
<1>1. /\ lpc = "keep_going" /\ UNCHANGED <<channels, workers>>
      /\ UNCHANGED <<tasksRcvd, temp_steps_completed, _firstRun>>
      /\ sending \in [task : {"dummy", "EOS"}, to : Workers] /\ w \in Workers
      /\ 1 \in Workers /\ temp_steps_completed \in Nat
      /\ LastStep \in Nat /\ LastStep <= MaxSteps /\ LastStep' = LastStep
      /\ temp_steps_completed <= LastStep /\ ~_firstRun
      /\ _keep_going_global_flag \in BOOLEAN
  BY DEF keep_going, IInv, TypeOK, InBounds, LastStep, Workers, Starting
<1>2. \A v \in Workers : Resting(v) /\ Resting(v)'
  BY <1>1 DEF IInv, Deciding, Resting, channels, workers
<1>3. tasksRcvd = 0 /\ Settled' /\ Starting'
  BY <1>1 DEF IInv, Deciding, Settled, Starting, workers
<1>4. _keep_going_global_flag' \in BOOLEAN
  BY DEF keep_going
<1>5. ASSUME sending' \in [task : {"dummy", "EOS"}, to : Workers],
             lpc' \in {"keep_going", "broadcast"}
      PROVE  TypeOK'
  BY <1>1, <1>4, <1>5 DEF IInv, TypeOK, channels, workers
<1>6. CASE KeepsGoing(w) /\ w < NWorkers
  <2>1. sending' = [sending EXCEPT !.to = w + 1] /\ lpc' = lpc
    BY <1>6 DEF keep_going
  <2>2. w + 1 \in Workers
    BY <1>1, <1>6 DEF Workers
  <2>3. TypeOK'
    BY <1>1, <1>5, <2>1, <2>2
  <2>4. Telling' /\ Collecting' /\ Deciding' /\ Over'
    BY <1>1, <1>2, <1>3, <2>1 DEF Telling, Collecting, Deciding, Over
  <2>5. InBounds'
    BY <1>1, <2>1 DEF InBounds, Going, Stopping
  <2> QED BY <1>3, <2>3, <2>4, <2>5 DEF IInv
<1>7. CASE ~(KeepsGoing(w) /\ w < NWorkers)
  <2>1. /\ sending' = [task |-> IF KeepsGoing(w) THEN "dummy" ELSE "EOS", to |-> 1]
        /\ lpc' = "broadcast"
    BY <1>7 DEF keep_going
  <2>2. TypeOK'
    BY <1>1, <1>5, <2>1
  <2>3. Telling' /\ Collecting' /\ Deciding' /\ Over'
    BY <1>1, <1>2, <1>3, <2>1 DEF Telling, Collecting, Deciding, Over, Workers
  <2>4. KeepsGoing(w) => temp_steps_completed < LastStep
    <3>1. CASE Converging
      <4> SUFFICES ASSUME KeepsGoing(w) PROVE temp_steps_completed # MaxSteps
        BY <1>1, <3>1 DEF LastStep
      <4>1. allTasks[w].good > allTasks[w].bad
        BY <3>1 DEF KeepsGoing
      <4>2. allTasks[w] \in [good : 0 .. Moves, bad : -1 .. Moves]
        BY <1>1 DEF IInv, TypeOK
      <4>3. cooled[w] # MaxSteps
        BY <1>1, <1>2, <4>1, <4>2 DEF IInv, Settled, Resting
      <4> QED BY <1>1, <1>2, <4>3 DEF Resting
    <3>2. CASE ~Converging
      BY <3>2 DEF KeepsGoing, LastStep
    <3> QED BY <3>1, <3>2
  <2>5. ~Converging /\ ~KeepsGoing(w) => temp_steps_completed = _number_temp_steps
    BY <1>1 DEF KeepsGoing, LastStep
  <2>6. InBounds'
    <3>1. /\ lpc' = "broadcast"
          /\ sending'.task = IF KeepsGoing(w) THEN "dummy" ELSE "EOS"
      BY <2>1
    <3> HIDE DEF w
    <3> QED BY <1>1, <2>4, <2>5, <3>1 DEF InBounds, Going, Stopping
  <2> QED BY <1>3, <2>2, <2>3, <2>6 DEF IInv
<1> QED BY <1>6, <1>7

\* The next worker is told.
LEMMA BroadcastIInv == ASSUME Assumptions, IInv, broadcast_task PROVE IInv'
<1> USE DEF Assumptions, WorkersAssumption, StepsAssumption
<1> DEFINE k == sending.to
<1>1. /\ lpc = "broadcast" /\ UNCHANGED <<back, workers, emitter>>
      /\ sending \in [task : {"dummy", "EOS"}, to : Workers] /\ k \in Workers
      /\ in \in [Workers -> Seq({"dummy", "EOS"})] /\ tasksRcvd = 0 /\ ~_firstRun
      /\ sending.task \in {"dummy", "EOS"}
  BY DEF broadcast_task, IInv, TypeOK, Telling, Starting
<1>2. /\ Resting(k) /\ in[k] = <<>>
      /\ \A v \in Workers : IF v >= k THEN Resting(v)
                            ELSE IF sending.task = "dummy" THEN Working(v) ELSE Leaving(v)
  BY <1>1 DEF IInv, Telling, Resting, Workers
<1>3. in'[k] = <<sending.task>> /\ \A v \in Workers \ {k} : in'[v] = in[v]
  <2>1. Append(in[k], sending.task) = <<sending.task>>
    BY <1>2
  <2> QED BY <1>1, <2>1 DEF broadcast_task
<1>4. \A v \in Workers : IF v >= k + 1 THEN Resting(v)'
                         ELSE IF sending.task = "dummy" THEN Working(v)' ELSE Leaving(v)'
  <2> TAKE v \in Workers
  <2>1. CASE v = k
    <3>1. ~(v >= k + 1)
      BY <2>1 DEF Workers
    <3> QED BY <1>1, <1>2, <1>3, <2>1, <3>1
            DEF Resting, Working, Leaving, workers, emitter
  <2>2. CASE v # k
    <3>1. v >= k + 1 <=> v >= k
      BY <1>1, <2>2 DEF Workers
    <3> QED BY <1>1, <1>2, <1>3, <2>2, <3>1
            DEF Resting, Working, Leaving, workers, emitter
  <2> QED BY <2>1, <2>2
<1>5. in' \in [Workers -> Seq({"dummy", "EOS"})]
  <2>1. <<sending.task>> \in Seq({"dummy", "EOS"})
    BY <1>1
  <2>2. in' = [in EXCEPT ![k] = Append(@, sending.task)]
    BY DEF broadcast_task
  <2> QED BY <1>1, <2>1, <2>2
<1>6. Settled' /\ Starting' /\ Deciding'
  BY <1>1 DEF IInv, Settled, Starting, Deciding, workers, emitter, broadcast_task
<1>7. CASE k < NWorkers
  <2>1. sending' = [sending EXCEPT !.to = k + 1] /\ lpc' = lpc
    BY <1>7 DEF broadcast_task
  <2>2. k + 1 \in Workers
    BY <1>1, <1>7 DEF Workers
  <2>3. /\ sending' \in [task : {"dummy", "EOS"}, to : Workers]
        /\ sending'.task = sending.task /\ sending'.to = k + 1
    BY <1>1, <2>1, <2>2
  <2>4. TypeOK'
    BY <1>1, <1>5, <2>1, <2>3 DEF IInv, TypeOK, workers, emitter
  <2>5. Telling'
    BY <1>1, <1>4, <2>1, <2>3 DEF Telling, emitter
  <2>6. Collecting' /\ Over'
    BY <1>1, <2>1 DEF Collecting, Over
  <2>7. InBounds'
    BY <1>1, <2>1, <2>3 DEF IInv, InBounds, Going, Stopping, LastStep, emitter
  <2> QED BY <1>6, <2>4, <2>5, <2>6, <2>7 DEF IInv
<1>8. CASE ~(k < NWorkers)
  <2>1. /\ lpc' = IF sending.task = "EOS" THEN "end" ELSE "collect"
        /\ sending' = sending
    BY <1>8 DEF broadcast_task
  <2>2. TypeOK'
    BY <1>1, <1>5, <2>1 DEF IInv, TypeOK, workers, emitter
  <2>3. \A v \in Workers : IF sending.task = "dummy" THEN Working(v)' ELSE Leaving(v)'
    <3>1. \A v \in Workers : ~(v >= k + 1)
      BY <1>1, <1>8 DEF Workers
    <3> QED BY <1>4, <3>1
  <2>4. Telling' /\ Over'
    BY <1>1, <2>1, <2>3 DEF Telling, Over
  <2>5. Collecting'
    <3> SUFFICES ASSUME lpc' = "collect"
                 PROVE  /\ \A v \in Workers : Working(v)'
                        /\ Cardinality(AnsweredSet)' = 0
      BY <1>1, <2>1 DEF Collecting, emitter
    <3>1. \A v \in Workers : Working(v)' /\ ~Answered(v)'
      <4>1. sending.task = "dummy"
        BY <1>1, <2>1
      <4>2. <<"dummy">> # <<>>
        OBVIOUS
      <4>3. \A v \in Workers : Working(v)' => ~Answered(v)'
        BY <4>2 DEF Working, Answered
      <4> QED BY <2>3, <4>1, <4>3
    <3>2. AnsweredSet' = {}
      BY <3>1 DEF AnsweredSet
    <3> QED BY <1>1, <3>1, <3>2, FS_EmptySet DEF emitter
  <2>6. InBounds'
    BY <1>1, <2>1 DEF IInv, InBounds, Going, Stopping, LastStep, emitter
  <2> QED BY <1>6, <2>2, <2>4, <2>5, <2>6 DEF IInv
<1> QED BY <1>7, <1>8

\* An answer is taken: its worker did the step.
LEMMA CollectIInv ==
  ASSUME Assumptions, IInv, NEW w \in Workers, collect_task(w) PROVE IInv'
<1> USE DEF Assumptions, WorkersAssumption, StepsAssumption
<1>1. /\ lpc = "collect" /\ lpc' = "svc" /\ UNCHANGED <<in, workers, sending, emitter>>
      /\ back \in [Workers -> Seq({"dummy", "EOS"})] /\ ~_firstRun
      /\ back' = [back EXCEPT ![w] = Tail(@)] /\ back[w] # <<>>
  BY DEF collect_task, IInv, TypeOK, Starting
<1>2. Working(w) /\ back[w] = <<"dummy">> /\ Tail(back[w]) = <<>> /\ ~Answered(w)
  <2>1. Working(w) /\ back[w] = <<"dummy">>
    BY <1>1 DEF IInv, Collecting, Working, Answered
  <2> QED BY <2>1 DEF Answered
<1>3. /\ Answered(w)'
      /\ \A v \in Workers \ {w} :
           (Working(v) => Working(v)') /\ (Answered(v) <=> Answered(v)')
  BY <1>1, <1>2 DEF Working, Answered, workers, emitter
<1>4. Collecting'
  <2>1. AnsweredSet' = AnsweredSet \cup {w} /\ w \notin AnsweredSet
    BY <1>2, <1>3 DEF AnsweredSet
  <2>2. IsFiniteSet(AnsweredSet)
    <3>1. IsFiniteSet(Workers) /\ AnsweredSet \subseteq Workers
      BY FS_Interval DEF Workers, AnsweredSet
    <3> QED BY <3>1, FS_Subset
  <2>3. Cardinality(AnsweredSet') = Cardinality(AnsweredSet) + 1
    BY <2>1, <2>2, FS_AddElement
  <2>4. Cardinality(AnsweredSet) = tasksRcvd /\ tasksRcvd \in Nat
    BY <1>1 DEF IInv, Collecting, TypeOK
  <2>5. \A v \in Workers : Working(v)' \/ Answered(v)'
    BY <1>1, <1>3 DEF IInv, Collecting
  <2> QED BY <1>1, <2>3, <2>4, <2>5 DEF Collecting, emitter
<1>5. TypeOK'
  <2>1. back' \in [Workers -> Seq({"dummy", "EOS"})]
    BY <1>1
  <2> QED BY <1>1, <2>1 DEF IInv, TypeOK, workers, emitter
<1>6. Settled' /\ Starting' /\ Telling' /\ Deciding' /\ Over'
  BY <1>1 DEF IInv, Settled, Starting, Telling, Deciding, Over, workers, emitter
<1>7. InBounds'
  BY <1>1 DEF IInv, InBounds, Going, Stopping, LastStep, emitter
<1> QED BY <1>4, <1>5, <1>6, <1>7 DEF IInv

\* Every step keeps the invariant.
LEMMA StepIInv == ASSUME Assumptions, IInv, [Next]_vars PROVE IInv'
<1>1. CASE UNCHANGED vars
  BY <1>1, SMTT(30) DEF vars, channels, workers, emitter, IInv, TypeOK, Settled, Starting,
              Telling, Collecting, Deciding, Over, InBounds, LastStep, Going,
              Stopping, Resting, Working, Answered, Leaving, AnsweredSet
<1> QED BY <1>1, WorkerIInv, EmitterIInv, KeepGoingIInv, BroadcastIInv, CollectIInv
        DEF Next, Balancer

\* The inductive invariant holds in every state.
LEMMA Invariant == ASSUME Assumptions PROVE Spec => []IInv
<1>1. Init => IInv
  BY InitIInv
<1>2. IInv /\ [Next]_vars => IInv'
  BY StepIInv
<1> QED BY <1>1, <1>2, PTL DEF Spec

-----------------------------------------------------------------------------
(* What the farm guarantees *)

\* The emitter decides while no worker moves elements or writes its counters, on
\* counters of the same step; a broadcast finds room in every channel; and who is
\* asked for a number of steps does that many.
THEOREM JudgesAtRest == ASSUME Assumptions PROVE Spec => []JudgedAtRest
<1>1. ASSUME IInv PROVE JudgedAtRest
  <2> USE DEF Assumptions, WorkersAssumption, StepsAssumption
  <2>1. DecidesAtRest
    BY <1>1 DEF IInv, DecidesAtRest, Deciding, Resting
  <2>2. ChannelsHoldOne
    <3>1. Len(<<>>) <= 1 /\ Len(<<"dummy">>) <= 1 /\ Len(<<"EOS">>) <= 1
      OBVIOUS
    <3> QED BY <1>1, <3>1, FourStates
            DEF ChannelsHoldOne, Resting, Working, Answered, Leaving
  <2>3. AsManySteps
    BY <1>1 DEF IInv, AsManySteps, InBounds, Stopping, Over, Leaving
  <2> QED BY <1>1, <2>1, <2>2, <2>3 DEF IInv, JudgedAtRest
<1> QED BY <1>1, Invariant, PTL

\* The broadcast and the collected answers do what a barrier does: the farm
\* implements the lockstep of the temperature steps.
THEOREM Refinement == ASSUME Assumptions PROVE Spec => ImplementsAnnealing
<1> USE DEF Assumptions, WorkersAssumption, StepsAssumption
<1>1. Init => Lockstep!Init
  BY DEF Init, Lockstep!Init
<1>2. ASSUME IInv, [Next]_vars PROVE [Lockstep!Next]_<<cooled, Stopping>>
  <2>1. ASSUME NEW w \in Workers, Worker(w) PROVE [Lockstep!Next]_<<cooled, Stopping>>
    <3>1. Stopping' = Stopping
      BY <1>2, <2>1, OwnOnly DEF Stopping, IInv
    <3>2. CASE cooled' = cooled
      BY <3>1, <3>2
    <3>3. CASE cooled' # cooled
      <4>1. Pop(w) /\ cooled' = [cooled EXCEPT ![w] = @ + 1]
        BY <2>1, <3>3 DEF Worker, Pop, svc, Push
      <4>2. cooled'[w] = cooled[w] + 1 /\ cooled[w] \in Nat
        BY <1>2, <4>1 DEF IInv, TypeOK
      <4>3. Working(w) /\ Going /\ cooled[w] = temp_steps_completed
        BY <1>2, <2>1, <4>1, <4>2, WorkerKeeps DEF Working, Pop
      <4>4. ~Stopping /\ \A u \in Workers : cooled[w] <= cooled[u]
        <5>1. ~Stopping
          BY <4>3 DEF Going, Stopping
        <5>2. \A u \in Workers : \/ cooled[u] = temp_steps_completed
                                 \/ cooled[u] = temp_steps_completed + 1
          BY <1>2, FourStates DEF Resting, Working, Answered, Leaving
        <5>3. temp_steps_completed \in Nat
          BY <1>2 DEF IInv, TypeOK
        <5> QED BY <4>3, <5>1, <5>2, <5>3
      <4> QED BY <3>1, <4>1, <4>4 DEF Lockstep!Next, Lockstep!Step, Stopping
    <3> QED BY <3>2, <3>3
  <2>2. ASSUME Emitter PROVE UNCHANGED <<cooled, Stopping>>
    BY <2>2 DEF Emitter, Stopping, workers
  <2>3. ASSUME keep_going PROVE [Lockstep!Next]_<<cooled, Stopping>>
    <3>1. cooled' = cooled /\ lpc = "keep_going" /\ ~Stopping
      BY <2>3 DEF keep_going, workers, Stopping
    <3>2. \A t, u \in Workers : cooled[t] = cooled[u]
      BY <1>2, <3>1 DEF IInv, Deciding, Resting
    <3>3. Stopping' \in BOOLEAN
      BY DEF Stopping
    <3> QED BY <3>1, <3>2, <3>3 DEF Lockstep!Next, Lockstep!Stop, Stopping
  <2>4. ASSUME broadcast_task PROVE UNCHANGED <<cooled, Stopping>>
    <3>1. sending' = sending \/ (sending'.task = sending.task /\ lpc' = lpc)
      BY <1>2, <2>4 DEF broadcast_task, IInv, TypeOK
    <3> QED BY <1>2, <2>4, <3>1 DEF broadcast_task, workers, Stopping
  <2>5. ASSUME NEW w \in Workers, collect_task(w) PROVE UNCHANGED <<cooled, Stopping>>
    BY <2>5 DEF collect_task, workers, Stopping
  <2>6. CASE UNCHANGED vars
    BY <2>6 DEF vars, workers, Stopping
  <2> QED BY <1>2, <2>1, <2>2, <2>3, <2>4, <2>5, <2>6 DEF Next, Balancer
<1>3. IInv /\ [Next]_vars => [Lockstep!Next]_<<cooled, lpc = "end" \/ (lpc = "broadcast" /\ sending.task = "EOS")>>
  BY <1>2 DEF Stopping
<1> QED BY <1>1, <1>3, Invariant, PTL DEF Spec, ImplementsAnnealing, Lockstep!Spec

-----------------------------------------------------------------------------
(* The pthreads version, for a fixed number of temperature steps.  (While    *)
(* converging its threads do not keep step: see the run canneal_converge.)   *)

CONSTANTS Threads, number_temp_steps                           \* those of
VARIABLES pc, accepted_good_moves, accepted_bad_moves, begun,  \* CannealThreads,
          keep_going_global_flag, arrived,                     \* there this is
          completed                                            \* temp_steps_completed

Thr == INSTANCE CannealThreads WITH temp_steps_completed <- completed

\* A fixed number of steps.
FixedSteps == Thr!ThreadsAssumption /\ Thr!StepsAssumption /\ ~Converging

\* The temperature steps of a thread that it has left the barrier of.
Behind(t) == IF pc[t] = "barrier" THEN completed[t] - 1 ELSE completed[t]

\* The types of what the steps change.
ThreadTypes ==
  /\ pc \in [Threads -> {"test", "moves", "barrier", "end"}]
  /\ completed \in [Threads -> Nat] /\ begun \in [Threads -> Nat]
  /\ arrived \subseteq Threads

\* A thread does moves in a step that it began and did not complete; none beyond the last.
Counts ==
  \A t \in Threads :
    /\ begun[t] = completed[t] + (IF pc[t] = "moves" THEN 1 ELSE 0)
    /\ begun[t] <= number_temp_steps
    /\ pc[t] = "barrier" => completed[t] > 0
    /\ pc[t] = "end" => completed[t] = number_temp_steps

\* The inductive invariant: all threads have left the same barriers.
ThrIInv ==
  /\ ThreadTypes /\ Counts
  /\ \A t, u \in Threads : Behind(t) = Behind(u)
  /\ \A t \in arrived : pc[t] = "barrier"

\* No thread has begun anything yet.
LEMMA ThrInitIInv == ASSUME FixedSteps, Thr!Init PROVE ThrIInv
<1>1. number_temp_steps \in Nat
  BY DEF FixedSteps, Thr!StepsAssumption
<1> QED BY <1>1 DEF Thr!Init, ThrIInv, ThreadTypes, Counts, Behind

\* What the invariant says of a thread whose next test ends it, and of one that goes on.
LEMMA WhoTests ==
  ASSUME FixedSteps, ThrIInv, NEW t \in Threads, pc[t] = "test"
  PROVE  /\ Thr!KeepsGoing(t) => /\ \A u \in Threads : pc[u] # "end"
                                 /\ \A u \in Threads : begun[t] <= begun[u]
                                 /\ begun[t] + 1 <= number_temp_steps
         /\ ~Thr!KeepsGoing(t) => /\ completed[t] = number_temp_steps
                                  /\ \A u \in Threads : begun[u] = number_temp_steps
<1> USE DEF ThrIInv, ThreadTypes, Counts
<1>1. /\ Thr!KeepsGoing(t) <=> completed[t] < number_temp_steps
      /\ number_temp_steps \in Nat /\ completed[t] \in Nat /\ begun[t] = completed[t]
      /\ completed[t] <= number_temp_steps
  BY DEF FixedSteps, Thr!KeepsGoing, Thr!StepsAssumption
<1>2. ASSUME NEW u \in Threads
      PROVE  /\ completed[u] \in Nat /\ begun[u] \in Nat /\ begun[u] <= number_temp_steps
             /\ pc[u] = "barrier" => completed[u] = completed[t] + 1 /\ begun[u] = completed[u]
             /\ pc[u] = "moves" => completed[u] = completed[t] /\ begun[u] = completed[u] + 1
             /\ pc[u] = "test" => completed[u] = completed[t] /\ begun[u] = completed[u]
             /\ pc[u] = "end" => /\ completed[u] = completed[t] /\ begun[u] = completed[u]
                                 /\ completed[u] = number_temp_steps
             /\ pc[u] \in {"test", "moves", "barrier", "end"}
  BY DEF Behind
<1>3. CASE completed[t] < number_temp_steps
  <2>1. \A u \in Threads : pc[u] # "end" /\ begun[t] <= begun[u]
    BY <1>1, <1>2, <1>3
  <2> QED BY <1>1, <1>3, <2>1
<1>4. CASE completed[t] = number_temp_steps
  <2>1. \A u \in Threads : begun[u] = number_temp_steps
    BY <1>1, <1>2, <1>4
  <2> QED BY <1>1, <1>4, <2>1
<1> QED BY <1>1, <1>3, <1>4

\* A test keeps the invariant: it begins the step or ends the thread.
LEMMA TestIInv ==
  ASSUME FixedSteps, ThrIInv, NEW t \in Threads, Thr!keep_going(t)
  PROVE  ThrIInv'
<1> USE DEF ThrIInv, ThreadTypes
<1>1. /\ pc[t] = "test" /\ completed' = completed /\ arrived' = arrived
      /\ pc' = [pc EXCEPT ![t] = IF Thr!KeepsGoing(t) THEN "moves" ELSE "end"]
      /\ begun' = IF Thr!KeepsGoing(t) THEN [begun EXCEPT ![t] = @ + 1] ELSE begun
  BY DEF Thr!keep_going, Thr!counters
<1>2. ThreadTypes'
  BY <1>1
<1>3. Counts'
  <2>1. CASE Thr!KeepsGoing(t)
    <3>1. begun[t] + 1 <= number_temp_steps
      BY <1>1, <2>1, WhoTests
    <3> QED BY <1>1, <2>1, <3>1 DEF Counts
  <2>2. CASE ~Thr!KeepsGoing(t)
    <3>1. completed[t] = number_temp_steps
      BY <1>1, <2>2, WhoTests
    <3> QED BY <1>1, <2>2, <3>1 DEF Counts
  <2> QED BY <2>1, <2>2
<1>4. \A u \in Threads : Behind(u)' = Behind(u)
  BY <1>1 DEF Behind
<1>5. \A u \in arrived' : pc'[u] = "barrier"
  BY <1>1
<1> QED BY <1>2, <1>3, <1>4, <1>5

\* So do the moves of a step.
LEMMA MovesIInv ==
  ASSUME FixedSteps, ThrIInv, NEW t \in Threads, Thr!moves(t)
  PROVE  ThrIInv'
<1> USE DEF ThrIInv, ThreadTypes
<1>1. /\ pc[t] = "moves" /\ begun' = begun /\ arrived' = arrived
      /\ pc' = [pc EXCEPT ![t] = "barrier"]
      /\ completed' = [completed EXCEPT ![t] = @ + 1]
  BY DEF Thr!moves
<1>2. ThreadTypes'
  BY <1>1
<1>3. Counts'
  BY <1>1 DEF Counts
<1>4. \A u \in Threads : Behind(u)' = Behind(u)
  BY <1>1 DEF Behind
<1>5. \A u \in arrived' : pc'[u] = "barrier"
  BY <1>1
<1> QED BY <1>2, <1>3, <1>4, <1>5

\* And the barrier: nobody passes before all of them have come.
LEMMA BarrierIInv ==
  ASSUME FixedSteps, ThrIInv, NEW t \in Threads, Thr!barrier(t)
  PROVE  ThrIInv'
<1> USE DEF ThrIInv, ThreadTypes
<1>1. pc[t] = "barrier" /\ completed' = completed /\ begun' = begun
  BY DEF Thr!barrier, Thr!counters
<1>2. CASE arrived \cup {t} = Threads
  <2>1. /\ \A u \in Threads : pc[u] = "barrier"
        /\ arrived' = {} /\ pc' = [u \in Threads |-> "test"]
    BY <1>1, <1>2 DEF Thr!barrier
  <2>2. ThreadTypes' /\ Counts'
    BY <1>1, <2>1 DEF Counts
  <2>3. \A u, v \in Threads : Behind(u)' = Behind(v)'
    <3>1. \A u \in Threads : Behind(u) = completed[u] - 1 /\ Behind(u)' = completed[u]
      BY <1>1, <2>1 DEF Behind
    <3> QED BY <3>1
  <2> QED BY <2>1, <2>2, <2>3
<1>3. CASE arrived \cup {t} # Threads
  <2>1. arrived' = arrived \cup {t} /\ pc' = pc
    BY <1>3 DEF Thr!barrier
  <2> QED BY <1>1, <2>1 DEF Counts, Behind
<1> QED BY <1>2, <1>3

\* Every step keeps the invariant.
LEMMA ThrStepIInv ==
  ASSUME FixedSteps, ThrIInv, [Thr!Next]_(Thr!vars)
  PROVE  ThrIInv'
<1>1. CASE UNCHANGED Thr!vars
  BY <1>1 DEF Thr!vars, Thr!counters, ThrIInv, ThreadTypes, Counts, Behind
<1>2. CASE Thr!Next
  BY <1>2, TestIInv, MovesIInv, BarrierIInv DEF Thr!Next, Thr!Thread
<1> QED BY <1>1, <1>2

\* The invariant holds in every state.
LEMMA ThrInvariant == ASSUME FixedSteps PROVE Thr!Spec => []ThrIInv
<1>1. Thr!Init => ThrIInv
  BY ThrInitIInv
<1>2. ThrIInv /\ [Thr!Next]_(Thr!vars) => ThrIInv'
  BY ThrStepIInv
<1> QED BY <1>1, <1>2, PTL DEF Thr!Spec

\* A thread that was asked for a number of temperature steps (annealer_thread::Run)
\* ends after that many.
THEOREM ThreadsDoTheirSteps == ASSUME FixedSteps PROVE Thr!Spec => []Thr!AsManySteps
<1>1. ThrIInv => Thr!AsManySteps
  BY DEF ThrIInv, Counts, Thr!AsManySteps
<1> QED BY <1>1, ThrInvariant, PTL

\* Kept apart by the barrier alone the threads implement the lockstep of the
\* temperature steps: none begins one before all have begun the one before, none goes on
\* when another has ended.
THEOREM ThreadsInLockstep == ASSUME FixedSteps PROVE Thr!Spec => Thr!ImplementsAnnealing
<1> DEFINE over == \E t \in Threads : pc[t] = "end"
<1>1. Thr!Init => Thr!Lockstep!Init
  <2> SUFFICES ASSUME Thr!Init PROVE Thr!Lockstep!Init
    OBVIOUS
  <2>1. \A t \in Threads : pc[t] = "test"
    BY DEF Thr!Init
  <2>2. begun = [t \in Threads |-> 0]
    BY DEF Thr!Init
  <2> QED BY <2>1, <2>2 DEF Thr!Lockstep!Init
<1>2. ASSUME ThrIInv, [Thr!Next]_(Thr!vars) PROVE [Thr!Lockstep!Next]_<<begun, over>>
  <2>1. ASSUME NEW t \in Threads, Thr!keep_going(t) PROVE [Thr!Lockstep!Next]_<<begun, over>>
    <3>1. /\ pc[t] = "test"
          /\ pc' = [pc EXCEPT ![t] = IF Thr!KeepsGoing(t) THEN "moves" ELSE "end"]
          /\ begun' = IF Thr!KeepsGoing(t) THEN [begun EXCEPT ![t] = @ + 1] ELSE begun
          /\ pc \in [Threads -> {"test", "moves", "barrier", "end"}]
      BY <1>2, <2>1 DEF Thr!keep_going, ThrIInv, ThreadTypes
    <3>2. CASE Thr!KeepsGoing(t)
      <4>1. ~over /\ ~over' /\ \A u \in Threads : begun[t] <= begun[u]
        BY <1>2, <3>1, <3>2, WhoTests
      <4> QED BY <3>1, <3>2, <4>1 DEF Thr!Lockstep!Next, Thr!Lockstep!Step
    <3>3. CASE ~Thr!KeepsGoing(t)
      <4>1. /\ over' /\ begun' = begun
            /\ \A u, v \in Threads : begun[u] = begun[v]
        BY <1>2, <3>1, <3>3, WhoTests
      <4>2. CASE over
        BY <4>1, <4>2
      <4>3. CASE ~over
        BY <4>1, <4>3 DEF Thr!Lockstep!Next, Thr!Lockstep!Stop
      <4> QED BY <4>2, <4>3
    <3> QED BY <3>2, <3>3
  <2>2. ASSUME NEW t \in Threads, Thr!moves(t) PROVE UNCHANGED <<begun, over>>
    BY <1>2, <2>2 DEF Thr!moves, ThrIInv, ThreadTypes
  <2>3. ASSUME NEW t \in Threads, Thr!barrier(t) PROVE UNCHANGED <<begun, over>>
    <3>1. begun' = begun /\ pc[t] = "barrier"
      BY <2>3 DEF Thr!barrier
    <3>2. CASE arrived \cup {t} = Threads
      <4>1. /\ \A u \in Threads : pc[u] = "barrier"
            /\ pc' = [u \in Threads |-> "test"]
        BY <1>2, <2>3, <3>1, <3>2 DEF Thr!barrier, ThrIInv
      <4> QED BY <3>1, <4>1
    <3>3. CASE arrived \cup {t} # Threads
      BY <2>3, <3>1, <3>3 DEF Thr!barrier
    <3> QED BY <3>2, <3>3
  <2>4. CASE UNCHANGED Thr!vars
    BY <2>4 DEF Thr!vars
  <2> QED BY <1>2, <2>1, <2>2, <2>3, <2>4 DEF Thr!Next, Thr!Thread
<1>3. ThrIInv /\ [Thr!Next]_(Thr!vars)
      => [Thr!Lockstep!Next]_<<begun, \E t \in Threads : pc[t] = "end">>
  BY <1>2
<1> QED BY <1>1, <1>3, ThrInvariant, PTL DEF Thr!Spec, Thr!ImplementsAnnealing, Thr!Lockstep!Spec

-----------------------------------------------------------------------------
(* The images of ferret: queues that hold each of them once. *)

\* Queues c of images, where 0 is the end of the stream: the images in them are 1 .. n,
\* each in one place.
Queues(c) == \A k \in DOMAIN c : c[k] \in Seq(Nat)
Bounded(c, n) == \A k \in DOMAIN c : \A i \in 1 .. Len(c[k]) : c[k][i] \in 0 .. n
Apart(c) == \A k, l \in DOMAIN c : \A i \in 1 .. Len(c[k]), j \in 1 .. Len(c[l]) :
              c[k][i] = c[l][j] /\ c[k][i] # 0 => k = l /\ i = j
Found(c, n) == \A x \in 1 .. n :
                 \E k \in DOMAIN c : \E i \in 1 .. Len(c[k]) : c[k][i] = x

Whole(c, n) == Queues(c) /\ Bounded(c, n) /\ Apart(c) /\ Found(c, n)

\* What the operators on sequences do to the places.
LEMMA Ends ==
  ASSUME NEW s \in Seq(Nat), NEW x \in Nat
  PROVE  /\ Append(s, x) \in Seq(Nat) /\ Len(Append(s, x)) = Len(s) + 1
         /\ Append(s, x)[Len(s) + 1] = x
         /\ \A i \in 1 .. Len(s) : Append(s, x)[i] = s[i]
         /\ Len(s) \in Nat
         /\ s # <<>> => /\ Tail(s) \in Seq(Nat) /\ Len(Tail(s)) = Len(s) - 1
                        /\ Head(s) = s[1] /\ Head(s) \in Nat /\ Len(s) > 0
                        /\ \A i \in 1 .. Len(s) - 1 : Tail(s)[i] = s[i + 1]
OBVIOUS

\* A new image.
LEMMA WholeAdded ==
  ASSUME NEW n \in Nat, NEW c, Whole(c, n), NEW k \in DOMAIN c, NEW d,
         DOMAIN d = DOMAIN c, d[k] = Append(c[k], n + 1),
         \A l \in DOMAIN c : l # k => d[l] = c[l]
  PROVE  Whole(d, n + 1)
<1>0. Queues(c) /\ Bounded(c, n) /\ Apart(c) /\ Found(c, n)
  BY DEF Whole
<1> DEFINE m == Len(c[k])
<1>1. c[k] \in Seq(Nat) /\ n + 1 \in Nat
  BY <1>0 DEF Queues
<1>2. /\ d[k] \in Seq(Nat) /\ Len(d[k]) = m + 1 /\ m \in Nat /\ m = Len(c[k])
      /\ d[k][m + 1] = n + 1
      /\ \A i \in 1 .. m : d[k][i] = c[k][i]
  BY <1>1, Ends
<1> HIDE DEF m
<1>3. \A l \in DOMAIN d : d[l] \in Seq(Nat) /\ (l # k => d[l] = c[l])
  BY <1>0, <1>2 DEF Queues
<1>4. ASSUME NEW l \in DOMAIN d, NEW i \in 1 .. Len(d[l])
      PROVE  \/ l = k /\ i = m + 1 /\ d[l][i] = n + 1
             \/ i \in 1 .. Len(c[l]) /\ d[l][i] = c[l][i] /\ d[l][i] \in 0 .. n
  <2>1. CASE l # k
    BY <2>1, <1>0, <1>3 DEF Bounded
  <2>2. CASE l = k /\ i = m + 1
    BY <2>2, <1>2
  <2>3. CASE l = k /\ i # m + 1
    <3>1. i \in 1 .. m
      BY <2>3, <1>2
    <3> QED
      BY <2>3, <3>1, <1>0, <1>2 DEF Bounded
  <2> QED
    BY <2>1, <2>2, <2>3
<1>5. ASSUME NEW x \in 1 .. n + 1
      PROVE  \E l \in DOMAIN d : \E i \in 1 .. Len(d[l]) : d[l][i] = x
  <2>1. CASE x = n + 1
    <3>1. m + 1 \in 1 .. Len(d[k])
      BY <1>2
    <3> QED
      BY <2>1, <3>1, <1>2
  <2>2. CASE x # n + 1
    <3>1. PICK l \in DOMAIN c : \E i \in 1 .. Len(c[l]) : c[l][i] = x
      BY <2>2, <1>0 DEF Found
    <3>2. PICK i \in 1 .. Len(c[l]) : c[l][i] = x
      BY <3>1
    <3>3. CASE l = k
      <4>1. i \in 1 .. Len(d[k]) /\ d[k][i] = c[k][i]
        BY <3>3, <1>2
      <4> QED
        BY <4>1, <3>2, <3>3
    <3>4. CASE l # k
      BY <3>2, <3>4, <1>3
    <3> QED
      BY <3>3, <3>4
  <2> QED
    BY <2>1, <2>2
<1>6. ASSUME NEW p \in DOMAIN d, NEW r \in DOMAIN d,
             NEW i \in 1 .. Len(d[p]), NEW j \in 1 .. Len(d[r]),
             d[p][i] = d[r][j], d[p][i] # 0
      PROVE  p = r /\ i = j
  <2>1. CASE p = k /\ i = m + 1 /\ d[p][i] = n + 1
    BY <2>1, <1>4, <1>6
  <2>2. CASE r = k /\ j = m + 1 /\ d[r][j] = n + 1
    BY <2>2, <1>4, <1>6
  <2>3. CASE i \in 1 .. Len(c[p]) /\ d[p][i] = c[p][i] /\ j \in 1 .. Len(c[r]) /\ d[r][j] = c[r][j]
    BY <2>3, <1>6, <1>0 DEF Apart
  <2> QED
    BY <2>1, <2>2, <2>3, <1>4
<1>7. ASSUME NEW l \in DOMAIN d, NEW i \in 1 .. Len(d[l])
      PROVE  d[l][i] \in 0 .. n + 1
  BY <1>4
<1>a. Queues(d)
  BY <1>3 DEF Queues
<1>b. Bounded(d, n + 1)
  BY <1>7 DEF Bounded
<1>c. Apart(d)
  BY <1>6 DEF Apart
<1>d. Found(d, n + 1)
  BY <1>5 DEF Found
<1> QED
  BY <1>a, <1>b, <1>c, <1>d DEF Whole

\* The first in one queue goes to the end of another.
LEMMA WholeMoved ==
  ASSUME NEW n \in Nat, NEW c, Whole(c, n), NEW k \in DOMAIN c, NEW l \in DOMAIN c, k # l,
         c[k] # <<>>, NEW d, DOMAIN d = DOMAIN c,
         d[k] = Tail(c[k]), d[l] = Append(c[l], Head(c[k])),
         \A o \in DOMAIN c : o # k /\ o # l => d[o] = c[o]
  PROVE  Whole(d, n)
<1>0. Queues(c) /\ Bounded(c, n) /\ Apart(c) /\ Found(c, n)
  BY DEF Whole
<1> DEFINE a == Len(c[k])
           b == Len(c[l])
<1>1. c[k] \in Seq(Nat) /\ c[l] \in Seq(Nat)
  BY <1>0 DEF Queues
<1>2. /\ d[k] \in Seq(Nat) /\ Len(d[k]) = a - 1 /\ a \in Nat /\ a > 0 /\ a = Len(c[k])
      /\ Head(c[k]) = c[k][1] /\ Head(c[k]) \in Nat
      /\ \A i \in 1 .. a - 1 : d[k][i] = c[k][i + 1]
  BY <1>1, Ends
<1>3. /\ d[l] \in Seq(Nat) /\ Len(d[l]) = b + 1 /\ b \in Nat /\ b = Len(c[l])
      /\ d[l][b + 1] = c[k][1]
      /\ \A i \in 1 .. b : d[l][i] = c[l][i]
  BY <1>1, <1>2, Ends
<1> HIDE DEF a, b
<1>4. \A o \in DOMAIN d : d[o] \in Seq(Nat) /\ (o # k /\ o # l => d[o] = c[o])
  BY <1>0, <1>2, <1>3 DEF Queues
\* Where what is in d comes from.
<1> DEFINE From(o, i, p, j) == \/ o = l /\ i = b + 1 /\ p = k /\ j = 1
                               \/ o = k /\ i \in 1 .. a - 1 /\ p = k /\ j = i + 1
                               \/ o # k /\ i \in 1 .. Len(c[o]) /\ p = o /\ j = i
<1>5. ASSUME NEW o \in DOMAIN d, NEW i \in 1 .. Len(d[o])
      PROVE  \E p \in DOMAIN c : \E j \in 1 .. Len(c[p]) : From(o, i, p, j) /\ d[o][i] = c[p][j]
  <2>1. CASE o = k
    <3>1. i \in 1 .. Len(d[k])
      BY <2>1
    <3>2. i \in 1 .. a - 1
      BY <3>1, <1>2
    <3>3. i + 1 \in 1 .. Len(c[k])
      BY <3>2, <1>2
    <3>4. d[o][i] = c[k][i + 1]
      BY <2>1, <3>2, <1>2
    <3> QED
      BY <2>1, <3>2, <3>3, <3>4
  <2>2. CASE o = l /\ i = b + 1
    <3>1. 1 \in 1 .. Len(c[k]) /\ d[o][i] = c[k][1]
      BY <2>2, <1>2, <1>3
    <3> QED
      BY <2>2, <3>1
  <2>3. CASE o = l /\ i # b + 1
    <3>1. i \in 1 .. Len(d[l])
      BY <2>3
    <3>2. i \in 1 .. b
      BY <3>1, <2>3, <1>3
    <3>3. i \in 1 .. Len(c[l]) /\ d[o][i] = c[l][i]
      BY <3>2, <2>3, <1>3
    <3> QED
      BY <2>3, <3>3
  <2>4. CASE o # k /\ o # l
    BY <2>4, <1>4
  <2> QED
    BY <2>1, <2>2, <2>3, <2>4
<1>6. ASSUME NEW p \in DOMAIN c, NEW j \in 1 .. Len(c[p])
      PROVE  \E o \in DOMAIN d : \E i \in 1 .. Len(d[o]) : d[o][i] = c[p][j]
  <2>1. CASE p = k /\ j = 1
    <3>1. b + 1 \in 1 .. Len(d[l])
      BY <1>3
    <3> QED
      BY <2>1, <3>1, <1>3
  <2>2. CASE p = k /\ j # 1
    <3>1. j - 1 \in 1 .. a - 1 /\ (j - 1) + 1 = j
      BY <2>2, <1>2
    <3>2. j - 1 \in 1 .. Len(d[k]) /\ d[k][j - 1] = c[k][j]
      BY <3>1, <1>2
    <3> QED
      BY <2>2, <3>2
  <2>3. CASE p = l
    <3>1. j \in 1 .. Len(d[l]) /\ d[l][j] = c[l][j]
      BY <2>3, <1>3
    <3> QED
      BY <2>3, <3>1
  <2>4. CASE p # k /\ p # l
    BY <2>4, <1>4
  <2> QED
    BY <2>1, <2>2, <2>3, <2>4
<1>7. ASSUME NEW o \in DOMAIN d, NEW i \in 1 .. Len(d[o])
      PROVE  d[o][i] \in 0 .. n
  BY <1>0, <1>5 DEF Bounded
<1>8. ASSUME NEW o \in DOMAIN d, NEW u \in DOMAIN d,
             NEW i \in 1 .. Len(d[o]), NEW v \in 1 .. Len(d[u]),
             d[o][i] = d[u][v], d[o][i] # 0
      PROVE  o = u /\ i = v
  <2>1. PICK p \in DOMAIN c :
          \E j \in 1 .. Len(c[p]) : From(o, i, p, j) /\ d[o][i] = c[p][j]
    BY <1>5
  <2>a. PICK j \in 1 .. Len(c[p]) : From(o, i, p, j) /\ d[o][i] = c[p][j]
    BY <2>1
  <2>2. PICK r \in DOMAIN c :
          \E w \in 1 .. Len(c[r]) : From(u, v, r, w) /\ d[u][v] = c[r][w]
    BY <1>5
  <2>b. PICK w \in 1 .. Len(c[r]) : From(u, v, r, w) /\ d[u][v] = c[r][w]
    BY <2>2
  <2>3. p = r /\ j = w
    <3>1. c[p][j] = c[r][w] /\ c[p][j] # 0
      BY <2>a, <2>b, <1>8
    <3>2. Apart(c)
      BY <1>0
    <3>3. c[p][j] = c[r][w] /\ c[p][j] # 0 => p = r /\ j = w
      <4>1. p \in DOMAIN c /\ r \in DOMAIN c /\ j \in 1 .. Len(c[p]) /\ w \in 1 .. Len(c[r])
        OBVIOUS
      <4>2. \A k_1, l_1 \in DOMAIN c : \A i_1 \in 1 .. Len(c[k_1]), j_1 \in 1 .. Len(c[l_1]) :
              c[k_1][i_1] = c[l_1][j_1] /\ c[k_1][i_1] # 0 => k_1 = l_1 /\ i_1 = j_1
        BY <3>2, Zenon DEF Apart
      <4> QED
        BY <4>1, <4>2, SMTT(30)
    <3> QED
      BY <3>1, <3>3
  <2>4. i \in Nat /\ v \in Nat
    OBVIOUS
  <2> QED
    <3>1. From(o, i, p, j) /\ From(u, v, p, j)
      BY <2>a, <2>b, <2>3
    <3>2. ~ (i + 1 = 1) /\ ~ (v + 1 = 1)
      BY <2>4
    <3>3. i + 1 = v + 1 => i = v
      BY <2>4
    <3>4. p = l => j # b + 1
      BY <1>3
    <3>5. CASE o = l /\ i = b + 1 /\ p = k /\ j = 1
      BY <3>1, <3>2, <3>5
    <3>6. CASE o = k /\ p = k /\ j = i + 1
      BY <3>1, <3>2, <3>3, <3>6
    <3>7. CASE o # k /\ p = o /\ j = i
      BY <3>1, <3>7
    <3> QED
      BY <3>1, <3>5, <3>6, <3>7
<1>9. ASSUME NEW x \in 1 .. n
      PROVE  \E o \in DOMAIN d : \E i \in 1 .. Len(d[o]) : d[o][i] = x
  <2>1. PICK p \in DOMAIN c : \E j \in 1 .. Len(c[p]) : c[p][j] = x
    BY <1>0 DEF Found
  <2> QED
    BY <2>1, <1>6
<1>a. Queues(d)
  BY <1>4 DEF Queues
<1>b. Bounded(d, n)
  BY <1>7 DEF Bounded
<1>c. Apart(d)
  BY <1>8 DEF Apart
<1>d. Found(d, n)
  BY <1>9 DEF Found
<1> QED
  BY <1>a, <1>b, <1>c, <1>d DEF Whole

\* Ends of the stream come and go.
LEMMA WholeEos ==
  ASSUME NEW n \in Nat, NEW c, Whole(c, n), NEW d, DOMAIN d = DOMAIN c,
         \A k \in DOMAIN c : \/ d[k] = c[k]
                             \/ d[k] = Append(c[k], 0)
                             \/ c[k] # <<>> /\ Head(c[k]) = 0 /\ d[k] = Tail(c[k])
  PROVE  Whole(d, n)
<1>0. Queues(c) /\ Bounded(c, n) /\ Apart(c) /\ Found(c, n)
  BY DEF Whole
<1> DEFINE Gone(k) == IF c[k] # <<>> /\ Head(c[k]) = 0 /\ d[k] = Tail(c[k]) /\ d[k] # c[k]
                      THEN 1 ELSE 0
<1>1. ASSUME NEW k \in DOMAIN d
      PROVE  /\ d[k] \in Seq(Nat) /\ Gone(k) \in 0 .. 1
             /\ \A i \in 1 .. Len(d[k]) :
                  \/ d[k][i] = 0
                  \/ i + Gone(k) \in 1 .. Len(c[k]) /\ d[k][i] = c[k][i + Gone(k)]
             /\ \A i \in 1 .. Len(c[k]) : c[k][i] # 0 =>
                  \E j \in 1 .. Len(d[k]) : d[k][j] = c[k][i]
  <2>1. c[k] \in Seq(Nat)
    BY <1>0 DEF Queues
  <2>2. CASE d[k] = c[k]
    BY <2>1, <2>2
  <2>3. CASE d[k] # c[k] /\ d[k] = Append(c[k], 0)
    <3>1. Len(d[k]) = Len(c[k]) + 1 /\ d[k][Len(c[k]) + 1] = 0 /\ d[k] \in Seq(Nat)
          /\ (\A i \in 1 .. Len(c[k]) : d[k][i] = c[k][i]) /\ Len(c[k]) \in Nat
      BY <2>1, <2>3, Ends
    <3>2. ~ (c[k] # <<>> /\ d[k] = Tail(c[k]))
      BY <2>1, <3>1, Ends
    <3>3. Gone(k) = 0
      BY <3>2
    <3>4. ASSUME NEW i \in 1 .. Len(d[k])
          PROVE  \/ d[k][i] = 0
                 \/ i + Gone(k) \in 1 .. Len(c[k]) /\ d[k][i] = c[k][i + Gone(k)]
      <4>1. CASE i = Len(c[k]) + 1
        BY <4>1, <3>1
      <4>2. CASE i # Len(c[k]) + 1
        <5>1. i \in 1 .. Len(c[k]) /\ i + 0 = i
          BY <4>2, <3>1
        <5> QED
          BY <5>1, <3>1, <3>3
      <4> QED
        BY <4>1, <4>2
    <3>5. ASSUME NEW i \in 1 .. Len(c[k])
          PROVE  i \in 1 .. Len(d[k]) /\ d[k][i] = c[k][i]
      BY <3>1
    <3>6. d[k] \in Seq(Nat) /\ Gone(k) \in 0 .. 1
      BY <3>1, <3>3
    <3>7. \A i \in 1 .. Len(c[k]) : c[k][i] # 0 =>
            \E j \in 1 .. Len(d[k]) : d[k][j] = c[k][i]
      BY <3>5, Zenon
    <3> HIDE DEF Gone
    <3> QED
      BY <3>4, <3>6, <3>7, Zenon
  <2>4. CASE d[k] # c[k] /\ c[k] # <<>> /\ Head(c[k]) = 0 /\ d[k] = Tail(c[k])
    <3>1. /\ Len(d[k]) = Len(c[k]) - 1 /\ Len(c[k]) \in Nat \ {0} /\ c[k][1] = 0
          /\ \A i \in 1 .. Len(c[k]) - 1 : d[k][i] = c[k][i + 1]
          /\ d[k] \in Seq(Nat)
      BY <2>1, <2>4, Ends
    <3>2. Gone(k) = 1
      BY <2>4
    <3>3. \A i \in 1 .. Len(d[k]) : i + 1 \in 1 .. Len(c[k]) /\ d[k][i] = c[k][i + 1]
      BY <3>1
    <3>4. ASSUME NEW i \in 1 .. Len(c[k]), c[k][i] # 0
          PROVE  \E j \in 1 .. Len(d[k]) : d[k][j] = c[k][i]
      <4>1. i - 1 \in 1 .. Len(d[k]) /\ (i - 1) + 1 = i
        BY <3>1, <3>4
      <4> QED
        BY <4>1, <3>3
    <3> QED
      BY <3>1, <3>2, <3>3, <3>4
  <2> QED
    BY <2>2, <2>3, <2>4
<1> HIDE DEF Gone
<1>2. ASSUME NEW k \in DOMAIN d, NEW i \in 1 .. Len(d[k])
      PROVE  d[k][i] \in 0 .. n
  BY <1>0, <1>1 DEF Bounded
<1>3. ASSUME NEW k \in DOMAIN d, NEW l \in DOMAIN d,
             NEW i \in 1 .. Len(d[k]), NEW j \in 1 .. Len(d[l]),
             d[k][i] = d[l][j], d[k][i] # 0
      PROVE  k = l /\ i = j
  <2>1. /\ i + Gone(k) \in 1 .. Len(c[k]) /\ d[k][i] = c[k][i + Gone(k)]
        /\ j + Gone(l) \in 1 .. Len(c[l]) /\ d[l][j] = c[l][j + Gone(l)]
    BY <1>1, <1>3
  <2>2. k = l /\ i + Gone(k) = j + Gone(l)
    BY <2>1, <1>0, <1>3 DEF Apart
  <2>3. Gone(k) \in Nat /\ i \in Nat /\ j \in Nat
    <3>1. Gone(k) \in 0 .. 1
      BY <1>1, Zenon
    <3> QED
      BY <3>1
  <2>4. i + Gone(k) = j + Gone(k)
    BY <2>2
  <2> QED
    BY <2>2, <2>3, <2>4
<1>4. ASSUME NEW x \in 1 .. n
      PROVE  \E k \in DOMAIN d : \E i \in 1 .. Len(d[k]) : d[k][i] = x
  <2>1. PICK k \in DOMAIN c : \E i \in 1 .. Len(c[k]) : c[k][i] = x
    BY <1>0 DEF Found
  <2>2. PICK i \in 1 .. Len(c[k]) : c[k][i] = x
    BY <2>1
  <2>3. c[k][i] # 0
    BY <2>2
  <2>4. \E j \in 1 .. Len(d[k]) : d[k][j] = c[k][i]
    BY <2>3, <1>1
  <2> QED
    BY <2>2, <2>4
<1>a. Queues(d)
  BY <1>1 DEF Queues
<1>b. Bounded(d, n)
  BY <1>2 DEF Bounded
<1>c. Apart(d)
  BY <1>3 DEF Apart
<1>d. Found(d, n)
  BY <1>4 DEF Found
<1> QED
  BY <1>a, <1>b, <1>c, <1>d DEF Whole

\* All images in one queue.
LEMMA WholeIn ==
  ASSUME NEW n \in Nat, NEW c, Whole(c, n), NEW k \in DOMAIN c,
         \A l \in DOMAIN c : l # k => c[l] = <<>>,
         \A i \in 1 .. Len(c[k]) : c[k][i] # 0
  PROVE  Len(c[k]) = n /\ {c[k][i] : i \in DOMAIN c[k]} = 1 .. n
<1>0. Queues(c) /\ Bounded(c, n) /\ Apart(c) /\ Found(c, n)
  BY DEF Whole
<1> DEFINE D == 1 .. Len(c[k])
<1>1. c[k] \in Seq(Nat) /\ Len(c[k]) \in Nat /\ DOMAIN c[k] = D
  BY <1>0 DEF Queues
<1>2. \A i \in D : c[k][i] \in 1 .. n
  BY <1>0 DEF Bounded
<1>3. \A i, j \in D : c[k][i] = c[k][j] => i = j
  BY <1>0 DEF Apart
<1>4. ASSUME NEW x \in 1 .. n PROVE \E i \in D : c[k][i] = x
  <2>1. PICK l \in DOMAIN c : \E i \in 1 .. Len(c[l]) : c[l][i] = x
    BY <1>0 DEF Found
  <2>2. l = k
    <3>1. SUFFICES ASSUME l # k PROVE FALSE
      OBVIOUS
    <3>2. c[l] = <<>>
      BY <3>1
    <3> QED
      BY <2>1, <3>2
  <2> QED
    BY <2>1, <2>2
<1>5. c[k] = [i \in D |-> c[k][i]]
  BY <1>1
<1>6. c[k] \in Bijection(D, 1 .. n)
  <2>1. c[k] \in [D -> 1 .. n]
    BY <1>2, <1>5
  <2> QED
    BY <2>1, <1>3, <1>4 DEF Bijection, Injection, Surjection, IsInjective
<1>7. ExistsBijection(D, 1 .. n)
  BY <1>6 DEF ExistsBijection
<1>8. \A b \in Nat : IsFiniteSet(1 .. b) /\ Cardinality(1 .. b) = b
  BY FS_Interval
<1>9. Len(c[k]) = n
  <2>1. IsFiniteSet(D) /\ Cardinality(D) = Len(c[k]) /\ Cardinality(1 .. n) = n
    BY <1>1, <1>8
  <2> QED
    BY <1>7, <2>1, FS_Bijection
<1>10. {c[k][i] : i \in DOMAIN c[k]} = 1 .. n
  BY <1>1, <1>2, <1>4
<1> QED
  BY <1>9, <1>10

-----------------------------------------------------------------------------
(* ferret on pthreads (FerretThreads). *)

CONSTANTS Images, N, DEPTH                                  \* as in FerretThreads,
VARIABLES q, held, left, cnt_enqueue, cnt_dequeue, printed  \* with these variables

Fer == INSTANCE FerretThreads

\* The producers of queue s.
Upstream(s) == IF s = 1 THEN {<<0, 1>>} ELSE {s - 1} \X (1 .. N)

\* Where an image can be: in a queue, with a thread, or printed.
Spots == ({"queue"} \X Fer!Pools) \cup ({"thread"} \X Fer!Thread) \cup {<<"printed", 0>>}

Contents ==
  [k \in Spots |-> CASE k[1] = "queue" -> q[k[2]].items
                     [] k[1] = "thread" -> IF held[k[2]] = 0 THEN <<>> ELSE <<held[k[2]]>>
                     [] k[1] = "printed" -> printed]

FerTyped ==
  /\ q \in [Fer!Pools -> [items : Seq(Nat \ {0}), ended : Nat]]
  /\ \A s \in Fer!Pools : Len(q[s].items) <= DEPTH
  /\ held \in [Fer!Thread -> 0 .. Images] /\ left \subseteq Fer!Thread
  /\ cnt_enqueue \in 0 .. Images
  /\ printed \in Seq(Nat \ {0}) /\ cnt_dequeue = Len(printed)

\* A queue counts the threads that are gone; they hold nothing, and what they read
\* from has ended.
FerEnds ==
  /\ \A s \in Fer!Pools : q[s].ended = Cardinality(left \cap Upstream(s))
  /\ \A t \in left : held[t] = 0
  /\ <<0, 1>> \in left => cnt_enqueue = Images
  /\ \A s \in Fer!Pools : \A w \in Fer!Threads(s) : <<s, w>> \in left => Fer!Ended(s)
  /\ held[<<Fer!Out, 1>>] = 0

FerWhole == Whole(Contents, cnt_enqueue)

FerIInv == FerTyped /\ FerEnds /\ FerWhole

\* The threads.
LEMMA FerThread ==
  ASSUME Fer!FerretAssumption
  PROVE  /\ <<0, 1>> \in Fer!Thread
         /\ \A s \in Fer!Pools : \A w \in Fer!Threads(s) : <<s, w>> \in Fer!Thread
         /\ <<5, 1>> \in Fer!Thread
         /\ \A t \in Fer!Thread : \/ t = <<0, 1>>
                                  \/ \E s \in Fer!Pools : \E w \in Fer!Threads(s) : t = <<s, w>>
         /\ \A t \in Fer!Thread : t # <<5, 1>> => \E s \in Fer!Pools : t \in Upstream(s)
         /\ \A s \in Fer!Pools : Upstream(s) \subseteq Fer!Thread
<1> USE DEF Fer!FerretAssumption, Fer!Pools, Fer!Out
<1>1. /\ <<0, 1>> \in Fer!Thread
      /\ \A s \in Fer!Pools : \A w \in Fer!Threads(s) : <<s, w>> \in Fer!Thread
      /\ \A t \in Fer!Thread : \/ t = <<0, 1>>
                               \/ \E s \in Fer!Pools : \E w \in Fer!Threads(s) : t = <<s, w>>
  BY DEF Fer!Thread
<1>2. <<5, 1>> \in Fer!Thread
  BY <1>1 DEF Fer!Threads
<1>3. ASSUME NEW t \in Fer!Thread, t # <<5, 1>>
      PROVE  \E s \in Fer!Pools : t \in Upstream(s)
  <2>1. CASE t = <<0, 1>>
    BY <2>1 DEF Upstream
  <2>2. CASE \E s \in Fer!Pools : \E w \in Fer!Threads(s) : t = <<s, w>>
    <3>1. PICK s \in Fer!Pools : \E w \in Fer!Threads(s) : t = <<s, w>>
      BY <2>2
    <3>2. PICK w \in Fer!Threads(s) : t = <<s, w>>
      BY <3>1
    <3>3. s # 5 /\ w \in 1 .. N
      BY <3>2, <1>3 DEF Fer!Threads
    <3>4. s + 1 \in Fer!Pools /\ s + 1 # 1 /\ (s + 1) - 1 = s
      BY <3>3
    <3>5. t \in Upstream(s + 1)
      BY <3>2, <3>3, <3>4 DEF Upstream
    <3> QED
      BY <3>4, <3>5
  <2> QED
    BY <1>1, <2>1, <2>2
<1>4. ASSUME NEW s \in Fer!Pools, NEW t \in Upstream(s)
      PROVE  t \in Fer!Thread
  <2>1. CASE s = 1
    BY <2>1, <1>1 DEF Upstream
  <2>2. CASE s # 1
    <3>1. PICK w \in 1 .. N : t = <<s - 1, w>>
      BY <2>2 DEF Upstream
    <3>2. s - 1 \in Fer!Pools /\ s - 1 # 5
      BY <2>2
    <3>3. w \in Fer!Threads(s - 1)
      BY <3>2 DEF Fer!Threads
    <3> QED
      BY <1>1, <3>1, <3>2, <3>3
  <2> QED
    BY <2>1, <2>2
<1> QED
  BY <1>1, <1>2, <1>3, <1>4

\* A queue has as many producers as it was told.
LEMMA FerProducers ==
  ASSUME Fer!FerretAssumption, NEW s \in Fer!Pools
  PROVE  IsFiniteSet(Upstream(s)) /\ Cardinality(Upstream(s)) = Fer!Producers(s)
<1>1. CASE s = 1
  BY <1>1, FS_Singleton DEF Upstream, Fer!Producers
<1>2. CASE s # 1
  <2>1. N \in Nat /\ IsFiniteSet(1 .. N) /\ Cardinality(1 .. N) = N
    BY FS_Interval DEF Fer!FerretAssumption
  <2>2. IsFiniteSet({s - 1}) /\ Cardinality({s - 1}) = 1
    BY FS_Singleton
  <2>3. /\ IsFiniteSet({s - 1} \X (1 .. N))
        /\ Cardinality({s - 1} \X (1 .. N)) = Cardinality({s - 1}) * Cardinality(1 .. N)
    BY <2>1, <2>2, FS_Product
  <2>4. Cardinality({s - 1}) * Cardinality(1 .. N) = N
    BY <2>1, <2>2
  <2> QED
    BY <1>2, <2>3, <2>4 DEF Upstream, Fer!Producers
<1> QED
  BY <1>1, <1>2

\* A queue that has ended has lost all its producers.
LEMMA FerEnded ==
  ASSUME Fer!FerretAssumption, FerTyped, FerEnds, NEW s \in Fer!Pools, Fer!Ended(s)
  PROVE  Upstream(s) \subseteq left /\ q[s].items = <<>>
<1>1. q[s].ended = Fer!Producers(s) /\ q[s].items = <<>>
  BY DEF Fer!Ended
<1>2. Cardinality(left \cap Upstream(s)) = Cardinality(Upstream(s)) /\ IsFiniteSet(Upstream(s))
  BY <1>1, FerProducers DEF FerEnds
<1>3. left \cap Upstream(s) = Upstream(s)
  BY <1>2, FS_Subset, left \cap Upstream(s) \in SUBSET Upstream(s)
<1> QED
  BY <1>1, <1>3

\* The places, and what is in each.
LEMMA FerSpots ==
  /\ DOMAIN Contents = Spots
  /\ \A s \in Fer!Pools : <<"queue", s>> \in Spots /\ Contents[<<"queue", s>>] = q[s].items
  /\ \A t \in Fer!Thread : /\ <<"thread", t>> \in Spots
                           /\ Contents[<<"thread", t>>] = IF held[t] = 0 THEN <<>> ELSE <<held[t]>>
  /\ <<"printed", 0>> \in Spots /\ Contents[<<"printed", 0>>] = printed
  /\ \A k \in Spots : \/ \E s \in Fer!Pools : k = <<"queue", s>>
                      \/ \E t \in Fer!Thread : k = <<"thread", t>>
                      \/ k = <<"printed", 0>>
BY DEF Contents, Spots

\* The same in the next state.
LEMMA FerSpotsNext ==
  /\ DOMAIN Contents' = Spots
  /\ \A s \in Fer!Pools : Contents'[<<"queue", s>>] = q'[s].items
  /\ \A t \in Fer!Thread :
       Contents'[<<"thread", t>>] = IF held'[t] = 0 THEN <<>> ELSE <<held'[t]>>
  /\ Contents'[<<"printed", 0>>] = printed'
BY DEF Contents, Spots

\* A place that a step leaves alone.
LEMMA FerSame ==
  ASSUME NEW k \in Spots,
         \A s \in Fer!Pools : k = <<"queue", s>> => q'[s].items = q[s].items,
         \A t \in Fer!Thread : k = <<"thread", t>> => held'[t] = held[t],
         k = <<"printed", 0>> => printed' = printed
  PROVE  Contents'[k] = Contents[k]
<1>1. CASE \E s \in Fer!Pools : k = <<"queue", s>>
  <2>1. PICK s \in Fer!Pools : k = <<"queue", s>>
    BY <1>1
  <2> QED
    BY <2>1, FerSpots, FerSpotsNext
<1>2. CASE \E t \in Fer!Thread : k = <<"thread", t>>
  <2>1. PICK t \in Fer!Thread : k = <<"thread", t>>
    BY <1>2
  <2>2. held'[t] = held[t]
    BY <2>1
  <2>3. Contents[k] = IF held[t] = 0 THEN <<>> ELSE <<held[t]>>
    BY <2>1, FerSpots
  <2>4. Contents'[k] = IF held'[t] = 0 THEN <<>> ELSE <<held'[t]>>
    BY <2>1, FerSpotsNext
  <2> QED
    BY <2>2, <2>3, <2>4
<1>3. CASE k = <<"printed", 0>>
  BY <1>3, FerSpots, FerSpotsNext
<1> QED
  BY <1>1, <1>2, <1>3, FerSpots

\* An image goes from one place to another.
LEMMA FerMoved ==
  ASSUME FerIInv, cnt_enqueue' = cnt_enqueue,
         NEW k \in Spots, NEW l \in Spots, k # l, Contents[k] # <<>>,
         Contents'[k] = Tail(Contents[k]),
         Contents'[l] = Append(Contents[l], Head(Contents[k])),
         \A o \in Spots : o # k /\ o # l => Contents'[o] = Contents[o]
  PROVE  FerWhole'
<1>1. PICK c, d : c = Contents /\ d = Contents'
  OBVIOUS
<1>2. Whole(c, cnt_enqueue) /\ DOMAIN c = Spots /\ DOMAIN d = Spots /\ cnt_enqueue \in Nat
  BY <1>1, FerSpots, FerSpotsNext DEF FerIInv, FerWhole, FerTyped
<1>3. /\ c[k] # <<>> /\ d[k] = Tail(c[k]) /\ d[l] = Append(c[l], Head(c[k]))
      /\ \A o \in Spots : o # k /\ o # l => d[o] = c[o]
  BY <1>1
<1>4. Whole(d, cnt_enqueue)
  BY <1>2, <1>3, WholeMoved
<1> QED
  BY <1>1, <1>4 DEF FerWhole

\* main: nothing has been read.
LEMMA FerInit == ASSUME Fer!FerretAssumption, Fer!Init PROVE FerIInv
<1> USE DEF Fer!FerretAssumption, Fer!Init
<1>1. FerTyped
  BY DEF FerTyped
<1>2. FerEnds
  <2>1. \A s \in Fer!Pools : q[s].ended = Cardinality(left \cap Upstream(s))
    BY FS_EmptySet, \A s : left \cap Upstream(s) = {}
  <2>2. held[<<Fer!Out, 1>>] = 0
    BY FerThread DEF Fer!Out
  <2> QED
    BY <2>1, <2>2 DEF FerEnds
<1>3. FerWhole
  <2>1. \A k \in Spots : Contents[k] = <<>>
    BY FerSpots
  <2>2. DOMAIN Contents = Spots
    BY FerSpots
  <2> QED
    <3>1. cnt_enqueue = 0 /\ <<>> \in Seq(Nat) /\ Len(<<>>) = 0 /\ 1 .. 0 = {}
      OBVIOUS
    <3>2. \A k \in DOMAIN Contents : Contents[k] \in Seq(Nat) /\ 1 .. Len(Contents[k]) = {}
      BY <2>1, <2>2, <3>1
    <3>3. Queues(Contents) /\ Bounded(Contents, 0)
      BY <3>2 DEF Queues, Bounded
    <3>4. Apart(Contents)
      BY <3>2 DEF Apart
    <3>5. Found(Contents, 0)
      BY <3>1 DEF Found
    <3> QED
      BY <3>1, <3>3, <3>4, <3>5 DEF FerWhole, Whole
<1> QED
  BY <1>1, <1>2, <1>3 DEF FerIInv

\* t_load reads the next image.
LEMMA FerFile ==
  ASSUME Fer!FerretAssumption, FerIInv, Fer!file_helper PROVE FerIInv'
<1> DEFINE t == <<0, 1>>
<1>1. /\ t \in Fer!Thread /\ held[t] = 0 /\ cnt_enqueue < Images
      /\ cnt_enqueue' = cnt_enqueue + 1
      /\ held' = [held EXCEPT ![t] = cnt_enqueue + 1]
      /\ q' = q /\ left' = left /\ cnt_dequeue' = cnt_dequeue /\ printed' = printed
  BY FerThread DEF Fer!file_helper
<1>2. cnt_enqueue \in Nat /\ Images \in Nat /\ held \in [Fer!Thread -> 0 .. Images]
  BY DEF FerIInv, FerTyped, Fer!FerretAssumption
<1>3. FerTyped'
  <2>1. cnt_enqueue + 1 \in 0 .. Images
    BY <1>1, <1>2
  <2>2. held' \in [Fer!Thread -> 0 .. Images]
    BY <1>1, <1>2, <2>1
  <2> QED
    BY <1>1, <2>1, <2>2 DEF FerIInv, FerTyped
<1>4. FerEnds'
  <2>1. t \notin left
    BY <1>1, <1>2 DEF FerIInv, FerEnds
  <2>2. \A u \in left : held'[u] = 0
    BY <1>1, <1>2, <2>1 DEF FerIInv, FerEnds, FerTyped
  <2>3. held'[<<5, 1>>] = 0
    BY <1>1, <1>2, FerThread DEF FerIInv, FerEnds, Fer!Out
  <2> QED
    BY <1>1, <2>1, <2>2, <2>3 DEF FerIInv, FerEnds, Fer!Out, Fer!Ended
<1>5. FerWhole'
  <2>1. PICK c, d : c = Contents /\ d = Contents'
    OBVIOUS
  <2>2. Whole(c, cnt_enqueue) /\ DOMAIN d = DOMAIN c /\ <<"thread", t>> \in DOMAIN c
    BY <1>1, <2>1, FerSpots, FerSpotsNext DEF FerIInv, FerWhole
  <2>a. held'[t] = cnt_enqueue + 1 /\ cnt_enqueue + 1 # 0
    BY <1>1, <1>2
  <2>3. c[<<"thread", t>>] = <<>> /\ d[<<"thread", t>>] = <<cnt_enqueue + 1>>
    <3>1. Contents[<<"thread", t>>] = <<>>
      BY <1>1, FerSpots
    <3>2. Contents'[<<"thread", t>>] = <<cnt_enqueue + 1>>
      BY <1>1, <2>a, FerSpotsNext
    <3> QED
      BY <2>1, <3>1, <3>2
  <2>4. d[<<"thread", t>>] = Append(c[<<"thread", t>>], cnt_enqueue + 1)
    BY <2>3
  <2>5. ASSUME NEW k \in DOMAIN c, k # <<"thread", t>> PROVE d[k] = c[k]
    <3>1. k \in Spots
      BY <2>1, FerSpots
    <3>2. \A u \in Fer!Thread : u # t => held'[u] = held[u]
      BY <1>1, <1>2
    <3>3. Contents'[k] = Contents[k]
      BY <1>1, <2>5, <3>1, <3>2, FerSame
    <3> QED
      BY <2>1, <3>3
  <2>6. Whole(d, cnt_enqueue + 1)
    BY <1>2, <2>2, <2>4, <2>5, WholeAdded
  <2> QED
    BY <1>1, <2>1, <2>6 DEF FerWhole
<1> QED
  BY <1>3, <1>4, <1>5 DEF FerIInv

\* A thread takes an image.
LEMMA FerGet ==
  ASSUME Fer!FerretAssumption, FerIInv,
         NEW s \in Fer!Pools, NEW w \in Fer!Threads(s), Fer!Get(s, w)
  PROVE  FerIInv'
<1> DEFINE t == <<s, w>>
           x == Head(q[s].items)
<1>1. /\ t \in Fer!Thread /\ s # Fer!Out /\ held[t] = 0 /\ q[s].items # <<>>
      /\ held' = [held EXCEPT ![t] = x]
      /\ q' = [q EXCEPT ![s].items = Tail(@)]
      /\ left' = left /\ cnt_enqueue' = cnt_enqueue
      /\ cnt_dequeue' = cnt_dequeue /\ printed' = printed
  BY FerThread DEF Fer!Get
<1>2. /\ q \in [Fer!Pools -> [items : Seq(Nat \ {0}), ended : Nat]]
      /\ held \in [Fer!Thread -> 0 .. Images]
      /\ q[s].items \in Seq(Nat \ {0})
  BY DEF FerIInv, FerTyped
<1>3. x \in 1 .. Images
  <2>1. Contents[<<"queue", s>>] = q[s].items /\ <<"queue", s>> \in DOMAIN Contents
    BY FerSpots
  <2>2. 1 \in 1 .. Len(q[s].items) /\ x = q[s].items[1]
    BY <1>1, <1>2
  <2>3. x \in 0 .. cnt_enqueue
    BY <2>1, <2>2 DEF FerIInv, FerWhole, Whole, Bounded
  <2>4. x # 0
    BY <1>1, <1>2
  <2> QED
    BY <2>3, <2>4 DEF FerIInv, FerTyped, Fer!FerretAssumption
<1>4. FerTyped'
  <2>1. held' \in [Fer!Thread -> 0 .. Images]
    BY <1>1, <1>2, <1>3
  <2>2. Tail(q[s].items) \in Seq(Nat \ {0}) /\ Len(Tail(q[s].items)) <= DEPTH
    BY <1>1, <1>2 DEF FerIInv, FerTyped, Fer!FerretAssumption
  <2>3. q' \in [Fer!Pools -> [items : Seq(Nat \ {0}), ended : Nat]]
    BY <1>1, <1>2, <2>2
  <2>4. \A r \in Fer!Pools : Len(q'[r].items) <= DEPTH
    BY <1>1, <1>2, <2>2 DEF FerIInv, FerTyped
  <2> QED
    BY <1>1, <2>1, <2>3, <2>4 DEF FerIInv, FerTyped
<1>5. FerEnds'
  <2>1. t \notin left
    BY <1>1 DEF FerIInv, FerEnds, Fer!Ended
  <2>2. \A u \in left : held'[u] = 0
    BY <1>1, <1>2, <2>1 DEF FerIInv, FerEnds, FerTyped
  <2>3. held'[<<5, 1>>] = 0
    BY <1>1, <1>2, FerThread DEF FerIInv, FerEnds, Fer!Out
  <2>4. \A r \in Fer!Pools : q'[r].ended = q[r].ended
    BY <1>1, <1>2
  <2>5. \A r \in Fer!Pools : Fer!Ended(r) => Fer!Ended(r)'
    BY <1>1, <1>2 DEF Fer!Ended
  <2> QED
    BY <1>1, <2>1, <2>2, <2>3, <2>4, <2>5 DEF FerIInv, FerEnds, Fer!Out
<1>6. FerWhole'
  <2> DEFINE k == <<"queue", s>>
             l == <<"thread", t>>
  <2>1. k \in Spots /\ l \in Spots /\ k # l
    BY <1>1, FerSpots
  <2>2. Contents[k] = q[s].items /\ Contents[l] = <<>>
    BY <1>1, FerSpots
  <2>3. q'[s].items = Tail(q[s].items) /\ held'[t] = x /\ x # 0
    BY <1>1, <1>2, <1>3
  <2>4. Contents'[k] = Tail(q[s].items)
    BY <2>3, FerSpotsNext
  <2>5. Contents'[l] = <<x>>
    BY <1>1, <2>3, FerSpotsNext
  <2>6. Contents'[l] = Append(Contents[l], Head(Contents[k]))
    BY <2>2, <2>5
  <2>7. \A o \in Spots : o # k /\ o # l => Contents'[o] = Contents[o]
    <3>1. \A r \in Fer!Pools : r # s => q'[r].items = q[r].items
      BY <1>1, <1>2
    <3>2. \A u \in Fer!Thread : u # t => held'[u] = held[u]
      BY <1>1, <1>2
    <3> QED
      BY <1>1, <3>1, <3>2, FerSame
  <2> HIDE DEF k, l, x
  <2> QED
    BY <1>1, <2>1, <2>2, <2>4, <2>6, <2>7, FerMoved
<1> QED
  BY <1>4, <1>5, <1>6 DEF FerIInv

\* What a thread has made of an image goes on.
LEMMA FerPut ==
  ASSUME Fer!FerretAssumption, FerIInv, NEW s \in 0 .. 4, NEW w, <<s, w>> \in Fer!Thread,
         Fer!Put(s, w)
  PROVE  FerIInv'
<1> DEFINE t == <<s, w>>
           r == s + 1
<1>1. /\ s # Fer!Out /\ held[t] # 0 /\ Len(q[r].items) < DEPTH
      /\ held' = [held EXCEPT ![t] = 0]
      /\ q' = [q EXCEPT ![r].items = Append(@, held[t])]
      /\ left' = left /\ cnt_enqueue' = cnt_enqueue
      /\ cnt_dequeue' = cnt_dequeue /\ printed' = printed
  BY DEF Fer!Put, Fer!enqueue
<1>2. /\ q \in [Fer!Pools -> [items : Seq(Nat \ {0}), ended : Nat]]
      /\ held \in [Fer!Thread -> 0 .. Images]
      /\ r \in Fer!Pools /\ Images \in Nat /\ DEPTH \in Nat
      /\ q[r].items \in Seq(Nat \ {0})
      /\ held[t] \in Nat \ {0}
  <2>1. /\ q \in [Fer!Pools -> [items : Seq(Nat \ {0}), ended : Nat]]
        /\ held \in [Fer!Thread -> 0 .. Images]
        /\ Images \in Nat /\ DEPTH \in Nat
    BY DEF FerIInv, FerTyped, Fer!FerretAssumption
  <2>2. r \in Fer!Pools
    BY DEF Fer!Pools
  <2>3. held[t] \in 0 .. Images
    BY <2>1
  <2>4. held[t] \in Nat \ {0}
    BY <1>1, <2>1, <2>3
  <2> HIDE DEF r, t
  <2> QED
    BY <2>1, <2>2, <2>4
<1>3. FerTyped'
  <2>1. held' \in [Fer!Thread -> 0 .. Images]
    BY <1>1, <1>2
  <2>2. /\ Append(q[r].items, held[t]) \in Seq(Nat \ {0})
        /\ Len(Append(q[r].items, held[t])) <= DEPTH
    BY <1>1, <1>2
  <2> HIDE DEF r, t
  <2>3. q' \in [Fer!Pools -> [items : Seq(Nat \ {0}), ended : Nat]]
    BY <1>1, <1>2, <2>2
  <2>4. \A p \in Fer!Pools : Len(q'[p].items) <= DEPTH
    BY <1>1, <1>2, <2>2 DEF FerIInv, FerTyped
  <2> QED
    BY <1>1, <2>1, <2>3, <2>4 DEF FerIInv, FerTyped
<1>4. FerEnds'
  <2>1. t \notin left
    BY <1>1 DEF FerIInv, FerEnds
  <2>2. \A u \in left : held'[u] = 0
    BY <1>1, <1>2, <2>1 DEF FerIInv, FerEnds, FerTyped
  <2>3. held'[<<5, 1>>] = 0
    BY <1>1, <1>2, FerThread DEF FerIInv, FerEnds, Fer!Out
  <2>4. \A p \in Fer!Pools : q'[p].ended = q[p].ended
    BY <1>1, <1>2
  \* The queue has not ended: this thread is one of its producers.
  <2>5. ASSUME NEW p \in Fer!Pools, Fer!Ended(p)
        PROVE  Fer!Ended(p)'
    <3>1. p # r
      <4>1. SUFFICES ASSUME p = r PROVE FALSE
        OBVIOUS
      <4>2. Upstream(r) \subseteq left
        BY <2>5, <4>1, FerEnded DEF FerIInv
      <4>3. t \in Upstream(r)
        <5>1. CASE s = 0
          <6>1. t = <<0, 1>>
            BY <5>1, FerThread DEF Fer!Pools
          <6> QED
            BY <5>1, <6>1 DEF Upstream
        <5>2. CASE s # 0
          <6>1. w \in 1 .. N
            BY <5>2, FerThread DEF Fer!Threads, Fer!Out
          <6>2. r # 1 /\ r - 1 = s
            BY <5>2
          <6> QED
            BY <6>1, <6>2 DEF Upstream
        <5> QED
          BY <5>1, <5>2
      <4> QED
        BY <2>1, <4>2, <4>3
    <3> QED
      BY <1>1, <1>2, <2>5, <3>1 DEF Fer!Ended
  <2> QED
    BY <1>1, <2>1, <2>2, <2>3, <2>4, <2>5 DEF FerIInv, FerEnds, Fer!Out
<1>5. FerWhole'
  <2> DEFINE k == <<"thread", t>>
             l == <<"queue", r>>
  <2>1. k \in Spots /\ l \in Spots /\ k # l
    BY <1>2, FerSpots
  <2>2. Contents[l] = q[r].items /\ Contents[k] = <<held[t]>>
    BY <1>1, <1>2, FerSpots
  <2>3. q'[r].items = Append(q[r].items, held[t]) /\ held'[t] = 0
    BY <1>1, <1>2
  <2>4. Contents'[l] = Append(q[r].items, held[t])
    BY <1>2, <2>3, FerSpotsNext
  <2>5. Contents'[k] = <<>>
    BY <1>1, <2>3, FerSpotsNext
  <2>6. /\ Contents'[k] = Tail(Contents[k]) /\ Contents[k] # <<>>
        /\ Contents'[l] = Append(Contents[l], Head(Contents[k]))
    BY <2>2, <2>4, <2>5
  <2>7. \A o \in Spots : o # k /\ o # l => Contents'[o] = Contents[o]
    <3>1. \A p \in Fer!Pools : p # r => q'[p].items = q[p].items
      BY <1>1, <1>2
    <3>2. \A u \in Fer!Thread : u # t => held'[u] = held[u]
      BY <1>1, <1>2
    <3> QED
      BY <1>1, <3>1, <3>2, FerSame
  <2> HIDE DEF k, l
  <2> QED
    BY <1>1, <2>1, <2>6, <2>7, FerMoved
<1> QED
  BY <1>3, <1>4, <1>5 DEF FerIInv

\* A thread finds that there will be nothing more, says so and returns.
LEMMA FerLeave ==
  ASSUME Fer!FerretAssumption, FerIInv, NEW s \in 0 .. 4, NEW w, <<s, w>> \in Fer!Thread,
         Fer!Leave(s, w)
  PROVE  FerIInv'
<1> DEFINE t == <<s, w>>
           r == s + 1
<1>1. /\ t \notin left /\ held[t] = 0
      /\ IF s = 0 THEN cnt_enqueue = Images ELSE Fer!Ended(s)
      /\ q' = [q EXCEPT ![r].ended = @ + 1]
      /\ left' = left \cup {t} /\ held' = held /\ cnt_enqueue' = cnt_enqueue
      /\ cnt_dequeue' = cnt_dequeue /\ printed' = printed
  BY DEF Fer!Leave, Fer!queue_signal_terminate
<1>2. /\ q \in [Fer!Pools -> [items : Seq(Nat \ {0}), ended : Nat]]
      /\ r \in Fer!Pools
  BY DEF FerIInv, FerTyped, Fer!Pools
<1>3. \A p \in Fer!Pools : /\ q'[p].items = q[p].items
                           /\ q'[p].ended = IF p = r THEN q[p].ended + 1 ELSE q[p].ended
  BY <1>1, <1>2
<1>4. \A p \in Fer!Pools : t \in Upstream(p) <=> p = r
  <2>1. CASE s = 0
    <3>1. w = 1
      BY <2>1, FerThread DEF Fer!Pools
    <3> QED
      BY <2>1, <3>1 DEF Upstream, Fer!Pools
  <2>2. CASE s # 0
    <3>1. w \in 1 .. N
      BY <2>2, FerThread DEF Fer!Threads, Fer!Out
    <3>2. \A p \in Fer!Pools : p - 1 = s <=> p = s + 1
      BY DEF Fer!Pools
    <3> QED
      BY <2>2, <3>1, <3>2 DEF Upstream
  <2> QED
    BY <2>1, <2>2
<1>5. FerTyped'
  <2>1. q' \in [Fer!Pools -> [items : Seq(Nat \ {0}), ended : Nat]]
    <3>1. q[r] \in [items : Seq(Nat \ {0}), ended : Nat]
      BY <1>2
    <3>2. [q[r] EXCEPT !.ended = @ + 1] \in [items : Seq(Nat \ {0}), ended : Nat]
      BY <3>1
    <3> HIDE DEF r
    <3> QED
      BY <1>1, <1>2, <3>2
  <2> QED
    BY <1>1, <1>3, <2>1 DEF FerIInv, FerTyped
<1>6. FerEnds'
  <2>1. ASSUME NEW p \in Fer!Pools
        PROVE  q'[p].ended = Cardinality(left' \cap Upstream(p))
    <3>1. IsFiniteSet(left \cap Upstream(p)) /\ q[p].ended = Cardinality(left \cap Upstream(p))
      BY FerProducers, FS_Subset, left \cap Upstream(p) \in SUBSET Upstream(p) DEF FerIInv, FerEnds
    <3>2. CASE p = r
      <4>1. left' \cap Upstream(p) = (left \cap Upstream(p)) \cup {t} /\ t \notin left \cap Upstream(p)
        BY <1>1, <1>4, <3>2
      <4>2. Cardinality((left \cap Upstream(p)) \cup {t}) = Cardinality(left \cap Upstream(p)) + 1
        BY <3>1, <4>1, FS_AddElement
      <4> QED
        BY <1>3, <3>1, <3>2, <4>1, <4>2
    <3>3. CASE p # r
      <4>1. left' \cap Upstream(p) = left \cap Upstream(p)
        BY <1>1, <1>4, <3>3
      <4> QED
        BY <1>3, <3>1, <3>3, <4>1
    <3> QED
      BY <3>2, <3>3
  \* A queue that has ended has no producer left to say so once more.
  <2>2. ASSUME NEW p \in Fer!Pools, Fer!Ended(p)
        PROVE  Fer!Ended(p)'
    <3>1. Upstream(p) \subseteq left
      BY <2>2, FerEnded DEF FerIInv
    <3>2. p # r
      BY <1>1, <1>4, <3>1
    <3> QED
      BY <1>3, <2>2, <3>2 DEF Fer!Ended
  <2>3. t = <<0, 1>> => cnt_enqueue = Images
    BY <1>1
  <2>4. \A p \in Fer!Pools : \A v \in Fer!Threads(p) : <<p, v>> = t => Fer!Ended(p)
    BY <1>1 DEF Fer!Pools
  <2>5. \A p \in Fer!Pools : \A v \in Fer!Threads(p) : <<p, v>> \in left' => Fer!Ended(p)'
    BY <1>1, <2>2, <2>4 DEF FerIInv, FerEnds
  <2> QED
    BY <1>1, <2>1, <2>3, <2>5 DEF FerIInv, FerEnds, Fer!Out
<1>7. FerWhole'
  <2>1. \A k \in Spots : Contents'[k] = Contents[k]
    BY <1>1, <1>3, FerSame
  <2>2. Contents' = Contents
    BY <2>1 DEF Contents
  <2> QED
    BY <1>1, <2>2 DEF FerIInv, FerWhole
<1> QED
  BY <1>5, <1>6, <1>7 DEF FerIInv

\* t_out prints a result, or returns.
LEMMA FerOut ==
  ASSUME Fer!FerretAssumption, FerIInv, Fer!t_out PROVE FerIInv'
<1>1. /\ held' = held /\ cnt_enqueue' = cnt_enqueue /\ 5 \in Fer!Pools /\ Fer!Out = 5
      /\ q \in [Fer!Pools -> [items : Seq(Nat \ {0}), ended : Nat]]
      /\ printed \in Seq(Nat \ {0}) /\ cnt_enqueue \in Nat /\ cnt_dequeue = Len(printed)
  BY DEF Fer!t_out, Fer!Pools, Fer!Out, FerIInv, FerTyped
<1>2. CASE /\ q[5].items # <<>>
           /\ printed' = Append(printed, Head(q[5].items))
           /\ q' = [q EXCEPT ![5].items = Tail(@)]
           /\ cnt_dequeue' = cnt_dequeue + 1
           /\ left' = left
  <2> DEFINE x == Head(q[5].items)
  <2>1. /\ q[5].items \in Seq(Nat \ {0}) /\ x \in Nat \ {0}
        /\ Tail(q[5].items) \in Seq(Nat \ {0})
        /\ Len(Tail(q[5].items)) <= Len(q[5].items)
    <3>1. q[5].items \in Seq(Nat \ {0})
      BY <1>1
    <3> QED
      BY <1>2, <3>1
  <2>2. \A p \in Fer!Pools :
          /\ q'[p].items = IF p = 5 THEN Tail(q[p].items) ELSE q[p].items
          /\ q'[p].ended = q[p].ended
    BY <1>1, <1>2
  <2>3. FerTyped'
    <3>1. q' \in [Fer!Pools -> [items : Seq(Nat \ {0}), ended : Nat]]
      BY <1>1, <1>2, <2>1
    <3>2. printed' \in Seq(Nat \ {0}) /\ cnt_dequeue' = Len(printed')
      BY <1>1, <1>2, <2>1
    <3>3. \A p \in Fer!Pools : Len(q'[p].items) <= DEPTH
      <4>1. Len(q[5].items) <= DEPTH /\ Len(q[5].items) \in Nat
            /\ Len(Tail(q[5].items)) \in Nat /\ DEPTH \in Nat
        BY <1>1, <2>1 DEF FerIInv, FerTyped, Fer!FerretAssumption
      <4>2. Len(Tail(q[5].items)) <= DEPTH
        BY <2>1, <4>1
      <4> QED
        BY <2>2, <4>2 DEF FerIInv, FerTyped
    <3> QED
      BY <1>1, <1>2, <3>1, <3>2, <3>3 DEF FerIInv, FerTyped
  <2>4. FerEnds'
    <3>1. \A p \in Fer!Pools : Fer!Ended(p) => Fer!Ended(p)'
      BY <1>2, <2>2 DEF Fer!Ended
    <3> QED
      BY <1>1, <1>2, <2>2, <3>1 DEF FerIInv, FerEnds
  <2>5. FerWhole'
    <3> DEFINE k == <<"queue", 5>>
               l == <<"printed", 0>>
    <3>1. k \in Spots /\ l \in Spots /\ k # l
      BY <1>1, FerSpots
    <3>2. Contents[k] = q[5].items /\ Contents[l] = printed
      BY <1>1, FerSpots
    <3>3. Contents'[k] = Tail(q[5].items) /\ Contents'[l] = Append(printed, x)
      BY <1>1, <1>2, <2>2, FerSpotsNext
    <3>4. \A o \in Spots : o # k /\ o # l => Contents'[o] = Contents[o]
      BY <1>1, <2>2, FerSame
    <3> HIDE DEF k, l
    <3> QED
      BY <1>1, <1>2, <3>1, <3>2, <3>3, <3>4, FerMoved
  <2> QED
    BY <2>3, <2>4, <2>5 DEF FerIInv
<1>3. CASE /\ Fer!Ended(5) /\ left' = left \cup {<<5, 1>>}
           /\ q' = q /\ cnt_dequeue' = cnt_dequeue /\ printed' = printed
  <2>1. \A p \in Fer!Pools : <<5, 1>> \notin Upstream(p)
    BY DEF Upstream, Fer!Pools
  <2>2. \A p \in Fer!Pools : left' \cap Upstream(p) = left \cap Upstream(p)
    BY <1>3, <2>1
  <2>3. FerTyped'
    BY <1>1, <1>3, FerThread DEF FerIInv, FerTyped
  <2>4. FerEnds'
    <3>1. \A p \in Fer!Pools : Fer!Ended(p) => Fer!Ended(p)'
      BY <1>3 DEF Fer!Ended
    <3>2. \A p \in Fer!Pools : \A v \in Fer!Threads(p) : <<p, v>> = <<5, 1>> => Fer!Ended(p)
      BY <1>3
    <3>3. held[<<5, 1>>] = 0
      BY <1>1 DEF FerIInv, FerEnds
    <3> QED
      <4>1. \A p \in Fer!Pools : q'[p].ended = Cardinality(left' \cap Upstream(p))
        BY <1>3, <2>2 DEF FerIInv, FerEnds
      <4>2. \A u \in left' : held'[u] = 0
        BY <1>1, <1>3, <3>3 DEF FerIInv, FerEnds
      <4>3. <<0, 1>> \in left' => cnt_enqueue' = Images
        BY <1>1, <1>3 DEF FerIInv, FerEnds
      <4>4. \A p \in Fer!Pools : \A v \in Fer!Threads(p) : <<p, v>> \in left' => Fer!Ended(p)'
        BY <1>3, <3>1, <3>2 DEF FerIInv, FerEnds
      <4> QED
        BY <1>1, <3>3, <4>1, <4>2, <4>3, <4>4 DEF FerEnds
  <2>5. FerWhole'
    <3>1. \A k \in Spots : Contents'[k] = Contents[k]
      BY <1>1, <1>3, FerSame
    <3>2. Contents' = Contents
      BY <3>1 DEF Contents
    <3> QED
      BY <1>1, <3>2 DEF FerIInv, FerWhole
  <2> QED
    BY <2>3, <2>4, <2>5 DEF FerIInv
<1> QED
  BY <1>1, <1>2, <1>3 DEF Fer!t_out

\* Every step.
LEMMA FerStep ==
  ASSUME Fer!FerretAssumption, FerIInv, [Fer!Next]_Fer!vars PROVE FerIInv'
<1>1. CASE Fer!t_load
  BY <1>1, FerFile, FerPut, FerLeave, FerThread DEF Fer!t_load
<1>2. ASSUME NEW s \in Fer!Pools, NEW w \in Fer!Threads(s), Fer!Pool(s, w)
      PROVE  FerIInv'
  <2>1. <<s, w>> \in Fer!Thread
    BY FerThread
  <2>2. CASE Fer!Get(s, w)
    BY <2>2, FerGet
  <2>3. CASE Fer!Put(s, w) \/ Fer!Leave(s, w)
    <3>1. s \in 0 .. 4
      BY <2>3 DEF Fer!Put, Fer!Leave, Fer!Out, Fer!Pools
    <3> QED
      BY <2>1, <2>3, <3>1, FerPut, FerLeave
  <2> QED
    BY <1>2, <2>2, <2>3 DEF Fer!Pool
<1>3. CASE Fer!t_out
  BY <1>3, FerOut
<1>4. CASE UNCHANGED Fer!vars
  <2>1. /\ q' = q /\ held' = held /\ left' = left /\ cnt_enqueue' = cnt_enqueue
        /\ cnt_dequeue' = cnt_dequeue /\ printed' = printed
    BY <1>4 DEF Fer!vars
  <2>2. Contents' = Contents
    BY <2>1 DEF Contents
  <2>3. \A p \in Fer!Pools : Fer!Ended(p) => Fer!Ended(p)'
    BY <2>1 DEF Fer!Ended
  <2> QED
    BY <2>1, <2>2, <2>3 DEF FerIInv, FerTyped, FerEnds, FerWhole
<1> QED
  BY <1>1, <1>2, <1>3, <1>4 DEF Fer!Next

\* When t_out has returned, the threads before it have, one pool after the other.
LEMMA FerOver ==
  ASSUME Fer!FerretAssumption, FerIInv, <<Fer!Out, 1>> \in left
  PROVE  /\ left = Fer!Thread /\ cnt_enqueue = Images
         /\ \A s \in Fer!Pools : q[s].items = <<>>
<1>1. FerTyped /\ FerEnds
  BY DEF FerIInv
<1>2. \A s \in Fer!Pools : Fer!Ended(s) => Upstream(s) \subseteq left /\ q[s].items = <<>>
  BY <1>1, FerEnded
<1>3. N \in Nat \ {0} /\ 1 \in 1 .. N
  BY DEF Fer!FerretAssumption
<1>4. \A s \in 1 .. 4 : Fer!Ended(s + 1) => Fer!Ended(s)
  <2>1. TAKE s \in 1 .. 4
  <2>2. HAVE Fer!Ended(s + 1)
  <2>3. s \in Fer!Pools /\ s + 1 \in Fer!Pools /\ s + 1 # 1 /\ (s + 1) - 1 = s /\ s # 5
    BY DEF Fer!Pools
  <2>4. <<s, 1>> \in Upstream(s + 1)
    BY <1>3, <2>3 DEF Upstream
  <2>5. <<s, 1>> \in left
    BY <1>2, <2>2, <2>3, <2>4
  <2>6. 1 \in Fer!Threads(s)
    BY <1>3 DEF Fer!Threads
  <2> QED
    BY <1>1, <2>3, <2>5, <2>6 DEF FerEnds
<1>5. Fer!Ended(5) /\ 5 \in Fer!Pools /\ <<5, 1>> \in left
  BY <1>1 DEF FerEnds, Fer!Pools, Fer!Threads, Fer!Out
<1>6. Fer!Ended(4) /\ Fer!Ended(3) /\ Fer!Ended(2) /\ Fer!Ended(1)
  <2>1. Fer!Ended(4)
    BY <1>4, <1>5, 4 + 1 = 5
  <2>2. Fer!Ended(3)
    BY <1>4, <2>1, 3 + 1 = 4
  <2>3. Fer!Ended(2)
    BY <1>4, <2>2, 2 + 1 = 3
  <2>4. Fer!Ended(1)
    BY <1>4, <2>3, 1 + 1 = 2
  <2> QED
    BY <2>1, <2>2, <2>3, <2>4
<1>7. \A s \in Fer!Pools : Fer!Ended(s)
  BY <1>5, <1>6 DEF Fer!Pools
<1>8. Fer!Thread \subseteq left
  BY <1>2, <1>5, <1>7, FerThread
<1>9. <<0, 1>> \in left
  BY <1>8, FerThread
<1> QED
  BY <1>1, <1>2, <1>7, <1>8, <1>9 DEF FerEnds, FerTyped

\* The assertion of t_out.
LEMMA FerMatched == ASSUME Fer!FerretAssumption, FerIInv PROVE Fer!QueriesMatched
<1>1. Fer!TypeOK
  <2>1. \A s \in Fer!Pools : q[s].ended \in 0 .. Fer!Producers(s)
    <3>1. TAKE s \in Fer!Pools
    <3>2. IsFiniteSet(Upstream(s)) /\ Cardinality(Upstream(s)) = Fer!Producers(s)
      BY FerProducers
    <3>3. Cardinality(left \cap Upstream(s)) <= Cardinality(Upstream(s))
          /\ IsFiniteSet(left \cap Upstream(s))
      BY <3>2, FS_Subset, left \cap Upstream(s) \in SUBSET Upstream(s)
    <3>4. Cardinality(left \cap Upstream(s)) \in Nat /\ Cardinality(Upstream(s)) \in Nat
      BY <3>2, <3>3, FS_CardinalityType
    <3> QED
      BY <3>2, <3>3, <3>4 DEF FerIInv, FerEnds
  <2> QED
    BY <2>1 DEF Fer!TypeOK, FerIInv, FerTyped
<1>2. Fer!Matched
  <2>1. SUFFICES ASSUME <<Fer!Out, 1>> \in left
        PROVE  cnt_enqueue = cnt_dequeue /\ {printed[k] : k \in DOMAIN printed} = 1 .. Images
    BY DEF Fer!Matched
  <2>2. /\ left = Fer!Thread /\ cnt_enqueue = Images
        /\ \A s \in Fer!Pools : q[s].items = <<>>
    BY <2>1, FerOver
  <2>3. \A k \in Spots : k # <<"printed", 0>> => Contents[k] = <<>>
    BY <2>2, FerSpots DEF FerIInv, FerEnds
  <2>4. PICK c : c = Contents
    OBVIOUS
  <2>5. /\ Whole(c, cnt_enqueue) /\ DOMAIN c = Spots /\ c[<<"printed", 0>>] = printed
        /\ cnt_enqueue \in Nat /\ <<"printed", 0>> \in Spots
    BY <2>4, FerSpots DEF FerIInv, FerWhole, FerTyped
  <2>6. \A i \in 1 .. Len(printed) : printed[i] # 0
    BY DEF FerIInv, FerTyped
  <2>7. \A l \in DOMAIN c : l # <<"printed", 0>> => c[l] = <<>>
    BY <2>3, <2>4, <2>5
  <2>8. \A i \in 1 .. Len(c[<<"printed", 0>>]) : c[<<"printed", 0>>][i] # 0
    BY <2>5, <2>6
  <2>9. Len(printed) = cnt_enqueue /\ {printed[k] : k \in DOMAIN printed} = 1 .. cnt_enqueue
    BY <2>5, <2>7, <2>8, WholeIn
  <2> QED
    BY <2>2, <2>9 DEF FerIInv, FerTyped
<1> QED
  BY <1>1, <1>2 DEF Fer!QueriesMatched

\* ferret on pthreads, with any number of images and threads and queues of any length:
\* when t_out returns it has printed every image once, and the two counters agree, for
\* no pool takes an empty queue for the end.
THEOREM ThreadsMatch ==
  ASSUME Fer!FerretAssumption PROVE Fer!Spec => []Fer!QueriesMatched
<1>1. Fer!Init => FerIInv
  BY FerInit
<1>2. FerIInv /\ [Fer!Next]_Fer!vars => FerIInv'
  BY FerStep
<1>3. FerIInv => Fer!QueriesMatched
  BY FerMatched
<1> QED
  BY <1>1, <1>2, <1>3, PTL DEF Fer!Spec

-----------------------------------------------------------------------------
(* ferret on FastFlow (FerretFarms). *)

CONSTANTS Shape, NW                        \* as in FerretFarms,
VARIABLES inq, outq, nextw, loading, nw    \* with these variables

Far == INSTANCE FerretFarms

\* The end of the stream is in a queue, and is the last thing in it.
Has(c) == \E i \in 1 .. Len(c) : c[i] = 0
Closes(c) == \A i \in 1 .. Len(c) : c[i] = 0 => i = Len(c)

\* All that a node will get has been sent to it: by the node before it in its
\* pipeline, or by an emitter.
Fed(s, w) == IF s - 1 \in Far!Gathered THEN nw[s - 1] = 0
             ELSE ~loading /\ \A r \in 1 .. s - 1 : ~Has(inq[r][w])

\* It has been through all of that; and its reader too.
Done(s, w) == Fed(s, w) /\ ~Has(inq[s][w])
Taken(s, w) == Done(s, w) /\ ~Has(outq[s][w])

Cells == ({"in"} \X Far!Stages \X Far!Workers) \cup ({"out"} \X Far!Gathered \X Far!Workers)
           \cup {<<"printed", 0, 0>>}

Cargo ==
  [k \in Cells |-> CASE k[1] = "in" -> inq[k[2]][k[3]]
                     [] k[1] = "out" -> outq[k[2]][k[3]]
                     [] k[1] = "printed" -> printed]

FarTyped ==
  /\ inq \in [Far!Stages -> [Far!Workers -> Seq(Nat)]]
  /\ outq \in [Far!Gathered -> [Far!Workers -> Seq(Nat)]]
  /\ nextw \in [Far!Stages -> Far!Workers] /\ nw \in [Far!Gathered -> Nat]
  /\ loading \in BOOLEAN
  /\ cnt_enqueue \in 0 .. Images
  /\ printed \in Seq(Nat \ {0}) /\ cnt_dequeue = Len(printed)

\* No end of the stream comes before all that it ends has come, and nothing after it.
InEnds ==
  \A s \in Far!Stages, w \in Far!Workers :
    /\ Closes(inq[s][w]) /\ (Has(inq[s][w]) => Fed(s, w))
    /\ Done(s, w) => inq[s][w] = <<>>
OutEnds ==
  \A s \in Far!Gathered, w \in Far!Workers :
    /\ Closes(outq[s][w]) /\ (Has(outq[s][w]) => Done(s, w))
    /\ Taken(s, w) => outq[s][w] = <<>>

Untaken(s) == {w \in Far!Workers : ~Taken(s, w)}

FarCounts ==
  /\ \A s \in Far!Gathered : nw[s] = Cardinality(Untaken(s))
  /\ ~loading => cnt_enqueue = Images

FarWhole == Whole(Cargo, cnt_enqueue)

FarIInv == FarTyped /\ InEnds /\ OutEnds /\ FarCounts /\ FarWhole

\* What is sent and received.
LEMMA EndsMoved ==
  ASSUME NEW c \in Seq(Nat), NEW x \in Nat
  PROVE  /\ ~Has(<<>>) /\ Closes(<<>>)
         /\ x # 0 /\ ~Has(c) => ~Has(Append(c, x)) /\ Closes(Append(c, x))
         /\ ~Has(c) => Has(Append(c, 0)) /\ Closes(Append(c, 0))
         /\ c # <<>> /\ Head(c) # 0 => /\ Has(Tail(c)) <=> Has(c)
                                       /\ Closes(c) => Closes(Tail(c))
         /\ c # <<>> /\ Head(c) = 0 /\ Closes(c) => Tail(c) = <<>> /\ Has(c)
<1> DEFINE m == Len(c)
           d == Append(c, x)
           e == Append(c, 0)
           u == Tail(c)
<1>1. /\ m \in Nat /\ Len(d) = m + 1 /\ Len(e) = m + 1 /\ d[m + 1] = x /\ e[m + 1] = 0
      /\ \A i \in 1 .. m : d[i] = c[i] /\ e[i] = c[i]
  BY Ends
<1>2. c # <<>> => /\ Len(u) = m - 1 /\ Head(c) = c[1] /\ m > 0 /\ u \in Seq(Nat)
                  /\ \A i \in 1 .. m - 1 : u[i] = c[i + 1]
  BY Ends
<1>3. ~Has(<<>>) /\ Closes(<<>>)
  BY DEF Has, Closes
<1>4. ASSUME x # 0, ~Has(c) PROVE ~Has(d) /\ Closes(d)
  <2>1. ASSUME NEW i \in 1 .. Len(d) PROVE d[i] # 0
    <3>1. CASE i = m + 1
      BY <3>1, <1>1, <1>4
    <3>2. CASE i \in 1 .. m
      BY <3>2, <1>1, <1>4 DEF Has
    <3> QED
      BY <3>1, <3>2, <1>1
  <2> QED
    BY <2>1 DEF Has, Closes
<1>5. ASSUME ~Has(c) PROVE Has(e) /\ Closes(e)
  <2>1. m + 1 \in 1 .. Len(e)
    BY <1>1
  <2>2. ASSUME NEW i \in 1 .. Len(e), e[i] = 0 PROVE i = m + 1
    <3>1. ~ (i \in 1 .. m)
      BY <1>1, <1>5, <2>2 DEF Has
    <3> QED
      BY <3>1, <1>1
  <2> QED
    BY <2>1, <2>2, <1>1 DEF Has, Closes
<1>6. ASSUME c # <<>>, Head(c) # 0
      PROVE  (Has(u) <=> Has(c)) /\ (Closes(c) => Closes(u))
  <2>1. ASSUME NEW i \in 1 .. Len(u) PROVE i + 1 \in 1 .. m /\ u[i] = c[i + 1]
    BY <1>1, <1>2, <1>6
  <2>2. ASSUME NEW i \in 1 .. m, c[i] = 0 PROVE i - 1 \in 1 .. Len(u) /\ u[i - 1] = c[i]
    <3>1. i # 1
      BY <1>2, <1>6, <2>2
    <3>2. i - 1 \in 1 .. m - 1 /\ (i - 1) + 1 = i
      BY <3>1, <1>1
    <3> QED
      BY <3>2, <1>2, <1>6
  <2>3. Has(u) <=> Has(c)
    BY <2>1, <2>2 DEF Has
  <2>4. ASSUME Closes(c) PROVE Closes(u)
    <3>1. ASSUME NEW i \in 1 .. Len(u), u[i] = 0 PROVE i = Len(u)
      <4>1. i + 1 = m
        BY <2>1, <2>4, <3>1 DEF Closes
      <4> QED
        BY <4>1, <1>1, <1>2, <1>6
    <3> QED
      BY <3>1 DEF Closes
  <2> QED
    BY <2>3, <2>4
<1>7. ASSUME c # <<>>, Head(c) = 0, Closes(c) PROVE u = <<>> /\ Has(c)
  <2>1. 1 \in 1 .. m /\ c[1] = 0
    BY <1>1, <1>2, <1>7
  <2>2. m = 1
    BY <2>1, <1>7 DEF Closes
  <2>3. Len(u) = 0 /\ u \in Seq(Nat)
    BY <2>2, <1>2, <1>7
  <2> QED
    BY <2>1, <2>3 DEF Has
<1> HIDE DEF m, d, e, u
<1> QED
  BY <1>3, <1>4, <1>5, <1>6, <1>7 DEF d, e, u

\* The farms and the emitters between them.
LEMMA FarShape ==
  ASSUME Far!FerretFarmsAssumption
  PROVE  /\ Far!Stages \subseteq Nat \ {0} /\ Far!LastStage \in Far!Gathered
         /\ Far!Gathered \subseteq Far!Stages /\ 1 \in Far!Stages
         /\ \A s \in Far!Stages : 1 .. s \subseteq Far!Stages
         /\ Far!Stages = 1 .. Far!LastStage /\ Far!LastStage \in {1, 4}
         /\ \A s \in Far!Stages : s # Far!LastStage => s + 1 \in Far!Stages
         /\ Far!Gathered = Far!Stages \/ Far!Gathered = {Far!LastStage}
         /\ IsFiniteSet(Far!Workers) /\ Cardinality(Far!Workers) = NW /\ NW \in Nat \ {0}
         /\ NW - 1 \in Far!Workers /\ \A w \in Far!Workers : (w + 1) % NW \in Far!Workers
<1> USE DEF Far!FerretFarmsAssumption
<1>1. Far!LastStage \in {1, 4} /\ Far!Stages = 1 .. Far!LastStage
  BY DEF Far!LastStage, Far!Stages
<1>2. /\ IsFiniteSet(0 .. NW - 1) /\ Cardinality(0 .. NW - 1) = NW /\ NW \in Nat \ {0}
      /\ NW - 1 \in 0 .. NW - 1 /\ \A w \in 0 .. NW - 1 : (w + 1) % NW \in 0 .. NW - 1
  <2>1. NW \in Nat \ {0} /\ NW - 1 \in Int /\ 0 \in Int /\ NW - 1 >= 0
    OBVIOUS
  <2>2. IsFiniteSet(0 .. NW - 1) /\ Cardinality(0 .. NW - 1) = NW
    BY <2>1, FS_Interval
  <2>3. \A w \in 0 .. NW - 1 : (w + 1) % NW \in 0 .. NW - 1
    BY <2>1
  <2> QED
    BY <2>1, <2>2, <2>3
<1>3. /\ Far!Gathered = Far!Stages \/ Far!Gathered = {Far!LastStage}
      /\ Far!LastStage \in Far!Gathered /\ Far!Gathered \subseteq Far!Stages
  BY <1>1 DEF Far!Gathered
<1>4. /\ Far!Stages \subseteq Nat \ {0} /\ 1 \in Far!Stages
      /\ \A s \in Far!Stages : 1 .. s \subseteq Far!Stages
      /\ \A s \in Far!Stages : s # Far!LastStage => s + 1 \in Far!Stages
  BY <1>1
<1> QED
  BY <1>1, <1>2, <1>3, <1>4 DEF Far!Workers

\* When a node has been sent everything, by the shape of what is before it.
LEMMA FedFacts ==
  ASSUME Far!FerretFarmsAssumption, NEW w \in Far!Workers
  PROVE  /\ Fed(1, w) <=> ~loading
         /\ \A s \in Far!Gathered : s # Far!LastStage => (Fed(s + 1, w) <=> nw[s] = 0)
         /\ Far!Gathered = {Far!LastStage} =>
              \A s \in Far!Stages :
                /\ Fed(s, w) <=> ~loading /\ \A r \in 1 .. s - 1 : ~Has(inq[r][w])
                /\ Done(s, w) <=> ~loading /\ \A r \in 1 .. s : ~Has(inq[r][w])
         /\ Far!Gathered = Far!Stages =>
              \A s \in Far!Stages : s # 1 => s - 1 \in Far!Gathered /\ (Fed(s, w) <=> nw[s - 1] = 0)
<1>1. Far!Stages = 1 .. Far!LastStage /\ Far!LastStage \in {1, 4}
      /\ Far!Gathered \subseteq Far!Stages
  BY FarShape
<1>2. 1 - 1 \notin Far!Gathered /\ 1 .. 1 - 1 = {}
  BY <1>1
<1>3. Fed(1, w) <=> ~loading
  BY <1>2 DEF Fed
<1>4. \A s \in Far!Gathered : s # Far!LastStage => (Fed(s + 1, w) <=> nw[s] = 0)
  <2>1. \A s \in Far!Gathered : (s + 1) - 1 = s
    BY <1>1
  <2> QED
    BY <2>1 DEF Fed
<1>5. ASSUME Far!Gathered = {Far!LastStage}, NEW s \in Far!Stages
      PROVE  /\ Fed(s, w) <=> ~loading /\ \A r \in 1 .. s - 1 : ~Has(inq[r][w])
             /\ Done(s, w) <=> ~loading /\ \A r \in 1 .. s : ~Has(inq[r][w])
  <2>1. s - 1 \notin Far!Gathered
    BY <1>1, <1>5
  <2>2. Fed(s, w) <=> ~loading /\ \A r \in 1 .. s - 1 : ~Has(inq[r][w])
    BY <2>1 DEF Fed
  <2>3. \A r : r \in 1 .. s <=> r \in 1 .. s - 1 \/ r = s
    BY <1>1
  <2>4. (\A r \in 1 .. s : ~Has(inq[r][w])) <=>
        ~Has(inq[s][w]) /\ \A r \in 1 .. s - 1 : ~Has(inq[r][w])
    BY <2>3
  <2> QED
    BY <2>2, <2>4 DEF Done
<1>6. ASSUME Far!Gathered = Far!Stages, NEW s \in Far!Stages, s # 1
      PROVE  s - 1 \in Far!Gathered /\ (Fed(s, w) <=> nw[s - 1] = 0)
  <2>1. s - 1 \in Far!Gathered
    BY <1>1, <1>6
  <2> QED
    BY <2>1 DEF Fed
<1> QED
  BY <1>3, <1>4, <1>5, <1>6

\* The same in the next state.
LEMMA FedFactsNext ==
  ASSUME Far!FerretFarmsAssumption, NEW w \in Far!Workers
  PROVE  /\ Fed(1, w)' <=> ~loading'
         /\ \A s \in Far!Gathered : s # Far!LastStage => (Fed(s + 1, w)' <=> nw'[s] = 0)
         /\ Far!Gathered = {Far!LastStage} =>
              \A s \in Far!Stages :
                /\ Fed(s, w)' <=> ~loading' /\ \A r \in 1 .. s - 1 : ~Has(inq'[r][w])
                /\ Done(s, w)' <=> ~loading' /\ \A r \in 1 .. s : ~Has(inq'[r][w])
         /\ Far!Gathered = Far!Stages =>
              \A s \in Far!Stages : s # 1 => s - 1 \in Far!Gathered /\ (Fed(s, w)' <=> nw'[s - 1] = 0)
<1>1. Far!Stages = 1 .. Far!LastStage /\ Far!LastStage \in {1, 4}
      /\ Far!Gathered \subseteq Far!Stages
  BY FarShape
<1>2. 1 - 1 \notin Far!Gathered /\ 1 .. 1 - 1 = {}
  BY <1>1
<1>3. Fed(1, w)' <=> ~loading'
  BY <1>2 DEF Fed
<1>4. \A s \in Far!Gathered : s # Far!LastStage => (Fed(s + 1, w)' <=> nw'[s] = 0)
  <2>1. \A s \in Far!Gathered : (s + 1) - 1 = s
    BY <1>1
  <2> QED
    BY <2>1 DEF Fed
<1>5. ASSUME Far!Gathered = {Far!LastStage}, NEW s \in Far!Stages
      PROVE  /\ Fed(s, w)' <=> ~loading' /\ \A r \in 1 .. s - 1 : ~Has(inq'[r][w])
             /\ Done(s, w)' <=> ~loading' /\ \A r \in 1 .. s : ~Has(inq'[r][w])
  <2>1. s - 1 \notin Far!Gathered
    BY <1>1, <1>5
  <2>2. Fed(s, w)' <=> ~loading' /\ \A r \in 1 .. s - 1 : ~Has(inq'[r][w])
    BY <2>1 DEF Fed, Has
  <2>3. \A r : r \in 1 .. s <=> r \in 1 .. s - 1 \/ r = s
    BY <1>1
  <2>4. (\A r \in 1 .. s : ~Has(inq'[r][w])) <=>
        ~Has(inq'[s][w]) /\ \A r \in 1 .. s - 1 : ~Has(inq'[r][w])
    BY <2>3
  <2>5. Done(s, w)' <=> Fed(s, w)' /\ ~Has(inq'[s][w])
    BY DEF Done, Has
  <2> QED
    BY <2>2, <2>4, <2>5
<1>6. ASSUME Far!Gathered = Far!Stages, NEW s \in Far!Stages, s # 1
      PROVE  s - 1 \in Far!Gathered /\ (Fed(s, w)' <=> nw'[s - 1] = 0)
  <2>1. s - 1 \in Far!Gathered
    BY <1>1, <1>6
  <2> QED
    BY <2>1 DEF Fed
<1> QED
  BY <1>3, <1>4, <1>5, <1>6

\* The queues, and what is in each.
LEMMA FarCells ==
  /\ DOMAIN Cargo = Cells
  /\ \A s \in Far!Stages, w \in Far!Workers :
       <<"in", s, w>> \in Cells /\ Cargo[<<"in", s, w>>] = inq[s][w]
  /\ \A s \in Far!Gathered, w \in Far!Workers :
       <<"out", s, w>> \in Cells /\ Cargo[<<"out", s, w>>] = outq[s][w]
  /\ <<"printed", 0, 0>> \in Cells /\ Cargo[<<"printed", 0, 0>>] = printed
  /\ \A k \in Cells : \/ \E s \in Far!Stages, w \in Far!Workers : k = <<"in", s, w>>
                      \/ \E s \in Far!Gathered, w \in Far!Workers : k = <<"out", s, w>>
                      \/ k = <<"printed", 0, 0>>
BY DEF Cargo, Cells

\* The same in the next state.
LEMMA FarCellsNext ==
  /\ DOMAIN Cargo' = Cells
  /\ \A s \in Far!Stages, w \in Far!Workers : Cargo'[<<"in", s, w>>] = inq'[s][w]
  /\ \A s \in Far!Gathered, w \in Far!Workers : Cargo'[<<"out", s, w>>] = outq'[s][w]
  /\ Cargo'[<<"printed", 0, 0>>] = printed'
BY DEF Cargo, Cells

\* A queue that a step leaves alone.
LEMMA FarSame ==
  ASSUME NEW k \in Cells,
         \A s \in Far!Stages, w \in Far!Workers : k = <<"in", s, w>> => inq'[s][w] = inq[s][w],
         \A s \in Far!Gathered, w \in Far!Workers :
           k = <<"out", s, w>> => outq'[s][w] = outq[s][w],
         k = <<"printed", 0, 0>> => printed' = printed
  PROVE  Cargo'[k] = Cargo[k]
<1>1. CASE \E s \in Far!Stages, w \in Far!Workers : k = <<"in", s, w>>
  <2>1. PICK s \in Far!Stages, w \in Far!Workers : k = <<"in", s, w>>
    BY <1>1
  <2> QED
    BY <2>1, FarCells, FarCellsNext
<1>2. CASE \E s \in Far!Gathered, w \in Far!Workers : k = <<"out", s, w>>
  <2>1. PICK s \in Far!Gathered, w \in Far!Workers : k = <<"out", s, w>>
    BY <1>2
  <2> QED
    BY <2>1, FarCells, FarCellsNext
<1>3. CASE k = <<"printed", 0, 0>>
  BY <1>3, FarCells, FarCellsNext
<1> QED
  BY <1>1, <1>2, <1>3, FarCells

\* An image, or the end of the stream, goes from one queue to another.
LEMMA FarMoved ==
  ASSUME FarIInv, cnt_enqueue' = cnt_enqueue,
         NEW k \in Cells, NEW l \in Cells, k # l, Cargo[k] # <<>>,
         Cargo'[k] = Tail(Cargo[k]), Cargo'[l] = Append(Cargo[l], Head(Cargo[k])),
         \A o \in Cells : o # k /\ o # l => Cargo'[o] = Cargo[o]
  PROVE  FarWhole'
<1>1. PICK c, d : c = Cargo /\ d = Cargo'
  OBVIOUS
<1>2. Whole(c, cnt_enqueue) /\ DOMAIN c = Cells /\ DOMAIN d = Cells /\ cnt_enqueue \in Nat
  BY <1>1, FarCells, FarCellsNext DEF FarIInv, FarWhole, FarTyped
<1>3. /\ c[k] # <<>> /\ d[k] = Tail(c[k]) /\ d[l] = Append(c[l], Head(c[k]))
      /\ \A o \in Cells : o # k /\ o # l => d[o] = c[o]
  BY <1>1
<1>4. Whole(d, cnt_enqueue)
  BY <1>2, <1>3, WholeMoved
<1> QED
  BY <1>1, <1>4 DEF FarWhole

\* Ends of the stream are sent and taken.
LEMMA FarClosed ==
  ASSUME FarIInv, cnt_enqueue' = cnt_enqueue,
         \A k \in Cells : \/ Cargo'[k] = Cargo[k]
                          \/ Cargo'[k] = Append(Cargo[k], 0)
                          \/ Cargo[k] # <<>> /\ Head(Cargo[k]) = 0 /\ Cargo'[k] = Tail(Cargo[k])
  PROVE  FarWhole'
<1>1. PICK c, d : c = Cargo /\ d = Cargo'
  OBVIOUS
<1>2. Whole(c, cnt_enqueue) /\ DOMAIN c = Cells /\ DOMAIN d = Cells /\ cnt_enqueue \in Nat
  BY <1>1, FarCells, FarCellsNext DEF FarIInv, FarWhole, FarTyped
<1>3. \A k \in DOMAIN c : \/ d[k] = c[k]
                          \/ d[k] = Append(c[k], 0)
                          \/ c[k] # <<>> /\ Head(c[k]) = 0 /\ d[k] = Tail(c[k])
  BY <1>1, <1>2
<1>4. Whole(d, cnt_enqueue)
  BY <1>2, <1>3, WholeEos
<1> QED
  BY <1>1, <1>4 DEF FarWhole

\* Nothing has been loaded.
LEMMA FarInit == ASSUME Far!FerretFarmsAssumption, Far!Init PROVE FarIInv
<1> USE DEF Far!Init
<1>1. FarTyped
  BY FarShape DEF FarTyped, Far!FerretFarmsAssumption
<1>2. /\ \A s \in Far!Stages, w \in Far!Workers : inq[s][w] = <<>>
      /\ \A s \in Far!Gathered, w \in Far!Workers : outq[s][w] = <<>>
      /\ ~Has(<<>>) /\ Closes(<<>>)
  BY DEF Has, Closes
<1>3. InEnds
  BY <1>2 DEF InEnds
<1>4. OutEnds
  BY <1>2 DEF OutEnds
<1>5. FarCounts
  <2>1. ASSUME NEW s \in Far!Gathered, NEW w \in Far!Workers PROVE ~Fed(s, w)
    <3>1. CASE s - 1 \in Far!Gathered
      BY <3>1, FarShape DEF Fed
    <3>2. CASE s - 1 \notin Far!Gathered
      BY <3>2 DEF Fed
    <3> QED
      BY <3>1, <3>2
  <2>2. \A s \in Far!Gathered : Untaken(s) = Far!Workers
    BY <2>1 DEF Untaken, Taken, Done
  <2> QED
    BY <2>2, FarShape DEF FarCounts
<1>6. FarWhole
  <2>1. \A k \in Cells : Cargo[k] = <<>>
    BY <1>2, FarCells
  <2>2. DOMAIN Cargo = Cells
    BY FarCells
  <2>3. cnt_enqueue = 0 /\ <<>> \in Seq(Nat) /\ Len(<<>>) = 0 /\ 1 .. 0 = {}
    OBVIOUS
  <2>4. \A k \in DOMAIN Cargo : Cargo[k] \in Seq(Nat) /\ 1 .. Len(Cargo[k]) = {}
    BY <2>1, <2>2, <2>3
  <2>5. Queues(Cargo) /\ Bounded(Cargo, 0)
    BY <2>4 DEF Queues, Bounded
  <2>6. Apart(Cargo)
    BY <2>4 DEF Apart
  <2>7. Found(Cargo, 0)
    BY <2>3 DEF Found
  <2> QED
    BY <2>3, <2>5, <2>6, <2>7 DEF FarWhole, Whole
<1> QED
  BY <1>1, <1>3, <1>4, <1>5, <1>6 DEF FarIInv

\* A step that changes nothing about which queues have their end.
LEMMA FedSame ==
  ASSUME Far!FerretFarmsAssumption, loading' = loading,
         \A s \in Far!Gathered : s # Far!LastStage => (nw'[s] = 0 <=> nw[s] = 0),
         \A s \in Far!Stages, w \in Far!Workers : Has(inq'[s][w]) <=> Has(inq[s][w])
  PROVE  \A s \in Far!Stages, w \in Far!Workers :
           (Fed(s, w)' <=> Fed(s, w)) /\ (Done(s, w)' <=> Done(s, w))
<1>1. ASSUME NEW s \in Far!Stages, NEW w \in Far!Workers
      PROVE  (Fed(s, w)' <=> Fed(s, w)) /\ (Done(s, w)' <=> Done(s, w))
  <2>1. /\ \A r \in 1 .. s - 1 : r \in Far!Stages
        /\ s - 1 \in Far!Gathered => s - 1 # Far!LastStage
    BY FarShape
  <2>2. Fed(s, w)' <=> Fed(s, w)
    <3>1. CASE s - 1 \in Far!Gathered
      <4>1. Fed(s, w) <=> nw[s - 1] = 0
        BY <3>1 DEF Fed
      <4>2. Fed(s, w)' <=> nw'[s - 1] = 0
        BY <3>1 DEF Fed
      <4> QED
        BY <2>1, <3>1, <4>1, <4>2
    <3>2. CASE s - 1 \notin Far!Gathered
      <4>1. Fed(s, w) <=> ~loading /\ \A r \in 1 .. s - 1 : ~Has(inq[r][w])
        BY <3>2 DEF Fed
      <4>2. Fed(s, w)' <=> ~loading' /\ \A r \in 1 .. s - 1 : ~Has(inq'[r][w])
        BY <3>2 DEF Fed, Has
      <4> QED
        BY <2>1, <4>1, <4>2
    <3> QED
      BY <3>1, <3>2
  <2>3. Done(s, w)' <=> Fed(s, w)' /\ ~Has(inq'[s][w])
    BY DEF Done, Has
  <2> QED
    BY <2>2, <2>3 DEF Done
<1> QED
  BY <1>1

\* What OutEnds and InEnds say of the next state.
LEMMA EndsNext ==
  /\ InEnds' <=> \A s \in Far!Stages, w \in Far!Workers :
                   /\ Closes(inq'[s][w]) /\ (Has(inq'[s][w]) => Fed(s, w)')
                   /\ Done(s, w)' => inq'[s][w] = <<>>
  /\ OutEnds' <=> \A s \in Far!Gathered, w \in Far!Workers :
                    /\ Closes(outq'[s][w]) /\ (Has(outq'[s][w]) => Done(s, w)')
                    /\ Taken(s, w)' => outq'[s][w] = <<>>
  /\ \A s \in Far!Gathered, w \in Far!Workers :
       Taken(s, w)' <=> Done(s, w)' /\ ~Has(outq'[s][w])
BY DEF InEnds, OutEnds, Taken, Closes, Has

\* The workers' ends stay as they are, or one more is taken.
LEMMA CountsKeep ==
  ASSUME FarCounts,
         \A s \in Far!Gathered : nw'[s] = nw[s],
         \A s \in Far!Gathered, w \in Far!Workers : Taken(s, w)' <=> Taken(s, w)
  PROVE  \A s \in Far!Gathered : nw'[s] = Cardinality(Untaken(s)')
<1>1. \A s \in Far!Gathered : Untaken(s)' = Untaken(s)
  BY DEF Untaken
<1> QED
  BY <1>1 DEF FarCounts

LEMMA CountsTake ==
  ASSUME Far!FerretFarmsAssumption, FarCounts,
         NEW s \in Far!Gathered, NEW w \in Far!Workers, ~Taken(s, w), Taken(s, w)',
         \A r \in Far!Gathered : nw'[r] = IF r = s THEN nw[r] - 1 ELSE nw[r],
         \A r \in Far!Gathered, v \in Far!Workers :
           ~(r = s /\ v = w) => (Taken(r, v)' <=> Taken(r, v))
  PROVE  \A r \in Far!Gathered : nw'[r] = Cardinality(Untaken(r)')
<1>1. \A r \in Far!Gathered : r # s => Untaken(r)' = Untaken(r)
  BY DEF Untaken
<1>2. Untaken(s)' = Untaken(s) \ {w} /\ w \in Untaken(s)
  BY DEF Untaken
<1>3. IsFiniteSet(Untaken(s))
  BY FarShape, FS_Subset, Untaken(s) \in SUBSET Far!Workers DEF Untaken
<1>4. Cardinality(Untaken(s) \ {w}) = Cardinality(Untaken(s)) - 1
  BY <1>2, <1>3, FS_RemoveElement
<1> QED
  BY <1>1, <1>2, <1>4 DEF FarCounts

\* The collectors' queues when no more or fewer nodes are through.
LEMMA OutsKept ==
  ASSUME OutEnds,
         \A s \in Far!Gathered, w \in Far!Workers : outq'[s][w] = outq[s][w],
         \A s \in Far!Gathered, w \in Far!Workers : Done(s, w)' <=> Done(s, w)
  PROVE  /\ OutEnds'
         /\ \A s \in Far!Gathered, w \in Far!Workers : Taken(s, w)' <=> Taken(s, w)
<1>1. \A s \in Far!Gathered, w \in Far!Workers : Taken(s, w)' <=> Taken(s, w)
  BY EndsNext DEF Taken
<1> QED
  BY <1>1, EndsNext DEF OutEnds

\* A reader takes from one of them.
LEMMA OutsTaken ==
  ASSUME FarTyped, OutEnds, NEW s \in Far!Gathered, NEW w \in Far!Workers, outq[s][w] # <<>>,
         \A r \in Far!Gathered, v \in Far!Workers :
           outq'[r][v] = IF r = s /\ v = w THEN Tail(outq[r][v]) ELSE outq[r][v],
         \A r \in Far!Gathered, v \in Far!Workers : Done(r, v)' <=> Done(r, v)
  PROVE  /\ OutEnds' /\ ~Taken(s, w) /\ (Taken(s, w)' <=> Head(outq[s][w]) = 0)
         /\ \A r \in Far!Gathered, v \in Far!Workers :
              ~(r = s /\ v = w) => (Taken(r, v)' <=> Taken(r, v))
<1> DEFINE c == outq[s][w]
<1>1. c \in Seq(Nat) /\ Closes(c) /\ (Has(c) => Done(s, w)) /\ ~Taken(s, w)
  BY DEF FarTyped, OutEnds
<1>2. outq'[s][w] = Tail(c)
  OBVIOUS
<1>3. \A r \in Far!Gathered, v \in Far!Workers :
        ~(r = s /\ v = w) => /\ Taken(r, v)' <=> Taken(r, v)
                             /\ outq'[r][v] = outq[r][v]
  <2>1. ASSUME NEW r \in Far!Gathered, NEW v \in Far!Workers, ~(r = s /\ v = w)
        PROVE  outq'[r][v] = outq[r][v] /\ (Taken(r, v)' <=> Taken(r, v))
    <3>1. outq'[r][v] = outq[r][v]
      BY <2>1
    <3> QED
      BY <3>1, EndsNext DEF Taken
  <2> QED
    BY <2>1
<1>4. CASE Head(c) = 0
  <2>1. Tail(c) = <<>> /\ Has(c) /\ ~Has(<<>>) /\ Closes(<<>>)
    BY <1>1, <1>4, EndsMoved
  <2>a. outq'[s][w] = <<>> /\ ~Has(outq'[s][w]) /\ Closes(outq'[s][w])
    BY <1>2, <2>1
  <2>b. Done(s, w)'
    BY <1>1, <2>1
  <2>2. Taken(s, w)'
    BY <2>a, <2>b, EndsNext
  <2>3. OutEnds'
    <3>1. ASSUME NEW r \in Far!Gathered, NEW v \in Far!Workers
          PROVE  /\ Closes(outq'[r][v]) /\ (Has(outq'[r][v]) => Done(r, v)')
                 /\ Taken(r, v)' => outq'[r][v] = <<>>
      <4>1. CASE r = s /\ v = w
        BY <4>1, <2>a
      <4>2. CASE ~(r = s /\ v = w)
        BY <4>2, <1>3 DEF OutEnds
      <4> QED
        BY <4>1, <4>2
    <3> QED
      BY <3>1, EndsNext
  <2> QED
    BY <1>1, <1>3, <1>4, <2>2, <2>3
<1>5. CASE Head(c) # 0
  <2>1. (Has(Tail(c)) <=> Has(c)) /\ Closes(Tail(c))
    BY <1>1, <1>5, EndsMoved
  <2>2. ~Taken(s, w)'
    BY <1>1, <1>2, <2>1, EndsNext DEF Taken
  <2>3. OutEnds'
    <3>1. ASSUME NEW r \in Far!Gathered, NEW v \in Far!Workers
          PROVE  /\ Closes(outq'[r][v]) /\ (Has(outq'[r][v]) => Done(r, v)')
                 /\ Taken(r, v)' => outq'[r][v] = <<>>
      <4>1. CASE r = s /\ v = w
        BY <4>1, <1>1, <1>2, <2>1, <2>2
      <4>2. CASE ~(r = s /\ v = w)
        BY <4>2, <1>3 DEF OutEnds
      <4> QED
        BY <4>1, <4>2
    <3> QED
      BY <3>1, EndsNext
  <2> QED
    BY <1>1, <1>3, <1>5, <2>2, <2>3
<1> QED
  BY <1>4, <1>5

\* The numbers that a step keeps.
LEMMA FarTypedNext ==
  ASSUME FarTyped,
         inq' \in [Far!Stages -> [Far!Workers -> Seq(Nat)]],
         outq' \in [Far!Gathered -> [Far!Workers -> Seq(Nat)]],
         nextw' \in [Far!Stages -> Far!Workers], nw' \in [Far!Gathered -> Nat],
         loading' \in BOOLEAN, cnt_enqueue' = cnt_enqueue,
         cnt_dequeue' = cnt_dequeue, printed' = printed
  PROVE  FarTyped'
BY DEF FarTyped

\* Load sends an image.
LEMMA FarLoad ==
  ASSUME Far!FerretFarmsAssumption, FarIInv, loading, cnt_enqueue < Images,
         Far!schedule_task(1, cnt_enqueue + 1), cnt_enqueue' = cnt_enqueue + 1,
         UNCHANGED <<loading, outq, nw, cnt_dequeue, printed>>
  PROVE  FarIInv'
<1>1. PICK v : v = (nextw[1] + 1) % NW
  OBVIOUS
<1>2. /\ nextw' = [nextw EXCEPT ![1] = v]
      /\ inq' = [inq EXCEPT ![1][v] = Append(@, cnt_enqueue + 1)]
  BY <1>1 DEF Far!schedule_task
<1>3. /\ FarTyped /\ InEnds /\ OutEnds /\ FarCounts /\ FarWhole
      /\ inq \in [Far!Stages -> [Far!Workers -> Seq(Nat)]]
      /\ nextw \in [Far!Stages -> Far!Workers]
      /\ cnt_enqueue \in Nat /\ cnt_enqueue + 1 \in 0 .. Images /\ cnt_enqueue + 1 \in Nat \ {0}
      /\ 1 \in Far!Stages
  <2>1. FarTyped /\ InEnds /\ OutEnds /\ FarCounts /\ FarWhole
    BY DEF FarIInv
  <2>2. cnt_enqueue \in Nat /\ Images \in Nat
    BY <2>1 DEF FarTyped, Far!FerretFarmsAssumption
  <2>3. cnt_enqueue + 1 \in 0 .. Images /\ cnt_enqueue + 1 \in Nat \ {0}
    BY <2>2
  <2>4. /\ inq \in [Far!Stages -> [Far!Workers -> Seq(Nat)]]
        /\ nextw \in [Far!Stages -> Far!Workers]
    BY <2>1 DEF FarTyped
  <2> QED
    BY <2>1, <2>2, <2>3, <2>4, FarShape
<1>4. v \in Far!Workers
  BY <1>1, <1>3, FarShape
<1>5. \A s \in Far!Stages, w \in Far!Workers :
        inq'[s][w] = IF s = 1 /\ w = v THEN Append(inq[s][w], cnt_enqueue + 1) ELSE inq[s][w]
  BY <1>2, <1>3, <1>4
<1>6. FarTyped'
  <2>1. inq[1][v] \in Seq(Nat) /\ Append(inq[1][v], cnt_enqueue + 1) \in Seq(Nat)
    BY <1>3, <1>4, Ends
  <2>2. inq' \in [Far!Stages -> [Far!Workers -> Seq(Nat)]]
    BY <1>2, <1>3, <1>4, <2>1
  <2>3. nextw' \in [Far!Stages -> Far!Workers]
    BY <1>2, <1>3, <1>4
  <2> QED
    BY <1>3, <2>2, <2>3 DEF FarTyped
\* Nothing has ended.
<1>7. \A w \in Far!Workers : ~Fed(1, w) /\ ~Done(1, w) /\ ~Has(inq[1][w])
  BY <1>3, FedFacts DEF InEnds, Done
<1>8. \A s \in Far!Stages, w \in Far!Workers :
        (Has(inq'[s][w]) <=> Has(inq[s][w])) /\ Closes(inq'[s][w])
  <2>1. ~Has(Append(inq[1][v], cnt_enqueue + 1)) /\ Closes(Append(inq[1][v], cnt_enqueue + 1))
    BY <1>3, <1>4, <1>7, EndsMoved
  <2> QED
    <3>1. ASSUME NEW s \in Far!Stages, NEW w \in Far!Workers
          PROVE  (Has(inq'[s][w]) <=> Has(inq[s][w])) /\ Closes(inq'[s][w])
      <4>1. CASE s = 1 /\ w = v
        <5>1. inq'[s][w] = Append(inq[1][v], cnt_enqueue + 1)
          BY <4>1, <1>5
        <5> QED
          BY <4>1, <5>1, <1>7, <2>1
      <4>2. CASE ~(s = 1 /\ w = v)
        <5>1. inq'[s][w] = inq[s][w]
          BY <4>2, <1>5
        <5> QED
          BY <5>1, <1>3 DEF InEnds
      <4> QED
        BY <4>1, <4>2
    <3> QED
      BY <3>1
<1>9. \A s \in Far!Stages, w \in Far!Workers :
        (Fed(s, w)' <=> Fed(s, w)) /\ (Done(s, w)' <=> Done(s, w))
  BY <1>8, FedSame
<1>10. InEnds'
  BY <1>3, <1>5, <1>7, <1>8, <1>9, EndsNext DEF InEnds
<1>11. OutEnds' /\ \A s \in Far!Gathered, w \in Far!Workers : Taken(s, w)' <=> Taken(s, w)
  BY <1>3, <1>9, OutsKept, FarShape
<1>12. FarCounts'
  BY <1>3, <1>11, CountsKeep DEF FarCounts
<1>13. FarWhole'
  <2>1. PICK c, d : c = Cargo /\ d = Cargo'
    OBVIOUS
  <2> DEFINE k == <<"in", 1, v>>
  <2>2. Whole(c, cnt_enqueue) /\ DOMAIN c = Cells /\ DOMAIN d = Cells /\ k \in Cells
    BY <1>3, <1>4, <2>1, FarCells, FarCellsNext DEF FarWhole
  <2>3. d[k] = Append(c[k], cnt_enqueue + 1)
    BY <1>3, <1>4, <1>5, <2>1, FarCells, FarCellsNext
  <2>4. \A o \in Cells : o # k => d[o] = c[o]
    BY <1>5, <2>1, FarSame
  <2> HIDE DEF k
  <2>5. Whole(d, cnt_enqueue + 1)
    BY <1>3, <2>2, <2>3, <2>4, WholeAdded
  <2> QED
    BY <2>1, <2>5 DEF FarWhole
<1> QED
  BY <1>6, <1>10, <1>11, <1>12, <1>13 DEF FarIInv

\* Load returns EOS.
LEMMA FarLoaded ==
  ASSUME Far!FerretFarmsAssumption, FarIInv, loading, ~(cnt_enqueue < Images),
         Far!push_eos(1), loading' = FALSE,
         UNCHANGED <<outq, nw, cnt_enqueue, cnt_dequeue, printed>>
  PROVE  FarIInv'
<1>1. /\ inq' = [inq EXCEPT ![1] = [w \in Far!Workers |-> Append(inq[1][w], 0)]]
      /\ nextw' = nextw
  BY DEF Far!push_eos, Far!EOS
<1>2. /\ FarTyped /\ InEnds /\ OutEnds /\ FarCounts
      /\ inq \in [Far!Stages -> [Far!Workers -> Seq(Nat)]]
      /\ cnt_enqueue = Images /\ 1 \in Far!Stages
  <2>1. FarTyped /\ InEnds /\ OutEnds /\ FarCounts
    BY DEF FarIInv
  <2>2. cnt_enqueue \in 0 .. Images /\ Images \in Nat
    BY <2>1 DEF FarTyped, Far!FerretFarmsAssumption
  <2>3. cnt_enqueue = Images
    BY <2>2
  <2>4. inq \in [Far!Stages -> [Far!Workers -> Seq(Nat)]]
    BY <2>1 DEF FarTyped
  <2> QED
    BY <2>1, <2>3, <2>4, FarShape
<1>3. \A s \in Far!Stages, w \in Far!Workers :
        inq'[s][w] = IF s = 1 THEN Append(inq[s][w], 0) ELSE inq[s][w]
  BY <1>1, <1>2
<1>4. FarTyped'
  <2>1. [w \in Far!Workers |-> Append(inq[1][w], 0)] \in [Far!Workers -> Seq(Nat)]
    BY <1>2, Ends
  <2>2. inq' \in [Far!Stages -> [Far!Workers -> Seq(Nat)]]
    BY <1>1, <1>2, <2>1
  <2> QED
    BY <1>1, <1>2, <2>2 DEF FarTyped
<1>5. \A w \in Far!Workers :
        ~Fed(1, w) /\ ~Has(inq[1][w]) /\ Has(inq'[1][w]) /\ Closes(inq'[1][w])
  <2>1. TAKE w \in Far!Workers
  <2>2. ~Fed(1, w) /\ ~Has(inq[1][w]) /\ inq[1][w] \in Seq(Nat)
    BY <1>2, FedFacts DEF InEnds
  <2>3. Has(Append(inq[1][w], 0)) /\ Closes(Append(inq[1][w], 0))
    BY <2>2, EndsMoved
  <2> QED
    BY <1>2, <1>3, <2>2, <2>3
<1>6. \A w \in Far!Workers : Fed(1, w)' /\ ~Done(1, w)' /\ ~Done(1, w)
  BY <1>5, FedFactsNext DEF Done, Has
\* Behind the first nodes nothing has changed.
<1>7. ASSUME NEW s \in Far!Stages, NEW w \in Far!Workers, s # 1
      PROVE  (Fed(s, w)' <=> Fed(s, w)) /\ (Done(s, w)' <=> Done(s, w)) /\ inq'[s][w] = inq[s][w]
  <2>1. inq'[s][w] = inq[s][w]
    BY <1>3, <1>7
  <2>2. Fed(s, w)' <=> Fed(s, w)
    <3>1. CASE Far!Gathered = Far!Stages
      BY <1>7, <3>1, FedFacts, FedFactsNext
    <3>2. CASE Far!Gathered = {Far!LastStage}
      <4>1. 1 \in 1 .. s - 1
        BY <1>7, FarShape
      <4>2. ~Fed(s, w)'
        BY <1>5, <3>2, <4>1, FedFactsNext
      <4>3. ~Fed(s, w)
        BY <3>2, FedFacts
      <4> QED
        BY <4>2, <4>3
    <3> QED
      BY <3>1, <3>2, FarShape
  <2>3. Done(s, w)' <=> Fed(s, w)' /\ ~Has(inq'[s][w])
    BY DEF Done, Has
  <2> QED
    BY <2>1, <2>2, <2>3 DEF Done
<1>8. \A s \in Far!Stages, w \in Far!Workers : Done(s, w)' <=> Done(s, w)
  BY <1>6, <1>7
<1>9. InEnds'
  <2>1. ASSUME NEW s \in Far!Stages, NEW w \in Far!Workers
        PROVE  /\ Closes(inq'[s][w]) /\ (Has(inq'[s][w]) => Fed(s, w)')
               /\ Done(s, w)' => inq'[s][w] = <<>>
    <3>1. CASE s = 1
      BY <3>1, <1>5, <1>6
    <3>2. CASE s # 1
      BY <3>2, <1>2, <1>7 DEF InEnds
    <3> QED
      BY <3>1, <3>2
  <2> QED
    BY <2>1, EndsNext
<1>10. OutEnds' /\ \A s \in Far!Gathered, w \in Far!Workers : Taken(s, w)' <=> Taken(s, w)
  BY <1>2, <1>8, OutsKept, FarShape
<1>11. FarCounts'
  BY <1>2, <1>10, CountsKeep DEF FarCounts
<1>12. FarWhole'
  <2>1. ASSUME NEW k \in Cells PROVE Cargo'[k] = Cargo[k] \/ Cargo'[k] = Append(Cargo[k], 0)
    <3>1. CASE \E w \in Far!Workers : k = <<"in", 1, w>>
      <4>1. PICK w \in Far!Workers : k = <<"in", 1, w>>
        BY <3>1
      <4> QED
        <5>1. Cargo[k] = inq[1][w] /\ Cargo'[k] = inq'[1][w]
          BY <4>1, <1>2, FarCells, FarCellsNext
        <5> QED
          BY <5>1, <1>2, <1>3
    <3>2. CASE ~ \E w \in Far!Workers : k = <<"in", 1, w>>
      BY <3>2, <1>3, FarSame
    <3> QED
      BY <3>1, <3>2
  <2> QED
    BY <2>1, FarClosed
<1> QED
  BY <1>4, <1>9, <1>10, <1>11, <1>12 DEF FarIInv

\* A node whose result goes to a reader of its farm.
LEMMA FarNodeOut ==
  ASSUME Far!FerretFarmsAssumption, FarIInv,
         NEW s \in Far!Gathered, NEW w \in Far!Workers, Far!Node(s, w)
  PROVE  FarIInv'
<1> DEFINE c == inq[s][w]
           o == outq[s][w]
           x == Head(inq[s][w])
<1>1. /\ c # <<>>
      /\ inq' = [inq EXCEPT ![s][w] = Tail(@)]
      /\ outq' = [outq EXCEPT ![s][w] = Append(@, x)]
      /\ nextw' = nextw /\ nw' = nw /\ loading' = loading
      /\ cnt_enqueue' = cnt_enqueue /\ cnt_dequeue' = cnt_dequeue /\ printed' = printed
  BY DEF Far!Node, Far!counts
<1>2. /\ FarTyped /\ InEnds /\ OutEnds /\ FarCounts /\ s \in Far!Stages
      /\ inq \in [Far!Stages -> [Far!Workers -> Seq(Nat)]]
      /\ outq \in [Far!Gathered -> [Far!Workers -> Seq(Nat)]]
  BY FarShape DEF FarIInv, FarTyped
<1>3. c \in Seq(Nat) /\ o \in Seq(Nat) /\ x \in Nat
  BY <1>1, <1>2, Ends
<1>4. /\ \A r \in Far!Stages, v \in Far!Workers :
           inq'[r][v] = IF r = s /\ v = w THEN Tail(c) ELSE inq[r][v]
      /\ \A r \in Far!Gathered, v \in Far!Workers :
           outq'[r][v] = IF r = s /\ v = w THEN Append(o, x) ELSE outq[r][v]
  BY <1>1, <1>2
<1>5. FarTyped'
  <2>1. Tail(c) \in Seq(Nat) /\ Append(o, x) \in Seq(Nat)
    BY <1>1, <1>3, Ends
  <2>2. inq' \in [Far!Stages -> [Far!Workers -> Seq(Nat)]]
    BY <1>1, <1>2, <2>1
  <2>3. outq' \in [Far!Gathered -> [Far!Workers -> Seq(Nat)]]
    BY <1>1, <1>2, <2>1
  <2> HIDE DEF c, o, x
  <2> QED
    BY <1>1, <1>2, <2>2, <2>3 DEF FarTyped
\* Its queue has something, so it was not through.
<1>6. ~Done(s, w) /\ ~Has(o) /\ ~Taken(s, w) /\ Closes(c)
  BY <1>1, <1>2 DEF InEnds, OutEnds, Taken
<1>7. /\ ~Done(s, w)' <=> ~(x = 0)
      /\ \A r \in Far!Stages, v \in Far!Workers :
           ~(r = s /\ v = w) => (Done(r, v)' <=> Done(r, v))
      /\ InEnds' /\ Closes(Append(o, x)) /\ (Has(Append(o, x)) <=> x = 0)
  <2>1. CASE x # 0
    <3>1. (Has(Tail(c)) <=> Has(c)) /\ Closes(Tail(c))
      BY <1>1, <1>3, <1>6, <2>1, EndsMoved
    <3>2. \A r \in Far!Stages, v \in Far!Workers : Has(inq'[r][v]) <=> Has(inq[r][v])
      BY <1>4, <3>1
    <3>3. \A r \in Far!Stages, v \in Far!Workers :
            (Fed(r, v)' <=> Fed(r, v)) /\ (Done(r, v)' <=> Done(r, v))
      BY <1>1, <3>2, FedSame
    <3>4. ~Has(Append(o, x)) /\ Closes(Append(o, x))
      BY <1>3, <1>6, <2>1, EndsMoved
    <3>5. InEnds'
      <4>1. ASSUME NEW r \in Far!Stages, NEW v \in Far!Workers
            PROVE  /\ Closes(inq'[r][v]) /\ (Has(inq'[r][v]) => Fed(r, v)')
                   /\ Done(r, v)' => inq'[r][v] = <<>>
        <5>1. CASE r = s /\ v = w
          BY <5>1, <1>2, <1>4, <1>6, <3>1, <3>3 DEF InEnds
        <5>2. CASE ~(r = s /\ v = w)
          BY <5>2, <1>2, <1>4, <3>3 DEF InEnds
        <5> QED
          BY <5>1, <5>2
      <4> QED
        BY <4>1, EndsNext
    <3> QED
      BY <1>2, <1>6, <2>1, <3>3, <3>4, <3>5
  <2>2. CASE x = 0
    <3>1. Tail(c) = <<>> /\ Has(c) /\ ~Has(<<>>) /\ Closes(<<>>)
      BY <1>1, <1>3, <1>6, <2>2, EndsMoved
    <3>2. \A r \in Far!Stages, v \in Far!Workers :
            ~(r = s /\ v = w) => inq'[r][v] = inq[r][v]
      BY <1>4
    <3>3. \A r \in Far!Stages, v \in Far!Workers : Fed(r, v)' <=> Fed(r, v)
      <4>1. TAKE r \in Far!Stages, v \in Far!Workers
      <4>2. CASE Far!Gathered = Far!Stages
        <5>1. CASE r = 1
          BY <5>1, <1>1, FedFacts, FedFactsNext
        <5>2. CASE r # 1
          BY <4>2, <5>2, <1>1, FedFacts, FedFactsNext
        <5> QED
          BY <5>1, <5>2
      <4>3. CASE Far!Gathered = {Far!LastStage}
        <5>1. \A i \in 1 .. r - 1 : i \in Far!Stages /\ i # s
          BY <4>3, FarShape
        <5>2. \A i \in 1 .. r - 1 : inq'[i][v] = inq[i][v]
          BY <3>2, <5>1
        <5> QED
          BY <4>3, <5>2, <1>1, FedFacts, FedFactsNext
      <4> QED
        BY <4>2, <4>3, FarShape
    <3>4. \A r \in Far!Stages, v \in Far!Workers : Done(r, v)' <=> Fed(r, v)' /\ ~Has(inq'[r][v])
      BY DEF Done, Has
    <3>5. \A r \in Far!Stages, v \in Far!Workers :
            ~(r = s /\ v = w) => (Done(r, v)' <=> Done(r, v))
      BY <3>2, <3>3, <3>4 DEF Done
    <3>6. Fed(s, w) /\ inq'[s][w] = <<>> /\ ~Has(inq'[s][w]) /\ Closes(inq'[s][w])
      BY <1>2, <1>4, <3>1 DEF InEnds
    <3>7. Done(s, w)'
      BY <1>2, <3>3, <3>4, <3>6
    <3>8. InEnds'
      <4>1. ASSUME NEW r \in Far!Stages, NEW v \in Far!Workers
            PROVE  /\ Closes(inq'[r][v]) /\ (Has(inq'[r][v]) => Fed(r, v)')
                   /\ Done(r, v)' => inq'[r][v] = <<>>
        <5>1. CASE r = s /\ v = w
          BY <5>1, <3>6
        <5>2. CASE ~(r = s /\ v = w)
          BY <5>2, <1>2, <3>2, <3>3, <3>5 DEF InEnds
        <5> QED
          BY <5>1, <5>2
      <4> QED
        BY <4>1, EndsNext
    <3>9. Has(Append(o, x)) /\ Closes(Append(o, x))
      BY <1>3, <1>6, <2>2, EndsMoved
    <3> QED
      BY <2>2, <3>5, <3>7, <3>8, <3>9
  <2> QED
    BY <2>1, <2>2
<1>8. \A r \in Far!Gathered, v \in Far!Workers :
        /\ Taken(r, v)' <=> Taken(r, v)
        /\ Closes(outq'[r][v]) /\ (Has(outq'[r][v]) => Done(r, v)')
        /\ Taken(r, v)' => outq'[r][v] = <<>>
  <2>1. TAKE r \in Far!Gathered, v \in Far!Workers
  <2>2. CASE r = s /\ v = w
    <3>1. outq'[s][w] = Append(o, x)
      BY <1>4
    <3>2. ~Taken(s, w)'
      <4>1. Has(outq'[s][w]) <=> x = 0
        BY <1>7, <3>1
      <4>2. Done(s, w)' <=> x = 0
        BY <1>7
      <4>3. Taken(s, w)' <=> Done(s, w)' /\ ~Has(outq'[s][w])
        BY EndsNext
      <4> QED
        BY <4>1, <4>2, <4>3
    <3> QED
      BY <2>2, <1>6, <1>7, <3>1, <3>2
  <2>3. CASE ~(r = s /\ v = w)
    <3>1. outq'[r][v] = outq[r][v] /\ r \in Far!Stages
      BY <1>4, <2>3, FarShape
    <3>2. Done(r, v)' <=> Done(r, v)
      BY <1>7, <2>3, <3>1
    <3>3. Taken(r, v)' <=> Taken(r, v)
      BY <3>1, <3>2, EndsNext DEF Taken
    <3> QED
      BY <1>2, <3>1, <3>2, <3>3 DEF OutEnds
  <2> QED
    BY <2>2, <2>3
<1>9. OutEnds'
  BY <1>8, EndsNext
<1>10. FarCounts'
  BY <1>1, <1>2, <1>8, CountsKeep DEF FarCounts
<1>11. FarWhole'
  <2> DEFINE k == <<"in", s, w>>
             l == <<"out", s, w>>
  <2>1. /\ k \in Cells /\ l \in Cells /\ k # l
        /\ Cargo[k] = c /\ Cargo[l] = o
    BY <1>2, FarCells
  <2>2. Cargo'[k] = Tail(c) /\ Cargo'[l] = Append(o, x)
    BY <1>2, <1>4, FarCellsNext
  <2>3. \A m \in Cells : m # k /\ m # l => Cargo'[m] = Cargo[m]
    BY <1>1, <1>4, FarSame
  <2> HIDE DEF k, l
  <2> QED
    BY <1>1, <2>1, <2>2, <2>3, FarMoved
<1> QED
  BY <1>5, <1>7, <1>9, <1>10, <1>11 DEF FarIInv

\* A node whose result goes to the next one in its pipeline.
LEMMA FarNodeOn ==
  ASSUME Far!FerretFarmsAssumption, FarIInv,
         NEW s \in Far!Stages, s \notin Far!Gathered, NEW w \in Far!Workers, Far!Node(s, w)
  PROVE  FarIInv'
<1> DEFINE c == inq[s][w]
           o == inq[s + 1][w]
           x == Head(inq[s][w])
<1>1. /\ c # <<>>
      /\ inq' = [inq EXCEPT ![s][w] = Tail(@), ![s + 1][w] = Append(@, x)]
      /\ outq' = outq /\ nextw' = nextw /\ nw' = nw /\ loading' = loading
      /\ cnt_enqueue' = cnt_enqueue /\ cnt_dequeue' = cnt_dequeue /\ printed' = printed
  BY DEF Far!Node, Far!counts
<1>2. /\ Far!Gathered = {Far!LastStage} /\ s + 1 \in Far!Stages /\ s \in Nat /\ s < Far!LastStage
      /\ Far!Stages = 1 .. Far!LastStage /\ Far!LastStage \in Nat
      /\ s + 1 # s
  BY FarShape
<1>3. /\ FarTyped /\ InEnds /\ OutEnds /\ FarCounts
      /\ inq \in [Far!Stages -> [Far!Workers -> Seq(Nat)]]
  BY FarShape DEF FarIInv, FarTyped
<1>4. c \in Seq(Nat) /\ o \in Seq(Nat) /\ x \in Nat
  BY <1>1, <1>2, <1>3, Ends
<1>5. \A r \in Far!Stages, v \in Far!Workers :
        inq'[r][v] = IF v # w THEN inq[r][v] ELSE IF r = s THEN Tail(c)
                     ELSE IF r = s + 1 THEN Append(o, x) ELSE inq[r][v]
  BY <1>1, <1>2, <1>3
<1>6. FarTyped'
  <2>1. Tail(c) \in Seq(Nat) /\ Append(o, x) \in Seq(Nat)
    BY <1>1, <1>4, Ends
  <2> DEFINE mid == [inq EXCEPT ![s][w] = Tail(@)]
  <2>2. mid \in [Far!Stages -> [Far!Workers -> Seq(Nat)]] /\ mid[s + 1][w] = o
    BY <1>2, <1>3, <2>1
  <2>3. inq' = [mid EXCEPT ![s + 1][w] = Append(o, x)]
    BY <1>1, <2>2
  <2> HIDE DEF mid, c, o, x
  <2>4. inq' \in [Far!Stages -> [Far!Workers -> Seq(Nat)]]
    BY <2>1, <2>2, <2>3
  <2> QED
    BY <1>1, <1>3, <2>4, FarTypedNext DEF FarTyped
\* Nothing has ended behind it.
<1>7. ~Done(s, w) /\ Closes(c)
  BY <1>1, <1>3 DEF InEnds
<1>8. \A r \in Far!Stages : r > s => ~Fed(r, w) /\ ~Has(inq[r][w]) /\ ~Done(r, w)
  <2>1. TAKE r \in Far!Stages
  <2>2. HAVE r > s
  <2>3. 1 .. s \subseteq 1 .. r - 1
    BY <1>2, <2>2
  <2>4. ~Fed(r, w)
    BY <1>2, <1>7, <2>3, FedFacts
  <2> QED
    BY <1>3, <2>4 DEF InEnds, Done
<1>9. s + 1 > s /\ ~Has(o)
  BY <1>2, <1>8
<1>10. \A r \in Far!Stages, v \in Far!Workers : Done(r, v)' <=> Fed(r, v)' /\ ~Has(inq'[r][v])
  BY DEF Done, Has
<1>11. /\ InEnds'
       /\ \A v \in Far!Workers : Done(Far!LastStage, v)' <=> Done(Far!LastStage, v)
  <2>1. CASE x # 0
    <3>1. /\ (Has(Tail(c)) <=> Has(c)) /\ Closes(Tail(c))
          /\ ~Has(Append(o, x)) /\ Closes(Append(o, x))
      BY <1>1, <1>4, <1>7, <1>9, <2>1, EndsMoved
    <3>2. \A r \in Far!Stages, v \in Far!Workers : Has(inq'[r][v]) <=> Has(inq[r][v])
      BY <1>2, <1>5, <1>9, <3>1
    <3>3. \A r \in Far!Stages, v \in Far!Workers :
            (Fed(r, v)' <=> Fed(r, v)) /\ (Done(r, v)' <=> Done(r, v))
      BY <1>1, <3>2, FedSame
    <3>4. ASSUME NEW r \in Far!Stages, NEW v \in Far!Workers
          PROVE  /\ Closes(inq'[r][v]) /\ (Has(inq'[r][v]) => Fed(r, v)')
                 /\ Done(r, v)' => inq'[r][v] = <<>>
      <4>1. CASE r = s /\ v = w
        BY <4>1, <1>2, <1>3, <1>5, <1>7, <3>1, <3>3 DEF InEnds
      <4>2. CASE r = s + 1 /\ v = w
        BY <4>2, <1>2, <1>5, <1>8, <1>9, <3>1, <3>3
      <4>3. CASE ~(r = s /\ v = w) /\ ~(r = s + 1 /\ v = w)
        BY <4>3, <1>3, <1>5, <3>3 DEF InEnds
      <4> QED
        BY <4>1, <4>2, <4>3
    <3> QED
      BY <1>2, <3>3, <3>4, EndsNext
  <2>2. CASE x = 0
    <3>1. /\ Tail(c) = <<>> /\ Has(c) /\ ~Has(<<>>) /\ Closes(<<>>)
          /\ Has(Append(o, x)) /\ Closes(Append(o, x))
      BY <1>1, <1>4, <1>7, <1>9, <2>2, EndsMoved
    <3>2. \A r \in Far!Stages, v \in Far!Workers :
            ~(r = s /\ v = w) /\ ~(r = s + 1 /\ v = w) => inq'[r][v] = inq[r][v]
      BY <1>5
    <3>3. /\ inq'[s][w] = <<>> /\ ~Has(inq'[s][w]) /\ Closes(inq'[s][w])
          /\ Has(inq'[s + 1][w]) /\ Closes(inq'[s + 1][w])
      BY <1>2, <1>5, <3>1
    <3>4. \A r \in Far!Stages, v \in Far!Workers :
            v # w \/ r <= s => (Fed(r, v)' <=> Fed(r, v))
      <4>1. TAKE r \in Far!Stages, v \in Far!Workers
      <4>2. HAVE v # w \/ r <= s
      <4>3. \A i \in 1 .. r - 1 : i \in Far!Stages /\ (v # w \/ i < s)
        BY <1>2, <4>2
      <4>4. \A i \in 1 .. r - 1 : inq'[i][v] = inq[i][v]
        BY <1>2, <3>2, <4>3
      <4> QED
        BY <1>1, <1>2, <4>4, FedFacts, FedFactsNext
    <3>5. Fed(s, w) /\ ~loading /\ \A i \in 1 .. s - 1 : ~Has(inq[i][w])
      BY <1>2, <1>3, <3>1, FedFacts DEF InEnds
    <3>6. Fed(s + 1, w)'
      <4>1. \A i \in 1 .. s : i \in Far!Stages /\ i # s + 1 /\ (i = s \/ i \in 1 .. s - 1)
        BY <1>2
      <4>2. \A i \in 1 .. s : ~Has(inq'[i][w])
        BY <3>2, <3>3, <3>5, <4>1
      <4>3. (s + 1) - 1 = s
        BY <1>2
      <4> QED
        BY <1>1, <1>2, <3>5, <4>2, <4>3, FedFactsNext
    <3>7. \A r \in Far!Stages : r > s => ~Done(r, w)'
      <4>1. TAKE r \in Far!Stages
      <4>2. HAVE r > s
      <4>3. s + 1 \in 1 .. r
        BY <1>2, <4>2
      <4> QED
        BY <1>2, <3>3, <4>3, FedFactsNext
    <3>8. ASSUME NEW r \in Far!Stages, NEW v \in Far!Workers
          PROVE  /\ Closes(inq'[r][v]) /\ (Has(inq'[r][v]) => Fed(r, v)')
                 /\ Done(r, v)' => inq'[r][v] = <<>>
      <4>1. CASE r = s /\ v = w
        BY <4>1, <3>3
      <4>2. CASE r = s + 1 /\ v = w
        BY <4>2, <1>2, <3>3, <3>6, <3>7, <1>9
      <4>3. CASE v # w \/ r < s
        <5>1. inq'[r][v] = inq[r][v] /\ (Fed(r, v)' <=> Fed(r, v))
          BY <4>3, <1>2, <3>2, <3>4
        <5> QED
          BY <5>1, <1>3, <1>10 DEF InEnds, Done
      <4>4. CASE v = w /\ r > s + 1
        <5>1. inq'[r][v] = inq[r][v] /\ r > s
          BY <4>4, <1>2, <3>2
        <5> QED
          BY <4>4, <5>1, <1>3, <1>8, <3>7 DEF InEnds
      <4> QED
        BY <4>1, <4>2, <4>3, <4>4, <1>2
    <3>9. ASSUME NEW v \in Far!Workers
          PROVE  Done(Far!LastStage, v)' <=> Done(Far!LastStage, v)
      <4>1. Far!LastStage \in Far!Stages /\ Far!LastStage > s
        BY <1>2
      <4>2. CASE v = w
        BY <4>1, <4>2, <1>8, <3>7
      <4>3. CASE v # w
        BY <4>1, <4>3, <1>10, <3>2, <3>4 DEF Done
      <4> QED
        BY <4>2, <4>3
    <3> QED
      BY <3>8, <3>9, EndsNext
  <2> QED
    BY <2>1, <2>2
<1>12. OutEnds' /\ \A r \in Far!Gathered, v \in Far!Workers : Taken(r, v)' <=> Taken(r, v)
  BY <1>1, <1>2, <1>3, <1>11, OutsKept
<1>13. FarCounts'
  BY <1>1, <1>3, <1>12, CountsKeep DEF FarCounts
<1>14. FarWhole'
  <2> DEFINE k == <<"in", s, w>>
             l == <<"in", s + 1, w>>
  <2>1. /\ k \in Cells /\ l \in Cells /\ k # l
        /\ Cargo[k] = c /\ Cargo[l] = o
    BY <1>2, FarCells
  <2>2. Cargo'[k] = Tail(c) /\ Cargo'[l] = Append(o, x)
    <3>1. inq'[s][w] = Tail(c) /\ inq'[s + 1][w] = Append(o, x)
      BY <1>2, <1>5
    <3>2. Cargo'[k] = inq'[s][w] /\ Cargo'[l] = inq'[s + 1][w]
      BY <1>2, FarCellsNext
    <3> QED
      BY <3>1, <3>2
  <2>3. \A m \in Cells : m # k /\ m # l => Cargo'[m] = Cargo[m]
    <3>1. \A r \in Far!Stages, v \in Far!Workers :
            <<"in", r, v>> # k /\ <<"in", r, v>> # l => inq'[r][v] = inq[r][v]
      <4>1. TAKE r \in Far!Stages, v \in Far!Workers
      <4>2. HAVE <<"in", r, v>> # k /\ <<"in", r, v>> # l
      <4>3. v # w \/ (r # s /\ r # s + 1)
        BY <4>2
      <4> QED
        BY <1>5, <4>3
    <3> HIDE DEF k, l
    <3> QED
      BY <1>1, <3>1, FarSame
  <2> HIDE DEF k, l
  <2> QED
    BY <1>1, <2>1, <2>2, <2>3, FarMoved
<1> QED
  BY <1>6, <1>11, <1>12, <1>13, <1>14 DEF FarIInv

\* An emitter sends on an image that it got from a worker.
LEMMA FarEmitTask ==
  ASSUME Far!FerretFarmsAssumption, FarIInv,
         NEW s \in Far!Gathered, s # Far!LastStage, NEW w \in Far!Workers,
         nw[s] > 0, outq[s][w] # <<>>, Head(outq[s][w]) # 0,
         outq' = [outq EXCEPT ![s][w] = Tail(@)],
         Far!schedule_task(s + 1, Head(outq[s][w])),
         UNCHANGED <<nw, loading, cnt_enqueue, cnt_dequeue, printed>>
  PROVE  FarIInv'
<1> DEFINE x == Head(outq[s][w])
<1>1. PICK v : v = (nextw[s + 1] + 1) % NW
  OBVIOUS
<1>2. /\ nextw' = [nextw EXCEPT ![s + 1] = v]
      /\ inq' = [inq EXCEPT ![s + 1][v] = Append(@, x)]
  BY <1>1 DEF Far!schedule_task
<1>3. /\ FarTyped /\ InEnds /\ OutEnds /\ FarCounts
      /\ inq \in [Far!Stages -> [Far!Workers -> Seq(Nat)]]
      /\ outq \in [Far!Gathered -> [Far!Workers -> Seq(Nat)]]
      /\ nextw \in [Far!Stages -> Far!Workers]
      /\ nw[s] \in Nat
  BY DEF FarIInv, FarTyped
<1>4. s + 1 \in Far!Stages /\ v \in Far!Workers
  <2>1. s + 1 \in Far!Stages
    BY FarShape
  <2> QED
    BY <1>1, <1>3, <2>1, FarShape
<1>5. x \in Nat \ {0} /\ inq[s + 1][v] \in Seq(Nat) /\ outq[s][w] \in Seq(Nat)
  <2>1. outq[s][w] \in Seq(Nat) /\ inq[s + 1][v] \in Seq(Nat)
    BY <1>3, <1>4
  <2> QED
    BY <2>1, Ends
<1>6. /\ \A r \in Far!Stages, u \in Far!Workers :
           inq'[r][u] = IF r = s + 1 /\ u = v THEN Append(inq[r][u], x) ELSE inq[r][u]
      /\ \A r \in Far!Gathered, u \in Far!Workers :
           outq'[r][u] = IF r = s /\ u = w THEN Tail(outq[r][u]) ELSE outq[r][u]
  BY <1>2, <1>3, <1>4
<1>7. FarTyped'
  <2>1. Append(inq[s + 1][v], x) \in Seq(Nat) /\ Tail(outq[s][w]) \in Seq(Nat)
    BY <1>5, Ends
  <2>2. inq' \in [Far!Stages -> [Far!Workers -> Seq(Nat)]]
    BY <1>2, <1>3, <1>4, <2>1
  <2>3. outq' \in [Far!Gathered -> [Far!Workers -> Seq(Nat)]]
    BY <1>3, <2>1
  <2>4. nextw' \in [Far!Stages -> Far!Workers]
    BY <1>2, <1>3, <1>4
  <2> QED
    BY <1>3, <2>2, <2>3, <2>4 DEF FarTyped
\* The next farm has not been told of the end.
<1>8. \A u \in Far!Workers : ~Fed(s + 1, u) /\ ~Done(s + 1, u) /\ ~Has(inq[s + 1][u])
  <2>1. TAKE u \in Far!Workers
  <2>2. ~Fed(s + 1, u)
    BY <1>3, FedFacts
  <2> QED
    BY <1>3, <1>4, <2>2 DEF InEnds, Done
<1>9. \A r \in Far!Stages, u \in Far!Workers :
        (Has(inq'[r][u]) <=> Has(inq[r][u])) /\ Closes(inq'[r][u])
  <2>1. ~Has(Append(inq[s + 1][v], x)) /\ Closes(Append(inq[s + 1][v], x))
    BY <1>4, <1>5, <1>8, EndsMoved
  <2>2. TAKE r \in Far!Stages, u \in Far!Workers
  <2>3. CASE r = s + 1 /\ u = v
    <3>1. inq'[r][u] = Append(inq[s + 1][v], x)
      BY <2>3, <1>4, <1>6
    <3> QED
      BY <2>1, <2>3, <3>1, <1>8
  <2>4. CASE ~(r = s + 1 /\ u = v)
    <3>1. inq'[r][u] = inq[r][u]
      BY <2>4, <1>6
    <3> QED
      BY <3>1, <1>3 DEF InEnds
  <2> QED
    BY <2>3, <2>4
<1>10. \A r \in Far!Stages, u \in Far!Workers :
         (Fed(r, u)' <=> Fed(r, u)) /\ (Done(r, u)' <=> Done(r, u))
  BY <1>9, FedSame
<1>11. InEnds'
  <2>1. ASSUME NEW r \in Far!Stages, NEW u \in Far!Workers
        PROVE  /\ Closes(inq'[r][u]) /\ (Has(inq'[r][u]) => Fed(r, u)')
               /\ Done(r, u)' => inq'[r][u] = <<>>
    <3>1. CASE r = s + 1
      BY <3>1, <1>8, <1>9, <1>10
    <3>2. CASE r # s + 1
      <4>1. inq'[r][u] = inq[r][u]
        BY <1>6, <3>2
      <4> QED
        BY <4>1, <1>3, <1>10 DEF InEnds
    <3> QED
      BY <3>1, <3>2
  <2> QED
    BY <2>1, EndsNext
<1>12. /\ OutEnds'
       /\ \A r \in Far!Gathered, u \in Far!Workers : Taken(r, u)' <=> Taken(r, u)
  <2>1. \A r \in Far!Gathered, u \in Far!Workers : Done(r, u)' <=> Done(r, u)
    BY <1>10, FarShape
  <2>2. /\ OutEnds' /\ ~Taken(s, w) /\ (Taken(s, w)' <=> Head(outq[s][w]) = 0)
        /\ \A r \in Far!Gathered, u \in Far!Workers :
             ~(r = s /\ u = w) => (Taken(r, u)' <=> Taken(r, u))
    <3>1. \A r \in Far!Gathered, v_1 \in Far!Workers :
            outq'[r][v_1] = IF r = s /\ v_1 = w THEN Tail(outq[r][v_1]) ELSE outq[r][v_1]
      BY <1>6
    <3>2. FarTyped /\ OutEnds
      BY <1>3
    <3> QED
      BY <2>1, <3>1, <3>2, OutsTaken, Zenon
  <2> QED
    BY <2>2
<1>13. FarCounts'
  BY <1>3, <1>12, CountsKeep DEF FarCounts
<1>14. FarWhole'
  <2> DEFINE k == <<"out", s, w>>
             l == <<"in", s + 1, v>>
  <2>1. /\ k \in Cells /\ l \in Cells /\ k # l
        /\ Cargo[k] = outq[s][w] /\ Cargo[l] = inq[s + 1][v]
    BY <1>4, FarCells
  <2>2. Cargo'[k] = Tail(outq[s][w]) /\ Cargo'[l] = Append(inq[s + 1][v], x)
    <3>1. Cargo'[k] = outq'[s][w] /\ Cargo'[l] = inq'[s + 1][v]
      BY <1>4, FarCellsNext
    <3>2. outq'[s][w] = Tail(outq[s][w])
      BY <1>6
    <3>3. inq'[s + 1][v] = Append(inq[s + 1][v], x)
      BY <1>4, <1>6
    <3> QED
      BY <3>1, <3>2, <3>3
  <2>3. \A m \in Cells : m # k /\ m # l => Cargo'[m] = Cargo[m]
    BY <1>6, FarSame
  <2> HIDE DEF k, l
  <2> QED
    BY <2>1, <2>2, <2>3, FarMoved
<1> QED
  BY <1>7, <1>11, <1>12, <1>13, <1>14 DEF FarIInv

\* An emitter takes an EOS; with the last one it tells the workers of its farm.
LEMMA FarEmitEos ==
  ASSUME Far!FerretFarmsAssumption, FarIInv,
         NEW s \in Far!Gathered, s # Far!LastStage, NEW w \in Far!Workers,
         nw[s] > 0, outq[s][w] # <<>>, Head(outq[s][w]) = 0,
         outq' = [outq EXCEPT ![s][w] = Tail(@)],
         IF nw[s] = 1 THEN Far!push_eos(s + 1) /\ nw' = [nw EXCEPT ![s] = 0]
         ELSE nw' = [nw EXCEPT ![s] = @ - 1] /\ inq' = inq /\ nextw' = nextw,
         UNCHANGED <<loading, cnt_enqueue, cnt_dequeue, printed>>
  PROVE  FarIInv'
<1>1. /\ FarTyped /\ InEnds /\ OutEnds /\ FarCounts
      /\ inq \in [Far!Stages -> [Far!Workers -> Seq(Nat)]]
      /\ outq \in [Far!Gathered -> [Far!Workers -> Seq(Nat)]]
      /\ nw \in [Far!Gathered -> Nat] /\ nw[s] \in Nat
  BY DEF FarIInv, FarTyped
<1>2. /\ s + 1 \in Far!Stages /\ s + 1 # 1 /\ (s + 1) - 1 = s
      /\ Far!Gathered = Far!Stages /\ Far!Stages \subseteq Nat
  BY FarShape
<1>3. /\ nextw' = nextw
      /\ nw' = [nw EXCEPT ![s] = @ - 1]
      /\ \A r \in Far!Gathered : nw'[r] = IF r = s THEN nw[r] - 1 ELSE nw[r]
      /\ inq' = IF nw[s] = 1
                THEN [inq EXCEPT ![s + 1] = [u \in Far!Workers |-> Append(inq[s + 1][u], 0)]]
                ELSE inq
  <2>1. CASE nw[s] = 1
    <3>1. nw' = [nw EXCEPT ![s] = 0]
      BY <2>1
    <3>2. nw' = [nw EXCEPT ![s] = @ - 1]
      BY <2>1, <3>1, <1>1
    <3>3. /\ inq' = [inq EXCEPT ![s + 1] = [u \in Far!Workers |-> Append(inq[s + 1][u], 0)]]
          /\ nextw' = nextw
      BY <2>1 DEF Far!push_eos, Far!EOS
    <3> QED
      BY <2>1, <3>2, <3>3, <1>1
  <2>2. CASE nw[s] # 1
    BY <2>2, <1>1
  <2> QED
    BY <2>1, <2>2
<1>4. /\ \A r \in Far!Stages, u \in Far!Workers :
           inq'[r][u] = IF r = s + 1 /\ nw[s] = 1 THEN Append(inq[r][u], 0) ELSE inq[r][u]
      /\ \A r \in Far!Gathered, u \in Far!Workers :
           outq'[r][u] = IF r = s /\ u = w THEN Tail(outq[r][u]) ELSE outq[r][u]
  BY <1>1, <1>2, <1>3
<1>5. FarTyped'
  <2>1. Tail(outq[s][w]) \in Seq(Nat)
    BY <1>1, Ends
  <2>2. outq' \in [Far!Gathered -> [Far!Workers -> Seq(Nat)]]
    BY <1>1, <2>1
  <2>3. [u \in Far!Workers |-> Append(inq[s + 1][u], 0)] \in [Far!Workers -> Seq(Nat)]
    BY <1>1, <1>2, Ends
  <2>4. inq' \in [Far!Stages -> [Far!Workers -> Seq(Nat)]]
    BY <1>1, <1>2, <1>3, <2>3
  <2>5. nw' \in [Far!Gathered -> Nat]
    BY <1>1, <1>3
  <2> QED
    BY <1>1, <1>3, <2>2, <2>4, <2>5 DEF FarTyped
<1>6. \A u \in Far!Workers :
        /\ ~Fed(s + 1, u) /\ ~Done(s + 1, u) /\ ~Has(inq[s + 1][u])
        /\ Has(inq'[s + 1][u]) <=> nw[s] = 1
        /\ Closes(inq'[s + 1][u]) /\ (Fed(s + 1, u)' <=> nw[s] = 1)
  <2>1. TAKE u \in Far!Workers
  <2>2. ~Fed(s + 1, u)
    BY <1>1, FedFacts
  <2>3. ~Has(inq[s + 1][u]) /\ Closes(inq[s + 1][u]) /\ inq[s + 1][u] \in Seq(Nat)
    BY <1>1, <1>2, <2>2 DEF InEnds
  <2>4. Has(Append(inq[s + 1][u], 0)) /\ Closes(Append(inq[s + 1][u], 0))
    BY <2>3, EndsMoved
  <2>5. Fed(s + 1, u)' <=> nw'[s] = 0
    BY FedFactsNext
  <2>6. nw'[s] = 0 <=> nw[s] = 1
    BY <1>1, <1>3
  <2>7. inq'[s + 1][u] = IF nw[s] = 1 THEN Append(inq[s + 1][u], 0) ELSE inq[s + 1][u]
    BY <1>2, <1>4
  <2> QED
    BY <2>2, <2>3, <2>4, <2>5, <2>6, <2>7 DEF Done
<1>7. \A r \in Far!Stages, u \in Far!Workers : Done(r, u)' <=> Fed(r, u)' /\ ~Has(inq'[r][u])
  BY DEF Done, Has
<1>8. ASSUME NEW r \in Far!Stages, NEW u \in Far!Workers, r # s + 1
      PROVE  (Fed(r, u)' <=> Fed(r, u)) /\ (Done(r, u)' <=> Done(r, u)) /\ inq'[r][u] = inq[r][u]
  <2>1. inq'[r][u] = inq[r][u]
    BY <1>4, <1>8
  <2>2. Fed(r, u)' <=> Fed(r, u)
    <3>1. CASE r = 1
      BY <3>1, FedFacts, FedFactsNext
    <3>2. CASE r # 1
      <4>1. r - 1 \in Far!Gathered /\ r - 1 # s
        BY <1>2, <1>8, <3>2, FedFacts
      <4> QED
        BY <1>2, <1>3, <3>2, <4>1, FedFacts, FedFactsNext
    <3> QED
      BY <3>1, <3>2
  <2> QED
    BY <1>7, <2>1, <2>2 DEF Done
<1>9. \A r \in Far!Stages, u \in Far!Workers : Done(r, u)' <=> Done(r, u)
  BY <1>2, <1>6, <1>7, <1>8
<1>10. InEnds'
  <2>1. ASSUME NEW r \in Far!Stages, NEW u \in Far!Workers
        PROVE  /\ Closes(inq'[r][u]) /\ (Has(inq'[r][u]) => Fed(r, u)')
               /\ Done(r, u)' => inq'[r][u] = <<>>
    <3>1. CASE r = s + 1
      BY <3>1, <1>6, <1>9
    <3>2. CASE r # s + 1
      BY <3>2, <1>1, <1>8 DEF InEnds
    <3> QED
      BY <3>1, <3>2
  <2> QED
    BY <2>1, EndsNext
<1>11. /\ OutEnds' /\ ~Taken(s, w) /\ Taken(s, w)'
       /\ \A r \in Far!Gathered, u \in Far!Workers :
            ~(r = s /\ u = w) => (Taken(r, u)' <=> Taken(r, u))
  <2>1. \A r \in Far!Gathered, v \in Far!Workers :
          outq'[r][v] = IF r = s /\ v = w THEN Tail(outq[r][v]) ELSE outq[r][v]
    BY <1>4
  <2>2. \A r \in Far!Gathered, v \in Far!Workers : Done(r, v)' <=> Done(r, v)
    BY <1>2, <1>9
  <2>3. FarTyped /\ OutEnds
    BY <1>1
  <2>4. /\ OutEnds' /\ ~Taken(s, w) /\ (Taken(s, w)' <=> Head(outq[s][w]) = 0)
        /\ \A r \in Far!Gathered, v \in Far!Workers :
             ~(r = s /\ v = w) => (Taken(r, v)' <=> Taken(r, v))
    BY <2>1, <2>2, <2>3, OutsTaken, Zenon
  <2> QED
    BY <2>4
<1>12. FarCounts'
  BY <1>1, <1>3, <1>11, CountsTake DEF FarCounts
<1>13. FarWhole'
  <2>1. ASSUME NEW k \in Cells
        PROVE  \/ Cargo'[k] = Cargo[k]
               \/ Cargo'[k] = Append(Cargo[k], 0)
               \/ Cargo[k] # <<>> /\ Head(Cargo[k]) = 0 /\ Cargo'[k] = Tail(Cargo[k])
    <3>1. CASE \E u \in Far!Workers : k = <<"in", s + 1, u>>
      <4>1. PICK u \in Far!Workers : k = <<"in", s + 1, u>>
        BY <3>1
      <4>2. Cargo[k] = inq[s + 1][u] /\ Cargo'[k] = inq'[s + 1][u]
        BY <4>1, <1>2, FarCells, FarCellsNext
      <4>3. inq'[s + 1][u] = IF nw[s] = 1 THEN Append(inq[s + 1][u], 0) ELSE inq[s + 1][u]
        BY <1>2, <1>4
      <4> QED
        BY <4>2, <4>3
    <3>2. CASE k = <<"out", s, w>>
      <4>1. Cargo[k] = outq[s][w] /\ Cargo'[k] = outq'[s][w]
        BY <3>2, FarCells, FarCellsNext
      <4> QED
        BY <4>1, <1>4
    <3>3. CASE k # <<"out", s, w>> /\ ~ \E u \in Far!Workers : k = <<"in", s + 1, u>>
      BY <3>3, <1>4, FarSame
    <3> QED
      BY <3>1, <3>2, <3>3
  <2> QED
    BY <2>1, FarClosed
<1> QED
  BY <1>5, <1>10, <1>11, <1>12, <1>13 DEF FarIInv

\* Out takes a result, or the EOS of a worker.
LEMMA FarOut == ASSUME Far!FerretFarmsAssumption, FarIInv, Far!Out PROVE FarIInv'
<1> DEFINE s == Far!LastStage
<1>1. PICK w \in Far!Workers :
        /\ outq[s][w] # <<>> /\ outq' = [outq EXCEPT ![s][w] = Tail(@)]
        /\ IF Head(outq[s][w]) = 0
           THEN nw' = [nw EXCEPT ![s] = @ - 1] /\ UNCHANGED <<cnt_dequeue, printed>>
           ELSE /\ printed' = Append(printed, Head(outq[s][w]))
                /\ cnt_dequeue' = cnt_dequeue + 1 /\ nw' = nw
        /\ UNCHANGED <<inq, nextw, loading, cnt_enqueue>>
  BY DEF Far!Out, Far!EOS
<1>2. /\ FarTyped /\ InEnds /\ OutEnds /\ FarCounts /\ s \in Far!Gathered /\ s \in Far!Stages
      /\ outq \in [Far!Gathered -> [Far!Workers -> Seq(Nat)]]
      /\ nw \in [Far!Gathered -> Nat] /\ nw[s] \in Nat
      /\ printed \in Seq(Nat \ {0}) /\ cnt_dequeue = Len(printed)
  BY FarShape DEF FarIInv, FarTyped
<1>3. /\ inq' = inq /\ nextw' = nextw /\ loading' = loading /\ cnt_enqueue' = cnt_enqueue
      /\ outq[s][w] # <<>> /\ outq' = [outq EXCEPT ![s][w] = Tail(@)]
  BY <1>1
<1> HIDE DEF s
<1>4. \A r \in Far!Gathered, v \in Far!Workers :
        outq'[r][v] = IF r = s /\ v = w THEN Tail(outq[r][v]) ELSE outq[r][v]
  BY <1>2, <1>3
<1>5. outq' \in [Far!Gathered -> [Far!Workers -> Seq(Nat)]]
  <2>1. Tail(outq[s][w]) \in Seq(Nat)
    BY <1>2, <1>3, Ends
  <2> QED
    BY <1>2, <1>3, <2>1
<1>6. \A r \in Far!Gathered : r # s => nw'[r] = nw[r]
  BY <1>1, <1>2 DEF s
<1>7. \A r \in Far!Stages, u \in Far!Workers :
        (Fed(r, u)' <=> Fed(r, u)) /\ (Done(r, u)' <=> Done(r, u))
  BY <1>3, <1>6, FedSame DEF s
<1>8. InEnds'
  BY <1>2, <1>3, <1>7, EndsNext DEF InEnds
<1>9. /\ OutEnds' /\ ~Taken(s, w) /\ (Taken(s, w)' <=> Head(outq[s][w]) = 0)
      /\ \A r \in Far!Gathered, v \in Far!Workers :
           ~(r = s /\ v = w) => (Taken(r, v)' <=> Taken(r, v))
  <2>1. \A r \in Far!Gathered, v \in Far!Workers : Done(r, v)' <=> Done(r, v)
    BY <1>7, FarShape
  <2>2. FarTyped /\ OutEnds /\ s \in Far!Gathered /\ outq[s][w] # <<>>
    BY <1>2, <1>3
  <2> QED
    BY <1>4, <2>1, <2>2, OutsTaken, Zenon
<1>10. <<"out", s, w>> \in Cells /\ Cargo[<<"out", s, w>>] = outq[s][w]
       /\ Cargo'[<<"out", s, w>>] = Tail(outq[s][w])
  <2>1. outq'[s][w] = Tail(outq[s][w])
    BY <1>2, <1>4
  <2> QED
    BY <1>2, <2>1, FarCells, FarCellsNext
<1>11. CASE Head(outq[s][w]) = 0
  <2>1. nw' = [nw EXCEPT ![s] = @ - 1] /\ cnt_dequeue' = cnt_dequeue /\ printed' = printed
    BY <1>1, <1>11 DEF s
  <2>2. \A r \in Far!Gathered : nw'[r] = IF r = s THEN nw[r] - 1 ELSE nw[r]
    BY <1>2, <2>1
  <2>3. FarCounts'
    <3>1. Taken(s, w)'
      BY <1>9, <1>11
    <3> QED
      BY <1>2, <1>3, <1>9, <2>2, <3>1, CountsTake DEF FarCounts
  <2>4. FarTyped'
    <3>1. nw[s] = Cardinality(Untaken(s)) /\ w \in Untaken(s)
      BY <1>2, <1>9 DEF FarCounts, Untaken
    <3>2. IsFiniteSet(Untaken(s))
      BY FarShape, FS_Subset, Untaken(s) \in SUBSET Far!Workers DEF Untaken
    <3>3. nw[s] # 0
      BY <3>1, <3>2, FS_EmptySet
    <3>4. nw' \in [Far!Gathered -> Nat]
      BY <1>2, <2>1, <3>3
    <3> QED
      BY <1>2, <1>3, <1>5, <2>1, <3>4 DEF FarTyped
  <2>5. FarWhole'
    <3>1. ASSUME NEW k \in Cells
          PROVE  \/ Cargo'[k] = Cargo[k]
                 \/ Cargo'[k] = Append(Cargo[k], 0)
                 \/ Cargo[k] # <<>> /\ Head(Cargo[k]) = 0 /\ Cargo'[k] = Tail(Cargo[k])
      <4>1. CASE k = <<"out", s, w>>
        BY <4>1, <1>3, <1>10, <1>11
      <4>2. CASE k # <<"out", s, w>>
        BY <4>2, <1>3, <1>4, <2>1, FarSame
      <4> QED
        BY <4>1, <4>2
    <3> QED
      BY <1>3, <3>1, FarClosed
  <2> QED
    BY <1>8, <1>9, <2>3, <2>4, <2>5 DEF FarIInv
<1>12. CASE Head(outq[s][w]) # 0
  <2> DEFINE x == Head(outq[s][w])
  <2>1. nw' = nw /\ cnt_dequeue' = cnt_dequeue + 1 /\ printed' = Append(printed, x)
    BY <1>1, <1>12 DEF s
  <2>2. x \in Nat \ {0}
    <3>1. outq[s][w] \in Seq(Nat)
      BY <1>2
    <3> QED
      BY <3>1, <1>3, <1>12, Ends
  <2>3. FarCounts'
    <3>1. \A r \in Far!Gathered, v \in Far!Workers : Taken(r, v)' <=> Taken(r, v)
      BY <1>9, <1>12
    <3> QED
      BY <1>2, <1>3, <2>1, <3>1, CountsKeep DEF FarCounts
  <2>4. FarTyped'
    <3>1. printed' \in Seq(Nat \ {0}) /\ cnt_dequeue' = Len(printed')
      BY <1>2, <2>1, <2>2
    <3> QED
      BY <1>2, <1>3, <1>5, <2>1, <3>1 DEF FarTyped
  <2>5. FarWhole'
    <3> DEFINE k == <<"out", s, w>>
               l == <<"printed", 0, 0>>
    <3>1. /\ k \in Cells /\ l \in Cells /\ k # l
          /\ Cargo[k] = outq[s][w] /\ Cargo[l] = printed
      BY <1>10, FarCells
    <3>2. Cargo'[k] = Tail(outq[s][w]) /\ Cargo'[l] = Append(printed, x)
      BY <1>10, <2>1, FarCellsNext
    <3>3. \A m \in Cells : m # k /\ m # l => Cargo'[m] = Cargo[m]
      BY <1>3, <1>4, FarSame
    <3> HIDE DEF k, l
    <3> QED
      BY <1>3, <3>1, <3>2, <3>3, FarMoved
  <2> QED
    BY <1>8, <1>9, <2>3, <2>4, <2>5 DEF FarIInv
<1> QED
  BY <1>11, <1>12

\* Every step.
LEMMA FarStep ==
  ASSUME Far!FerretFarmsAssumption, FarIInv, [Far!Next]_Far!vars PROVE FarIInv'
<1>1. CASE Far!Load
  <2>1. CASE cnt_enqueue < Images
    BY <1>1, <2>1, FarLoad DEF Far!Load
  <2>2. CASE ~(cnt_enqueue < Images)
    BY <1>1, <2>2, FarLoaded DEF Far!Load
  <2> QED
    BY <2>1, <2>2
<1>2. ASSUME NEW s \in Far!Stages, NEW w \in Far!Workers, Far!Node(s, w)
      PROVE  FarIInv'
  <2>1. CASE s \in Far!Gathered
    BY <1>2, <2>1, FarNodeOut
  <2>2. CASE s \notin Far!Gathered
    BY <1>2, <2>2, FarNodeOn
  <2> QED
    BY <2>1, <2>2
<1>3. ASSUME NEW s \in Far!Gathered, Far!Emitter(s)
      PROVE  FarIInv'
  <2>1. PICK w \in Far!Workers :
          /\ s # Far!LastStage /\ nw[s] > 0 /\ outq[s][w] # <<>>
          /\ outq' = [outq EXCEPT ![s][w] = Tail(@)]
          /\ LET x == Head(outq[s][w])
             IN  IF x # 0 THEN Far!schedule_task(s + 1, x) /\ UNCHANGED nw
                 ELSE IF nw[s] = 1 THEN Far!push_eos(s + 1) /\ nw' = [nw EXCEPT ![s] = 0]
                 ELSE nw' = [nw EXCEPT ![s] = @ - 1] /\ UNCHANGED <<inq, nextw>>
          /\ UNCHANGED <<loading, cnt_enqueue, cnt_dequeue, printed>>
    BY <1>3 DEF Far!Emitter, Far!EOS, Far!LastEos, Far!counts
  <2>2. CASE Head(outq[s][w]) # 0
    BY <2>1, <2>2, FarEmitTask
  <2>3. CASE Head(outq[s][w]) = 0
    BY <2>1, <2>3, FarEmitEos
  <2> QED
    BY <2>2, <2>3
<1>4. CASE Far!Out
  BY <1>4, FarOut
<1>5. CASE UNCHANGED Far!vars
  <2>1. /\ inq' = inq /\ outq' = outq /\ nextw' = nextw /\ loading' = loading /\ nw' = nw
        /\ cnt_enqueue' = cnt_enqueue /\ cnt_dequeue' = cnt_dequeue /\ printed' = printed
    BY <1>5 DEF Far!vars
  <2>2. Cargo' = Cargo
    BY <2>1 DEF Cargo
  <2>3. \A r \in Far!Stages, u \in Far!Workers :
          (Fed(r, u)' <=> Fed(r, u)) /\ (Done(r, u)' <=> Done(r, u))
    BY <2>1, FedSame
  <2>4. OutEnds' /\ \A s \in Far!Gathered, w \in Far!Workers : Taken(s, w)' <=> Taken(s, w)
    BY <2>1, <2>3, OutsKept, FarShape DEF FarIInv
  <2>5. InEnds'
    BY <2>1, <2>3, EndsNext DEF FarIInv, InEnds
  <2>6. FarCounts'
    BY <2>1, <2>4, CountsKeep DEF FarCounts, FarIInv
  <2> QED
    BY <2>1, <2>2, <2>4, <2>5, <2>6 DEF FarIInv, FarTyped, FarWhole
<1> QED
  BY <1>1, <1>2, <1>3, <1>4, <1>5 DEF Far!Next

\* When the last reader has seen every EOS, nothing is left on the way, from the last
\* farm back to the first.
LEMMA FarOver ==
  ASSUME Far!FerretFarmsAssumption, FarIInv, Far!Joined
  PROVE  /\ cnt_enqueue = Images
         /\ \A s \in Far!Stages, w \in Far!Workers : inq[s][w] = <<>>
         /\ \A s \in Far!Gathered, w \in Far!Workers : outq[s][w] = <<>>
<1>1. /\ FarTyped /\ InEnds /\ OutEnds /\ FarCounts
      /\ nw[Far!LastStage] = 0
  BY DEF FarIInv, Far!Joined
<1>2. ASSUME NEW s \in Far!Gathered, nw[s] = 0
      PROVE  \A w \in Far!Workers :
               /\ Fed(s, w) /\ Done(s, w) /\ Taken(s, w)
               /\ inq[s][w] = <<>> /\ outq[s][w] = <<>>
  <2>1. Cardinality(Untaken(s)) = 0 /\ IsFiniteSet(Untaken(s))
    BY <1>1, <1>2, FarShape, FS_Subset, Untaken(s) \in SUBSET Far!Workers
       DEF FarCounts, Untaken
  <2>2. Untaken(s) = {}
    BY <2>1, FS_EmptySet
  <2>3. \A w \in Far!Workers : Taken(s, w) /\ Done(s, w) /\ Fed(s, w)
    BY <2>2 DEF Untaken, Taken, Done
  <2> QED
    BY <1>1, <2>3, FarShape DEF InEnds, OutEnds
<1>3. PICK w0 \in Far!Workers : TRUE
  BY FarShape
<1>4. Far!LastStage \in Far!Gathered
  BY FarShape
<1>5. CASE Far!Gathered = {Far!LastStage}
  <2>1. \A w \in Far!Workers : /\ Done(Far!LastStage, w) /\ outq[Far!LastStage][w] = <<>>
    BY <1>1, <1>2, <1>4
  <2>2. \A w \in Far!Workers : ~loading /\ \A r \in 1 .. Far!LastStage : ~Has(inq[r][w])
    BY <1>5, <2>1, FedFacts, FarShape
  <2>3. \A s \in Far!Stages, w \in Far!Workers : Done(s, w)
    <3>1. TAKE s \in Far!Stages, w \in Far!Workers
    <3>2. 1 .. s \subseteq 1 .. Far!LastStage
      BY FarShape
    <3> QED
      BY <1>5, <2>2, <3>2, FedFacts
  <2> QED
    BY <1>1, <1>3, <1>5, <2>1, <2>2, <2>3 DEF InEnds, FarCounts
<1>6. CASE Far!Gathered = Far!Stages
  <2>1. ASSUME NEW s \in Far!Stages, s # 1, nw[s] = 0 PROVE nw[s - 1] = 0 /\ s - 1 \in Far!Stages
    <3>1. Fed(s, w0)
      BY <1>2, <1>3, <1>6, <2>1
    <3> QED
      BY <1>3, <1>6, <2>1, <3>1, FedFacts
  <2>2. \A s \in Far!Stages : nw[s] = 0
    <3>1. CASE Far!LastStage = 1
      BY <3>1, <1>1, FarShape
    <3>2. CASE Far!LastStage = 4
      <4>1. Far!Stages = 1 .. 4
        BY <3>2, FarShape
      <4>2. nw[3] = 0
        BY <1>1, <2>1, <3>2, <4>1, 4 - 1 = 3
      <4>3. nw[2] = 0
        BY <2>1, <4>1, <4>2, 3 - 1 = 2
      <4>4. nw[1] = 0
        BY <2>1, <4>1, <4>3, 2 - 1 = 1
      <4> QED
        BY <1>1, <3>2, <4>1, <4>2, <4>3, <4>4
    <3> QED
      BY <3>1, <3>2, FarShape
  <2>3. ~loading
    BY <1>2, <1>3, <1>6, <2>2, FedFacts, FarShape
  <2> QED
    BY <1>1, <1>2, <1>6, <2>2, <2>3 DEF FarCounts
<1> QED
  BY <1>5, <1>6, FarShape

\* The assertion after run_and_wait_end, and the end of the stream in every queue.
LEMMA FarMatched ==
  ASSUME Far!FerretFarmsAssumption, FarIInv PROVE Far!QueriesMatched
<1>1. Far!TypeOK
  <2>1. \A s \in Far!Gathered : nw[s] \in 0 .. NW
    <3>1. TAKE s \in Far!Gathered
    <3>2. IsFiniteSet(Untaken(s)) /\ Cardinality(Untaken(s)) <= NW
      BY FarShape, FS_Subset, Untaken(s) \in SUBSET Far!Workers DEF Untaken
    <3> QED
      BY <3>2, FS_CardinalityType, FarShape DEF FarIInv, FarCounts
  <2>2. nw \in [Far!Gathered -> 0 .. NW]
    BY <2>1 DEF FarIInv, FarTyped
  <2> QED
    BY <2>2 DEF Far!TypeOK, FarIInv, FarTyped
<1>2. Far!EosIsLast
  <2>1. /\ \A s \in Far!Stages, w \in Far!Workers :
             Closes(inq[s][w]) /\ DOMAIN inq[s][w] = 1 .. Len(inq[s][w])
        /\ \A s \in Far!Gathered, w \in Far!Workers :
             Closes(outq[s][w]) /\ DOMAIN outq[s][w] = 1 .. Len(outq[s][w])
    BY DEF FarIInv, FarTyped, InEnds, OutEnds
  <2> QED
    BY <2>1 DEF Far!EosIsLast, Far!EOS, Closes
<1>3. Far!Matched
  <2>1. SUFFICES ASSUME Far!Joined
        PROVE  cnt_enqueue = cnt_dequeue /\ {printed[k] : k \in DOMAIN printed} = 1 .. Images
    BY DEF Far!Matched
  <2>2. PICK c : c = Cargo
    OBVIOUS
  <2>3. /\ Whole(c, cnt_enqueue) /\ DOMAIN c = Cells /\ c[<<"printed", 0, 0>>] = printed
        /\ cnt_enqueue \in Nat /\ <<"printed", 0, 0>> \in Cells
    BY <2>2, FarCells DEF FarIInv, FarWhole, FarTyped
  <2>4. cnt_enqueue = Images /\ \A l \in DOMAIN c : l # <<"printed", 0, 0>> => c[l] = <<>>
    BY <2>1, <2>2, <2>3, FarOver, FarCells
  <2>5. \A i \in 1 .. Len(c[<<"printed", 0, 0>>]) : c[<<"printed", 0, 0>>][i] # 0
    BY <2>3 DEF FarIInv, FarTyped
  <2>6. Len(printed) = cnt_enqueue /\ {printed[k] : k \in DOMAIN printed} = 1 .. cnt_enqueue
    BY <2>3, <2>4, <2>5, WholeIn
  <2> QED
    BY <2>4, <2>6 DEF FarIInv, FarTyped
<1> QED
  BY <1>1, <1>2, <1>3 DEF Far!QueriesMatched

\* ferret on FastFlow, with any number of images and workers and in any of the three
\* shapes: the end of the stream overtakes nothing, and when the collector has met it
\* from all its workers every image has been printed once.
THEOREM FarmsMatch ==
  ASSUME Far!FerretFarmsAssumption PROVE Far!Spec => []Far!QueriesMatched
<1>1. Far!Init => FarIInv
  BY FarInit
<1>2. FarIInv /\ [Far!Next]_Far!vars => FarIInv'
  BY FarStep
<1>3. FarIInv => Far!QueriesMatched
  BY FarMatched
<1> QED
  BY <1>1, <1>2, <1>3, PTL DEF Far!Spec

-----------------------------------------------------------------------------
(* FastFlow's blocking mode (BlockingFarm). *)

CONSTANTS Running, Size, Ordered, NTasks, Modulus           \* as in BlockingFarm,
VARIABLES prod_counter, cons_counter, epc, cnt, retry, got  \* with these variables

Blk == INSTANCE BlockingFarm

\* The emitter has put something into a channel: its reader is still to be woken, and
\* its own counter still to be raised.
Sends == {"signal", "bsignal"}
Busy == Sends \cup {"count", "bcount"}

\* The slots of channels c that are taken, and the workers that took a task and have not
\* told the emitter.
Filled(c) == {p \in Blk!Workers \X (1 .. Size) : p[2] <= Len(c[p[1]])}
Popped(f) == {w \in Blk!Workers : f[w] = "popdone"}
Load == Cardinality(Filled(q)) + Cardinality(Popped(wpc))

\* The most that can be counted, and how a number below zero is stored.
Most == Running * Size + Running
Wrap(v) == (v + Modulus) % Modulus

\* What the counter of a worker stands for.
Due(w) == Len(q[w]) + Blk!One(wpc[w] \in {"popdone", "dec"}) - Blk!One(epc \in Sends /\ nextw = w)

BlkTyped ==
  /\ q \in [Blk!Workers -> Seq(0 .. NTasks)] /\ got \in [Blk!Workers -> Seq(0 .. NTasks)]
  /\ \A w \in Blk!Workers : Len(q[w]) <= Size
  /\ cons_counter \in [Blk!Workers -> 0 .. Modulus - 1]
  /\ wpc \in [Blk!Workers -> {"pop", "popdone", "dec", "empty", "asleep", "done"}]
  /\ epc \in Busy \cup {"select", "full", "asleep", "bfull", "basleep", "owait", "oasleep", "done"}
  /\ nextw \in Blk!Workers /\ cnt \in 0 .. Running /\ left \in 0 .. NTasks
  /\ retry \in Seq(Blk!Workers)

BlkCounts ==
  /\ prod_counter = Wrap(Load - Blk!One(epc \in Busy))
  /\ \A w \in Blk!Workers : cons_counter[w] = Wrap(Due(w))

\* An emitter sleeps while a channel's worth of tasks is out, so that the next one who
\* ends one looks after it; a worker while nothing is in its channel that it has not
\* still to be told of.
BlkSleep ==
  /\ epc \in {"asleep", "basleep"} => Load >= Size
  /\ \A w \in Blk!Workers : wpc[w] = "asleep" => Len(q[w]) = Blk!One(epc \in Sends /\ nextw = w)

-----------------------------------------------------------------------------
(* What is counted. *)

\* The constants, without products of two of them.
LEMMA BlkConstants ==
  ASSUME Blk!SizeAssumption
  PROVE  /\ Running \in Nat \ {0} /\ Size \in Nat \ {0} /\ NTasks \in Nat /\ Modulus \in Nat
         /\ Ordered \in BOOLEAN /\ Most \in Nat /\ Most + 1 < Modulus /\ Size + 1 <= Most
         /\ Running + Running * Size = Most /\ Running * Size \in Nat
         /\ Blk!Workers = 0 .. Running - 1
<1>1. /\ Running \in Nat \ {0} /\ Size \in Nat \ {0} /\ NTasks \in Nat /\ Modulus \in Nat
      /\ Ordered \in BOOLEAN /\ Modulus > Running * Size + Running + 1
  BY DEF Blk!SizeAssumption
<1>2. Running * Size \in Nat /\ Running * Size >= Size
  BY <1>1
<1> QED
  BY <1>1, <1>2 DEF Most, Blk!Workers

\* The workers and the slots of their channels can be counted.
LEMMA BlkSets ==
  ASSUME Blk!SizeAssumption
  PROVE  /\ IsFiniteSet(Blk!Workers) /\ Cardinality(Blk!Workers) = Running
         /\ IsFiniteSet(Blk!Workers \X (1 .. Size))
         /\ Cardinality(Blk!Workers \X (1 .. Size)) = Running * Size
<1>1. /\ Running \in Nat \ {0} /\ Size \in Nat \ {0} /\ Blk!Workers = 0 .. Running - 1
  BY BlkConstants
<1>2. IsFiniteSet(0 .. Running - 1) /\ Cardinality(0 .. Running - 1) = Running
  <2>1. 0 \in Int /\ Running - 1 \in Int /\ Running - 1 >= 0
    BY <1>1
  <2>2. IsFiniteSet(0 .. Running - 1)
        /\ Cardinality(0 .. Running - 1) = IF 0 > Running - 1 THEN 0 ELSE Running - 1 - 0 + 1
    BY <2>1, FS_Interval
  <2> QED
    BY <2>1, <2>2, <1>1
<1>3. IsFiniteSet(1 .. Size) /\ Cardinality(1 .. Size) = Size
  <2>1. IsFiniteSet(1 .. Size) /\ Cardinality(1 .. Size) = IF 1 > Size THEN 0 ELSE Size - 1 + 1
    BY <1>1, FS_Interval
  <2> QED
    BY <2>1, <1>1
<1>4. /\ IsFiniteSet((0 .. Running - 1) \X (1 .. Size))
      /\ Cardinality((0 .. Running - 1) \X (1 .. Size))
         = Cardinality(0 .. Running - 1) * Cardinality(1 .. Size)
  <2> DEFINE A == 0 .. Running - 1
             B == 1 .. Size
  <2>1. IsFiniteSet(A) /\ IsFiniteSet(B)
    BY <1>2, <1>3
  <2> HIDE DEF A, B
  <2>2. IsFiniteSet(A \X B) /\ Cardinality(A \X B) = Cardinality(A) * Cardinality(B)
    BY <2>1, FS_Product
  <2> QED
    BY <2>2 DEF A, B
<1> QED
  BY <1>1, <1>2, <1>3, <1>4

\* What is counted is never more than all slots and all workers.
LEMMA BlkCounted ==
  ASSUME Blk!SizeAssumption, NEW c, NEW f
  PROVE  /\ IsFiniteSet(Filled(c)) /\ Cardinality(Filled(c)) \in Nat
         /\ IsFiniteSet(Popped(f)) /\ Cardinality(Popped(f)) \in Nat
         /\ Cardinality(Filled(c)) + Cardinality(Popped(f)) \in 0 .. Most
<1>1. Filled(c) \subseteq Blk!Workers \X (1 .. Size) /\ Popped(f) \subseteq Blk!Workers
  BY DEF Filled, Popped
<1>2. /\ IsFiniteSet(Filled(c)) /\ Cardinality(Filled(c)) <= Running * Size
      /\ IsFiniteSet(Popped(f)) /\ Cardinality(Popped(f)) <= Running
  BY <1>1, BlkSets, FS_Subset
<1>3. Cardinality(Filled(c)) \in Nat /\ Cardinality(Popped(f)) \in Nat
  BY <1>2, FS_CardinalityType
<1> DEFINE most == Running * Size
<1>4. most \in Nat /\ Running \in Nat /\ Running + most = Most
  BY BlkConstants
<1>5. Cardinality(Filled(c)) <= most /\ Cardinality(Popped(f)) <= Running
  BY <1>2
<1>6. Cardinality(Filled(c)) + Cardinality(Popped(f)) \in 0 .. Most
  <2> HIDE DEF most
  <2> QED
    BY <1>3, <1>4, <1>5
<1> QED
  BY <1>2, <1>3, <1>6

\* One more in a channel.
LEMMA OneMoreFilled ==
  ASSUME Blk!SizeAssumption, NEW c, NEW d, NEW w \in Blk!Workers,
         Len(c[w]) \in Nat, Len(c[w]) < Size, Len(d[w]) = Len(c[w]) + 1,
         \A v \in Blk!Workers : v # w => d[v] = c[v]
  PROVE  Cardinality(Filled(d)) = Cardinality(Filled(c)) + 1
<1> DEFINE x == <<w, Len(c[w]) + 1>>
<1>1. x \in Blk!Workers \X (1 .. Size) /\ x \notin Filled(c)
  <2>1. Size \in Nat
    BY BlkConstants
  <2>2. Len(c[w]) + 1 \in 1 .. Size /\ ~ (Len(c[w]) + 1 <= Len(c[w]))
    BY <2>1
  <2> QED
    BY <2>2 DEF Filled
<1>2. Filled(d) = Filled(c) \cup {x}
  <2>1. ASSUME NEW p \in Blk!Workers \X (1 .. Size)
        PROVE  p[2] <= Len(d[p[1]]) <=> p[2] <= Len(c[p[1]]) \/ p = x
    <3>1. p = <<p[1], p[2]>> /\ p[1] \in Blk!Workers /\ p[2] \in 1 .. Size
      OBVIOUS
    <3>2. CASE p[1] # w
      BY <3>1, <3>2
    <3>3. CASE p[1] = w
      <4>1. p = x <=> p[2] = Len(c[w]) + 1
        BY <3>1, <3>3
      <4>2. p[2] \in Int
        BY <3>1, BlkConstants
      <4> QED
        BY <4>1, <4>2, <3>3
    <3> QED
      BY <3>2, <3>3
  <2> QED
    BY <2>1, <1>1 DEF Filled
<1> HIDE DEF x
<1> QED
  BY <1>1, <1>2, BlkCounted, FS_AddElement

\* One more that is to tell the emitter.
LEMMA OneMorePopped ==
  ASSUME Blk!SizeAssumption, NEW f, NEW g, NEW w \in Blk!Workers,
         f[w] # "popdone", g[w] = "popdone", \A v \in Blk!Workers : v # w => g[v] = f[v]
  PROVE  Cardinality(Popped(g)) = Cardinality(Popped(f)) + 1
<1>1. Popped(g) = Popped(f) \cup {w} /\ w \notin Popped(f)
  BY DEF Popped
<1> QED
  BY <1>1, BlkCounted, FS_AddElement

\* Counting up and down, also over the edge.
LEMMA Wraps ==
  ASSUME Blk!SizeAssumption, NEW v \in -1 .. Most
  PROVE  /\ Wrap(v) \in 0 .. Modulus - 1
         /\ v >= 0 => Wrap(v) = v
         /\ Wrap(v) = 0 => v = 0
         /\ Blk!Up(Wrap(v)) = Wrap(v + 1)
         /\ v >= 0 => Blk!Down(Wrap(v)) = Wrap(v - 1)
<1>1. Modulus \in Nat /\ Most \in Nat /\ Most + 1 < Modulus
  BY BlkConstants
<1>2. \A x \in 0 .. Modulus - 1 : x % Modulus = x /\ (x + Modulus) % Modulus = x
  BY <1>1
<1>3. CASE v = -1
  <2>1. Wrap(v) = Modulus - 1 /\ v + Modulus = Modulus - 1
    BY <1>1, <1>2, <1>3 DEF Wrap
  <2>2. Wrap(v + 1) = 0 /\ Modulus - 1 + 1 = 0 + Modulus
    BY <1>1, <1>2, <1>3 DEF Wrap
  <2>3. Blk!Up(Modulus - 1) = 0
    BY <2>2, <1>1, <1>2 DEF Blk!Up
  <2> QED
    BY <1>1, <1>3, <2>1, <2>2, <2>3
<1>4. CASE v >= 0
  <2>1. v \in 0 .. Modulus - 1 /\ v + 1 \in 0 .. Modulus - 1 /\ v \in Int
    BY <1>1, <1>4
  <2>2. Wrap(v) = v /\ Wrap(v + 1) = v + 1
    BY <2>1, <1>2 DEF Wrap
  <2>3. Blk!Up(v) = v + 1
    BY <2>1, <1>2 DEF Blk!Up
  <2>4. Blk!Down(v) = Wrap(v - 1)
    <3>1. v + Modulus - 1 = v - 1 + Modulus
      BY <2>1, <1>1
    <3> QED
      BY <3>1 DEF Blk!Down, Wrap
  <2> QED
    BY <2>1, <2>2, <2>3, <2>4
<1> QED
  BY <1>1, <1>3, <1>4

\* A counter stays in its width.
LEMMA EdgeTyped ==
  ASSUME Blk!SizeAssumption
  PROVE  \A x \in 0 .. Modulus - 1 : Blk!Up(x) \in 0 .. Modulus - 1 /\ Blk!Down(x) \in 0 .. Modulus - 1
<1>1. Modulus \in Nat /\ Modulus > 0
  BY BlkConstants
<1>2. \A x \in Nat : x % Modulus \in 0 .. Modulus - 1
  BY <1>1
<1>3. \A x \in 0 .. Modulus - 1 : x + 1 \in Nat /\ x + Modulus - 1 \in Nat
  BY <1>1
<1> QED
  BY <1>2, <1>3 DEF Blk!Up, Blk!Down

\* What the counters of the next state stand for.
LEMMA DueNext ==
  ASSUME NEW v
  PROVE  Due(v)' = Len(q'[v]) + Blk!One(wpc'[v] \in {"popdone", "dec"})
                     - Blk!One(epc' \in Sends /\ nextw' = v)
BY Zenon DEF Due, Blk!One, Sends

\* The same for the emitter's.
LEMMA LoadNext ==
  ASSUME NEW c, NEW f, q' = c, wpc' = f
  PROVE  Load' = Cardinality(Filled(c)) + Cardinality(Popped(f))
BY Zenon DEF Load, Filled, Popped

\* What a counter stands for is never below minus one.
LEMMA DueBounds ==
  ASSUME Blk!SizeAssumption, BlkTyped, NEW w \in Blk!Workers
  PROVE  /\ Due(w) \in -1 .. Most /\ Len(q[w]) \in 0 .. Size /\ Len(q[w]) \in Nat
         /\ Load \in 0 .. Most /\ Load - Blk!One(epc \in Busy) \in -1 .. Most
<1>1. Len(q[w]) \in Nat /\ Len(q[w]) <= Size
  BY DEF BlkTyped
<1>2. Size \in Nat /\ Most \in Nat /\ Size + 1 <= Most
  BY BlkConstants
<1>3. \A b \in BOOLEAN : Blk!One(b) \in 0 .. 1
  BY DEF Blk!One
<1>4. Load \in 0 .. Most
  BY BlkCounted DEF Load
<1>5. Blk!One(epc \in Busy) \in 0 .. 1
  BY DEF Blk!One
<1>6. Blk!One(wpc[w] \in {"popdone", "dec"}) \in 0 .. 1 /\ Blk!One(epc \in Sends /\ nextw = w) \in 0 .. 1
  BY DEF Blk!One
<1> QED
  BY <1>1, <1>2, <1>4, <1>5, <1>6 DEF Due

\* The emitter's own steps, when nothing has been put.
LEMMA IdleKeeps ==
  ASSUME Blk!SizeAssumption, BlkTyped, BlkCounts, BlkSleep,
         UNCHANGED <<q, prod_counter, cons_counter, wpc>>, epc \notin Busy, epc' \notin Busy,
         epc' \in {"asleep", "basleep"} => Load >= Size
  PROVE  BlkCounts' /\ BlkSleep'
<1>1. Load' = Load
  BY LoadNext DEF Load
<1>2. Blk!One(epc \in Busy)' = 0 /\ Blk!One(epc \in Busy) = 0
  BY DEF Blk!One
<1>3. ~ (epc \in Sends) /\ ~ (epc' \in Sends)
  BY DEF Busy
<1>4. ASSUME NEW w \in Blk!Workers PROVE cons_counter'[w] = Wrap(Due(w)')
  <2>a. Blk!One(epc' \in Sends /\ nextw' = w) = Blk!One(FALSE)
    BY <1>3, Zenon DEF Blk!One
  <2>b. Len(q'[w]) = Len(q[w]) /\ wpc'[w] = wpc[w]
    OBVIOUS
  <2>1. Due(w)' = Len(q[w]) + Blk!One(wpc[w] \in {"popdone", "dec"}) - Blk!One(FALSE)
    BY <2>a, <2>b, DueNext
  <2>2. Due(w) = Len(q[w]) + Blk!One(wpc[w] \in {"popdone", "dec"}) - Blk!One(FALSE)
    BY <1>3, Zenon DEF Due, Blk!One
  <2> QED
    BY <2>1, <2>2 DEF BlkCounts
<1>5. ASSUME NEW w \in Blk!Workers, wpc'[w] = "asleep"
      PROVE  Len(q'[w]) = Blk!One(epc' \in Sends /\ nextw' = w)
  <2>1. Blk!One(epc' \in Sends /\ nextw' = w) = 0 /\ Blk!One(epc \in Sends /\ nextw = w) = 0
    BY <1>3 DEF Blk!One
  <2> QED
    BY <1>5, <2>1 DEF BlkSleep
<1>6. prod_counter' = Wrap(Load' - Blk!One(epc \in Busy)')
  BY <1>1, <1>2 DEF BlkCounts
<1>7. BlkCounts'
  <2>1. \A w \in Blk!Workers : cons_counter'[w] = Wrap(Due(w)')
    BY <1>4
  <2> QED
    BY <1>6, <2>1, Zenon DEF BlkCounts, Wrap
<1>8. BlkSleep'
  <2>1. epc' \in {"asleep", "basleep"} => Load' >= Size
    BY <1>1
  <2>2. \A w \in Blk!Workers : wpc'[w] = "asleep" => Len(q'[w]) = Blk!One(epc' \in Sends /\ nextw' = w)
    BY <1>5
  <2> QED
    BY <2>1, <2>2, Zenon DEF BlkSleep, Blk!One
<1> QED
  BY <1>7, <1>8

\* Something is put into a channel.
LEMMA PutKeeps ==
  ASSUME Blk!SizeAssumption, BlkTyped, BlkCounts, BlkSleep,
         NEW w \in Blk!Workers, NEW t \in 0 .. NTasks, epc = "select", Len(q[w]) < Size,
         q' = [q EXCEPT ![w] = Append(q[w], t)], epc' \in Sends, nextw' = w,
         UNCHANGED <<prod_counter, cons_counter, wpc>>
  PROVE  /\ BlkCounts' /\ BlkSleep'
         /\ q' \in [Blk!Workers -> Seq(0 .. NTasks)] /\ \A v \in Blk!Workers : Len(q'[v]) <= Size
<1>1. PICK d : d = q'
  OBVIOUS
<1>2. /\ d \in [Blk!Workers -> Seq(0 .. NTasks)] /\ Len(d[w]) = Len(q[w]) + 1 /\ Len(q[w]) \in Nat
      /\ \A v \in Blk!Workers : v # w => d[v] = q[v]
  BY <1>1 DEF BlkTyped
<1>3. Load' = Load + 1 /\ Load \in Nat
  <2>1. Cardinality(Filled(d)) = Cardinality(Filled(q)) + 1
    BY <1>2, OneMoreFilled
  <2>2. Load' = Cardinality(Filled(d)) + Cardinality(Popped(wpc))
    BY <1>1, LoadNext
  <2>3. Cardinality(Filled(q)) \in Nat /\ Cardinality(Popped(wpc)) \in Nat
    BY BlkCounted
  <2> QED
    BY <2>1, <2>2, <2>3 DEF Load
<1>4. Blk!One(epc \in Busy)' = 1 /\ Blk!One(epc \in Busy) = 0
  BY DEF Blk!One, Busy, Sends
<1>5. \A v \in Blk!Workers : (epc \in Sends /\ nextw = v <=> FALSE) /\ (epc' \in Sends /\ nextw' = v <=> v = w)
  BY DEF Sends
<1>6. ASSUME NEW v \in Blk!Workers PROVE cons_counter'[v] = Wrap(Due(v)')
  <2>1. Due(v) = Len(q[v]) + Blk!One(wpc[v] \in {"popdone", "dec"}) - 0
    BY <1>5 DEF Due, Blk!One
  <2>2. Due(v)' = Len(d[v]) + Blk!One(wpc[v] \in {"popdone", "dec"}) - Blk!One(v = w)
    <3>1. Len(q'[v]) = Len(d[v]) /\ wpc'[v] = wpc[v] /\ (v = w) \in BOOLEAN
      BY <1>1
    <3>2. epc' \in Sends /\ nextw' = v <=> v = w
      BY <1>5
    <3>3. Blk!One(epc' \in Sends /\ nextw' = v) = Blk!One(v = w)
      BY <3>2, Zenon DEF Blk!One
    <3> QED
      BY <3>1, <3>3, DueNext
  <2>3. Len(d[v]) \in Nat /\ Len(q[v]) \in Nat /\ Blk!One(wpc[v] \in {"popdone", "dec"}) \in 0 .. 1
    <3>1. Len(d[v]) \in Nat /\ Len(q[v]) \in Nat
      <4> DEFINE S == 0 .. NTasks
      <4>1. d \in [Blk!Workers -> Seq(S)] /\ q \in [Blk!Workers -> Seq(S)]
        BY <1>2 DEF BlkTyped
      <4> HIDE DEF S
      <4>2. d[v] \in Seq(S) /\ q[v] \in Seq(S)
        BY <4>1
      <4> QED
        BY <4>2
    <3>2. Blk!One(wpc[v] \in {"popdone", "dec"}) \in 0 .. 1
      BY DEF Blk!One
    <3> QED
      BY <3>1, <3>2
  <2>4. Len(d[v]) - Blk!One(v = w) = Len(q[v])
    <3>1. CASE v = w
      <4>1. Blk!One(v = w) = 1
        BY <3>1 DEF Blk!One
      <4> QED
        BY <3>1, <4>1, <1>2
    <3>2. CASE v # w
      <4>1. Blk!One(v = w) = 0 /\ d[v] = q[v]
        BY <3>2, <1>2 DEF Blk!One
      <4> QED
        BY <4>1, <2>3
    <3> QED
      BY <3>1, <3>2
  <2>5. Blk!One(v = w) \in 0 .. 1
    BY DEF Blk!One
  <2>6. Due(v)' = Due(v)
    BY <2>1, <2>2, <2>3, <2>4, <2>5
  <2> QED
    BY <2>6 DEF BlkCounts
<1>7. ASSUME NEW v \in Blk!Workers, wpc'[v] = "asleep"
      PROVE  Len(q'[v]) = Blk!One(epc' \in Sends /\ nextw' = v)
  <2>1. Len(q[v]) = 0
    BY <1>5, <1>7 DEF BlkSleep, Blk!One
  <2>2. Len(d[v]) = Blk!One(v = w)
    <3>1. CASE v = w
      BY <3>1, <1>2, <2>1 DEF Blk!One
    <3>2. CASE v # w
      BY <3>2, <1>2, <2>1 DEF Blk!One
    <3> QED
      BY <3>1, <3>2
  <2> QED
    BY <1>1, <1>5, <2>2 DEF Blk!One
<1>8. BlkCounts'
  <2>1. prod_counter' = Wrap(Load' - Blk!One(epc \in Busy)')
    <3>1. Load' - Blk!One(epc \in Busy)' = Load - Blk!One(epc \in Busy)
      BY <1>3, <1>4
    <3> QED
      BY <3>1 DEF BlkCounts
  <2>2. \A v \in Blk!Workers : cons_counter'[v] = Wrap(Due(v)')
    BY <1>6
  <2> QED
    BY <2>1, <2>2, Zenon DEF BlkCounts, Wrap
<1>9. BlkSleep'
  <2>1. ~ (epc' \in {"asleep", "basleep"})
    BY DEF Sends
  <2>2. \A v \in Blk!Workers : wpc'[v] = "asleep" => Len(q'[v]) = Blk!One(epc' \in Sends /\ nextw' = v)
    BY <1>7
  <2> QED
    BY <2>1, <2>2, Zenon DEF BlkSleep, Blk!One
<1>10. \A v \in Blk!Workers : Len(d[v]) <= Size
  <2> SUFFICES ASSUME NEW v \in Blk!Workers PROVE Len(d[v]) <= Size
    OBVIOUS
  <2>1. Size \in Nat
    BY BlkConstants
  <2>2. CASE v = w
    BY <2>1, <2>2, <1>2
  <2>3. CASE v # w
    BY <2>3, <1>2 DEF BlkTyped
  <2> QED
    BY <2>2, <2>3
<1> QED
  BY <1>1, <1>2, <1>8, <1>9, <1>10

\* put_done wakes the reader, who sleeps only if its counter is zero, and counts.
LEMMA WakeKeeps ==
  ASSUME Blk!SizeAssumption, BlkTyped, BlkCounts, BlkSleep,
         epc \in Sends, epc' \in {"count", "bcount"}, Blk!WakeWorker(nextw),
         cons_counter' = [cons_counter EXCEPT ![nextw] = Blk!Up(@)],
         UNCHANGED <<q, prod_counter, nextw>>
  PROVE  /\ BlkCounts' /\ BlkSleep'
         /\ cons_counter' \in [Blk!Workers -> 0 .. Modulus - 1]
         /\ wpc' \in [Blk!Workers -> {"pop", "popdone", "dec", "empty", "asleep", "done"}]
<1> DEFINE u == nextw
<1>0. u \in Blk!Workers
  BY DEF BlkTyped
<1>1. PICK f : f = wpc'
  OBVIOUS
<1>2. /\ f \in [Blk!Workers -> {"pop", "popdone", "dec", "empty", "asleep", "done"}]
      /\ f[u] = IF cons_counter[u] = 0 /\ wpc[u] = "asleep" THEN "empty" ELSE wpc[u]
      /\ \A v \in Blk!Workers : v # u => f[v] = wpc[v]
  BY <1>1 DEF BlkTyped, Blk!WakeWorker
<1>3. /\ cons_counter'[u] = Blk!Up(cons_counter[u])
      /\ \A v \in Blk!Workers : v # u => cons_counter'[v] = cons_counter[v]
  BY <1>0 DEF BlkTyped
<1>4. \A v \in Blk!Workers : /\ f[v] = "popdone" <=> wpc[v] = "popdone"
                             /\ f[v] \in {"popdone", "dec"} <=> wpc[v] \in {"popdone", "dec"}
                             /\ f[v] = "asleep" => wpc[v] = "asleep"
  <2> SUFFICES ASSUME NEW v \in Blk!Workers
               PROVE  /\ f[v] = "popdone" <=> wpc[v] = "popdone"
                      /\ f[v] \in {"popdone", "dec"} <=> wpc[v] \in {"popdone", "dec"}
                      /\ f[v] = "asleep" => wpc[v] = "asleep"
    OBVIOUS
  <2>1. f[v] = wpc[v] \/ (f[v] = "empty" /\ wpc[v] = "asleep")
    BY <1>2
  <2> QED
    BY <2>1
<1>5. Popped(f) = Popped(wpc)
  BY <1>4 DEF Popped
<1>6. Load' = Load
  BY <1>1, <1>5, LoadNext DEF Load
<1>7. Blk!One(epc \in Busy)' = 1 /\ Blk!One(epc \in Busy) = 1
  BY DEF Blk!One, Busy
<1>8. ~ (epc' \in Sends) /\ \A v \in Blk!Workers : (epc \in Sends /\ nextw = v <=> v = u)
  BY DEF Sends
<1>9. ASSUME NEW v \in Blk!Workers
      PROVE  /\ Due(v) \in -1 .. Most /\ Len(q[v]) \in Nat
             /\ Due(v)' = Due(v) + Blk!One(v = u)
             /\ Due(v) = Len(q[v]) + Blk!One(wpc[v] \in {"popdone", "dec"}) - Blk!One(v = u)
  <2>1. Blk!One(epc' \in Sends /\ nextw' = v) = 0 /\ Blk!One(v = u) \in 0 .. 1
    BY <1>8 DEF Blk!One
  <2>2. Blk!One(epc \in Sends /\ nextw = v) = Blk!One(v = u)
    BY <1>8, Zenon DEF Blk!One
  <2>3. Blk!One(f[v] \in {"popdone", "dec"}) = Blk!One(wpc[v] \in {"popdone", "dec"})
    BY <1>4, Zenon DEF Blk!One
  <2>4. Due(v)' = Len(q[v]) + Blk!One(wpc[v] \in {"popdone", "dec"}) - 0
    BY <1>1, <2>1, <2>3, DueNext
  <2>5. Due(v) = Len(q[v]) + Blk!One(wpc[v] \in {"popdone", "dec"}) - Blk!One(v = u)
    BY <2>2 DEF Due
  <2>6. Len(q[v]) \in Nat /\ Due(v) \in -1 .. Most /\ Blk!One(wpc[v] \in {"popdone", "dec"}) \in 0 .. 1
    BY DueBounds, BlkConstants DEF Blk!One
  <2>7. Due(v)' = Due(v) + Blk!One(v = u)
    BY <2>1, <2>4, <2>5, <2>6
  <2> QED
    BY <2>5, <2>6, <2>7
<1>10. ASSUME NEW v \in Blk!Workers PROVE cons_counter'[v] = Wrap(Due(v)')
  <2>1. cons_counter[v] = Wrap(Due(v))
    BY DEF BlkCounts
  <2>2. CASE v = u
    <3>1. Due(v)' = Due(v) + 1
      BY <1>9, <2>2 DEF Blk!One
    <3>2. Blk!Up(Wrap(Due(v))) = Wrap(Due(v) + 1)
      BY <1>9, Wraps
    <3> QED
      BY <1>3, <2>1, <2>2, <3>1, <3>2
  <2>3. CASE v # u
    <3>1. Due(v)' = Due(v)
      <4>1. Blk!One(v = u) = 0
        BY <2>3 DEF Blk!One
      <4>2. Due(v)' = Due(v) + Blk!One(v = u) /\ Due(v) \in -1 .. Most
        BY <1>9
      <4> QED
        BY <4>1, <4>2, BlkConstants
    <3> QED
      BY <1>3, <2>1, <2>3, <3>1
  <2> QED
    BY <2>2, <2>3
<1>11. ASSUME NEW v \in Blk!Workers, f[v] = "asleep" PROVE Len(q[v]) = 0
  <2>1. wpc[v] = "asleep" /\ Len(q[v]) = Blk!One(epc \in Sends /\ nextw = v)
    BY <1>4, <1>11 DEF BlkSleep
  <2>2. CASE v = u
    <3>1. Len(q[v]) = 1 /\ Blk!One(v = u) = 1 /\ Blk!One(wpc[v] \in {"popdone", "dec"}) = 0
      BY <1>8, <2>1, <2>2 DEF Blk!One
    <3>2. Due(v) = 0
      <4>1. Due(v) = Len(q[v]) + Blk!One(wpc[v] \in {"popdone", "dec"}) - Blk!One(v = u)
        BY <1>9
      <4> QED
        BY <4>1, <3>1
    <3>3. cons_counter[v] = 0
      BY <3>2, <1>9, Wraps DEF BlkCounts
    <3> QED
      BY <1>2, <1>11, <2>1, <2>2, <3>3
  <2>3. CASE v # u
    BY <1>8, <2>1, <2>3 DEF Blk!One
  <2> QED
    BY <2>2, <2>3
<1>12. BlkCounts'
  <2>1. prod_counter' = Wrap(Load' - Blk!One(epc \in Busy)')
    BY <1>6, <1>7 DEF BlkCounts
  <2>2. \A v \in Blk!Workers : cons_counter'[v] = Wrap(Due(v)')
    BY <1>10
  <2> QED
    BY <2>1, <2>2, Zenon DEF BlkCounts, Wrap
<1>13. BlkSleep'
  <2>1. ~ (epc' \in {"asleep", "basleep"})
    OBVIOUS
  <2>2. \A v \in Blk!Workers : wpc'[v] = "asleep" => Len(q'[v]) = Blk!One(epc' \in Sends /\ nextw' = v)
    BY <1>1, <1>8, <1>11 DEF Blk!One
  <2> QED
    BY <2>1, <2>2, Zenon DEF BlkSleep, Blk!One
<1>14. cons_counter' \in [Blk!Workers -> 0 .. Modulus - 1]
  <2>1. Blk!Up(cons_counter[u]) \in 0 .. Modulus - 1
    BY <1>0, EdgeTyped DEF BlkTyped
  <2> QED
    BY <2>1 DEF BlkTyped
<1> QED
  BY <1>1, <1>2, <1>12, <1>13, <1>14

\* Then the emitter's own counter.
LEMMA CountKeeps ==
  ASSUME Blk!SizeAssumption, BlkTyped, BlkCounts, BlkSleep,
         epc \in {"count", "bcount"}, epc' = "select", prod_counter' = Blk!Up(prod_counter),
         UNCHANGED <<q, cons_counter, wpc>>
  PROVE  BlkCounts' /\ BlkSleep'
<1>1. Load' = Load
  BY LoadNext DEF Load
<1>2. Blk!One(epc \in Busy)' = 0 /\ Blk!One(epc \in Busy) = 1
  BY DEF Blk!One, Busy, Sends
<1>3. ~ (epc \in Sends) /\ ~ (epc' \in Sends)
  BY DEF Sends
<1>4. ASSUME NEW w \in Blk!Workers PROVE cons_counter'[w] = Wrap(Due(w)')
  <2>1. Blk!One(epc' \in Sends /\ nextw' = w) = Blk!One(epc \in Sends /\ nextw = w)
    BY <1>3 DEF Blk!One
  <2>2. Due(w)' = Due(w)
    BY <2>1, DueNext DEF Due
  <2> QED
    BY <2>2 DEF BlkCounts
<1>5. prod_counter' = Wrap(Load' - Blk!One(epc \in Busy)')
  <2>1. PICK w : w \in Blk!Workers
    BY DEF BlkTyped
  <2>2. Load - 1 \in -1 .. Most /\ Load \in Nat
    BY <1>2, <2>1, DueBounds, BlkConstants
  <2>3. Blk!Up(Wrap(Load - 1)) = Wrap(Load - 1 + 1)
    BY <2>2, Wraps
  <2>4. Load - 1 + 1 = Load' - 0
    BY <1>1, <2>2
  <2> QED
    BY <1>2, <2>3, <2>4 DEF BlkCounts
<1>6. BlkCounts'
  <2>1. \A w \in Blk!Workers : cons_counter'[w] = Wrap(Due(w)')
    BY <1>4
  <2> QED
    BY <1>5, <2>1, Zenon DEF BlkCounts, Wrap
<1>7. BlkSleep'
  <2>1. \A w \in Blk!Workers : wpc'[w] = "asleep" => Len(q'[w]) = Blk!One(epc' \in Sends /\ nextw' = w)
    BY <1>3 DEF BlkSleep, Blk!One
  <2>2. ~ (epc' \in {"asleep", "basleep"})
    OBVIOUS
  <2> QED
    BY <2>1, <2>2, Zenon DEF BlkSleep, Blk!One
<1> QED
  BY <1>6, <1>7

\* A worker that goes to wait, or from there, counts for nothing.
LEMMA RestKeeps ==
  ASSUME Blk!SizeAssumption, BlkTyped, BlkCounts, BlkSleep, NEW w \in Blk!Workers,
         wpc[w] \in {"pop", "empty", "asleep"}, NEW s \in {"pop", "empty", "asleep"},
         s = "asleep" => cons_counter[w] = 0,
         wpc' = [wpc EXCEPT ![w] = s], UNCHANGED <<q, prod_counter, cons_counter, epc, nextw>>
  PROVE  BlkCounts' /\ BlkSleep'
<1>1. PICK f : f = wpc'
  OBVIOUS
<1>2. f[w] = s /\ \A v \in Blk!Workers : v # w => f[v] = wpc[v]
  BY <1>1 DEF BlkTyped
<1>3. \A v \in Blk!Workers : /\ f[v] = "popdone" <=> wpc[v] = "popdone"
                             /\ f[v] \in {"popdone", "dec"} <=> wpc[v] \in {"popdone", "dec"}
  <2> SUFFICES ASSUME NEW v \in Blk!Workers
               PROVE  /\ f[v] = "popdone" <=> wpc[v] = "popdone"
                      /\ f[v] \in {"popdone", "dec"} <=> wpc[v] \in {"popdone", "dec"}
    OBVIOUS
  <2>1. CASE v = w
    BY <2>1, <1>2
  <2>2. CASE v # w
    BY <2>2, <1>2
  <2> QED
    BY <2>1, <2>2
<1>4. Load' = Load
  <2>1. Popped(f) = Popped(wpc)
    BY <1>3 DEF Popped
  <2> QED
    BY <1>1, <2>1, LoadNext DEF Load
<1>5. ASSUME NEW v \in Blk!Workers PROVE Due(v)' = Due(v)
  <2>1. Blk!One(f[v] \in {"popdone", "dec"}) = Blk!One(wpc[v] \in {"popdone", "dec"})
    BY <1>3, Zenon DEF Blk!One
  <2> QED
    BY <1>1, <2>1, DueNext DEF Due
<1>6. BlkCounts'
  <2>1. \A v \in Blk!Workers : cons_counter'[v] = Wrap(Due(v)')
    BY <1>5 DEF BlkCounts
  <2>2. Blk!One(epc \in Busy)' = Blk!One(epc \in Busy)
    BY DEF Blk!One
  <2>3. prod_counter' = Wrap(Load' - Blk!One(epc \in Busy)')
    BY <1>4, <2>2 DEF BlkCounts
  <2> QED
    BY <2>1, <2>3, Zenon DEF BlkCounts, Wrap
<1>7. ASSUME NEW v \in Blk!Workers, f[v] = "asleep"
      PROVE  Len(q[v]) = Blk!One(epc \in Sends /\ nextw = v)
  <2>1. CASE v = w
    <3>1. Wrap(Due(w)) = 0 /\ Blk!One(wpc[w] \in {"popdone", "dec"}) = 0
      BY <1>2, <1>7, <2>1 DEF BlkCounts, Blk!One
    <3>2. Due(w) = 0
      BY <3>1, DueBounds, Wraps
    <3>3. Len(q[w]) \in Nat /\ Blk!One(epc \in Sends /\ nextw = w) \in 0 .. 1
      BY DueBounds, BlkConstants DEF Blk!One
    <3> QED
      BY <2>1, <3>1, <3>2, <3>3 DEF Due
  <2>2. CASE v # w
    BY <1>2, <1>7, <2>2 DEF BlkSleep
  <2> QED
    BY <2>1, <2>2
<1>8. BlkSleep'
  <2>1. \A v \in Blk!Workers : wpc'[v] = "asleep" => Len(q'[v]) = Blk!One(epc' \in Sends /\ nextw' = v)
    BY <1>1, <1>7
  <2>2. epc' \in {"asleep", "basleep"} => Load' >= Size
    BY <1>4 DEF BlkSleep
  <2> QED
    BY <2>1, <2>2, Zenon DEF BlkSleep, Blk!One
<1> QED
  BY <1>6, <1>8

\* A worker takes a task out of its channel.
LEMMA PopKeeps ==
  ASSUME Blk!SizeAssumption, BlkTyped, BlkCounts, BlkSleep, NEW w \in Blk!Workers,
         wpc[w] = "pop", q[w] # <<>>, q' = [q EXCEPT ![w] = Tail(@)],
         wpc' = [wpc EXCEPT ![w] = "popdone"],
         UNCHANGED <<prod_counter, cons_counter, epc, nextw>>
  PROVE  /\ BlkCounts' /\ BlkSleep'
         /\ q' \in [Blk!Workers -> Seq(0 .. NTasks)] /\ \A v \in Blk!Workers : Len(q'[v]) <= Size
<1>1. PICK f : f = wpc'
  OBVIOUS
<1>2. PICK d : d = q'
  OBVIOUS
<1>3. f[w] = "popdone" /\ \A v \in Blk!Workers : v # w => f[v] = wpc[v]
  BY <1>1 DEF BlkTyped
<1>4. /\ d \in [Blk!Workers -> Seq(0 .. NTasks)] /\ Len(d[w]) \in Nat /\ Len(q[w]) = Len(d[w]) + 1
      /\ \A v \in Blk!Workers : v # w => d[v] = q[v]
  <2>1. q \in [Blk!Workers -> Seq(0 .. NTasks)] /\ q[w] \in Seq(0 .. NTasks)
    BY DEF BlkTyped
  <2>2. Tail(q[w]) \in Seq(0 .. NTasks) /\ Len(Tail(q[w])) = Len(q[w]) - 1 /\ Len(q[w]) \in Nat
        /\ Len(q[w]) > 0 /\ Len(Tail(q[w])) \in Nat
    BY <2>1
  <2>3. d[w] = Tail(q[w]) /\ \A v \in Blk!Workers : v # w => d[v] = q[v]
    BY <1>2, <2>1
  <2>4. d \in [Blk!Workers -> Seq(0 .. NTasks)]
    BY <1>2, <2>1, <2>2
  <2> QED
    BY <2>2, <2>3, <2>4
<1>5. Load' = Load
  <2>1. Len(d[w]) < Size
    <3>1. Len(q[w]) <= Size /\ Size \in Nat
      BY BlkConstants DEF BlkTyped
    <3> QED
      BY <3>1, <1>4
  <2>2. Cardinality(Filled(q)) = Cardinality(Filled(d)) + 1
    BY <1>4, <2>1, OneMoreFilled
  <2>3. Cardinality(Popped(f)) = Cardinality(Popped(wpc)) + 1
    BY <1>3, OneMorePopped
  <2>4. Cardinality(Filled(d)) \in Nat /\ Cardinality(Popped(wpc)) \in Nat
    BY BlkCounted
  <2>5. Load' = Cardinality(Filled(d)) + Cardinality(Popped(f))
    BY <1>1, <1>2, LoadNext
  <2> QED
    BY <2>2, <2>3, <2>4, <2>5 DEF Load
<1>6. ASSUME NEW v \in Blk!Workers PROVE Due(v)' = Due(v)
  <2>1. Due(v)' = Len(d[v]) + Blk!One(f[v] \in {"popdone", "dec"}) - Blk!One(epc \in Sends /\ nextw = v)
    BY <1>1, <1>2, DueNext
  <2>2. CASE v = w
    <3>1. Blk!One(f[w] \in {"popdone", "dec"}) = 1 /\ Blk!One(wpc[w] \in {"popdone", "dec"}) = 0
      BY <1>3 DEF Blk!One
    <3>2. Len(d[w]) + 1 = Len(q[w]) + 0
      BY <1>4
    <3> QED
      BY <2>1, <2>2, <3>1, <3>2 DEF Due
  <2>3. CASE v # w
    BY <1>3, <1>4, <2>1, <2>3 DEF Due
  <2> QED
    BY <2>2, <2>3
<1>7. BlkCounts'
  <2>1. \A v \in Blk!Workers : cons_counter'[v] = Wrap(Due(v)')
    BY <1>6 DEF BlkCounts
  <2>2. Blk!One(epc \in Busy)' = Blk!One(epc \in Busy)
    BY DEF Blk!One
  <2>3. prod_counter' = Wrap(Load' - Blk!One(epc \in Busy)')
    BY <1>5, <2>2 DEF BlkCounts
  <2> QED
    BY <2>1, <2>3, Zenon DEF BlkCounts, Wrap
<1>8. BlkSleep'
  <2>1. ASSUME NEW v \in Blk!Workers, wpc'[v] = "asleep"
        PROVE  Len(q'[v]) = Blk!One(epc' \in Sends /\ nextw' = v)
    <3>1. v # w /\ wpc[v] = "asleep" /\ d[v] = q[v]
      BY <1>1, <1>3, <1>4, <2>1
    <3>2. Len(q[v]) = Blk!One(epc \in Sends /\ nextw = v)
      BY <3>1 DEF BlkSleep
    <3> QED
      BY <1>2, <3>1, <3>2
  <2>2. epc' \in {"asleep", "basleep"} => Load' >= Size
    BY <1>5 DEF BlkSleep
  <2> QED
    BY <2>1, <2>2, Zenon DEF BlkSleep, Blk!One
<1>9. \A v \in Blk!Workers : Len(d[v]) <= Size
  <2> SUFFICES ASSUME NEW v \in Blk!Workers PROVE Len(d[v]) <= Size
    OBVIOUS
  <2>1. Size \in Nat /\ Len(q[v]) <= Size
    BY BlkConstants DEF BlkTyped
  <2>2. CASE v = w
    BY <2>1, <2>2, <1>4
  <2>3. CASE v # w
    BY <2>1, <2>3, <1>4
  <2> QED
    BY <2>2, <2>3
<1> QED
  BY <1>2, <1>4, <1>7, <1>8, <1>9

\* pop_done wakes an emitter that sleeps, because then as much is out.
LEMMA DoneKeeps ==
  ASSUME Blk!SizeAssumption, BlkTyped, BlkCounts, BlkSleep, NEW w \in Blk!Workers,
         wpc[w] = "popdone", Blk!WakeEmitter, prod_counter' = Blk!Down(prod_counter),
         wpc' = [wpc EXCEPT ![w] = "dec"], UNCHANGED <<q, cons_counter, nextw>>
  PROVE  /\ BlkCounts' /\ BlkSleep' /\ prod_counter' \in 0 .. Modulus - 1
         /\ \/ epc' = epc
            \/ epc = "asleep" /\ epc' = "full"
            \/ epc = "basleep" /\ epc' = "bfull"
            \/ epc = "oasleep" /\ epc' = "select"
<1>1. PICK f : f = wpc'
  OBVIOUS
<1>2. f[w] = "dec" /\ \A v \in Blk!Workers : v # w => f[v] = wpc[v]
  BY <1>1 DEF BlkTyped
<1>3. Load = Load' + 1 /\ Load' \in Nat /\ Load \in 0 .. Most
  <2>1. Cardinality(Popped(wpc)) = Cardinality(Popped(f)) + 1
    BY <1>2, OneMorePopped
  <2>2. Cardinality(Filled(q)) \in Nat /\ Cardinality(Popped(f)) \in Nat
    BY BlkCounted
  <2>3. Load' = Cardinality(Filled(q)) + Cardinality(Popped(f))
    BY <1>1, LoadNext
  <2> QED
    BY <2>1, <2>2, <2>3, DueBounds DEF Load
<1>4. /\ epc' = epc \/ (epc = "asleep" /\ epc' = "full") \/ (epc = "basleep" /\ epc' = "bfull")
                    \/ (epc = "oasleep" /\ epc' = "select")
      /\ prod_counter >= Size => epc' # "asleep" /\ epc' # "basleep"
  BY DEF Blk!WakeEmitter, Blk!MustWake
<1>5. epc' \in Busy <=> epc \in Busy
  BY <1>4 DEF Busy, Sends
<1>6. epc' \in Sends <=> epc \in Sends
  BY <1>4 DEF Sends
<1>7. Blk!One(epc \in Busy)' = Blk!One(epc \in Busy) /\ Blk!One(epc \in Busy) \in 0 .. 1
  BY <1>5 DEF Blk!One
<1>8. prod_counter' = Wrap(Load' - Blk!One(epc \in Busy)')
  <2>1. Load - Blk!One(epc \in Busy) \in 0 .. Most
    <3>1. Blk!One(epc \in Busy) \in 0 .. 1 /\ Load - 1 >= 0 /\ Load \in 0 .. Most /\ Most \in Nat
      <4>1. PICK n \in Nat : Load = n + 1 /\ Load \in 0 .. Most
        BY <1>3
      <4>2. Most \in Nat
        BY BlkConstants
      <4>3. Load - 1 >= 0
        BY <4>1
      <4>4. Blk!One(epc \in Busy) \in 0 .. 1
        BY DEF Blk!One
      <4> QED
        BY <4>1, <4>2, <4>3, <4>4
    <3> QED
      BY <3>1
  <2>2. Blk!Down(Wrap(Load - Blk!One(epc \in Busy))) = Wrap(Load - Blk!One(epc \in Busy) - 1)
    BY <2>1, Wraps
  <2>3. Load - Blk!One(epc \in Busy) - 1 = Load' - Blk!One(epc \in Busy)'
    BY <1>3, <1>7
  <2> QED
    BY <2>2, <2>3 DEF BlkCounts
<1>9. ASSUME NEW v \in Blk!Workers PROVE Due(v)' = Due(v)
  <2>1. Blk!One(f[v] \in {"popdone", "dec"}) = Blk!One(wpc[v] \in {"popdone", "dec"})
    <3>1. f[v] \in {"popdone", "dec"} <=> wpc[v] \in {"popdone", "dec"}
      BY <1>2
    <3> QED
      BY <3>1, Zenon DEF Blk!One
  <2>2. Blk!One(epc' \in Sends /\ nextw' = v) = Blk!One(epc \in Sends /\ nextw = v)
    BY <1>6, Zenon DEF Blk!One
  <2> QED
    BY <1>1, <2>1, <2>2, DueNext DEF Due
<1>10. BlkCounts'
  <2>1. \A v \in Blk!Workers : cons_counter'[v] = Wrap(Due(v)')
    BY <1>9 DEF BlkCounts
  <2> QED
    BY <1>8, <2>1, Zenon DEF BlkCounts, Wrap
<1>11. ~ (epc' \in {"asleep", "basleep"})
  <2> SUFFICES ASSUME epc' \in {"asleep", "basleep"} PROVE FALSE
    OBVIOUS
  <2>1. epc \in {"asleep", "basleep"}
    BY <1>4
  <2>2. Blk!One(epc \in Busy) = 0 /\ Load >= Size
    BY <2>1 DEF Blk!One, Busy, Sends, BlkSleep
  <2>3. Wrap(Load) = Load
    BY <1>3, Wraps, BlkConstants
  <2>4. prod_counter = Load
    BY <2>2, <2>3, <1>3 DEF BlkCounts
  <2> QED
    BY <1>4, <2>2, <2>4
<1>12. BlkSleep'
  <2>1. ASSUME NEW v \in Blk!Workers, wpc'[v] = "asleep"
        PROVE  Len(q'[v]) = Blk!One(epc' \in Sends /\ nextw' = v)
    <3>1. wpc[v] = "asleep"
      BY <1>1, <1>2, <2>1
    <3>2. Len(q[v]) = Blk!One(epc \in Sends /\ nextw = v)
      BY <3>1 DEF BlkSleep
    <3>3. Blk!One(epc' \in Sends /\ nextw' = v) = Blk!One(epc \in Sends /\ nextw = v)
      BY <1>6, Zenon DEF Blk!One
    <3> QED
      BY <3>2, <3>3
  <2> QED
    BY <1>11, <2>1, Zenon DEF BlkSleep, Blk!One
<1>13. prod_counter' \in 0 .. Modulus - 1
  <2>1. prod_counter \in 0 .. Modulus - 1
    <3>1. Load - Blk!One(epc \in Busy) \in -1 .. Most
      BY DueBounds
    <3> QED
      BY <3>1, Wraps DEF BlkCounts
  <2> QED
    BY <2>1, EdgeTyped
<1> QED
  BY <1>4, <1>10, <1>12, <1>13

\* Then its own counter.
LEMMA DecKeeps ==
  ASSUME Blk!SizeAssumption, BlkTyped, BlkCounts, BlkSleep, NEW w \in Blk!Workers,
         wpc[w] = "dec", NEW s \in {"pop", "done"}, wpc' = [wpc EXCEPT ![w] = s],
         cons_counter' = [cons_counter EXCEPT ![w] = Blk!Down(@)],
         UNCHANGED <<q, prod_counter, epc, nextw>>
  PROVE  BlkCounts' /\ BlkSleep' /\ cons_counter' \in [Blk!Workers -> 0 .. Modulus - 1]
<1>1. PICK f : f = wpc'
  OBVIOUS
<1>2. f[w] = s /\ \A v \in Blk!Workers : v # w => f[v] = wpc[v]
  BY <1>1 DEF BlkTyped
<1>3. /\ cons_counter'[w] = Blk!Down(cons_counter[w])
      /\ \A v \in Blk!Workers : v # w => cons_counter'[v] = cons_counter[v]
      /\ cons_counter' \in [Blk!Workers -> 0 .. Modulus - 1]
  <2>1. cons_counter \in [Blk!Workers -> 0 .. Modulus - 1] /\ Blk!Down(cons_counter[w]) \in 0 .. Modulus - 1
    BY EdgeTyped DEF BlkTyped
  <2> QED
    BY <2>1
<1>4. Load' = Load
  <2>1. Popped(f) = Popped(wpc)
    BY <1>2 DEF Popped
  <2> QED
    BY <1>1, <2>1, LoadNext DEF Load
<1>5. ASSUME NEW v \in Blk!Workers PROVE cons_counter'[v] = Wrap(Due(v)')
  <2>1. Due(v)' = Len(q[v]) + Blk!One(f[v] \in {"popdone", "dec"}) - Blk!One(epc \in Sends /\ nextw = v)
    BY <1>1, DueNext
  <2>2. CASE v = w
    <3>1. Blk!One(f[w] \in {"popdone", "dec"}) = 0 /\ Blk!One(wpc[w] \in {"popdone", "dec"}) = 1
      BY <1>2 DEF Blk!One
    <3>2. Len(q[w]) \in Nat /\ Blk!One(epc \in Sends /\ nextw = w) \in 0 .. 1 /\ Due(w) \in -1 .. Most
      BY DueBounds DEF Blk!One
    <3>3. Due(w) = Len(q[w]) + 1 - Blk!One(epc \in Sends /\ nextw = w)
      BY <3>1 DEF Due
    <3>4. Due(w)' = Due(w) - 1 /\ Due(w) >= 0
      BY <2>1, <2>2, <3>1, <3>2, <3>3
    <3>5. Blk!Down(Wrap(Due(w))) = Wrap(Due(w) - 1)
      BY <3>2, <3>4, Wraps
    <3> QED
      BY <1>3, <2>2, <3>4, <3>5 DEF BlkCounts
  <2>3. CASE v # w
    <3>1. Due(v)' = Due(v)
      BY <1>2, <2>1, <2>3 DEF Due
    <3> QED
      BY <1>3, <2>3, <3>1 DEF BlkCounts
  <2> QED
    BY <2>2, <2>3
<1>6. BlkCounts'
  <2>2. Blk!One(epc \in Busy)' = Blk!One(epc \in Busy)
    BY DEF Blk!One
  <2>3. prod_counter' = Wrap(Load' - Blk!One(epc \in Busy)')
    BY <1>4, <2>2 DEF BlkCounts
  <2> QED
    BY <1>5, <2>3, Zenon DEF BlkCounts, Wrap
<1>7. BlkSleep'
  <2>1. ASSUME NEW v \in Blk!Workers, wpc'[v] = "asleep"
        PROVE  Len(q'[v]) = Blk!One(epc' \in Sends /\ nextw' = v)
    <3>1. wpc[v] = "asleep"
      BY <1>1, <1>2, <2>1
    <3> QED
      BY <3>1 DEF BlkSleep
  <2>2. epc' \in {"asleep", "basleep"} => Load' >= Size
    BY <1>4 DEF BlkSleep
  <2> QED
    BY <2>1, <2>2, Zenon DEF BlkSleep, Blk!One
<1> QED
  BY <1>3, <1>6, <1>7

-----------------------------------------------------------------------------
(* What is in the channels and with the workers. *)

Dealt == NTasks - left + Blk!One(epc \in {"signal", "count"})

BlkPhases ==
  /\ epc \in {"signal", "count"} => left > 0 /\ cnt = 0
  /\ epc \in {"bfull", "basleep"} => retry # <<>>
  /\ left > 0 => retry = <<>>
  /\ \A i \in 1 .. Len(retry) : retry[i] < cnt
  /\ \A i, j \in 1 .. Len(retry) : retry[i] = retry[j] => i = j
  /\ epc = "done" => left = 0 /\ cnt = Running /\ retry = <<>>

\* broadcast_task has come by worker w and found room.
EosSent(w) == left = 0 /\ w < cnt /\ \A i \in 1 .. Len(retry) : retry[i] # w

\* The end of the stream is the last thing a worker gets, once, and it leaves with it.
BlkEos ==
  ~Ordered => \A w \in Blk!Workers :
    /\ Closes(q[w]) /\ Closes(got[w])
    /\ EosSent(w) <=> Has(q[w]) \/ Has(got[w])
    /\ Has(got[w]) => q[w] = <<>>
    /\ wpc[w] = "done" => Has(got[w])
    /\ wpc[w] \in {"pop", "empty", "asleep"} => ~Has(got[w])
    /\ wpc[w] \in {"popdone", "dec"} => got[w] # <<>>

\* The i-th task of worker w when they are dealt in turn.
Turn(w, i) == NTasks - (w + (i - 1) * Running)

BlkTurn ==
  Ordered => \A w \in Blk!Workers :
    /\ \A i \in 1 .. Len(got[w]) : got[w][i] # 0 => got[w][i] = Turn(w, i)
    /\ \A i \in 1 .. Len(q[w]) : q[w][i] # 0 => q[w][i] = Turn(w, Len(got[w]) + i)
    /\ left > 0 => NTasks - Turn(w, Len(got[w]) + Len(q[w]) + 1) \in Dealt .. Dealt + Running - 1

\* Tasks in the order in which they are sent.
Face(x) == IF x = 0 THEN 0 ELSE NTasks + 1 - x
Flip(s) == [i \in 1 .. Len(s) |-> Face(s[i])]
Places(c, g) ==
  [k \in {"q", "got"} \X Blk!Workers |-> Flip(IF k[1] = "q" THEN c[k[2]] ELSE g[k[2]])]

BlkWhole == ~Ordered => Whole(Places(q, got), Dealt)

BlkIInv == BlkTyped /\ prod_counter \in 0 .. Modulus - 1 /\ BlkPhases
           /\ BlkCounts /\ BlkSleep /\ BlkEos /\ BlkTurn /\ BlkWhole

\* What the order of sending does to both ends of a channel.
LEMMA FlipEnds ==
  ASSUME Blk!SizeAssumption, NEW s \in Seq(0 .. NTasks), NEW x \in 0 .. NTasks
  PROVE  /\ Flip(s) \in Seq(Nat) /\ Len(Flip(s)) = Len(s)
         /\ Face(x) \in Nat /\ (Face(x) = 0 <=> x = 0)
         /\ Flip(Append(s, x)) = Append(Flip(s), Face(x))
         /\ s # <<>> => /\ Flip(s) # <<>> /\ Head(Flip(s)) = Face(Head(s))
                        /\ Flip(Tail(s)) = Tail(Flip(s))
<1>0. NTasks \in Nat
  BY BlkConstants
<1>1. \A y \in 0 .. NTasks : Face(y) \in Nat /\ (Face(y) = 0 <=> y = 0)
  BY <1>0 DEF Face
<1>2. Len(s) \in Nat /\ \A i \in 1 .. Len(s) : s[i] \in 0 .. NTasks
  <2> DEFINE S == 0 .. NTasks
  <2>1. s \in Seq(S)
    OBVIOUS
  <2> HIDE DEF S
  <2>2. Len(s) \in Nat /\ \A i \in 1 .. Len(s) : s[i] \in S
    BY <2>1
  <2> QED
    BY <2>2 DEF S
<1>3. Flip(s) \in Seq(Nat) /\ Len(Flip(s)) = Len(s) /\ \A i \in 1 .. Len(s) : Flip(s)[i] = Face(s[i])
  BY <1>1, <1>2 DEF Flip
<1>4. Flip(Append(s, x)) = Append(Flip(s), Face(x))
  <2> DEFINE e == Append(s, x)
             g == Append(Flip(s), Face(x))
  <2>1. e \in Seq(0 .. NTasks) /\ Len(e) = Len(s) + 1 /\ e[Len(s) + 1] = x
        /\ \A i \in 1 .. Len(s) : e[i] = s[i]
    OBVIOUS
  <2>2. g \in Seq(Nat) /\ Len(g) = Len(s) + 1 /\ g[Len(s) + 1] = Face(x)
        /\ \A i \in 1 .. Len(s) : g[i] = Face(s[i])
    BY <1>1, <1>3
  <2>3. \A i \in 1 .. Len(s) + 1 : g[i] = Face(e[i])
    <3> SUFFICES ASSUME NEW i \in 1 .. Len(s) + 1 PROVE g[i] = Face(e[i])
      OBVIOUS
    <3>1. i \in 1 .. Len(s) \/ i = Len(s) + 1
      BY <1>2
    <3> HIDE DEF e, g
    <3> QED
      BY <3>1, <2>1, <2>2
  <2> HIDE DEF e, g
  <2>4. g = [i \in 1 .. Len(s) + 1 |-> g[i]]
    BY <2>2
  <2>5. Flip(e) = [i \in 1 .. Len(s) + 1 |-> Face(e[i])]
    BY <2>1 DEF Flip
  <2>6. [i \in 1 .. Len(s) + 1 |-> Face(e[i])] = [i \in 1 .. Len(s) + 1 |-> g[i]]
    BY <2>3
  <2> QED
    BY <2>4, <2>5, <2>6 DEF e, g
<1>5. ASSUME s # <<>>
      PROVE  /\ Flip(s) # <<>> /\ Head(Flip(s)) = Face(Head(s))
             /\ Flip(Tail(s)) = Tail(Flip(s))
  <2> DEFINE e == Tail(s)
             g == Tail(Flip(s))
             m == Len(s) - 1
  <2>1. Len(s) > 0 /\ m \in Nat /\ m + 1 = Len(s)
    BY <1>2, <1>5
  <2>2. e \in Seq(0 .. NTasks) /\ Len(e) = m /\ Head(s) = s[1] /\ \A i \in 1 .. m : e[i] = s[i + 1]
    BY <1>5, <2>1
  <2>3. Flip(s) # <<>>
    BY <1>3, <2>1
  <2>4. g \in Seq(Nat) /\ Len(g) = m /\ Head(Flip(s)) = Flip(s)[1] /\ \A i \in 1 .. m : g[i] = Flip(s)[i + 1]
    BY <1>3, <2>1, <2>3
  <2>5. Flip(s)[1] = Face(s[1])
    BY <1>3, <2>1
  <2> HIDE DEF e, g, m
  <2>6. \A i \in 1 .. m : g[i] = Face(e[i])
    <3> SUFFICES ASSUME NEW i \in 1 .. m PROVE g[i] = Face(e[i])
      OBVIOUS
    <3>1. i + 1 \in 1 .. Len(s)
      BY <2>1
    <3> QED
      BY <3>1, <1>3, <2>2, <2>4
  <2>7. g = [i \in 1 .. m |-> g[i]]
    BY <2>4
  <2>8. Flip(e) = [i \in 1 .. m |-> Face(e[i])]
    BY <2>2 DEF Flip
  <2>9. [i \in 1 .. m |-> Face(e[i])] = [i \in 1 .. m |-> g[i]]
    BY <2>6
  <2> QED
    BY <2>2, <2>3, <2>4, <2>5, <2>7, <2>8, <2>9 DEF e, g
<1> QED
  BY <1>1, <1>3, <1>4, <1>5

\* Turns are a round apart, and of different workers never the same.
LEMMA Turns ==
  ASSUME Blk!SizeAssumption, NEW w \in Blk!Workers, NEW i \in Int
  PROVE  /\ Turn(w, i) \in Int /\ Turn(w, i + 1) = Turn(w, i) - Running
         /\ (NTasks - Turn(w, i)) % Running = w
         /\ w \in Int
<1>1. Running \in Nat \ {0} /\ NTasks \in Nat /\ w \in 0 .. Running - 1
  BY BlkConstants
<1> DEFINE k == (i - 1) * Running
<1>2. k \in Int /\ (i + 1 - 1) * Running = k + Running
  BY <1>1
<1>3. (w + k) % Running = w
  <2> DEFINE x == w + k
             d == x \div Running
             r == x % Running
  <2>1. x \in Int
    BY <1>1, <1>2
  <2>2. d \in Int /\ r \in 0 .. Running - 1 /\ x = Running * d + r
    BY <1>1, <2>1
  <2>3. (i - 1 - d) * Running = r - w
    <3>1. \A a, b \in Int : (a - b) * Running = a * Running - b * Running /\ Running * b = b * Running
      BY <1>1
    <3>2. i - 1 \in Int
      OBVIOUS
    <3> HIDE DEF d, r
    <3>3. (i - 1 - d) * Running = k - Running * d
      BY <2>2, <3>1, <3>2
    <3> HIDE DEF k
    <3>4. \A a, b \in Int : w + a = b + r => a - b = r - w
      BY <1>1, <2>2
    <3>5. Running * d \in Int
      BY <1>1, <2>2
    <3> QED
      BY <1>2, <2>2, <3>3, <3>4, <3>5
  <2>4. r - w < Running /\ r - w > -Running
    BY <1>1, <2>2
  <2>5. i - 1 - d = 0
    <3> DEFINE a == i - 1 - d
    <3>1. a \in Int /\ a * Running < Running /\ a * Running > -Running
      BY <2>2, <2>3, <2>4
    <3> HIDE DEF a
    <3>2. a >= 1 => a * Running >= Running
      BY <3>1, <1>1
    <3>3. a <= -1 => a * Running <= -Running
      BY <3>1, <1>1
    <3>4. a = 0
      BY <3>1, <3>2, <3>3, <1>1
    <3> QED
      BY <3>4 DEF a
  <2> QED
    BY <1>1, <2>2, <2>3, <2>5
<1>4. w \in Int /\ NTasks - (NTasks - (w + k)) = w + k
  BY <1>1, <1>2
<1> HIDE DEF k
<1>5. Turn(w, i) = NTasks - (w + k) /\ Turn(w, i + 1) = NTasks - (w + (k + Running))
  BY <1>2 DEF Turn, k
<1> QED
  BY <1>1, <1>2, <1>3, <1>4, <1>5

\* In a round no worker has two turns.
LEMMA TurnApart ==
  ASSUME Blk!SizeAssumption, NEW a \in Nat, NEW b \in a .. a + Running - 1,
         b % Running = a % Running
  PROVE  b = a
<1>1. Running \in Nat \ {0} /\ a \in Int /\ b \in Int
  BY BlkConstants
<1> DEFINE c == a \div Running
           d == b \div Running
           r == a % Running
<1>2. /\ c \in Int /\ d \in Int /\ r \in 0 .. Running - 1
      /\ a = Running * c + r /\ b = Running * d + r
  BY <1>1
<1>3. \A x, y \in Int : Running * x - Running * y = Running * (x - y)
  BY <1>1
<1> HIDE DEF c, d, r
<1>4. Running * (d - c) = b - a
  <2>1. Running * d - Running * c = Running * (d - c) /\ Running * d \in Int /\ Running * c \in Int
    BY <1>1, <1>2, <1>3
  <2>2. \A x, y \in Int : a = x + r /\ b = y + r => y - x = b - a
    BY <1>2
  <2> QED
    BY <1>2, <2>1, <2>2
<1>5. d - c = 0
  <2> DEFINE x == d - c
  <2>1. x \in Int /\ Running * x = b - a
    BY <1>2, <1>4
  <2> HIDE DEF x
  <2>2. b - a \in Int /\ b - a < Running /\ b - a >= 0
    BY <1>1
  <2>3. x >= 1 => Running * x >= Running
    BY <1>1, <2>1
  <2>4. x <= -1 => Running * x <= -Running
    BY <1>1, <2>1
  <2>5. x = 0
    BY <1>1, <2>1, <2>2, <2>3, <2>4
  <2> QED
    BY <2>5 DEF x
<1> QED
  BY <1>2, <1>5

\* The places are the channels and what the workers got.
LEMMA PlacesAre ==
  ASSUME NEW c, NEW g, NEW w \in Blk!Workers
  PROVE  /\ Places(c, g)[<<"q", w>>] = Flip(c[w]) /\ Places(c, g)[<<"got", w>>] = Flip(g[w])
         /\ <<"q", w>> \in DOMAIN Places(c, g) /\ <<"got", w>> \in DOMAIN Places(c, g)
BY DEF Places

\* They are the same whatever they hold.
LEMMA PlacesSame ==
  ASSUME NEW c, NEW g, NEW d, NEW h
  PROVE  /\ DOMAIN Places(c, g) = DOMAIN Places(d, h)
         /\ \A k \in DOMAIN Places(c, g) :
              \E w \in Blk!Workers : k = <<"q", w>> \/ k = <<"got", w>>
BY DEF Places

\* What is in a channel.
LEMMA ChannelTyped ==
  ASSUME Blk!SizeAssumption, BlkTyped, NEW w \in Blk!Workers
  PROVE  /\ q[w] \in Seq(0 .. NTasks) /\ got[w] \in Seq(0 .. NTasks)
         /\ q[w] \in Seq(Nat) /\ got[w] \in Seq(Nat)
         /\ Len(q[w]) \in Nat /\ Len(got[w]) \in Nat
<1> DEFINE S == 0 .. NTasks
<1>1. q[w] \in Seq(S) /\ got[w] \in Seq(S)
  BY DEF BlkTyped
<1>2. S \subseteq Nat
  BY BlkConstants
<1> HIDE DEF S
<1>3. ASSUME NEW s \in Seq(S) PROVE s \in Seq(Nat)
  <2>1. Len(s) \in Nat /\ s = [i \in 1 .. Len(s) |-> s[i]] /\ \A i \in 1 .. Len(s) : s[i] \in S
    OBVIOUS
  <2>2. \A i \in 1 .. Len(s) : s[i] \in Nat
    BY <1>2, <2>1
  <2> QED
    BY <2>1, <2>2
<1>4. Len(q[w]) \in Nat /\ Len(got[w]) \in Nat
  BY <1>1, <1>3
<1> QED
  BY <1>1, <1>3, <1>4 DEF S

\* What the invariant is in the next state.
LEMMA TurnNext ==
  ASSUME NEW n, NEW m, Dealt' = n, left' = m,
         Ordered => \A w \in Blk!Workers :
           /\ \A i \in 1 .. Len(got'[w]) : got'[w][i] # 0 => got'[w][i] = Turn(w, i)
           /\ \A i \in 1 .. Len(q'[w]) : q'[w][i] # 0 => q'[w][i] = Turn(w, Len(got'[w]) + i)
           /\ m > 0 => NTasks - Turn(w, Len(got'[w]) + Len(q'[w]) + 1) \in n .. n + Running - 1
  PROVE  BlkTurn'
BY Zenon DEF BlkTurn, Turn

\* The same for the tasks dealt.
LEMMA WholeNext ==
  ASSUME NEW c, NEW g, NEW n, q' = c, got' = g, Dealt' = n, ~Ordered => Whole(Places(c, g), n)
  PROVE  BlkWhole'
<1>1. Whole(Places(q, got), Dealt)' <=> Whole(Places(q', got'), Dealt')
  BY Zenon DEF Whole, Queues, Bounded, Apart, Found, Places, Flip, Face
<1>2. Whole(Places(q', got'), Dealt') <=> Whole(Places(c, g), n)
  BY Zenon
<1> QED
  BY <1>1, <1>2, Zenon DEF BlkWhole

\* Steps that move nothing.
LEMMA QuietKeeps ==
  ASSUME BlkEos, BlkTurn, BlkWhole, UNCHANGED <<q, got>>, Dealt' = Dealt, left' > 0 => left > 0,
         \A w \in Blk!Workers : EosSent(w)' <=> EosSent(w),
         \A w \in Blk!Workers :
           \/ wpc'[w] = wpc[w]
           \/ wpc[w] \in {"pop", "empty", "asleep"} /\ wpc'[w] \in {"pop", "empty", "asleep"}
           \/ wpc[w] = "popdone" /\ wpc'[w] = "dec"
  PROVE  BlkEos' /\ BlkTurn' /\ BlkWhole'
<1>1. BlkEos'
  <2> SUFFICES ASSUME ~Ordered, NEW w \in Blk!Workers
               PROVE  /\ Closes(q[w]) /\ Closes(got[w])
                      /\ EosSent(w)' <=> Has(q[w]) \/ Has(got[w])
                      /\ Has(got[w]) => q[w] = <<>>
                      /\ wpc'[w] = "done" => Has(got[w])
                      /\ wpc'[w] \in {"pop", "empty", "asleep"} => ~Has(got[w])
                      /\ wpc'[w] \in {"popdone", "dec"} => got[w] # <<>>
    BY DEF BlkEos, Closes, Has
  <2>1. /\ Closes(q[w]) /\ Closes(got[w])
        /\ EosSent(w) <=> Has(q[w]) \/ Has(got[w])
        /\ Has(got[w]) => q[w] = <<>>
        /\ wpc[w] = "done" => Has(got[w])
        /\ wpc[w] \in {"pop", "empty", "asleep"} => ~Has(got[w])
        /\ wpc[w] \in {"popdone", "dec"} => got[w] # <<>>
    BY DEF BlkEos
  <2>2. EosSent(w)' <=> EosSent(w)
    OBVIOUS
  <2>3. /\ wpc'[w] = "done" => Has(got[w])
        /\ wpc'[w] \in {"pop", "empty", "asleep"} => ~Has(got[w])
        /\ wpc'[w] \in {"popdone", "dec"} => got[w] # <<>>
    <3>1. CASE wpc'[w] = wpc[w]
      BY <2>1, <3>1
    <3>2. CASE wpc[w] \in {"pop", "empty", "asleep"} /\ wpc'[w] \in {"pop", "empty", "asleep"}
      BY <2>1, <3>2
    <3>3. CASE wpc[w] = "popdone" /\ wpc'[w] = "dec"
      BY <2>1, <3>3
    <3> QED
      BY <3>1, <3>2, <3>3
  <2> QED
    BY <2>1, <2>2, <2>3, Zenon
<1>2. BlkTurn'
  <2>0. PICK m : m = left'
    OBVIOUS
  <2>1. Dealt' = Dealt /\ left' = m /\ (m > 0 => left > 0) /\ q' = q /\ got' = got
    BY <2>0
  <2>2. Ordered => \A w \in Blk!Workers :
          /\ \A i \in 1 .. Len(got'[w]) : got'[w][i] # 0 => got'[w][i] = Turn(w, i)
          /\ \A i \in 1 .. Len(q'[w]) : q'[w][i] # 0 => q'[w][i] = Turn(w, Len(got'[w]) + i)
          /\ m > 0 => NTasks - Turn(w, Len(got'[w]) + Len(q'[w]) + 1)
                        \in Dealt .. Dealt + Running - 1
    BY <2>1 DEF BlkTurn
  <2> QED
    BY <2>1, <2>2, TurnNext
<1>3. BlkWhole'
  <2>1. Whole(Places(q, got), Dealt)' <=> Whole(Places(q', got'), Dealt')
    BY Zenon DEF Whole, Queues, Bounded, Apart, Found, Places, Flip, Face
  <2>2. Whole(Places(q', got'), Dealt') <=> Whole(Places(q, got), Dealt)
    <3>1. q' = q /\ got' = got /\ Dealt' = Dealt
      OBVIOUS
    <3> QED
      BY <3>1, Zenon
  <2> QED
    BY <2>1, <2>2, Zenon DEF BlkWhole
<1> QED
  BY <1>1, <1>2, <1>3

\* A task is put into the channel of worker w.
LEMMA TaskPut ==
  ASSUME Blk!SizeAssumption, BlkTyped, BlkEos, BlkTurn, BlkWhole, NEW w \in Blk!Workers,
         Ordered => w = Blk!victim,
         epc = "select", epc' = "signal", left > 0,
         q' = [q EXCEPT ![w] = Append(q[w], left)], UNCHANGED <<got, left, wpc>>
  PROVE  BlkEos' /\ BlkTurn' /\ BlkWhole'
<1>0. /\ q \in [Blk!Workers -> Seq(0 .. NTasks)] /\ left \in 0 .. NTasks /\ left \in Nat
      /\ NTasks \in Nat /\ NTasks - left \in Nat
  <2>1. q \in [Blk!Workers -> Seq(0 .. NTasks)] /\ left \in 0 .. NTasks
    BY DEF BlkTyped
  <2>2. NTasks \in Nat
    BY BlkConstants
  <2> QED
    BY <2>1, <2>2
<1>a. /\ q[w] \in Seq(0 .. NTasks) /\ q[w] \in Seq(Nat) /\ left \in Nat
      /\ Len(got[w]) \in Nat /\ Len(q[w]) \in Nat
  BY <1>0, ChannelTyped
<1>1. PICK d : d = q'
  OBVIOUS
<1>b. \A x, y \in Nat : y + (x + 1) = y + x + 1 /\ y + (x + 1) + 1 = (y + x + 1) + 1 /\ y + x + 1 \in Int
  OBVIOUS
<1>2. d[w] = Append(q[w], left) /\ \A v \in Blk!Workers : v # w => d[v] = q[v]
  BY <1>0, <1>1
<1>3. /\ Len(q[w]) \in Nat /\ Len(d[w]) = Len(q[w]) + 1 /\ d[w][Len(q[w]) + 1] = left
      /\ \A i \in 1 .. Len(q[w]) : d[w][i] = q[w][i]
  BY <1>a, <1>2, Ends
<1>4. Dealt = NTasks - left /\ Dealt' = NTasks - left + 1
  <2>1. Blk!One(epc \in {"signal", "count"}) = 0 /\ Blk!One(epc' \in {"signal", "count"}) = 1
    BY DEF Blk!One
  <2>2. Dealt' = NTasks - left' + Blk!One(epc' \in {"signal", "count"})
    BY Zenon DEF Dealt, Blk!One
  <2> QED
    BY <1>0, <2>1, <2>2 DEF Dealt
<1>5. BlkEos'
  <2> SUFFICES ASSUME ~Ordered, NEW v \in Blk!Workers
               PROVE  /\ Closes(d[v]) /\ Closes(got[v])
                      /\ EosSent(v)' <=> Has(d[v]) \/ Has(got[v])
                      /\ Has(got[v]) => d[v] = <<>>
                      /\ wpc[v] = "done" => Has(got[v])
                      /\ wpc[v] \in {"pop", "empty", "asleep"} => ~Has(got[v])
                      /\ wpc[v] \in {"popdone", "dec"} => got[v] # <<>>
    BY <1>1 DEF BlkEos, Closes, Has
  <2>1. ~EosSent(v) /\ ~(EosSent(v)')
    BY <1>0 DEF EosSent
  <2>2. /\ Closes(q[v]) /\ Closes(got[v]) /\ ~Has(q[v]) /\ ~Has(got[v])
        /\ wpc[v] # "done"
        /\ wpc[v] \in {"popdone", "dec"} => got[v] # <<>>
    BY <2>1 DEF BlkEos
  <2>3. Closes(d[v]) /\ ~Has(d[v])
    <3>1. CASE v = w
      <4>1. left # 0 /\ q[w] \in Seq(Nat)
        BY <1>0
      <4> QED
        BY <3>1, <4>1, <1>a, <1>2, <2>2, EndsMoved
    <3>2. CASE v # w
      BY <3>2, <1>2, <2>2
    <3> QED
      BY <3>1, <3>2
  <2> QED
    BY <2>1, <2>2, <2>3
<1>6. BlkTurn'
  <2> DEFINE l(v) == NTasks - Turn(v, Len(got[v]) + Len(q[v]) + 1)
             k(v) == NTasks - Turn(v, Len(got[v]) + Len(d[v]) + 1)
  <2> SUFFICES ASSUME Ordered, NEW v \in Blk!Workers
               PROVE  /\ \A i \in 1 .. Len(got[v]) : got[v][i] # 0 => got[v][i] = Turn(v, i)
                      /\ \A i \in 1 .. Len(d[v]) : d[v][i] # 0 => d[v][i] = Turn(v, Len(got[v]) + i)
                      /\ k(v) \in NTasks - left + 1 .. NTasks - left + 1 + Running - 1
    <3>1. Ordered => \A v \in Blk!Workers :
            /\ \A i \in 1 .. Len(got'[v]) : got'[v][i] # 0 => got'[v][i] = Turn(v, i)
            /\ \A i \in 1 .. Len(q'[v]) : q'[v][i] # 0 => q'[v][i] = Turn(v, Len(got'[v]) + i)
            /\ left > 0 => NTasks - Turn(v, Len(got'[v]) + Len(q'[v]) + 1)
                             \in NTasks - left + 1 .. NTasks - left + 1 + Running - 1
      <4>1. q' = d /\ got' = got
        BY <1>1
      <4> QED
        BY <4>1
    <3>2. left' = left /\ Dealt' = NTasks - left + 1
      BY <1>4
    <3> HIDE DEF k, l
    <3> QED
      BY <3>1, <3>2, TurnNext
  <2>1. \A u \in Blk!Workers : Len(got[u]) \in Nat /\ Len(q[u]) \in Nat
    BY ChannelTyped
  <2>2. \A u \in Blk!Workers :
          /\ l(u) \in Dealt .. Dealt + Running - 1
          /\ \A i \in 1 .. Len(q[u]) : q[u][i] # 0 => q[u][i] = Turn(u, Len(got[u]) + i)
          /\ \A i \in 1 .. Len(got[u]) : got[u][i] # 0 => got[u][i] = Turn(u, i)
    BY DEF BlkTurn
  <2>3. \A u \in Blk!Workers : l(u) % Running = u /\ l(u) \in Int
    <3> SUFFICES ASSUME NEW u \in Blk!Workers PROVE l(u) % Running = u /\ l(u) \in Int
      OBVIOUS
    <3>1. Len(got[u]) + Len(q[u]) + 1 \in Int
      BY <2>1
    <3>2. Turn(u, Len(got[u]) + Len(q[u]) + 1) \in Int
          /\ (NTasks - Turn(u, Len(got[u]) + Len(q[u]) + 1)) % Running = u
      BY <3>1, Turns
    <3> QED
      BY <3>2, <1>0
  <2> HIDE DEF l
  <2>4. Dealt \in Nat /\ Dealt' = Dealt + 1 /\ Running \in Nat \ {0} /\ w = Dealt % Running
    BY <1>0, <1>4, BlkConstants DEF Blk!victim
  <2>5. l(w) = Dealt
    BY <2>2, <2>3, <2>4, TurnApart
  <2>6. \A i \in 1 .. Len(d[v]) : d[v][i] # 0 => d[v][i] = Turn(v, Len(got[v]) + i)
    <3>1. CASE v = w
      <4>1. Turn(w, Len(got[w]) + Len(q[w]) + 1) = left
        <5>1. Turn(w, Len(got[w]) + Len(q[w]) + 1) \in Int
          <6>1. Len(got[w]) + Len(q[w]) + 1 \in Int
            BY <2>1
          <6> QED
            BY <6>1, Turns
        <5>2. NTasks - Turn(w, Len(got[w]) + Len(q[w]) + 1) = NTasks - left
          BY <2>5, <1>4 DEF l
        <5> QED
          BY <5>1, <5>2, <1>0
      <4>2. ASSUME NEW i \in 1 .. Len(d[w]), d[w][i] # 0
            PROVE  d[w][i] = Turn(w, Len(got[w]) + i)
        <5>1. CASE i = Len(q[w]) + 1
          <6>1. Len(got[w]) + i = Len(got[w]) + Len(q[w]) + 1
            BY <5>1, <1>a, <1>b, Zenon
          <6> QED
            BY <5>1, <6>1, <4>1, <1>3
        <5>2. CASE i # Len(q[w]) + 1
          <6>1. i \in 1 .. Len(q[w])
            BY <5>2, <1>3
          <6> QED
            BY <6>1, <4>2, <1>3, <2>2
        <5> QED
          BY <5>1, <5>2
      <4> QED
        BY <3>1, <4>2
    <3>2. CASE v # w
      BY <3>2, <1>2, <2>2
    <3> QED
      BY <3>1, <3>2
  <2>7. k(v) \in Dealt + 1 .. Dealt + 1 + Running - 1
    <3>1. CASE v = w
      <4>1. Len(got[w]) + Len(d[w]) + 1 = (Len(got[w]) + Len(q[w]) + 1) + 1
            /\ Len(got[w]) + Len(q[w]) + 1 \in Int
        <5>1. Len(d[w]) = Len(q[w]) + 1
          BY <1>3
        <5>2. Len(got[w]) + (Len(q[w]) + 1) + 1 = (Len(got[w]) + Len(q[w]) + 1) + 1
              /\ Len(got[w]) + Len(q[w]) + 1 \in Int
          BY <1>a, <1>b, ZenonT(30)
        <5> QED
          BY <5>1, <5>2, ZenonT(30)
      <4>2. Turn(w, Len(got[w]) + Len(d[w]) + 1) = Turn(w, Len(got[w]) + Len(q[w]) + 1) - Running
            /\ Turn(w, Len(got[w]) + Len(q[w]) + 1) \in Int
        BY <4>1, Turns
      <4>3. k(w) = l(w) + Running
        <5>1. \A x \in Int : NTasks - (x - Running) = NTasks - x + Running
          BY <2>4, <1>0
        <5> QED
          BY <4>2, <5>1 DEF l
      <4> HIDE DEF k
      <4> QED
        BY <3>1, <4>3, <2>4, <2>5
    <3>2. CASE v # w
      <4>1. k(v) = l(v)
        BY <3>2, <1>2 DEF l
      <4>2. l(v) # Dealt
        BY <3>2, <2>3, <2>4
      <4>3. l(v) \in Dealt .. Dealt + Running - 1 /\ l(v) \in Int
        BY <2>2, <2>3
      <4> HIDE DEF k
      <4> QED
        BY <4>1, <4>2, <4>3, <2>4
    <3> QED
      BY <3>1, <3>2
  <2>8. k(v) \in NTasks - left + 1 .. NTasks - left + 1 + Running - 1
    BY <1>4, <2>7, Zenon
  <2> QED
    BY <2>2, <2>6, <2>8
<1>7. BlkWhole'
  <2> SUFFICES ASSUME ~Ordered PROVE Whole(Places(d, got), NTasks - left + 1)
    BY <1>1, <1>4, WholeNext
  <2>1. Whole(Places(q, got), NTasks - left)
    BY <1>4 DEF BlkWhole
  <2> DEFINE c == Places(q, got)
             e == Places(d, got)
             k == <<"q", w>>
  <2>2. Face(left) = NTasks - left + 1
    BY <1>0 DEF Face
  <2>3. Flip(d[w]) = Append(Flip(q[w]), NTasks - left + 1)
    BY <1>0, <1>a, <1>2, <2>2, FlipEnds
  <2>4. k \in DOMAIN c /\ DOMAIN e = DOMAIN c /\ e[k] = Append(c[k], NTasks - left + 1)
    <3>1. c[k] = Flip(q[w]) /\ e[k] = Flip(d[w]) /\ k \in DOMAIN c
      BY PlacesAre, Zenon
    <3>2. DOMAIN e = DOMAIN c
      BY PlacesSame, Zenon
    <3> QED
      BY <2>3, <3>1, <3>2, Zenon
  <2>5. \A x \in DOMAIN c : x # k => e[x] = c[x]
    <3> SUFFICES ASSUME NEW x \in DOMAIN c, x # k PROVE e[x] = c[x]
      OBVIOUS
    <3>1. PICK v \in Blk!Workers : x = <<"q", v>> \/ x = <<"got", v>>
      BY PlacesSame
    <3>2. CASE x = <<"q", v>>
      <4>1. d[v] = q[v]
        BY <3>2, <1>2
      <4>2. c[x] = Flip(q[v]) /\ e[x] = Flip(d[v])
        BY <3>2, PlacesAre, Zenon
      <4> QED
        BY <4>1, <4>2, Zenon
    <3>3. CASE x = <<"got", v>>
      <4>1. Places(q, got)[<<"got", v>>] = Flip(got[v])
        BY Zenon DEF Places
      <4>2. Places(d, got)[<<"got", v>>] = Flip(got[v])
        BY Zenon DEF Places
      <4> QED
        BY <3>3, <4>1, <4>2, Zenon
    <3> QED
      BY <3>1, <3>2, <3>3
  <2> HIDE DEF c, e, k
  <2>6. Whole(c, NTasks - left)
    BY <2>1 DEF c
  <2> QED
    BY <1>0, <2>4, <2>5, <2>6, WholeAdded DEF e
<1> QED
  BY <1>5, <1>6, <1>7

\* The end of the stream is put into the channel of worker w.
LEMMA EosPut ==
  ASSUME Blk!SizeAssumption, BlkTyped, BlkEos, BlkTurn, BlkWhole, NEW w \in Blk!Workers,
         epc = "select", epc' = "bsignal", left = 0,
         q' = [q EXCEPT ![w] = Append(q[w], 0)], UNCHANGED <<got, left, wpc>>,
         ~Ordered => /\ ~EosSent(w)
                     /\ \A v \in Blk!Workers : EosSent(v)' <=> EosSent(v) \/ v = w
  PROVE  BlkEos' /\ BlkTurn' /\ BlkWhole'
<1>0. NTasks \in Nat /\ 0 \in 0 .. NTasks /\ q \in [Blk!Workers -> Seq(0 .. NTasks)]
  <2>1. q \in [Blk!Workers -> Seq(0 .. NTasks)]
    BY DEF BlkTyped
  <2>2. NTasks \in Nat
    BY BlkConstants
  <2> QED
    BY <2>1, <2>2
<1>a. /\ q[w] \in Seq(0 .. NTasks) /\ q[w] \in Seq(Nat) /\ Len(got[w]) \in Nat /\ Len(q[w]) \in Nat
  BY ChannelTyped
<1>1. PICK d : d = q'
  OBVIOUS
<1>2. d[w] = Append(q[w], 0) /\ \A v \in Blk!Workers : v # w => d[v] = q[v]
  BY <1>0, <1>1
<1>3. /\ Len(d[w]) = Len(q[w]) + 1 /\ d[w][Len(q[w]) + 1] = 0
      /\ \A i \in 1 .. Len(q[w]) : d[w][i] = q[w][i]
  BY <1>a, <1>2, Ends
<1>4. Dealt' = NTasks /\ Dealt = NTasks
  <2>1. Blk!One(epc \in {"signal", "count"}) = 0 /\ Blk!One(epc' \in {"signal", "count"}) = 0
    BY DEF Blk!One
  <2>2. Dealt' = NTasks - left' + Blk!One(epc' \in {"signal", "count"})
    BY Zenon DEF Dealt, Blk!One
  <2> QED
    BY <1>0, <2>1, <2>2 DEF Dealt
<1>5. BlkEos'
  <2> SUFFICES ASSUME ~Ordered, NEW v \in Blk!Workers
               PROVE  /\ Closes(d[v]) /\ Closes(got[v])
                      /\ EosSent(v)' <=> Has(d[v]) \/ Has(got[v])
                      /\ Has(got[v]) => d[v] = <<>>
                      /\ wpc[v] = "done" => Has(got[v])
                      /\ wpc[v] \in {"pop", "empty", "asleep"} => ~Has(got[v])
                      /\ wpc[v] \in {"popdone", "dec"} => got[v] # <<>>
    BY <1>1 DEF BlkEos, Closes, Has
  <2>1. /\ Closes(q[v]) /\ Closes(got[v]) /\ (EosSent(v) <=> Has(q[v]) \/ Has(got[v]))
        /\ Has(got[v]) => q[v] = <<>>
        /\ wpc[v] = "done" => Has(got[v])
        /\ wpc[v] \in {"pop", "empty", "asleep"} => ~Has(got[v])
        /\ wpc[v] \in {"popdone", "dec"} => got[v] # <<>>
    BY DEF BlkEos
  <2>2. CASE v = w
    <3>1. ~Has(q[v]) /\ ~Has(got[v]) /\ EosSent(v)'
      BY <2>1, <2>2
    <3>2. Closes(d[v]) /\ Has(d[v])
      BY <2>2, <3>1, <1>a, <1>2, EndsMoved
    <3> QED
      BY <2>1, <3>1, <3>2
  <2>3. CASE v # w
    <3>1. d[v] = q[v] /\ (EosSent(v)' <=> EosSent(v))
      BY <2>3, <1>2
    <3> QED
      BY <2>1, <3>1
  <2> QED
    BY <2>2, <2>3
<1>6. BlkTurn'
  <2>1. ASSUME Ordered, NEW v \in Blk!Workers
        PROVE  /\ \A i \in 1 .. Len(got[v]) : got[v][i] # 0 => got[v][i] = Turn(v, i)
               /\ \A i \in 1 .. Len(d[v]) : d[v][i] # 0 => d[v][i] = Turn(v, Len(got[v]) + i)
    <3>1. /\ \A i \in 1 .. Len(got[v]) : got[v][i] # 0 => got[v][i] = Turn(v, i)
          /\ \A i \in 1 .. Len(q[v]) : q[v][i] # 0 => q[v][i] = Turn(v, Len(got[v]) + i)
      BY <2>1 DEF BlkTurn
    <3>2. ASSUME NEW i \in 1 .. Len(d[v]), d[v][i] # 0 PROVE d[v][i] = Turn(v, Len(got[v]) + i)
      <4>1. i \in 1 .. Len(q[v]) /\ d[v][i] = q[v][i]
        <5>1. CASE v = w
          <6>1. i # Len(q[w]) + 1 /\ i \in 1 .. Len(q[w]) + 1
            BY <3>2, <5>1, <1>3
          <6>2. i \in 1 .. Len(q[w])
            BY <6>1, <1>a
          <6> QED
            BY <5>1, <6>2, <1>3
        <5>2. CASE v # w
          BY <5>2, <1>2
        <5> QED
          BY <5>1, <5>2
      <4> QED
        BY <3>1, <3>2, <4>1
    <3> QED
      BY <3>1, <3>2
  <2>2. Ordered => \A v \in Blk!Workers :
          /\ \A i \in 1 .. Len(got'[v]) : got'[v][i] # 0 => got'[v][i] = Turn(v, i)
          /\ \A i \in 1 .. Len(q'[v]) : q'[v][i] # 0 => q'[v][i] = Turn(v, Len(got'[v]) + i)
          /\ 0 > 0 => NTasks - Turn(v, Len(got'[v]) + Len(q'[v]) + 1)
                           \in NTasks .. NTasks + Running - 1
    <3>1. q' = d /\ got' = got /\ ~ (0 > 0)
      BY <1>1
    <3> QED
      BY <2>1, <3>1
  <2>3. left' = 0
    OBVIOUS
  <2> QED
    BY <1>4, <2>2, <2>3, TurnNext
<1>7. BlkWhole'
  <2> SUFFICES ASSUME ~Ordered PROVE Whole(Places(d, got), NTasks)
    BY <1>1, <1>4, WholeNext
  <2>1. Whole(Places(q, got), NTasks)
    BY <1>4 DEF BlkWhole
  <2> DEFINE c == Places(q, got)
             e == Places(d, got)
  <2>2. Flip(d[w]) = Append(Flip(q[w]), 0)
    <3>1. Face(0) = 0
      BY DEF Face
    <3> QED
      BY <1>0, <1>a, <1>2, <3>1, FlipEnds
  <2>3. DOMAIN e = DOMAIN c
    BY PlacesSame, Zenon
  <2>4. \A x \in DOMAIN c : e[x] = c[x] \/ e[x] = Append(c[x], 0)
    <3> SUFFICES ASSUME NEW x \in DOMAIN c PROVE e[x] = c[x] \/ e[x] = Append(c[x], 0)
      OBVIOUS
    <3>1. PICK v \in Blk!Workers : x = <<"q", v>> \/ x = <<"got", v>>
      BY PlacesSame
    <3>2. CASE x = <<"q", v>>
      <4>1. d[v] = q[v] \/ v = w
        BY <1>2
      <4>2. Places(q, got)[<<"q", v>>] = Flip(q[v])
        BY Zenon DEF Places
      <4>3. Places(d, got)[<<"q", v>>] = Flip(d[v])
        BY Zenon DEF Places
      <4> QED
        BY <2>2, <3>2, <4>1, <4>2, <4>3, Zenon
    <3>3. CASE x = <<"got", v>>
      <4>1. /\ Places(q, got)[<<"got", v>>] = Flip(got[v])
            /\ Places(d, got)[<<"got", v>>] = Flip(got[v])
        BY Zenon DEF Places
      <4> QED
        BY <3>3, <4>1, Zenon
    <3> QED
      BY <3>1, <3>2, <3>3
  <2> HIDE DEF c, e
  <2>5. Whole(c, NTasks)
    BY <2>1 DEF c
  <2> QED
    BY <1>0, <2>3, <2>4, <2>5, WholeEos DEF e
<1> QED
  BY <1>5, <1>6, <1>7

\* Worker w takes the first in its channel.
LEMMA PopMoves ==
  ASSUME Blk!SizeAssumption, BlkTyped, BlkEos, BlkTurn, BlkWhole, NEW w \in Blk!Workers,
         wpc[w] = "pop", q[w] # <<>>, q' = [q EXCEPT ![w] = Tail(@)],
         got' = [got EXCEPT ![w] = Append(@, Head(q[w]))],
         wpc' = [wpc EXCEPT ![w] = "popdone"], UNCHANGED <<epc, cnt, left, retry>>
  PROVE  BlkEos' /\ BlkTurn' /\ BlkWhole' /\ got' \in [Blk!Workers -> Seq(0 .. NTasks)]
<1>0. /\ q \in [Blk!Workers -> Seq(0 .. NTasks)] /\ got \in [Blk!Workers -> Seq(0 .. NTasks)]
      /\ wpc \in [Blk!Workers -> {"pop", "popdone", "dec", "empty", "asleep", "done"}]
  BY DEF BlkTyped
<1>a. /\ q[w] \in Seq(0 .. NTasks) /\ q[w] \in Seq(Nat)
      /\ got[w] \in Seq(0 .. NTasks) /\ got[w] \in Seq(Nat)
      /\ Len(got[w]) \in Nat /\ Len(q[w]) \in Nat
  BY ChannelTyped
<1> DEFINE y == Head(q[w])
<1>b. y \in 0 .. NTasks /\ y \in Nat /\ y = q[w][1] /\ Len(q[w]) > 0
  <2> DEFINE S == 0 .. NTasks
  <2>1. q[w] \in Seq(S)
    BY <1>a
  <2> HIDE DEF S
  <2>2. y \in S
    BY <2>1
  <2>3. y \in Nat /\ y = q[w][1] /\ Len(q[w]) > 0
    BY <1>a, Ends
  <2> QED
    BY <2>2, <2>3 DEF S
<1>1. PICK d : d = q'
  OBVIOUS
<1>2. PICK g : g = got'
  OBVIOUS
<1>3. d[w] = Tail(q[w]) /\ \A v \in Blk!Workers : v # w => d[v] = q[v]
  BY <1>0, <1>1
<1>4. g[w] = Append(got[w], y) /\ \A v \in Blk!Workers : v # w => g[v] = got[v]
  BY <1>0, <1>2
<1> HIDE DEF y
<1>5. /\ Len(d[w]) = Len(q[w]) - 1 /\ \A i \in 1 .. Len(q[w]) - 1 : d[w][i] = q[w][i + 1]
      /\ Len(g[w]) = Len(got[w]) + 1 /\ g[w][Len(got[w]) + 1] = y
      /\ \A i \in 1 .. Len(got[w]) : g[w][i] = got[w][i]
  BY <1>a, <1>b, <1>3, <1>4, Ends
<1>6. Dealt' = Dealt
  BY Zenon DEF Dealt, Blk!One
<1>7. BlkEos'
  <2> SUFFICES ASSUME ~Ordered, NEW v \in Blk!Workers
               PROVE  /\ Closes(q'[v]) /\ Closes(got'[v])
                      /\ EosSent(v)' <=> Has(q'[v]) \/ Has(got'[v])
                      /\ Has(got'[v]) => q'[v] = <<>>
                      /\ wpc'[v] = "done" => Has(got'[v])
                      /\ wpc'[v] \in {"pop", "empty", "asleep"} => ~Has(got'[v])
                      /\ wpc'[v] \in {"popdone", "dec"} => got'[v] # <<>>
    BY DEF BlkEos, Closes, Has
  <2>a. q'[v] = d[v] /\ got'[v] = g[v] /\ (EosSent(v)' <=> EosSent(v))
    BY <1>1, <1>2 DEF EosSent
  <2> SUFFICES /\ Closes(d[v]) /\ Closes(g[v])
               /\ EosSent(v) <=> Has(d[v]) \/ Has(g[v])
               /\ Has(g[v]) => d[v] = <<>>
               /\ wpc'[v] = "done" => Has(g[v])
               /\ wpc'[v] \in {"pop", "empty", "asleep"} => ~Has(g[v])
               /\ wpc'[v] \in {"popdone", "dec"} => g[v] # <<>>
    BY <2>a, Zenon
  <2>1. /\ Closes(q[v]) /\ Closes(got[v]) /\ (EosSent(v) <=> Has(q[v]) \/ Has(got[v]))
        /\ Has(got[v]) => q[v] = <<>>
        /\ wpc[v] = "done" => Has(got[v])
        /\ wpc[v] \in {"pop", "empty", "asleep"} => ~Has(got[v])
        /\ wpc[v] \in {"popdone", "dec"} => got[v] # <<>>
    BY DEF BlkEos
  <2>2. CASE v = w
    <3>1. wpc'[v] = "popdone" /\ ~Has(got[v]) /\ (EosSent(v) <=> Has(q[v]))
      BY <2>1, <2>2, <1>0
    <3>2. g[v] # <<>>
      <4>1. Len(g[v]) > 0
        BY <2>2, <1>5, <1>a
      <4> QED
        BY <4>1
    <3>3. CASE y # 0
      <4>1. Closes(d[v]) /\ (Has(d[v]) <=> Has(q[v]))
        BY <2>1, <2>2, <3>3, <1>a, <1>b, <1>3, EndsMoved DEF y
      <4>2. ~Has(g[v]) /\ Closes(g[v])
        BY <2>2, <3>1, <3>3, <1>a, <1>b, <1>4, EndsMoved
      <4> QED
        BY <3>1, <3>2, <4>1, <4>2
    <3>4. CASE y = 0
      <4>1. d[v] = <<>> /\ Has(q[v])
        BY <2>1, <2>2, <3>4, <1>a, <1>3, EndsMoved DEF y
      <4>2. Has(g[v]) /\ Closes(g[v])
        BY <2>2, <3>1, <3>4, <1>a, <1>4, EndsMoved
      <4>3. Closes(d[v])
        BY <4>1 DEF Closes
      <4> QED
        BY <3>1, <3>2, <4>1, <4>2, <4>3
    <3> QED
      BY <3>3, <3>4
  <2>3. CASE v # w
    <3>1. d[v] = q[v] /\ g[v] = got[v] /\ wpc'[v] = wpc[v]
      BY <2>3, <1>0, <1>3, <1>4
    <3> QED
      BY <2>1, <3>1
  <2> QED
    BY <2>2, <2>3, Zenon
<1>8. BlkTurn'
  <2>1. ASSUME Ordered, NEW v \in Blk!Workers
        PROVE  /\ \A i \in 1 .. Len(g[v]) : g[v][i] # 0 => g[v][i] = Turn(v, i)
               /\ \A i \in 1 .. Len(d[v]) : d[v][i] # 0 => d[v][i] = Turn(v, Len(g[v]) + i)
               /\ left > 0 => NTasks - Turn(v, Len(g[v]) + Len(d[v]) + 1) \in Dealt .. Dealt + Running - 1
    <3>1. /\ \A i \in 1 .. Len(got[v]) : got[v][i] # 0 => got[v][i] = Turn(v, i)
          /\ \A i \in 1 .. Len(q[v]) : q[v][i] # 0 => q[v][i] = Turn(v, Len(got[v]) + i)
          /\ left > 0 => NTasks - Turn(v, Len(got[v]) + Len(q[v]) + 1) \in Dealt .. Dealt + Running - 1
      BY <2>1 DEF BlkTurn
    <3>2. CASE v = w
      <4> DEFINE a == Len(got[w])
                 b == Len(q[w])
      <4>0. a \in Nat /\ b \in Nat /\ b > 0 /\ Len(g[w]) = a + 1 /\ Len(d[w]) = b - 1
            /\ g[w][a + 1] = y
            /\ (\A i \in 1 .. a : g[w][i] = got[w][i])
            /\ \A i \in 1 .. b - 1 : d[w][i] = q[w][i + 1]
        BY <1>a, <1>b, <1>5
      <4>1. /\ \A i \in 1 .. a : got[w][i] # 0 => got[w][i] = Turn(w, i)
            /\ \A i \in 1 .. b : q[w][i] # 0 => q[w][i] = Turn(w, a + i)
            /\ left > 0 => NTasks - Turn(w, a + b + 1) \in Dealt .. Dealt + Running - 1
            /\ y = q[w][1]
        BY <3>1, <3>2, <1>b
      <4> HIDE DEF a, b
      <4>2. ASSUME NEW i \in 1 .. Len(g[w]), g[w][i] # 0 PROVE g[w][i] = Turn(w, i)
        <5>1. CASE i = a + 1
          <6>1. 1 \in 1 .. b
            BY <4>0
          <6> QED
            BY <4>0, <4>1, <4>2, <5>1, <6>1
        <5>2. CASE i # a + 1
          <6>1. i \in 1 .. a
            BY <4>0, <5>2
          <6> QED
            BY <4>0, <4>1, <4>2, <6>1
        <5> QED
          BY <5>1, <5>2
      <4>3. ASSUME NEW i \in 1 .. Len(d[w]), d[w][i] # 0 PROVE d[w][i] = Turn(w, Len(g[w]) + i)
        <5>1. i \in 1 .. b - 1 /\ i + 1 \in 1 .. b
          BY <4>0
        <5>2. Len(g[w]) + i = a + (i + 1)
          BY <4>0, <5>1
        <5> QED
          BY <4>0, <4>1, <4>3, <5>1, <5>2
      <4>4. Len(g[w]) + Len(d[w]) + 1 = a + b + 1
        BY <4>0
      <4> QED
        BY <3>2, <4>1, <4>2, <4>3, <4>4
    <3>3. CASE v # w
      <4>1. d[v] = q[v] /\ g[v] = got[v]
        BY <3>3, <1>3, <1>4
      <4> QED
        BY <3>1, <4>1, Zenon
    <3> QED
      BY <3>2, <3>3, Zenon
  <2>2. Ordered => \A v \in Blk!Workers :
          /\ \A i \in 1 .. Len(got'[v]) : got'[v][i] # 0 => got'[v][i] = Turn(v, i)
          /\ \A i \in 1 .. Len(q'[v]) : q'[v][i] # 0 => q'[v][i] = Turn(v, Len(got'[v]) + i)
          /\ left > 0 => NTasks - Turn(v, Len(got'[v]) + Len(q'[v]) + 1)
                           \in Dealt .. Dealt + Running - 1
    <3>1. q' = d /\ got' = g
      BY <1>1, <1>2
    <3> QED
      BY <2>1, <3>1, Zenon
  <2>3. left' = left
    OBVIOUS
  <2> QED
    BY <1>6, <2>2, <2>3, TurnNext
<1>9. BlkWhole'
  <2> SUFFICES ASSUME ~Ordered PROVE Whole(Places(d, g), Dealt)
    BY <1>1, <1>2, <1>6, WholeNext
  <2>1. Whole(Places(q, got), Dealt)
    BY DEF BlkWhole
  <2> DEFINE c == Places(q, got)
             e == Places(d, g)
             k == <<"q", w>>
             l == <<"got", w>>
  <2>2. /\ Flip(d[w]) = Tail(Flip(q[w])) /\ Flip(q[w]) # <<>>
        /\ Flip(g[w]) = Append(Flip(got[w]), Head(Flip(q[w])))
    BY <1>a, <1>b, <1>3, <1>4, FlipEnds DEF y
  <2>3. DOMAIN e = DOMAIN c
    BY PlacesSame, Zenon
  <2>4. /\ c[k] = Flip(q[w]) /\ c[l] = Flip(got[w]) /\ e[k] = Flip(d[w]) /\ e[l] = Flip(g[w])
        /\ k \in DOMAIN c /\ l \in DOMAIN c
    <3>1. Places(q, got)[<<"q", w>>] = Flip(q[w]) /\ Places(q, got)[<<"got", w>>] = Flip(got[w])
          /\ <<"q", w>> \in DOMAIN Places(q, got) /\ <<"got", w>> \in DOMAIN Places(q, got)
      BY PlacesAre
    <3>2. Places(d, g)[<<"q", w>>] = Flip(d[w]) /\ Places(d, g)[<<"got", w>>] = Flip(g[w])
      BY Zenon DEF Places
    <3> QED
      BY <3>1, <3>2, Zenon
  <2>5. \A o \in DOMAIN c : o # k /\ o # l => e[o] = c[o]
    <3> SUFFICES ASSUME NEW o \in DOMAIN c, o # k, o # l PROVE e[o] = c[o]
      OBVIOUS
    <3>1. PICK v \in Blk!Workers : o = <<"q", v>> \/ o = <<"got", v>>
      BY PlacesSame
    <3>2. v # w
      BY <3>1
    <3>3. d[v] = q[v] /\ g[v] = got[v]
      BY <3>2, <1>3, <1>4
    <3>4. Places(q, got)[<<"q", v>>] = Flip(q[v]) /\ Places(q, got)[<<"got", v>>] = Flip(got[v])
      BY Zenon DEF Places
    <3>5. Places(d, g)[<<"q", v>>] = Flip(d[v]) /\ Places(d, g)[<<"got", v>>] = Flip(g[v])
      BY Zenon DEF Places
    <3> QED
      BY <3>1, <3>3, <3>4, <3>5, Zenon
  <2>6. k # l /\ c[k] # <<>> /\ e[k] = Tail(c[k]) /\ e[l] = Append(c[l], Head(c[k]))
    <3>1. k # l
      OBVIOUS
    <3> HIDE DEF c, e, k, l
    <3> QED
      BY <2>2, <2>4, <3>1
  <2>7. Dealt \in Nat
    <3>1. left \in 0 .. NTasks /\ Blk!One(epc \in {"signal", "count"}) \in 0 .. 1
      BY DEF BlkTyped, Blk!One
    <3>2. NTasks \in Nat
      BY BlkConstants
    <3> QED
      BY <3>1, <3>2 DEF Dealt
  <2> HIDE DEF c, e, k, l
  <2>8. Whole(c, Dealt)
    BY <2>1 DEF c
  <2> QED
    BY <2>3, <2>4, <2>5, <2>6, <2>7, <2>8, WholeMoved DEF e
<1>10. got' \in [Blk!Workers -> Seq(0 .. NTasks)]
  <2> DEFINE S == 0 .. NTasks
  <2>1. got \in [Blk!Workers -> Seq(S)] /\ y \in S
    BY <1>0, <1>b
  <2>2. g = [got EXCEPT ![w] = Append(got[w], y)]
    BY <1>2 DEF y
  <2> HIDE DEF S
  <2>3. Append(got[w], y) \in Seq(S)
    BY <2>1
  <2>4. g \in [Blk!Workers -> Seq(S)]
    BY <2>1, <2>2, <2>3
  <2> QED
    BY <1>2, <2>4 DEF S
<1> QED
  BY <1>7, <1>8, <1>9, <1>10

\* A worker that is done with a task goes on, with the end of the stream it leaves.
LEMMA LeaveKeeps ==
  ASSUME Blk!SizeAssumption, BlkTyped, BlkEos, BlkTurn, BlkWhole, NEW w \in Blk!Workers,
         wpc[w] = "dec",
         wpc' = [wpc EXCEPT ![w] = IF Blk!Last(got[w]) = 0 THEN "done" ELSE "pop"],
         UNCHANGED <<q, got, epc, cnt, left, retry>>
  PROVE  BlkEos' /\ BlkTurn' /\ BlkWhole'
<1>1. Dealt' = Dealt
  BY Zenon DEF Dealt, Blk!One
<1>2. BlkTurn'
  BY <1>1 DEF BlkTurn, Turn
<1>3. BlkWhole'
  <2>1. q' = q /\ got' = got /\ Dealt' = Dealt
    BY <1>1
  <2> QED
    BY <2>1, WholeNext DEF BlkWhole
<1>4. BlkEos'
  <2> SUFFICES ASSUME ~Ordered, NEW v \in Blk!Workers
               PROVE  /\ Closes(q[v]) /\ Closes(got[v])
                      /\ EosSent(v) <=> Has(q[v]) \/ Has(got[v])
                      /\ Has(got[v]) => q[v] = <<>>
                      /\ wpc'[v] = "done" => Has(got[v])
                      /\ wpc'[v] \in {"pop", "empty", "asleep"} => ~Has(got[v])
                      /\ wpc'[v] \in {"popdone", "dec"} => got[v] # <<>>
    BY DEF BlkEos, Closes, Has, EosSent
  <2>1. /\ Closes(q[v]) /\ Closes(got[v]) /\ (EosSent(v) <=> Has(q[v]) \/ Has(got[v]))
        /\ Has(got[v]) => q[v] = <<>>
        /\ wpc[v] = "done" => Has(got[v])
        /\ wpc[v] \in {"pop", "empty", "asleep"} => ~Has(got[v])
        /\ wpc[v] \in {"popdone", "dec"} => got[v] # <<>>
    BY DEF BlkEos
  <2>2. wpc'[w] = (IF Blk!Last(got[w]) = 0 THEN "done" ELSE "pop")
        /\ \A u \in Blk!Workers : u # w => wpc'[u] = wpc[u]
    BY DEF BlkTyped
  <2>3. CASE v = w
    <3>1. got[w] # <<>> /\ got[w] \in Seq(Nat)
      BY <2>1, <2>3, ChannelTyped
    <3>2. Len(got[w]) \in 1 .. Len(got[w]) /\ Blk!Last(got[w]) = got[w][Len(got[w])]
      BY <3>1, Ends DEF Blk!Last
    <3>3. Blk!Last(got[w]) = 0 <=> Has(got[w])
      BY <2>1, <2>3, <3>2 DEF Has, Closes
    <3> QED
      BY <2>1, <2>2, <2>3, <3>3
  <2>4. CASE v # w
    <3>1. wpc'[v] = wpc[v]
      BY <2>2, <2>4
    <3> QED
      BY <2>1, <3>1, Zenon
  <2> QED
    BY <2>3, <2>4, Zenon
<1> QED
  BY <1>2, <1>3, <1>4

\* At the start nothing is anywhere.
LEMMA BlkStart ==
  ASSUME Blk!SizeAssumption, Blk!Init
  PROVE  BlkIInv
<1>0. /\ Running \in Nat \ {0} /\ Size \in Nat \ {0} /\ NTasks \in Nat /\ Modulus \in Nat
      /\ Modulus > 0 /\ Most \in Nat /\ Blk!Workers = 0 .. Running - 1
  BY BlkConstants
<1>1. /\ \A w \in Blk!Workers : /\ q[w] = <<>> /\ got[w] = <<>> /\ wpc[w] = "pop"
                                /\ cons_counter[w] = 0
      /\ epc = "select" /\ left = NTasks /\ cnt = 0 /\ retry = <<>> /\ prod_counter = 0
      /\ Len(<<>>) = 0 /\ nextw \in Blk!Workers
  BY <1>0 DEF Blk!Init
<1>2. BlkTyped
  <2> DEFINE S == 0 .. NTasks
  <2>1. <<>> \in Seq(S) /\ <<>> \in Seq(Blk!Workers) /\ 0 <= Size /\ 0 \in 0 .. Modulus - 1
    BY <1>0
  <2> HIDE DEF S
  <2>2. q \in [Blk!Workers -> Seq(S)] /\ got \in [Blk!Workers -> Seq(S)]
    BY <2>1 DEF Blk!Init
  <2>3. \A w \in Blk!Workers : Len(q[w]) <= Size
    BY <1>1, <2>1
  <2>4. /\ cons_counter \in [Blk!Workers -> 0 .. Modulus - 1]
        /\ wpc \in [Blk!Workers -> {"pop", "popdone", "dec", "empty", "asleep", "done"}]
    BY <2>1 DEF Blk!Init
  <2>5. cnt \in 0 .. Running /\ left \in 0 .. NTasks
    BY <1>0, <1>1
  <2> QED
    BY <1>1, <2>1, <2>2, <2>3, <2>4, <2>5 DEF BlkTyped, S
<1>3. prod_counter \in 0 .. Modulus - 1
  BY <1>0, <1>1
<1>4. BlkPhases
  BY <1>1 DEF BlkPhases
<1>5. BlkCounts
  <2>1. Filled(q) = {}
    BY <1>0, <1>1 DEF Filled
  <2>2. Popped(wpc) = {}
    BY <1>1 DEF Popped
  <2>3. Load = 0
    BY <2>1, <2>2, FS_EmptySet DEF Load
  <2>4. Blk!One(epc \in Busy) = 0
    BY <1>1 DEF Blk!One, Busy, Sends
  <2>5. ASSUME NEW w \in Blk!Workers PROVE Due(w) = 0
    <3>1. Blk!One(wpc[w] \in {"popdone", "dec"}) = 0
      BY <1>1 DEF Blk!One
    <3>2. Blk!One(epc \in Sends /\ nextw = w) = 0
      BY <1>1 DEF Blk!One, Sends
    <3> QED
      BY <1>1, <3>1, <3>2 DEF Due
  <2>6. Wrap(0) = 0
    BY <1>0, Wraps
  <2> QED
    BY <1>1, <2>3, <2>4, <2>5, <2>6 DEF BlkCounts
<1>6. BlkSleep
  BY <1>1 DEF BlkSleep
<1>7. ~Has(<<>>) /\ Closes(<<>>)
  BY DEF Has, Closes
<1>8. BlkEos
  <2> SUFFICES ASSUME NEW w \in Blk!Workers
               PROVE  /\ Closes(q[w]) /\ Closes(got[w])
                      /\ EosSent(w) <=> Has(q[w]) \/ Has(got[w])
                      /\ Has(got[w]) => q[w] = <<>>
                      /\ wpc[w] = "done" => Has(got[w])
                      /\ wpc[w] \in {"pop", "empty", "asleep"} => ~Has(got[w])
                      /\ wpc[w] \in {"popdone", "dec"} => got[w] # <<>>
    BY DEF BlkEos
  <2>1. ~EosSent(w)
    BY <1>0, <1>1 DEF EosSent
  <2> QED
    BY <1>1, <1>7, <2>1
<1>9. Dealt = 0
  <2>1. Blk!One(epc \in {"signal", "count"}) = 0
    BY <1>1 DEF Blk!One
  <2> QED
    BY <1>0, <1>1, <2>1 DEF Dealt
<1>10. BlkTurn
  <2> SUFFICES ASSUME NEW w \in Blk!Workers
               PROVE  NTasks - Turn(w, Len(got[w]) + Len(q[w]) + 1) \in Dealt .. Dealt + Running - 1
    <3>1. \A w \in Blk!Workers : 1 .. Len(got[w]) = {} /\ 1 .. Len(q[w]) = {}
      BY <1>1
    <3> QED
      BY <3>1 DEF BlkTurn
  <2>0. Len(got[w]) + Len(q[w]) + 1 = 0 + 0 + 1 /\ Dealt + Running - 1 = Running - 1
    <3>1. Len(got[w]) = 0 /\ Len(q[w]) = 0
      BY <1>1
    <3> QED
      BY <1>0, <1>9, <3>1
  <2>1. (1 - 1) * Running = 0
    BY <1>0
  <2>2. Turn(w, 0 + 0 + 1) = NTasks - w
    BY <1>0, <2>1 DEF Turn
  <2>3. NTasks - Turn(w, 0 + 0 + 1) = w /\ w \in 0 .. Running - 1
    BY <1>0, <2>2
  <2> QED
    BY <1>9, <2>0, <2>3
<1>11. BlkWhole
  <2>1. Flip(<<>>) = <<>>
    BY DEF Flip
  <2>2. \A k \in DOMAIN Places(q, got) : Places(q, got)[k] = <<>>
    <3> SUFFICES ASSUME NEW k \in DOMAIN Places(q, got) PROVE Places(q, got)[k] = <<>>
      OBVIOUS
    <3>1. PICK w \in Blk!Workers : k = <<"q", w>> \/ k = <<"got", w>>
      BY PlacesSame
    <3>2. Places(q, got)[<<"q", w>>] = Flip(q[w]) /\ Places(q, got)[<<"got", w>>] = Flip(got[w])
      BY PlacesAre
    <3> QED
      BY <1>1, <2>1, <3>1, <3>2
  <2>3. \A k \in DOMAIN Places(q, got) : Len(Places(q, got)[k]) = 0
    BY <1>1, <2>2
  <2> DEFINE c == Places(q, got)
  <2>4. \A k \in DOMAIN c : c[k] \in Seq(Nat) /\ 1 .. Len(c[k]) = {}
    <3>1. <<>> \in Seq(Nat) /\ 1 .. 0 = {}
      OBVIOUS
    <3> QED
      BY <2>2, <2>3, <3>1, Zenon
  <2> HIDE DEF c
  <2>5. Queues(c) /\ Bounded(c, 0) /\ Apart(c)
    BY <2>4 DEF Queues, Bounded, Apart
  <2>6. Found(c, 0)
    BY DEF Found
  <2> QED
    BY <1>9, <2>5, <2>6 DEF BlkWhole, Whole, c
<1> QED
  BY <1>2, <1>3, <1>4, <1>5, <1>6, <1>8, <1>10, <1>11 DEF BlkIInv

-----------------------------------------------------------------------------
(* One step of the emitter. *)

\* The worker chosen is one of them.
LEMMA Picked ==
  ASSUME Blk!SizeAssumption, BlkTyped
  PROVE  /\ Blk!victim \in Blk!Workers /\ Blk!selectworker \in Blk!Workers
         /\ Ordered => Blk!selectworker = Blk!victim
         /\ (Blk!victim + cnt) % Running \in Blk!Workers
         /\ (cnt + 1) % Running \in Blk!Workers
<1>1. /\ Running \in Nat \ {0} /\ NTasks \in Nat /\ Blk!Workers = 0 .. Running - 1
  BY BlkConstants
<1>2. \A x \in Nat : x % Running \in Blk!Workers
  BY <1>1
<1>3. left \in 0 .. NTasks /\ nextw \in 0 .. Running - 1 /\ cnt \in 0 .. Running
  BY <1>1 DEF BlkTyped
<1>4. NTasks - left \in Nat /\ nextw + 1 \in Nat /\ cnt + 1 \in Nat
  BY <1>1, <1>3
<1>5. Blk!victim \in Blk!Workers
  BY <1>2, <1>4 DEF Blk!victim
<1>6. Blk!victim + cnt \in Nat
  BY <1>1, <1>3, <1>5
<1>7. Blk!selectworker = IF Ordered THEN Blk!victim ELSE (nextw + 1) % Running
  BY DEF Blk!selectworker
<1>8. (nextw + 1) % Running \in Blk!Workers /\ (cnt + 1) % Running \in Blk!Workers
      /\ (Blk!victim + cnt) % Running \in Blk!Workers
  BY <1>2, <1>4, <1>6
<1> QED
  BY <1>5, <1>7, <1>8

\* The tasks dealt, from where the emitter is.
LEMMA DealtNext ==
  ASSUME Blk!SizeAssumption, BlkTyped,
         \/ left' = left /\ (epc' \in {"signal", "count"} <=> epc \in {"signal", "count"})
         \/ left' = left - 1 /\ epc \in {"signal", "count"} /\ epc' \notin {"signal", "count"}
  PROVE  Dealt' = Dealt
<1>1. left \in 0 .. NTasks /\ NTasks \in Nat
  BY BlkConstants DEF BlkTyped
<1>2. Dealt' = NTasks - left' + Blk!One(epc' \in {"signal", "count"})
  BY Zenon DEF Dealt, Blk!One
<1>3. Blk!One(epc' \in {"signal", "count"}) = IF epc' \in {"signal", "count"} THEN 1 ELSE 0
  BY DEF Blk!One
<1>4. Blk!One(epc \in {"signal", "count"}) = IF epc \in {"signal", "count"} THEN 1 ELSE 0
  BY DEF Blk!One
<1>5. CASE left' = left /\ (epc' \in {"signal", "count"} <=> epc \in {"signal", "count"})
  <2>1. Blk!One(epc' \in {"signal", "count"}) = Blk!One(epc \in {"signal", "count"})
    BY <1>3, <1>4, <1>5
  <2> QED
    BY <1>2, <1>5, <2>1 DEF Dealt
<1>6. CASE left' = left - 1 /\ epc \in {"signal", "count"} /\ epc' \notin {"signal", "count"}
  <2>1. Blk!One(epc' \in {"signal", "count"}) = 0 /\ Blk!One(epc \in {"signal", "count"}) = 1
    BY <1>3, <1>4, <1>6
  <2>2. Dealt' = NTasks - (left - 1) + 0 /\ Dealt = NTasks - left + 1
    BY <1>2, <1>6, <2>1 DEF Dealt
  <2> QED
    BY <1>1, <2>2
<1> QED
  BY <1>5, <1>6

\* The emitter tries a worker.
LEMMA BlkSelect ==
  ASSUME Blk!SizeAssumption, BlkIInv, Blk!Select
  PROVE  BlkIInv'
<1> USE DEF BlkIInv
<1>1. /\ BlkTyped /\ prod_counter \in 0 .. Modulus - 1 /\ BlkPhases /\ BlkCounts /\ BlkSleep
      /\ BlkEos /\ BlkTurn /\ BlkWhole
  OBVIOUS
<1>2. /\ epc = "select" /\ left > 0 /\ nextw' = Blk!selectworker
      /\ UNCHANGED <<prod_counter, cons_counter, left, retry, wpc, got>>
  BY DEF Blk!Select, Blk!counters
<1>3. nextw' \in Blk!Workers /\ (Ordered => nextw' = Blk!victim)
  BY <1>1, <1>2, Picked
<1>4. retry = <<>>
  BY <1>1, <1>2 DEF BlkPhases
<1>5. left \in 0 .. NTasks /\ Running \in Nat \ {0} /\ Blk!Workers = 0 .. Running - 1
  BY BlkConstants DEF BlkTyped
<1>6. CASE Len(q[nextw']) < Size /\ q' = [q EXCEPT ![nextw'] = Append(q[nextw'], left)]
           /\ epc' = "signal" /\ cnt' = 0
  <2>1. /\ BlkCounts' /\ BlkSleep'
        /\ q' \in [Blk!Workers -> Seq(0 .. NTasks)] /\ \A v \in Blk!Workers : Len(q'[v]) <= Size
    <3>1. epc' \in Sends
      BY <1>6 DEF Sends
    <3>2. UNCHANGED <<prod_counter, cons_counter, wpc>>
      BY <1>2
    <3> QED
      BY <1>1, <1>2, <1>3, <1>5, <1>6, <3>1, <3>2, PutKeeps
  <2>2. BlkEos' /\ BlkTurn' /\ BlkWhole'
    <3>1. UNCHANGED <<got, left, wpc>>
      BY <1>2
    <3> QED
      BY <1>1, <1>2, <1>3, <1>6, <3>1, TaskPut
  <2>3. BlkTyped'
    BY <1>2, <1>3, <1>5, <1>6, <2>1 DEF BlkTyped, Busy, Sends
  <2>4. BlkPhases'
    BY <1>2, <1>4, <1>6 DEF BlkPhases
  <2>5. (prod_counter \in 0 .. Modulus - 1)'
    BY <1>1, <1>2
  <2> QED
    BY <2>1, <2>2, <2>3, <2>4, <2>5
<1>7. CASE cnt' = (cnt + 1) % Running /\ epc' \in {"full", "select"} /\ UNCHANGED q
  <2>1. BlkCounts' /\ BlkSleep'
    <3>1. epc \notin Busy /\ epc' \notin Busy /\ epc' \notin {"asleep", "basleep"}
      BY <1>2, <1>7 DEF Busy, Sends
    <3>2. UNCHANGED <<q, prod_counter, cons_counter, wpc>>
      BY <1>2, <1>7
    <3> QED
      BY <1>1, <3>1, <3>2, IdleKeeps
  <2>2. BlkEos' /\ BlkTurn' /\ BlkWhole'
    <3>1. Dealt' = Dealt
      BY <1>1, <1>2, <1>7, DealtNext
    <3>2. \A w \in Blk!Workers : EosSent(w)' <=> EosSent(w)
      <4>1. ~ (left = 0) /\ left' = left
        BY <1>2, <1>5
      <4> QED
        BY <4>1 DEF EosSent
    <3>3. UNCHANGED <<q, got>> /\ (left' > 0 => left > 0) /\ \A w \in Blk!Workers : wpc'[w] = wpc[w]
      BY <1>2, <1>7
    <3> QED
      BY <1>1, <3>1, <3>2, <3>3, QuietKeeps
  <2>3. BlkTyped'
    <3>1. cnt' \in 0 .. Running
      BY <1>1, <1>5, <1>7, Picked
    <3> QED
      BY <1>2, <1>3, <1>5, <1>7, <3>1 DEF BlkTyped, Busy, Sends
  <2>4. BlkPhases'
    BY <1>2, <1>4, <1>7 DEF BlkPhases
  <2>5. (prod_counter \in 0 .. Modulus - 1)'
    BY <1>1, <1>2
  <2> QED
    BY <2>1, <2>2, <2>3, <2>4, <2>5
<1> QED
  BY <1>6, <1>7 DEF Blk!Select, Blk!Room, Blk!Put

\* It signals the worker to which it sent.
LEMMA BlkPutSignal ==
  ASSUME Blk!SizeAssumption, BlkIInv, Blk!PutSignal
  PROVE  BlkIInv'
<1>1. /\ BlkTyped /\ prod_counter \in 0 .. Modulus - 1 /\ BlkPhases /\ BlkCounts /\ BlkSleep
      /\ BlkEos /\ BlkTurn /\ BlkWhole
  BY DEF BlkIInv
<1>2. /\ epc \in {"signal", "bsignal"} /\ Blk!WakeWorker(nextw)
      /\ cons_counter' = [cons_counter EXCEPT ![nextw] = Blk!Up(@)]
      /\ epc' = IF epc = "signal" THEN "count" ELSE "bcount"
      /\ UNCHANGED <<q, prod_counter, nextw, cnt, left, retry, got>>
  BY DEF Blk!PutSignal
<1>3. epc \in Sends /\ epc' \in {"count", "bcount"}
  BY <1>2 DEF Sends
<1>4. /\ BlkCounts' /\ BlkSleep' /\ cons_counter' \in [Blk!Workers -> 0 .. Modulus - 1]
      /\ wpc' \in [Blk!Workers -> {"pop", "popdone", "dec", "empty", "asleep", "done"}]
  BY <1>1, <1>2, <1>3, WakeKeeps
<1>5. BlkEos' /\ BlkTurn' /\ BlkWhole'
  <2>1. Dealt' = Dealt
    BY <1>1, <1>2, DealtNext
  <2>2. \A w \in Blk!Workers : EosSent(w)' <=> EosSent(w)
    BY <1>2 DEF EosSent
  <2>3. \A w \in Blk!Workers :
           \/ wpc'[w] = wpc[w]
           \/ wpc[w] \in {"pop", "empty", "asleep"} /\ wpc'[w] \in {"pop", "empty", "asleep"}
    BY <1>1, <1>2 DEF Blk!WakeWorker, BlkTyped
  <2>4. UNCHANGED <<q, got>> /\ (left' > 0 => left > 0)
    BY <1>2
  <2> QED
    BY <1>1, <2>1, <2>2, <2>3, <2>4, QuietKeeps
<1>6. BlkTyped'
  BY <1>1, <1>2, <1>3, <1>4 DEF BlkTyped, Busy
<1>7. BlkPhases'
  BY <1>1, <1>2 DEF BlkPhases
<1>8. (prod_counter \in 0 .. Modulus - 1)'
  BY <1>1, <1>2
<1> QED
  BY <1>4, <1>5, <1>6, <1>7, <1>8 DEF BlkIInv

\* It counts what it sent.
LEMMA BlkPutCount ==
  ASSUME Blk!SizeAssumption, BlkIInv, Blk!PutCount
  PROVE  BlkIInv'
<1>1. /\ BlkTyped /\ prod_counter \in 0 .. Modulus - 1 /\ BlkPhases /\ BlkCounts /\ BlkSleep
      /\ BlkEos /\ BlkTurn /\ BlkWhole
  BY DEF BlkIInv
<1>2. /\ epc \in {"count", "bcount"} /\ prod_counter' = Blk!Up(prod_counter)
      /\ epc' = "select" /\ left' = (IF epc = "count" THEN left - 1 ELSE left)
      /\ UNCHANGED <<q, cons_counter, nextw, cnt, retry, wpc, got>>
  BY DEF Blk!PutCount
<1>3. left \in 0 .. NTasks /\ NTasks \in Nat /\ (epc = "count" => left > 0 /\ cnt = 0)
      /\ (left > 0 => retry = <<>>)
  BY <1>1, BlkConstants DEF BlkTyped, BlkPhases
<1>4. left' \in 0 .. NTasks /\ (left' > 0 => left > 0)
  BY <1>2, <1>3
<1>5. BlkCounts' /\ BlkSleep'
  BY <1>1, <1>2, CountKeeps
<1>6. BlkEos' /\ BlkTurn' /\ BlkWhole'
  <2>1. Dealt' = Dealt
    <3>1. \/ left' = left /\ (epc' \in {"signal", "count"} <=> epc \in {"signal", "count"})
          \/ left' = left - 1 /\ epc \in {"signal", "count"} /\ epc' \notin {"signal", "count"}
      BY <1>2
    <3> QED
      BY <1>1, <3>1, DealtNext
  <2>2. ASSUME NEW w \in Blk!Workers PROVE EosSent(w)' <=> EosSent(w)
    <3>1. CASE epc = "count"
      <4>1. cnt = 0 /\ cnt' = 0 /\ ~ (w < 0)
        BY <1>2, <1>3, <3>1, BlkConstants
      <4> QED
        BY <4>1 DEF EosSent
    <3>2. CASE epc # "count"
      BY <1>2, <3>2 DEF EosSent
    <3> QED
      BY <3>1, <3>2
  <2>3. UNCHANGED <<q, got>> /\ \A w \in Blk!Workers : wpc'[w] = wpc[w]
    BY <1>2
  <2> QED
    BY <1>1, <1>4, <2>1, <2>2, <2>3, QuietKeeps
<1>7. BlkTyped'
  BY <1>1, <1>2, <1>4 DEF BlkTyped
<1>8. BlkPhases'
  BY <1>1, <1>2, <1>4 DEF BlkPhases
<1>9. (prod_counter \in 0 .. Modulus - 1)'
  BY <1>1, <1>2, EdgeTyped
<1> QED
  BY <1>5, <1>6, <1>7, <1>8, <1>9 DEF BlkIInv

\* Steps that only move the emitter on.
LEMMA BlkIdle ==
  ASSUME Blk!SizeAssumption, BlkIInv, epc \notin Busy,
         epc' \in {"select", "full", "asleep", "bfull", "basleep", "owait", "oasleep", "done"},
         epc' \in {"asleep", "basleep"} => Load >= Size, nextw' \in Blk!Workers,
         cnt' \in 0 .. Running, retry' \in Seq(Blk!Workers), BlkPhases',
         \A w \in Blk!Workers : EosSent(w)' <=> EosSent(w),
         UNCHANGED <<q, prod_counter, cons_counter, left, wpc, got>>
  PROVE  BlkIInv'
<1>1. /\ BlkTyped /\ prod_counter \in 0 .. Modulus - 1 /\ BlkPhases /\ BlkCounts /\ BlkSleep
      /\ BlkEos /\ BlkTurn /\ BlkWhole
  BY DEF BlkIInv
<1>2. BlkCounts' /\ BlkSleep'
  <2>1. epc' \notin Busy
    BY DEF Busy, Sends
  <2> QED
    BY <1>1, <2>1, IdleKeeps
<1>3. BlkEos' /\ BlkTurn' /\ BlkWhole'
  <2>1. Dealt' = Dealt
    <3>1. left' = left /\ (epc' \in {"signal", "count"} <=> epc \in {"signal", "count"})
      BY DEF Busy, Sends
    <3> QED
      BY <1>1, <3>1, DealtNext
  <2>2. UNCHANGED <<q, got>> /\ (left' > 0 => left > 0) /\ \A w \in Blk!Workers : wpc'[w] = wpc[w]
    OBVIOUS
  <2> QED
    BY <1>1, <2>1, <2>2, QuietKeeps
<1>4. BlkTyped'
  BY <1>1 DEF BlkTyped
<1>5. (prod_counter \in 0 .. Modulus - 1)'
  BY <1>1
<1> QED
  BY <1>2, <1>3, <1>4, <1>5 DEF BlkIInv

\* It goes to sleep, or tries again.
LEMMA BlkFull ==
  ASSUME Blk!SizeAssumption, BlkIInv, Blk!Full
  PROVE  BlkIInv'
<1>1. BlkTyped /\ BlkPhases /\ BlkCounts
  BY DEF BlkIInv
<1>2. /\ epc \in {"full", "bfull"}
      /\ epc' = IF prod_counter >= Blk!threshold
                THEN (IF epc = "full" THEN "asleep" ELSE "basleep")
                ELSE "select"
      /\ UNCHANGED <<q, prod_counter, cons_counter, nextw, cnt, left, retry, wpc, got>>
  BY DEF Blk!Full, Blk!counters
<1>3. epc \notin Busy
  BY <1>2 DEF Busy, Sends
<1>4. ASSUME epc' \in {"asleep", "basleep"} PROVE Load >= Size
  <2>1. Load \in 0 .. Most /\ Load \in -1 .. Most
    <3>1. Load \in 0 .. Most
      BY BlkCounted DEF Load
    <3> QED
      BY <3>1, BlkConstants
  <2>2. prod_counter = Load
    <3>1. Blk!One(epc \in Busy) = 0
      BY <1>3 DEF Blk!One
    <3>2. Load - 0 = Load
      BY <2>1
    <3>3. Wrap(Load) = Load
      BY <2>1, Wraps
    <3> QED
      BY <1>1, <3>1, <3>2, <3>3 DEF BlkCounts
  <2>3. prod_counter >= Blk!threshold
    BY <1>2, <1>4
  <2>4. Blk!threshold >= Size /\ Blk!threshold \in Nat
    <3> DEFINE n == IF epc = "full" THEN Running ELSE Len(retry)
    <3>1. n \in Nat \ {0}
      BY <1>1, <1>2, BlkConstants DEF BlkTyped, BlkPhases
    <3>2. Blk!threshold = Size * n
      BY DEF Blk!threshold
    <3>3. Size \in Nat
      BY BlkConstants
    <3> HIDE DEF n
    <3> QED
      BY <3>1, <3>2, <3>3
  <2>5. Size \in Nat
    BY BlkConstants
  <2> QED
    BY <2>1, <2>2, <2>3, <2>4, <2>5
<1>5. BlkPhases'
  BY <1>1, <1>2 DEF BlkPhases
<1>6. \A w \in Blk!Workers : EosSent(w)' <=> EosSent(w)
  BY <1>2 DEF EosSent
<1>7. /\ nextw' \in Blk!Workers /\ cnt' \in 0 .. Running /\ retry' \in Seq(Blk!Workers)
      /\ epc' \in {"select", "full", "asleep", "bfull", "basleep", "owait", "oasleep", "done"}
      /\ UNCHANGED <<q, prod_counter, cons_counter, left, wpc, got>>
  BY <1>1, <1>2 DEF BlkTyped
<1> QED
  BY <1>3, <1>4, <1>5, <1>6, <1>7, BlkIdle

\* Steps that put the end of the stream into a channel.
LEMMA BlkEnding ==
  ASSUME Blk!SizeAssumption, BlkIInv, NEW w \in Blk!Workers,
         epc = "select", epc' = "bsignal", left = 0, Len(q[w]) < Size,
         q' = [q EXCEPT ![w] = Append(q[w], 0)], nextw' = w,
         cnt' \in 0 .. Running, retry' \in Seq(Blk!Workers), BlkPhases',
         UNCHANGED <<prod_counter, cons_counter, left, wpc, got>>,
         ~Ordered => /\ ~EosSent(w)
                     /\ \A v \in Blk!Workers : EosSent(v)' <=> EosSent(v) \/ v = w
  PROVE  BlkIInv'
<1>1. /\ BlkTyped /\ prod_counter \in 0 .. Modulus - 1 /\ BlkPhases /\ BlkCounts /\ BlkSleep
      /\ BlkEos /\ BlkTurn /\ BlkWhole
  BY DEF BlkIInv
<1>2. /\ BlkCounts' /\ BlkSleep'
      /\ q' \in [Blk!Workers -> Seq(0 .. NTasks)] /\ \A v \in Blk!Workers : Len(q'[v]) <= Size
  <2>1. 0 \in 0 .. NTasks
    BY BlkConstants
  <2>2. epc' \in Sends
    BY DEF Sends
  <2> QED
    BY <1>1, <2>1, <2>2, PutKeeps
<1>3. BlkEos' /\ BlkTurn' /\ BlkWhole'
  BY <1>1, EosPut
<1>4. BlkTyped'
  BY <1>1, <1>2 DEF BlkTyped, Busy, Sends
<1>5. (prod_counter \in 0 .. Modulus - 1)'
  BY <1>1
<1> QED
  BY <1>2, <1>3, <1>4, <1>5 DEF BlkIInv

\* It sends the end of the stream to a worker, or notes that it has no room.
LEMMA BlkPushEos ==
  ASSUME Blk!SizeAssumption, BlkIInv, Blk!PushEos
  PROVE  BlkIInv'
<1>1. BlkTyped /\ BlkPhases
  BY DEF BlkIInv
<1>2. /\ epc = "select" /\ left = 0 /\ cnt < Running /\ cnt' = cnt + 1 /\ nextw' = cnt
      /\ UNCHANGED <<prod_counter, cons_counter, left, wpc, got>>
  BY DEF Blk!PushEos, Blk!counters
<1>3. /\ cnt \in Blk!Workers /\ cnt' \in 0 .. Running /\ cnt \in Nat
      /\ \A v \in Blk!Workers : v \in Int
  <2>1. Running \in Nat \ {0} /\ Blk!Workers = 0 .. Running - 1
    BY BlkConstants
  <2>2. cnt \in 0 .. Running
    BY <1>1 DEF BlkTyped
  <2> QED
    BY <1>2, <2>1, <2>2
<1>4. retry \in Seq(Blk!Workers) /\ Len(retry) \in Nat
      /\ \A i \in 1 .. Len(retry) : retry[i] \in Blk!Workers /\ retry[i] < cnt
  BY <1>1 DEF BlkTyped, BlkPhases
<1>5. CASE Len(q[cnt]) < Size /\ q' = [q EXCEPT ![cnt] = Append(q[cnt], 0)]
           /\ epc' = "bsignal" /\ UNCHANGED retry
  <2>1. BlkPhases'
    <3>1. ASSUME NEW i \in 1 .. Len(retry) PROVE retry[i] < cnt + 1
      <4>1. retry[i] \in Int /\ retry[i] < cnt
        BY <1>3, <1>4
      <4> QED
        BY <1>3, <4>1
    <3> QED
      BY <1>1, <1>2, <1>5, <3>1 DEF BlkPhases
  <2>2. ~EosSent(cnt)
    BY <1>3 DEF EosSent
  <2>3. ASSUME NEW v \in Blk!Workers PROVE EosSent(v)' <=> EosSent(v) \/ v = cnt
    <3>1. EosSent(v)' <=> v < cnt + 1 /\ \A i \in 1 .. Len(retry) : retry[i] # v
      BY <1>2, <1>5 DEF EosSent
    <3>2. EosSent(v) <=> v < cnt /\ \A i \in 1 .. Len(retry) : retry[i] # v
      BY <1>2 DEF EosSent
    <3>3. v < cnt + 1 <=> v < cnt \/ v = cnt
      BY <1>3
    <3>4. \A i \in 1 .. Len(retry) : retry[i] # cnt
      BY <1>3, <1>4
    <3> QED
      BY <3>1, <3>2, <3>3, <3>4
  <2>4. retry' \in Seq(Blk!Workers)
    BY <1>4, <1>5
  <2> QED
    BY <1>2, <1>3, <1>5, <2>1, <2>2, <2>3, <2>4, BlkEnding
<1>6. CASE retry' = Append(retry, cnt) /\ UNCHANGED <<q, epc>>
  <2> DEFINE r == Append(retry, cnt)
  <2>1. /\ r \in Seq(Blk!Workers) /\ Len(r) = Len(retry) + 1 /\ r[Len(retry) + 1] = cnt
        /\ \A i \in 1 .. Len(retry) : r[i] = retry[i]
    BY <1>3, <1>4
  <2> HIDE DEF r
  <2>2. \A i \in 1 .. Len(r) : i \in 1 .. Len(retry) \/ i = Len(retry) + 1
    BY <1>4, <2>1
  <2>3. ASSUME NEW i \in 1 .. Len(r) PROVE r[i] < cnt + 1
    <3>1. CASE i \in 1 .. Len(retry)
      <4>1. retry[i] \in Int /\ retry[i] < cnt /\ r[i] = retry[i]
        BY <1>3, <1>4, <2>1, <3>1
      <4> QED
        BY <1>3, <4>1
    <3>2. CASE i = Len(retry) + 1
      BY <1>3, <2>1, <3>2
    <3> QED
      BY <2>2, <3>1, <3>2
  <2>4. \A i, j \in 1 .. Len(r) : r[i] = r[j] => i = j
    <3>1. \A i \in 1 .. Len(retry) : r[i] # cnt
      BY <1>3, <1>4, <2>1
    <3>2. \A i, j \in 1 .. Len(retry) : retry[i] = retry[j] => i = j
      BY <1>1 DEF BlkPhases
    <3> SUFFICES ASSUME NEW i \in 1 .. Len(r), NEW j \in 1 .. Len(r), r[i] = r[j] PROVE i = j
      OBVIOUS
    <3>3. i \in 1 .. Len(retry) <=> j \in 1 .. Len(retry)
      BY <2>1, <2>2, <3>1
    <3>4. CASE i \in 1 .. Len(retry)
      BY <2>1, <3>2, <3>3, <3>4
    <3>5. CASE i \notin 1 .. Len(retry)
      BY <2>2, <3>3, <3>5
    <3> QED
      BY <3>4, <3>5
  <2>5. retry' = r /\ cnt' = cnt + 1
    BY <1>2, <1>6 DEF r
  <2>6. BlkPhases'
    BY <1>2, <1>6, <2>3, <2>4, <2>5 DEF BlkPhases
  <2>7. ASSUME NEW v \in Blk!Workers PROVE EosSent(v)' <=> EosSent(v)
    <3>1. EosSent(v)' <=> v < cnt + 1 /\ \A i \in 1 .. Len(r) : r[i] # v
      BY <1>2, <2>5 DEF EosSent
    <3>2. EosSent(v) <=> v < cnt /\ \A i \in 1 .. Len(retry) : retry[i] # v
      BY <1>2 DEF EosSent
    <3>3. v < cnt + 1 <=> v < cnt \/ v = cnt
      BY <1>3
    <3>4. Len(retry) + 1 \in 1 .. Len(r) /\ \A i \in 1 .. Len(retry) : i \in 1 .. Len(r)
      BY <1>4, <2>1
    <3>5. (\A i \in 1 .. Len(r) : r[i] # v)
          <=> v # cnt /\ \A i \in 1 .. Len(retry) : retry[i] # v
      BY <2>1, <2>2, <3>4
    <3>6. ~ (cnt < cnt)
      BY <1>3
    <3> QED
      BY <3>1, <3>2, <3>3, <3>5, <3>6
  <2>8. epc \notin Busy /\ epc' \notin {"asleep", "basleep"}
        /\ epc' \in {"select", "full", "asleep", "bfull", "basleep", "owait", "oasleep", "done"}
    BY <1>2, <1>6 DEF Busy, Sends
  <2>9. nextw' \in Blk!Workers /\ cnt' \in 0 .. Running /\ retry' \in Seq(Blk!Workers)
        /\ UNCHANGED <<q, prod_counter, cons_counter, left, wpc, got>>
    BY <1>2, <1>3, <1>6, <2>1, <2>5
  <2> QED
    BY <2>6, <2>7, <2>8, <2>9, BlkIdle
<1> QED
  BY <1>2, <1>5, <1>6 DEF Blk!PushEos, Blk!Room, Blk!Put, Blk!EOS

\* The emitter of the ordered farm sends the end of the stream.
LEMMA BlkInOrder ==
  ASSUME Blk!SizeAssumption, BlkIInv, Blk!PushEosInOrder
  PROVE  BlkIInv'
<1>1. BlkTyped /\ BlkPhases
  BY DEF BlkIInv
<1>2. /\ Ordered /\ epc = "select" /\ left = 0 /\ cnt < Running
      /\ nextw' = (Blk!victim + cnt) % Running
      /\ UNCHANGED <<prod_counter, cons_counter, left, retry, wpc, got>>
  BY DEF Blk!PushEosInOrder, Blk!counters
<1>3. nextw' \in Blk!Workers /\ retry \in Seq(Blk!Workers) /\ retry' \in Seq(Blk!Workers)
      /\ cnt \in 0 .. Running /\ cnt + 1 \in 0 .. Running
      /\ \A v \in Blk!Workers : v \in Int
  <2>1. Running \in Nat \ {0} /\ Blk!Workers = 0 .. Running - 1
    BY BlkConstants
  <2>2. cnt \in 0 .. Running /\ retry \in Seq(Blk!Workers)
    BY <1>1 DEF BlkTyped
  <2>3. nextw' \in Blk!Workers
    BY <1>1, <1>2, Picked
  <2> QED
    BY <1>2, <2>1, <2>2, <2>3
<1>4. CASE Len(q[nextw']) < Size /\ q' = [q EXCEPT ![nextw'] = Append(q[nextw'], 0)]
           /\ epc' = "bsignal" /\ cnt' = cnt + 1
  <2>1. BlkPhases'
    <3>1. \A i \in 1 .. Len(retry) : retry[i] < cnt + 1
      <4>1. \A i \in 1 .. Len(retry) : retry[i] \in Blk!Workers /\ retry[i] < cnt
        BY <1>1, <1>3 DEF BlkPhases
      <4> QED
        BY <1>3, <4>1
    <3> QED
      BY <1>1, <1>2, <1>4, <3>1 DEF BlkPhases
  <2>2. /\ epc = "select" /\ left = 0 /\ cnt' \in 0 .. Running /\ Ordered
        /\ UNCHANGED <<prod_counter, cons_counter, left, wpc, got>>
    BY <1>2, <1>3, <1>4
  <2>3. \A w \in Blk!Workers :
          w = nextw' /\ Len(q[w]) < Size /\ q' = [q EXCEPT ![w] = Append(q[w], 0)] => BlkIInv'
    BY <1>3, <1>4, <2>1, <2>2, BlkEnding
  <2> QED
    BY <1>3, <1>4, <2>3
<1>5. CASE epc' = "owait" /\ UNCHANGED <<q, cnt>>
  <2>1. BlkPhases'
    BY <1>1, <1>2, <1>5 DEF BlkPhases
  <2>2. \A w \in Blk!Workers : EosSent(w)' <=> EosSent(w)
    BY <1>2, <1>5 DEF EosSent
  <2>3. epc \notin Busy /\ epc' \notin {"asleep", "basleep"}
    BY <1>2, <1>5 DEF Busy, Sends
  <2>4. /\ cnt' \in 0 .. Running /\ UNCHANGED <<q, prod_counter, cons_counter, left, wpc, got>>
        /\ epc' \in {"select", "full", "asleep", "bfull", "basleep", "owait", "oasleep", "done"}
    BY <1>2, <1>3, <1>5
  <2> QED
    BY <1>3, <2>1, <2>2, <2>3, <2>4, BlkIdle
<1> QED
  BY <1>4, <1>5 DEF Blk!PushEosInOrder, Blk!Room, Blk!Put, Blk!EOS

\* The emitter tries again a worker that had no room.
LEMMA BlkBroadcast ==
  ASSUME Blk!SizeAssumption, BlkIInv, Blk!Broadcast
  PROVE  BlkIInv'
<1> DEFINE n == Len(retry)
           u == Blk!Last(retry)
<1>1. BlkTyped /\ BlkPhases
  BY DEF BlkIInv
<1>2. /\ epc = "select" /\ left = 0 /\ cnt = Running /\ retry # <<>> /\ nextw' = u
      /\ UNCHANGED <<prod_counter, cons_counter, cnt, left, wpc, got>>
  BY DEF Blk!Broadcast, Blk!counters
<1>3. /\ retry \in Seq(Blk!Workers) /\ n \in Nat /\ n > 0
      /\ \A i \in 1 .. n : retry[i] \in Blk!Workers /\ retry[i] < cnt
      /\ \A i, j \in 1 .. n : retry[i] = retry[j] => i = j
      /\ cnt \in 0 .. Running
  BY <1>1, <1>2 DEF BlkTyped, BlkPhases
<1>4. u = retry[n] /\ n \in 1 .. n
  BY <1>3 DEF Blk!Last
<1> HIDE DEF u
<1>5. u \in Blk!Workers /\ u < cnt
  BY <1>3, <1>4
<1>6. CASE Len(q[u]) < Size /\ q' = [q EXCEPT ![u] = Append(q[u], 0)]
           /\ retry' = Blk!Front(retry) /\ epc' = "bsignal"
  <2> DEFINE r == Blk!Front(retry)
  <2>1. r \in Seq(Blk!Workers) /\ Len(r) = n - 1 /\ \A i \in 1 .. n - 1 : r[i] = retry[i]
    <3>1. r = SubSeq(retry, 1, n - 1)
      BY DEF Blk!Front
    <3>2. n - 1 \in Nat /\ \A i \in 1 .. n - 1 : i \in 1 .. n
      BY <1>3
    <3> DEFINE S == Blk!Workers
    <3>3. retry \in Seq(S) /\ n = Len(retry) /\ \A i \in 1 .. n : retry[i] \in S
      BY <1>3
    <3> HIDE DEF r, S, n
    <3>4. SubSeq(retry, 1, n - 1) = [i \in 1 .. n - 1 |-> retry[i]]
      BY <3>2, <3>3
    <3>5. r \in Seq(S)
      BY <3>1, <3>2, <3>3, <3>4
    <3>6. Len(r) = n - 1 /\ \A i \in 1 .. n - 1 : r[i] = retry[i]
      BY <3>1, <3>2, <3>4
    <3> QED
      BY <3>5, <3>6 DEF S
  <2> HIDE DEF r
  <2>2. \A i \in 1 .. Len(r) : i \in 1 .. n /\ i # n /\ r[i] = retry[i]
    BY <1>3, <2>1
  <2>3. retry' = r
    BY <1>6 DEF r
  <2>4. BlkPhases'
    BY <1>2, <1>3, <1>6, <2>2, <2>3 DEF BlkPhases
  <2>5. ~EosSent(u)
    BY <1>3, <1>4 DEF EosSent
  <2>6. ASSUME NEW v \in Blk!Workers PROVE EosSent(v)' <=> EosSent(v) \/ v = u
    <3>1. EosSent(v)' <=> v < cnt /\ \A i \in 1 .. Len(r) : r[i] # v
      BY <1>2, <2>3 DEF EosSent
    <3>2. EosSent(v) <=> v < cnt /\ \A i \in 1 .. n : retry[i] # v
      BY <1>2 DEF EosSent
    <3>3. \A i \in 1 .. n : i = n \/ i \in 1 .. Len(r)
      BY <1>3, <2>1
    <3>4. \A i \in 1 .. Len(r) : r[i] # u
      BY <1>3, <1>4, <2>2
    <3>5. CASE v = u
      BY <1>5, <3>1, <3>4, <3>5
    <3>6. CASE v # u
      <4>1. (\A i \in 1 .. Len(r) : r[i] # v) <=> \A i \in 1 .. n : retry[i] # v
        BY <1>4, <2>2, <3>3, <3>6
      <4> QED
        BY <3>1, <3>2, <3>6, <4>1
    <3> QED
      BY <3>5, <3>6
  <2>7. retry' \in Seq(Blk!Workers) /\ cnt' \in 0 .. Running
    BY <1>2, <1>3, <2>1, <2>3
  <2> QED
    BY <1>2, <1>5, <1>6, <2>4, <2>5, <2>6, <2>7, BlkEnding
<1>7. CASE epc' = "bfull" /\ UNCHANGED <<q, retry>>
  <2>1. BlkPhases'
    BY <1>1, <1>2, <1>7 DEF BlkPhases
  <2>2. \A w \in Blk!Workers : EosSent(w)' <=> EosSent(w)
    BY <1>2, <1>7 DEF EosSent
  <2>3. epc \notin Busy /\ epc' \notin {"asleep", "basleep"}
    BY <1>2, <1>7 DEF Busy, Sends
  <2>4. /\ nextw' \in Blk!Workers /\ cnt' \in 0 .. Running /\ retry' \in Seq(Blk!Workers)
        /\ UNCHANGED <<q, prod_counter, cons_counter, left, wpc, got>>
        /\ epc' \in {"select", "full", "asleep", "bfull", "basleep", "owait", "oasleep", "done"}
    BY <1>2, <1>3, <1>5, <1>7
  <2> QED
    BY <2>1, <2>2, <2>3, <2>4, BlkIdle
<1> QED
  BY <1>2, <1>6, <1>7 DEF Blk!Broadcast, Blk!Room, Blk!Put, Blk!EOS, u

\* It waits, or has ended.
LEMMA BlkWaitOrEnd ==
  ASSUME Blk!SizeAssumption, BlkIInv, Blk!WaitInOrder \/ Blk!EndBroadcast
  PROVE  BlkIInv'
<1>1. BlkTyped /\ BlkPhases
  BY DEF BlkIInv
<1>2. /\ \/ epc = "owait" /\ epc' = "oasleep"
         \/ epc = "select" /\ epc' = "done" /\ left = 0 /\ cnt = Running /\ retry = <<>>
      /\ UNCHANGED <<q, prod_counter, cons_counter, nextw, cnt, left, retry, wpc, got>>
  BY DEF Blk!WaitInOrder, Blk!EndBroadcast, Blk!counters
<1>3. BlkPhases'
  BY <1>1, <1>2 DEF BlkPhases
<1>4. \A w \in Blk!Workers : EosSent(w)' <=> EosSent(w)
  BY <1>2 DEF EosSent
<1>5. epc \notin Busy /\ epc' \notin {"asleep", "basleep"}
  BY <1>2 DEF Busy, Sends
<1>6. /\ nextw' \in Blk!Workers /\ cnt' \in 0 .. Running /\ retry' \in Seq(Blk!Workers)
      /\ UNCHANGED <<q, prod_counter, cons_counter, left, wpc, got>>
      /\ epc' \in {"select", "full", "asleep", "bfull", "basleep", "owait", "oasleep", "done"}
  BY <1>1, <1>2 DEF BlkTyped
<1> QED
  BY <1>3, <1>4, <1>5, <1>6, BlkIdle

-----------------------------------------------------------------------------
(* One step of a worker. *)

\* Steps of a worker that finds nothing, or wakes.
LEMMA BlkRest ==
  ASSUME Blk!SizeAssumption, BlkIInv, NEW w \in Blk!Workers,
         wpc[w] \in {"pop", "empty", "asleep"}, NEW s \in {"pop", "empty", "asleep"},
         s = "asleep" => cons_counter[w] = 0, wpc' = [wpc EXCEPT ![w] = s],
         UNCHANGED <<q, prod_counter, cons_counter, epc, nextw, cnt, left, retry, got>>
  PROVE  BlkIInv'
<1>1. /\ BlkTyped /\ prod_counter \in 0 .. Modulus - 1 /\ BlkPhases /\ BlkCounts /\ BlkSleep
      /\ BlkEos /\ BlkTurn /\ BlkWhole
  BY DEF BlkIInv
<1>2. BlkCounts' /\ BlkSleep'
  BY <1>1, RestKeeps
<1>3. /\ wpc' \in [Blk!Workers -> {"pop", "popdone", "dec", "empty", "asleep", "done"}]
      /\ \A v \in Blk!Workers :
           \/ wpc'[v] = wpc[v]
           \/ wpc[v] \in {"pop", "empty", "asleep"} /\ wpc'[v] \in {"pop", "empty", "asleep"}
  BY <1>1 DEF BlkTyped
<1>4. BlkEos' /\ BlkTurn' /\ BlkWhole'
  <2>1. Dealt' = Dealt
    BY <1>1, DealtNext
  <2>2. \A v \in Blk!Workers : EosSent(v)' <=> EosSent(v)
    BY DEF EosSent
  <2>3. UNCHANGED <<q, got>> /\ (left' > 0 => left > 0)
    OBVIOUS
  <2> QED
    BY <1>1, <1>3, <2>1, <2>2, <2>3, QuietKeeps
<1>5. BlkTyped' /\ BlkPhases' /\ (prod_counter \in 0 .. Modulus - 1)'
  <2>1. BlkTyped'
    BY <1>1, <1>3 DEF BlkTyped
  <2>2. BlkPhases'
    BY <1>1 DEF BlkPhases
  <2>3. (prod_counter \in 0 .. Modulus - 1)'
    BY <1>1
  <2> QED
    BY <2>1, <2>2, <2>3
<1> QED
  BY <1>2, <1>4, <1>5 DEF BlkIInv

\* A worker looks into its channel.
LEMMA BlkPop ==
  ASSUME Blk!SizeAssumption, BlkIInv, NEW w \in Blk!Workers, Blk!Pop(w)
  PROVE  BlkIInv'
<1>1. /\ BlkTyped /\ prod_counter \in 0 .. Modulus - 1 /\ BlkPhases /\ BlkCounts /\ BlkSleep
      /\ BlkEos /\ BlkTurn /\ BlkWhole
  BY DEF BlkIInv
<1>2. wpc[w] = "pop" /\ UNCHANGED <<prod_counter, cons_counter, epc, nextw, cnt, left, retry>>
  BY DEF Blk!Pop, Blk!counters, Blk!emitter
<1>3. CASE q[w] # <<>> /\ got' = [got EXCEPT ![w] = Append(@, Head(q[w]))]
           /\ q' = [q EXCEPT ![w] = Tail(@)] /\ wpc' = [wpc EXCEPT ![w] = "popdone"]
  <2>1. /\ BlkCounts' /\ BlkSleep'
        /\ q' \in [Blk!Workers -> Seq(0 .. NTasks)] /\ \A v \in Blk!Workers : Len(q'[v]) <= Size
    BY <1>1, <1>2, <1>3, PopKeeps
  <2>2. BlkEos' /\ BlkTurn' /\ BlkWhole' /\ got' \in [Blk!Workers -> Seq(0 .. NTasks)]
    BY <1>1, <1>2, <1>3, PopMoves
  <2>3. wpc' \in [Blk!Workers -> {"pop", "popdone", "dec", "empty", "asleep", "done"}]
    BY <1>1, <1>3 DEF BlkTyped
  <2>4. BlkTyped'
    BY <1>1, <1>2, <2>1, <2>2, <2>3 DEF BlkTyped
  <2>5. BlkPhases'
    BY <1>1, <1>2 DEF BlkPhases
  <2>6. (prod_counter \in 0 .. Modulus - 1)'
    BY <1>1, <1>2
  <2> QED
    BY <2>1, <2>2, <2>4, <2>5, <2>6 DEF BlkIInv
<1>4. CASE wpc' = [wpc EXCEPT ![w] = "empty"] /\ UNCHANGED <<q, got>>
  BY <1>2, <1>4, BlkRest
<1> QED
  BY <1>3, <1>4 DEF Blk!Pop

\* It tells the emitter that it took a task.
LEMMA BlkPopDone ==
  ASSUME Blk!SizeAssumption, BlkIInv, NEW w \in Blk!Workers, Blk!PopDone(w)
  PROVE  BlkIInv'
<1>1. /\ BlkTyped /\ prod_counter \in 0 .. Modulus - 1 /\ BlkPhases /\ BlkCounts /\ BlkSleep
      /\ BlkEos /\ BlkTurn /\ BlkWhole
  BY DEF BlkIInv
<1>2. /\ wpc[w] = "popdone" /\ Blk!WakeEmitter /\ prod_counter' = Blk!Down(prod_counter)
      /\ wpc' = [wpc EXCEPT ![w] = "dec"]
      /\ UNCHANGED <<q, cons_counter, nextw, cnt, left, retry, got>>
  BY DEF Blk!PopDone
<1>3. /\ BlkCounts' /\ BlkSleep' /\ prod_counter' \in 0 .. Modulus - 1
      /\ \/ epc' = epc
         \/ epc = "asleep" /\ epc' = "full"
         \/ epc = "basleep" /\ epc' = "bfull"
         \/ epc = "oasleep" /\ epc' = "select"
  BY <1>1, <1>2, DoneKeeps
<1>4. /\ wpc' \in [Blk!Workers -> {"pop", "popdone", "dec", "empty", "asleep", "done"}]
      /\ \A v \in Blk!Workers : wpc'[v] = wpc[v] \/ (wpc[v] = "popdone" /\ wpc'[v] = "dec")
  BY <1>1, <1>2 DEF BlkTyped
<1>5. BlkEos' /\ BlkTurn' /\ BlkWhole'
  <2>1. Dealt' = Dealt
    <3>1. left' = left /\ (epc' \in {"signal", "count"} <=> epc \in {"signal", "count"})
      BY <1>2, <1>3
    <3> QED
      BY <1>1, <3>1, DealtNext
  <2>2. \A v \in Blk!Workers : EosSent(v)' <=> EosSent(v)
    BY <1>2 DEF EosSent
  <2>3. UNCHANGED <<q, got>> /\ (left' > 0 => left > 0)
    BY <1>2
  <2> QED
    BY <1>1, <1>4, <2>1, <2>2, <2>3, QuietKeeps
<1>6. BlkTyped'
  BY <1>1, <1>2, <1>3, <1>4 DEF BlkTyped
<1>7. BlkPhases'
  BY <1>1, <1>2, <1>3 DEF BlkPhases
<1> QED
  BY <1>3, <1>5, <1>6, <1>7 DEF BlkIInv

\* It counts the task.
LEMMA BlkPopCount ==
  ASSUME Blk!SizeAssumption, BlkIInv, NEW w \in Blk!Workers, Blk!PopCount(w)
  PROVE  BlkIInv'
<1> DEFINE s == IF Blk!Last(got[w]) = 0 THEN "done" ELSE "pop"
<1>1. /\ BlkTyped /\ prod_counter \in 0 .. Modulus - 1 /\ BlkPhases /\ BlkCounts /\ BlkSleep
      /\ BlkEos /\ BlkTurn /\ BlkWhole
  BY DEF BlkIInv
<1>2. /\ wpc[w] = "dec" /\ cons_counter' = [cons_counter EXCEPT ![w] = Blk!Down(@)]
      /\ wpc' = [wpc EXCEPT ![w] = s]
      /\ UNCHANGED <<q, prod_counter, epc, nextw, cnt, left, retry, got>>
  BY DEF Blk!PopCount, Blk!EOS, Blk!emitter
<1>3. s \in {"pop", "done"}
  OBVIOUS
<1>4. BlkEos' /\ BlkTurn' /\ BlkWhole'
  BY <1>1, <1>2, LeaveKeeps
<1> HIDE DEF s
<1>5. BlkCounts' /\ BlkSleep' /\ cons_counter' \in [Blk!Workers -> 0 .. Modulus - 1]
  BY <1>1, <1>2, <1>3, DecKeeps
<1>6. wpc' \in [Blk!Workers -> {"pop", "popdone", "dec", "empty", "asleep", "done"}]
  BY <1>1, <1>2, <1>3 DEF BlkTyped
<1>7. BlkTyped'
  BY <1>1, <1>2, <1>5, <1>6 DEF BlkTyped
<1>8. BlkPhases'
  BY <1>1, <1>2 DEF BlkPhases
<1>9. (prod_counter \in 0 .. Modulus - 1)'
  BY <1>1, <1>2
<1> QED
  BY <1>4, <1>5, <1>7, <1>8, <1>9 DEF BlkIInv

\* It goes to sleep, or tries again.
LEMMA BlkEmpty ==
  ASSUME Blk!SizeAssumption, BlkIInv, NEW w \in Blk!Workers, Blk!Empty(w)
  PROVE  BlkIInv'
<1> DEFINE s == IF cons_counter[w] = 0 THEN "asleep" ELSE "pop"
<1>1. /\ wpc[w] = "empty" /\ wpc' = [wpc EXCEPT ![w] = s]
      /\ UNCHANGED <<q, prod_counter, cons_counter, epc, nextw, cnt, left, retry, got>>
  BY DEF Blk!Empty, Blk!counters, Blk!emitter
<1>2. s \in {"pop", "empty", "asleep"} /\ (s = "asleep" => cons_counter[w] = 0)
  OBVIOUS
<1> HIDE DEF s
<1> QED
  BY <1>1, <1>2, BlkRest

\* Somebody wakes for no reason.
LEMMA BlkSpurious ==
  ASSUME Blk!SizeAssumption, BlkIInv, Blk!Spurious
  PROVE  BlkIInv'
<1>1. BlkTyped /\ BlkPhases
  BY DEF BlkIInv
<1>2. CASE /\ \/ epc = "asleep" /\ epc' = "full"
              \/ epc = "basleep" /\ epc' = "bfull"
              \/ epc = "oasleep" /\ epc' = "select"
           /\ UNCHANGED <<q, prod_counter, cons_counter, nextw, cnt, left, retry, wpc, got>>
  <2>1. BlkPhases'
    BY <1>1, <1>2 DEF BlkPhases
  <2>2. \A w \in Blk!Workers : EosSent(w)' <=> EosSent(w)
    BY <1>2 DEF EosSent
  <2>3. epc \notin Busy /\ epc' \notin {"asleep", "basleep"}
    BY <1>2 DEF Busy, Sends
  <2>4. /\ nextw' \in Blk!Workers /\ cnt' \in 0 .. Running /\ retry' \in Seq(Blk!Workers)
        /\ UNCHANGED <<q, prod_counter, cons_counter, left, wpc, got>>
        /\ epc' \in {"select", "full", "asleep", "bfull", "basleep", "owait", "oasleep", "done"}
    BY <1>1, <1>2 DEF BlkTyped
  <2> QED
    BY <2>1, <2>2, <2>3, <2>4, BlkIdle
<1>3. CASE \E w \in Blk!Workers :
             /\ wpc[w] = "asleep" /\ wpc' = [wpc EXCEPT ![w] = "empty"]
             /\ UNCHANGED <<q, prod_counter, cons_counter, epc, nextw, cnt, left, retry, got>>
  <2>1. PICK w \in Blk!Workers :
             /\ wpc[w] = "asleep" /\ wpc' = [wpc EXCEPT ![w] = "empty"]
             /\ UNCHANGED <<q, prod_counter, cons_counter, epc, nextw, cnt, left, retry, got>>
    BY <1>3
  <2> QED
    BY <2>1, BlkRest
<1> QED
  BY <1>2, <1>3 DEF Blk!Spurious, Blk!counters, Blk!emitter

\* Nothing happens.
LEMMA BlkStutters ==
  ASSUME Blk!SizeAssumption, BlkIInv, UNCHANGED Blk!vars
  PROVE  BlkIInv'
<1>1. /\ BlkTyped /\ prod_counter \in 0 .. Modulus - 1 /\ BlkPhases /\ BlkCounts /\ BlkSleep
      /\ BlkEos /\ BlkTurn /\ BlkWhole
  BY DEF BlkIInv
<1>2. UNCHANGED <<q, prod_counter, cons_counter, epc, nextw, cnt, left, retry, wpc, got>>
  BY DEF Blk!vars, Blk!counters, Blk!emitter
<1>3. Load' = Load
  BY <1>2, LoadNext DEF Load
<1>4. \A w \in Blk!Workers : Due(w)' = Due(w)
  BY <1>2 DEF Due, Blk!One
<1>5. BlkCounts'
  BY <1>1, <1>2, <1>3, <1>4 DEF BlkCounts, Blk!One, Wrap
<1>6. BlkSleep'
  BY <1>1, <1>2, <1>3 DEF BlkSleep, Blk!One
<1>7. BlkEos' /\ BlkTurn' /\ BlkWhole'
  <2>1. Dealt' = Dealt
    BY <1>1, <1>2, DealtNext
  <2>2. \A v \in Blk!Workers : EosSent(v)' <=> EosSent(v)
    BY <1>2 DEF EosSent
  <2>3. UNCHANGED <<q, got>> /\ (left' > 0 => left > 0) /\ \A w \in Blk!Workers : wpc'[w] = wpc[w]
    BY <1>2
  <2> QED
    BY <1>1, <2>1, <2>2, <2>3, QuietKeeps
<1>8. BlkTyped' /\ BlkPhases' /\ (prod_counter \in 0 .. Modulus - 1)'
  <2>1. BlkTyped'
    BY <1>1, <1>2 DEF BlkTyped
  <2>2. BlkPhases'
    BY <1>1, <1>2 DEF BlkPhases
  <2>3. (prod_counter \in 0 .. Modulus - 1)'
    BY <1>1, <1>2
  <2> QED
    BY <2>1, <2>2, <2>3
<1> QED
  BY <1>5, <1>6, <1>7, <1>8 DEF BlkIInv

\* Every step keeps the invariant.
LEMMA BlkInductive ==
  ASSUME Blk!SizeAssumption
  PROVE  Blk!Spec => []BlkIInv
<1>1. Blk!Init => BlkIInv
  BY BlkStart
<1>2. ASSUME BlkIInv, [Blk!Next]_(Blk!vars) PROVE BlkIInv'
  <2>1. CASE Blk!Emitter
    BY <1>2, <2>1, BlkSelect, BlkPutSignal, BlkPutCount, BlkFull, BlkPushEos, BlkBroadcast,
       BlkInOrder, BlkWaitOrEnd DEF Blk!Emitter
  <2>2. CASE \E w \in Blk!Workers : Blk!Worker(w)
    <3>1. PICK w \in Blk!Workers : Blk!Worker(w)
      BY <2>2
    <3> QED
      BY <1>2, <3>1, BlkPop, BlkPopDone, BlkPopCount, BlkEmpty DEF Blk!Worker
  <2>3. CASE Blk!Spurious
    BY <1>2, <2>3, BlkSpurious
  <2>4. CASE UNCHANGED Blk!vars
    BY <1>2, <2>4, BlkStutters
  <2>5. Blk!Terminating => UNCHANGED Blk!vars
    BY DEF Blk!Terminating
  <2> QED
    BY <1>2, <2>1, <2>2, <2>3, <2>4, <2>5 DEF Blk!Next
<1> QED
  BY <1>1, <1>2, PTL DEF Blk!Spec

-----------------------------------------------------------------------------
(* What blocking mode promises. *)

\* The instance counts as this module does.
LEMMA BlkCard == \A S : Blk!Cardinality(S) = Cardinality(S)
BY DEF Blk!Cardinality, Cardinality

\* The parts of the promise follow from the invariant: the types,
LEMMA BlkPromisesTypes ==
  ASSUME Blk!SizeAssumption, BlkIInv
  PROVE  Blk!TypeOK
BY DEF BlkIInv, BlkTyped, Busy, Sends, Blk!TypeOK

\* that the counters are exact,
LEMMA BlkPromisesCounters ==
  ASSUME Blk!SizeAssumption, BlkIInv
  PROVE  Blk!CountersExact
<1>1. BlkCounts
  BY DEF BlkIInv
<1>2. Blk!Queued = Cardinality(Filled(q))
  BY BlkCard DEF Blk!Queued, Filled
<1>3. Blk!Cardinality({w \in Blk!Workers : wpc[w] = "popdone"}) = Cardinality(Popped(wpc))
  BY BlkCard DEF Popped
<1>4. Blk!One(epc \in {"signal", "count", "bsignal", "bcount"}) = Blk!One(epc \in Busy)
  BY DEF Blk!One, Busy, Sends
<1>5. \A w \in Blk!Workers :
        Blk!One(epc \in {"signal", "bsignal"} /\ nextw = w) = Blk!One(epc \in Sends /\ nextw = w)
  BY DEF Sends
<1>6. prod_counter = (Blk!Queued + Blk!Cardinality({w \in Blk!Workers : wpc[w] = "popdone"})
                      - Blk!One(epc \in {"signal", "count", "bsignal", "bcount"}) + Modulus) % Modulus
  <2>1. prod_counter = (Cardinality(Filled(q)) + Cardinality(Popped(wpc)) - Blk!One(epc \in Busy)
                        + Modulus) % Modulus
    <3>1. prod_counter = Wrap(Load - Blk!One(epc \in Busy))
      BY <1>1 DEF BlkCounts
    <3>2. Load - Blk!One(epc \in Busy)
          = Cardinality(Filled(q)) + Cardinality(Popped(wpc)) - Blk!One(epc \in Busy)
      <4>1. Cardinality(Filled(q)) \in Nat /\ Cardinality(Popped(wpc)) \in Nat
        BY BlkCounted
      <4>2. Blk!One(epc \in Busy) \in Nat
        BY DEF Blk!One
      <4> QED
        BY <4>1, <4>2 DEF Load
    <3>3. \A x : Wrap(x) = (x + Modulus) % Modulus
      BY Zenon DEF Wrap
    <3> QED
      BY <3>1, <3>2, <3>3, Zenon
  <2> QED
    BY <2>1, <1>2, <1>3, <1>4, Zenon
<1>7. ASSUME NEW w \in Blk!Workers
      PROVE  cons_counter[w] = (Len(q[w]) + Blk!One(wpc[w] \in {"popdone", "dec"})
                                - Blk!One(epc \in {"signal", "bsignal"} /\ nextw = w)
                                + Modulus) % Modulus
  <2>1. cons_counter[w] = (Len(q[w]) + Blk!One(wpc[w] \in {"popdone", "dec"})
                           - Blk!One(epc \in Sends /\ nextw = w) + Modulus) % Modulus
    BY <1>1, Zenon DEF BlkCounts, Due, Wrap
  <2>2. Blk!One(epc \in {"signal", "bsignal"} /\ nextw = w) = Blk!One(epc \in Sends /\ nextw = w)
    BY <1>5
  <2> QED
    BY <2>1, <2>2, Zenon
<1> QED
  BY <1>6, <1>7, Zenon DEF Blk!CountersExact

\* that nobody sleeps through his work,
LEMMA BlkPromisesWakeups ==
  ASSUME Blk!SizeAssumption, BlkIInv
  PROVE  Blk!NoLostWakeup
<1>1. BlkTyped /\ BlkSleep
  BY DEF BlkIInv
<1>2. ASSUME epc \in {"asleep", "basleep"}, \A w \in Blk!Workers : q[w] = <<>> /\ wpc[w] # "popdone"
      PROVE  FALSE
  <2>1. Filled(q) = {}
    <3> SUFFICES ASSUME NEW p \in Blk!Workers \X (1 .. Size), p[2] <= Len(q[p[1]]) PROVE FALSE
      BY DEF Filled
    <3>1. p[1] \in Blk!Workers /\ p[2] \in 1 .. Size
      OBVIOUS
    <3>2. Len(q[p[1]]) = 0
      BY <1>2, <3>1
    <3>3. Size \in Nat
      BY BlkConstants
    <3> QED
      BY <3>1, <3>2, <3>3
  <2>2. Popped(wpc) = {}
    BY <1>2 DEF Popped
  <2>3. Load = 0
    BY <2>1, <2>2, FS_EmptySet DEF Load
  <2> QED
    BY <1>1, <1>2, <2>3, BlkConstants DEF BlkSleep
<1>3. ASSUME NEW w \in Blk!Workers, wpc[w] = "asleep", ~ (epc \in Sends /\ nextw = w)
      PROVE  q[w] = <<>>
  <2>1. Len(q[w]) = 0
    BY <1>1, <1>3 DEF BlkSleep, Blk!One
  <2>2. q[w] \in Seq(Nat)
    BY <1>1, ChannelTyped
  <2> QED
    BY <2>1, <2>2
<1> QED
  BY <1>2, <1>3 DEF Blk!NoLostWakeup, Sends

\* that the ordered farm deals in turn,
LEMMA BlkPromisesTurns ==
  ASSUME Blk!SizeAssumption, BlkIInv
  PROVE  Blk!InTurn
<1>1. BlkTyped /\ BlkTurn
  BY DEF BlkIInv
<1>2. \A w \in Blk!Workers : DOMAIN got[w] = 1 .. Len(got[w])
  BY <1>1, ChannelTyped
<1> QED
  BY <1>1, <1>2 DEF Blk!InTurn, BlkTurn, Turn, Blk!EOS

\* and that at the end everything has been received, once.
LEMMA BlkPromisesEnd ==
  ASSUME Blk!SizeAssumption, BlkIInv, ~Ordered
  PROVE  Blk!EndComplete
<1> SUFFICES ASSUME epc = "done", \A w \in Blk!Workers : wpc[w] = "done"
             PROVE  /\ \A t \in 1 .. NTasks :
                         Blk!Cardinality({p \in Blk!Workers \X (1 .. NTasks) :
                            p[2] \in DOMAIN got[p[1]] /\ got[p[1]][p[2]] = t}) = 1
                    /\ \A w \in Blk!Workers :
                         Blk!Cardinality({i \in DOMAIN got[w] : got[w][i] = Blk!EOS}) = 1
  BY DEF Blk!EndComplete
<1>1. BlkTyped /\ BlkPhases /\ BlkEos /\ BlkWhole
  BY DEF BlkIInv
<1>2. NTasks \in Nat
  BY BlkConstants
<1>3. left = 0 /\ cnt = Running /\ retry = <<>>
  BY <1>1 DEF BlkPhases
<1>4. ASSUME NEW w \in Blk!Workers
      PROVE  /\ Has(got[w]) /\ Closes(got[w]) /\ q[w] = <<>>
             /\ Len(got[w]) \in Nat /\ DOMAIN got[w] = 1 .. Len(got[w])
             /\ \A i \in 1 .. Len(got[w]) : got[w][i] \in 0 .. NTasks
             /\ Len(got[w]) \in 1 .. Len(got[w]) /\ got[w][Len(got[w])] = 0
  <2>1. Has(got[w]) /\ Closes(got[w]) /\ q[w] = <<>>
    BY <1>1 DEF BlkEos
  <2>2. Len(got[w]) \in Nat /\ DOMAIN got[w] = 1 .. Len(got[w])
    BY <1>1, ChannelTyped
  <2>3. \A i \in 1 .. Len(got[w]) : got[w][i] \in 0 .. NTasks
    <3> DEFINE S == 0 .. NTasks
    <3>1. got[w] \in Seq(S)
      BY <1>1, ChannelTyped
    <3> HIDE DEF S
    <3>2. \A i \in 1 .. Len(got[w]) : got[w][i] \in S
      BY <3>1
    <3> QED
      BY <3>2 DEF S
  <2>4. Len(got[w]) \in 1 .. Len(got[w]) /\ got[w][Len(got[w])] = 0
    BY <2>1 DEF Has, Closes
  <2> QED
    BY <2>1, <2>2, <2>3, <2>4
<1> DEFINE c == Places(q, got)
<1>5. Whole(c, NTasks)
  <2>1. Dealt = NTasks
    <3>1. Blk!One(epc \in {"signal", "count"}) = 0
      BY DEF Blk!One
    <3> QED
      BY <1>2, <1>3, <3>1 DEF Dealt
  <2> QED
    BY <1>1, <2>1 DEF BlkWhole
<1>6. ASSUME NEW w \in Blk!Workers
      PROVE  /\ <<"q", w>> \in DOMAIN c /\ c[<<"q", w>>] = <<>>
             /\ <<"got", w>> \in DOMAIN c /\ Len(c[<<"got", w>>]) = Len(got[w])
             /\ \A i \in 1 .. Len(got[w]) : c[<<"got", w>>][i] = Face(got[w][i])
  <2>1. /\ c[<<"q", w>>] = Flip(q[w]) /\ c[<<"got", w>>] = Flip(got[w])
        /\ <<"q", w>> \in DOMAIN c /\ <<"got", w>> \in DOMAIN c
    BY PlacesAre
  <2>2. Flip(<<>>) = <<>>
    BY DEF Flip
  <2>3. Len(Flip(got[w])) = Len(got[w]) /\ \A i \in 1 .. Len(got[w]) : Flip(got[w])[i] = Face(got[w][i])
    BY <1>4 DEF Flip
  <2> QED
    BY <1>4, <2>1, <2>2, <2>3
<1>7. \A k \in DOMAIN c : \E w \in Blk!Workers : k = <<"q", w>> \/ k = <<"got", w>>
  BY PlacesSame
<1> HIDE DEF c
\* What is at a place has been at no other.
<1>8. ASSUME NEW v \in Blk!Workers, NEW w \in Blk!Workers,
             NEW i \in 1 .. Len(got[v]), NEW j \in 1 .. Len(got[w]),
             got[v][i] = got[w][j], got[v][i] # 0
      PROVE  v = w /\ i = j
  <2>1. Face(got[v][i]) # 0
    BY <1>2, <1>4, <1>8 DEF Face
  <2>2. /\ c[<<"got", v>>][i] = c[<<"got", w>>][j] /\ c[<<"got", v>>][i] # 0
        /\ <<"got", v>> \in DOMAIN c /\ <<"got", w>> \in DOMAIN c
        /\ i \in 1 .. Len(c[<<"got", v>>]) /\ j \in 1 .. Len(c[<<"got", w>>])
    BY <1>6, <1>8, <2>1
  <2>3. Apart(c)
    BY <1>5 DEF Whole
  <2>4. <<"got", v>> = <<"got", w>> /\ i = j
    BY <2>2, <2>3 DEF Apart
  <2> QED
    BY <2>4
<1>9. ASSUME NEW t \in 1 .. NTasks
      PROVE  \E w \in Blk!Workers : \E i \in 1 .. Len(got[w]) : got[w][i] = t
  <2>1. NTasks + 1 - t \in 1 .. NTasks
    BY <1>2
  <2>2. PICK k \in DOMAIN c : \E i \in 1 .. Len(c[k]) : c[k][i] = NTasks + 1 - t
    BY <1>5, <2>1 DEF Whole, Found
  <2>3. PICK i \in 1 .. Len(c[k]) : c[k][i] = NTasks + 1 - t
    BY <2>2
  <2>4. PICK w \in Blk!Workers : k = <<"q", w>> \/ k = <<"got", w>>
    BY <1>7
  <2>5. k # <<"q", w>>
    <3>1. Len(<<>>) = 0 /\ 1 .. 0 = {}
      OBVIOUS
    <3> QED
      BY <1>6, <2>3, <3>1
  <2>6. i \in 1 .. Len(got[w]) /\ Face(got[w][i]) = NTasks + 1 - t
    BY <1>6, <2>3, <2>4, <2>5
  <2>7. got[w][i] = t
    <3>1. got[w][i] \in 0 .. NTasks
      BY <1>4, <2>6
    <3> QED
      BY <1>2, <2>1, <2>6, <3>1 DEF Face
  <2> QED
    BY <2>6, <2>7
<1>10. ASSUME NEW w \in Blk!Workers, NEW i \in 1 .. Len(got[w]), got[w][i] # 0
       PROVE  i <= NTasks
  <2>1. \A j \in 1 .. i : j \in 1 .. Len(got[w]) /\ got[w][j] \in 1 .. NTasks
    <3> SUFFICES ASSUME NEW j \in 1 .. i
                 PROVE  j \in 1 .. Len(got[w]) /\ got[w][j] \in 1 .. NTasks
      OBVIOUS
    <3>1. Len(got[w]) \in Nat /\ i # Len(got[w])
      BY <1>4, <1>10
    <3>2. j \in 1 .. Len(got[w]) /\ j # Len(got[w])
      BY <3>1
    <3>3. got[w][j] # 0 /\ got[w][j] \in 0 .. NTasks
      BY <1>4, <3>2 DEF Closes
    <3> QED
      BY <1>2, <3>2, <3>3
  <2> DEFINE f == [j \in 1 .. i |-> got[w][j]]
  <2>2. f \in [1 .. i -> 1 .. NTasks]
    BY <2>1
  <2>3. \A j, l \in 1 .. i : f[j] = f[l] => j = l
    <3> SUFFICES ASSUME NEW j \in 1 .. i, NEW l \in 1 .. i, got[w][j] = got[w][l] PROVE j = l
      OBVIOUS
    <3>1. got[w][j] # 0
      BY <1>2, <2>1
    <3> QED
      BY <1>8, <2>1, <3>1
  <2>4. /\ IsFiniteSet(1 .. i) /\ Cardinality(1 .. i) = i
        /\ IsFiniteSet(1 .. NTasks) /\ Cardinality(1 .. NTasks) = NTasks
    <3>1. i \in Nat /\ i >= 1
      BY <1>4
    <3> QED
      BY <1>2, <3>1, FS_Interval
  <2> HIDE DEF f
  <2>5. ~ (NTasks < i)
    <3> SUFFICES ASSUME NTasks < i PROVE FALSE
      OBVIOUS
    <3>1. Cardinality(1 .. NTasks) < Cardinality(1 .. i)
      BY <2>4
    <3> DEFINE A == 1 .. i
               B == 1 .. NTasks
    <3>2. IsFiniteSet(A) /\ IsFiniteSet(B) /\ Cardinality(B) < Cardinality(A) /\ f \in [A -> B]
      BY <2>2, <2>4, <3>1
    <3> HIDE DEF A, B
    <3>3. \E j, l \in A : j # l /\ f[j] = f[l]
      BY <3>2, FS_PigeonHole
    <3> QED
      BY <2>3, <3>3 DEF A
  <2>6. i \in Int
    OBVIOUS
  <2> QED
    BY <1>2, <2>5, <2>6
<1>11. ASSUME NEW t \in 1 .. NTasks
       PROVE  Blk!Cardinality({p \in Blk!Workers \X (1 .. NTasks) :
                                 p[2] \in DOMAIN got[p[1]] /\ got[p[1]][p[2]] = t}) = 1
  <2> DEFINE T == {p \in Blk!Workers \X (1 .. NTasks) :
                     p[2] \in DOMAIN got[p[1]] /\ got[p[1]][p[2]] = t}
  <2>1. PICK w \in Blk!Workers : \E i \in 1 .. Len(got[w]) : got[w][i] = t
    BY <1>9
  <2>2. PICK i \in 1 .. Len(got[w]) : got[w][i] = t
    BY <2>1
  <2>3. t # 0 /\ i \in 1 .. NTasks
    <3>1. t # 0
      BY <1>2
    <3>2. i <= NTasks
      BY <1>10, <2>2, <3>1
    <3> QED
      BY <1>2, <3>1, <3>2
  <2>4. <<w, i>> \in T
    BY <1>4, <2>2, <2>3
  <2>5. ASSUME NEW p \in T PROVE p = <<w, i>>
    <3>1. p = <<p[1], p[2]>> /\ p[1] \in Blk!Workers /\ got[p[1]][p[2]] = t /\ p[2] \in DOMAIN got[p[1]]
      OBVIOUS
    <3>2. p[2] \in 1 .. Len(got[p[1]])
      BY <1>4, <3>1
    <3>3. p[1] = w /\ p[2] = i
      BY <1>8, <2>2, <2>3, <3>1, <3>2
    <3> QED
      BY <3>1, <3>3
  <2> HIDE DEF T
  <2>6. T = {<<w, i>>}
    BY <2>4, <2>5
  <2>7. Cardinality(T) = 1
    BY <2>6, FS_Singleton
  <2> QED
    BY <2>7, BlkCard DEF T
<1>12. ASSUME NEW w \in Blk!Workers
       PROVE  Blk!Cardinality({i \in DOMAIN got[w] : got[w][i] = Blk!EOS}) = 1
  <2>1. {i \in DOMAIN got[w] : got[w][i] = Blk!EOS} = {Len(got[w])}
    BY <1>4 DEF Closes, Blk!EOS
  <2> QED
    BY <2>1, BlkCard, FS_Singleton
<1> QED
  BY <1>11, <1>12

\* In blocking mode nobody sleeps through his work: the counters by which the emitter and
\* the workers wake each other are exact but for what a thread is in the middle of, an
\* emitter sleeps only while a worker has a task whose end will wake it, and a worker
\* only while there is nothing for it; the ordered farm deals in turn, and in the other
\* every task has reached one worker when everybody has ended, and every worker its end
\* of the stream once.  For any number of workers and tasks and any size of the channels.
THEOREM NobodySleeps ==
  ASSUME Blk!SizeAssumption
  PROVE  Blk!Spec => []Blk!NobodySleepsThrough
<1>1. Blk!Spec => []BlkIInv
  BY BlkInductive
<1>2. BlkIInv => Blk!NobodySleepsThrough
  BY BlkPromisesTypes, BlkPromisesCounters, BlkPromisesWakeups, BlkPromisesTurns, BlkPromisesEnd
     DEF Blk!NobodySleepsThrough
<1> QED
  BY <1>1, <1>2, PTL
=============================================================================
