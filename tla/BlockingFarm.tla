---------------------------- MODULE BlockingFarm ----------------------------
(***************************************************************************)
(* Blocking mode of FastFlow: an emitter sends tasks to its workers over    *)
(* bounded channels (lb.hpp: schedule_task, broadcast_task, put_done) and   *)
(* the workers receive them (node.hpp: Pop).  A thread that finds nothing   *)
(* to do sleeps on its own condition variable; its peers wake it by looking *)
(* at counters, of which the emitter's is shared by all workers.  Each      *)
(* counter is raised by one side and lowered by the other, one of the two   *)
(* outside the mutex, and both after the channel has changed.  With one     *)
(* worker this is also the channel between two nodes (node.hpp: Push).      *)
(***************************************************************************)
EXTENDS Integers, Sequences, FiniteSets, SequencesExt

CONSTANTS
  Running,     \* number of workers
  Size,        \* buffersize() of each channel
  Ordered,     \* the balancer of the ordered farm (farm.hpp: ofarm_lb)
  NTasks,      \* bound: tasks before the end of stream
  Modulus      \* unsigned long wraps here

SizeAssumption ==
  /\ Running \in Nat \ {0} /\ Size \in Nat \ {0} /\ NTasks \in Nat
  /\ Ordered \in BOOLEAN
  /\ Modulus \in Nat /\ Modulus > Running * Size + Running + 1

EOS == 0   \* tasks are 1 .. NTasks

Workers == 0 .. Running - 1

VARIABLES
  q,              \* the channels
  prod_counter,   \* the emitter's
  cons_counter,   \* one per worker
  epc, nextw,     \* emitter: where it is, the worker it tries
  cnt, left,      \* attempts in this round, tasks still to send
  retry,          \* broadcast: workers that still miss the end of stream
  wpc, got        \* workers: where each is, and the tasks it received

counters == <<prod_counter, cons_counter>>
emitter == <<epc, nextw, cnt, left, retry>>
vars == <<q, counters, emitter, wpc, got>>

Up(n) == (n + 1) % Modulus
Down(n) == (n + Modulus - 1) % Modulus

Init ==
  /\ q = [w \in Workers |-> <<>>]
  /\ prod_counter = 0 /\ cons_counter = [w \in Workers |-> 0]
  /\ epc = "select" /\ nextw = Running - 1 /\ cnt = 0 /\ left = NTasks /\ retry = <<>>
  /\ wpc = [w \in Workers |-> "pop"]
  /\ got = [w \in Workers |-> <<>>]

-----------------------------------------------------------------------------
(* The emitter *)

Room(w) == Len(q[w]) < Size

Put(w, t) == q' = [q EXCEPT ![w] = Append(@, t)]

\* The ordered farm's turn moves with every task sent.
victim == (NTasks - left) % Running

selectworker == IF Ordered THEN victim ELSE (nextw + 1) % Running

\* schedule_task: try the next worker; after a round without success, wait.
Select ==
  /\ epc = "select" /\ left > 0
  /\ nextw' = selectworker
  /\ \/ Room(nextw') /\ Put(nextw', left) /\ epc' = "signal" /\ cnt' = 0
     \/ /\ ~Room(nextw')
        /\ cnt' = (cnt + 1) % Running
        /\ epc' = IF cnt' = 0 THEN "full" ELSE "select"
        /\ UNCHANGED q
  /\ UNCHANGED <<counters, left, retry, wpc, got>>

\* Seeded fault: no signal.
WakeWorkerNever(w) == UNCHANGED wpc

WakeWorker(w) ==
  wpc' = [wpc EXCEPT ![w] = IF cons_counter[w] = 0 /\ @ = "asleep" THEN "empty" ELSE @]

\* put_done, with the worker's mutex: signal at zero, and count.
PutSignal ==
  /\ epc \in {"signal", "bsignal"}
  /\ WakeWorker(nextw)
  /\ cons_counter' = [cons_counter EXCEPT ![nextw] = Up(@)]
  /\ epc' = IF epc = "signal" THEN "count" ELSE "bcount"
  /\ UNCHANGED <<q, prod_counter, nextw, cnt, left, retry, got>>

\* ++prod_counter, without a mutex.
PutCount ==
  /\ epc \in {"count", "bcount"}
  /\ prod_counter' = Up(prod_counter)
  /\ epc' = "select"
  /\ left' = IF epc = "count" THEN left - 1 ELSE left
  /\ UNCHANGED <<q, cons_counter, nextw, cnt, retry, wpc, got>>

\* The channels that count as full: all, or those still missing the broadcast.
threshold == Size * (IF epc = "full" THEN Running ELSE Len(retry))

\* while(prod_counter >= threshold) wait
Full ==
  /\ epc \in {"full", "bfull"}
  /\ epc' = IF prod_counter >= threshold
            THEN (IF epc = "full" THEN "asleep" ELSE "basleep")
            ELSE "select"
  /\ UNCHANGED <<q, counters, nextw, cnt, left, retry, wpc, got>>

\* broadcast_task(EOS): one attempt per worker.
PushEos ==
  /\ ~Ordered /\ epc = "select" /\ left = 0 /\ cnt < Running
  /\ cnt' = cnt + 1 /\ nextw' = cnt
  /\ \/ Room(cnt) /\ Put(cnt, EOS) /\ epc' = "bsignal" /\ UNCHANGED retry
     \/ ~Room(cnt) /\ retry' = Append(retry, cnt) /\ UNCHANGED <<q, epc>>
  /\ UNCHANGED <<counters, left, wpc, got>>

\* Then those that were full, the last one first.
Broadcast ==
  /\ epc = "select" /\ left = 0 /\ cnt = Running /\ retry # <<>>
  /\ nextw' = Last(retry)
  /\ \/ Room(nextw') /\ Put(nextw', EOS) /\ retry' = Front(retry) /\ epc' = "bsignal"
     \/ ~Room(nextw') /\ epc' = "bfull" /\ UNCHANGED <<q, retry>>
  /\ UNCHANGED <<counters, cnt, left, wpc, got>>

\* The ordered farm's: one worker after the other, from the victim on, and after
\* an attempt that found no room a wait without a look at the counter.
PushEosInOrder ==
  /\ Ordered /\ epc = "select" /\ left = 0 /\ cnt < Running
  /\ nextw' = (victim + cnt) % Running
  /\ \/ Room(nextw') /\ Put(nextw', EOS) /\ epc' = "bsignal" /\ cnt' = cnt + 1
     \/ ~Room(nextw') /\ epc' = "owait" /\ UNCHANGED <<q, cnt>>
  /\ UNCHANGED <<counters, left, retry, wpc, got>>

WaitInOrder ==
  /\ epc = "owait" /\ epc' = "oasleep"
  /\ UNCHANGED <<q, counters, nextw, cnt, left, retry, wpc, got>>

EndBroadcast ==
  /\ epc = "select" /\ left = 0 /\ cnt = Running /\ retry = <<>>
  /\ epc' = "done"
  /\ UNCHANGED <<q, counters, nextw, cnt, left, retry, wpc, got>>

-----------------------------------------------------------------------------
(* The workers *)

Pop(w) ==
  /\ wpc[w] = "pop"
  /\ \/ /\ q[w] # <<>>
        /\ got' = [got EXCEPT ![w] = Append(@, Head(q[w]))]
        /\ q' = [q EXCEPT ![w] = Tail(@)]
        /\ wpc' = [wpc EXCEPT ![w] = "popdone"]
     \/ /\ q[w] = <<>>
        /\ wpc' = [wpc EXCEPT ![w] = "empty"]
        /\ UNCHANGED <<q, got>>
  /\ UNCHANGED <<counters, emitter>>

\* A channel's worth of tasks is out: the emitter may be waiting.
MustWake == prod_counter >= Size

WakeEmitter ==
  epc' = IF MustWake THEN (IF epc = "asleep" THEN "full"
                           ELSE IF epc = "basleep" THEN "bfull"
                           ELSE IF epc = "oasleep" THEN "select" ELSE epc)
         ELSE epc

\* With the emitter's mutex: signal, and count down.
PopDone(w) ==
  /\ wpc[w] = "popdone"
  /\ WakeEmitter
  /\ prod_counter' = Down(prod_counter)
  /\ wpc' = [wpc EXCEPT ![w] = "dec"]
  /\ UNCHANGED <<q, cons_counter, nextw, cnt, left, retry, got>>

\* --cons_counter, without a mutex; then svc, and the next Pop.
PopCount(w) ==
  /\ wpc[w] = "dec"
  /\ cons_counter' = [cons_counter EXCEPT ![w] = Down(@)]
  /\ wpc' = [wpc EXCEPT ![w] = IF Last(got[w]) = EOS THEN "done" ELSE "pop"]
  /\ UNCHANGED <<q, prod_counter, emitter, got>>

\* while(cons_counter == 0) wait
Empty(w) ==
  /\ wpc[w] = "empty"
  /\ wpc' = [wpc EXCEPT ![w] = IF cons_counter[w] = 0 THEN "asleep" ELSE "pop"]
  /\ UNCHANGED <<q, counters, emitter, got>>

Spurious ==
  \/ /\ epc \in {"asleep", "basleep", "oasleep"}
     /\ epc' = CASE epc = "asleep" -> "full" [] epc = "basleep" -> "bfull"
                 [] epc = "oasleep" -> "select"
     /\ UNCHANGED <<q, counters, nextw, cnt, left, retry, wpc, got>>
  \/ \E w \in Workers : /\ wpc[w] = "asleep"
                        /\ wpc' = [wpc EXCEPT ![w] = "empty"]
                        /\ UNCHANGED <<q, counters, emitter, got>>

Emitter == Select \/ PutSignal \/ PutCount \/ Full \/ PushEos \/ Broadcast
           \/ PushEosInOrder \/ WaitInOrder \/ EndBroadcast

Worker(w) == Pop(w) \/ PopDone(w) \/ PopCount(w) \/ Empty(w)

Terminating == /\ epc = "done" /\ \A w \in Workers : wpc[w] = "done"
               /\ UNCHANGED vars

Next == Emitter \/ (\E w \in Workers : Worker(w)) \/ Spurious \/ Terminating

Spec == Init /\ [][Next]_vars

\* Every thread runs while it is awake.
FairSpec == Spec /\ WF_vars(Emitter) /\ \A w \in Workers : WF_vars(Worker(w))

-----------------------------------------------------------------------------
(* Properties *)

One(b) == IF b THEN 1 ELSE 0

Queued == Cardinality({p \in Workers \X (1 .. Size) : p[2] <= Len(q[p[1]])})

\* Type correctness.
TypeOK ==
  /\ \A w \in Workers : Len(q[w]) <= Size
  /\ prod_counter \in 0 .. Modulus - 1
  /\ cons_counter \in [Workers -> 0 .. Modulus - 1]
  /\ epc \in {"select", "signal", "count", "full", "asleep", "bsignal",
              "bcount", "bfull", "basleep", "owait", "oasleep", "done"}
  /\ wpc \in [Workers -> {"pop", "popdone", "dec", "empty", "asleep", "done"}]

\* The counters are off by what the threads are in the middle of, and by no more:
\* below zero they wrap, and a later step of the other side makes up for it.
CountersExact ==
  /\ prod_counter = (Queued + Cardinality({w \in Workers : wpc[w] = "popdone"})
                     - One(epc \in {"signal", "count", "bsignal", "bcount"})
                     + Modulus) % Modulus
  /\ \A w \in Workers :
       cons_counter[w] = (Len(q[w]) + One(wpc[w] \in {"popdone", "dec"})
                          - One(epc \in {"signal", "bsignal"} /\ nextw = w)
                          + Modulus) % Modulus

\* Nobody sleeps through his work: an emitter sleeps only while a worker has a
\* task whose end will wake it, and a worker only while its channel is empty or
\* the emitter is about to wake it.
NoLostWakeup ==
  /\ epc \in {"asleep", "basleep"} =>
       \E w \in Workers : q[w] # <<>> \/ wpc[w] = "popdone"
  /\ \A w \in Workers :
       wpc[w] = "asleep" => q[w] = <<>> \/ (epc \in {"signal", "bsignal"} /\ nextw = w)

\* At the end every task has reached one worker, in order, and every worker has
\* received one end of stream, after its tasks.
EndComplete ==
  (epc = "done" /\ \A w \in Workers : wpc[w] = "done") =>
    /\ \A t \in 1 .. NTasks :
         Cardinality({p \in Workers \X (1 .. NTasks) :
                        p[2] \in DOMAIN got[p[1]] /\ got[p[1]][p[2]] = t}) = 1
    /\ \A w \in Workers : Cardinality({i \in DOMAIN got[w] : got[w][i] = EOS}) = 1

\* The ordered farm deals in turn, however its workers lag behind: the i-th task of
\* worker w is the one its collector will expect there.
InTurn ==
  Ordered => \A w \in Workers : \A i \in DOMAIN got[w] :
               got[w][i] # EOS => got[w][i] = NTasks - (w + (i - 1) * Running)

\* What blocking mode promises in any state, as one.  (EndComplete needs the whole
\* broadcast, of which the ordered farm's may stop half way.)
NobodySleepsThrough ==
  /\ TypeOK /\ CountersExact /\ NoLostWakeup
  /\ IF Ordered THEN InTurn ELSE EndComplete

\* Nobody sleeps for ever, and broadcast_task, which "broadcast[s] the same task to
\* all workers, respecting the scheduling order" in the ordered farm (farm.hpp:1324),
\* reaches them: the stream ends for everybody.
AllEnd == <>(epc = "done" /\ \A w \in Workers : wpc[w] = "done")
=============================================================================
