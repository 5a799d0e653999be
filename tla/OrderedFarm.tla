---------------------------- MODULE OrderedFarm ----------------------------
(***************************************************************************)
(* FastFlow's ordered farm (farm.hpp: ofarm_lb, ofarm_gt, ofarmE, ofarmC;   *)
(* lb.hpp and gt.hpp for what they inherit; node.hpp for the workers).      *)
(* Nothing numbers the tasks: the emitter deals them to the workers in      *)
(* turn, the collector reads the workers in turn, and the results come out  *)
(* in the order of the tasks because both ends take the same turns: past    *)
(* the ends of stream, and past a freeze, after which both continue where   *)
(* they stopped.  The channels are the queues that SWSRBuffer implements.   *)
(* A worker gives one result per task.  A thread that finds a channel full  *)
(* or empty spins (losetime): that changes nothing and is no action.        *)
(***************************************************************************)
EXTENDS Integers, Sequences, FiniteSets, SequencesExt, FiniteSetsExt

CONSTANTS
  NWorkers,   \* workers.size()
  Subsets,    \* the numbers of workers the owner may wake up
  Size,       \* of each channel
  NTasks,     \* bound: tasks of each run
  Rounds      \* bound: runs

OrderedFarmAssumption ==
  /\ NWorkers \in Nat \ {0} /\ Subsets \subseteq 1 .. NWorkers
  /\ Size \in Nat \ {0} /\ NTasks \in Nat /\ Rounds \in Nat \ {0}

EOS == 0          \* tasks are 1, 2, 3, ...

Workers == 0 .. NWorkers - 1

VARIABLES
  q, r,              \* channels to the workers, and from them
  wpc, hold,         \* workers: where each is, the task it works on
  epc, bpos,         \* emitter: where it is, the next receiver of the end of stream
  nextoneE, victimE, \* the emitter's turn: its own record, and the balancer's
  cpc, neos, dead,   \* collector: where it is, the ends of stream it has seen
  nextoneC, victimC, \* the collector's turn, in the same two places
  running,           \* workers of this run; -1 when frozen
  round, sent,       \* runs started, tasks sent so far
  out                \* what the collector has sent on

channels == <<q, r>>
workers == <<wpc, hold>>
emitter == <<epc, bpos, nextoneE, victimE>>
collector == <<cpc, neos, dead, nextoneC, victimC>>
vars == <<channels, workers, emitter, collector, running, round, sent, out>>

\* The first run wakes every worker; both ends start from worker 0.
Init ==
  /\ q = [w \in Workers |-> <<>>] /\ r = [w \in Workers |-> <<>>]
  /\ wpc = [w \in Workers |-> "pop"] /\ hold = [w \in Workers |-> EOS]
  /\ epc = "init" /\ bpos = 0 /\ nextoneE = 0 /\ victimE = 0
  /\ cpc = "init" /\ neos = 0 /\ dead = {} /\ nextoneC = 0 /\ victimC = 0
  /\ running = NWorkers /\ round = 1 /\ sent = 0 /\ out = <<>>

Put(c, w, t) == [c EXCEPT ![w] = Append(@, t)]

Room(c, w) == Len(c[w]) < Size

-----------------------------------------------------------------------------
(* The emitter *)

\* svc_init: restart from where we stopped before
EmitterInit ==
  /\ epc = "init"
  /\ victimE' = nextoneE
  /\ epc' = "svc"
  /\ UNCHANGED <<channels, workers, collector, bpos, nextoneE, running, round, sent, out>>

\* svc: schedule_task to the victim, once it has room; then the next one's turn.
Send ==
  /\ epc = "svc" /\ sent < NTasks * round
  /\ Room(q, victimE)
  /\ sent' = sent + 1
  /\ q' = Put(q, victimE, sent')
  /\ nextoneE' = (nextoneE + 1) % running
  /\ victimE' = nextoneE'
  /\ UNCHANGED <<r, workers, collector, epc, bpos, running, round, out>>

\* broadcast_task: from the victim to the last, then from the first to the victim.
BroadcastOrder ==
  [i \in 1 .. Max({0, running - victimE}) |-> victimE + i - 1]
    \o [i \in 1 .. victimE |-> i - 1]

Broadcast ==
  /\ epc = "svc" /\ sent = NTasks * round
  /\ \/ /\ bpos < Len(BroadcastOrder)
        /\ Room(q, BroadcastOrder[bpos + 1])
        /\ q' = Put(q, BroadcastOrder[bpos + 1], EOS)
        /\ bpos' = bpos + 1
        /\ UNCHANGED epc
     \/ /\ bpos = Len(BroadcastOrder)
        /\ epc' = "frozen" /\ bpos' = 0
        /\ UNCHANGED q
  /\ UNCHANGED <<r, workers, collector, nextoneE, victimE, running, round, sent, out>>

-----------------------------------------------------------------------------
(* The workers *)

Pop(w) ==
  /\ wpc[w] = "pop" /\ q[w] # <<>>
  /\ hold' = [hold EXCEPT ![w] = Head(q[w])]
  /\ q' = [q EXCEPT ![w] = Tail(@)]
  /\ wpc' = [wpc EXCEPT ![w] = "push"]
  /\ UNCHANGED <<r, emitter, collector, running, round, sent, out>>

\* The result, or the end of stream, goes on; after the latter the thread freezes.
Push(w) ==
  /\ wpc[w] = "push" /\ Room(r, w)
  /\ r' = Put(r, w, hold[w])
  /\ wpc' = [wpc EXCEPT ![w] = IF hold[w] = EOS THEN "frozen" ELSE "pop"]
  /\ hold' = [hold EXCEPT ![w] = EOS]
  /\ UNCHANGED <<q, emitter, collector, running, round, sent, out>>

-----------------------------------------------------------------------------
(* The collector *)

\* svc_init: revive, and restart from where we stopped.
CollectorInit ==
  /\ cpc = "init"
  /\ dead' = {}
  /\ victimC' = nextoneC
  /\ cpc' = "gather"
  /\ UNCHANGED <<channels, workers, emitter, neos, nextoneC, running, round, sent, out>>

\* The first worker after nextone that is alive: do ... while(!set_victim(nextone)).
NextAlive ==
  LET k == CHOOSE k \in 1 .. running :
             /\ (nextoneC + k) % running \notin dead
             /\ \A j \in 1 .. k - 1 : (nextoneC + j) % running \in dead
  IN  (nextoneC + k) % running

\* Seeded fault: the collector takes whichever worker has a result.
GatherAny ==
  /\ cpc = "gather"
  /\ \E w \in Workers :
       /\ r[w] # <<>> /\ Head(r[w]) # EOS
       /\ out' = Append(out, Head(r[w]))
       /\ r' = [r EXCEPT ![w] = Tail(@)]
       /\ nextoneC' = w /\ victimC' = w
  /\ UNCHANGED <<q, workers, emitter, cpc, neos, dead, running, round, sent>>

\* A result from the victim goes out, and the next one is alive and has its turn.
Gather ==
  /\ cpc = "gather" /\ r[victimC] # <<>> /\ Head(r[victimC]) # EOS
  /\ out' = Append(out, Head(r[victimC]))
  /\ r' = [r EXCEPT ![victimC] = Tail(@)]
  /\ nextoneC' = NextAlive
  /\ victimC' = nextoneC'
  /\ UNCHANGED <<q, workers, emitter, cpc, neos, dead, running, round, sent>>

\* Seeded fault: stops one end of stream too early.
GatherEosEarly ==
  /\ cpc = "gather" /\ r[victimC] # <<>> /\ Head(r[victimC]) = EOS
  /\ r' = [r EXCEPT ![victimC] = Tail(@)]
  /\ dead' = dead \union {victimC}
  /\ nextoneC' = IF nextoneC = victimC THEN (nextoneC + 1) % running ELSE nextoneC
  /\ victimC' = IF nextoneC' \in dead' THEN victimC ELSE nextoneC'
  /\ IF neos + 2 >= running
     THEN neos' = 0 /\ cpc' = "frozen" /\ out' = Append(out, EOS)
     ELSE neos' = neos + 1 /\ UNCHANGED <<cpc, out>>
  /\ UNCHANGED <<q, workers, emitter, running, round, sent>>

\* eosnotify, and the count: the last one freezes the collector.
GatherEos ==
  /\ cpc = "gather" /\ r[victimC] # <<>> /\ Head(r[victimC]) = EOS
  /\ r' = [r EXCEPT ![victimC] = Tail(@)]
  /\ dead' = dead \union {victimC}
  /\ nextoneC' = IF nextoneC = victimC THEN (nextoneC + 1) % running ELSE nextoneC
  /\ victimC' = IF nextoneC' \in dead' THEN victimC ELSE nextoneC'
  /\ IF neos + 1 >= running
     THEN neos' = 0 /\ cpc' = "frozen" /\ out' = Append(out, EOS)
     ELSE neos' = neos + 1 /\ UNCHANGED <<cpc, out>>
  /\ UNCHANGED <<q, workers, emitter, running, round, sent>>

-----------------------------------------------------------------------------
(* The owner *)

Active == 0 .. running - 1

\* wait_freezing: the running workers, the emitter and the collector.
WaitFreezing ==
  /\ running # -1
  /\ \A w \in Active : wpc[w] = "frozen"
  /\ epc = "frozen" /\ cpc = "frozen"
  /\ running' = -1
  /\ UNCHANGED <<channels, workers, emitter, collector, round, sent, out>>

\* run_then_freeze(nw): a turn beyond the new number of workers goes back to 0.
Thaw(nw) ==
  /\ running = -1 /\ round < Rounds
  /\ running' = nw /\ round' = round + 1
  /\ victimE' = IF nw < victimE THEN 0 ELSE victimE
  /\ victimC' = IF nw < victimC THEN 0 ELSE victimC
  /\ wpc' = [w \in Workers |-> IF w < nw THEN "pop" ELSE wpc[w]]
  /\ epc' = "init" /\ cpc' = "init"
  /\ UNCHANGED <<channels, hold, bpos, nextoneE, nextoneC, neos, dead, sent, out>>

Threads ==
  \/ EmitterInit \/ Send \/ Broadcast
  \/ CollectorInit \/ Gather \/ GatherEos
  \/ \E w \in Workers : Pop(w) \/ Push(w)

Next == Threads \/ WaitFreezing \/ (\E nw \in Subsets : Thaw(nw))

Spec == Init /\ [][Next]_vars

\* Every thread that can move does.
FairSpec ==
  /\ Spec
  /\ WF_vars(EmitterInit \/ Send \/ Broadcast)
  /\ WF_vars(CollectorInit \/ Gather \/ GatherEos)
  /\ \A w \in Workers : WF_vars(Pop(w) \/ Push(w))
  /\ WF_vars(WaitFreezing)

-----------------------------------------------------------------------------
(* Properties *)

\* What worker w still owes the collector, oldest first.
Lane(w) == r[w] \o (IF wpc[w] = "push" THEN <<hold[w]>> ELSE <<>>) \o q[w]

\* The results among what the collector has sent on, and the last of them.
Results == {i \in DOMAIN out : out[i] # EOS}

LastResult == IF Results = {} THEN EOS ELSE out[Max(Results)]

\* The tasks inside, in the order in which the collector's turns will meet them.
InFlight ==
  LET Nth(i) == LET lane == Lane((nextoneC + i - 1) % running)
                    k == 1 + (i - 1) \div running
                IN  IF k \in DOMAIN lane THEN lane[k] ELSE EOS
  IN  [i \in 1 .. sent - Cardinality(Results) |-> Nth(i)]

\* Type correctness.
TypeOK ==
  /\ \A w \in Workers : Len(q[w]) <= Size /\ Len(r[w]) <= Size
  /\ wpc \in [Workers -> {"pop", "push", "frozen"}]
  /\ epc \in {"init", "svc", "frozen"} /\ cpc \in {"init", "gather", "frozen"}
  /\ {nextoneE, victimE, nextoneC, victimC} \subseteq Workers
  /\ dead \subseteq Workers /\ neos \in 0 .. NWorkers
  /\ running \in Subsets \union {-1, NWorkers}

Fifo == INSTANCE BoundedFifo WITH
  Batch <- {<<t>> : t \in 1 .. NTasks * Rounds}, NoItem <- EOS,
  Capacity <- NWorkers * (2 * Size + 1), q <- InFlight, pushed <- TRUE,
  popped <- LastResult

\* From outside the farm is one queue: the workers, in whatever order they work,
\* and however often the farm is frozen and restarted, never show in the order
\* of the results.
ImplementsFifo == Fifo!FifoSpec

\* A frozen farm is empty: every result of a run came out before its one end of
\* stream, and no end of stream is left behind for the next run.
FrozenEmpty ==
  running = -1 =>
    /\ q = [w \in Workers |-> <<>>] /\ r = [w \in Workers |-> <<>>]
    /\ Last(out) = EOS /\ Len(out) = (NTasks + 1) * round
    /\ nextoneE = nextoneC

\* Each run gives the results of its own tasks, in their order, and one end of stream.
ResultsInOrder ==
  \A i \in DOMAIN out : \E k \in 0 .. Rounds - 1 :
    LET j == i - k * (NTasks + 1)
    IN  j \in 1 .. NTasks + 1 /\ out[i] = IF j > NTasks THEN EOS ELSE k * NTasks + j

\* wait_freezing, thaw (farm.hpp): a frozen ordered farm is empty and both its ends
\* have the same turn; each run gives its results in order, and one end of stream.
FrozenFarmIsEmpty == TypeOK /\ FrozenEmpty /\ ResultsInOrder

\* run_then_freeze documents "it is possible to wake up just a subset of them"
\* (farm.hpp:704) and wait_freezing "It waits for thread to freeze": every run ends.
EachRunEnds == [](running # -1 => <>(running = -1))
=============================================================================
