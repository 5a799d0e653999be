------------------------------ MODULE FFThread ------------------------------
(***************************************************************************)
(* The life cycle of a FastFlow thread (node.hpp, ff_thread): the owner     *)
(* runs it, freezes and thaws it and waits for it; the thread calls svc     *)
(* once per run and then sleeps on a condition variable or ends.  freezing  *)
(* and stp are also read and written without the mutex, as in the code.     *)
(***************************************************************************)
EXTENDS Naturals

CONSTANTS
  MaxRuns,        \* bound: runs the owner asks for
  MaxNoFreeze,    \* bound: times svc returns EOS_NOFREEZE
  EarlyThaw       \* does the owner thaw a thread that is not frozen yet?

BoundsAssumption ==
  MaxRuns \in Nat /\ MaxNoFreeze \in Nat /\ EarlyThaw \in BOOLEAN

VARIABLES
  stp, freezing, frozen,        \* fields of ff_thread
  spawned, init_error,
  locked,                       \* the thread holds the mutex
  pc, ret,                      \* the thread: where it is, what svc returned
  owner,                        \* the owner: what it did last, or where it waits
  asked, runs, nofreeze         \* history: runs asked for, calls of svc that ended

fields == <<stp, freezing, frozen, spawned, init_error>>
thread == <<pc, ret, locked>>
history == <<asked, runs, nofreeze>>
vars == <<fields, thread, owner, history>>

Init ==
  /\ stp = TRUE /\ freezing = 0 /\ frozen = FALSE
  /\ spawned = FALSE /\ init_error = FALSE
  /\ locked = FALSE /\ pc = "none" /\ ret = "EOS"
  /\ owner = "new"
  /\ asked = 0 /\ runs = 0 /\ nofreeze = 0

-----------------------------------------------------------------------------
(* The owner *)

\* run of a node that is not frozen: spawn, one shot.
run ==
  /\ owner = "new" /\ asked < MaxRuns /\ ~spawned
  /\ spawned' = TRUE /\ pc' = "init" /\ asked' = asked + 1
  /\ owner' = "once"
  /\ UNCHANGED <<stp, freezing, frozen, init_error, ret, locked, runs, nofreeze>>

\* run_then_freeze of a node that is not frozen: freeze, then spawn.
freeze_run ==
  /\ owner = "new" /\ asked < MaxRuns /\ ~spawned
  /\ stp' = FALSE /\ freezing' = 1
  /\ spawned' = TRUE /\ pc' = "init" /\ asked' = asked + 1
  /\ owner' = "started"
  /\ UNCHANGED <<frozen, init_error, ret, locked, runs, nofreeze>>

WakeThread == pc' = IF pc = "asleep" THEN "awake" ELSE pc

\* thaw, with the mutex: to run once more and freeze again, or to run freely.
\* The owner does not thaw twice without waiting in between, but it may thaw a
\* thread that has not come to its freezing point yet.
thaw(_freeze) ==
  /\ owner = "frozen" \/ (EarlyThaw /\ owner = "started" /\ _freeze)
  /\ ~init_error /\ asked < MaxRuns /\ ~locked
  /\ freezing' = IF _freeze THEN 2 ELSE 0
  /\ frozen' = FALSE
  /\ WakeThread
  /\ asked' = asked + 1
  /\ owner' = IF _freeze THEN "thawed" ELSE "free"
  /\ UNCHANGED <<stp, spawned, init_error, ret, locked, runs, nofreeze>>

Goes(l) == owner' = l /\ UNCHANGED <<fields, thread, history>>

\* wait_freezing: sleeps until frozen.
call_wait_freezing == owner \in {"started", "thawed"} /\ Goes("wait_freezing")

wait_freezing ==
  /\ owner \in {"wait_freezing", "wait_frozen"} /\ ~locked
  /\ \/ frozen /\ Goes(IF owner = "wait_freezing" THEN "frozen" ELSE "wait_thaw")
     \/ ~frozen /\ Goes(IF owner = "wait_freezing" THEN "asleep_freezing" ELSE "asleep_frozen")

\* Back from the condition variable, signalled or not.
woken == IF owner = "asleep_freezing" THEN "wait_freezing"
         ELSE IF owner = "asleep_frozen" THEN "wait_frozen" ELSE owner

OwnerSpurious == owner # woken /\ Goes(woken)

\* wait: stop, and a frozen thread is waited for and thawed first.
wait ==
  /\ owner \in {"once", "started", "thawed", "frozen", "free"}
  /\ stp' = TRUE
  /\ owner' = "wait_isfrozen"
  /\ UNCHANGED <<freezing, frozen, spawned, init_error, thread, history>>

wait_isfrozen ==
  /\ owner = "wait_isfrozen"
  /\ Goes(IF freezing > 0 THEN "wait_frozen" ELSE "join")

wait_thaw ==
  /\ owner = "wait_thaw" /\ ~locked
  /\ freezing' = 0 /\ frozen' = FALSE
  /\ WakeThread
  /\ owner' = "join"
  /\ UNCHANGED <<stp, spawned, init_error, ret, locked, history>>

\* pthread_join; the node may be run again.  The history starts level again.
join ==
  /\ owner = "join" /\ pc = "none"
  /\ spawned' = FALSE
  /\ runs' = asked
  /\ owner' = "new"
  /\ UNCHANGED <<stp, freezing, frozen, init_error, thread, asked, nofreeze>>

-----------------------------------------------------------------------------
(* thread_routine *)

At(l) == pc' = l

SignalFrozen == frozen' = TRUE /\ owner' = woken

\* svc_init, which may fail and end the thread.
svc_init ==
  /\ pc = "init"
  /\ \/ At("svc") /\ init_error' = FALSE
     \/ At("final") /\ init_error' = TRUE
  /\ UNCHANGED <<stp, freezing, frozen, spawned, ret, locked, owner, history>>

\* svc returns; a node that is not to be frozen returns GO_OUT only on its last run.
svc(r) ==
  /\ pc = "svc"
  /\ r = "EOS_NOFREEZE" => nofreeze < MaxNoFreeze /\ ~stp
  /\ r = "GO_OUT" => freezing # 0 \/ stp
  /\ ret' = r /\ At("lock")
  /\ IF r = "EOS_NOFREEZE" THEN nofreeze' = nofreeze + 1 /\ UNCHANGED runs
     ELSE runs' = runs + 1 /\ UNCHANGED nofreeze
  /\ UNCHANGED <<fields, locked, owner, asked>>

\* With the mutex: a thread that may run again and got EOS ends if it is not to
\* be frozen.
CheckStop ==
  /\ pc = "lock" /\ ~locked
  /\ locked' = TRUE
  /\ \/ /\ ret # "EOS_NOFREEZE" /\ ~stp
        /\ stp' = (freezing = 0 /\ ret = "EOS")
        /\ At("freezing")
     \/ (ret = "EOS_NOFREEZE" \/ stp) /\ At("unlock") /\ UNCHANGED stp
  /\ UNCHANGED <<freezing, frozen, spawned, init_error, ret, owner, history>>

\* Seeded fault: a thread thawed before it sleeps goes to sleep all the same.
FreezeAlways ==
  /\ pc = "freezing"
  /\ \/ freezing >= 1 /\ SignalFrozen /\ At("asleep") /\ locked' = FALSE
     \/ freezing = 0 /\ At("unlock") /\ UNCHANGED <<frozen, owner, locked>>
  /\ UNCHANGED <<stp, freezing, spawned, init_error, ret, history>>

\* while(freezing==1): tell the owner and sleep.
Freeze ==
  /\ pc = "freezing"
  /\ \/ freezing = 1 /\ SignalFrozen /\ At("asleep") /\ locked' = FALSE
     \/ freezing # 1 /\ At("unlock") /\ UNCHANGED <<frozen, owner, locked>>
  /\ UNCHANGED <<stp, freezing, spawned, init_error, ret, history>>

Spurious == pc = "asleep" /\ At("awake")
            /\ UNCHANGED <<fields, ret, locked, owner, history>>

Relock ==
  /\ pc = "awake" /\ ~locked
  /\ locked' = TRUE /\ At("freezing")
  /\ UNCHANGED <<fields, ret, owner, history>>

\* freezing = 1: freeze again next time.
Unlock ==
  /\ pc = "unlock"
  /\ freezing' = IF freezing # 0 THEN 1 ELSE 0
  /\ locked' = FALSE /\ At("loop")
  /\ UNCHANGED <<stp, frozen, spawned, init_error, ret, owner, history>>

Loop ==
  /\ pc = "loop"
  /\ At(IF stp THEN "final" ELSE "init")
  /\ UNCHANGED <<fields, ret, locked, owner, history>>

\* Seeded fault: the thread ends without telling an owner that waits for a freeze.
FinalSilent ==
  /\ pc = "final" /\ At("none")
  /\ UNCHANGED <<fields, ret, locked, owner, history>>

\* At the end: tell an owner that waits for a freeze, and exit.
Final ==
  /\ pc = "final"
  /\ At(IF freezing # 0 THEN "tell" ELSE "none")
  /\ UNCHANGED <<fields, ret, locked, owner, history>>

Tell ==
  /\ pc = "tell" /\ ~locked
  /\ SignalFrozen /\ At("none")
  /\ UNCHANGED <<stp, freezing, spawned, init_error, ret, locked, history>>

Owner == wait_freezing \/ wait_isfrozen \/ wait_thaw \/ join

Thread == svc_init \/ CheckStop \/ Freeze \/ Relock \/ Unlock \/ Loop \/ Final \/ Tell
          \/ \E r \in {"EOS", "GO_OUT", "EOS_NOFREEZE"} : svc(r)

Terminating == owner = "new" /\ asked = MaxRuns /\ UNCHANGED vars

Next == \/ run \/ freeze_run \/ thaw(TRUE) \/ thaw(FALSE)
        \/ call_wait_freezing \/ wait \/ Owner \/ OwnerSpurious
        \/ Thread \/ Spurious
        \/ Terminating

Spec == Init /\ [][Next]_vars

\* The thread runs, svc returns, and an owner inside wait or wait_freezing goes on;
\* whether and when it calls them is its own affair.  Strong fairness: a thread
\* that keeps waking for no reason does not keep the mutex from the owner.
FairSpec == Spec /\ WF_vars(Thread) /\ SF_vars(Owner)

-----------------------------------------------------------------------------
(* Properties *)

\* Type correctness of the fields.
TypeOK ==
  /\ stp \in BOOLEAN /\ freezing \in 0 .. 2 /\ frozen \in BOOLEAN
  /\ spawned \in BOOLEAN /\ init_error \in BOOLEAN /\ locked \in BOOLEAN
  /\ pc \in {"none", "init", "svc", "lock", "freezing", "asleep", "awake", "unlock",
             "loop", "final", "tell"}
  /\ owner \in {"new", "once", "started", "thawed", "free", "frozen", "wait_freezing",
                "asleep_freezing", "wait_isfrozen", "wait_frozen", "asleep_frozen",
                "wait_thaw", "join"}

\* When wait_freezing has returned, every run and thaw so far was answered by
\* exactly one complete call of svc, even if the thaw came before the thread froze.
EachRunOnce == owner = "frozen" /\ ~init_error => runs = asked

\* When wait_freezing has returned, the thread is not inside the node's code, so
\* the owner may change the node.
QuietWhileFrozen == owner = "frozen" => pc \notin {"svc", "lock", "loop"}
                                        /\ (pc = "init" => init_error)

\* ff_thread: svc is called once for every run asked for, never while frozen, be
\* the thread thawed early or told not to freeze.
RunsAndRests == TypeOK /\ EachRunOnce /\ QuietWhileFrozen

\* wait returns, whenever it is called.
WaitReturns == owner = "wait_isfrozen" ~> owner = "new"

\* wait_freezing returns.
WaitFreezingReturns == owner = "wait_freezing" ~> owner = "frozen"
=============================================================================
