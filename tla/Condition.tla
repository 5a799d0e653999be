------------------------------ MODULE Condition ------------------------------
(***************************************************************************)
(* threads::Condition of bodytrack: a condition variable that counts its    *)
(* waiters and the wakeups it has handed out (tickets), built either on a   *)
(* pthread condition variable or on a manual-reset Windows event.  The      *)
(* mutex is held from the entry of an operation to its end and released     *)
(* only inside the wait, so every stretch between two releases is a step.   *)
(***************************************************************************)
EXTENDS Integers, FiniteSets

CONSTANTS Threads,      \* the threads that share the condition
          Calls,        \* how many operations each of them makes
          Generations,  \* FALSE: HAVE_LIBPTHREAD, TRUE: winthreads
          NotifiesOne   \* whether NotifyOne is among the operations

CallsAssumption ==
  IsFiniteSet(Threads) /\ Calls \in Nat /\ Generations \in BOOLEAN /\ NotifiesOne \in BOOLEAN

VARIABLES nWaiting,        \* waiting threads, woken ones included
          nWakeupTickets,  \* pending wakeups
          genCounter,      \* notifications so far (winthreads)
          myGeneration,    \* genCounter when the thread began to wait
          signaled,        \* the Windows event
          asleep,          \* blocked in pthread_cond_wait / WaitForSingleObject
          awake,           \* out of it, before the test of the loop
          calls,           \* operations left to each thread
          covered          \* waiters a NotifyAll has promised to wake

vars == <<nWaiting, nWakeupTickets, genCounter, myGeneration, signaled,
          asleep, awake, calls, covered>>

Waiting == asleep \cup awake

TypeOK == /\ nWaiting \in 0..Cardinality(Threads)
          /\ nWakeupTickets \in 0..Cardinality(Threads)
          /\ genCounter \in Nat
          /\ myGeneration \in [Threads -> Nat]
          /\ signaled \in BOOLEAN
          /\ asleep \subseteq Threads /\ awake \subseteq Threads
          /\ asleep \cap awake = {}
          /\ calls \in [Threads -> 0..Calls]
          /\ covered \subseteq Waiting

Init == /\ nWaiting = 0 /\ nWakeupTickets = 0 /\ genCounter = 0
        /\ myGeneration = [t \in Threads |-> 0]
        /\ signaled = FALSE
        /\ asleep = {} /\ awake = {} /\ covered = {}
        /\ calls = [t \in Threads |-> Calls]

Called(t) == /\ t \notin Waiting /\ calls[t] > 0
             /\ calls' = [calls EXCEPT ![t] = @ - 1]

Slack == nWaiting - nWakeupTickets

\* What leaving the loop needs.
MayLeave(t) == /\ nWakeupTickets > 0
               /\ Generations => genCounter # myGeneration[t]

\* pthread_cond_signal unblocks at least one of the blocked threads.
Signal == \E W \in SUBSET asleep :
            /\ W = {} => asleep = {}
            /\ asleep' = asleep \ W /\ awake' = awake \cup W

\* pthread_cond_broadcast unblocks all of them.
Broadcast == asleep' = {} /\ awake' = awake \cup asleep

SetEvent == /\ genCounter' = genCounter + 1 /\ signaled' = TRUE
            /\ UNCHANGED <<asleep, awake>>

NotifyOne(t) ==
    /\ NotifiesOne /\ Called(t)
    /\ IF Slack > 0
       THEN /\ nWakeupTickets' = nWakeupTickets + 1
            /\ IF Generations THEN SetEvent ELSE Signal /\ UNCHANGED <<genCounter, signaled>>
       ELSE UNCHANGED <<nWakeupTickets, genCounter, signaled, asleep, awake>>
    /\ UNCHANGED <<nWaiting, myGeneration, covered>>

NotifyAll(t) ==
    /\ Called(t)
    /\ IF Slack > 0
       THEN /\ nWakeupTickets' = nWaiting
            /\ IF Generations THEN SetEvent ELSE Broadcast /\ UNCHANGED <<genCounter, signaled>>
       ELSE UNCHANGED <<nWakeupTickets, genCounter, signaled, asleep, awake>>
    /\ covered' = Waiting
    /\ UNCHANGED <<nWaiting, myGeneration>>

\* Seeded fault: the first thread to leave resets the event.
LeaveResets(t, waiting) ==
    /\ nWaiting' = waiting - 1
    /\ nWakeupTickets' = nWakeupTickets - 1
    /\ signaled' = FALSE
    /\ asleep' = asleep \ {t} /\ awake' = awake \ {t} /\ covered' = covered \ {t}

\* The end of Wait: the thread takes a ticket (nWaiting is already counted up
\* for a thread that never blocked).
Leave(t, waiting) ==
    /\ nWaiting' = waiting - 1
    /\ nWakeupTickets' = nWakeupTickets - 1
    /\ signaled' = (signaled /\ nWakeupTickets > 1)
    /\ asleep' = asleep \ {t} /\ awake' = awake \ {t} /\ covered' = covered \ {t}

\* Wait up to the first blocking call: the pthread loop tests before it
\* blocks, the Windows one after.
Wait(t) ==
    /\ Called(t)
    /\ myGeneration' = [myGeneration EXCEPT ![t] = genCounter]
    /\ \/ /\ ~Generations /\ nWakeupTickets > 0
          /\ Leave(t, nWaiting + 1)
       \/ /\ Generations \/ nWakeupTickets = 0
          /\ nWaiting' = nWaiting + 1
          /\ asleep' = asleep \cup {t}
          /\ UNCHANGED <<nWakeupTickets, signaled, awake, covered>>
    /\ UNCHANGED genCounter

\* The event releases whoever waits for it while it is set.
Release(t) == /\ Generations /\ signaled /\ t \in asleep
              /\ asleep' = asleep \ {t} /\ awake' = awake \cup {t}
              /\ UNCHANGED <<nWaiting, nWakeupTickets, genCounter, myGeneration,
                             signaled, calls, covered>>

\* pthread_cond_wait may return without a signal.
Spurious(t) == /\ ~Generations /\ t \in asleep
               /\ asleep' = asleep \ {t} /\ awake' = awake \cup {t}
               /\ UNCHANGED <<nWaiting, nWakeupTickets, genCounter, myGeneration,
                              signaled, calls, covered>>

\* A woken thread has the mutex again: it takes a ticket or blocks again.
Retest(t) ==
    /\ t \in awake
    /\ \/ MayLeave(t) /\ Leave(t, nWaiting)
       \/ /\ ~MayLeave(t)
          /\ asleep' = asleep \cup {t} /\ awake' = awake \ {t}
          /\ UNCHANGED <<nWaiting, nWakeupTickets, signaled, covered>>
    /\ UNCHANGED <<genCounter, myGeneration, calls>>

Next == \E t \in Threads : \/ NotifyOne(t) \/ NotifyAll(t) \/ Wait(t)
                           \/ Release(t) \/ Spurious(t) \/ Retest(t)

\* A blocked thread gets the mutex back and the event reaches its waiters;
\* nobody has to call anything, and nothing has to wake up spuriously.  A set
\* event keeps waking waiters of a later notification, which block again: the
\* fairness of Retest is about the step that leaves.
Fairness == \A t \in Threads : /\ WF_vars(Release(t))
                               /\ WF_vars(Retest(t))
                               /\ SF_vars(Retest(t) /\ MayLeave(t))

Spec == Init /\ [][Next]_vars /\ Fairness

-----------------------------------------------------------------------------
\* Both counters describe the threads: nWaiting counts them, and no more
\* wakeups are pending than there are waiters to use them (Condition.h:81).
TicketsForWaiters == /\ nWaiting = Cardinality(Waiting)
                     /\ nWakeupTickets <= nWaiting

\* No pending wakeup is lost: as many threads as there are tickets are on
\* their way to take one, whatever spurious wakeups, newcomers and threads
\* that blocked again did in between.
NoLostWakeup ==
    IF Generations
    THEN /\ signaled <=> nWakeupTickets > 0
         /\ nWakeupTickets <= Cardinality({t \in Waiting : genCounter # myGeneration[t]})
    ELSE nWakeupTickets <= Cardinality(awake)

\* Every handed-out wakeup is used in the end.
TicketsUsed == nWakeupTickets > 0 ~> nWakeupTickets = 0

\* "Wake up all threads" (Condition.h:71) and "Wait until either NotifyOne()
\* or NotifyAll() is executed" (Condition.h:74): a thread that was waiting when
\* NotifyAll ran still has a ticket to leave with.
AllWoken == Cardinality(covered) <= nWakeupTickets

\* Tickets and waiters together; that NotifyAll wakes all who waited when it was
\* called holds of the Windows event as Barrier uses it, without NotifyOne.
WakeupsReachWaiters ==
  /\ TypeOK /\ TicketsForWaiters /\ NoLostWakeup
  /\ Generations /\ ~NotifiesOne => AllWoken

\* What a thread that NotifyAll found waiting sees: Wait returns.
WokenByNotifyAll == \A t \in Threads : t \in covered ~> t \notin covered

=============================================================================
