------------------------------ MODULE Apps_proofs -----------------------------
(***************************************************************************)
(* Proofs about bodytrack's Condition, for any number of threads and calls,  *)
(* on a pthread condition variable and on a Windows event, about the rounds  *)
(* of Barrier, which is built of two of them, and about the thread pool of   *)
(* vips, on pthreads and as a farm.                                         *)
(***************************************************************************)
EXTENDS Condition, FiniteSetTheorems, TLAPS

\* A waiter that was notified after it began to wait.
Notified == {t \in Waiting : genCounter # myGeneration[t]}

\* No waiter is ahead of the notifications; if there is no NotifyOne, those who were
\* notified are those NotifyAll promised to wake.
Generation ==
  /\ \A t \in Threads : myGeneration[t] <= genCounter
  /\ Generations /\ ~NotifiesOne => Notified \subseteq covered

\* The inductive invariant.
IInv == WakeupsReachWaiters /\ Generation

-----------------------------------------------------------------------------
(* Counting threads *)

\* Sets of threads can be counted, and smaller ones have fewer members.
LEMMA Counted ==
  ASSUME CallsAssumption, NEW S \in SUBSET Threads
  PROVE  /\ IsFiniteSet(S) /\ Cardinality(S) \in 0 .. Cardinality(Threads)
         /\ Cardinality(Threads) \in Nat
         /\ Cardinality(S) = 0 <=> S = {}
         /\ \A R \in SUBSET S : Cardinality(R) \in Nat /\ Cardinality(R) <= Cardinality(S)
<1>1. IsFiniteSet(Threads)
  BY DEF CallsAssumption
<1>2. IsFiniteSet(S) /\ Cardinality(S) <= Cardinality(Threads)
  BY <1>1, FS_Subset
<1>3. \A R \in SUBSET S : IsFiniteSet(R) /\ Cardinality(R) <= Cardinality(S)
  BY <1>2, FS_Subset
<1>4. Cardinality(S) \in Nat /\ Cardinality(Threads) \in Nat
      /\ \A R \in SUBSET S : Cardinality(R) \in Nat
  BY <1>1, <1>2, <1>3, FS_CardinalityType
<1> QED BY <1>2, <1>3, <1>4, FS_EmptySet

\* One thread more, one fewer.
LEMMA OneMore ==
  ASSUME CallsAssumption, NEW S \in SUBSET Threads, NEW t \in Threads
  PROVE  /\ t \notin S => Cardinality(S \cup {t}) = Cardinality(S) + 1
         /\ t \in S => Cardinality(S \ {t}) = Cardinality(S) - 1
BY Counted, FS_AddElement, FS_RemoveElement

\* Two groups of threads with no member in common.
LEMMA Together ==
  ASSUME CallsAssumption, NEW S \in SUBSET Threads, NEW W \in SUBSET Threads,
         S \cap W = {}
  PROVE  Cardinality(S \cup W) = Cardinality(S) + Cardinality(W)
<1>1. IsFiniteSet(S) /\ IsFiniteSet(W) /\ Cardinality(S) \in Nat /\ Cardinality(W) \in Nat
  BY Counted
<1>2. Cardinality(S \cup W) = Cardinality(S) + Cardinality(W) - Cardinality(S \cap W)
  BY <1>1, FS_Union
<1> QED BY <1>1, <1>2, FS_EmptySet

\* Those who were notified are among the threads.
LEMMA Groups ==
  ASSUME TypeOK
  PROVE  /\ Waiting \in SUBSET Threads /\ Notified \in SUBSET Waiting
         /\ awake \in SUBSET Waiting /\ asleep \in SUBSET Waiting
         /\ covered \in SUBSET Waiting
BY DEF TypeOK, Waiting, Notified

-----------------------------------------------------------------------------
(* The inductive invariant *)

\* Nobody waits at first.
LEMMA InitIInv == ASSUME CallsAssumption, Init PROVE IInv
<1>1. /\ Waiting = {} /\ Notified = {} /\ Cardinality(Waiting) = 0 /\ Cardinality(awake) = 0
      /\ Cardinality(covered) = 0 /\ Cardinality(Notified) = 0
  BY FS_EmptySet DEF Init, Waiting, Notified
<1>2. TypeOK
  <2>1. Cardinality(Threads) \in Nat
    BY Counted
  <2>2. 0 \in 0 .. Cardinality(Threads)
    BY <2>1
  <2>3. myGeneration \in [Threads -> Nat] /\ calls \in [Threads -> 0 .. Calls]
    BY DEF Init, CallsAssumption
  <2> QED BY <2>2, <2>3 DEF Init, TypeOK
<1> QED BY <1>1, <1>2
     DEF Init, IInv, WakeupsReachWaiters, TicketsForWaiters, NoLostWakeup, AllWoken,
         Generation, Notified

\* An operation leaves the types of the number of calls and generations alone.
LEMMA CallsType ==
  ASSUME CallsAssumption, TypeOK, NEW t \in Threads, Called(t)
  PROVE  calls' \in [Threads -> 0 .. Calls]
BY DEF Called, TypeOK, CallsAssumption

\* Setting the event: everybody who waits is notified now.
LEMMA SetEventNotifies ==
  ASSUME IInv, SetEvent, UNCHANGED myGeneration
  PROVE  Notified' = Waiting /\ Waiting' = Waiting /\ genCounter' \in Nat
         /\ \A t \in Threads : myGeneration'[t] <= genCounter'
BY DEF IInv, WakeupsReachWaiters, TypeOK, Generation, SetEvent, Notified, Waiting

\* A notification that finds nobody to wake leaves all as it was.
LEMMA NothingToDo ==
  ASSUME UNCHANGED <<nWakeupTickets, genCounter, signaled, asleep, awake, nWaiting, myGeneration>>
  PROVE  /\ Notified' = Notified /\ Waiting' = Waiting
         /\ TicketsForWaiters => TicketsForWaiters'
         /\ NoLostWakeup => NoLostWakeup'
BY DEF Notified, Waiting, TicketsForWaiters, NoLostWakeup

\* NotifyOne adds a ticket and wakes someone who can take it.
LEMMA NotifyOneIInv ==
  ASSUME CallsAssumption, IInv, NEW t \in Threads, NotifyOne(t) PROVE IInv'
<1>1. /\ TypeOK /\ TicketsForWaiters /\ NoLostWakeup /\ Generation /\ NotifiesOne
      /\ UNCHANGED <<nWaiting, myGeneration, covered>> /\ calls' \in [Threads -> 0 .. Calls]
  BY CallsType DEF IInv, WakeupsReachWaiters, NotifyOne
<1>2. CASE ~(Slack > 0)
  <2>1. UNCHANGED <<nWakeupTickets, genCounter, signaled, asleep, awake>>
    BY <1>2 DEF NotifyOne
  <2>2. Waiting' = Waiting /\ TicketsForWaiters' /\ NoLostWakeup'
    BY <1>1, <2>1, NothingToDo
  <2> QED BY <1>1, <2>1, <2>2
          DEF IInv, WakeupsReachWaiters, TypeOK, Generation
<1>3. CASE Slack > 0 /\ Generations
  <2>1. nWakeupTickets' = nWakeupTickets + 1 /\ SetEvent
    BY <1>3 DEF NotifyOne
  <2>2. Notified' = Waiting /\ Waiting' = Waiting /\ genCounter' \in Nat
        /\ \A u \in Threads : myGeneration'[u] <= genCounter'
    BY <1>1, <2>1, SetEventNotifies
  <2>3. nWakeupTickets' \in 1 .. nWaiting /\ nWaiting = Cardinality(Waiting)
    BY <1>1, <1>3, <2>1 DEF Slack, TicketsForWaiters, TypeOK
  <2>4. TypeOK'
    BY <1>1, <2>1, <2>2, <2>3, Counted DEF TypeOK, SetEvent
  <2>5. TicketsForWaiters'
    BY <1>1, <2>2, <2>3 DEF TicketsForWaiters
  <2>6. NoLostWakeup'
    BY <1>3, <2>1, <2>2, <2>3 DEF NoLostWakeup, Notified, SetEvent
  <2> QED BY <1>1, <2>2, <2>4, <2>5, <2>6 DEF IInv, WakeupsReachWaiters, Generation
<1>4. CASE Slack > 0 /\ ~Generations
  <2>1. nWakeupTickets' = nWakeupTickets + 1 /\ Signal /\ UNCHANGED <<genCounter, signaled>>
    BY <1>4 DEF NotifyOne
  <2>2. PICK W \in SUBSET asleep : /\ W = {} => asleep = {}
                                   /\ asleep' = asleep \ W /\ awake' = awake \cup W
    BY <2>1 DEF Signal
  <2>3. Waiting' = Waiting /\ awake \cap W = {} /\ W \in SUBSET Threads
        /\ awake \in SUBSET Threads
    BY <1>1, <2>2 DEF Waiting, TypeOK
  <2>4. nWakeupTickets' \in 1 .. nWaiting /\ nWaiting = Cardinality(Waiting)
    BY <1>1, <1>4, <2>1 DEF Slack, TicketsForWaiters, TypeOK
  <2>5. nWakeupTickets' <= Cardinality(awake')
    <3>1. CASE W = {}
      BY <2>2, <2>4, <3>1 DEF Waiting
    <3>2. CASE W # {}
      <4>1. Cardinality(awake') = Cardinality(awake) + Cardinality(W)
        BY <2>2, <2>3, Together
      <4>2. Cardinality(W) >= 1 /\ Cardinality(W) \in Nat /\ Cardinality(awake) \in Nat
        BY <2>3, <3>2, Counted
      <4>3. nWakeupTickets <= Cardinality(awake) /\ nWakeupTickets \in Nat
        BY <1>1, <1>4 DEF NoLostWakeup, TypeOK
      <4> QED BY <2>1, <4>1, <4>2, <4>3
    <3> QED BY <3>1, <3>2
  <2>6. TypeOK'
    <3>1. nWakeupTickets' \in 0 .. Cardinality(Threads)
      BY <1>1, <2>4, Counted DEF TypeOK
    <3>2. /\ asleep' \subseteq Threads /\ awake' \subseteq Threads /\ asleep' \cap awake' = {}
          /\ covered' \subseteq Waiting'
      BY <1>1, <2>2, <2>3 DEF TypeOK
    <3> QED BY <1>1, <2>1, <3>1, <3>2 DEF TypeOK
  <2>7. TicketsForWaiters' /\ NoLostWakeup'
    BY <1>1, <1>4, <2>3, <2>4, <2>5 DEF TicketsForWaiters, NoLostWakeup
  <2> QED BY <1>1, <1>4, <2>1, <2>6, <2>7 DEF IInv, WakeupsReachWaiters, Generation
<1> QED BY <1>2, <1>3, <1>4

\* NotifyAll gives every waiter a ticket.
LEMMA NotifyAllIInv ==
  ASSUME CallsAssumption, IInv, NEW t \in Threads, NotifyAll(t) PROVE IInv'
<1>1. /\ TypeOK /\ TicketsForWaiters /\ NoLostWakeup /\ Generation
      /\ UNCHANGED <<nWaiting, myGeneration>> /\ covered' = Waiting
      /\ calls' \in [Threads -> 0 .. Calls]
  BY CallsType DEF IInv, WakeupsReachWaiters, NotifyAll
<1>2. /\ nWaiting = Cardinality(Waiting) /\ nWaiting \in 0 .. Cardinality(Threads)
      /\ nWakeupTickets \in 0 .. nWaiting /\ Cardinality(Threads) \in Nat
  BY <1>1, Counted DEF TypeOK, TicketsForWaiters
<1>3. CASE ~(Slack > 0)
  <2>1. /\ UNCHANGED <<nWakeupTickets, genCounter, signaled, asleep, awake>>
        /\ nWakeupTickets = nWaiting
    BY <1>2, <1>3 DEF NotifyAll, Slack
  <2>2. Waiting' = Waiting /\ Notified' = Notified /\ TicketsForWaiters' /\ NoLostWakeup'
    BY <1>1, <2>1, NothingToDo
  <2>3. TypeOK' /\ AllWoken'
    BY <1>1, <1>2, <2>1, <2>2 DEF TypeOK, AllWoken
  <2>4. Notified' \subseteq covered'
    BY <1>1, <2>2, Groups
  <2> QED BY <1>1, <2>1, <2>2, <2>3, <2>4
          DEF IInv, WakeupsReachWaiters, Generation
<1>4. CASE Slack > 0 /\ Generations
  <2>1. nWakeupTickets' = nWaiting /\ SetEvent
    BY <1>4 DEF NotifyAll
  <2>2. Notified' = Waiting /\ Waiting' = Waiting /\ genCounter' \in Nat
        /\ \A u \in Threads : myGeneration'[u] <= genCounter'
    BY <1>1, <2>1, SetEventNotifies DEF IInv, WakeupsReachWaiters
  <2>3. TypeOK'
    BY <1>1, <1>2, <2>1, <2>2 DEF TypeOK, SetEvent
  <2>4. TicketsForWaiters' /\ AllWoken'
    BY <1>1, <1>2, <2>1, <2>2 DEF TicketsForWaiters, AllWoken
  <2>5. NoLostWakeup'
    BY <1>1, <1>2, <1>4, <2>1, <2>2 DEF NoLostWakeup, Notified, SetEvent, Slack
  <2> QED BY <1>1, <2>2, <2>3, <2>4, <2>5 DEF IInv, WakeupsReachWaiters, Generation
<1>5. CASE Slack > 0 /\ ~Generations
  <2>1. nWakeupTickets' = nWaiting /\ Broadcast /\ UNCHANGED <<genCounter, signaled>>
    BY <1>5 DEF NotifyAll
  <2>2. Waiting' = Waiting /\ awake' = Waiting /\ asleep' = {}
    BY <2>1 DEF Broadcast, Waiting
  <2>3. TypeOK'
    <3>1. awake' \subseteq Threads /\ asleep' \cap awake' = {} /\ covered' \subseteq Waiting'
      BY <1>1, <2>2 DEF TypeOK, Waiting
    <3> QED BY <1>1, <1>2, <2>1, <2>2, <3>1 DEF TypeOK
  <2>4. TicketsForWaiters' /\ NoLostWakeup'
    BY <1>1, <1>2, <1>5, <2>1, <2>2 DEF TicketsForWaiters, NoLostWakeup
  <2> QED BY <1>1, <1>5, <2>1, <2>3, <2>4 DEF IInv, WakeupsReachWaiters, Generation
<1> QED BY <1>3, <1>4, <1>5

\* A thread that waits, w of them counted with it, takes a ticket and goes.
LEMMA LeaveIInv ==
  ASSUME CallsAssumption, IInv, NEW t \in Threads, NEW waiting \in Nat, Leave(t, waiting),
         nWakeupTickets > 0, UNCHANGED genCounter,
         calls' \in [Threads -> 0 .. Calls],
         \/ t \notin Waiting /\ ~Generations /\ waiting = nWaiting + 1
         \/ t \in awake /\ MayLeave(t) /\ waiting = nWaiting,
         \/ UNCHANGED myGeneration
         \/ t \notin Waiting /\ myGeneration' = [myGeneration EXCEPT ![t] = genCounter]
  PROVE  IInv'
<1>1. /\ TypeOK /\ TicketsForWaiters /\ NoLostWakeup /\ Generation
      /\ nWakeupTickets' = nWakeupTickets - 1 /\ nWaiting' = waiting - 1
      /\ signaled' = (signaled /\ nWakeupTickets > 1)
      /\ asleep' = asleep \ {t} /\ awake' = awake \ {t} /\ covered' = covered \ {t}
      /\ genCounter' = genCounter /\ genCounter \in Nat
  BY DEF IInv, WakeupsReachWaiters, Leave, TypeOK
<1>2. /\ nWaiting = Cardinality(Waiting) /\ nWaiting \in 0 .. Cardinality(Threads)
      /\ nWakeupTickets \in 1 .. nWaiting /\ Cardinality(Threads) \in Nat
  BY <1>1, Counted DEF TypeOK, TicketsForWaiters
<1>3. Waiting' = Waiting \ {t}
  BY <1>1 DEF Waiting
<1>4. nWaiting' = Cardinality(Waiting') /\ nWaiting' \in nWakeupTickets' .. Cardinality(Threads)
  <2>1. CASE t \notin Waiting
    <3>1. Waiting' = Waiting /\ waiting = nWaiting + 1
      BY <1>3, <2>1 DEF Waiting
    <3> QED BY <1>1, <1>2, <3>1
  <2>2. CASE t \in Waiting
    <3>1. waiting = nWaiting
      BY <2>2
    <3>2. Cardinality(Waiting \ {t}) = Cardinality(Waiting) - 1
      BY <1>1, <2>2, OneMore, Groups
    <3> QED BY <1>1, <1>2, <1>3, <3>1, <3>2
  <2> QED BY <2>1, <2>2
<1>5. /\ myGeneration' \in [Threads -> Nat] /\ \A u \in Threads : myGeneration'[u] <= genCounter'
      /\ \A u \in Waiting' : myGeneration'[u] = myGeneration[u]
  BY <1>1, <1>3 DEF TypeOK, Generation, Waiting
<1>6. Notified' = Notified \ {t}
  BY <1>1, <1>3, <1>5 DEF Notified
<1>7. TypeOK'
  <2>1. /\ asleep' \subseteq Threads /\ awake' \subseteq Threads /\ asleep' \cap awake' = {}
        /\ covered' \subseteq Waiting' /\ signaled' \in BOOLEAN
    BY <1>1, <1>3 DEF TypeOK
  <2>2. nWakeupTickets' \in 0 .. Cardinality(Threads)
    BY <1>1, <1>2
  <2>3. nWaiting' \in 0 .. Cardinality(Threads)
    BY <1>1, <1>2, <1>4
  <2> QED BY <1>1, <1>5, <2>1, <2>2, <2>3 DEF TypeOK
<1>8. TicketsForWaiters'
  BY <1>1, <1>2, <1>4 DEF TicketsForWaiters
<1>9. CASE Generations
  <2>1. t \in Waiting /\ t \in Notified
    BY <1>9 DEF Waiting, MayLeave, Notified
  <2>2. Cardinality(Notified') = Cardinality(Notified) - 1
    <3>1. Notified \in SUBSET Threads
      BY <1>1, Groups
    <3> QED BY <1>6, <2>1, <3>1, OneMore
  <2>3. NoLostWakeup'
    <3>1. nWakeupTickets <= Cardinality(Notified) /\ (signaled <=> nWakeupTickets > 0)
      BY <1>1, <1>9 DEF NoLostWakeup, Notified
    <3>2. Cardinality(Notified) \in Nat
      BY <1>1, Groups, Counted
    <3>3. nWakeupTickets' <= Cardinality(Notified')
      BY <1>1, <1>2, <2>2, <3>1, <3>2
    <3>4. signaled' <=> nWakeupTickets' > 0
      <4>1. nWakeupTickets' > 0 <=> nWakeupTickets > 1
        BY <1>1, <1>2
      <4>2. signaled
        BY <1>2, <3>1
      <4> QED BY <1>1, <4>1, <4>2
    <3> QED BY <1>9, <3>3, <3>4 DEF NoLostWakeup, Notified
  <2>4. ~NotifiesOne => Notified' \subseteq covered' /\ AllWoken'
    <3> SUFFICES ASSUME ~NotifiesOne PROVE Notified' \subseteq covered' /\ AllWoken'
      OBVIOUS
    <3>1. Notified \subseteq covered /\ Cardinality(covered) <= nWakeupTickets
      BY <1>1, <1>9 DEF Generation, AllWoken, IInv, WakeupsReachWaiters
    <3>2. Cardinality(covered') = Cardinality(covered) - 1 /\ Cardinality(covered) \in Nat
      <4>1. covered \in SUBSET Threads /\ t \in covered
        BY <1>1, <2>1, <3>1, Groups
      <4> QED BY <1>1, <4>1, OneMore, Counted
    <3> QED BY <1>1, <1>2, <1>6, <3>1, <3>2 DEF AllWoken
  <2> QED BY <1>5, <1>7, <1>8, <2>3, <2>4 DEF IInv, WakeupsReachWaiters, Generation
<1>10. CASE ~Generations
  <2>1. nWakeupTickets <= Cardinality(awake) /\ awake \in SUBSET Threads
    BY <1>1, <1>10 DEF NoLostWakeup, TypeOK
  <2>2. nWakeupTickets' <= Cardinality(awake')
    <3>1. CASE t \in awake
      BY <1>1, <1>2, <2>1, <3>1, OneMore, Counted
    <3>2. CASE t \notin awake
      <4>1. awake' = awake
        BY <1>1, <3>2
      <4> QED BY <1>1, <1>2, <2>1, <4>1, Counted
    <3> QED BY <3>1, <3>2
  <2> QED BY <1>5, <1>7, <1>8, <1>10, <2>2
          DEF IInv, WakeupsReachWaiters, Generation, NoLostWakeup
<1> QED BY <1>9, <1>10

\* Wait takes a ticket at once or begins to wait.
LEMMA WaitIInv ==
  ASSUME CallsAssumption, IInv, NEW t \in Threads, Wait(t) PROVE IInv'
<1>1. /\ TypeOK /\ TicketsForWaiters /\ NoLostWakeup /\ Generation
      /\ t \notin Waiting /\ genCounter' = genCounter
      /\ myGeneration' = [myGeneration EXCEPT ![t] = genCounter]
      /\ calls' \in [Threads -> 0 .. Calls]
  BY CallsType DEF IInv, WakeupsReachWaiters, Wait, Called
<1>2. /\ nWaiting = Cardinality(Waiting) /\ nWaiting \in Nat
      /\ nWakeupTickets \in 0 .. nWaiting /\ Cardinality(Threads) \in Nat
  BY <1>1, Counted DEF TypeOK, TicketsForWaiters
<1>3. CASE ~Generations /\ nWakeupTickets > 0 /\ Leave(t, nWaiting + 1)
  <2> DEFINE waiting == nWaiting + 1
  <2>1. waiting \in Nat /\ waiting = nWaiting + 1 /\ Leave(t, waiting)
    BY <1>2, <1>3
  <2> HIDE DEF waiting
  <2> QED BY <1>1, <1>3, <2>1, LeaveIInv
<1>4. CASE /\ Generations \/ nWakeupTickets = 0
           /\ nWaiting' = nWaiting + 1
           /\ asleep' = asleep \cup {t}
           /\ UNCHANGED <<nWakeupTickets, signaled, awake, covered>>
  <2>1. /\ Waiting' = Waiting \cup {t} /\ Waiting' \in SUBSET Threads
        /\ Waiting \in SUBSET Threads
    BY <1>1, <1>4 DEF Waiting, TypeOK
  <2>2. nWaiting' = Cardinality(Waiting') /\ nWaiting' <= Cardinality(Threads)
    BY <1>1, <1>2, <1>4, <2>1, OneMore, Counted
  <2>3. /\ myGeneration' \in [Threads -> Nat] /\ myGeneration'[t] = genCounter
        /\ \A u \in Threads \ {t} : myGeneration'[u] = myGeneration[u]
    BY <1>1 DEF TypeOK
  <2>4. Notified' = Notified
    BY <1>1, <2>1, <2>3 DEF Notified
  <2>5. TypeOK'
    <3>1. /\ asleep' \subseteq Threads /\ awake' \subseteq Threads /\ asleep' \cap awake' = {}
          /\ covered' \subseteq Waiting' /\ nWaiting' \in 0 .. Cardinality(Threads)
      BY <1>1, <1>2, <1>4, <2>1, <2>2 DEF TypeOK, Waiting
    <3> QED BY <1>1, <1>4, <2>3, <3>1 DEF TypeOK
  <2>6. TicketsForWaiters'
    BY <1>2, <1>4, <2>2 DEF TicketsForWaiters
  <2>7. NoLostWakeup'
    BY <1>1, <1>4, <2>4 DEF NoLostWakeup, Notified
  <2>8. Generation'
    <3>1. \A u \in Threads : myGeneration'[u] <= genCounter'
      BY <1>1, <2>3 DEF Generation, TypeOK
    <3> QED BY <1>1, <1>4, <2>4, <3>1 DEF Generation
  <2> QED BY <1>4, <2>5, <2>6, <2>7, <2>8 DEF IInv, WakeupsReachWaiters, AllWoken
<1> QED BY <1>3, <1>4 DEF Wait

\* The event or a spurious wake-up takes a thread to the mutex.
LEMMA WakesIInv ==
  ASSUME CallsAssumption, IInv, NEW t \in Threads, Release(t) \/ Spurious(t) PROVE IInv'
<1>1. /\ TypeOK /\ TicketsForWaiters /\ NoLostWakeup /\ Generation /\ t \in asleep
      /\ asleep' = asleep \ {t} /\ awake' = awake \cup {t}
      /\ UNCHANGED <<nWaiting, nWakeupTickets, genCounter, myGeneration, signaled, calls, covered>>
  BY DEF IInv, WakeupsReachWaiters, Release, Spurious
<1>2. Waiting' = Waiting /\ Notified' = Notified
  BY <1>1 DEF Waiting, Notified
<1>3. TypeOK' /\ TicketsForWaiters' /\ Generation'
  BY <1>1, <1>2 DEF TypeOK, TicketsForWaiters, Generation
<1>4. NoLostWakeup'
  <2>1. Cardinality(awake) \in Nat /\ Cardinality(awake') = Cardinality(awake) + 1
    BY <1>1, OneMore, Counted DEF TypeOK
  <2>2. CASE Generations
    BY <1>1, <1>2, <2>2 DEF NoLostWakeup, Notified
  <2>3. CASE ~Generations
    BY <1>1, <2>1, <2>3 DEF NoLostWakeup, TypeOK
  <2> QED BY <2>2, <2>3
<1> QED BY <1>1, <1>3, <1>4 DEF IInv, WakeupsReachWaiters, AllWoken

\* With the mutex a thread takes a ticket, or waits on.
LEMMA RetestIInv ==
  ASSUME CallsAssumption, IInv, NEW t \in Threads, Retest(t) PROVE IInv'
<1>1. /\ TypeOK /\ TicketsForWaiters /\ NoLostWakeup /\ Generation /\ t \in awake
      /\ UNCHANGED <<genCounter, myGeneration, calls>>
  BY DEF IInv, WakeupsReachWaiters, Retest
<1>2. CASE MayLeave(t) /\ Leave(t, nWaiting)
  <2>1. /\ nWaiting \in Nat /\ nWakeupTickets > 0 /\ calls' \in [Threads -> 0 .. Calls]
    BY <1>1, <1>2, Counted DEF TypeOK, MayLeave
  <2> QED BY <1>1, <1>2, <2>1, LeaveIInv
<1>3. CASE /\ ~MayLeave(t)
           /\ asleep' = asleep \cup {t} /\ awake' = awake \ {t}
           /\ UNCHANGED <<nWaiting, nWakeupTickets, signaled, covered>>
  <2>1. Waiting' = Waiting /\ Notified' = Notified
    BY <1>1, <1>3 DEF Waiting, Notified
  <2>2. TypeOK' /\ TicketsForWaiters' /\ Generation'
    BY <1>1, <1>3, <2>1 DEF TypeOK, TicketsForWaiters, Generation
  <2>3. NoLostWakeup'
    <3>1. CASE Generations
      BY <1>1, <1>3, <2>1, <3>1 DEF NoLostWakeup, Notified
    <3>2. CASE ~Generations
      <4>1. nWakeupTickets = 0
        BY <1>1, <1>3, <3>2, Counted DEF MayLeave, TypeOK
      <4>2. Cardinality(awake') \in Nat
        BY <1>1, <1>3, Counted DEF TypeOK
      <4> QED BY <1>3, <3>2, <4>1, <4>2 DEF NoLostWakeup
    <3> QED BY <3>1, <3>2
  <2> QED BY <1>3, <2>2, <2>3 DEF IInv, WakeupsReachWaiters, AllWoken
<1> QED BY <1>2, <1>3 DEF Retest

\* Every step keeps the invariant.
LEMMA NextIInv == ASSUME CallsAssumption, IInv, [Next]_vars PROVE IInv'
<1>1. CASE Next
  BY <1>1, NotifyOneIInv, NotifyAllIInv, WaitIInv, WakesIInv, RetestIInv DEF Next
<1>2. CASE UNCHANGED vars
  BY <1>2 DEF vars, IInv, WakeupsReachWaiters, TypeOK, TicketsForWaiters, NoLostWakeup,
              AllWoken, Generation, Notified, Waiting
<1> QED BY <1>1, <1>2

-----------------------------------------------------------------------------
(* What the condition guarantees *)

\* Every ticket handed out has a waiter on its way to take it, whatever spurious
\* wake-ups, newcomers and threads that blocked again do in between; with the
\* Windows event and NotifyAll alone, whoever waited when it was called gets one.
THEOREM NoTicketLost == ASSUME CallsAssumption PROVE Spec => []WakeupsReachWaiters
<1>1. Init => IInv
  BY InitIInv
<1>2. IInv /\ [Next]_vars => IInv'
  BY NextIInv
<1>3. IInv => WakeupsReachWaiters
  BY DEF IInv
<1> QED BY <1>1, <1>2, <1>3, PTL DEF Spec

-----------------------------------------------------------------------------
(* Barrier, of conditions like these: its rounds, for any number of threads.  *)

CONSTANT n                                                \* threads of a round
VARIABLES countSleep, countReset, cond, at, master, round, entered, returned, \* as in
          mine, callsLeft          \* BodyBarrier, there myGeneration and calls

Bar == INSTANCE BodyBarrier WITH myGeneration <- mine, calls <- callsLeft

\* Who waits on a condition, and who was notified after it began to wait.
Conds == {"CSleep", "CReset"}
Records == [waiting : Nat, tickets : Nat, gen : Nat]
place(c) == IF c = "CSleep" THEN {"sleep"} ELSE {"full", "leave"}
On(c) == {t \in Threads : at[t] \in place(c)}
Told(c) == {t \in On(c) : cond[c].gen # mine[t]}

\* Those of a round that have not returned, and the master among them.
Round(r) == {t \in Threads : at[t] \in {"sleep", "leave"} /\ entered[t] = r}
Master(r) == {t \in Round(r) : master[t]}

\* The types of what the steps change.
Shapes ==
  /\ countSleep \in 0 .. n /\ countReset \in 0 .. n /\ round \in Nat
  /\ cond \in [Conds -> Records]
  /\ mine \in [Threads -> Nat]
  /\ at \in [Threads -> {"out", "sleep", "full", "leave"}]
  /\ master \in [Threads -> BOOLEAN]
  /\ callsLeft \in [Threads -> Nat]
  /\ entered \in [Threads -> 0 .. round]
  /\ returned \in [Bar!Rounds -> [BOOLEAN -> Nat]]

\* Conditions are counted: the tickets are for those who were notified.
Ticketed ==
  \A c \in Conds : /\ cond[c].waiting = Cardinality(On(c))
                   /\ cond[c].tickets = Cardinality(Told(c))
                   /\ \A t \in On(c) : mine[t] <= cond[c].gen

\* The barrier fills: sleepers sleep, whoever waits for the reset has been told.
Filling ==
  /\ countSleep < n
  /\ Round(round) = On("CSleep")
  /\ Told("CSleep") = {} /\ Told("CReset") = On("CReset")

\* It is full: sleepers have been told, and those who wait for the last of them have not.
Emptying ==
  /\ countSleep = n /\ countReset \in 1 .. n - 1
  /\ Cardinality(On("CSleep")) + countReset = n
  /\ Told("CSleep") = On("CSleep")
  /\ On("CSleep") \subseteq Round(round)
  /\ Told("CReset") \cap Round(round) = {}

\* The threads of the current round, and what became of those of earlier ones.
Present ==
  /\ Cardinality(Round(round)) = countSleep
  /\ Cardinality(Master(round)) = IF countSleep = 0 THEN 0 ELSE 1
  /\ \A r \in Bar!Rounds : r >= round => returned[r][TRUE] = 0 /\ returned[r][FALSE] = 0
Past ==
  \A r \in Bar!Rounds : r < round =>
    /\ returned[r][TRUE] + Cardinality(Master(r)) = 1
    /\ returned[r][FALSE] + Cardinality(Round(r) \ Master(r)) = n - 1

\* The inductive invariant.
BarIInv == Shapes /\ Ticketed /\ (Filling \/ Emptying) /\ Present /\ Past

-----------------------------------------------------------------------------

\* The record r is that of a condition on which W waits and T was notified.
Fits(r, W, T, since) ==
  /\ r \in Records /\ r.waiting = Cardinality(W) /\ r.tickets = Cardinality(T)
  /\ W \in SUBSET Threads /\ T \in SUBSET W
  /\ \A u \in W : since[u] <= r.gen /\ (u \in T <=> r.gen # since[u])

\* BodyBarrier counts with the operators this module counts with.
LEMMA SameCounts ==
  \A S : /\ Bar!IsFiniteSet(S) <=> IsFiniteSet(S)
         /\ Bar!Cardinality(S) = Cardinality(S)
<1>1. \A S : Bar!IsFiniteSet(S) <=> IsFiniteSet(S)
  BY DEF Bar!IsFiniteSet, IsFiniteSet
<1>2. \A S : Bar!Cardinality(S) = Cardinality(S)
  BY DEF Bar!Cardinality, Cardinality
<1> QED BY <1>1, <1>2

\* Sets of threads are finite.
LEMMA ThreadSets ==
  ASSUME Bar!BarrierAssumption
  PROVE  /\ n \in Nat \ {0} /\ Cardinality({}) = 0
         /\ \A S \in SUBSET Threads :
              /\ IsFiniteSet(S) /\ Cardinality(S) \in Nat
              /\ Cardinality(S) = 0 <=> S = {}
              /\ \A R \in SUBSET S : /\ Cardinality(R) \in Nat /\ Cardinality(R) <= Cardinality(S)
                                     /\ Cardinality(R) = Cardinality(S) => R = S
              /\ \A t \in Threads :
                   /\ t \notin S => Cardinality(S \cup {t}) = Cardinality(S) + 1
                   /\ t \in S => Cardinality(S \ {t}) = Cardinality(S) - 1
<1>1. IsFiniteSet(Threads) /\ Cardinality(Threads) \in Nat
  BY SameCounts, FS_CardinalityType DEF Bar!BarrierAssumption
<1>2. n \in Nat \ {0}
  BY <1>1, SameCounts DEF Bar!BarrierAssumption
<1>3. \A S \in SUBSET Threads : IsFiniteSet(S)
  BY <1>1, FS_Subset
<1>4. \A S \in SUBSET Threads : Cardinality(S) \in Nat /\ (Cardinality(S) = 0 <=> S = {})
  BY <1>3, FS_CardinalityType, FS_EmptySet
<1>5. ASSUME NEW S \in SUBSET Threads, NEW R \in SUBSET S
      PROVE  /\ Cardinality(R) \in Nat /\ Cardinality(R) <= Cardinality(S)
             /\ Cardinality(R) = Cardinality(S) => R = S
  BY <1>3, <1>4, FS_Subset
<1>6. ASSUME NEW S \in SUBSET Threads, NEW t \in Threads
      PROVE  /\ t \notin S => Cardinality(S \cup {t}) = Cardinality(S) + 1
             /\ t \in S => Cardinality(S \ {t}) = Cardinality(S) - 1
  BY <1>3, FS_AddElement, FS_RemoveElement
<1> QED BY <1>2, <1>3, <1>4, <1>5, <1>6, FS_EmptySet

\* Wait begins: one more waits, and is not told.
LEMMA BeginFits ==
  ASSUME Bar!BarrierAssumption, NEW r, NEW W, NEW T, NEW since \in [Threads -> Nat],
         NEW t \in Threads, Fits(r, W, T, since), t \notin W,
         NEW new, new = [since EXCEPT ![t] = r.gen]
  PROVE  Fits(Bar!BeginWait(r), W \cup {t}, T, new)
<1>1. Cardinality(W \cup {t}) = Cardinality(W) + 1
  BY ThreadSets DEF Fits
<1>2. Bar!BeginWait(r) \in Records /\ Bar!BeginWait(r).waiting = r.waiting + 1
      /\ Bar!BeginWait(r).tickets = r.tickets /\ Bar!BeginWait(r).gen = r.gen
  BY DEF Bar!BeginWait, Fits, Records
<1>3. \A u \in W \cup {t} : new[u] <= r.gen /\ (u \in T <=> r.gen # new[u])
  BY DEF Fits, Records
<1> QED BY <1>1, <1>2, <1>3 DEF Fits

\* It ends: one who was told goes with a ticket.
LEMMA EndFits ==
  ASSUME Bar!BarrierAssumption, NEW r, NEW W, NEW T, NEW since, NEW t \in T, Fits(r, W, T, since)
  PROVE  Fits(Bar!EndWait(r), W \ {t}, T \ {t}, since)
<1>1. /\ Cardinality(W \ {t}) = Cardinality(W) - 1 /\ Cardinality(W \ {t}) \in Nat
      /\ Cardinality(T \ {t}) = Cardinality(T) - 1 /\ Cardinality(T \ {t}) \in Nat
  BY ThreadSets DEF Fits
<1>2. Bar!EndWait(r) \in Records /\ Bar!EndWait(r).waiting = r.waiting - 1
      /\ Bar!EndWait(r).tickets = r.tickets - 1 /\ Bar!EndWait(r).gen = r.gen
  BY <1>1 DEF Bar!EndWait, Fits, Records
<1> QED BY <1>1, <1>2 DEF Fits

\* NotifyAll tells everybody.
LEMMA NotifyFits ==
  ASSUME Bar!BarrierAssumption, NEW r, NEW W, NEW T, NEW since \in [Threads -> Nat],
         Fits(r, W, T, since)
  PROVE  Fits(Bar!NotifyAll(r), W, W, since)
<1>1. CASE r.waiting > r.tickets
  <2>1. Bar!NotifyAll(r) \in Records /\ Bar!NotifyAll(r).waiting = r.waiting
        /\ Bar!NotifyAll(r).tickets = r.waiting /\ Bar!NotifyAll(r).gen = r.gen + 1
    <3>1. Bar!NotifyAll(r) = [r EXCEPT !.tickets = r.waiting, !.gen = r.gen + 1]
      BY <1>1 DEF Bar!NotifyAll
    <3>2. r \in Records /\ r.gen + 1 \in Nat
      BY DEF Fits, Records
    <3> QED BY <3>1, <3>2 DEF Records
  <2>2. \A u \in W : since[u] <= r.gen + 1 /\ r.gen + 1 # since[u]
    BY DEF Fits, Records
  <2> QED BY <2>1, <2>2 DEF Fits
<1>2. CASE ~(r.waiting > r.tickets)
  <2>1. Bar!NotifyAll(r) = r
    BY <1>2 DEF Bar!NotifyAll
  <2>2. W = T
    BY <1>2, ThreadSets DEF Fits
  <2> QED BY <2>1, <2>2
<1> QED BY <1>1, <1>2

\* What becomes of a thread that does not wait there is of no matter to a condition.
LEMMA OthersFit ==
  ASSUME NEW r, NEW W, NEW T, NEW since, NEW new, Fits(r, W, T, since),
         \A u \in W : new[u] = since[u]
  PROVE  Fits(r, W, T, new)
BY DEF Fits

\* The conditions are as their waiters and tickets have them.
LEMMA AllFit ==
  ASSUME BarIInv, NEW c \in Conds
  PROVE  Fits(cond[c], On(c), Told(c), mine)
BY DEF BarIInv, Shapes, Ticketed, Fits, On, Told

\* And the other way round.
LEMMA FromFits ==
  ASSUME NEW T, NEW c \in Conds, Fits(cond'[c], On(c)', T, mine')
  PROVE  /\ Told(c)' = T
         /\ cond'[c].waiting = Cardinality(On(c)') /\ cond'[c].tickets = Cardinality(Told(c)')
         /\ \A t \in On(c)' : mine'[t] <= cond'[c].gen
BY DEF Fits, Told

\* Where one thread goes decides who waits where and who is in which round.
LEMMA SetsAfter ==
  ASSUME BarIInv, NEW t \in Threads, NEW p, at' = [at EXCEPT ![t] = p],
         \A u \in Threads \ {t} : entered'[u] = entered[u] /\ master'[u] = master[u]
  PROVE  /\ On("CSleep")' = IF p = "sleep" THEN On("CSleep") \cup {t} ELSE On("CSleep") \ {t}
         /\ On("CReset")' = IF p \in {"full", "leave"} THEN On("CReset") \cup {t}
                            ELSE On("CReset") \ {t}
         /\ p \in {"out", "full"} =>
              \A r : Round(r)' = Round(r) \ {t} /\ Master(r)' = Master(r) \ {t}
         /\ p \in {"sleep", "leave"} =>
              \A r : /\ entered'[t] # r => Round(r)' = Round(r) \ {t} /\ Master(r)' = Master(r) \ {t}
                     /\ entered'[t] = r =>
                          /\ Round(r)' = Round(r) \cup {t}
                          /\ master'[t] => Master(r)' = Master(r) \cup {t}
                          /\ ~master'[t] => Master(r)' = Master(r) \ {t}
<1>1. at'[t] = p /\ \A u \in Threads \ {t} : at'[u] = at[u]
  BY DEF BarIInv, Shapes
<1>2. /\ On("CSleep")' = IF p = "sleep" THEN On("CSleep") \cup {t} ELSE On("CSleep") \ {t}
      /\ On("CReset")' = IF p \in {"full", "leave"} THEN On("CReset") \cup {t}
                         ELSE On("CReset") \ {t}
  BY <1>1 DEF On, place
<1>3. ASSUME NEW r
      PROVE  /\ Master(r)' = {u \in Round(r)' : master'[u]} /\ Round(r) \in SUBSET Threads
             /\ Round(r)' = IF p \in {"sleep", "leave"} /\ entered'[t] = r
                            THEN Round(r) \cup {t} ELSE Round(r) \ {t}
  BY <1>1 DEF Round, Master
<1>4. ASSUME NEW r, p \in {"out", "full"}
      PROVE  Round(r)' = Round(r) \ {t} /\ Master(r)' = Master(r) \ {t}
  BY <1>3, <1>4 DEF Master
<1>5. ASSUME NEW r, p \in {"sleep", "leave"}
      PROVE  /\ entered'[t] # r => Round(r)' = Round(r) \ {t} /\ Master(r)' = Master(r) \ {t}
             /\ entered'[t] = r => /\ Round(r)' = Round(r) \cup {t}
                                   /\ master'[t] => Master(r)' = Master(r) \cup {t}
                                   /\ ~master'[t] => Master(r)' = Master(r) \ {t}
  BY <1>3, <1>5 DEF Master
<1> QED BY <1>2, <1>4, <1>5

\* What a call returns is counted for its round, if the round is one that is counted.
LEMMA ReturnCounts ==
  ASSUME BarIInv, NEW t \in Threads, NEW e, NEW m \in BOOLEAN,
         returned' = [returned EXCEPT ![e][m] = @ + 1]
  PROVE  /\ returned' \in [Bar!Rounds -> [BOOLEAN -> Nat]]
         /\ \A r \in Bar!Rounds : r # e => returned'[r] = returned[r]
         /\ e \in Bar!Rounds /\ m => /\ returned'[e][TRUE] = returned[e][TRUE] + 1
                                /\ returned'[e][FALSE] = returned[e][FALSE]
         /\ e \in Bar!Rounds /\ ~m => /\ returned'[e][TRUE] = returned[e][TRUE]
                                 /\ returned'[e][FALSE] = returned[e][FALSE] + 1
<1>1. returned \in [Bar!Rounds -> [BOOLEAN -> Nat]]
  BY DEF BarIInv, Shapes
<1>2. returned' = [returned EXCEPT ![e] = [returned[e] EXCEPT ![m] = returned[e][m] + 1]]
  OBVIOUS
<1>3. CASE e \in Bar!Rounds
  <2>1. returned[e] \in [BOOLEAN -> Nat]
    BY <1>1, <1>3
  <2>2. [returned[e] EXCEPT ![m] = returned[e][m] + 1] \in [BOOLEAN -> Nat]
    BY <2>1
  <2>3. returned' \in [Bar!Rounds -> [BOOLEAN -> Nat]]
    BY <1>1, <1>2, <1>3, <2>2
  <2>4. \A r \in Bar!Rounds : returned'[r] = IF r = e
                                         THEN [returned[e] EXCEPT ![m] = returned[e][m] + 1]
                                         ELSE returned[r]
    BY <1>1, <1>2, <1>3
  <2>5. returned'[e] = [returned[e] EXCEPT ![m] = returned[e][m] + 1]
    BY <1>3, <2>4
  <2>6. m => /\ returned'[e][TRUE] = returned[e][TRUE] + 1
             /\ returned'[e][FALSE] = returned[e][FALSE]
    BY <2>1, <2>5
  <2>7. ~m => /\ returned'[e][TRUE] = returned[e][TRUE]
              /\ returned'[e][FALSE] = returned[e][FALSE] + 1
    BY <2>1, <2>5
  <2> QED BY <2>3, <2>4, <2>6, <2>7
<1>4. CASE e \notin Bar!Rounds
  <2>1. returned' = returned
    BY <1>1, <1>2, <1>4
  <2> QED BY <1>1, <1>4, <2>1
<1> QED BY <1>3, <1>4

\* The last one to leave the barrier opens it for the next round.
LEMMA LastLeaves ==
  ASSUME Bar!BarrierAssumption, BarIInv, NEW t \in Threads, NEW was \in [Conds -> Records],
         NEW T, NEW m \in BOOLEAN,
         Fits(was["CSleep"], On("CSleep") \ {t}, {}, mine), On("CSleep") \ {t} = {},
         Fits(was["CReset"], On("CReset") \ {t}, T, mine),
         Cardinality(Master(round) \ {t}) = (IF m THEN 0 ELSE 1),
         Cardinality((Round(round) \ Master(round)) \ {t}) = (IF m THEN n - 1 ELSE n - 2),
         \A r \in Nat : r # round => t \notin Round(r),
         countSleep' = 0, countReset' \in 0 .. n,
         cond' = [was EXCEPT !["CReset"] = Bar!NotifyAll(@)], Bar!Return(t), round' = round + 1,
         UNCHANGED mine, callsLeft' \in [Threads -> Nat],
         master' = [master EXCEPT ![t] = m], entered' = [entered EXCEPT ![t] = round]
  PROVE  BarIInv'
<1> USE DEF Conds
<1>1. /\ at' = [at EXCEPT ![t] = "out"] /\ entered'[t] = round /\ master'[t] = m
      /\ \A u \in Threads \ {t} : entered'[u] = entered[u] /\ master'[u] = master[u]
      /\ returned' = [returned EXCEPT ![round][m] = @ + 1] /\ round \in Nat
  BY DEF Bar!Return, BarIInv, Shapes
<1>2. /\ On("CSleep")' = On("CSleep") \ {t} /\ On("CReset")' = On("CReset") \ {t}
      /\ \A r : Round(r)' = Round(r) \ {t} /\ Master(r)' = Master(r) \ {t}
  <2>1. at' = [at EXCEPT ![t] = "out"]
    BY <1>1
  <2>2. \A u \in Threads \ {t} : entered'[u] = entered[u] /\ master'[u] = master[u]
    BY <1>1
  <2>3. /\ On("CSleep")' = IF "out" = "sleep" THEN On("CSleep") \cup {t} ELSE On("CSleep") \ {t}
        /\ On("CReset")' = IF "out" \in {"full", "leave"} THEN On("CReset") \cup {t}
                           ELSE On("CReset") \ {t}
        /\ "out" \in {"out", "full"} =>
             \A r : Round(r)' = Round(r) \ {t} /\ Master(r)' = Master(r) \ {t}
    BY <2>1, <2>2, SetsAfter, Zenon
  <2> QED BY <2>3
<1>3. /\ Fits(cond'["CSleep"], On("CSleep")', {}, mine')
      /\ Fits(cond'["CReset"], On("CReset")', On("CReset")', mine')
  <2>1. On("CSleep")' = {} /\ On("CReset")' = On("CReset") \ {t}
    BY <1>2
  <2>2. cond'["CSleep"] = was["CSleep"] /\ cond'["CReset"] = Bar!NotifyAll(was["CReset"])
    OBVIOUS
  <2>3. mine \in [Threads -> Nat]
    BY DEF BarIInv, Shapes
  <2> QED BY <2>1, <2>2, <2>3, NotifyFits
<1>4. Told("CSleep")' = {} /\ Told("CReset")' = On("CReset")' /\ Ticketed'
  <2>1. \A c \in Conds : c = "CSleep" \/ c = "CReset"
    OBVIOUS
  <2> QED BY <1>3, <2>1, FromFits DEF Ticketed
<1>5. Shapes'
  <2>1. cond' \in [Conds -> Records]
    BY <1>3 DEF Fits
  <2>2. entered' \in [Threads -> 0 .. round']
    BY <1>1 DEF BarIInv, Shapes
  <2>3. returned' \in [Bar!Rounds -> [BOOLEAN -> Nat]]
    BY <1>1, ReturnCounts
  <2>4. at' \in [Threads -> {"out", "sleep", "full", "leave"}] /\ master' \in [Threads -> BOOLEAN]
    BY <1>1 DEF BarIInv, Shapes
  <2> QED BY <1>1, <2>1, <2>2, <2>3, <2>4, ThreadSets DEF BarIInv, Shapes
<1>6. Round(round)' = {} /\ Master(round)' = {}
  <2>1. \A u \in Threads : entered'[u] # round'
    BY <1>1 DEF BarIInv, Shapes
  <2> QED BY <2>1 DEF Round, Master
<1>7. Filling'
  <2>1. On("CSleep")' = {} /\ n > 0
    BY <1>2, ThreadSets
  <2> QED BY <1>4, <1>6, <2>1 DEF Filling
<1>8. Present'
  <2>1. \A r \in Bar!Rounds : r >= round' => returned'[r][TRUE] = 0 /\ returned'[r][FALSE] = 0
    <3>1. \A r \in Bar!Rounds : r >= round' => r # round /\ r >= round
      BY <1>1 DEF Bar!Rounds
    <3> QED BY <1>1, <3>1, ReturnCounts DEF BarIInv, Present
  <2> QED BY <1>6, <2>1, ThreadSets DEF Present
<1>9. Past'
  <2> SUFFICES ASSUME NEW r \in Bar!Rounds, r < round'
               PROVE  /\ returned'[r][TRUE] + Cardinality(Master(r)') = 1
                      /\ returned'[r][FALSE] + Cardinality(Round(r)' \ Master(r)') = n - 1
    BY DEF Past
  <2>1. /\ Master(r)' = Master(r) \ {t} /\ Round(r)' \ Master(r)' = (Round(r) \ Master(r)) \ {t}
        /\ r \in Nat
    BY <1>2 DEF Bar!Rounds
  <2>2. CASE r = round
    <3>1. /\ m => returned'[r][TRUE] = 1 /\ returned'[r][FALSE] = 0
          /\ ~m => returned'[r][TRUE] = 0 /\ returned'[r][FALSE] = 1
      <4>1. returned[r][TRUE] = 0 /\ returned[r][FALSE] = 0
        <5>1. round \in Nat
          BY <1>1
        <5>2. r >= round
          BY <5>1, <2>2
        <5>3. Present
          BY DEF BarIInv
        <5>4. returned[r][TRUE] = 0 /\ returned[r][FALSE] = 0
          BY <5>2, <5>3 DEF Present
        <5> QED BY <5>4
      <4>2. /\ m => /\ returned'[r][TRUE] = returned[r][TRUE] + 1
                    /\ returned'[r][FALSE] = returned[r][FALSE]
            /\ ~m => /\ returned'[r][TRUE] = returned[r][TRUE]
                     /\ returned'[r][FALSE] = returned[r][FALSE] + 1
        BY <1>1, <2>2, ReturnCounts
      <4>3. returned[r][TRUE] + 1 = 1 /\ returned[r][FALSE] + 1 = 1
        BY <4>1
      <4> QED BY <4>1, <4>2, <4>3, Zenon
    <3>2. /\ Cardinality(Master(r)') = (IF m THEN 0 ELSE 1)
          /\ Cardinality(Round(r)' \ Master(r)') = (IF m THEN n - 1 ELSE n - 2)
      BY <2>1, <2>2
    <3>3. n \in Nat
      BY ThreadSets
    <3>4. 1 + 0 = 1 /\ 0 + 1 = 1 /\ 0 + (n - 1) = n - 1 /\ 1 + (n - 2) = n - 1
      BY <3>3
    <3> QED BY <3>1, <3>2, <3>4, Zenon
  <2>3. CASE r # round
    <3>1. returned'[r] = returned[r]
      BY <1>1, <2>3, ReturnCounts
    <3>2. Master(r) \ {t} = Master(r) /\ (Round(r) \ Master(r)) \ {t} = Round(r) \ Master(r)
      BY <2>1, <2>3 DEF Master
    <3>3. r < round
      BY <1>1, <2>1, <2>3
    <3>4. /\ returned[r][TRUE] + Cardinality(Master(r)) = 1
          /\ returned[r][FALSE] + Cardinality(Round(r) \ Master(r)) = n - 1
      BY <3>3 DEF BarIInv, Past
    <3> QED BY <2>1, <3>1, <3>2, <3>4
  <2> QED BY <2>2, <2>3
<1> QED BY <1>4, <1>5, <1>7, <1>8, <1>9 DEF BarIInv

\* Both conditions fit, and so it is known who has been told.
LEMMA BothFit ==
  ASSUME NEW S, NEW R,
         Fits(cond'["CSleep"], On("CSleep")', S, mine'),
         Fits(cond'["CReset"], On("CReset")', R, mine')
  PROVE  Ticketed' /\ Told("CSleep")' = S /\ Told("CReset")' = R
<1>1. \A c \in Conds : c = "CSleep" \/ c = "CReset"
  BY DEF Conds
<1>2. Told("CSleep")' = S /\ Told("CReset")' = R
  BY FromFits DEF Conds
<1>3. ASSUME NEW c \in Conds
      PROVE  /\ cond'[c].waiting = Cardinality(On(c)') /\ cond'[c].tickets = Cardinality(Told(c)')
             /\ \A t \in On(c)' : mine'[t] <= cond'[c].gen
  BY <1>1, FromFits
<1> QED BY <1>2, <1>3 DEF Ticketed

\* The rounds before stay as they were if nobody of them moves.
LEMMA PastKept ==
  ASSUME BarIInv, UNCHANGED <<round, returned>>,
         \A r \in Bar!Rounds : r < round => Round(r)' = Round(r) /\ Master(r)' = Master(r)
  PROVE  Past' /\ \A r \in Bar!Rounds : r >= round' => returned'[r][TRUE] = 0 /\ returned'[r][FALSE] = 0
BY DEF BarIInv, Past, Present

\* A thread that waited nowhere blocks on one condition; the other stays as it was.
LEMMA BlockFits ==
  ASSUME Bar!BarrierAssumption, Shapes, NEW t \in Threads, NEW p, NEW c \in Conds,
         NEW was \in [Conds -> Records], Bar!Block(t, p, c, was), NEW d \in Conds, NEW W, NEW T,
         Fits(was[d], W, T, mine), t \notin W
  PROVE  /\ Fits(cond'[d], IF d = c THEN W \cup {t} ELSE W, T, mine')
         /\ cond' \in [Conds -> Records] /\ mine' \in [Threads -> Nat]
<1>1. /\ mine \in [Threads -> Nat] /\ was[c] \in Records /\ was[c].gen \in Nat
      /\ mine' = [mine EXCEPT ![t] = was[c].gen]
      /\ cond' = [was EXCEPT ![c] = Bar!BeginWait(was[c])]
  BY DEF Shapes, Records, Bar!Block
<1>2. cond' \in [Conds -> Records]
  <2>1. Bar!BeginWait(was[c]) \in Records
    BY <1>1 DEF Bar!BeginWait, Records
  <2> QED BY <1>1, <2>1
<1>3. CASE d = c
  <2>1. Fits(Bar!BeginWait(was[c]), W \cup {t}, T, mine')
    BY <1>1, <1>3, BeginFits
  <2> QED BY <1>1, <1>2, <1>3, <2>1
<1>4. CASE d # c
  <2>1. cond'[d] = was[d] /\ \A u \in W : mine'[u] = mine[u]
    BY <1>1, <1>4 DEF Fits
  <2>2. Fits(was[d], W, T, mine')
    BY <2>1, OthersFit
  <2> QED BY <1>1, <1>2, <1>4, <2>1, <2>2
<1> QED BY <1>1, <1>2, <1>3, <1>4

\* A thread comes to the barrier, or wakes and looks again, and finds the conditions as was.
Comes(t, was) ==
  /\ at[t] \in {"out", "full"} /\ was \in [Conds -> Records] /\ was["CSleep"] = cond["CSleep"]
  /\ Fits(was["CReset"], On("CReset") \ {t}, Told("CReset") \ {t}, mine)
  /\ Bar!EnterBarrier(t, was) /\ callsLeft' \in [Threads -> Nat]

\* It is in no round.
LEMMA InNoRound ==
  ASSUME NEW t, NEW was, Comes(t, was)
  PROVE  /\ t \notin On("CSleep")
         /\ \A r : Round(r) \ {t} = Round(r) /\ Master(r) \ {t} = Master(r)
BY DEF Comes, On, place, Round, Master

\* The barrier is full: it waits for the reset.
LEMMA HeldBack ==
  ASSUME Bar!BarrierAssumption, BarIInv, NEW t \in Threads, NEW was, Comes(t, was), Bar!Closed(t)
  PROVE  BarIInv'
<1>1. /\ Bar!Block(t, "full", "CReset", was) /\ callsLeft' \in [Threads -> Nat]
      /\ UNCHANGED <<countSleep, countReset, master, round, entered, returned>>
  BY DEF Comes, Bar!EnterBarrier
<1>2. Emptying /\ Shapes
  BY DEF BarIInv, Filling, Emptying, Bar!Closed, Shapes, Bar!BarrierAssumption
<1>3. /\ at' = [at EXCEPT ![t] = "full"]
      /\ mine' = [mine EXCEPT ![t] = was["CReset"].gen]
      /\ cond' = [was EXCEPT !["CReset"] = Bar!BeginWait(@)]
  BY <1>1 DEF Bar!Block
<1>4. /\ On("CSleep")' = On("CSleep") /\ On("CReset")' = (On("CReset") \ {t}) \cup {t}
      /\ \A r : Round(r)' = Round(r) /\ Master(r)' = Master(r)
  <2>1. /\ On("CSleep")' = On("CSleep") \ {t} /\ On("CReset")' = On("CReset") \cup {t}
        /\ \A r : Round(r)' = Round(r) \ {t} /\ Master(r)' = Master(r) \ {t}
    BY <1>1, <1>3, SetsAfter
  <2> QED BY <2>1, InNoRound
<1>5. /\ Fits(cond'["CSleep"], On("CSleep")', Told("CSleep"), mine')
      /\ Fits(cond'["CReset"], On("CReset")', Told("CReset") \ {t}, mine')
      /\ cond' \in [Conds -> Records] /\ mine' \in [Threads -> Nat]
  <2>1. /\ Fits(was["CSleep"], On("CSleep"), Told("CSleep"), mine)
        /\ Fits(was["CReset"], On("CReset") \ {t}, Told("CReset") \ {t}, mine)
        /\ was \in [Conds -> Records] /\ t \notin On("CSleep") /\ t \notin On("CReset") \ {t}
    BY AllFit, InNoRound DEF Comes, Conds
  <2>2. "CReset" \in Conds /\ "CSleep" \in Conds /\ "CSleep" # "CReset"
    BY DEF Conds
  <2>3. /\ Fits(cond'["CSleep"], On("CSleep"), Told("CSleep"), mine')
        /\ cond' \in [Conds -> Records] /\ mine' \in [Threads -> Nat]
    BY <1>1, <1>2, <2>1, <2>2, BlockFits
  <2>4. Fits(cond'["CReset"], (On("CReset") \ {t}) \cup {t}, Told("CReset") \ {t}, mine')
    BY <1>1, <1>2, <2>1, <2>2, BlockFits
  <2> QED BY <1>4, <2>3, <2>4
<1>6. Ticketed' /\ Told("CSleep")' = Told("CSleep") /\ Told("CReset")' = Told("CReset") \ {t}
  BY <1>5, BothFit
<1>7. Emptying'
  BY <1>1, <1>2, <1>4, <1>6 DEF Emptying
<1>8. Past' /\ Present'
  BY <1>1, <1>4, PastKept DEF BarIInv, Present
<1>9. Shapes'
  <2>1. at' \in [Threads -> {"out", "sleep", "full", "leave"}]
    BY <1>2, <1>3 DEF Shapes
  <2> QED BY <1>1, <1>2, <1>5, <2>1 DEF Shapes
<1> QED BY <1>6, <1>7, <1>8, <1>9 DEF BarIInv

\* A thread joins the round, and is its master if it is the first.
LEMMA Joins ==
  ASSUME Bar!BarrierAssumption, BarIInv, NEW t \in Threads, NEW was, Comes(t, was),
         NEW p \in {"sleep", "leave"}, at' = [at EXCEPT ![t] = p],
         master' = [master EXCEPT ![t] = (countSleep = 0)],
         entered' = [entered EXCEPT ![t] = round],
         countSleep' = countSleep + 1, UNCHANGED <<round, returned>>
  PROVE  /\ Round(round)' = Round(round) \cup {t} /\ Present' /\ Past'
         /\ On("CSleep")' = IF p = "sleep" THEN On("CSleep") \cup {t} ELSE On("CSleep")
         /\ On("CReset")' = IF p = "leave" THEN (On("CReset") \ {t}) \cup {t} ELSE On("CReset") \ {t}
         /\ at' \in [Threads -> {"out", "sleep", "full", "leave"}]
         /\ master' \in [Threads -> BOOLEAN] /\ entered' \in [Threads -> 0 .. round']
<1>1. /\ entered'[t] = round /\ countSleep \in Nat /\ round \in Nat
      /\ \A u \in Threads \ {t} : entered'[u] = entered[u] /\ master'[u] = master[u]
      /\ master'[t] <=> countSleep = 0
      /\ at' \in [Threads -> {"out", "sleep", "full", "leave"}]
      /\ master' \in [Threads -> BOOLEAN] /\ entered' \in [Threads -> 0 .. round']
  <2>1. /\ countSleep \in 0 .. n /\ round \in Nat /\ at \in [Threads -> {"out", "sleep", "full", "leave"}]
        /\ master \in [Threads -> BOOLEAN] /\ entered \in [Threads -> 0 .. round]
    BY DEF BarIInv, Shapes
  <2>2. countSleep \in Nat
    BY <2>1, ThreadSets
  <2>3. (countSleep = 0) \in BOOLEAN
    OBVIOUS
  <2>4. master' \in [Threads -> BOOLEAN] /\ (master'[t] <=> countSleep = 0)
    BY <2>1, <2>3, Zenon
  <2>5. /\ entered'[t] = round
        /\ \A u \in Threads \ {t} : entered'[u] = entered[u] /\ master'[u] = master[u]
    BY <2>1
  <2>6. at' \in [Threads -> {"out", "sleep", "full", "leave"}] /\ entered' \in [Threads -> 0 .. round']
    BY <2>1
  <2> QED BY <2>1, <2>2, <2>4, <2>5, <2>6
<1>2. /\ On("CSleep")' = IF p = "sleep" THEN On("CSleep") \cup {t} ELSE On("CSleep")
      /\ On("CReset")' = IF p = "leave" THEN (On("CReset") \ {t}) \cup {t} ELSE On("CReset") \ {t}
      /\ \A r : r # round => Round(r)' = Round(r) /\ Master(r)' = Master(r)
  <2>1. \A u \in Threads \ {t} : entered'[u] = entered[u] /\ master'[u] = master[u]
    BY <1>1
  <2>2. /\ On("CSleep")' = IF p = "sleep" THEN On("CSleep") \cup {t} ELSE On("CSleep") \ {t}
        /\ On("CReset")' = IF p \in {"full", "leave"} THEN On("CReset") \cup {t}
                           ELSE On("CReset") \ {t}
        /\ p \in {"sleep", "leave"} =>
             \A r : /\ entered'[t] # r =>
                         Round(r)' = Round(r) \ {t} /\ Master(r)' = Master(r) \ {t}
                    /\ entered'[t] = r =>
                         /\ Round(r)' = Round(r) \cup {t}
                         /\ master'[t] => Master(r)' = Master(r) \cup {t}
                         /\ ~master'[t] => Master(r)' = Master(r) \ {t}
    BY <2>1, SetsAfter, Zenon
  <2>3. /\ t \notin On("CSleep")
        /\ \A r : Round(r) \ {t} = Round(r) /\ Master(r) \ {t} = Master(r)
    BY InNoRound
  <2>4. entered'[t] = round
    BY <1>1
  <2>5. \A r : r # round => Round(r)' = Round(r) /\ Master(r)' = Master(r)
    BY <2>2, <2>3, <2>4
  <2>6. /\ p = "sleep" => On("CSleep")' = On("CSleep") \cup {t} /\ On("CReset")' = On("CReset") \ {t}
        /\ p = "leave" => On("CSleep")' = On("CSleep") \ {t} /\ On("CReset")' = On("CReset") \cup {t}
    BY <2>2
  <2> QED BY <2>3, <2>5, <2>6
<1>3. /\ Round(round)' = Round(round) \cup {t}
      /\ Master(round)' = IF countSleep = 0 THEN Master(round) \cup {t} ELSE Master(round)
  <2>1. \A u \in Threads \ {t} : at'[u] = at[u]
    BY DEF BarIInv, Shapes
  <2>2. at'[t] = p /\ t \notin Round(round) /\ t \notin Master(round)
    BY InNoRound DEF BarIInv, Shapes
  <2>3. Round(round)' = Round(round) \cup {t}
    BY <1>1, <2>1, <2>2 DEF Round
  <2>4. Master(round)' = {u \in Round(round) \cup {t} : master'[u]}
    BY <2>3 DEF Master
  <2>5. Round(round) \in SUBSET Threads
    BY DEF Round
  <2> QED BY <1>1, <2>2, <2>3, <2>4, <2>5 DEF Master
<1>4. Present' /\ Past'
  <2>1. Past' /\ \A r \in Bar!Rounds : r >= round' => returned'[r][TRUE] = 0 /\ returned'[r][FALSE] = 0
    <3>1. \A r \in Bar!Rounds : r < round => r # round
      BY <1>1 DEF Bar!Rounds
    <3> QED BY <1>2, <3>1, PastKept
  <2>2. /\ t \notin Round(round) /\ Round(round) \in SUBSET Threads
        /\ t \notin Master(round) /\ Master(round) \in SUBSET Threads
    BY InNoRound DEF Round, Master
  <2>3. Cardinality(Round(round)') = countSleep'
    BY <1>3, <2>2, ThreadSets DEF BarIInv, Present
  <2>4. Cardinality(Master(round)') = 1
    BY <1>3, <2>2, ThreadSets DEF BarIInv, Present
  <2>5. countSleep' # 0
    BY <1>1
  <2> QED BY <2>1, <2>3, <2>4, <2>5 DEF Present
<1> QED BY <1>1, <1>2, <1>3, <1>4

\* There is room: it sleeps until the last one comes.
LEMMA GoesToSleep ==
  ASSUME Bar!BarrierAssumption, BarIInv, NEW t \in Threads, NEW was, Comes(t, was), ~Bar!Closed(t),
         countSleep + 1 < n
  PROVE  BarIInv'
<1>1. /\ Bar!Block(t, "sleep", "CSleep", was) /\ callsLeft' \in [Threads -> Nat]
      /\ master' = [master EXCEPT ![t] = (countSleep = 0)]
      /\ entered' = [entered EXCEPT ![t] = round]
      /\ countSleep' = countSleep + 1 /\ UNCHANGED <<countReset, round, returned>>
  <2>1. ~(countSleep + 1 >= n)
    BY ThreadSets DEF BarIInv, Shapes
  <2> QED BY <2>1 DEF Comes, Bar!EnterBarrier
<1>2. Filling /\ Shapes /\ countSleep \in Nat
  BY DEF BarIInv, Filling, Emptying, Bar!Closed, Shapes, Bar!BarrierAssumption
<1>3. at' = [at EXCEPT ![t] = "sleep"]
  BY <1>1 DEF Bar!Block
<1>4. /\ Round(round)' = Round(round) \cup {t} /\ Present' /\ Past'
      /\ On("CSleep")' = On("CSleep") \cup {t} /\ On("CReset")' = On("CReset") \ {t}
      /\ at' \in [Threads -> {"out", "sleep", "full", "leave"}]
      /\ master' \in [Threads -> BOOLEAN] /\ entered' \in [Threads -> 0 .. round']
  BY <1>1, <1>3, Joins
<1>5. /\ Fits(cond'["CSleep"], On("CSleep")', {}, mine')
      /\ Fits(cond'["CReset"], On("CReset")', On("CReset")', mine')
      /\ cond' \in [Conds -> Records] /\ mine' \in [Threads -> Nat]
  <2>1. /\ Fits(was["CSleep"], On("CSleep"), {}, mine)
        /\ Fits(was["CReset"], On("CReset") \ {t}, On("CReset") \ {t}, mine)
        /\ was \in [Conds -> Records] /\ t \notin On("CSleep") /\ t \notin On("CReset") \ {t}
    BY <1>2, AllFit, InNoRound DEF Comes, Conds, Filling
  <2>2. "CReset" \in Conds /\ "CSleep" \in Conds /\ "CSleep" # "CReset"
    BY DEF Conds
  <2>3. /\ Fits(cond'["CSleep"], On("CSleep") \cup {t}, {}, mine')
        /\ cond' \in [Conds -> Records] /\ mine' \in [Threads -> Nat]
    BY <1>1, <1>2, <2>1, <2>2, BlockFits
  <2>4. Fits(cond'["CReset"], On("CReset") \ {t}, On("CReset") \ {t}, mine')
    BY <1>1, <1>2, <2>1, <2>2, BlockFits
  <2> QED BY <1>4, <2>3, <2>4
<1>6. Ticketed' /\ Told("CSleep")' = {} /\ Told("CReset")' = On("CReset")'
  BY <1>5, BothFit
<1>7. Filling'
  BY <1>1, <1>2, <1>4, <1>6 DEF Filling
<1>8. Shapes'
  <2>1. countSleep' \in 0 .. n
    BY <1>1, <1>2, ThreadSets
  <2> QED BY <1>1, <1>2, <1>4, <1>5, <2>1 DEF Shapes
<1> QED BY <1>4, <1>6, <1>7, <1>8 DEF BarIInv

\* The last one to come wakes the sleepers, and waits for them unless it is alone.
LEMMA LastComes ==
  ASSUME Bar!BarrierAssumption, BarIInv, NEW t \in Threads, NEW was, Comes(t, was), ~Bar!Closed(t),
         countSleep + 1 >= n
  PROVE  BarIInv'
<1> DEFINE told == [was EXCEPT !["CSleep"] = Bar!NotifyAll(@)]
<1>1. /\ Bar!LeaveBarrier(t, 0, countSleep + 1, told) /\ callsLeft' \in [Threads -> Nat]
      /\ master' = [master EXCEPT ![t] = (countSleep = 0)]
      /\ entered' = [entered EXCEPT ![t] = round]
  <2>1. ~(countSleep + 1 < n)
    BY ThreadSets DEF BarIInv, Shapes
  <2> QED BY <2>1 DEF Comes, Bar!EnterBarrier
<1>2. Filling /\ Shapes /\ countSleep = n - 1 /\ n \in Nat \ {0}
  <2>1. ~(countSleep >= n)
    BY DEF Bar!Closed
  <2>2. n \in Nat \ {0} /\ countSleep \in 0 .. n
    BY ThreadSets DEF BarIInv, Shapes
  <2>3. Filling
    BY <2>1, <2>2 DEF BarIInv, Emptying
  <2>4. countSleep = n - 1
    BY <2>1, <2>2
  <2> QED BY <2>2, <2>3, <2>4 DEF BarIInv
<1>3. /\ Fits(told["CSleep"], On("CSleep"), On("CSleep"), mine)
      /\ Fits(told["CReset"], On("CReset") \ {t}, On("CReset") \ {t}, mine)
      /\ told \in [Conds -> Records] /\ t \notin On("CSleep") /\ t \notin On("CReset") \ {t}
  <2>1. /\ Fits(was["CSleep"], On("CSleep"), {}, mine)
        /\ Fits(was["CReset"], On("CReset") \ {t}, On("CReset") \ {t}, mine)
        /\ was \in [Conds -> Records] /\ t \notin On("CSleep")
    BY <1>2, AllFit, InNoRound DEF Comes, Conds, Filling
  <2>2. Fits(Bar!NotifyAll(was["CSleep"]), On("CSleep"), On("CSleep"), mine)
    BY <1>2, <2>1, NotifyFits DEF Shapes
  <2>3. told["CSleep"] = Bar!NotifyAll(was["CSleep"]) /\ told["CReset"] = was["CReset"]
    BY <2>1 DEF Conds
  <2>4. Bar!NotifyAll(was["CSleep"]) \in Records
    BY <2>2 DEF Fits
  <2>5. told \in [Conds -> Records]
    BY <2>1, <2>4
  <2> QED BY <2>1, <2>2, <2>3, <2>5
<1>4. CASE 1 < n
  <2>1. /\ countReset' = 1 /\ countSleep' = countSleep + 1
        /\ Bar!Block(t, "leave", "CReset", told) /\ UNCHANGED <<round, returned>>
    <3>1. 0 + 1 = 1 /\ ~(1 >= n)
      BY <1>2, <1>4
    <3> QED BY <1>1, <3>1 DEF Bar!LeaveBarrier
  <2>2. at' = [at EXCEPT ![t] = "leave"]
    BY <2>1 DEF Bar!Block
  <2>3. /\ Round(round)' = Round(round) \cup {t} /\ Present' /\ Past'
        /\ On("CSleep")' = On("CSleep") /\ On("CReset")' = (On("CReset") \ {t}) \cup {t}
        /\ at' \in [Threads -> {"out", "sleep", "full", "leave"}]
        /\ master' \in [Threads -> BOOLEAN] /\ entered' \in [Threads -> 0 .. round']
    BY <1>1, <2>1, <2>2, Joins
  <2>4. /\ Fits(cond'["CSleep"], On("CSleep")', On("CSleep")', mine')
        /\ Fits(cond'["CReset"], On("CReset")', On("CReset") \ {t}, mine')
        /\ cond' \in [Conds -> Records] /\ mine' \in [Threads -> Nat]
    <3>1. "CReset" \in Conds /\ "CSleep" \in Conds /\ "CSleep" # "CReset"
      BY DEF Conds
    <3>2. /\ Fits(cond'["CSleep"], On("CSleep"), On("CSleep"), mine')
          /\ cond' \in [Conds -> Records] /\ mine' \in [Threads -> Nat]
      BY <1>2, <1>3, <2>1, <3>1, BlockFits
    <3>3. Fits(cond'["CReset"], (On("CReset") \ {t}) \cup {t}, On("CReset") \ {t}, mine')
      BY <1>2, <1>3, <2>1, <3>1, BlockFits
    <3> QED BY <2>3, <3>2, <3>3
  <2>5. Ticketed' /\ Told("CSleep")' = On("CSleep")' /\ Told("CReset")' = On("CReset") \ {t}
    BY <2>4, BothFit
  <2>6. Emptying'
    <3>1. Round(round) = On("CSleep") /\ Cardinality(On("CSleep")) = n - 1
      BY <1>2 DEF Filling, BarIInv, Present
    <3>2. (On("CReset") \ {t}) \cap (On("CSleep") \cup {t}) = {}
      BY DEF On, place
    <3>3. Round(round)' = On("CSleep") \cup {t} /\ round' = round
      BY <2>1, <2>3, <3>1
    <3>4. countSleep' = n /\ countReset' = 1 /\ 1 \in 1 .. n - 1 /\ (n - 1) + 1 = n
      BY <1>2, <1>4, <2>1
    <3> QED BY <2>3, <2>5, <3>1, <3>2, <3>3, <3>4 DEF Emptying
  <2>7. Shapes'
    <3>1. countSleep' \in 0 .. n /\ countReset' \in 0 .. n
      BY <1>2, <2>1
    <3> QED BY <1>1, <1>2, <2>1, <2>3, <2>4, <3>1 DEF Shapes
  <2> QED BY <2>3, <2>5, <2>6, <2>7 DEF BarIInv
<1>5. CASE ~(1 < n)
  <2>1. n = 1 /\ countSleep = 0
    BY <1>2, <1>5
  <2>2. /\ countReset' = 1 /\ countSleep' = 0 /\ Bar!Return(t) /\ round' = round + 1
        /\ cond' = [told EXCEPT !["CReset"] = Bar!NotifyAll(@)] /\ UNCHANGED mine
    BY <1>1, <1>5 DEF Bar!LeaveBarrier
  <2>3. master' = [master EXCEPT ![t] = TRUE]
    BY <1>1, <2>1
  <2>4. Round(round) = {} /\ Master(round) = {} /\ On("CSleep") = {}
    <3>1. Cardinality(Round(round)) = 0 /\ Round(round) \in SUBSET Threads
      BY <2>1 DEF BarIInv, Present, Round
    <3>2. Round(round) = {}
      BY <3>1, ThreadSets
    <3> QED BY <1>2, <3>2 DEF Filling, Master
  <2>5. /\ Cardinality(Master(round) \ {t}) = (IF TRUE THEN 0 ELSE 1)
        /\ Cardinality((Round(round) \ Master(round)) \ {t}) = (IF TRUE THEN n - 1 ELSE n - 2)
    <3>1. Master(round) \ {t} = {} /\ (Round(round) \ Master(round)) \ {t} = {}
      BY <2>4
    <3> QED BY <2>1, <3>1, ThreadSets
  <2>6. \A r \in Nat : r # round => t \notin Round(r)
    BY InNoRound
  <2>7. /\ Fits(told["CSleep"], On("CSleep") \ {t}, {}, mine) /\ On("CSleep") \ {t} = {}
        /\ Fits(told["CReset"], On("CReset") \ {t}, On("CReset") \ {t}, mine)
        /\ told \in [Conds -> Records]
    BY <1>3, <2>4
  <2>8. countReset' \in 0 .. n
    BY <2>1, <2>2
  <2>9. TRUE \in BOOLEAN /\ callsLeft' \in [Threads -> Nat] /\ entered' = [entered EXCEPT ![t] = round]
    BY <1>1
  <2> HIDE DEF told
  <2> QED BY <2>2, <2>3, <2>5, <2>6, <2>7, <2>8, <2>9, LastLeaves, ZenonT(60)
<1> QED BY <1>4, <1>5

\* Coming to the barrier preserves the invariant.
LEMMA ComesIInv ==
  ASSUME Bar!BarrierAssumption, BarIInv, NEW t \in Threads, NEW was, Comes(t, was)
  PROVE  BarIInv'
<1>1. countSleep \in 0 .. n /\ n \in Nat
  BY ThreadSets DEF BarIInv, Shapes
<1>2. countSleep + 1 < n \/ countSleep + 1 >= n
  BY <1>1
<1> QED BY <1>2, HeldBack, GoesToSleep, LastComes

\* A call of Wait.
LEMMA BarWaitIInv ==
  ASSUME Bar!BarrierAssumption, BarIInv, NEW t \in Threads, Bar!Wait(t)
  PROVE  BarIInv'
<1>1. /\ at[t] = "out" /\ callsLeft[t] > 0 /\ Bar!EnterBarrier(t, cond)
      /\ callsLeft' = [callsLeft EXCEPT ![t] = callsLeft[t] - 1]
  BY DEF Bar!Wait
<1>2. t \notin On("CReset") /\ t \notin Told("CReset")
  BY <1>1 DEF On, Told, place
<1>3. Fits(cond["CReset"], On("CReset") \ {t}, Told("CReset") \ {t}, mine)
  <2>1. On("CReset") \ {t} = On("CReset") /\ Told("CReset") \ {t} = Told("CReset")
    BY <1>2
  <2> QED BY <2>1, AllFit DEF Conds
<1>4. callsLeft' \in [Threads -> Nat] /\ cond \in [Conds -> Records]
  BY <1>1 DEF BarIInv, Shapes
<1> QED BY <1>1, <1>3, <1>4, ComesIInv DEF Comes

\* One who was held back looks again.
LEMMA WakeEarlyIInv ==
  ASSUME Bar!BarrierAssumption, BarIInv, NEW t \in Threads, Bar!WakeEarly(t)
  PROVE  BarIInv'
<1> DEFINE was == [cond EXCEPT !["CReset"] = Bar!EndWait(@)]
<1>1. /\ at[t] = "full" /\ Bar!EnterBarrier(t, was) /\ callsLeft' = callsLeft
      /\ cond["CReset"].gen # mine[t]
  BY DEF Bar!WakeEarly, Bar!Woken
<1>2. t \in Told("CReset")
  BY <1>1 DEF On, Told, place
<1>3. Fits(Bar!EndWait(cond["CReset"]), On("CReset") \ {t}, Told("CReset") \ {t}, mine)
  BY <1>2, AllFit, EndFits DEF Conds
<1>4. cond \in [Conds -> Records] /\ callsLeft \in [Threads -> Nat]
  BY DEF BarIInv, Shapes
<1>5. was["CReset"] = Bar!EndWait(cond["CReset"]) /\ was["CSleep"] = cond["CSleep"]
  BY <1>4 DEF Conds
<1>6. was \in [Conds -> Records]
  <2>1. Bar!EndWait(cond["CReset"]) \in Records
    BY <1>3 DEF Fits
  <2> QED BY <1>4, <2>1
<1> HIDE DEF was
<1>7. Comes(t, was)
  BY <1>1, <1>3, <1>4, <1>5, <1>6 DEF Comes
<1> QED BY <1>7, ComesIInv

\* Whoever is woken was told, and its ticket goes with it.
LEMMA WokenTold ==
  ASSUME BarIInv, NEW c \in Conds, NEW t \in On(c), Bar!Woken(t, c)
  PROVE  t \in Told(c)
BY DEF Bar!Woken, Told

\* Sets of which one member or all but one are counted.
LEMMA MasterAndOthers ==
  ASSUME Bar!BarrierAssumption, NEW R \in SUBSET Threads, NEW M \in SUBSET R, NEW t \in R,
         NEW k \in Nat, Cardinality(R) = k, Cardinality(M) = 1
  PROVE  /\ t \in M => Cardinality(M \ {t}) = 0 /\ Cardinality((R \ M) \ {t}) = k - 1
         /\ t \notin M => Cardinality(M \ {t}) = 1 /\ Cardinality((R \ M) \ {t}) = k - 2
<1>1. PICK x \in M : M = {x}
  <2>1. M # {}
    BY ThreadSets
  <2>2. PICK x \in M : TRUE
    BY <2>1
  <2>3. Cardinality({x}) = 1 /\ {x} \in SUBSET M /\ M \in SUBSET Threads
    <3>1. Cardinality({} \cup {x}) = Cardinality({}) + 1
      BY ThreadSets
    <3> QED BY <3>1, ThreadSets
  <2>4. {x} = M
    BY <2>3, ThreadSets
  <2> QED BY <2>4
<1>2. R \ M = R \ {x} /\ Cardinality(R \ {x}) = k - 1 /\ R \ {x} \in SUBSET Threads
  BY <1>1, ThreadSets
<1>3. CASE t \in M
  <2>1. M \ {t} = {} /\ (R \ M) \ {t} = R \ {x}
    BY <1>1, <1>3
  <2> QED BY <1>2, <1>3, <2>1, ThreadSets
<1>4. CASE t \notin M
  <2>1. M \ {t} = M /\ t \in R \ {x}
    BY <1>1, <1>4
  <2>2. Cardinality((R \ {x}) \ {t}) = k - 2
    BY <1>2, <2>1, ThreadSets
  <2> QED BY <1>2, <1>4, <2>1, <2>2
<1> QED BY <1>3, <1>4

\* What one gains the other loses.
LEMMA SumKept ==
  ASSUME NEW a \in Nat, NEW b \in Nat
  PROVE  a <= a + b /\ (a + 1) + (b - 1) = a + b
OBVIOUS

\* A sleeper wakes, and leaves or waits for the others to leave.
LEMMA WakeSleeperIInv ==
  ASSUME Bar!BarrierAssumption, BarIInv, NEW t \in Threads, Bar!WakeSleeper(t)
  PROVE  BarIInv'
<1> DEFINE was == [cond EXCEPT !["CSleep"] = Bar!EndWait(@)]
<1>1. /\ at[t] = "sleep" /\ Bar!Woken(t, "CSleep") /\ UNCHANGED <<master, entered, callsLeft>>
      /\ Bar!LeaveBarrier(t, countReset, countSleep, was)
  BY DEF Bar!WakeSleeper
<1>2. /\ t \in On("CSleep") /\ t \in Told("CSleep") /\ t \notin On("CReset")
      /\ On("CSleep") \in SUBSET Threads
  <2>1. t \in On("CSleep") /\ t \notin On("CReset") /\ On("CSleep") \in SUBSET Threads
    BY <1>1 DEF On, place
  <2> QED BY <1>1, <2>1, WokenTold DEF Conds
<1>3. Emptying /\ Shapes /\ n \in Nat \ {0}
  BY <1>2, ThreadSets DEF BarIInv, Filling
<1>4. /\ Fits(was["CSleep"], On("CSleep") \ {t}, On("CSleep") \ {t}, mine)
      /\ Fits(was["CReset"], On("CReset"), Told("CReset"), mine)
      /\ was \in [Conds -> Records]
  <2>1. cond \in [Conds -> Records] /\ Told("CSleep") = On("CSleep")
    BY <1>3 DEF Shapes, Emptying
  <2>2. Fits(Bar!EndWait(cond["CSleep"]), On("CSleep") \ {t}, On("CSleep") \ {t}, mine)
    BY <1>2, <2>1, AllFit, EndFits DEF Conds
  <2>3. was["CSleep"] = Bar!EndWait(cond["CSleep"]) /\ was["CReset"] = cond["CReset"]
    BY <2>1 DEF Conds
  <2>4. was \in [Conds -> Records]
    <3>1. Bar!EndWait(cond["CSleep"]) \in Records
      BY <2>2 DEF Fits
    <3> QED BY <2>1, <3>1
  <2>5. Fits(cond["CReset"], On("CReset"), Told("CReset"), mine)
    BY AllFit DEF Conds
  <2> QED BY <2>2, <2>3, <2>4, <2>5
<1> HIDE DEF was
<1>5. t \in Round(round) /\ entered[t] = round /\ Round(round) \in SUBSET Threads
  BY <1>2, <1>3 DEF Emptying, Round
<1>6. /\ countReset \in 1 .. n - 1 /\ Cardinality(On("CSleep")) + countReset = n
      /\ countSleep = n /\ Cardinality(On("CSleep") \ {t}) = Cardinality(On("CSleep")) - 1
      /\ Cardinality(On("CSleep")) \in Nat
  BY <1>2, <1>3, ThreadSets DEF Emptying
<1>7. CASE countReset + 1 < n
  <2>1. /\ countReset' = countReset + 1 /\ countSleep' = countSleep
        /\ Bar!Block(t, "leave", "CReset", was) /\ UNCHANGED <<round, returned>>
    <3>1. ~(countReset + 1 >= n)
      BY <1>3, <1>6, <1>7
    <3> QED BY <1>1, <3>1 DEF Bar!LeaveBarrier
  <2>2. at' = [at EXCEPT ![t] = "leave"]
    BY <2>1 DEF Bar!Block
  <2>3. /\ On("CSleep")' = On("CSleep") \ {t} /\ On("CReset")' = On("CReset") \cup {t}
        /\ \A r : Round(r)' = Round(r) /\ Master(r)' = Master(r)
    <3>1. at'[t] = "leave" /\ \A u \in Threads \ {t} : at'[u] = at[u]
      BY <1>3, <2>2 DEF Shapes
    <3>2. On("CSleep")' = On("CSleep") \ {t} /\ On("CReset")' = On("CReset") \cup {t}
      BY <3>1 DEF On, place
    <3>3. \A r : Round(r)' = Round(r)
      BY <1>1, <3>1 DEF Round
    <3>4. \A r : Master(r)' = Master(r)
      BY <1>1, <3>3 DEF Master
    <3> QED BY <3>2, <3>3, <3>4
  <2>4. /\ Fits(cond'["CSleep"], On("CSleep")', On("CSleep")', mine')
        /\ Fits(cond'["CReset"], On("CReset")', Told("CReset"), mine')
        /\ cond' \in [Conds -> Records] /\ mine' \in [Threads -> Nat]
    <3>1. "CReset" \in Conds /\ "CSleep" \in Conds /\ "CSleep" # "CReset"
          /\ t \notin On("CSleep") \ {t}
      BY DEF Conds
    <3>2. /\ Fits(cond'["CSleep"], On("CSleep") \ {t}, On("CSleep") \ {t}, mine')
          /\ cond' \in [Conds -> Records] /\ mine' \in [Threads -> Nat]
      BY <1>3, <1>4, <2>1, <3>1, BlockFits
    <3>3. Fits(cond'["CReset"], On("CReset") \cup {t}, Told("CReset"), mine')
      BY <1>2, <1>3, <1>4, <2>1, <3>1, BlockFits
    <3> QED BY <2>3, <3>2, <3>3
  <2>5. Ticketed' /\ Told("CSleep")' = On("CSleep")' /\ Told("CReset")' = Told("CReset")
    BY <2>4, BothFit
  <2>6. Emptying'
    <3>1. /\ Round(round)' = Round(round) /\ round' = round
          /\ On("CSleep") \subseteq Round(round) /\ Told("CReset") \cap Round(round) = {}
      BY <1>3, <2>1, <2>3 DEF Emptying
    <3>2. /\ countSleep' = n /\ countReset' \in 1 .. n - 1
          /\ Cardinality(On("CSleep")') + countReset' = n
      BY <1>3, <1>6, <1>7, <2>1, <2>3
    <3> QED BY <2>3, <2>5, <3>1, <3>2 DEF Emptying
  <2>7. Past' /\ Present'
    BY <2>1, <2>3, PastKept DEF BarIInv, Present
  <2>8. Shapes'
    <3>1. at' \in [Threads -> {"out", "sleep", "full", "leave"}]
      BY <1>3, <2>2 DEF Shapes
    <3>2. countReset' \in 0 .. n
      BY <1>3, <1>6, <1>7, <2>1
    <3> QED BY <1>1, <1>3, <2>1, <2>4, <3>1, <3>2 DEF Shapes
  <2> QED BY <2>5, <2>6, <2>7, <2>8 DEF BarIInv
<1>8. CASE ~(countReset + 1 < n)
  <2>1. countReset = n - 1 /\ Cardinality(On("CSleep") \ {t}) = 0
    BY <1>3, <1>6, <1>8
  <2>2. On("CSleep") \ {t} = {} /\ On("CReset") \ {t} = On("CReset")
    <3>1. On("CSleep") \ {t} \in SUBSET Threads
      BY <1>2
    <3> QED BY <1>2, <2>1, <3>1, ThreadSets
  <2>3. /\ countReset' = countReset + 1 /\ countSleep' = 0 /\ Bar!Return(t) /\ round' = round + 1
        /\ cond' = [was EXCEPT !["CReset"] = Bar!NotifyAll(@)] /\ UNCHANGED mine
    BY <1>1, <1>8 DEF Bar!LeaveBarrier
  <2>4. /\ master' = [master EXCEPT ![t] = master[t]] /\ entered' = [entered EXCEPT ![t] = round]
        /\ callsLeft' \in [Threads -> Nat] /\ master[t] \in BOOLEAN
    BY <1>1, <1>3, <1>5 DEF Shapes
  <2>5. /\ Cardinality(Master(round) \ {t}) = (IF master[t] THEN 0 ELSE 1)
        /\ Cardinality((Round(round) \ Master(round)) \ {t}) = (IF master[t] THEN n - 1 ELSE n - 2)
    <3>1. /\ Cardinality(Round(round)) = n /\ Cardinality(Master(round)) = 1
          /\ Master(round) \in SUBSET Round(round)
      BY <1>3, <1>5, <1>6 DEF BarIInv, Present, Master
    <3>4. t \in Master(round) <=> master[t]
      BY <1>5 DEF Master
    <3>2. n \in Nat /\ Round(round) \in SUBSET Threads /\ t \in Round(round)
      BY <1>3, <1>5
    <3>3. /\ t \in Master(round) => /\ Cardinality(Master(round) \ {t}) = 0
                                   /\ Cardinality((Round(round) \ Master(round)) \ {t}) = n - 1
          /\ t \notin Master(round) => /\ Cardinality(Master(round) \ {t}) = 1
                                      /\ Cardinality((Round(round) \ Master(round)) \ {t}) = n - 2
      BY <3>1, <3>2, MasterAndOthers
    <3> QED BY <3>3, <3>4
  <2>6. \A r \in Nat : r # round => t \notin Round(r)
    BY <1>5 DEF Round
  <2>7. /\ Fits(was["CSleep"], On("CSleep") \ {t}, {}, mine)
        /\ Fits(was["CReset"], On("CReset") \ {t}, Told("CReset"), mine)
    BY <1>4, <2>2
  <2>8. countReset' \in 0 .. n
    BY <1>3, <2>1, <2>3
  <2> QED BY <1>4, <2>2, <2>3, <2>4, <2>5, <2>6, <2>7, <2>8, LastLeaves, ZenonT(60)
<1> QED BY <1>7, <1>8

\* A thread that waited for the last one returns, from a round that is over.
LEMMA WakeLeaverIInv ==
  ASSUME Bar!BarrierAssumption, BarIInv, NEW t \in Threads, Bar!WakeLeaver(t)
  PROVE  BarIInv'
<1>1. /\ at[t] = "leave" /\ Bar!Woken(t, "CReset")
      /\ cond' = [cond EXCEPT !["CReset"] = Bar!EndWait(@)]
      /\ UNCHANGED <<countSleep, countReset, mine, master, entered, callsLeft, round>>
      /\ at' = [at EXCEPT ![t] = "out"]
      /\ returned' = [returned EXCEPT ![entered[t]][master[t]] = @ + 1]
  BY DEF Bar!WakeLeaver, Bar!Return
<1>2. t \in On("CReset") /\ t \in Told("CReset") /\ t \notin On("CSleep") /\ Shapes
  <2>1. t \in On("CReset") /\ t \notin On("CSleep")
    BY <1>1 DEF On, place
  <2> QED BY <1>1, <2>1, WokenTold DEF Conds, BarIInv
<1>3. t \in Round(entered[t]) /\ entered[t] \in Nat /\ entered[t] < round /\ round \in Nat
  <2>1. t \in Round(entered[t]) /\ entered[t] \in 0 .. round /\ round \in Nat
    BY <1>1, <1>2 DEF Round, Shapes
  <2>2. t \notin Round(round)
    BY <1>2 DEF BarIInv, Filling, Emptying
  <2> QED BY <2>1, <2>2
<1>4. /\ Fits(cond'["CSleep"], On("CSleep"), Told("CSleep"), mine')
      /\ Fits(cond'["CReset"], On("CReset") \ {t}, Told("CReset") \ {t}, mine')
      /\ cond' \in [Conds -> Records]
  <2>1. cond \in [Conds -> Records]
    BY <1>2 DEF Shapes
  <2>2. Fits(Bar!EndWait(cond["CReset"]), On("CReset") \ {t}, Told("CReset") \ {t}, mine)
    BY <1>2, AllFit, EndFits DEF Conds
  <2>3. cond'["CReset"] = Bar!EndWait(cond["CReset"]) /\ cond'["CSleep"] = cond["CSleep"]
    BY <1>1, <2>1 DEF Conds
  <2>4. cond' \in [Conds -> Records]
    <3>1. Bar!EndWait(cond["CReset"]) \in Records
      BY <2>2 DEF Fits
    <3> QED BY <1>1, <2>1, <3>1
  <2>5. Fits(cond["CSleep"], On("CSleep"), Told("CSleep"), mine)
    BY AllFit DEF Conds
  <2> QED BY <1>1, <2>2, <2>3, <2>4, <2>5
<1>5. /\ On("CSleep")' = On("CSleep") /\ On("CReset")' = On("CReset") \ {t}
      /\ \A r : Round(r)' = Round(r) \ {t} /\ Master(r)' = Master(r) \ {t}
  <2>1. at'[t] = "out" /\ \A u \in Threads \ {t} : at'[u] = at[u]
    BY <1>1, <1>2 DEF Shapes
  <2>2. On("CSleep")' = On("CSleep") /\ On("CReset")' = On("CReset") \ {t}
    BY <1>2, <2>1 DEF On, place
  <2>3. \A r : Round(r)' = Round(r) \ {t}
    BY <1>1, <2>1 DEF Round
  <2>4. \A r : Master(r)' = Master(r) \ {t}
    BY <1>1, <2>3 DEF Master
  <2> QED BY <2>2, <2>3, <2>4
<1>6. Ticketed' /\ Told("CSleep")' = Told("CSleep") /\ Told("CReset")' = Told("CReset") \ {t}
  BY <1>4, <1>5, BothFit
<1>7. \A r : r # entered[t] => Round(r)' = Round(r) /\ Master(r)' = Master(r)
  BY <1>5 DEF Round, Master
<1>8. Round(round)' = Round(round) /\ Master(round)' = Master(round) /\ round' = round
  BY <1>1, <1>3, <1>7
<1>9. Filling' \/ Emptying'
  <2>1. CASE Filling
    <3>1. Filling'
      BY <1>1, <1>5, <1>6, <1>8, <2>1 DEF Filling
    <3> QED BY <3>1
  <2>2. CASE Emptying
    <3>1. Emptying'
      BY <1>1, <1>5, <1>6, <1>8, <2>2 DEF Emptying
    <3> QED BY <3>1
  <2> QED BY <2>1, <2>2 DEF BarIInv
<1>10. master[t] \in BOOLEAN
  BY <1>2 DEF Shapes
<1>11. /\ returned' \in [Bar!Rounds -> [BOOLEAN -> Nat]]
       /\ \A r \in Bar!Rounds : r # entered[t] => returned'[r] = returned[r]
       /\ entered[t] \in Bar!Rounds /\ master[t] =>
            /\ returned'[entered[t]][TRUE] = returned[entered[t]][TRUE] + 1
            /\ returned'[entered[t]][FALSE] = returned[entered[t]][FALSE]
       /\ entered[t] \in Bar!Rounds /\ ~master[t] =>
            /\ returned'[entered[t]][TRUE] = returned[entered[t]][TRUE]
            /\ returned'[entered[t]][FALSE] = returned[entered[t]][FALSE] + 1
  <2>1. returned' = [returned EXCEPT ![entered[t]][master[t]] = @ + 1]
    BY <1>1
  <2> QED BY <1>10, <2>1, ReturnCounts, Zenon
<1>12. Present'
  <2>1. \A r \in Bar!Rounds : r >= round' => returned'[r] = returned[r] /\ r >= round
    <3>1. \A r \in Bar!Rounds : r >= round => r # entered[t]
      BY <1>3 DEF Bar!Rounds
    <3> QED BY <1>8, <1>11, <3>1
  <2>2. /\ Cardinality(Round(round)) = countSleep
        /\ Cardinality(Master(round)) = IF countSleep = 0 THEN 0 ELSE 1
        /\ \A r \in Bar!Rounds : r >= round => returned[r][TRUE] = 0 /\ returned[r][FALSE] = 0
    BY DEF BarIInv, Present
  <2> QED BY <1>1, <1>8, <2>1, <2>2 DEF Present
<1>13. Past'
  <2> SUFFICES ASSUME NEW r \in Bar!Rounds, r < round
               PROVE  /\ returned'[r][TRUE] + Cardinality(Master(r)') = 1
                      /\ returned'[r][FALSE] + Cardinality(Round(r)' \ Master(r)') = n - 1
    BY <1>8 DEF Past
  <2>1. /\ returned[r][TRUE] + Cardinality(Master(r)) = 1
        /\ returned[r][FALSE] + Cardinality(Round(r) \ Master(r)) = n - 1
    BY DEF BarIInv, Past
  <2>2. CASE r # entered[t]
    BY <1>7, <1>11, <2>1, <2>2
  <2>3. CASE r = entered[t]
    <3>1. /\ returned[r][TRUE] \in Nat /\ returned[r][FALSE] \in Nat
      <4>1. returned[r] \in [BOOLEAN -> Nat]
        BY <1>2 DEF Shapes
      <4> QED BY <4>1
    <3>2. /\ Round(r) \in SUBSET Threads /\ Master(r) \in SUBSET Round(r)
          /\ t \in Round(r) /\ (t \in Master(r) <=> master[t])
      BY <1>3, <2>3 DEF Round, Master
    <3>3. /\ Cardinality(Master(r)) \in Nat /\ Cardinality(Round(r) \ Master(r)) \in Nat
          /\ t \in Master(r) => Cardinality(Master(r) \ {t}) = Cardinality(Master(r)) - 1
          /\ t \notin Master(r) => Cardinality((Round(r) \ Master(r)) \ {t})
                                   = Cardinality(Round(r) \ Master(r)) - 1
      <4>1. /\ Master(r) \in SUBSET Threads /\ Round(r) \ Master(r) \in SUBSET Threads
            /\ t \notin Master(r) => t \in Round(r) \ Master(r)
        BY <3>2
      <4> QED BY <4>1, ThreadSets
    <3>4. /\ Master(r)' = Master(r) \ {t}
          /\ Round(r)' \ Master(r)' = (Round(r) \ Master(r)) \ {t}
      BY <1>5
    <3>5. CASE master[t]
      <4>1. returned'[r][TRUE] = returned[r][TRUE] + 1 /\ returned'[r][FALSE] = returned[r][FALSE]
        BY <1>11, <2>3, <3>5
      <4>2. /\ Cardinality(Master(r)') = Cardinality(Master(r)) - 1
            /\ Round(r)' \ Master(r)' = Round(r) \ Master(r)
        <5>1. t \in Master(r) /\ (Round(r) \ Master(r)) \ {t} = Round(r) \ Master(r)
          BY <3>2, <3>5
        <5> QED BY <3>3, <3>4, <5>1, Zenon
      <4>3. (returned[r][TRUE] + 1) + (Cardinality(Master(r)) - 1) = 1
        <5>1. /\ returned[r][TRUE] + Cardinality(Master(r)) = 1
              /\ returned[r][TRUE] \in Nat /\ Cardinality(Master(r)) \in Nat
          BY <2>1, <3>1, <3>3
        <5> QED BY <5>1, SumKept, Zenon
      <4> QED BY <2>1, <4>1, <4>2, <4>3, Zenon
    <3>6. CASE ~master[t]
      <4>1. returned'[r][TRUE] = returned[r][TRUE] /\ returned'[r][FALSE] = returned[r][FALSE] + 1
        BY <1>11, <2>3, <3>6
      <4>2. /\ Master(r)' = Master(r)
            /\ Cardinality(Round(r)' \ Master(r)') = Cardinality(Round(r) \ Master(r)) - 1
        <5>1. t \notin Master(r) /\ Master(r) \ {t} = Master(r)
          BY <3>2, <3>6
        <5> QED BY <3>3, <3>4, <5>1, Zenon
      <4>3. (returned[r][FALSE] + 1) + (Cardinality(Round(r) \ Master(r)) - 1) = n - 1
        <5>1. /\ returned[r][FALSE] + Cardinality(Round(r) \ Master(r)) = n - 1
              /\ returned[r][FALSE] \in Nat /\ Cardinality(Round(r) \ Master(r)) \in Nat
          BY <2>1, <3>1, <3>3
        <5>2. (returned[r][FALSE] + 1) + (Cardinality(Round(r) \ Master(r)) - 1)
              = returned[r][FALSE] + Cardinality(Round(r) \ Master(r))
          BY <5>1, SumKept, Zenon
        <5> QED BY <5>1, <5>2, Zenon
      <4> QED BY <2>1, <4>1, <4>2, <4>3, Zenon
    <3> QED BY <3>5, <3>6
  <2> QED BY <2>2, <2>3
<1>14. Shapes'
  <2>1. at' \in [Threads -> {"out", "sleep", "full", "leave"}]
    BY <1>1, <1>2 DEF Shapes
  <2> QED BY <1>1, <1>2, <1>4, <1>11, <2>1 DEF Shapes
<1> QED BY <1>6, <1>9, <1>12, <1>13, <1>14 DEF BarIInv

\* The invariant holds at first: nobody waits and nobody has come.
LEMMA BarInitIInv ==
  ASSUME Bar!BarrierAssumption, Bar!Init
  PROVE  BarIInv
<1>1. n \in Nat \ {0} /\ Cardinality({}) = 0 /\ Calls \in Nat
  BY ThreadSets DEF Bar!BarrierAssumption
<1>2. \A t \in Threads : at[t] = "out" /\ entered[t] = 0
  BY DEF Bar!Init
<1>3. \A c \in Conds : /\ cond[c] = [waiting |-> 0, tickets |-> 0, gen |-> 0]
                       /\ On(c) = {} /\ Told(c) = {}
  BY <1>2 DEF Bar!Init, Conds, On, Told, place
<1>4. \A r : Round(r) = {} /\ Master(r) = {}
  BY <1>2 DEF Round, Master
<1>5. Shapes
  <2>1. cond \in [Conds -> Records]
    BY DEF Bar!Init, Conds, Records
  <2>2. returned \in [Bar!Rounds -> [BOOLEAN -> Nat]]
    BY DEF Bar!Init
  <2> QED BY <1>1, <2>1, <2>2 DEF Bar!Init, Shapes
<1>6. Ticketed
  BY <1>1, <1>3 DEF Ticketed
<1>7. Filling
  <2>1. On("CSleep") = {} /\ Told("CSleep") = {} /\ On("CReset") = {} /\ Told("CReset") = {}
    BY <1>3 DEF Conds
  <2>2. countSleep = 0 /\ 0 < n
    BY <1>1 DEF Bar!Init
  <2> QED BY <1>4, <2>1, <2>2 DEF Filling
<1>8. Present
  BY <1>1, <1>4 DEF Present, Bar!Init
<1>9. Past
  BY DEF Past, Bar!Init, Bar!Rounds
<1> QED BY <1>5, <1>6, <1>7, <1>8, <1>9 DEF BarIInv

\* Every step preserves it.
LEMMA BarStepIInv ==
  ASSUME Bar!BarrierAssumption, BarIInv, [Bar!Next]_(Bar!vars)
  PROVE  BarIInv'
<1>1. CASE Bar!Next
  BY <1>1, BarWaitIInv, WakeSleeperIInv, WakeEarlyIInv, WakeLeaverIInv DEF Bar!Next
<1>2. CASE UNCHANGED Bar!vars
  <2>1. UNCHANGED <<countSleep, countReset, cond, mine, at, master, callsLeft, round,
                    entered, returned>>
    BY <1>2 DEF Bar!vars
  <2>2. \A c \in Conds : On(c)' = On(c) /\ Told(c)' = Told(c)
    BY <2>1 DEF On, Told
  <2>3. \A r : Round(r)' = Round(r) /\ Master(r)' = Master(r)
    BY <2>1 DEF Round, Master
  <2>4. On("CSleep")' = On("CSleep") /\ On("CReset")' = On("CReset")
        /\ Told("CSleep")' = Told("CSleep") /\ Told("CReset")' = Told("CReset")
    BY <2>2 DEF Conds
  <2>5. Shapes'
    BY <2>1 DEF BarIInv, Shapes
  <2>6. Ticketed'
    BY <2>1, <2>2 DEF BarIInv, Ticketed
  <2>7. Filling' \/ Emptying'
    BY <2>1, <2>3, <2>4 DEF BarIInv, Filling, Emptying
  <2>8. Present' /\ Past'
    BY <2>1, <2>3, PastKept DEF BarIInv, Present
  <2> QED BY <2>5, <2>6, <2>7, <2>8 DEF BarIInv
<1> QED BY <1>1, <1>2

\* The invariant holds in every state.
LEMMA BarInvariant ==
  ASSUME Bar!BarrierAssumption
  PROVE  Bar!Spec => []BarIInv
BY BarInitIInv, BarStepIInv, PTL DEF Bar!Spec

\* The calls a thread has left, and those of which it is in the middle.
Due == {p \in Threads \X (1 .. Calls) : p[2] <= callsLeft[p[1]]}
Early == {t \in Threads : at[t] = "full"}
Taken == n * round
AllCalls == Cardinality(Threads) * Calls
CallsCounted ==
  /\ callsLeft \in [Threads -> 0 .. Calls]
  /\ Cardinality(Due) + Cardinality(Early) + countSleep + Taken
       = AllCalls

\* The pairs of threads and calls are counted.
LEMMA DueCounts ==
  ASSUME Bar!BarrierAssumption
  PROVE  /\ IsFiniteSet(Threads \X (1 .. Calls))
         /\ Cardinality(Threads \X (1 .. Calls)) = Cardinality(Threads) * Calls
         /\ Cardinality(Threads) \in Nat /\ Cardinality(Threads) * Calls \in Nat
<1>1. IsFiniteSet(Threads) /\ Calls \in Nat /\ Cardinality(Threads) \in Nat
  BY FS_CardinalityType, SameCounts DEF Bar!BarrierAssumption
<1>2. IsFiniteSet(1 .. Calls) /\ Cardinality(1 .. Calls) = Calls
  <2>1. IsFiniteSet(1 .. Calls) /\ Cardinality(1 .. Calls) = IF 1 > Calls THEN 0 ELSE Calls - 1 + 1
    BY <1>1, FS_Interval
  <2> QED BY <1>1, <2>1
<1>3. Cardinality(Threads \X (1 .. Calls)) = Cardinality(Threads) * Cardinality(1 .. Calls)
      /\ IsFiniteSet(Threads \X (1 .. Calls))
  BY <1>1, <1>2, FS_Product
<1>4. Cardinality(Threads) * Calls \in Nat
  BY <1>1, FS_CardinalityType, <1>3, <1>2
<1> QED BY <1>1, <1>2, <1>3, <1>4

\* A call more is one due less.
LEMMA OneCallLess ==
  ASSUME Bar!BarrierAssumption, CallsCounted, NEW t \in Threads, callsLeft[t] > 0,
         callsLeft' = [callsLeft EXCEPT ![t] = @ - 1]
  PROVE  /\ Cardinality(Due') = Cardinality(Due) - 1
         /\ callsLeft' \in [Threads -> 0 .. Calls]
<1>1. Calls \in Nat /\ callsLeft \in [Threads -> 0 .. Calls]
  BY DEF Bar!BarrierAssumption, CallsCounted
<1>2. callsLeft[t] \in 1 .. Calls
  BY <1>1
<1>3. callsLeft' \in [Threads -> 0 .. Calls]
  BY <1>1, <1>2
<1>4. Due' = Due \ {<<t, callsLeft[t]>>} /\ <<t, callsLeft[t]>> \in Due
  <2>1. <<t, callsLeft[t]>> \in Due
    BY <1>2 DEF Due
  <2>2. ASSUME NEW u \in Threads, NEW k \in 1 .. Calls
        PROVE  <<u, k>> \in Due' <=> <<u, k>> \in Due /\ <<u, k>> # <<t, callsLeft[t]>>
    <3>1. callsLeft'[u] = IF u = t THEN callsLeft[t] - 1 ELSE callsLeft[u]
      BY <1>1
    <3>2. (<<u, k>> \in Due' <=> k <= callsLeft'[u]) /\ (<<u, k>> \in Due <=> k <= callsLeft[u])
      BY DEF Due
    <3>3. callsLeft[u] \in 0 .. Calls
      BY <1>1
    <3> QED BY <1>2, <3>1, <3>2, <3>3
  <2>3. Due \subseteq Threads \X (1 .. Calls) /\ Due' \subseteq Threads \X (1 .. Calls)
    BY DEF Due
  <2>4. \A p \in Threads \X (1 .. Calls) : p \in Due' <=> p \in Due /\ p # <<t, callsLeft[t]>>
    <3> SUFFICES ASSUME NEW p \in Threads \X (1 .. Calls)
                 PROVE  p \in Due' <=> p \in Due /\ p # <<t, callsLeft[t]>>
      OBVIOUS
    <3>1. PICK u \in Threads, k \in 1 .. Calls : p = <<u, k>>
      OBVIOUS
    <3> QED BY <2>2, <3>1
  <2> QED BY <2>1, <2>3, <2>4
<1>5. IsFiniteSet(Due)
  <2>1. Due \subseteq Threads \X (1 .. Calls)
    BY DEF Due
  <2> QED BY <2>1, DueCounts, FS_Subset
<1> QED BY <1>3, <1>4, <1>5, FS_RemoveElement

\* The calls that the completed rounds took.
LEMMA TakenCounts ==
  ASSUME n \in Nat
  PROVE  /\ round \in Nat => Taken \in Nat
         /\ round' \in Nat => Taken' \in Nat
         /\ round' = round => Taken' = Taken
         /\ round \in Nat /\ round' = round + 1 => Taken' = Taken + n
<1>1. \A a, b \in Nat : a * b \in Nat /\ a * (b + 1) = a * b + a
  OBVIOUS
<1> QED BY <1>1, Zenon DEF Taken

\* Who leaves the full barrier stays in the round, or ends it.
LEMMA LeaveCounts ==
  ASSUME Bar!BarrierAssumption, BarIInv, NEW t \in Threads, NEW reset, NEW slept, NEW was,
         slept = n, Bar!LeaveBarrier(t, reset, slept, was)
  PROVE  /\ countSleep' = Taken + n - Taken'
         /\ round' \in Nat /\ countSleep' \in Nat
         /\ \E p \in {"leave", "out"} : at' = [at EXCEPT ![t] = p]
<1>1. n \in Nat \ {0} /\ round \in Nat
  BY ThreadSets DEF BarIInv, Shapes
<1>2. CASE countSleep' = slept /\ round' = round
  <2>1. at' = [at EXCEPT ![t] = "leave"] \/ at' = [at EXCEPT ![t] = "out"]
    BY DEF Bar!LeaveBarrier, Bar!Block, Bar!Return
  <2> QED BY <1>1, <1>2, <2>1, TakenCounts
<1>3. CASE countSleep' = 0 /\ round' = round + 1
  <2>1. at' = [at EXCEPT ![t] = "leave"] \/ at' = [at EXCEPT ![t] = "out"]
    BY DEF Bar!LeaveBarrier, Bar!Block, Bar!Return
  <2> QED BY <1>1, <1>3, <2>1, TakenCounts
<1> QED BY <1>2, <1>3 DEF Bar!LeaveBarrier

\* Who enters is held back, or counted in the round.
LEMMA EnterCounts ==
  ASSUME Bar!BarrierAssumption, BarIInv, NEW t \in Threads, NEW was, Bar!EnterBarrier(t, was)
  PROVE  /\ round' \in Nat /\ countSleep' \in Nat
         /\ \/ /\ at' = [at EXCEPT ![t] = "full"]
               /\ countSleep' = countSleep /\ round' = round
            \/ /\ \E p \in {"sleep", "leave", "out"} : at' = [at EXCEPT ![t] = p]
               /\ countSleep' = Taken + countSleep + 1 - Taken'
<1>1. n \in Nat \ {0} /\ round \in Nat /\ countSleep \in 0 .. n
  BY ThreadSets DEF BarIInv, Shapes
<1>0. n \in Nat /\ round \in Nat /\ countSleep \in Nat /\ Taken \in Nat /\ (round' = round => Taken' = Taken)
  BY <1>1, TakenCounts
<1>2. CASE Bar!Closed(t)
  BY <1>0, <1>2 DEF Bar!EnterBarrier, Bar!Block
<1>3. CASE ~Bar!Closed(t) /\ countSleep + 1 < n
  BY <1>0, <1>3 DEF Bar!EnterBarrier, Bar!Block
<1>4. CASE ~Bar!Closed(t) /\ ~(countSleep + 1 < n)
  <2>1. countSleep + 1 = n
    BY <1>1, <1>4 DEF Bar!Closed
  <2>2. Bar!LeaveBarrier(t, 0, countSleep + 1, [was EXCEPT !["CSleep"] = Bar!NotifyAll(@)])
    BY <1>4 DEF Bar!EnterBarrier
  <2>3. /\ countSleep' = Taken + n - Taken'
        /\ round' \in Nat /\ countSleep' \in Nat
        /\ \E p \in {"leave", "out"} : at' = [at EXCEPT ![t] = p]
    BY <2>1, <2>2, LeaveCounts
  <2>4. Taken + n = Taken + countSleep + 1
    BY <1>0, <2>1
  <2>5. \E p \in {"sleep", "leave", "out"} : at' = [at EXCEPT ![t] = p]
    BY <2>3, Zenon
  <2>6. countSleep' = Taken + countSleep + 1 - Taken'
    <3>1. PICK dd \in Nat : dd = Taken'
      BY <1>1, <2>3, TakenCounts
    <3>2. countSleep' = Taken + n - dd
      BY <2>3, <3>1
    <3>3. countSleep' = Taken + countSleep + 1 - dd
      BY <1>0, <2>4, <3>2
    <3> QED BY <3>1, <3>3
  <2> QED BY <2>3, <2>5, <2>6, Zenon
<1> QED BY <1>2, <1>3, <1>4

\* Who is held back is one more, or one less.
LEMMA EarlyCounts ==
  ASSUME Bar!BarrierAssumption, BarIInv, NEW t \in Threads, NEW p, at' = [at EXCEPT ![t] = p]
  PROVE  /\ Cardinality(Early) \in Nat /\ Cardinality(Early') \in Nat
         /\ (at[t] = "full" <=> p = "full") => Cardinality(Early') = Cardinality(Early)
         /\ at[t] # "full" /\ p = "full" => Cardinality(Early') = Cardinality(Early) + 1
         /\ at[t] = "full" /\ p # "full" => Cardinality(Early') = Cardinality(Early) - 1
<1>1. at'[t] = p /\ \A u \in Threads : u # t => at'[u] = at[u]
  BY DEF BarIInv, Shapes
<1>2. Early \in SUBSET Threads /\ Early' \in SUBSET Threads
  BY DEF Early
<1>3. IsFiniteSet(Early) /\ Cardinality(Early) \in Nat /\ Cardinality(Early') \in Nat
  BY <1>2, ThreadSets
<1>4. ASSUME at[t] = "full" <=> p = "full" PROVE Early' = Early
  BY <1>1, <1>4 DEF Early
<1>5. ASSUME at[t] # "full", p = "full" PROVE Cardinality(Early') = Cardinality(Early) + 1
  <2>1. Early' = Early \cup {t} /\ t \notin Early
    BY <1>1, <1>5 DEF Early
  <2> QED BY <1>3, <2>1, FS_AddElement
<1>6. ASSUME at[t] = "full", p # "full" PROVE Cardinality(Early') = Cardinality(Early) - 1
  <2>1. Early' = Early \ {t} /\ t \in Early
    BY <1>1, <1>6 DEF Early
  <2> QED BY <1>3, <2>1, FS_RemoveElement
<1> QED BY <1>3, <1>4, <1>5, <1>6

\* What one gains the other loses.
LEMMA Balance ==
  ASSUME NEW aa \in Int, NEW bb \in Int, NEW cc \in Int, NEW dd \in Int,
         Cardinality(Due') = aa, Cardinality(Early') = bb, countSleep' = cc, Taken' = dd,
         callsLeft' \in [Threads -> 0 .. Calls],
         aa + bb + cc + dd = AllCalls
  PROVE  CallsCounted'
<1>1. Cardinality(Due') + Cardinality(Early') + countSleep' + Taken' = AllCalls
  OBVIOUS
<1> QED BY <1>1 DEF CallsCounted, AllCalls

\* Every step keeps the account.
LEMMA CallsStep ==
  ASSUME Bar!BarrierAssumption, BarIInv, CallsCounted, [Bar!Next]_(Bar!vars)
  PROVE  CallsCounted'
<1>1. /\ n \in Nat \ {0} /\ round \in Nat /\ countSleep \in Nat /\ Taken \in Nat
      /\ Cardinality(Due) \in Nat /\ AllCalls \in Nat
  <2>1. n \in Nat \ {0} /\ round \in Nat /\ countSleep \in Nat
    BY ThreadSets DEF BarIInv, Shapes
  <2>2. Taken \in Nat
    BY <2>1, TakenCounts
  <2>3. Due \subseteq Threads \X (1 .. Calls)
    BY DEF Due
  <2>4. IsFiniteSet(Due)
    BY <2>3, DueCounts, FS_Subset
  <2> QED BY <2>1, <2>2, <2>4, FS_CardinalityType, DueCounts DEF AllCalls
<1>2. ASSUME round' \in Nat PROVE Taken' \in Nat
  BY <1>1, <1>2, TakenCounts
<1>3. ASSUME NEW t \in Threads, Bar!Wait(t) PROVE CallsCounted'
  <2>1. /\ at[t] # "full" /\ Cardinality(Due') = Cardinality(Due) - 1
        /\ callsLeft' \in [Threads -> 0 .. Calls] /\ Bar!EnterBarrier(t, cond)
    BY <1>3, OneCallLess DEF Bar!Wait
  <2>2. CASE at' = [at EXCEPT ![t] = "full"] /\ countSleep' = countSleep /\ round' = round
    <3>1. Cardinality(Early') = Cardinality(Early) + 1 /\ Cardinality(Early) \in Nat
      BY <2>1, <2>2, EarlyCounts
    <3> QED BY <1>1, <2>1, <2>2, <3>1, TakenCounts DEF CallsCounted
  <2>3. CASE /\ \E p \in {"sleep", "leave", "out"} : at' = [at EXCEPT ![t] = p]
             /\ countSleep' = Taken + countSleep + 1 - Taken'
    <3>1. PICK p \in {"sleep", "leave", "out"} : at' = [at EXCEPT ![t] = p]
      BY <2>3
    <3>2. Cardinality(Early') = Cardinality(Early) /\ Cardinality(Early) \in Nat
      BY <2>1, <3>1, EarlyCounts
    <3>3. round' \in Nat /\ countSleep' \in Nat /\ Taken' \in Nat
      BY <1>2, <2>1, EnterCounts
    <3>4. PICK dd \in Nat : dd = Taken'
      BY <3>3
    <3>5. countSleep' = Taken + countSleep + 1 - dd
      BY <2>3, <3>4
    <3>6. Cardinality(Due) + Cardinality(Early) + countSleep + Taken = AllCalls
      BY DEF CallsCounted
    <3>7. PICK aa, bb, cc \in Int :
            aa = Cardinality(Due) - 1 /\ bb = Cardinality(Early) /\ cc = Taken + countSleep + 1 - dd
      BY <1>1, <3>2
    <3>9. aa + bb + cc + dd = AllCalls
      BY <1>1, <3>2, <3>6, <3>7
    <3> QED BY <2>1, <3>2, <3>4, <3>5, <3>7, <3>9, Balance
  <2> QED BY <2>1, <2>2, <2>3, EnterCounts
<1>4. ASSUME NEW t \in Threads, Bar!WakeEarly(t) PROVE CallsCounted'
  <2>1. /\ at[t] = "full" /\ callsLeft' = callsLeft
        /\ Bar!EnterBarrier(t, [cond EXCEPT !["CReset"] = Bar!EndWait(@)])
    BY <1>4 DEF Bar!WakeEarly
  <2>2. Due' = Due
    BY <2>1 DEF Due
  <2>3. CASE at' = [at EXCEPT ![t] = "full"] /\ countSleep' = countSleep /\ round' = round
    <3>1. Cardinality(Early') = Cardinality(Early)
      BY <2>1, <2>3, EarlyCounts
    <3> QED BY <1>1, <2>1, <2>2, <2>3, <3>1, TakenCounts DEF CallsCounted
  <2>4. CASE /\ \E p \in {"sleep", "leave", "out"} : at' = [at EXCEPT ![t] = p]
             /\ countSleep' = Taken + countSleep + 1 - Taken'
    <3>1. PICK p \in {"sleep", "leave", "out"} : at' = [at EXCEPT ![t] = p]
      BY <2>4
    <3>2. Cardinality(Early') = Cardinality(Early) - 1 /\ Cardinality(Early) \in Nat
      BY <2>1, <3>1, EarlyCounts
    <3>3. round' \in Nat /\ countSleep' \in Nat /\ Taken' \in Nat
      BY <1>2, <2>1, EnterCounts
    <3>4. PICK dd \in Nat : dd = Taken'
      BY <3>3
    <3>5. countSleep' = Taken + countSleep + 1 - dd
      BY <2>4, <3>4
    <3>6. Cardinality(Due) + Cardinality(Early) + countSleep + Taken = AllCalls
      BY DEF CallsCounted
    <3>7. PICK aa, bb, cc \in Int :
            aa = Cardinality(Due) /\ bb = Cardinality(Early) - 1 /\ cc = Taken + countSleep + 1 - dd
      BY <1>1, <3>2
    <3>9. aa + bb + cc + dd = AllCalls
      BY <1>1, <3>2, <3>6, <3>7
    <3>8. Cardinality(Due') = Cardinality(Due) /\ callsLeft' \in [Threads -> 0 .. Calls]
      BY <2>1, <2>2 DEF CallsCounted
    <3> QED BY <3>2, <3>4, <3>5, <3>7, <3>8, <3>9, Balance
  <2> QED BY <2>1, <2>3, <2>4, EnterCounts
<1>5. ASSUME NEW t \in Threads, Bar!WakeSleeper(t) PROVE CallsCounted'
  <2>1. /\ at[t] = "sleep" /\ callsLeft' = callsLeft
        /\ Bar!LeaveBarrier(t, countReset, countSleep, [cond EXCEPT !["CSleep"] = Bar!EndWait(@)])
        /\ cond["CSleep"].gen # mine[t]
    BY <1>5 DEF Bar!WakeSleeper, Bar!Woken
  <2>2. t \in Told("CSleep")
    BY <2>1 DEF Told, On, place
  <2>3. countSleep = n
    BY <2>2 DEF BarIInv, Filling, Emptying
  <2>4. /\ countSleep' = Taken + n - Taken'
        /\ round' \in Nat /\ countSleep' \in Nat
        /\ \E p \in {"leave", "out"} : at' = [at EXCEPT ![t] = p]
    BY <2>1, <2>3, LeaveCounts
  <2>5. PICK p \in {"leave", "out"} : at' = [at EXCEPT ![t] = p]
    BY <2>4
  <2>6. Cardinality(Early') = Cardinality(Early) /\ Cardinality(Early) \in Nat
    BY <2>1, <2>5, EarlyCounts
  <2>7. Due' = Due /\ Taken' \in Nat
    BY <1>2, <2>1, <2>4 DEF Due
  <2>8. Cardinality(Due) + Cardinality(Early) + countSleep + Taken = AllCalls
    BY DEF CallsCounted
  <2>9. PICK dd \in Nat : dd = Taken'
    BY <2>7
  <2>10. countSleep' = Taken + countSleep - dd
    BY <2>3, <2>4, <2>9
  <2>11. PICK aa, bb, cc \in Int :
           aa = Cardinality(Due) /\ bb = Cardinality(Early) /\ cc = Taken + countSleep - dd
    BY <1>1, <2>6
  <2>13. aa + bb + cc + dd = AllCalls
    BY <1>1, <2>6, <2>8, <2>11
  <2>12. Cardinality(Due') = Cardinality(Due) /\ callsLeft' \in [Threads -> 0 .. Calls]
    BY <2>1, <2>7 DEF CallsCounted
  <2> QED BY <2>6, <2>9, <2>10, <2>11, <2>12, <2>13, Balance
<1>6. ASSUME NEW t \in Threads, Bar!WakeLeaver(t) PROVE CallsCounted'
  <2>1. /\ at[t] = "leave" /\ callsLeft' = callsLeft /\ countSleep' = countSleep /\ round' = round
        /\ at' = [at EXCEPT ![t] = "out"]
    BY <1>6 DEF Bar!WakeLeaver, Bar!Return
  <2>2. Cardinality(Early') = Cardinality(Early)
    <3>1. PICK p \in {"out"} : at' = [at EXCEPT ![t] = p]
      BY <2>1
    <3> QED BY <2>1, <3>1, EarlyCounts
  <2>3. Due' = Due /\ Taken' = Taken
    BY <2>1 DEF Due, Taken
  <2> QED BY <2>1, <2>2, <2>3 DEF CallsCounted
<1>7. CASE UNCHANGED Bar!vars
  <2>1. at' = at /\ callsLeft' = callsLeft /\ countSleep' = countSleep /\ round' = round
    BY <1>7 DEF Bar!vars
  <2> QED BY <2>1 DEF CallsCounted, Due, Early, Taken
<1> QED BY <1>3, <1>4, <1>5, <1>6, <1>7 DEF Bar!Next

\* A round more takes n calls more: there are no more rounds than the calls make.
LEMMA RoundsBounded ==
  ASSUME Bar!BarrierAssumption, BarIInv, CallsCounted PROVE round \in Bar!Rounds
<1>1. n \in Nat \ {0} /\ round \in Nat /\ countSleep \in Nat
  BY ThreadSets DEF BarIInv, Shapes
<1>2. Cardinality(Due) \in Nat /\ Cardinality(Early) \in Nat /\ AllCalls \in Nat
  <2>1. Due \subseteq Threads \X (1 .. Calls) /\ Early \in SUBSET Threads
    BY DEF Due, Early
  <2>2. IsFiniteSet(Due)
    BY <2>1, DueCounts, FS_Subset
  <2> QED BY <2>1, <2>2, FS_CardinalityType, ThreadSets, DueCounts DEF AllCalls
<1>3. n * round <= Cardinality(Threads) * Calls
  <2>1. Taken \in Nat
    BY <1>1, TakenCounts
  <2>2. Taken <= AllCalls
    BY <1>1, <1>2, <2>1 DEF CallsCounted
  <2> QED BY <2>2 DEF Taken, AllCalls
<1>a. Cardinality(Threads) * Calls \in Nat
  BY <1>2 DEF AllCalls
<1>4. round <= (Cardinality(Threads) * Calls) \div n
  <2> DEFINE d == (Cardinality(Threads) * Calls) \div n
  <2>1. d \in Int /\ Cardinality(Threads) * Calls < n * (d + 1)
    BY <1>1, <1>a
  <2>2. n * round < n * (d + 1)
    <3>1. n * round \in Int /\ n * (d + 1) \in Int
      BY <1>1, <2>1
    <3> HIDE DEF d
    <3> QED BY <1>a, <1>3, <2>1, <3>1
  <2>3. round < d + 1
    <3> HIDE DEF d
    <3> QED BY <1>1, <2>1, <2>2
  <2> QED BY <1>1, <2>1, <2>3
<1>5. (Cardinality(Threads) * Calls) \div n \in Int
  BY <1>1, <1>a
<1> QED BY <1>1, <1>4, <1>5, SameCounts DEF Bar!Rounds

\* The calls are counted from the beginning.
LEMMA CallsInvariant ==
  ASSUME Bar!BarrierAssumption
  PROVE  Bar!Spec => [](BarIInv /\ CallsCounted)
<1>1. Bar!Init => CallsCounted
  <2> SUFFICES ASSUME Bar!Init PROVE CallsCounted
    OBVIOUS
  <2>1. Early = {} /\ countSleep = 0 /\ callsLeft = [t \in Threads |-> Calls] /\ round = 0
    BY DEF Bar!Init, Early
  <2>2. Due = Threads \X (1 .. Calls)
    <3>1. \A t \in Threads, k \in 1 .. Calls : k <= callsLeft[t]
      BY <2>1 DEF Bar!BarrierAssumption
    <3> QED BY <3>1 DEF Due
  <2>3. Taken = 0
    BY <2>1, ThreadSets DEF Taken
  <2>4. Cardinality(Due) = AllCalls /\ Cardinality(Early) = 0 /\ AllCalls \in Nat
    BY <2>1, <2>2, DueCounts, FS_EmptySet DEF AllCalls
  <2>5. callsLeft \in [Threads -> 0 .. Calls]
    BY <2>1 DEF Bar!BarrierAssumption
  <2> QED BY <2>1, <2>3, <2>4, <2>5 DEF CallsCounted
<1>2. CallsCounted /\ BarIInv /\ [Bar!Next]_(Bar!vars) => CallsCounted'
  BY CallsStep
<1> QED BY <1>1, <1>2, BarInvariant, PTL DEF Bar!Spec

\* The rounds are as many as the calls can make at most, and every count is of threads.
LEMMA BarTyped ==
  ASSUME Bar!BarrierAssumption, BarIInv, CallsCounted PROVE Bar!TypeOK
<1>1. round \in Bar!Rounds /\ round \in Nat /\ n \in Nat \ {0}
  BY RoundsBounded, ThreadSets DEF BarIInv, Shapes
<1>2. /\ Cardinality(Threads) \in Nat /\ Bar!Cardinality(Threads) = Cardinality(Threads)
      /\ n \in 1 .. Cardinality(Threads)
      /\ \A S \in SUBSET Threads : Cardinality(S) \in 0 .. Cardinality(Threads)
  <2>1. \A S \in SUBSET Threads : Cardinality(S) \in Nat /\ Cardinality(S) <= Cardinality(Threads)
    BY ThreadSets
  <2> QED BY <2>1, SameCounts DEF Bar!BarrierAssumption
<1>3. cond \in [{"CSleep", "CReset"} -> [waiting : 0 .. Cardinality(Threads),
                                        tickets : 0 .. Cardinality(Threads), gen : Nat]]
  <2>1. cond \in [Conds -> Records]
    BY DEF BarIInv, Shapes
  <2>2. \A c \in Conds : On(c) \in SUBSET Threads /\ Told(c) \in SUBSET Threads
    BY DEF On, Told
  <2>3. ASSUME NEW c \in Conds
        PROVE  cond[c] \in [waiting : 0 .. Cardinality(Threads),
                            tickets : 0 .. Cardinality(Threads), gen : Nat]
    <3>1. cond[c].waiting \in 0 .. Cardinality(Threads) /\ cond[c].tickets \in 0 .. Cardinality(Threads)
      BY <1>2, <2>2 DEF BarIInv, Ticketed
    <3>2. cond[c] \in Records
      BY <2>1
    <3> QED BY <3>1, <3>2 DEF Records
  <2> QED BY <2>1, <2>3 DEF Conds
<1>0. PICK d \in Int : Bar!Rounds = 0 .. d
  <2>1. (Bar!Cardinality(Threads) * Calls) \div n \in Int
    BY <1>1, <1>2, DueCounts
  <2> QED BY <2>1 DEF Bar!Rounds
<1>4. \A r \in Nat : r <= round => r \in Bar!Rounds
  BY <1>0, <1>1
<1>5. entered \in [Threads -> Bar!Rounds]
  <2>1. entered \in [Threads -> 0 .. round]
    BY DEF BarIInv, Shapes
  <2>2. \A r \in 0 .. round : r \in Bar!Rounds
    BY <1>1, <1>4
  <2> QED BY <2>1, <2>2
<1>6. returned \in [Bar!Rounds -> [BOOLEAN -> 0 .. Cardinality(Threads)]]
  <2>1. returned \in [Bar!Rounds -> [BOOLEAN -> Nat]]
    BY DEF BarIInv, Shapes
  <2>2. ASSUME NEW r \in Bar!Rounds
        PROVE  returned[r][TRUE] \in 0 .. Cardinality(Threads)
               /\ returned[r][FALSE] \in 0 .. Cardinality(Threads)
    <3>1. r \in Int /\ returned[r][TRUE] \in Nat /\ returned[r][FALSE] \in Nat
      <4>1. r \in Int /\ returned[r] \in [BOOLEAN -> Nat]
        BY <1>0, <2>1
      <4>2. \A b \in BOOLEAN : returned[r][b] \in Nat
        BY <4>1, Zenon
      <4> QED BY <4>1, <4>2, Zenon
    <3>2. CASE r >= round
      <4>1. returned[r][TRUE] = 0 /\ returned[r][FALSE] = 0
        BY <3>2, Zenon DEF BarIInv, Present
      <4>2. 0 \in 0 .. Cardinality(Threads)
        BY <1>2
      <4> QED BY <4>1, <4>2, Zenon
    <3>3. CASE r < round
      <4>1. Master(r) \in SUBSET Threads /\ Round(r) \ Master(r) \in SUBSET Threads
        BY DEF Master, Round
      <4>2. Cardinality(Master(r)) \in Nat /\ Cardinality(Round(r) \ Master(r)) \in Nat
        BY <4>1, ThreadSets
      <4>3. /\ returned[r][TRUE] + Cardinality(Master(r)) = 1
            /\ returned[r][FALSE] + Cardinality(Round(r) \ Master(r)) = n - 1
        BY <3>3 DEF BarIInv, Past
      <4>4. PICK x, y \in Nat : x = returned[r][TRUE] /\ y = returned[r][FALSE]
        BY <3>1, Zenon
      <4>5. x + Cardinality(Master(r)) = 1 /\ y + Cardinality(Round(r) \ Master(r)) = n - 1
        BY <4>3, <4>4, Zenon
      <4>6. x \in 0 .. Cardinality(Threads) /\ y \in 0 .. Cardinality(Threads)
        BY <1>1, <1>2, <4>2, <4>5
      <4> QED BY <4>4, <4>6, Zenon
    <3>4. r >= round \/ r < round
      BY <1>1, <3>1
    <3> QED BY <3>2, <3>3, <3>4, Zenon
  <2>3. \A r \in Bar!Rounds : returned[r] \in [BOOLEAN -> 0 .. Cardinality(Threads)]
    BY <2>1, <2>2
  <2> QED BY <2>1, <2>3
<1> QED BY <1>1, <1>2, <1>3, <1>5, <1>6 DEF Bar!TypeOK, BarIInv, Shapes, CallsCounted

\* Of the calls of a round one at most returns TRUE and n - 1 at most return FALSE.
THEOREM OneReturnsTrue ==
  ASSUME Bar!BarrierAssumption
  PROVE  Bar!Spec => []Bar!OneMaster
<1>1. BarIInv => Bar!OneMaster
  <2> SUFFICES ASSUME BarIInv, NEW r \in Bar!Rounds
               PROVE  returned[r][TRUE] <= 1 /\ returned[r][FALSE] <= n - 1
    BY DEF Bar!OneMaster
  <2>1. r \in Nat /\ round \in Nat /\ returned[r] \in [BOOLEAN -> Nat] /\ n \in Nat \ {0}
    <3>1. r \in Nat
      BY DEF Bar!Rounds
    <3>2. round \in Nat /\ returned[r] \in [BOOLEAN -> Nat]
      BY DEF BarIInv, Shapes
    <3> QED BY <3>1, <3>2, ThreadSets
  <2>2. CASE r >= round
    <3>1. returned[r][TRUE] = 0 /\ returned[r][FALSE] = 0
      BY <2>2 DEF BarIInv, Present
    <3> QED BY <2>1, <3>1
  <2>3. CASE r < round
    <3>1. /\ returned[r][TRUE] + Cardinality(Master(r)) = 1
          /\ returned[r][FALSE] + Cardinality(Round(r) \ Master(r)) = n - 1
      BY <2>3 DEF BarIInv, Past
    <3>2. Cardinality(Master(r)) \in Nat /\ Cardinality(Round(r) \ Master(r)) \in Nat
      <4>1. Master(r) \in SUBSET Threads /\ Round(r) \ Master(r) \in SUBSET Threads
        BY DEF Master, Round
      <4> QED BY <4>1, ThreadSets
    <3>3. returned[r][TRUE] \in Nat /\ returned[r][FALSE] \in Nat
      <4>1. returned[r] \in [BOOLEAN -> Nat]
        BY <2>1
      <4> QED BY <4>1
    <3>4. /\ returned[r][TRUE] <= returned[r][TRUE] + Cardinality(Master(r))
          /\ returned[r][FALSE] <= returned[r][FALSE] + Cardinality(Round(r) \ Master(r))
      BY <3>2, <3>3, SumKept, Zenon
    <3> QED BY <3>1, <3>4, Zenon
  <2>4. r >= round \/ r < round
    BY <2>1
  <2> QED BY <2>2, <2>3, <2>4, Zenon
<1> QED BY <1>1, BarInvariant, PTL

\* Nobody returns from a round that n threads have not entered and left.
THEOREM NobodyReturnsEarly ==
  ASSUME Bar!BarrierAssumption
  PROVE  Bar!Spec => []Bar!NobodyEarly
<1>1. BarIInv => Bar!NobodyEarly
  <2> SUFFICES ASSUME BarIInv, NEW r \in Bar!Rounds, r >= round
               PROVE  returned[r][TRUE] + returned[r][FALSE] = 0
    BY DEF Bar!NobodyEarly
  <2>1. returned[r][TRUE] = 0 /\ returned[r][FALSE] = 0
    BY DEF BarIInv, Present
  <2> QED BY <2>1
<1> QED BY <1>1, BarInvariant, PTL

\* A round never holds more threads than it is for, and sleepers are of this round.
THEOREM RoundsAreFull ==
  ASSUME Bar!BarrierAssumption
  PROVE  Bar!Spec => []Bar!RoundSize
<1>1. BarIInv => Bar!RoundSize
  <2> SUFFICES ASSUME BarIInv
               PROVE  Bar!RoundSize
    OBVIOUS
  <2>1. /\ countSleep >= Cardinality({t \in Threads : /\ at[t] \in {"sleep", "leave"}
                                                      /\ entered[t] = round})
    <3>1. Cardinality(Round(round)) = countSleep /\ countSleep \in Nat
      BY ThreadSets DEF BarIInv, Present, Shapes
    <3> QED BY <3>1 DEF Round
  <2>2. \A t \in Threads : at[t] = "sleep" => entered[t] = round
    BY DEF BarIInv, Filling, Emptying, On, place, Round
  <2> QED BY <2>1, <2>2, SameCounts DEF Bar!RoundSize
<1> QED BY <1>1, BarInvariant, PTL

\* Barrier::Wait, together: a round lets n threads through, none before all have come,
\* one of them as the master, and there are no more rounds than the calls make.
THEOREM RoundsWhole ==
  ASSUME Bar!BarrierAssumption
  PROVE  Bar!Spec => []Bar!RoundsAreWhole
<1>1. Bar!TypeOK /\ Bar!OneMaster /\ Bar!NobodyEarly /\ Bar!RoundSize => Bar!RoundsAreWhole
  BY DEF Bar!RoundsAreWhole
<1>2. BarIInv /\ CallsCounted => Bar!TypeOK
  BY BarTyped
<1> QED BY <1>1, <1>2, CallsInvariant, OneReturnsTrue, NobodyReturnsEarly, RoundsAreFull, PTL

-----------------------------------------------------------------------------
(* vips_threadpool_run, for any number of workers and units, whatever fails.  *)

CONSTANTS nthr, Units, FastFlow, WorkFails, ProgressFails, CreateFails, MaxTicks \* as in
VARIABLES turn, threadError, stop, error, tick, finish, main, index, result,
          unitsLeft, worked, progressed               \* VipsPool, there turn is at

Pool == INSTANCE VipsPool WITH at <- turn

\* The workers that are at one of these places.
At(P) == {i \in Pool!Thr : turn[i] \in P}

\* The types of what the steps change.
PoolShapes ==
  /\ turn \in [Pool!Thr -> {"none", "top", "work", "tick", "check", "end", "done"}]
  /\ threadError \in [Pool!Thr -> BOOLEAN]
  /\ stop \in BOOLEAN /\ error \in BOOLEAN
  /\ tick \in 0 .. MaxTicks /\ finish \in Nat
  /\ main \in {"create", "down", "progress", "check", "downn", "free",
               "kill", "returned", "crashed"}
  /\ index \in 0 .. nthr /\ result \in {0, 1}
  /\ unitsLeft \in 0 .. Units /\ worked \in Nat /\ progressed \in 0 .. MaxTicks

\* While workers are created those from index on are not there, and a farm's do not
\* run before all are; after a failure one
\* that was not created is still to be killed.  A farm has no main thread that answers.
Created ==
  /\ main = "create" =>
       index < nthr /\ \A j \in Pool!Thr : FastFlow \/ j >= index => turn[j] = "none"
  /\ main = "kill" => \E j \in Pool!Thr : j >= index /\ turn[j] = "none"
  /\ FastFlow => main \notin {"progress", "check", "downn"}

\* finish counts who has passed it, until all have; then nobody moves.
Finishing ==
  /\ main \notin {"free", "returned"} => finish = Cardinality(At({"done"}))
  /\ main \in {"free", "returned"} =>
       /\ At({"done"}) = Pool!Thr /\ finish = 0
       /\ result = 0 => ~error
       /\ FastFlow => tick = 0

\* Who leaves has seen stop or error, and stop means that all units are allocated.
Stopping ==
  /\ At({"end", "done"}) # {} => stop \/ error
  /\ stop => unitsLeft = 0

\* Units are to be allocated, worked on, or done; one is lost only to an error.
Accounted ==
  /\ worked + Cardinality(At({"work"})) + unitsLeft <= Units
  /\ Pool!Clean => worked + Cardinality(At({"work"})) + unitsLeft = Units

\* Before stop, every turn that ended was one with a unit: its tick waits to be made,
\* to be taken or to be answered, or has been.
Answering == progressed + (IF main = "progress" THEN 1 ELSE 0)
Ticking == Answering + tick + Cardinality(At({"tick"}))
Answered ==
  Pool!Clean /\ ~FastFlow => Answering <= worked /\ (~stop => Ticking <= worked)

\* With FastFlow all are answered, and after stop also one turn of each worker that
\* is not on its way to or back from a unit.
AnsweredAll ==
  Pool!Clean /\ FastFlow /\ ~error =>
    /\ worked <= Ticking
    /\ ~stop => Ticking <= worked
    /\ stop => Ticking <= worked + Cardinality(At({"tick", "check", "end", "done"}))

\* The inductive invariant.
PoolIInv ==
  PoolShapes /\ Created /\ Finishing /\ Stopping /\ Accounted /\ Answered /\ AnsweredAll

-----------------------------------------------------------------------------

\* VipsPool counts with the operators this module counts with.
LEMMA PoolCardinality == \A S : Pool!Cardinality(S) = Cardinality(S)
  BY DEF Pool!Cardinality, Cardinality

\* The workers are counted.
LEMMA Places ==
  ASSUME Pool!PoolAssumption
  PROVE  /\ IsFiniteSet(Pool!Thr) /\ Cardinality(Pool!Thr) = nthr
         /\ \A S \in SUBSET Pool!Thr : IsFiniteSet(S) /\ Cardinality(S) \in 0 .. nthr
         /\ \A S \in SUBSET Pool!Thr : Cardinality(S) = nthr => S = Pool!Thr
<1>1. IsFiniteSet(0 .. nthr - 1) /\ Cardinality(0 .. nthr - 1) = nthr
  BY FS_Interval DEF Pool!PoolAssumption
<1>2. IsFiniteSet(Pool!Thr) /\ Cardinality(Pool!Thr) = nthr
  BY <1>1 DEF Pool!Thr
<1>3. ASSUME NEW S \in SUBSET Pool!Thr
      PROVE  /\ IsFiniteSet(S) /\ Cardinality(S) \in 0 .. nthr
             /\ Cardinality(S) = nthr => S = Pool!Thr
  <2>1. IsFiniteSet(S) /\ Cardinality(S) <= nthr /\ (Cardinality(S) = nthr => S = Pool!Thr)
    BY <1>2, FS_Subset
  <2>2. Cardinality(S) \in Nat
    BY <2>1, FS_CardinalityType
  <2> QED BY <2>1, <2>2
<1> QED BY <1>2, <1>3

\* A worker goes from one place to another.
LEMMA Goes ==
  ASSUME Pool!PoolAssumption, PoolShapes, NEW i \in Pool!Thr, NEW p, Pool!Go(i, p), NEW P
  PROVE  /\ Cardinality(At(P)) \in 0 .. nthr /\ Cardinality(At(P)') \in 0 .. nthr
         /\ (turn[i] \in P <=> p \in P) => At(P)' = At(P)
         /\ turn[i] \in P /\ p \notin P => Cardinality(At(P)') = Cardinality(At(P)) - 1
         /\ turn[i] \notin P /\ p \in P => Cardinality(At(P)') = Cardinality(At(P)) + 1
<1>1. /\ turn'[i] = p /\ \A j \in Pool!Thr : j # i => turn'[j] = turn[j]
  BY DEF Pool!Go, PoolShapes
<1>2. At(P) \in SUBSET Pool!Thr /\ At(P)' \in SUBSET Pool!Thr
  BY DEF At
<1>3. /\ IsFiniteSet(At(P)) /\ Cardinality(At(P)) \in 0 .. nthr
      /\ Cardinality(At(P)') \in 0 .. nthr
  BY <1>2, Places
<1>4. ASSUME turn[i] \in P <=> p \in P PROVE At(P)' = At(P)
  BY <1>1, <1>4 DEF At
<1>5. ASSUME turn[i] \in P, p \notin P PROVE Cardinality(At(P)') = Cardinality(At(P)) - 1
  <2>1. At(P)' = At(P) \ {i} /\ i \in At(P)
    BY <1>1, <1>5 DEF At
  <2> QED BY <1>3, <2>1, FS_RemoveElement
<1>6. ASSUME turn[i] \notin P, p \in P PROVE Cardinality(At(P)') = Cardinality(At(P)) + 1
  <2>1. At(P)' = At(P) \cup {i} /\ i \notin At(P)
    BY <1>1, <1>6 DEF At
  <2> QED BY <1>3, <2>1, FS_AddElement
<1> QED BY <1>3, <1>4, <1>5, <1>6

\* Nobody goes anywhere.
LEMMA Stays == ASSUME turn' = turn, NEW P PROVE At(P)' = At(P)
  BY DEF At

\* Before the workers are created.
LEMMA InitPool == ASSUME Pool!PoolAssumption, Pool!Init PROVE PoolIInv
<1>1. /\ \A P : "none" \notin P => At(P) = {}
      /\ nthr \in Nat \ {0} /\ Units \in Nat /\ MaxTicks \in Nat
  BY DEF Pool!Init, Pool!PoolAssumption, At
<1>2. /\ At({"done"}) = {} /\ At({"end", "done"}) = {} /\ At({"work"}) = {} /\ At({"tick"}) = {}
      /\ At({"tick", "check", "end", "done"}) = {} /\ Cardinality({}) = 0
  BY <1>1, FS_EmptySet
<1>3. PoolShapes
  <2>1. turn \in [Pool!Thr -> {"none"}] /\ threadError \in [Pool!Thr -> BOOLEAN]
    BY DEF Pool!Init
  <2>2. 0 \in 0 .. nthr /\ 0 \in 0 .. MaxTicks /\ 0 \in Nat /\ Units \in 0 .. Units
    BY <1>1
  <2>3. turn \in [Pool!Thr -> {"none", "top", "work", "tick", "check", "end", "done"}]
    BY <2>1
  <2> QED BY <2>1, <2>2, <2>3, Zenon DEF Pool!Init, PoolShapes
<1>4. Created
  BY <1>1 DEF Pool!Init, Created
<1>5. Finishing /\ Stopping /\ Accounted
  BY <1>1, <1>2 DEF Pool!Init, Finishing, Stopping, Accounted
<1>6. Answered /\ AnsweredAll
  BY <1>1, <1>2 DEF Pool!Init, Answered, AnsweredAll, Answering, Ticking
<1> QED BY <1>3, <1>4, <1>5, <1>6 DEF PoolIInv

\* A worker's turn at allocate.
LEMMA AllocateIInv ==
  ASSUME Pool!PoolAssumption, PoolIInv, NEW i \in Pool!Thr, Pool!Allocate(i) PROVE PoolIInv'
<1>1. /\ turn[i] = "top" /\ UNCHANGED <<error, tick, finish, main, index, result, worked, progressed>>
      /\ PoolShapes /\ stop' \in BOOLEAN /\ unitsLeft' \in 0 .. Units
      /\ threadError' \in [Pool!Thr -> BOOLEAN] /\ (Pool!Clean' => Pool!Clean)
  <2>1. unitsLeft' \in {unitsLeft, unitsLeft - 1} /\ (unitsLeft' # unitsLeft => unitsLeft > 0)
    BY DEF Pool!Allocate
  <2>2. unitsLeft \in 0 .. Units /\ unitsLeft' \in 0 .. Units
    BY <2>1 DEF PoolIInv, PoolShapes, Pool!PoolAssumption
  <2>3. threadError' = threadError \/ threadError' = [threadError EXCEPT ![i] = TRUE]
    BY DEF Pool!Allocate, Pool!SetsError
  <2>4. threadError' \in [Pool!Thr -> BOOLEAN] /\ (Pool!Clean' => Pool!Clean)
    <3>1. threadError \in [Pool!Thr -> BOOLEAN]
      BY DEF PoolIInv, PoolShapes
    <3>2. threadError' \in [Pool!Thr -> BOOLEAN]
      BY <2>3, <3>1, Zenon
    <3>3. \A j \in Pool!Thr : threadError[j] => threadError'[j]
      BY <2>3, <3>1, Zenon
    <3> QED BY <3>2, <3>3, Zenon DEF Pool!Clean
  <2>5. stop' \in BOOLEAN
    BY DEF Pool!Allocate, PoolIInv, PoolShapes
  <2> QED BY <2>2, <2>4, <2>5 DEF Pool!Allocate, PoolIInv
<1>2. PICK p \in {"work", "tick"} : Pool!Go(i, p)
  BY DEF Pool!Allocate
<1>3. turn'[i] = p /\ \A j \in Pool!Thr : j # i => turn'[j] = turn[j]
  BY <1>1, <1>2 DEF Pool!Go, PoolShapes
<1>4. At({"done"})' = At({"done"}) /\ At({"end", "done"})' = At({"end", "done"})
  BY <1>1, <1>3 DEF At
<1>5. i \in Pool!Thr \ At({"done"})
  BY <1>1 DEF At
<1>6. PoolShapes'
  <2>1. turn' \in [Pool!Thr -> {"none", "top", "work", "tick", "check", "end", "done"}]
    BY <1>1, <1>2 DEF Pool!Go, PoolShapes
  <2> QED BY <1>1, <2>1 DEF PoolShapes
<1>7. Created'
  BY <1>1, <1>3 DEF Created, PoolIInv
<1>8. Finishing'
  BY <1>1, <1>4, <1>5 DEF Finishing, PoolIInv
<1>9. Stopping'
  BY <1>1, <1>4 DEF Stopping, PoolIInv, Pool!Allocate, PoolShapes
<1>10. Cardinality(At({"work"})) \in Nat /\ Cardinality(At({"tick"})) \in Nat
       /\ Cardinality(At({"tick", "check", "end", "done"})) \in Nat
       /\ Cardinality(At({"work"})') \in Nat /\ Cardinality(At({"tick"})') \in Nat
       /\ Cardinality(At({"tick", "check", "end", "done"})') \in Nat
  BY <1>1, <1>2, Goes
<1>11. CASE p = "work"
  <2>1. /\ unitsLeft' = unitsLeft - 1 /\ UNCHANGED <<threadError, stop>>
    BY <1>1, <1>3, <1>11 DEF Pool!Allocate, Pool!Go, PoolShapes
  <2>2. /\ Cardinality(At({"work"})') = Cardinality(At({"work"})) + 1
        /\ At({"tick"})' = At({"tick"})
        /\ At({"tick", "check", "end", "done"})' = At({"tick", "check", "end", "done"})
    BY <1>1, <1>2, <1>11, Goes
  <2>3. Accounted'
    BY <1>1, <1>10, <2>1, <2>2 DEF PoolIInv, Accounted, Pool!Clean, PoolShapes
  <2>4. Answered' /\ AnsweredAll'
    BY <1>1, <2>1, <2>2 DEF PoolIInv, Answered, AnsweredAll, Answering, Ticking, Pool!Clean
  <2> QED BY <1>6, <1>7, <1>8, <1>9, <2>3, <2>4 DEF PoolIInv
<1>12. CASE p = "tick"
  <2>1. /\ unitsLeft' = unitsLeft
        /\ \/ stop /\ stop' /\ (Pool!Clean' <=> Pool!Clean)
           \/ ~Pool!Clean'
           \/ ~stop /\ stop' /\ (Pool!Clean' <=> Pool!Clean)
    BY <1>1, <1>3, <1>12 DEF Pool!Allocate, Pool!Go, PoolShapes, Pool!Clean, Pool!SetsError
  <2>2. /\ At({"work"})' = At({"work"})
        /\ Cardinality(At({"tick"})') = Cardinality(At({"tick"})) + 1
        /\ Cardinality(At({"tick", "check", "end", "done"})')
             = Cardinality(At({"tick", "check", "end", "done"})) + 1
    BY <1>1, <1>2, <1>12, Goes
  <2>3. Accounted'
    BY <1>1, <2>1, <2>2 DEF PoolIInv, Accounted
  <2>4. Answered'
    BY <1>1, <1>10, <2>1, <2>2 DEF PoolIInv, Answered, Answering, Ticking
  <2>5. AnsweredAll'
    BY <1>1, <1>10, <2>1, <2>2 DEF PoolIInv, AnsweredAll, Answering, Ticking, PoolShapes
  <2> QED BY <1>6, <1>7, <1>8, <1>9, <2>3, <2>4, <2>5 DEF PoolIInv
<1> QED BY <1>11, <1>12

\* A worker processes its unit.
LEMMA WorkIInv ==
  ASSUME Pool!PoolAssumption, PoolIInv, NEW i \in Pool!Thr, Pool!Work(i) PROVE PoolIInv'
<1>1. /\ turn[i] = "work" /\ Pool!Go(i, "tick") /\ PoolShapes
      /\ UNCHANGED <<stop, error, tick, finish, main, index, result, unitsLeft, progressed>>
  BY DEF Pool!Work, PoolIInv
<1>2. \/ worked' = worked + 1 /\ threadError' = threadError
      \/ worked' = worked /\ threadError' = [threadError EXCEPT ![i] = TRUE]
  BY DEF Pool!Work, Pool!SetsError
<1>3. turn'[i] = "tick" /\ \A j \in Pool!Thr : j # i => turn'[j] = turn[j]
  BY <1>1 DEF Pool!Go, PoolShapes
<1>4. /\ At({"done"})' = At({"done"}) /\ At({"end", "done"})' = At({"end", "done"})
      /\ i \in Pool!Thr \ At({"done"})
  BY <1>1, <1>3 DEF At
<1>5. /\ Cardinality(At({"work"})') = Cardinality(At({"work"})) - 1
      /\ Cardinality(At({"tick"})') = Cardinality(At({"tick"})) + 1
      /\ Cardinality(At({"tick", "check", "end", "done"})')
           = Cardinality(At({"tick", "check", "end", "done"})) + 1
      /\ Cardinality(At({"work"})) \in Nat /\ Cardinality(At({"tick"})) \in Nat
      /\ Cardinality(At({"tick", "check", "end", "done"})) \in Nat
  BY <1>1, Goes
<1>6. /\ threadError' \in [Pool!Thr -> BOOLEAN] /\ (Pool!Clean' => Pool!Clean)
      /\ worked' # worked + 1 => ~Pool!Clean'
  <2>1. threadError \in [Pool!Thr -> BOOLEAN]
    BY <1>1 DEF PoolShapes
  <2>2. threadError' \in [Pool!Thr -> BOOLEAN]
    BY <1>2, <2>1, Zenon
  <2>3. \A j \in Pool!Thr : threadError[j] => threadError'[j]
    BY <1>2, <2>1, Zenon
  <2>4. worked' # worked + 1 => threadError'[i]
    BY <1>2, <2>1, Zenon
  <2> QED BY <2>2, <2>3, <2>4, Zenon DEF Pool!Clean
<1>7. worked \in Nat /\ worked' \in {worked, worked + 1} /\ unitsLeft \in Nat /\ Units \in Nat
  BY <1>1, <1>2 DEF PoolShapes, Pool!PoolAssumption
<1>8. PoolShapes'
  <2>1. turn' \in [Pool!Thr -> {"none", "top", "work", "tick", "check", "end", "done"}]
    BY <1>1 DEF Pool!Go, PoolShapes
  <2>2. worked' \in Nat
    BY <1>7
  <2> QED BY <1>1, <1>6, <2>1, <2>2 DEF PoolShapes
<1>9. Created' /\ Finishing' /\ Stopping'
  BY <1>1, <1>3, <1>4 DEF Created, Finishing, Stopping, PoolIInv
<1>10. Accounted'
  BY <1>1, <1>5, <1>6, <1>7 DEF Accounted, PoolIInv
<1>11. Answered'
  BY <1>1, <1>5, <1>6, <1>7 DEF Answered, Answering, Ticking, PoolIInv, PoolShapes
<1>12. AnsweredAll'
  BY <1>1, <1>5, <1>6, <1>7 DEF AnsweredAll, Answering, Ticking, PoolIInv, PoolShapes
<1> QED BY <1>8, <1>9, <1>10, <1>11, <1>12 DEF PoolIInv

\* A worker's tick.
LEMMA TickIInv ==
  ASSUME Pool!PoolAssumption, PoolIInv, NEW i \in Pool!Thr, Pool!Tick(i) PROVE PoolIInv'
<1>1. /\ turn[i] = "tick" /\ Pool!Go(i, "check") /\ PoolShapes /\ tick' = tick + 1 /\ tick < MaxTicks
      /\ UNCHANGED <<threadError, stop, error, finish, main, index, result, unitsLeft, worked,
                     progressed>>
  BY DEF Pool!Tick, PoolIInv, Pool!counts
<1>2. turn'[i] = "check" /\ \A j \in Pool!Thr : j # i => turn'[j] = turn[j]
  BY <1>1 DEF Pool!Go, PoolShapes
<1>3. /\ At({"done"})' = At({"done"}) /\ At({"end", "done"})' = At({"end", "done"})
      /\ At({"work"})' = At({"work"}) /\ i \in Pool!Thr \ At({"done"})
      /\ At({"tick", "check", "end", "done"})' = At({"tick", "check", "end", "done"})
  BY <1>1, <1>2 DEF At
<1>4. /\ Cardinality(At({"tick"})') = Cardinality(At({"tick"})) - 1
      /\ Cardinality(At({"tick"})) \in Nat
  BY <1>1, Goes
<1>5. Pool!Clean' <=> Pool!Clean
  BY <1>1 DEF Pool!Clean
<1>6. PoolShapes'
  <2>1. turn' \in [Pool!Thr -> {"none", "top", "work", "tick", "check", "end", "done"}]
    BY <1>1 DEF Pool!Go, PoolShapes
  <2>2. tick' \in 0 .. MaxTicks
    BY <1>1 DEF PoolShapes, Pool!PoolAssumption
  <2> QED BY <1>1, <2>1, <2>2 DEF PoolShapes
<1>7. Created' /\ Stopping' /\ Accounted'
  BY <1>1, <1>2, <1>3, <1>5 DEF Created, Stopping, Accounted, PoolIInv
<1>8. Finishing'
  BY <1>1, <1>3 DEF Finishing, PoolIInv
<1>9. Answering' = Answering /\ Ticking' = Ticking
  BY <1>1, <1>4 DEF Answering, Ticking, PoolShapes
<1>10. Answered' /\ AnsweredAll'
  BY <1>1, <1>3, <1>5, <1>9 DEF Answered, AnsweredAll, PoolIInv
<1> QED BY <1>6, <1>7, <1>8, <1>10 DEF PoolIInv

\* A worker looks whether to go on, and does not after stop or an error.
LEMMA CheckIInv ==
  ASSUME Pool!PoolAssumption, PoolIInv, NEW i \in Pool!Thr, Pool!Check(i) PROVE PoolIInv'
<1>1. /\ turn[i] = "check" /\ PoolShapes
      /\ UNCHANGED <<threadError, stop, error, tick, finish, main, index, result, unitsLeft,
                     worked, progressed>>
  BY DEF Pool!Check, PoolIInv, Pool!counts
<1>2. PICK p \in {"end", "top"} : Pool!Go(i, p) /\ (p = "end" <=> stop \/ error)
  BY DEF Pool!Check
<1>3. turn'[i] = p /\ \A j \in Pool!Thr : j # i => turn'[j] = turn[j]
  BY <1>1, <1>2 DEF Pool!Go, PoolShapes
<1>4. /\ At({"done"})' = At({"done"}) /\ At({"work"})' = At({"work"})
      /\ At({"tick"})' = At({"tick"}) /\ i \in Pool!Thr \ At({"done"})
      /\ ~(stop \/ error) => At({"end", "done"})' = At({"end", "done"})
      /\ stop => At({"tick", "check", "end", "done"})' = At({"tick", "check", "end", "done"})
  BY <1>1, <1>2, <1>3 DEF At
<1>5. Pool!Clean' <=> Pool!Clean
  BY <1>1 DEF Pool!Clean
<1>6. PoolShapes'
  <2>1. turn' \in [Pool!Thr -> {"none", "top", "work", "tick", "check", "end", "done"}]
    BY <1>1, <1>2 DEF Pool!Go, PoolShapes
  <2> QED BY <1>1, <2>1 DEF PoolShapes
<1>7. Created' /\ Accounted'
  BY <1>1, <1>3, <1>4, <1>5 DEF Created, Accounted, PoolIInv
<1>8. Finishing' /\ Stopping'
  BY <1>1, <1>4 DEF Finishing, Stopping, PoolIInv
<1>9. Answering' = Answering /\ Ticking' = Ticking
  BY <1>1, <1>4 DEF Answering, Ticking
<1>10. Answered' /\ AnsweredAll'
  BY <1>1, <1>4, <1>5, <1>9 DEF Answered, AnsweredAll, PoolIInv
<1> QED BY <1>6, <1>7, <1>8, <1>10 DEF PoolIInv

\* A worker passes finish.
LEMMA FinishIInv ==
  ASSUME Pool!PoolAssumption, PoolIInv, NEW i \in Pool!Thr, Pool!Finish(i) PROVE PoolIInv'
<1>1. /\ turn[i] = "end" /\ Pool!Go(i, "done") /\ PoolShapes /\ finish' = finish + 1
      /\ UNCHANGED <<threadError, stop, error, tick, main, index, result, unitsLeft, worked,
                     progressed>>
  BY DEF Pool!Finish, PoolIInv, Pool!counts
<1>2. turn'[i] = "done" /\ \A j \in Pool!Thr : j # i => turn'[j] = turn[j]
  BY <1>1 DEF Pool!Go, PoolShapes
<1>3. /\ At({"end", "done"})' = At({"end", "done"}) /\ At({"work"})' = At({"work"})
      /\ At({"tick"})' = At({"tick"}) /\ i \in Pool!Thr \ At({"done"})
      /\ At({"tick", "check", "end", "done"})' = At({"tick", "check", "end", "done"})
  BY <1>1, <1>2 DEF At
<1>4. Cardinality(At({"done"})') = Cardinality(At({"done"})) + 1
  BY <1>1, Goes
<1>5. Pool!Clean' <=> Pool!Clean
  BY <1>1 DEF Pool!Clean
<1>6. PoolShapes'
  <2>1. turn' \in [Pool!Thr -> {"none", "top", "work", "tick", "check", "end", "done"}]
    BY <1>1 DEF Pool!Go, PoolShapes
  <2>2. finish' \in Nat
    BY <1>1 DEF PoolShapes
  <2> QED BY <1>1, <2>1, <2>2 DEF PoolShapes
<1>7. Created' /\ Stopping' /\ Accounted'
  BY <1>1, <1>2, <1>3, <1>5 DEF Created, Stopping, Accounted, PoolIInv
<1>8. Finishing'
  BY <1>1, <1>3, <1>4 DEF Finishing, PoolIInv
<1>9. Answering' = Answering /\ Ticking' = Ticking
  BY <1>1, <1>3 DEF Answering, Ticking
<1>10. Answered' /\ AnsweredAll'
  BY <1>1, <1>3, <1>5, <1>9 DEF Answered, AnsweredAll, PoolIInv
<1> QED BY <1>6, <1>7, <1>8, <1>10 DEF PoolIInv

\* The main thread creates a worker, or cannot.
LEMMA CreateIInv == ASSUME Pool!PoolAssumption, PoolIInv, Pool!Create PROVE PoolIInv'
<1>1. /\ main = "create" /\ index < nthr /\ index \in Nat /\ nthr \in Nat /\ PoolShapes
      /\ UNCHANGED <<threadError, stop, error, tick, finish, result, unitsLeft, worked, progressed>>
      /\ \A j \in Pool!Thr : FastFlow \/ j >= index => turn[j] = "none"
      /\ index \in Pool!Thr /\ turn[index] = "none"
  BY DEF Pool!Create, PoolIInv, Created, PoolShapes, Pool!counts, Pool!PoolAssumption, Pool!Thr
<1>2. \/ /\ index' = index + 1 /\ main' \in {"create", "down"}
         /\ main' = "create" => index + 1 < nthr
         /\ \/ turn' = turn /\ FastFlow
            \/ turn' = [turn EXCEPT ![index] = "top"] /\ ~FastFlow
            \/ turn' = [j \in Pool!Thr |-> "top"] /\ FastFlow /\ main' = "down"
      \/ index' = 0 /\ main' = "kill" /\ turn' = turn
  <2>1. index + 1 = nthr \/ index + 1 < nthr
    BY <1>1
  <2> QED BY <2>1 DEF Pool!Create
<1>3. \A j \in Pool!Thr : (turn'[j] = turn[j]) \/ (turn[j] = "none" /\ turn'[j] = "top")
  <2>1. CASE turn' = turn
    BY <2>1
  <2>2. CASE turn' = [turn EXCEPT ![index] = "top"]
    BY <1>1, <2>2 DEF PoolShapes
  <2>3. CASE FastFlow /\ turn' = [j \in Pool!Thr |-> "top"]
    BY <1>1, <2>3
  <2> QED BY <1>2, <2>1, <2>2, <2>3
<1>4. \A P : "none" \notin P /\ "top" \notin P => At(P)' = At(P)
  BY <1>3 DEF At
<1>5. /\ At({"done"})' = At({"done"}) /\ At({"end", "done"})' = At({"end", "done"})
      /\ At({"work"})' = At({"work"}) /\ At({"tick"})' = At({"tick"})
      /\ At({"tick", "check", "end", "done"})' = At({"tick", "check", "end", "done"})
  BY <1>4
<1>6. Pool!Clean' <=> Pool!Clean
  BY <1>1 DEF Pool!Clean
<1>7. PoolShapes'
  <2>1. turn' \in [Pool!Thr -> {"none", "top", "work", "tick", "check", "end", "done"}]
    BY <1>1, <1>2 DEF PoolShapes
  <2>2. index' \in 0 .. nthr
    BY <1>1, <1>2
  <2>3. main' \in {"create", "down", "kill"}
    BY <1>2
  <2> QED BY <1>1, <2>1, <2>2, <2>3 DEF PoolShapes
<1>8. Created'
  <2>1. CASE index' = 0 /\ main' = "kill" /\ turn' = turn
    BY <1>1, <2>1 DEF Created, Pool!Thr
  <2>2. CASE main' = "create"
    <3>1. index' = index + 1 /\ index + 1 < nthr /\ (FastFlow => turn' = turn)
      BY <1>2, <2>2
    <3>2. \A j \in Pool!Thr : FastFlow \/ j >= index + 1 => turn'[j] = "none"
      <4>1. ~FastFlow => turn' = [turn EXCEPT ![index] = "top"]
        BY <1>2, <2>2
      <4> QED BY <1>1, <3>1, <4>1 DEF PoolShapes, Pool!Thr
    <3> QED BY <2>2, <3>1, <3>2 DEF Created
  <2>3. CASE main' = "down"
    BY <2>3 DEF Created
  <2> QED BY <1>2, <2>1, <2>2, <2>3
<1>9. Finishing' /\ Stopping' /\ Accounted'
  BY <1>1, <1>2, <1>5, <1>6 DEF Finishing, Stopping, Accounted, PoolIInv
<1>10. Answering' = Answering /\ Ticking' = Ticking /\ main' # "progress"
  BY <1>1, <1>2, <1>5 DEF Answering, Ticking
<1>11. Answered' /\ AnsweredAll'
  BY <1>1, <1>5, <1>6, <1>10 DEF Answered, AnsweredAll, PoolIInv
<1> QED BY <1>7, <1>8, <1>9, <1>11 DEF PoolIInv

\* After a failed creation the main thread kills those that are there.
LEMMA KillIInv == ASSUME Pool!PoolAssumption, PoolIInv, Pool!Kill PROVE PoolIInv'
<1>1. /\ main = "kill" /\ PoolShapes /\ index \in Nat /\ nthr \in Nat
      /\ UNCHANGED <<turn, threadError, stop, error, tick, finish, result, unitsLeft, worked,
                     progressed>>
      /\ \/ main' = "crashed" /\ index' = index
         \/ main' = "kill" /\ index' = index + 1 /\ turn[index] = "done"
  BY DEF Pool!Kill, PoolIInv, PoolShapes, Pool!counts, Pool!PoolAssumption
<1>2. PICK j \in Pool!Thr : j >= index /\ turn[j] = "none"
  BY <1>1 DEF PoolIInv, Created
<1>3. main' = "kill" => j >= index + 1
  BY <1>1, <1>2 DEF Pool!Thr
<1>4. \A P : At(P)' = At(P)
  BY <1>1 DEF At
<1>5. Pool!Clean' <=> Pool!Clean
  BY <1>1 DEF Pool!Clean
<1>6. PoolShapes'
  <2>1. index' \in 0 .. nthr
    BY <1>1, <1>2, <1>3 DEF Pool!Thr, PoolShapes
  <2>2. main' \in {"crashed", "kill"}
    BY <1>1
  <2> QED BY <1>1, <2>1, <2>2 DEF PoolShapes
<1>7. Created'
  BY <1>1, <1>2, <1>3 DEF Created
<1>8. Finishing' /\ Stopping' /\ Accounted'
  BY <1>1, <1>4, <1>5 DEF Finishing, Stopping, Accounted, PoolIInv
<1>9. Answering' = Answering /\ Ticking' = Ticking /\ main' # "progress"
  BY <1>1, <1>4 DEF Answering, Ticking
<1>10. Answered' /\ AnsweredAll'
  BY <1>1, <1>4, <1>5, <1>9 DEF Answered, AnsweredAll, PoolIInv
<1> QED BY <1>6, <1>7, <1>8, <1>10 DEF PoolIInv

\* On pthreads the main thread takes a tick, calls progress, and looks whether to go on.
LEMMA AnswerIInv ==
  ASSUME Pool!PoolAssumption, PoolIInv, Pool!Down \/ Pool!Progress \/ Pool!MainCheck
  PROVE  PoolIInv'
<1>1. /\ PoolShapes /\ MaxTicks \in Nat /\ Units \in Nat /\ MaxTicks > Units + 2 * nthr /\ nthr \in Nat
      /\ UNCHANGED <<turn, threadError, stop, finish, index, result, unitsLeft, worked>>
      /\ main \in {"down", "progress", "check"} /\ main' \in {"progress", "check", "down", "downn"}
      /\ error => error'
  BY DEF Pool!Down, Pool!Progress, Pool!MainCheck, PoolIInv, Pool!counts, Pool!PoolAssumption, PoolShapes
<1>2. \A P : At(P)' = At(P) /\ Cardinality(At(P)) \in Nat
  <2>1. \A P : At(P) \in SUBSET Pool!Thr
    BY DEF At
  <2> QED BY <1>1, <2>1, Places DEF At
<1>3. Pool!Clean' <=> Pool!Clean
  BY <1>1 DEF Pool!Clean
<1>4. /\ tick' \in 0 .. MaxTicks /\ progressed' \in 0 .. MaxTicks /\ error' \in BOOLEAN
      /\ progressed \in Nat /\ tick \in Nat
  <2>1. tick' = tick \/ (tick' = tick - 1 /\ tick > 0)
    BY DEF Pool!Down, Pool!Progress, Pool!MainCheck
  <2>2. progressed' \in {progressed, progressed + 1, MaxTicks}
        /\ (progressed' = progressed + 1 => progressed < MaxTicks)
    <3>1. Pool!Progressed => progressed' = (IF progressed < MaxTicks THEN progressed + 1 ELSE MaxTicks)
      BY DEF Pool!Progressed
    <3>2. Pool!Progressed \/ progressed' = progressed
      BY DEF Pool!Down, Pool!Progress, Pool!MainCheck, Pool!counts
    <3>3. progressed \in 0 .. MaxTicks
      BY <1>1 DEF PoolShapes
    <3> QED BY <1>1, <3>1, <3>2, <3>3
  <2>3. error' \in BOOLEAN
    <3>1. error' = error \/ error' \in {error, error \/ ProgressFails}
      BY DEF Pool!Down, Pool!Progress, Pool!MainCheck
    <3>2. error \in BOOLEAN /\ ProgressFails \in BOOLEAN
      BY <1>1 DEF PoolShapes, Pool!PoolAssumption
    <3> QED BY <3>1, <3>2, Zenon
  <2> QED BY <1>1, <2>1, <2>2, <2>3 DEF PoolShapes
<1>5. PoolShapes'
  BY <1>1, <1>4 DEF PoolShapes
<1>6. Accounted'
  BY <1>1, <1>2, <1>3 DEF Accounted, PoolIInv
<1>7. Finishing' /\ Stopping'
  BY <1>1, <1>2 DEF Finishing, Stopping, PoolIInv
<1>8. /\ Answering \in Nat /\ Answering' \in Nat /\ Ticking \in Int /\ Ticking' \in Int
      /\ ~stop => Ticking' <= Ticking
      /\ \/ Answering' <= Answering
         \/ /\ ~stop /\ Answering' <= Ticking
  <2>1. CASE Pool!Down
    <3>1. main = "down" /\ tick' = tick - 1 /\ tick > 0 /\ progressed' = progressed
          /\ (main' = "progress" => ~stop) /\ (main' = "downn" \/ main' = "progress")
      BY <2>1 DEF Pool!Down, Pool!counts
    <3>2. Cardinality(At({"tick"})) \in Nat /\ At({"tick"})' = At({"tick"})
      BY <1>2
    <3>3. CASE main' = "progress"
      BY <1>4, <3>1, <3>2, <3>3 DEF Answering, Ticking
    <3>4. CASE main' = "downn"
      BY <1>4, <3>1, <3>2, <3>4 DEF Answering, Ticking
    <3> QED BY <3>1, <3>3, <3>4
  <2>2. CASE Pool!Progress
    <3>1. /\ progressed' <= progressed + 1 /\ main = "progress" /\ main' = "check" /\ tick' = tick
          /\ progressed' \in Nat
      BY <1>1, <1>4, <2>2 DEF Pool!Progress, Pool!Progressed
    <3>2. Cardinality(At({"tick"})) \in Nat /\ At({"tick"})' = At({"tick"})
      BY <1>2
    <3>3. /\ Answering = progressed + 1 /\ Answering' = progressed'
          /\ Answering' <= Answering /\ Answering \in Nat /\ Answering' \in Nat
      <4>1. Answering = progressed + 1
        BY <3>1 DEF Answering
      <4>2. Answering' = progressed'
        <5>1. Answering' = progressed' + 0
          BY <3>1 DEF Answering
        <5>2. \A x \in Nat : x + 0 = x
          OBVIOUS
        <5>3. progressed' \in Nat
          BY <3>1
        <5> QED BY <5>1, <5>2, <5>3, Zenon
      <4> QED BY <1>4, <3>1, <4>1, <4>2
    <3>4. tick \in Int /\ tick' = tick
      BY <1>4, <3>1
    <3> HIDE DEF Answering
    <3> QED BY <3>2, <3>3, <3>4 DEF Ticking
  <2>3. CASE Pool!MainCheck
    <3>1. main = "check" /\ main' # "progress" /\ tick' = tick /\ progressed' = progressed
      BY <2>3 DEF Pool!MainCheck, Pool!counts
    <3>2. Cardinality(At({"tick"})) \in Nat /\ At({"tick"})' = At({"tick"})
      BY <1>2
    <3> QED BY <1>4, <3>1, <3>2 DEF Answering, Ticking
  <2> QED BY <2>1, <2>2, <2>3
<1>9. ~FastFlow
  BY DEF Pool!Down, Pool!Progress, Pool!MainCheck, PoolIInv, Created
<1>10. Answered'
  <2>1. worked \in Nat /\ worked' = worked /\ stop' = stop /\ Answered
    BY <1>1 DEF PoolShapes, PoolIInv
  <2> QED BY <1>3, <1>8, <2>1 DEF Answered
<1>11. AnsweredAll'
  BY <1>9 DEF AnsweredAll
<1>12. Created'
  BY <1>1, <1>9 DEF Created
<1> QED BY <1>5, <1>6, <1>7, <1>10, <1>11, <1>12 DEF PoolIInv

\* The farm's collector takes a tick and calls progress, which is never at its bound
\* unless a callback failed.
LEMMA CollectIInv == ASSUME Pool!PoolAssumption, PoolIInv, Pool!Collect PROVE PoolIInv'
<1>1. /\ PoolShapes /\ MaxTicks \in Nat /\ Units \in Nat /\ MaxTicks > Units + 2 * nthr /\ nthr \in Nat
      /\ UNCHANGED <<turn, threadError, stop, finish, main, index, result, unitsLeft, worked>>
      /\ main = "down" /\ FastFlow /\ tick' = tick - 1 /\ tick > 0
      /\ progressed' = IF progressed < MaxTicks THEN progressed + 1 ELSE MaxTicks
  BY DEF Pool!Collect, Pool!Progressed, PoolIInv, Pool!PoolAssumption
<1>2. \A P : At(P)' = At(P) /\ Cardinality(At(P)) \in 0 .. nthr
  <2>1. \A P : At(P) \in SUBSET Pool!Thr
    BY DEF At
  <2> QED BY <1>1, <2>1, Places DEF At
<1>3. Pool!Clean' <=> Pool!Clean
  BY <1>1 DEF Pool!Clean
<1>4. /\ tick' \in 0 .. MaxTicks /\ progressed' \in 0 .. MaxTicks
      /\ progressed \in Nat /\ tick \in Nat /\ worked \in Nat /\ unitsLeft \in Nat
  BY <1>1 DEF PoolShapes
<1>5. error' \in BOOLEAN /\ (error => error')
  <2>1. error' = error \/ error' = (error \/ ProgressFails)
    BY DEF Pool!Collect
  <2>2. error \in BOOLEAN /\ ProgressFails \in BOOLEAN
    BY <1>1 DEF PoolShapes, Pool!PoolAssumption
  <2> QED BY <2>1, <2>2, Zenon
<1>6. PoolShapes'
  BY <1>1, <1>4, <1>5 DEF PoolShapes
<1>7. Created' /\ Accounted'
  BY <1>1, <1>2, <1>3 DEF Created, Accounted, PoolIInv
<1>8. Finishing' /\ Stopping'
  BY <1>1, <1>2, <1>5 DEF Finishing, Stopping, PoolIInv
<1>9. Answered'
  BY <1>1 DEF Answered
<1>10. ASSUME Pool!Clean, ~error PROVE Ticking' = Ticking
  <2>1. Ticking <= worked + nthr
    <3>1. /\ worked <= Ticking /\ (~stop => Ticking <= worked)
          /\ stop => Ticking <= worked + Cardinality(At({"tick", "check", "end", "done"}))
      BY <1>1, <1>10 DEF PoolIInv, AnsweredAll
    <3>2. Cardinality(At({"tick", "check", "end", "done"})) \in 0 .. nthr
      BY <1>2
    <3>3. Ticking \in Int
      <4>1. Cardinality(At({"tick"})) \in Nat
        BY <1>1, <1>2
      <4> QED BY <1>1, <1>4, <4>1 DEF Ticking, Answering
    <3> QED BY <1>1, <1>4, <3>1, <3>2, <3>3
  <2>2. worked <= Units
    <3>1. Cardinality(At({"work"})) \in 0 .. nthr
      BY <1>2
    <3> QED BY <1>1, <1>4, <3>1 DEF PoolIInv, Accounted
  <2>3. Cardinality(At({"tick"})) \in 0 .. nthr /\ At({"tick"})' = At({"tick"})
    BY <1>2
  <2>4. Ticking = progressed + tick + Cardinality(At({"tick"}))
    BY <1>1, <1>4, <2>3 DEF Ticking, Answering
  <2>5. progressed < MaxTicks
    BY <1>1, <1>4, <2>1, <2>2, <2>3, <2>4
  <2> QED BY <1>1, <1>4, <2>3, <2>4, <2>5 DEF Ticking, Answering
<1>11. AnsweredAll'
  BY <1>1, <1>2, <1>3, <1>5, <1>10 DEF AnsweredAll, PoolIInv
<1> QED BY <1>6, <1>7, <1>8, <1>9, <1>11 DEF PoolIInv

\* All workers have passed finish: the run has an answer.
LEMMA DownnIInv == ASSUME Pool!PoolAssumption, PoolIInv, Pool!Downn PROVE PoolIInv'
<1>1. /\ PoolShapes /\ nthr \in Nat /\ finish = nthr /\ finish' = 0 /\ main' = "free" /\ index' = 0
      /\ UNCHANGED <<turn, threadError, stop, error, tick, unitsLeft, worked, progressed>>
      /\ result' = (IF error THEN 1 ELSE 0)
      /\ main \in {"down", "downn"} /\ (FastFlow /\ main # "downn" => tick = 0)
  BY DEF Pool!Downn, Pool!counts, PoolIInv, Pool!PoolAssumption
<1>2. \A P : At(P)' = At(P)
  BY <1>1 DEF At
<1>3. Pool!Clean' <=> Pool!Clean
  BY <1>1 DEF Pool!Clean
<1>4. At({"done"}) = Pool!Thr
  <2>1. At({"done"}) \in SUBSET Pool!Thr /\ Cardinality(At({"done"})) = nthr
    BY <1>1 DEF At, PoolIInv, Finishing
  <2> QED BY <2>1, Places
<1>5. PoolShapes'
  BY <1>1 DEF PoolShapes
<1>6. Created' /\ Accounted' /\ Stopping'
  BY <1>1, <1>2, <1>3 DEF Created, Accounted, Stopping, PoolIInv
<1>7. Finishing'
  BY <1>1, <1>2, <1>4 DEF Finishing, PoolIInv, Created
<1>8. Answering' = Answering /\ Ticking' = Ticking
  BY <1>1, <1>2 DEF Answering, Ticking
<1>9. Answered' /\ AnsweredAll'
  BY <1>1, <1>2, <1>3, <1>8 DEF Answered, AnsweredAll, PoolIInv
<1> QED BY <1>5, <1>6, <1>7, <1>9 DEF PoolIInv

\* The workers' states are freed.
LEMMA FreeIInv == ASSUME Pool!PoolAssumption, PoolIInv, Pool!Free PROVE PoolIInv'
<1>1. /\ PoolShapes /\ nthr \in Nat /\ main = "free" /\ main' \in {"free", "returned"}
      /\ UNCHANGED <<turn, threadError, stop, error, tick, finish, result, unitsLeft, worked,
                     progressed>>
      /\ index' \in {index, index + 1} /\ (index' # index => index # nthr)
  BY DEF Pool!Free, Pool!counts, PoolIInv, Pool!PoolAssumption
<1>2. \A P : At(P)' = At(P)
  BY <1>1 DEF At
<1>3. Pool!Clean' <=> Pool!Clean
  BY <1>1 DEF Pool!Clean
<1>4. PoolShapes'
  <2>1. index' \in 0 .. nthr
    BY <1>1 DEF PoolShapes
  <2>2. main' \in {"create", "down", "progress", "check", "downn", "free",
               "kill", "returned", "crashed"}
    BY <1>1
  <2> QED BY <1>1, <2>1, <2>2 DEF PoolShapes
<1>5. Created' /\ Accounted' /\ Stopping'
  BY <1>1, <1>2, <1>3 DEF Created, Accounted, Stopping, PoolIInv
<1>6. Finishing'
  BY <1>1, <1>2 DEF Finishing, PoolIInv
<1>7. Answering' = Answering /\ Ticking' = Ticking
  BY <1>1, <1>2 DEF Answering, Ticking
<1>8. Answered' /\ AnsweredAll'
  BY <1>1, <1>2, <1>3, <1>7 DEF Answered, AnsweredAll, PoolIInv
<1> QED BY <1>4, <1>5, <1>6, <1>8 DEF PoolIInv

\* Every step preserves the invariant.
LEMMA NextPool ==
  ASSUME Pool!PoolAssumption, PoolIInv, [Pool!Next]_(Pool!vars) PROVE PoolIInv'
<1>1. CASE UNCHANGED Pool!vars
  <2>1. UNCHANGED <<turn, threadError, stop, error, tick, finish, main, index, result, unitsLeft,
                    worked, progressed>>
    BY <1>1 DEF Pool!vars
  <2>2. \A P : At(P)' = At(P)
    BY <2>1 DEF At
  <2>3. (Pool!Clean' <=> Pool!Clean) /\ Answering' = Answering /\ Ticking' = Ticking
    BY <2>1, <2>2 DEF Pool!Clean, Answering, Ticking
  <2>4. PoolShapes' /\ Created' /\ Stopping'
    BY <2>1, <2>2 DEF PoolIInv, PoolShapes, Created, Stopping
  <2>5. Finishing' /\ Accounted' /\ Answered' /\ AnsweredAll'
    BY <2>1, <2>2, <2>3 DEF PoolIInv, Finishing, Accounted, Answered, AnsweredAll
  <2> QED BY <2>4, <2>5 DEF PoolIInv
<1>2. CASE \E i \in Pool!Thr : Pool!Worker(i)
  BY <1>2, AllocateIInv, WorkIInv, TickIInv, CheckIInv, FinishIInv DEF Pool!Worker
<1>3. CASE Pool!Main
  BY <1>3, CreateIInv, KillIInv, AnswerIInv, CollectIInv, DownnIInv, FreeIInv DEF Pool!Main
<1> QED BY <1>1, <1>2, <1>3 DEF Pool!Next

\* The invariant is one.
LEMMA PoolInvariant == ASSUME Pool!PoolAssumption PROVE Pool!Spec => []PoolIInv
<1>1. Pool!Init => PoolIInv
  BY InitPool
<1>2. PoolIInv /\ [Pool!Next]_(Pool!vars) => PoolIInv'
  BY NextPool
<1> QED BY <1>1, <1>2, PTL DEF Pool!Spec

\* The types hold: finish never counts more than the workers (the semaphore is taken
\* down by all of them at once), nor worked more than the units there are.
THEOREM PoolTyped == ASSUME Pool!PoolAssumption PROVE Pool!Spec => []Pool!TypeOK
<1>1. PoolIInv => Pool!TypeOK
  <2> SUFFICES ASSUME PoolIInv PROVE Pool!TypeOK
    OBVIOUS
  <2>1. At({"done"}) \in SUBSET Pool!Thr /\ At({"work"}) \in SUBSET Pool!Thr
    BY DEF At
  <2>2. Cardinality(At({"done"})) \in 0 .. nthr /\ Cardinality(At({"work"})) \in 0 .. nthr
    BY <2>1, Places
  <2>3. worked \in 0 .. Units
    BY <2>2 DEF PoolIInv, Accounted, PoolShapes, Pool!PoolAssumption
  <2>4. finish \in 0 .. nthr
    <3>1. CASE main \in {"free", "returned"}
      BY <3>1 DEF PoolIInv, Finishing, Pool!PoolAssumption
    <3> QED BY <2>2, <3>1 DEF PoolIInv, Finishing
  <2> QED BY <2>3, <2>4 DEF PoolIInv, PoolShapes, Pool!TypeOK
<1> QED BY <1>1, PoolInvariant, PTL

\* vips_threadpool_free: when the workers' states are freed every worker has passed
\* finish, and will never use its own again.
THEOREM PoolFreesLast == ASSUME Pool!PoolAssumption PROVE Pool!Spec => []Pool!FreedWhenDone
<1>1. PoolIInv => Pool!FreedWhenDone
  BY DEF PoolIInv, Finishing, Pool!FreedWhenDone, At
<1> QED BY <1>1, PoolInvariant, PTL

\* When all have left and nothing failed, somebody has seen stop, and nobody has a unit.
LEMMA AllLeft ==
  ASSUME Pool!PoolAssumption, PoolIInv, main = "returned", result = 0
  PROVE  /\ ~error /\ stop /\ unitsLeft = 0 /\ (FastFlow => tick = 0)
         /\ Cardinality(At({"work"})) = 0 /\ Cardinality(At({"tick"})) = 0
         /\ Cardinality(At({"tick", "check", "end", "done"})) = nthr
<1>1. At({"done"}) = Pool!Thr /\ ~error /\ (FastFlow => tick = 0)
  BY DEF PoolIInv, Finishing
<1>2. /\ At({"end", "done"}) = Pool!Thr /\ At({"tick", "check", "end", "done"}) = Pool!Thr
      /\ At({"work"}) = {} /\ At({"tick"}) = {}
  BY <1>1 DEF At
<1>3. Cardinality(Pool!Thr) = nthr /\ Cardinality({}) = 0
  BY Places, FS_EmptySet
<1>4. Pool!Thr # {}
  BY <1>3 DEF Pool!PoolAssumption
<1> QED BY <1>1, <1>2, <1>3, <1>4 DEF PoolIInv, Stopping

\* vips_threadpool_run succeeds, and no callback failed: every unit was allocated and
\* worked, and the worker that set stop has cut off none.
THEOREM PoolWorksAll == ASSUME Pool!PoolAssumption PROVE Pool!Spec => []Pool!AllWorked
<1>1. PoolIInv => Pool!AllWorked
  <2> SUFFICES ASSUME PoolIInv, main = "returned", result = 0, Pool!Clean PROVE worked = Units
    BY DEF Pool!AllWorked
  <2>0. PoolIInv /\ main = "returned" /\ result = 0 /\ Pool!Clean
    OBVIOUS
  <2>1. unitsLeft = 0 /\ Cardinality(At({"work"})) = 0
    BY <2>0, AllLeft
  <2>2. worked + Cardinality(At({"work"})) + unitsLeft = Units /\ worked \in Nat
    BY <2>0 DEF PoolIInv, Accounted, PoolShapes
  <2> QED BY <2>1, <2>2
<1> QED BY <1>1, PoolInvariant, PTL

\* On pthreads progress is never called more often than units were processed: the ticks
\* of turns without a unit come after stop, which the main thread looks at first.
THEOREM PoolProgressForUnits ==
  ASSUME Pool!PoolAssumption, ~FastFlow PROVE Pool!Spec => []Pool!ProgressForUnits
<1>1. PoolIInv => Pool!ProgressForUnits
  BY DEF PoolIInv, PoolShapes, Answered, Answering, Pool!ProgressForUnits
<1> QED BY <1>1, PoolInvariant, PTL

\* With FastFlow a run that succeeds has called progress for every unit that was
\* processed, and for at most one turn without a unit of each worker.
THEOREM PoolProgressForAll ==
  ASSUME Pool!PoolAssumption, FastFlow PROVE Pool!Spec => []Pool!EveryUnitProgress
<1>1. PoolIInv => Pool!EveryUnitProgress
  <2> SUFFICES ASSUME PoolIInv, main = "returned", result = 0, Pool!Clean
               PROVE  progressed \in worked .. worked + nthr
    BY DEF Pool!EveryUnitProgress
  <2>1. /\ ~error /\ stop /\ tick = 0 /\ Cardinality(At({"tick"})) = 0
        /\ Cardinality(At({"tick", "check", "end", "done"})) = nthr
    BY AllLeft
  <2>2. Ticking = progressed
    BY <2>1 DEF PoolIInv, PoolShapes, Ticking, Answering
  <2>3. worked <= Ticking /\ Ticking <= worked + nthr
    BY <2>1 DEF PoolIInv, AnsweredAll
  <2> QED BY <2>2, <2>3 DEF PoolIInv, PoolShapes, Pool!PoolAssumption
<1> QED BY <1>1, PoolInvariant, PTL

\* vips_threadpool_run, together: a run that returns frees its workers after the last
\* use, and when nothing failed has worked on every unit and called progress for it.
THEOREM PoolRunsComplete == ASSUME Pool!PoolAssumption PROVE Pool!Spec => []Pool!RunIsComplete
<1>1. CASE FastFlow
  <2>1. /\ Pool!TypeOK /\ Pool!FreedWhenDone /\ Pool!AllWorked /\ Pool!EveryUnitProgress
        => Pool!RunIsComplete
    BY <1>1 DEF Pool!RunIsComplete
  <2>2. Pool!Spec => []Pool!EveryUnitProgress
    BY <1>1, PoolProgressForAll
  <2> QED BY <2>1, <2>2, PoolTyped, PoolFreesLast, PoolWorksAll, PTL
<1>2. CASE ~FastFlow
  <2>1. /\ Pool!TypeOK /\ Pool!FreedWhenDone /\ Pool!AllWorked /\ Pool!ProgressForUnits
        => Pool!RunIsComplete
    BY <1>2 DEF Pool!RunIsComplete
  <2>2. Pool!Spec => []Pool!ProgressForUnits
    BY <1>2, PoolProgressForUnits
  <2> QED BY <2>1, <2>2, PoolTyped, PoolFreesLast, PoolWorksAll, PTL
<1> QED BY <1>1, <1>2
=============================================================================
