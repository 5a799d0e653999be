----------------------------- MODULE BodyBarrier -----------------------------
(***************************************************************************)
(* threads::Barrier of bodytrack where there is no pthread barrier: a mutex  *)
(* and two conditions, CSleep for threads waiting for company and CReset for *)
(* threads waiting for everybody to leave, among them threads of the next    *)
(* round that came too early.  The mutex is released only in the waits, so a *)
(* step runs from one wait to the next.  The conditions are those of module  *)
(* Condition with generations: a thread leaves one when there is a ticket    *)
(* and it was notified after it began to wait.                               *)
(***************************************************************************)
EXTENDS Integers, FiniteSets, Functions

CONSTANTS Threads, n,  \* n threads make a round; there may be more threads
          Calls        \* how often each thread calls Wait

BarrierAssumption ==
  IsFiniteSet(Threads) /\ n \in 1..Cardinality(Threads) /\ Calls \in Nat

VARIABLES countSleep, countReset,
          cond,      \* nWaiting, nWakeupTickets and genCounter of each condition
          myGeneration,
          at,        \* where a thread is: out, sleep, full or leave
          master,    \* the value its Wait will return
          calls,     \* calls left
          round,     \* rounds completed
          entered,   \* the round each thread entered last
          returned   \* what the calls of each round returned

vars == <<countSleep, countReset, cond, myGeneration, at, master, calls, round, entered,
          returned>>

Rounds == 0..((Cardinality(Threads) * Calls) \div n)

TypeOK == /\ countSleep \in 0..n /\ countReset \in 0..n
          /\ cond \in [{"CSleep", "CReset"} -> [waiting : 0..Cardinality(Threads),
                                                 tickets : 0..Cardinality(Threads),
                                                 gen : Nat]]
          /\ myGeneration \in [Threads -> Nat]
          /\ at \in [Threads -> {"out", "sleep", "full", "leave"}]
          /\ master \in [Threads -> BOOLEAN]
          /\ calls \in [Threads -> 0..Calls]
          /\ round \in Rounds /\ entered \in [Threads -> Rounds]
          /\ returned \in [Rounds -> [BOOLEAN -> 0..Cardinality(Threads)]]

Init == /\ countSleep = 0 /\ countReset = 0
        /\ cond = [c \in {"CSleep", "CReset"} |-> [waiting |-> 0, tickets |-> 0, gen |-> 0]]
        /\ myGeneration = [t \in Threads |-> 0]
        /\ at = [t \in Threads |-> "out"]
        /\ master = [t \in Threads |-> FALSE]
        /\ calls = [t \in Threads |-> Calls]
        /\ round = 0 /\ entered = [t \in Threads |-> 0]
        /\ returned = [r \in Rounds |-> [b \in BOOLEAN |-> 0]]

-----------------------------------------------------------------------------
\* Condition's operations, on the record of one condition.
NotifyAll(c) == IF c.waiting > c.tickets
                THEN [c EXCEPT !.tickets = c.waiting, !.gen = @ + 1]
                ELSE c
BeginWait(c) == [c EXCEPT !.waiting = @ + 1]
EndWait(c) == [c EXCEPT !.waiting = @ - 1, !.tickets = @ - 1]
Woken(t, c) == cond[c].tickets > 0 /\ cond[c].gen # myGeneration[t]

\* t blocks at the given place on condition c, which it finds as was.
Block(t, place, c, was) ==
    /\ at' = [at EXCEPT ![t] = place]
    /\ myGeneration' = [myGeneration EXCEPT ![t] = was[c].gen]
    /\ cond' = [was EXCEPT ![c] = BeginWait(@)]

\* Wait returns.
Return(t) ==
    /\ at' = [at EXCEPT ![t] = "out"]
    /\ returned' = [returned EXCEPT ![entered'[t]][master'[t]] = @ + 1]

\* Lines 148-158: leave the barrier, the last one resets it.
LeaveBarrier(t, reset, slept, was) ==
    /\ countReset' = reset + 1
    /\ \/ /\ countReset' < n
          /\ countSleep' = slept
          /\ Block(t, "leave", "CReset", was)
          /\ UNCHANGED <<round, returned>>
       \/ /\ countReset' >= n
          /\ countSleep' = 0
          /\ cond' = [was EXCEPT !["CReset"] = NotifyAll(@)]
          /\ Return(t)
          /\ round' = round + 1
          /\ UNCHANGED myGeneration

\* Seeded fault: an if in place of the while: who was held back does not look again.
ClosedOnce(t) == countSleep >= n /\ at[t] # "full"

\* The barrier is full, or not everybody has left it yet.
Closed(t) == countSleep >= n

\* Lines 133-146 with the conditions as was: a full barrier is waited out,
\* else enter, and the n-th thread wakes the sleepers.
EnterBarrier(t, was) ==
    IF Closed(t)
    THEN /\ Block(t, "full", "CReset", was)
         /\ UNCHANGED <<countSleep, countReset, master, round, entered, returned>>
    ELSE /\ master' = [master EXCEPT ![t] = (countSleep = 0)]
         /\ entered' = [entered EXCEPT ![t] = round]
         /\ \/ /\ countSleep + 1 < n
               /\ countSleep' = countSleep + 1
               /\ Block(t, "sleep", "CSleep", was)
               /\ UNCHANGED <<countReset, round, returned>>
            \/ /\ countSleep + 1 >= n
               /\ LeaveBarrier(t, 0, countSleep + 1,
                               [was EXCEPT !["CSleep"] = NotifyAll(@)])

Wait(t) == /\ at[t] = "out" /\ calls[t] > 0
           /\ calls' = [calls EXCEPT ![t] = @ - 1]
           /\ EnterBarrier(t, cond)

\* Line 142 returns.
WakeSleeper(t) ==
    /\ at[t] = "sleep" /\ Woken(t, "CSleep")
    /\ UNCHANGED <<master, entered, calls>>
    /\ LeaveBarrier(t, countReset, countSleep,
                    [cond EXCEPT !["CSleep"] = EndWait(@)])

\* Line 133: the loop tests again.
WakeEarly(t) ==
    /\ at[t] = "full" /\ Woken(t, "CReset")
    /\ EnterBarrier(t, [cond EXCEPT !["CReset"] = EndWait(@)])
    /\ UNCHANGED calls

\* Line 154 returns.
WakeLeaver(t) ==
    /\ at[t] = "leave" /\ Woken(t, "CReset")
    /\ cond' = [cond EXCEPT !["CReset"] = EndWait(@)]
    /\ UNCHANGED <<countSleep, countReset, myGeneration, master, entered, calls, round>>
    /\ Return(t)

Next == \E t \in Threads : Wait(t) \/ WakeSleeper(t) \/ WakeEarly(t) \/ WakeLeaver(t)

\* A thread that may wake gets the mutex; nobody has to call Wait.
Spec == /\ Init /\ [][Next]_vars
        /\ \A t \in Threads : SF_vars(WakeSleeper(t) \/ WakeEarly(t) \/ WakeLeaver(t))

-----------------------------------------------------------------------------
\* Wait "will return true for exactly one thread, false for all other threads"
\* (Barrier.h:66): of the n calls of a round one returns TRUE at most, and it is
\* exactly one once all n have returned.
OneMaster ==
    \A r \in Rounds : /\ returned[r][TRUE] <= 1
                     /\ returned[r][FALSE] <= n - 1

\* Nobody returns from a round that n threads have not entered and left, even
\* with threads of the next round already waiting to get in.
NobodyEarly ==
    \A r \in Rounds : r >= round => returned[r][TRUE] + returned[r][FALSE] = 0

\* A round never holds more threads than it is for.
RoundSize ==
    /\ countSleep >= Cardinality({t \in Threads : /\ at[t] \in {"sleep", "leave"}
                                                  /\ entered[t] = round})
    /\ \A t \in Threads : at[t] = "sleep" => entered[t] = round

\* The rounds of a barrier, together.
RoundsAreWhole == TypeOK /\ OneMaster /\ NobodyEarly /\ RoundSize

\* Whoever has entered a round that is full gets out.
LeavesFullRound ==
    \A t \in Threads : /\ (at[t] = "sleep" /\ countSleep = n) ~> at[t] # "sleep"
                      /\ at[t] = "leave" ~> at[t] # "leave"
=============================================================================
