--------------------------- MODULE LockFree_proofs ---------------------------
(***************************************************************************)
(* Proofs about what FastFlow's threads share without a mutex: the bounded   *)
(* queue of many producers and consumers, for any threads, any number of     *)
(* slots above one and any number of calls; CLHSpinLock for any number of    *)
(* threads; spinBarrier between the loops of any number of workers; and the  *)
(* linked queue of one producer and one consumer.                            *)
(* They share nothing but this module.                                       *)
(*                                                                          *)
(* Of a queue's positions only three facts about their slots are needed;     *)
(* what carries the proof is that a sequence number says whose turn the slot *)
(* is.                                                                      *)
(***************************************************************************)
EXTENDS MPMCQueue, Sequences, FiniteSetTheorems, SequenceTheorems, TLAPS

-----------------------------------------------------------------------------
(* Slots *)

\* A remainder is below the divisor.
LEMMA InSlots == ASSUME NEW S \in Nat \ {0}, NEW p \in Nat PROVE p % S \in 0 .. S - 1
OBVIOUS

\* What quotient and remainder are.
LEMMA Split == ASSUME NEW S \in Int, S > 0, NEW p \in Int PROVE p = S * (p \div S) + (p % S)
OBVIOUS

\* Zero is the only multiple of S that is nearer to zero than S.
LEMMA Multiples ==
  ASSUME NEW S \in Nat \ {0}, NEW k \in Int, S * k < S, - S < S * k PROVE k = 0
<1>1. CASE k <= -1
  <2>1. S * k <= - S
    BY <1>1
  <2> QED BY <2>1
<1>2. CASE k >= 1
  <2>1. S * k >= S
    BY <1>2
  <2> QED BY <2>1
<1> QED BY <1>1, <1>2

\* Positions that are less than a lap apart are in different slots.
LEMMA SameSlot ==
  ASSUME NEW S \in Nat \ {0}, NEW p \in Nat, NEW d \in Nat, d < S, (p + d) % S = p % S
  PROVE  d = 0
<1>1. p = S * (p \div S) + (p % S) /\ p \div S \in Int
  BY Split
<1>2. p + d = S * ((p + d) \div S) + ((p + d) % S) /\ (p + d) \div S \in Int
  BY Split
<1> DEFINE a == p \div S
           b == (p + d) \div S
           r == p % S
<1>3. r \in Int
  BY InSlots
<1>4. a \in Int /\ b \in Int /\ p = S * a + r /\ p + d = S * b + r
  BY <1>1, <1>2
<1> HIDE DEF a, b, r
<1>5. d = S * (b - a) /\ b - a \in Int
  BY <1>3, <1>4
<1>6. b - a = 0
  BY <1>5, Multiples
<1> QED BY <1>5, <1>6

\* The first lap.
LEMMA WithinOne == ASSUME NEW S \in Nat \ {0}, NEW p \in 0 .. S - 1 PROVE p % S = p
OBVIOUS

\* A lap later a slot comes again.
LEMMA NextLap == ASSUME NEW S \in Nat \ {0}, NEW p \in Nat PROVE (p + S) % S = p % S
<1>1. p = S * (p \div S) + (p % S) /\ p \div S \in Int
  BY Split
<1>2. p + S = S * ((p + S) \div S) + ((p + S) % S) /\ (p + S) \div S \in Int
  BY Split
<1> DEFINE a == p \div S
           b == (p + S) \div S
           r == p % S
           q == (p + S) % S
<1>3. r \in 0 .. S - 1 /\ q \in 0 .. S - 1
  BY InSlots
<1>4. a \in Int /\ b \in Int /\ p = S * a + r /\ p + S = S * b + q
  BY <1>1, <1>2
<1> SUFFICES q = r
  OBVIOUS
<1> HIDE DEF a, b, r, q
<1>5. r - q = S * (b - a - 1) /\ b - a - 1 \in Int
  BY <1>3, <1>4
<1>6. r - q < S /\ - S < r - q
  BY <1>3
<1>7. \A k \in Int : S * k < S /\ - S < S * k => k = 0
  BY Multiples
<1>8. b - a - 1 = 0
  BY <1>5, <1>6, <1>7
<1> QED BY <1>3, <1>5, <1>8

\* What the proofs use of the slot of a position.
LEMMA SlotFacts ==
  ASSUME SizeAssumption
  PROVE  /\ Size \in Nat
         /\ \A p \in Nat : /\ slot(p) \in Slots /\ slot(p + Size) = slot(p)
                           /\ slot(p + 1) # slot(p)
<1>1. Size \in Nat \ {0} /\ 1 < Size
  BY DEF SizeAssumption
<1> SUFFICES ASSUME NEW p \in Nat
             PROVE  /\ p % Size \in 0 .. Size - 1 /\ (p + Size) % Size = p % Size
                    /\ (p + 1) % Size # p % Size
  BY <1>1 DEF slot, Slots
<1>2. p % Size \in 0 .. Size - 1
  BY <1>1, InSlots
<1>3. (p + Size) % Size = p % Size
  BY <1>1, NextLap
<1>4. (p + 1) % Size # p % Size
  <2> SUFFICES ASSUME (p + 1) % Size = p % Size PROVE FALSE
    OBVIOUS
  <2>1. \A d \in Nat : d < Size /\ (p + d) % Size = p % Size => d = 0
    BY <1>1, SameSlot
  <2> QED BY <1>1, <2>1
<1> QED BY <1>2, <1>3, <1>4

\* In the first lap a position is its slot.
LEMMA Within == ASSUME SizeAssumption, NEW p \in 0 .. Size - 1 PROVE slot(p) = p
BY WithinOne DEF SizeAssumption, slot

-----------------------------------------------------------------------------
(* The invariant *)

\* Type correctness, but for the window.
Typed ==
  /\ pc \in [Threads -> Labels]
  /\ pos \in [Threads -> Nat] /\ got \in [Threads -> Nat]
  /\ seq \in [Slots -> Nat] /\ data \in [Slots -> Nat \cup {Nothing}]
  /\ pread \in Nat /\ pwrite \in Nat

\* No more than Size positions are claimed by push and not by pop.
Window == pread <= pwrite /\ pwrite <= pread + Size

\* Before the claim: a thread has read no position beyond the next, and the next is
\* still as it saw it.
Trying(t) ==
  /\ pc[t] \in {"pushSeq", "pushCas"} => pos[t] <= pwrite
  /\ pc[t] \in {"popSeq", "popCas"} => pos[t] <= pread
  /\ pc[t] = "pushCas" => got[t] = pos[t]
  /\ pc[t] = "pushCas" /\ pwrite = pos[t] => seq[slot(pos[t])] = pos[t]
  /\ pc[t] = "popCas" /\ pread = pos[t] => seq[slot(pos[t])] = pos[t] + 1

\* After it: the sequence number of the slot waits for this thread.
Holding(t) ==
  /\ pc[t] \in {"pushData", "pushDone"} =>
       got[t] = pos[t] /\ pos[t] < pwrite /\ seq[slot(pos[t])] = pos[t]
  /\ pc[t] = "pushDone" => data[slot(pos[t])] = pos[t]
  /\ pc[t] \in {"popData", "popDone"} => pos[t] < pread /\ seq[slot(pos[t])] = pos[t] + 1

\* What a sequence number says: the item is there, or the lap before is taken.
Stored == \A p \in Nat : seq[slot(p)] = p + 1 => data[slot(p)] = p /\ p < pwrite
Freed == \A p \in Nat : seq[slot(p)] = p => p < pread + Size

\* A sequence number never falls behind the claims.
NotBehind ==
  \A p \in Nat : /\ p < pwrite => seq[slot(p)] >= p
                 /\ p < pread => seq[slot(p)] >= p + 1

\* The inductive invariant.
IInv ==
  /\ Typed
  /\ Window
  /\ \A t \in Threads : Trying(t) /\ Holding(t)
  /\ OneInSlot
  /\ Stored
  /\ Freed
  /\ NotBehind
  /\ InClaimOrder
  /\ TruthfulRefusals

-----------------------------------------------------------------------------
(* Steps before the claim *)

\* A step of one thread moves it, with its locals, and no other.
Moves(t, l, p, g) ==
  pc' = [pc EXCEPT ![t] = l] /\ pos' = [pos EXCEPT ![t] = p] /\ got' = [got EXCEPT ![t] = g]

\* What that says of every thread.
LEMMA Moved ==
  ASSUME Typed, NEW t \in Threads, NEW l \in Labels, NEW p \in Nat, NEW g \in Nat,
         Moves(t, l, p, g)
  PROVE  /\ pc' \in [Threads -> Labels]
         /\ pos' \in [Threads -> Nat] /\ got' \in [Threads -> Nat]
         /\ pc'[t] = l /\ pos'[t] = p /\ got'[t] = g
         /\ \A u \in Threads : u # t => pc'[u] = pc[u] /\ pos'[u] = pos[u] /\ got'[u] = got[u]
BY DEF Typed, Moves

\* Locals that a step leaves alone.
LEMMA Stays ==
  ASSUME Typed, NEW t \in Threads
  PROVE  /\ pos = [pos EXCEPT ![t] = pos[t]] /\ got = [got EXCEPT ![t] = got[t]]
         /\ pos[t] \in Nat /\ got[t] \in Nat
BY DEF Typed

\* A step of a thread before its claim, or back to there, that changes no shared memory.
LEMMA LocalStep ==
  ASSUME IInv, NEW t \in Threads, NEW p \in Nat, NEW g \in Nat,
         NEW l \in {"out", "push", "pushSeq", "pushCas", "pop", "popSeq", "popCas"},
         Moves(t, l, p, g), UNCHANGED <<seq, data, pwrite, pread, taken>>, refusedTruly',
         l \in {"pushSeq", "pushCas"} => p <= pwrite,
         l \in {"popSeq", "popCas"} => p <= pread,
         l = "pushCas" => g = p,
         l = "pushCas" /\ pwrite = p => seq[slot(p)] = p,
         l = "popCas" /\ pread = p => seq[slot(p)] = p + 1
  PROVE  IInv'
<1>1. Typed' /\ pc'[t] = l /\ pos'[t] = p /\ got'[t] = g
      /\ \A u \in Threads : u # t => pc'[u] = pc[u] /\ pos'[u] = pos[u] /\ got'[u] = got[u]
  <2>1. l \in Labels
    BY DEF Labels
  <2> QED BY <2>1, Moved DEF IInv, Typed
<1>2. Window' /\ Stored' /\ Freed' /\ NotBehind' /\ InClaimOrder' /\ TruthfulRefusals'
  BY DEF IInv, Window, Stored, Freed, NotBehind, InClaimOrder, TruthfulRefusals
<1>3. \A u \in Threads : Trying(u)' /\ Holding(u)'
  <2> TAKE u \in Threads
  <2>1. CASE u = t
    BY <1>1, <2>1 DEF Trying, Holding
  <2>2. CASE u # t
    BY <1>1, <2>2 DEF IInv, Trying, Holding
  <2> QED BY <2>1, <2>2
<1>4. OneInSlot'
  <2>1. \A u \in Inside' : u \in Inside /\ pos'[u] = pos[u]
    BY <1>1 DEF Inside
  <2> QED BY <2>1 DEF IInv, OneInSlot
<1> QED BY <1>1, <1>2, <1>3, <1>4 DEF IInv

\* push reads pwrite.
LEMMA PushReadStep == ASSUME IInv, NEW t \in Threads, PushRead(t) PROVE IInv'
<1>1. Moves(t, "pushSeq", pwrite, got[t]) /\ pwrite \in Nat /\ got[t] \in Nat
  BY Stays DEF PushRead, Goto, Moves, IInv, Typed
<1>2. UNCHANGED <<seq, data, pwrite, pread, taken>> /\ refusedTruly'
  BY DEF PushRead, IInv, TruthfulRefusals, slots, history
<1> QED BY <1>1, <1>2, LocalStep

\* pop reads pread.
LEMMA PopReadStep == ASSUME IInv, NEW t \in Threads, PopRead(t) PROVE IInv'
<1>1. Moves(t, "popSeq", pread, got[t]) /\ pread \in Nat /\ got[t] \in Nat
  BY Stays DEF PopRead, Goto, Moves, IInv, Typed
<1>2. UNCHANGED <<seq, data, pwrite, pread, taken>> /\ refusedTruly'
  BY DEF PopRead, IInv, TruthfulRefusals, slots, history
<1> QED BY <1>1, <1>2, LocalStep

\* push reads the sequence number: a smaller one is that of the next position, for no
\* sequence number is behind the claims, so that the queue is full at this instant.
LEMMA PushSeqStep ==
  ASSUME SizeAssumption, IInv, NEW t \in Threads, PushSeq(t) PROVE IInv'
<1> DEFINE s == seq[slot(pos[t])]
<1>1. /\ UNCHANGED <<seq, data, pwrite, pread, taken>>
      /\ pos[t] \in Nat /\ got[t] \in Nat /\ pwrite \in Nat /\ s \in Nat /\ pos[t] <= pwrite
  BY SlotFacts DEF PushSeq, IInv, Typed, Trying, slots
<1>2. CASE s >= pos[t] /\ got' = [got EXCEPT ![t] = s]
           /\ Goto(t, IF s = pos[t] THEN "pushCas" ELSE "push") /\ UNCHANGED <<pos, refusedTruly>>
  <2>1. refusedTruly'
    BY <1>2 DEF IInv, TruthfulRefusals
  <2>2. pos' = [pos EXCEPT ![t] = pos[t]]
    BY <1>2, Stays DEF IInv
  <2>3. CASE s = pos[t]
    <3>1. Moves(t, "pushCas", pos[t], pos[t])
      BY <1>2, <2>2, <2>3 DEF Moves, Goto
    <3> QED BY <1>1, <2>1, <2>3, <3>1, LocalStep
  <2>4. CASE s # pos[t]
    <3>1. Moves(t, "push", pos[t], s)
      BY <1>2, <2>2, <2>4 DEF Moves, Goto
    <3> HIDE DEF s
    <3> QED BY <1>1, <2>1, <3>1, LocalStep
  <2> QED BY <2>3, <2>4
<1>3. CASE s < pos[t] /\ Return(t) /\ refusedTruly' = Full
  <2>1. Moves(t, "out", 0, 0)
    BY <1>3 DEF Moves, Return, Goto
  <2>2. ~(pos[t] < pwrite)
    BY <1>1, <1>3 DEF IInv, NotBehind
  <2>3. Full
    BY <1>1, <1>3, <2>2 DEF Full
  <2>4. refusedTruly'
    BY <1>3, <2>3, Zenon
  <2> QED BY <1>1, <2>1, <2>4, LocalStep
<1> QED BY <1>2, <1>3 DEF PushSeq

\* pop reads the sequence number: a smaller one says that the oldest item is not there.
LEMMA PopSeqStep ==
  ASSUME SizeAssumption, IInv, NEW t \in Threads, PopSeq(t) PROVE IInv'
<1> DEFINE s == seq[slot(pos[t])]
<1>1. /\ UNCHANGED <<seq, data, pwrite, pread, taken>>
      /\ pos[t] \in Nat /\ got[t] \in Nat /\ pread \in Nat /\ s \in Nat /\ pos[t] <= pread
  BY SlotFacts DEF PopSeq, IInv, Typed, Trying, slots
<1>2. CASE s - (pos[t] + 1) >= 0 /\ Goto(t, IF s - (pos[t] + 1) = 0 THEN "popCas" ELSE "pop")
           /\ UNCHANGED <<pos, got, refusedTruly>>
  <2>1. refusedTruly'
    BY <1>2 DEF IInv, TruthfulRefusals
  <2>2. pos' = [pos EXCEPT ![t] = pos[t]] /\ got' = [got EXCEPT ![t] = got[t]]
    BY <1>2, Stays DEF IInv
  <2> DEFINE diff == s - (pos[t] + 1)
  <2>3. diff = 0 <=> s = pos[t] + 1
    BY <1>1
  <2>4. Goto(t, IF diff = 0 THEN "popCas" ELSE "pop")
    BY <1>2
  <2> HIDE DEF diff
  <2>5. CASE s = pos[t] + 1
    <3>1. Moves(t, "popCas", pos[t], got[t])
      BY <2>2, <2>3, <2>4, <2>5 DEF Moves, Goto
    <3> QED BY <1>1, <2>1, <2>5, <3>1, LocalStep
  <2>6. CASE s # pos[t] + 1
    <3>1. Moves(t, "pop", pos[t], got[t])
      BY <2>2, <2>3, <2>4, <2>6 DEF Moves, Goto
    <3> QED BY <1>1, <2>1, <3>1, LocalStep
  <2> QED BY <2>5, <2>6
<1>3. CASE s - (pos[t] + 1) < 0 /\ Return(t) /\ refusedTruly' = Hollow
  <2>1. Moves(t, "out", 0, 0)
    BY <1>3 DEF Moves, Return, Goto
  <2>2. ~(pos[t] < pread)
    BY <1>1, <1>3 DEF IInv, NotBehind
  <2>3. Hollow
    BY <1>1, <1>3, <2>2 DEF Hollow
  <2>4. refusedTruly'
    BY <1>3, <2>3, Zenon
  <2> QED BY <1>1, <2>1, <2>4, LocalStep
<1> QED BY <1>2, <1>3 DEF PopSeq

-----------------------------------------------------------------------------
(* The claims *)

\* Who claims a position while its slot waits for it is alone in the slot.
LEMMA NewInside ==
  ASSUME SizeAssumption, IInv, NEW p \in Nat, NEW u \in Inside,
         \/ pwrite = p /\ seq[slot(p)] = p
         \/ pread = p /\ seq[slot(p)] = p + 1
  PROVE  slot(pos[u]) # slot(p)
<1> SUFFICES ASSUME slot(pos[u]) = slot(p) PROVE FALSE
  OBVIOUS
<1>1. /\ u \in Threads /\ pos[u] \in Nat /\ pwrite \in Nat /\ pread \in Nat
      /\ pos[u] = p => ~(pos[u] < p)
  BY DEF Inside, IInv, Typed
<1>2. slot(p + 1) # slot(p) /\ slot(pos[u] + 1) # slot(pos[u])
  BY <1>1, SlotFacts
<1>3. CASE pc[u] \in {"pushData", "pushDone"}
  <2>1. pos[u] < pwrite /\ seq[slot(p)] = pos[u]
    BY <1>1, <1>3 DEF IInv, Holding
  <2> QED BY <1>1, <1>2, <2>1
<1>4. CASE pc[u] \in {"popData", "popDone"}
  <2>1. pos[u] < pread /\ seq[slot(p)] = pos[u] + 1
    BY <1>1, <1>4 DEF IInv, Holding
  <2> QED BY <1>1, <1>2, <2>1
<1> QED BY <1>3, <1>4 DEF Inside

\* One more thread inside, alone in its slot.
LEMMA Joins ==
  ASSUME OneInSlot, NEW t \in Threads,
         \A u \in Inside' : u # t => u \in Inside /\ pos'[u] = pos[u],
         \A u \in Inside : u # t => slot(pos[u]) # slot(pos'[t])
  PROVE  OneInSlot'
BY DEF OneInSlot

\* push claims its position, or fails.
LEMMA PushCasStep == ASSUME SizeAssumption, IInv, NEW t \in Threads, PushCas(t) PROVE IInv'
<1> DEFINE p == pos[t]
<1>1. /\ pc[t] = "pushCas" /\ UNCHANGED <<seq, data, pread, taken, refusedTruly>>
      /\ pos' = [pos EXCEPT ![t] = p] /\ got' = [got EXCEPT ![t] = got[t]]
      /\ p \in Nat /\ got[t] \in Nat /\ pwrite \in Nat /\ pread \in Nat /\ Size \in Nat
  BY Stays, SlotFacts DEF PushCas, IInv, Typed, slots, history
<1>2. refusedTruly'
  BY <1>1 DEF IInv, TruthfulRefusals
<1>3. CASE UNCHANGED pwrite /\ Goto(t, "push")
  <2>1. Moves(t, "push", p, got[t])
    BY <1>1, <1>3 DEF Moves, Goto
  <2> HIDE DEF p
  <2> QED BY <1>1, <1>2, <1>3, <2>1, LocalStep
<1>4. CASE pwrite = p /\ pwrite' = p + 1 /\ Goto(t, "pushData")
  <2>1. Moves(t, "pushData", p, got[t]) /\ "pushData" \in Labels
    BY <1>1, <1>4 DEF Moves, Goto, Labels
  <2>2. got[t] = p /\ seq[slot(p)] = p
    BY <1>1, <1>4 DEF IInv, Trying
  <2> HIDE DEF p
  <2>3. /\ Typed' /\ pc'[t] = "pushData" /\ pos'[t] = p /\ got'[t] = p
        /\ \A u \in Threads : u # t => pc'[u] = pc[u] /\ pos'[u] = pos[u] /\ got'[u] = got[u]
    BY <1>1, <1>4, <2>1, <2>2, Moved DEF IInv, Typed
  <2>4. \A u \in Threads : pos[u] \in Nat
    BY DEF IInv, Typed
  <2>5. \A u \in Threads : Trying(u)' /\ Holding(u)'
    <3> TAKE u \in Threads
    <3>1. CASE u = t
      BY <1>1, <1>4, <2>2, <2>3, <3>1 DEF Trying, Holding
    <3>2. CASE u # t
      BY <1>1, <1>4, <2>3, <2>4, <3>2 DEF IInv, Trying, Holding
    <3> QED BY <3>1, <3>2
  <2>6. OneInSlot'
    <3>1. \A u \in Inside' : u # t => u \in Inside /\ pos'[u] = pos[u]
      BY <2>3 DEF Inside
    <3>2. \A u \in Inside : slot(pos[u]) # slot(p)
      BY <1>1, <1>4, <2>2, NewInside
    <3> QED BY <2>3, <3>1, <3>2, Joins DEF IInv
  <2>7. Window'
    <3>1. p < pread + Size
      BY <1>1, <2>2 DEF IInv, Freed
    <3> QED BY <1>1, <1>4, <3>1 DEF IInv, Window
  <2>8. Stored' /\ Freed'
    BY <1>1, <1>4 DEF IInv, Stored, Freed
  <2>9. NotBehind'
    <3>1. \A q \in Nat : q < p + 1 => q < p \/ q = p
      BY <1>1
    <3> QED BY <1>1, <1>4, <2>2, <3>1 DEF IInv, NotBehind
  <2>10. InClaimOrder' /\ TruthfulRefusals'
    BY <1>1, <1>2 DEF IInv, InClaimOrder, TruthfulRefusals
  <2> QED BY <2>3, <2>5, <2>6, <2>7, <2>8, <2>9, <2>10 DEF IInv
<1> QED BY <1>3, <1>4 DEF PushCas

\* pop claims its position, or fails.
LEMMA PopCasStep == ASSUME SizeAssumption, IInv, NEW t \in Threads, PopCas(t) PROVE IInv'
<1> DEFINE p == pos[t]
<1>1. /\ pc[t] = "popCas" /\ UNCHANGED <<seq, data, pwrite, taken, refusedTruly>>
      /\ pos' = [pos EXCEPT ![t] = p] /\ got' = [got EXCEPT ![t] = got[t]]
      /\ p \in Nat /\ got[t] \in Nat /\ pwrite \in Nat /\ pread \in Nat /\ Size \in Nat
  BY Stays, SlotFacts DEF PopCas, IInv, Typed, slots, history
<1>2. refusedTruly'
  BY <1>1 DEF IInv, TruthfulRefusals
<1>3. CASE UNCHANGED pread /\ Goto(t, "pop")
  <2>1. Moves(t, "pop", p, got[t])
    BY <1>1, <1>3 DEF Moves, Goto
  <2> HIDE DEF p
  <2> QED BY <1>1, <1>2, <1>3, <2>1, LocalStep
<1>4. CASE pread = p /\ pread' = p + 1 /\ Goto(t, "popData")
  <2>1. Moves(t, "popData", p, got[t]) /\ "popData" \in Labels
    BY <1>1, <1>4 DEF Moves, Goto, Labels
  <2>2. seq[slot(p)] = p + 1
    BY <1>1, <1>4 DEF IInv, Trying
  <2> HIDE DEF p
  <2>3. /\ Typed' /\ pc'[t] = "popData" /\ pos'[t] = p
        /\ \A u \in Threads : u # t => pc'[u] = pc[u] /\ pos'[u] = pos[u] /\ got'[u] = got[u]
    BY <1>1, <1>4, <2>1, Moved DEF IInv, Typed
  <2>4. \A u \in Threads : pos[u] \in Nat
    BY DEF IInv, Typed
  <2>5. \A u \in Threads : Trying(u)' /\ Holding(u)'
    <3> TAKE u \in Threads
    <3>1. CASE u = t
      BY <1>1, <1>4, <2>2, <2>3, <3>1 DEF Trying, Holding
    <3>2. CASE u # t
      BY <1>1, <1>4, <2>3, <2>4, <3>2 DEF IInv, Trying, Holding
    <3> QED BY <3>1, <3>2
  <2>6. OneInSlot'
    <3>1. \A u \in Inside' : u # t => u \in Inside /\ pos'[u] = pos[u]
      BY <2>3 DEF Inside
    <3>2. \A u \in Inside : slot(pos[u]) # slot(p)
      BY <1>1, <1>4, <2>2, NewInside
    <3> QED BY <2>3, <3>1, <3>2, Joins DEF IInv
  <2>7. Window'
    <3>1. p < pwrite
      BY <1>1, <2>2 DEF IInv, Stored
    <3> QED BY <1>1, <1>4, <3>1 DEF IInv, Window
  <2>8. Stored' /\ Freed'
    BY <1>1, <1>4 DEF IInv, Stored, Freed
  <2>9. NotBehind'
    <3>1. \A q \in Nat : q < p + 1 => q < p \/ q = p
      BY <1>1
    <3> QED BY <1>1, <1>4, <2>2, <3>1 DEF IInv, NotBehind
  <2>10. InClaimOrder' /\ TruthfulRefusals'
    BY <1>1, <1>2 DEF IInv, InClaimOrder, TruthfulRefusals
  <2> QED BY <2>3, <2>5, <2>6, <2>7, <2>8, <2>9, <2>10 DEF IInv
<1> QED BY <1>3, <1>4 DEF PopCas

-----------------------------------------------------------------------------
(* Behind the claim *)

\* push stores the item in the slot it has for itself.
LEMMA PushDataStep == ASSUME SizeAssumption, IInv, NEW t \in Threads, PushData(t) PROVE IInv'
<1> DEFINE p == pos[t]
<1>1. /\ pc[t] = "pushData" /\ UNCHANGED <<seq, pread, pwrite, taken, refusedTruly>>
      /\ pos' = [pos EXCEPT ![t] = p] /\ got' = [got EXCEPT ![t] = got[t]]
      /\ pc' = [pc EXCEPT ![t] = "pushDone"] /\ data' = [data EXCEPT ![slot(p)] = p]
      /\ p \in Nat /\ got[t] \in Nat /\ slot(p) \in Slots
  BY Stays, SlotFacts DEF PushData, IInv, Typed, history, Goto
<1>2. got[t] = p /\ p < pwrite /\ seq[slot(p)] = p
  BY <1>1 DEF IInv, Holding
<1>3. Moves(t, "pushDone", p, p) /\ "pushDone" \in Labels
  BY <1>1, <1>2 DEF Moves, Labels
<1> HIDE DEF p
<1>4. /\ Typed' /\ pc'[t] = "pushDone" /\ pos'[t] = p /\ got'[t] = p
      /\ \A u \in Threads : u # t => pc'[u] = pc[u] /\ pos'[u] = pos[u] /\ got'[u] = got[u]
      /\ data'[slot(p)] = p /\ \A i \in Slots : i # slot(p) => data'[i] = data[i]
  BY <1>1, <1>3, Moved DEF IInv, Typed
<1>5. t \in Inside /\ pos[t] = p
  BY <1>1 DEF Inside, p
<1>6. \A u \in Threads : Trying(u)' /\ Holding(u)'
  <2> TAKE u \in Threads
  <2>1. CASE u = t
    BY <1>1, <1>2, <1>4, <2>1 DEF Trying, Holding
  <2>2. CASE u # t
    <3>1. pc[u] = "pushDone" => slot(pos[u]) # slot(p) /\ slot(pos[u]) \in Slots
      BY <1>5, <2>2, SlotFacts DEF IInv, Typed, OneInSlot, Inside
    <3> QED BY <1>1, <1>4, <2>2, <3>1 DEF IInv, Trying, Holding
  <2> QED BY <2>1, <2>2
<1>7. OneInSlot'
  <2>1. \A u \in Inside' : u \in Inside /\ pos'[u] = pos[u]
    BY <1>1, <1>4, <1>5 DEF Inside
  <2> QED BY <2>1 DEF IInv, OneInSlot
<1>8. Stored'
  <2> SUFFICES ASSUME NEW q \in Nat, seq[slot(q)] = q + 1
               PROVE  data'[slot(q)] = q /\ q < pwrite
    BY <1>1 DEF Stored
  <2>1. slot(q) # slot(p)
    <3> SUFFICES ASSUME slot(q) = slot(p) PROVE FALSE
      OBVIOUS
    <3>1. q + 1 = p
      BY <1>2
    <3> QED BY <3>1, SlotFacts
  <2> QED BY <1>4, <2>1, SlotFacts DEF IInv, Stored
<1>9. Window' /\ Freed' /\ NotBehind' /\ InClaimOrder' /\ TruthfulRefusals'
  BY <1>1 DEF IInv, Window, Freed, NotBehind, InClaimOrder, TruthfulRefusals
<1> QED BY <1>4, <1>6, <1>7, <1>8, <1>9 DEF IInv

\* pop takes the item the sequence number promised it.
LEMMA PopDataStep == ASSUME SizeAssumption, IInv, NEW t \in Threads, PopData(t) PROVE IInv'
<1> DEFINE p == pos[t]
<1>1. /\ pc[t] = "popData" /\ UNCHANGED <<seq, data, pread, pwrite, refusedTruly>>
      /\ pos' = [pos EXCEPT ![t] = p] /\ got' = [got EXCEPT ![t] = got[t]]
      /\ pc' = [pc EXCEPT ![t] = "popDone"]
      /\ taken' = [q \in DOMAIN taken \cup {p} |->
                     IF q = p THEN data[slot(q)] ELSE taken[q]]
      /\ p \in Nat /\ got[t] \in Nat
  BY Stays DEF PopData, IInv, Typed, slots, Goto
<1>2. p < pread /\ seq[slot(p)] = p + 1
  BY <1>1 DEF IInv, Holding
<1>3. Moves(t, "popDone", p, got[t]) /\ "popDone" \in Labels
  BY <1>1 DEF Moves, Labels
<1>4. t \in Inside /\ pos[t] = p
  BY <1>1 DEF Inside
<1> HIDE DEF p
<1>5. /\ Typed' /\ pc'[t] = "popDone" /\ pos'[t] = p
      /\ \A u \in Threads : u # t => pc'[u] = pc[u] /\ pos'[u] = pos[u] /\ got'[u] = got[u]
  BY <1>1, <1>3, Moved DEF IInv, Typed
<1>6. \A u \in Threads : Trying(u)' /\ Holding(u)'
  <2> TAKE u \in Threads
  <2>1. CASE u = t
    BY <1>1, <1>2, <1>5, <2>1 DEF Trying, Holding
  <2>2. CASE u # t
    BY <1>1, <1>5, <2>2 DEF IInv, Trying, Holding
  <2> QED BY <2>1, <2>2
<1>7. OneInSlot'
  <2>1. \A u \in Inside' : u \in Inside /\ pos'[u] = pos[u]
    BY <1>4, <1>5 DEF Inside
  <2> QED BY <2>1 DEF IInv, OneInSlot
<1>8. InClaimOrder'
  <2>1. data[slot(p)] = p
    BY <1>1, <1>2 DEF IInv, Stored
  <2> QED BY <1>1, <2>1 DEF IInv, InClaimOrder
<1>9. Window' /\ Stored' /\ Freed' /\ NotBehind' /\ TruthfulRefusals'
  BY <1>1 DEF IInv, Window, Stored, Freed, NotBehind, TruthfulRefusals
<1> QED BY <1>5, <1>6, <1>7, <1>8, <1>9 DEF IInv

\* A thread hands its slot over: the sequence number goes up, and the thread is out.
LEMMA HandOver ==
  ASSUME SizeAssumption, IInv, NEW t \in Inside, NEW s \in Nat,
         Moves(t, "out", 0, 0), seq' = [seq EXCEPT ![slot(pos[t])] = s],
         UNCHANGED <<data, pwrite, pread, taken, refusedTruly>>,
         seq[slot(pos[t])] < s,
         \A p \in Nat : slot(p) = slot(pos[t]) /\ s = p + 1 => data[slot(p)] = p /\ p < pwrite,
         \A p \in Nat : slot(p) = slot(pos[t]) /\ s = p => p < pread + Size
  PROVE  IInv'
<1> DEFINE i == slot(pos[t])
<1>1. t \in Threads /\ i \in Slots /\ seq \in [Slots -> Nat]
  BY SlotFacts DEF Inside, IInv, Typed
<1>2. \A u \in Inside : u # t => slot(pos[u]) # i
  BY DEF IInv, OneInSlot
<1>3. \A p \in Nat : slot(p) = i /\ s = p + 1 => data[slot(p)] = p /\ p < pwrite
  OBVIOUS
<1>4. \A p \in Nat : slot(p) = i /\ s = p => p < pread + Size
  OBVIOUS
<1>5. seq' = [seq EXCEPT ![i] = s] /\ seq[i] < s
  OBVIOUS
<1> HIDE DEF i
<1>6. seq' \in [Slots -> Nat] /\ seq'[i] = s /\ \A j \in Slots : j # i => seq'[j] = seq[j]
  BY <1>1, <1>5
<1>7. "out" \in Labels /\ \A p \in Nat : slot(p) \in Slots
  BY SlotFacts DEF Labels
<1>8. /\ Typed' /\ pc'[t] = "out"
      /\ \A u \in Threads : u # t => pc'[u] = pc[u] /\ pos'[u] = pos[u] /\ got'[u] = got[u]
  BY <1>1, <1>6, <1>7, Moved DEF IInv, Typed
<1>9. OneInSlot'
  <2>1. \A u \in Inside' : u \in Inside /\ pos'[u] = pos[u]
    BY <1>8 DEF Inside
  <2> QED BY <2>1 DEF IInv, OneInSlot
<1>10. ASSUME NEW u \in Threads PROVE Trying(u)' /\ Holding(u)'
  <2>1. CASE u = t
    BY <1>8, <2>1 DEF Trying, Holding
  <2>2. CASE u # t
    <3>1. pc'[u] = pc[u] /\ pos'[u] = pos[u] /\ got'[u] = got[u] /\ pos[u] \in Nat
      BY <1>8, <1>10, <2>2 DEF IInv, Typed
    <3>2. Trying(u) /\ Holding(u)
      BY <1>10 DEF IInv
    <3>3. /\ pc[u] = "pushCas" /\ pwrite = pos[u] => slot(pos[u]) # i
          /\ pc[u] = "popCas" /\ pread = pos[u] => slot(pos[u]) # i
      BY <3>1, <3>2, NewInside DEF Trying, i
    <3>4. u \in Inside => slot(pos[u]) # i
      BY <1>2, <2>2
    <3>5. seq'[slot(pos[u])] = IF slot(pos[u]) = i THEN s ELSE seq[slot(pos[u])]
      BY <1>6, <1>7, <3>1
    <3>6. Trying(u)'
      BY <3>1, <3>2, <3>3, <3>5 DEF Trying
    <3>7. Holding(u)'
      BY <1>10, <3>1, <3>2, <3>4, <3>5 DEF Holding, Inside
    <3> QED BY <3>6, <3>7
  <2> QED BY <2>1, <2>2
<1>11. Stored'
  <2> SUFFICES ASSUME NEW p \in Nat, seq'[slot(p)] = p + 1
               PROVE  data[slot(p)] = p /\ p < pwrite
    BY DEF Stored
  <2>1. CASE slot(p) = i
    BY <1>3, <1>6, <2>1
  <2>2. CASE slot(p) # i
    BY <1>6, <1>7, <2>2 DEF IInv, Stored
  <2> QED BY <2>1, <2>2
<1>12. Freed'
  <2> SUFFICES ASSUME NEW p \in Nat, seq'[slot(p)] = p PROVE p < pread + Size
    BY DEF Freed
  <2>1. CASE slot(p) = i
    BY <1>4, <1>6, <2>1
  <2>2. CASE slot(p) # i
    BY <1>6, <1>7, <2>2 DEF IInv, Freed
  <2> QED BY <2>1, <2>2
<1>13. NotBehind'
  <2> SUFFICES ASSUME NEW p \in Nat
               PROVE  /\ p < pwrite => seq'[slot(p)] >= p
                      /\ p < pread => seq'[slot(p)] >= p + 1
    BY DEF NotBehind
  <2>1. seq'[slot(p)] >= seq[slot(p)] /\ seq'[slot(p)] \in Nat /\ seq[slot(p)] \in Nat
    BY <1>1, <1>5, <1>6, <1>7
  <2>2. /\ p < pwrite => seq[slot(p)] >= p
        /\ p < pread => seq[slot(p)] >= p + 1
    BY DEF IInv, NotBehind
  <2> QED BY <2>1, <2>2
<1>14. Window' /\ InClaimOrder' /\ TruthfulRefusals'
  BY DEF IInv, Window, InClaimOrder, TruthfulRefusals
<1> QED BY <1>8, <1>9, <1>10, <1>11, <1>12, <1>13, <1>14 DEF IInv

\* push hands the slot to the consumers.
LEMMA PushDoneStep == ASSUME SizeAssumption, IInv, NEW t \in Threads, PushDone(t) PROVE IInv'
<1> DEFINE p == pos[t]
<1>1. /\ pc[t] = "pushDone" /\ Moves(t, "out", 0, 0)
      /\ seq' = [seq EXCEPT ![slot(p)] = got[t] + 1]
      /\ UNCHANGED <<data, pwrite, pread, taken, refusedTruly>>
  BY DEF PushDone, Return, Goto, Moves, history
<1>2. /\ t \in Inside /\ p \in Nat /\ got[t] = p /\ p < pwrite /\ seq[slot(p)] = p
      /\ data[slot(p)] = p
  BY <1>1 DEF IInv, Typed, Holding, Inside
<1>3. \A q \in Nat : slot(q) = slot(p) /\ p + 1 = q + 1 => data[slot(q)] = q /\ q < pwrite
  BY <1>2
<1>4. \A q \in Nat : slot(q) = slot(p) /\ p + 1 = q => q < pread + Size
  BY <1>2, SlotFacts
<1>5. p + 1 \in Nat /\ seq[slot(p)] < p + 1
  BY <1>2
<1> QED BY <1>1, <1>2, <1>3, <1>4, <1>5, HandOver

\* pop hands the slot to the producers of the next lap.
LEMMA PopDoneStep == ASSUME SizeAssumption, IInv, NEW t \in Threads, PopDone(t) PROVE IInv'
<1> DEFINE p == pos[t]
<1>1. /\ pc[t] = "popDone" /\ Moves(t, "out", 0, 0)
      /\ seq' = [seq EXCEPT ![slot(p)] = p + Size]
      /\ UNCHANGED <<data, pwrite, pread, taken, refusedTruly>>
  BY DEF PopDone, Return, Goto, Moves, history
<1>2. t \in Inside /\ p \in Nat /\ p < pread /\ seq[slot(p)] = p + 1 /\ pread \in Nat
  BY <1>1 DEF IInv, Typed, Holding, Inside
<1>3. Size \in Nat /\ Size > 1
  BY DEF SizeAssumption
<1>4. \A q \in Nat : slot(q) = slot(p) /\ p + Size = q + 1 => data[slot(q)] = q /\ q < pwrite
  <2> SUFFICES ASSUME NEW q \in Nat, slot(q) = slot(p), p + Size = q + 1 PROVE FALSE
    OBVIOUS
  <2>1. slot(q + 1) = slot(p)
    BY <1>2, SlotFacts
  <2> QED BY <2>1, SlotFacts
<1>5. \A q \in Nat : slot(q) = slot(p) /\ p + Size = q => q < pread + Size
  BY <1>2, <1>3
<1>6. p + Size \in Nat /\ seq[slot(p)] < p + Size
  BY <1>2, <1>3
<1> QED BY <1>1, <1>2, <1>4, <1>5, <1>6, HandOver

-----------------------------------------------------------------------------
(* The theorems *)

\* The invariant holds at the start.
LEMMA InitIInv == ASSUME SizeAssumption, Init PROVE IInv
<1>1. Size \in Nat /\ Size > 1 /\ \A i \in Slots : i \in Nat /\ i < Size
  BY DEF SizeAssumption, Slots
<1>2. /\ \A t \in Threads : pc[t] = "out"
      /\ \A i \in Slots : seq[i] = i
      /\ pread = 0 /\ pwrite = 0 /\ DOMAIN taken = {}
  BY DEF Init
<1>3. Typed
  BY <1>1 DEF Init, Typed, Labels
<1>4. \A t \in Threads : Trying(t) /\ Holding(t)
  BY <1>2 DEF Trying, Holding
<1>5. OneInSlot /\ Window /\ InClaimOrder
  BY <1>1, <1>2 DEF OneInSlot, Inside, Window, InClaimOrder
<1>6. \A p \in Nat : slot(p) \in Slots /\ slot(p + 1) # slot(p)
  BY SlotFacts
<1>7. Stored
  <2> SUFFICES ASSUME NEW p \in Nat, seq[slot(p)] = p + 1 PROVE FALSE
    BY DEF Stored
  <2>1. slot(p) = p + 1 /\ p + 1 < Size
    BY <1>1, <1>2, <1>6
  <2>2. slot(p + 1) = p + 1
    BY <1>1, <2>1, Within
  <2> QED BY <1>6, <2>1, <2>2
<1>8. Freed
  BY <1>1, <1>2, <1>6 DEF Freed
<1>9. NotBehind
  BY <1>2 DEF NotBehind
<1>10. TruthfulRefusals
  BY DEF Init, TruthfulRefusals
<1> QED BY <1>3, <1>4, <1>5, <1>7, <1>8, <1>9, <1>10 DEF IInv

\* Every step keeps the invariant.
LEMMA StepIInv == ASSUME SizeAssumption, IInv, [Next]_vars PROVE IInv'
<1>1. CASE UNCHANGED vars
  <2>1. UNCHANGED <<seq, data, pwrite, pread, pc, pos, got, taken, refusedTruly>>
    BY <1>1 DEF vars
  <2>2. /\ Typed' /\ Window' /\ Stored' /\ Freed' /\ NotBehind'
        /\ InClaimOrder' /\ TruthfulRefusals'
    BY <2>1 DEF IInv, Typed, Window, Stored, Freed, NotBehind, InClaimOrder, TruthfulRefusals
  <2>3. \A t \in Threads : Trying(t)' /\ Holding(t)'
    BY <2>1 DEF IInv, Trying, Holding
  <2>4. OneInSlot'
    BY <2>1 DEF IInv, OneInSlot, Inside
  <2> QED BY <2>2, <2>3, <2>4 DEF IInv
<1>2. ASSUME NEW t \in Threads, Push(t) PROVE IInv'
  BY <1>2, PushReadStep, PushSeqStep, PushCasStep, PushDataStep, PushDoneStep DEF Push
<1>3. ASSUME NEW t \in Threads, Pop(t) PROVE IInv'
  BY <1>3, PopReadStep, PopSeqStep, PopCasStep, PopDataStep, PopDoneStep DEF Pop
<1> QED BY <1>1, <1>2, <1>3 DEF Next

\* In every reachable state the invariant holds.
LEMMA Invariant == ASSUME SizeAssumption PROVE Spec => []IInv
<1>1. Init => IInv
  BY InitIInv
<1>2. IInv /\ [Next]_vars => IInv'
  BY StepIInv
<1> QED BY <1>1, <1>2, PTL DEF Spec

\* The fields have their types and at most Size positions are between pread and pwrite
\* (push and pop of MPMC_Ptr_Queue).
THEOREM TypeCorrect == ASSUME SizeAssumption PROVE Spec => []TypeOK
<1>1. ASSUME SizeAssumption, IInv PROVE TypeOK
  BY <1>1 DEF SizeAssumption, IInv, Typed, Window, TypeOK
<1> QED BY <1>1, Invariant, PTL

\* Between the compare-and-swap and the new sequence number no two threads in push and
\* pop use one slot, however long any of them is held up.
THEOREM SlotsClaimedOnce == ASSUME SizeAssumption PROVE Spec => []OneInSlot
<1>1. IInv => OneInSlot
  BY DEF IInv
<1> QED BY <1>1, Invariant, PTL

\* pop brings the items in the order in which push claimed their positions, each once.
THEOREM ItemsInClaimOrder == ASSUME SizeAssumption PROVE Spec => []InClaimOrder
<1>1. IInv => InClaimOrder
  BY DEF IInv
<1> QED BY <1>1, Invariant, PTL

\* push answers "full" and pop "empty" only when that is so at an instant of the call.
THEOREM RefusalsTrue == ASSUME SizeAssumption PROVE Spec => []TruthfulRefusals
<1>1. IInv => TruthfulRefusals
  BY DEF IInv
<1> QED BY <1>1, Invariant, PTL

\* MPMC_Ptr_Queue, together: what many producers and consumers could break.
THEOREM SlotsHoldItems == ASSUME SizeAssumption PROVE Spec => []QueuesHoldItems
<1>1. TypeOK /\ OneInSlot /\ InClaimOrder /\ TruthfulRefusals => QueuesHoldItems
  BY DEF QueuesHoldItems
<1> QED BY <1>1, TypeCorrect, SlotsClaimedOnce, ItemsInClaimOrder, RefusalsTrue, PTL

-----------------------------------------------------------------------------
(* CLHSpinLock: mutual exclusion, the privacy of the nodes, and that the lock *)
(* is granted in the order of swaps.                                         *)

CONSTANTS Procs, None                            \* those of CLHLock
VARIABLES Tail_, locked, MyNode, MyPred, asked   \* its variables
VARIABLE at                                      \* and where each of its threads is

Clh == INSTANCE CLHLock WITH pc <- at

\* The node a thread will use next; in "take" it is about to take it over.
own(p) == IF at[p] = "take" THEN MyPred[p] ELSE MyNode[p]

\* The node whose flag lets the first in line in.
Front == IF asked = <<>> THEN Tail_ ELSE MyPred[asked[1]]

\* Who waits or holds the lock is in line, once; only the first holds it.
InLine ==
  /\ asked \in Seq(Procs)
  /\ \A i, j \in 1 .. Len(asked) : asked[i] = asked[j] => i = j
  /\ \A i \in 1 .. Len(asked) : at[asked[i]] \in {"spin", "cs"}
  /\ \A p \in Procs : at[p] \in {"spin", "cs"} => \E i \in 1 .. Len(asked) : asked[i] = p
  /\ \A p \in Procs : at[p] = "cs" => asked # <<>> /\ asked[1] = p

\* Each in line looks at the node of the one before it; Tail is the last one's.
Chain ==
  /\ \A i \in 1 .. Len(asked) : i > 1 => MyPred[asked[i]] = MyNode[asked[i - 1]]
  /\ asked # <<>> => Tail_ = MyNode[asked[Len(asked)]]

\* Each node has one owner, but for the front node, which has none.
OneOwner ==
  /\ \A p, q \in Procs : own(p) = own(q) => p = q
  /\ \A p \in Procs : own(p) # Front

\* The front node is clear; those of the threads that ask are set.
Flags ==
  /\ ~locked[Front]
  /\ \A p \in Procs : at[p] \in {"swap", "spin", "cs"} => locked[MyNode[p]]

\* The inductive invariant.
LockIInv == Clh!TypeOK /\ InLine /\ Chain /\ OneOwner /\ Flags

-----------------------------------------------------------------------------
(* Its inductive invariant *)

\* A line is empty or has a length, and threads at its places.
LEMMA LineFacts ==
  ASSUME NEW s \in Seq(Procs)
  PROVE  /\ Len(s) \in Nat /\ (s = <<>> <=> Len(s) = 0)
         /\ \A i \in 1 .. Len(s) : s[i] \in Procs
BY LenProperties, EmptySeq, ElementOfSeq

\* At first every thread has its own node and Tail the extra one.
LEMMA LockInitIInv == Clh!ProcsAssumption /\ Clh!Init => LockIInv
<1> SUFFICES ASSUME Clh!ProcsAssumption, Clh!Init PROVE LockIInv
  OBVIOUS
<1> USE DEF Clh!ProcsAssumption, Clh!Init, Clh!Nodes
<1>1. Clh!TypeOK
  BY DEF Clh!TypeOK
<1>2. InLine
  BY DEF InLine
<1>3. Chain
  BY DEF Chain
<1>4. OneOwner
  BY DEF OneOwner, own, Front
<1>5. Flags
  BY DEF Flags, Front
<1> QED BY <1>1, <1>2, <1>3, <1>4, <1>5 DEF LockIInv

\* Who is not in line may raise the flag of its node, which nobody looks at.
LEMMA SetLockedIInv == ASSUME LockIInv, NEW p \in Procs, Clh!SetLocked(p) PROVE LockIInv'
<1> USE DEF LockIInv, Clh!SetLocked
<1>1. Clh!TypeOK'
  BY DEF Clh!TypeOK
<1>2. InLine'
  BY DEF InLine, Clh!TypeOK
<1>3. Chain'
  BY DEF Chain
<1>4. Front' = Front /\ \A q \in Procs : own(q)' = own(q)
  BY DEF Front, own, Clh!TypeOK
<1>5. OneOwner'
  BY <1>4 DEF OneOwner
<1>6. Flags'
  <2>1. MyNode[p] # Front
    BY DEF OneOwner, own
  <2>2. Front \in Clh!Nodes /\ MyNode[p] \in Clh!Nodes
    BY DEF Front, Clh!TypeOK, InLine
  <2> QED BY <1>4, <2>1, <2>2 DEF Flags, Clh!TypeOK
<1> QED BY <1>1, <1>2, <1>3, <1>5, <1>6

\* The line with the thread that swaps at its end.
LEMMA LineGrows ==
  ASSUME LockIInv, NEW p \in Procs, Clh!Swap(p)
  PROVE  /\ asked' \in Seq(Procs) /\ asked' # <<>> /\ Len(asked) \in Nat
         /\ Len(asked') = Len(asked) + 1 /\ asked'[Len(asked) + 1] = p
         /\ \A i \in 1 .. Len(asked) : asked'[i] = asked[i] /\ asked[i] \in Procs /\ asked[i] # p
         /\ asked = <<>> <=> Len(asked) = 0
<1>1. asked \in Seq(Procs) /\ asked' = Append(asked, p)
  BY DEF LockIInv, InLine, Clh!Swap
<1>2. \A i \in 1 .. Len(asked) : asked[i] \in Procs /\ asked[i] # p
  BY <1>1, ElementOfSeq DEF LockIInv, InLine, Clh!Swap
<1> QED BY <1>1, <1>2, AppendProperties, EmptySeq, LenProperties

\* A thread that swaps gets the node of the last in line, or the front node.
LEMMA SwapIInv == ASSUME LockIInv, NEW p \in Procs, Clh!Swap(p) PROVE LockIInv'
<1> USE DEF LockIInv, Clh!Swap
<1>1. Clh!TypeOK'
  BY DEF Clh!TypeOK
<1>2. /\ asked' \in Seq(Procs) /\ asked' # <<>> /\ Len(asked) \in Nat
      /\ Len(asked') = Len(asked) + 1 /\ asked'[Len(asked) + 1] = p
      /\ \A i \in 1 .. Len(asked) : asked'[i] = asked[i] /\ asked[i] \in Procs /\ asked[i] # p
      /\ asked = <<>> <=> Len(asked) = 0
  BY LineGrows
<1>3. /\ \A q \in Procs : at'[q] = IF q = p THEN "spin" ELSE at[q]
      /\ \A q \in Procs : MyPred'[q] = IF q = p THEN Tail_ ELSE MyPred[q]
      /\ Tail_' = MyNode[p] /\ MyNode' = MyNode /\ locked' = locked
  BY DEF Clh!TypeOK
<1>4. InLine'
  BY <1>2, <1>3 DEF InLine
<1>5. Chain'
  BY <1>2, <1>3 DEF Chain
<1>6. Front' = Front
  <2>1. CASE asked = <<>>
    BY <2>1, <1>2, <1>3 DEF Front
  <2>2. CASE asked # <<>>
    BY <2>2, <1>2, <1>3 DEF Front
  <2> QED BY <2>1, <2>2
<1>7. \A q \in Procs : own(q)' = own(q)
  BY <1>3 DEF own
<1>8. OneOwner'
  BY <1>6, <1>7 DEF OneOwner
<1>9. Flags'
  BY <1>3, <1>6 DEF Flags
<1> QED BY <1>1, <1>4, <1>5, <1>8, <1>9

\* Only the first in line sees a clear flag.
LEMMA SpinIInv == ASSUME LockIInv, NEW p \in Procs, Clh!Spin(p) PROVE LockIInv'
<1> USE DEF LockIInv, Clh!Spin
<1>1. Clh!TypeOK'
  BY DEF Clh!TypeOK
<1>2. \A q \in Procs : q # p => at'[q] = at[q]
  BY DEF Clh!TypeOK
<1>3. at'[p] = IF locked[MyPred[p]] THEN "spin" ELSE "cs"
  BY DEF Clh!TypeOK
<1>4. ~locked[MyPred[p]] => asked # <<>> /\ asked[1] = p
  <2> SUFFICES ASSUME ~locked[MyPred[p]] PROVE asked # <<>> /\ asked[1] = p
    OBVIOUS
  <2>1. PICK i \in 1 .. Len(asked) : asked[i] = p
    BY DEF InLine
  <2>2. asked \in Seq(Procs) /\ Len(asked) \in Nat
    BY LenProperties DEF InLine
  <2>3. ASSUME i > 1 PROVE FALSE
    <3>1. MyPred[p] = MyNode[asked[i - 1]] /\ i - 1 \in 1 .. Len(asked)
      BY <2>1, <2>2, <2>3 DEF Chain
    <3>2. asked[i - 1] \in Procs /\ at[asked[i - 1]] \in {"spin", "cs"}
      BY <3>1, <2>2, ElementOfSeq DEF InLine
    <3> QED BY <3>1, <3>2 DEF Flags
  <2> QED BY <2>1, <2>2, <2>3, EmptySeq
<1>5. InLine'
  BY <1>2, <1>3, <1>4, ElementOfSeq DEF InLine
<1>6. Chain'
  BY DEF Chain
<1>7. Front' = Front /\ \A q \in Procs : own(q)' = own(q)
  BY <1>2, <1>3 DEF Front, own
<1>8. OneOwner' /\ Flags'
  BY <1>2, <1>3, <1>7 DEF OneOwner, Flags
<1> QED BY <1>1, <1>5, <1>6, <1>8

\* The holder clears its node, which becomes the front one, and leaves the line.
LEMMA ClearLockedIInv == ASSUME LockIInv, NEW p \in Procs, Clh!ClearLocked(p) PROVE LockIInv'
<1> USE DEF LockIInv, Clh!ClearLocked
<1>1. Clh!TypeOK'
  BY DEF Clh!TypeOK
<1>2. asked \in Seq(Procs) /\ asked # <<>> /\ asked[1] = p /\ Len(asked) \in Nat \ {0}
  BY EmptySeq DEF InLine
<1>3. /\ asked' \in Seq(Procs) /\ Len(asked') = Len(asked) - 1 /\ Len(asked') \in Nat
      /\ asked' = <<>> <=> Len(asked') = 0
      /\ \A i \in 1 .. Len(asked') : asked'[i] = asked[i + 1] /\ asked'[i] \in Procs
  <2>1. asked' = Tail(asked)
    OBVIOUS
  <2>2. /\ Tail(asked) \in Seq(Procs) /\ Len(Tail(asked)) = Len(asked) - 1
        /\ \A i \in 1 .. Len(Tail(asked)) : Tail(asked)[i] = asked[i + 1]
    BY <1>2, HeadTailProperties
  <2>3. /\ Len(Tail(asked)) \in Nat /\ (Tail(asked) = <<>> <=> Len(Tail(asked)) = 0)
        /\ \A i \in 1 .. Len(Tail(asked)) : Tail(asked)[i] \in Procs
    BY <2>2, LineFacts
  <2> QED BY <2>1, <2>2, <2>3
<1>4. \A i \in 1 .. Len(asked') : asked'[i] # p
  BY <1>2, <1>3 DEF InLine
<1>5. /\ \A q \in Procs : at'[q] = IF q = p THEN "take" ELSE at[q]
      /\ \A n \in Clh!Nodes : locked'[n] = IF n = MyNode[p] THEN FALSE ELSE locked[n]
      /\ MyPred' = MyPred /\ MyNode' = MyNode /\ Tail_' = Tail_
  BY DEF Clh!TypeOK
<1>6. InLine'
  <2>1. \A i, j \in 1 .. Len(asked') : asked'[i] = asked'[j] => i = j
    BY <1>2, <1>3 DEF InLine
  <2>2. \A i \in 1 .. Len(asked') : at'[asked'[i]] \in {"spin", "cs"}
    BY <1>2, <1>3, <1>4, <1>5 DEF InLine
  <2>3. ASSUME NEW q \in Procs, at'[q] \in {"spin", "cs"}
        PROVE  \E i \in 1 .. Len(asked') : asked'[i] = q
    <3>1. PICK i \in 1 .. Len(asked) : asked[i] = q
      BY <2>3, <1>5 DEF InLine
    <3>2. i # 1
      BY <3>1, <2>3, <1>2, <1>5
    <3>3. i - 1 \in 1 .. Len(asked') /\ asked'[i - 1] = q
      BY <3>1, <3>2, <1>2, <1>3
    <3> QED BY <3>3
  <2>4. \A q \in Procs : at'[q] # "cs"
    BY <1>2, <1>5 DEF InLine
  <2> QED BY <1>3, <2>1, <2>2, <2>3, <2>4 DEF InLine
<1>7. Chain'
  <2>1. \A i \in 1 .. Len(asked') : i > 1 => MyPred'[asked'[i]] = MyNode'[asked'[i - 1]]
    BY <1>2, <1>3, <1>5 DEF Chain
  <2>2. asked' # <<>> => Tail_' = MyNode'[asked'[Len(asked')]]
    BY <1>2, <1>3, <1>5 DEF Chain
  <2> QED BY <2>1, <2>2 DEF Chain
<1>8. Front = MyPred[p] /\ Front' = MyNode[p]
  <2>1. CASE asked' = <<>>
    BY <2>1, <1>2, <1>3, <1>5 DEF Front, Chain
  <2>2. CASE asked' # <<>>
    BY <2>2, <1>2, <1>3, <1>5 DEF Front, Chain
  <2> QED BY <2>1, <2>2
<1>9. \A q \in Procs : own(q)' = IF q = p THEN Front ELSE own(q)
  BY <1>5, <1>8 DEF own
<1>10. own(p) = MyNode[p]
  BY DEF own
<1>11. OneOwner'
  BY <1>8, <1>9, <1>10 DEF OneOwner
<1>12. Flags'
  <2>1. MyNode[p] \in Clh!Nodes /\ \A q \in Procs : MyNode[q] \in Clh!Nodes
    BY DEF Clh!TypeOK
  <2>2. ASSUME NEW q \in Procs, at'[q] \in {"swap", "spin", "cs"}
        PROVE  locked'[MyNode'[q]]
    <3>1. q # p /\ at[q] \in {"swap", "spin", "cs"}
      BY <2>2, <1>5
    <3>2. MyNode[q] # MyNode[p]
      BY <3>1, <1>10 DEF OneOwner, own
    <3> QED BY <3>1, <3>2, <2>1, <1>5 DEF Flags
  <2> QED BY <2>1, <2>2, <1>5, <1>8 DEF Flags
<1> QED BY <1>1, <1>6, <1>7, <1>11, <1>12

\* The node of the predecessor is taken over.
LEMMA TakeNodeIInv == ASSUME LockIInv, NEW p \in Procs, Clh!TakeNode(p) PROVE LockIInv'
<1> USE DEF LockIInv, Clh!TakeNode
<1>1. Clh!TypeOK'
  BY DEF Clh!TypeOK
<1>2. /\ \A q \in Procs : at'[q] = IF q = p THEN "out" ELSE at[q]
      /\ \A q \in Procs : MyNode'[q] = IF q = p THEN MyPred[p] ELSE MyNode[q]
      /\ MyPred' = MyPred /\ asked' = asked /\ Tail_' = Tail_ /\ locked' = locked
  BY DEF Clh!TypeOK
<1>3. asked \in Seq(Procs) /\ Len(asked) \in Nat
      /\ \A i \in 1 .. Len(asked) : asked[i] \in Procs /\ asked[i] # p
  BY ElementOfSeq, LenProperties DEF InLine
<1>4. InLine'
  BY <1>2, <1>3 DEF InLine
<1>5. Chain'
  BY <1>2, <1>3, EmptySeq DEF Chain
<1>6. Front' = Front /\ \A q \in Procs : own(q)' = own(q)
  BY <1>2 DEF Front, own
<1>7. OneOwner' /\ Flags'
  BY <1>2, <1>6 DEF OneOwner, Flags
<1> QED BY <1>1, <1>4, <1>5, <1>7

\* Every step keeps the invariant.
LEMMA LockStepIInv == ASSUME LockIInv, [Clh!Next]_(Clh!vars) PROVE LockIInv'
<1>1. CASE Clh!Next
  BY <1>1, SetLockedIInv, SwapIInv, SpinIInv, ClearLockedIInv, TakeNodeIInv DEF Clh!Next, Clh!Step
<1>2. CASE UNCHANGED Clh!vars
  BY <1>2 DEF Clh!vars, LockIInv, Clh!TypeOK, InLine, Chain, OneOwner, Flags, own, Front
<1> QED BY <1>1, <1>2

-----------------------------------------------------------------------------
(* What the lock guarantees *)

\* In every reachable state the invariant holds.
LEMMA LockInvariant == ASSUME Clh!ProcsAssumption PROVE Clh!Spec => []LockIInv
<1>1. Clh!Init => LockIInv
  BY LockInitIInv
<1>2. LockIInv /\ [Clh!Next]_(Clh!vars) => LockIInv'
  BY LockStepIInv
<1> QED BY <1>1, <1>2, PTL DEF Clh!Spec

\* The nodes and the places of the threads have their types.
THEOREM LockTypes == ASSUME Clh!ProcsAssumption PROVE Clh!Spec => []Clh!TypeOK
<1>1. LockIInv => Clh!TypeOK
  BY DEF LockIInv
<1> QED BY <1>1, LockInvariant, PTL

\* No two threads are between spin_lock and spin_unlock.
THEOREM Exclusion == ASSUME Clh!ProcsAssumption PROVE Clh!Spec => []Clh!Mutex
<1>1. LockIInv => Clh!Mutex
  BY DEF LockIInv, InLine, Clh!Mutex
<1> QED BY <1>1, LockInvariant, PTL

\* The node a thread will use is no other thread's, and nobody waits at it.
THEOREM NodesPrivate == ASSUME Clh!ProcsAssumption PROVE Clh!Spec => []Clh!PrivateNode
<1>1. ASSUME LockIInv PROVE Clh!PrivateNode
  <2> USE <1>1 DEF LockIInv
  <2>1. ASSUME NEW p \in Procs, NEW q \in Procs \ {p}
        PROVE  MyNode[p] # MyNode[q] \/ at[p] = "take" \/ at[q] = "take"
    BY DEF OneOwner, own
  <2>2. ASSUME NEW p \in Procs, at[p] \in {"out", "swap"}
        PROVE  Tail_ # MyNode[p]
    <3>1. CASE asked = <<>>
      BY <3>1, <2>2 DEF OneOwner, own, Front
    <3>2. CASE asked # <<>>
      <4>1. Len(asked) \in 1 .. Len(asked) /\ asked[Len(asked)] \in Procs
        BY <3>2, EmptySeq, ElementOfSeq DEF InLine
      <4> QED BY <3>2, <4>1, <2>2 DEF OneOwner, own, Chain, InLine
    <3> QED BY <3>1, <3>2
  <2>3. ASSUME NEW p \in Procs, at[p] \in {"out", "swap"},
               NEW q \in Procs, at[q] = "spin"
        PROVE  MyPred[q] # MyNode[p]
    <3>1. PICK i \in 1 .. Len(asked) : asked[i] = q
      BY <2>3 DEF InLine
    <3>2. Len(asked) \in Nat /\ asked # <<>>
      BY <3>1, EmptySeq, LenProperties DEF InLine
    <3>3. CASE i = 1
      BY <3>1, <3>2, <3>3, <2>3 DEF OneOwner, own, Front
    <3>4. CASE i > 1
      <4>1. i - 1 \in 1 .. Len(asked) /\ asked[i - 1] \in Procs
        BY <3>1, <3>2, <3>4, ElementOfSeq DEF InLine
      <4> QED BY <3>1, <3>4, <4>1, <2>3 DEF OneOwner, own, Chain, InLine
    <3> QED BY <3>1, <3>2, <3>3, <3>4
  <2> QED BY <2>1, <2>2, <2>3 DEF Clh!PrivateNode
<1> QED BY <1>1, LockInvariant, PTL

\* CLHSpinLock, together: one thread holds it, and spins on a node that is its alone.
THEOREM LockIsSafe == ASSUME Clh!ProcsAssumption PROVE Clh!Spec => []Clh!SpinningIsSafe
<1>1. Clh!PrivateNode /\ Clh!Mutex => Clh!SpinningIsSafe
  BY DEF Clh!SpinningIsSafe
<1> QED BY <1>1, Exclusion, NodesPrivate, PTL

\* "CLH spin-lock is a FIFO lock": every behaviour is one of a lock that is granted
\* in the order of the swaps.
THEOREM LockInOrder == ASSUME Clh!ProcsAssumption PROVE Clh!Spec => Clh!IsFifoLock
<1> DEFINE held == IF asked # <<>> /\ at[Head(asked)] = "cs" THEN Head(asked) ELSE None
<1>1. Clh!Init => Clh!Lock!Init
  BY DEF Clh!Init, Clh!Lock!Init
<1>2. ASSUME LockIInv, LockIInv', [Clh!Next]_(Clh!vars) PROVE [Clh!Lock!Next]_(Clh!Lock!vars)
  <2> USE <1>2
  <2>1. asked # <<>> => Head(asked) = asked[1] /\ Head(asked) \in Procs
    BY HeadTailProperties DEF LockIInv, InLine
  <2>2. asked' # <<>> => Head(asked') = asked'[1]
    BY DEF LockIInv, InLine
  <2>3. ASSUME NEW p \in Procs, Clh!SetLocked(p) PROVE UNCHANGED Clh!Lock!vars
    BY <2>1, <2>3 DEF Clh!SetLocked, Clh!Lock!vars, LockIInv, Clh!TypeOK
  <2>4. ASSUME NEW p \in Procs, Clh!Swap(p) PROVE Clh!Lock!Request(p)
    <3>1. \A i \in DOMAIN asked : asked[i] # p
      BY <2>4, LineGrows, LenProperties DEF LockIInv, InLine
    <3>2. asked' = Append(asked, p)
      BY <2>4 DEF Clh!Swap
    <3>3. held' = held
      <4>1. CASE asked = <<>>
        <5>1. asked' # <<>> /\ asked'[1] = p /\ at'[p] = "spin"
          BY <4>1, <2>4, LineGrows DEF Clh!Swap, LockIInv, Clh!TypeOK
        <5> QED BY <4>1, <5>1, <2>2
      <4>2. CASE asked # <<>>
        <5>1. asked' # <<>> /\ asked'[1] = asked[1] /\ asked[1] # p
          BY <4>2, <2>4, LineGrows
        <5> QED BY <4>2, <5>1, <2>1, <2>2, <2>4 DEF Clh!Swap, LockIInv, Clh!TypeOK
      <4> QED BY <4>1, <4>2
    <3> QED BY <3>1, <3>2, <3>3 DEF Clh!Lock!Request
  <2>5. ASSUME NEW p \in Procs, Clh!Spin(p) PROVE Clh!Lock!Acquire \/ UNCHANGED Clh!Lock!vars
    <3>1. CASE locked[MyPred[p]]
      BY <3>1, <2>5 DEF Clh!Spin, Clh!Lock!vars, LockIInv, Clh!TypeOK
    <3>2. CASE ~locked[MyPred[p]]
      <4>1. at[p] = "spin" /\ at'[p] = "cs" /\ asked' = asked
        BY <3>2, <2>5 DEF Clh!Spin, LockIInv, Clh!TypeOK
      <4>2. asked # <<>> /\ asked[1] = p
        BY <4>1 DEF LockIInv, InLine
      <4> QED BY <4>1, <4>2, <2>1 DEF Clh!Lock!Acquire
    <3> QED BY <3>1, <3>2
  <2>6. ASSUME NEW p \in Procs, Clh!ClearLocked(p) PROVE Clh!Lock!Release
    <3>1. asked # <<>> /\ asked[1] = p /\ asked' = Tail(asked)
      BY <2>6 DEF Clh!ClearLocked, LockIInv, InLine
    <3>2. held = p /\ p # None
      BY <3>1, <2>1, <2>6 DEF Clh!ClearLocked, Clh!ProcsAssumption
    <3>3. \A q \in Procs : at'[q] # "cs"
      BY <3>1, <2>6 DEF Clh!ClearLocked, LockIInv, InLine, Clh!TypeOK
    <3>4. held' = None
      BY <3>3, <2>2, HeadTailProperties DEF LockIInv, InLine
    <3> QED BY <3>1, <3>2, <3>4 DEF Clh!Lock!Release
  <2>7. ASSUME NEW p \in Procs, Clh!TakeNode(p) PROVE UNCHANGED Clh!Lock!vars
    BY <2>1, <2>7 DEF Clh!TakeNode, Clh!Lock!vars, LockIInv, Clh!TypeOK
  <2>8. CASE UNCHANGED Clh!vars
    BY <2>8 DEF Clh!vars, Clh!Lock!vars
  <2> QED BY <2>3, <2>4, <2>5, <2>6, <2>7, <2>8 DEF Clh!Next, Clh!Step, Clh!Lock!Next
<1> QED BY <1>1, <1>2, LockInvariant, PTL DEF Clh!Spec, Clh!IsFifoLock, Clh!Lock!Spec

-----------------------------------------------------------------------------
(* The spinning barrier: loops are kept apart, and two counters are enough.  *)

CONSTANTS MaxWorkers, Sizes, MaxLoops            \* those of SpinBarrier
VARIABLES _barrier, barArray, B, nw, loops, inbox, w, arrived, left  \* its variables
VARIABLE place                                   \* and where each of its threads is

Bar == INSTANCE SpinBarrier WITH pc <- place

\* All loops have the same number of workers.  Otherwise both theorems are false:
\* barrierSetup for fewer may overtake a worker that has counted and not yet compared.
OneSize == Bar!SizesAssumption /\ \E n \in 1 .. MaxWorkers : Sizes = {n}

size == CHOOSE n \in 1 .. MaxWorkers : Sizes = {n}

Meeting == Bar!Party(size)

\* The counter of the current loop, as the caller takes them in turn.
cur == IF place[Bar!Caller] = "toggle" THEN ~barArray[size] ELSE barArray[size]

\* A thread that is in the current loop, and one that has chosen its counter.
Current(t) == w[t].loop = loops
Toggled(t) == Current(t) /\ place[t] # "toggle"

Outside(t) == place[t] = (IF t = Bar!Caller THEN "setup" ELSE "idle")

\* Between its count and the end of doBarrier, and not the last.
Waits(t) == place[t] = "spin" \/ (place[t] = "compare" /\ w[t].c # size + 1)

\* The last thread, before it lets the others go.
IsLast(t) == place[t] = "reset" \/ (place[t] = "compare" /\ w[t].c = size + 1)

\* Nothing has been set up, and nobody works.
Fresh ==
  /\ loops = 0 /\ _barrier = 0 /\ nw = 0
  /\ \A t \in Bar!Threads : Outside(t) /\ left[t] = 0
  /\ \A t \in Bar!Threads : w[t] = [bar |-> FALSE, c |-> 0, loop |-> 0]
  /\ \A i \in Bar!Workers : inbox[i] = <<>>

\* The types of what the steps change.
Shapes ==
  /\ loops \in 0 .. MaxLoops
  /\ barArray \in [0 .. MaxWorkers -> BOOLEAN]
  /\ B \in [BOOLEAN -> Nat]
  /\ inbox \in [Bar!Workers -> Seq(Nat)]
  /\ place \in [Bar!Threads -> {"setup", "idle", "toggle", "count", "compare", "reset", "spin"}]
  /\ w \in [Bar!Threads -> [bar : BOOLEAN, c : Nat, loop : Nat]]
  /\ arrived \in [1 .. MaxLoops -> SUBSET Bar!Threads]
  /\ \A k \in 1 .. MaxLoops : k > loops => arrived[k] = {}
  /\ left \in [Bar!Threads -> 0 .. loops]

\* A thread in the current loop has no wake-up; one that has not taken it has left the
\* barrier of the loop before, or is about to and is not the last there.
Places ==
  /\ Current(Bar!Caller)
  /\ \A i \in Bar!Workers : i < size =>
       \/ Current(i) /\ inbox[i] = <<>>
       \/ /\ w[i].loop + 1 = loops /\ inbox[i] = <<loops>>
          /\ Outside(i) \/ Waits(i)
  /\ \A i \in Bar!Workers : i >= size => Outside(i) /\ inbox[i] = <<>> /\ left[i] = 0

\* Who has toggled uses the current counter, who has not the other one.
Counters ==
  \A t \in Meeting :
    /\ barArray[Bar!tid(t)] = (IF Toggled(t) THEN cur ELSE ~cur)
    /\ place[t] \in {"count", "compare", "reset", "spin"} => w[t].bar = barArray[Bar!tid(t)]

Came(t) == Current(t) /\ place[t] \notin {"toggle", "count"}

\* Not all have come; the last one has; it has let them go.
Gathering ==
  /\ B[cur] = Cardinality(arrived[loops]) /\ arrived[loops] # Meeting
  /\ \A t \in Meeting : Came(t) => Waits(t)
Complete ==
  /\ B[cur] = size + 1 /\ arrived[loops] = Meeting
  /\ \E l \in Meeting : IsLast(l) /\ \A t \in Meeting \ {l} : Waits(t)
Open ==
  /\ B[cur] = 0 /\ arrived[loops] = Meeting
  /\ \A t \in Meeting : Waits(t) \/ Outside(t)

Running ==
  /\ loops > 0 /\ _barrier = size + 1 /\ nw = size
  /\ Places
  /\ Counters
  /\ arrived[loops] = {t \in Meeting : Came(t)}
  /\ B[~cur] = 0
  /\ Gathering \/ Complete \/ Open
  /\ \A t \in Meeting : left[t] = loops => Came(t) /\ Outside(t)

\* The inductive invariant.
BarIInv == Shapes /\ (Fresh \/ Running)

-----------------------------------------------------------------------------
(* Its inductive invariant *)

\* Who meets.
LEMMA SizeFacts ==
  ASSUME OneSize
  PROVE  /\ size \in 1 .. MaxWorkers /\ Sizes = {size} /\ MaxWorkers \in Nat \ {0}
         /\ Bar!Caller \in Meeting /\ Bar!Caller \notin Bar!Workers
         /\ Meeting = (0 .. size - 1) \cup {Bar!Caller}
         /\ Meeting \subseteq Bar!Threads /\ IsFiniteSet(Meeting) /\ Cardinality(Meeting) = size + 1
         /\ \A i \in Bar!Workers : i \in Meeting <=> i < size
         /\ MaxLoops \in Nat
<1>1. size \in 1 .. MaxWorkers /\ Sizes = {size} /\ MaxWorkers \in Nat \ {0} /\ MaxLoops \in Nat
  BY DEF OneSize, size, Bar!SizesAssumption
<1>2. /\ Bar!Caller \in Meeting /\ Bar!Caller \notin Bar!Workers
      /\ Meeting = (0 .. size - 1) \cup {Bar!Caller} /\ Meeting \subseteq Bar!Threads
      /\ \A i \in Bar!Workers : i \in Meeting <=> i < size
  BY <1>1 DEF Meeting, Bar!Party, Bar!Caller, Bar!Workers, Bar!Threads
<1>3. IsFiniteSet(0 .. size - 1) /\ Cardinality(0 .. size - 1) = size
  BY <1>1, FS_Interval
<1>4. Bar!Caller \notin 0 .. size - 1
  BY <1>1 DEF Bar!Caller
<1>5. IsFiniteSet(Meeting) /\ Cardinality(Meeting) = size + 1
  BY <1>2, <1>3, <1>4, FS_AddElement
<1> QED BY <1>1, <1>2, <1>5

\* Once all have counted and only then the counter is the number of threads.
LEMMA AllCounted ==
  ASSUME OneSize, NEW S \in SUBSET Meeting
  PROVE  /\ Cardinality(S) \in 0 .. size + 1
         /\ Cardinality(S) = size + 1 <=> S = Meeting
         /\ Cardinality(S) = 0 <=> S = {}
         /\ \A t \in Meeting : t \notin S => Cardinality(S \cup {t}) = Cardinality(S) + 1
<1>1. IsFiniteSet(S) /\ Cardinality(S) <= size + 1 /\ (Cardinality(S) = size + 1 => S = Meeting)
  BY SizeFacts, FS_Subset
<1>2. Cardinality(S) \in Nat
  BY <1>1, FS_CardinalityType
<1>3. Cardinality(S) = 0 <=> S = {}
  BY <1>1, FS_EmptySet
<1>4. \A t \in Meeting : t \notin S => Cardinality(S \cup {t}) = Cardinality(S) + 1
  BY <1>1, FS_AddElement
<1> QED BY <1>1, <1>2, <1>3, <1>4, SizeFacts

\* Nothing has been set up at first.
LEMMA BarInitIInv == ASSUME OneSize, Bar!Init PROVE BarIInv
<1> USE SizeFacts DEF Bar!Init
<1>1. B \in [BOOLEAN -> Nat]
  <2>1. {0, MaxWorkers + 2} \subseteq Nat
    OBVIOUS
  <2> QED BY <2>1
<1>2. Shapes
  <2>1. loops \in 0 .. MaxLoops /\ 0 \in 0 .. loops
    <3>1. MaxLoops \in Nat
      BY SizeFacts
    <3> QED BY <3>1
  <2>2. inbox \in [Bar!Workers -> Seq(Nat)]
    OBVIOUS
  <2>3. w \in [Bar!Threads -> [bar : BOOLEAN, c : Nat, loop : Nat]]
    OBVIOUS
  <2>4. arrived \in [1 .. MaxLoops -> SUBSET Bar!Threads] /\ left \in [Bar!Threads -> 0 .. loops]
    BY <2>1
  <2> QED BY <1>1, <2>1, <2>2, <2>3, <2>4 DEF Shapes
<1>3. Fresh
  BY DEF Fresh, Outside, Bar!Threads
<1> QED BY <1>2, <1>3 DEF BarIInv

\* Size and meeting do not change.
LEMMA SameMeeting == size' = size /\ Meeting' = Meeting /\ Bar!Caller' = Bar!Caller
<1>1. size' = size /\ Bar!Caller' = Bar!Caller
  BY DEF size, Bar!Caller
<1>2. Meeting' = Meeting
  BY <1>1 DEF Meeting, Bar!Party, Bar!Workers
<1> QED BY <1>1, <1>2

\* A step of another thread.
LEMMA Unmoved ==
  ASSUME NEW u, place'[u] = place[u], w'[u] = w[u], loops' = loops
  PROVE  /\ Current(u)' <=> Current(u)
         /\ Toggled(u)' <=> Toggled(u)
         /\ Outside(u)' <=> Outside(u)
         /\ Waits(u)' <=> Waits(u)
         /\ IsLast(u)' <=> IsLast(u)
         /\ Came(u)' <=> Came(u)
BY SameMeeting DEF Current, Toggled, Outside, Waits, IsLast, Came

\* Who works or is in the barrier is one of those who meet.
LEMMA InMeeting ==
  ASSUME OneSize, BarIInv, NEW t \in Bar!Threads,
         place[t] \in {"toggle", "count", "compare", "reset", "spin"}
  PROVE  /\ Running /\ t \in Meeting
         /\ place[t] \in {"toggle", "count", "reset"} => Current(t)
         /\ Bar!tid(t) \in 0 .. size /\ (Bar!tid(t) = size <=> t = Bar!Caller)
         /\ \A u \in Meeting : Bar!tid(u) \in 0 .. size /\ (Bar!tid(u) = Bar!tid(t) => u = t)
<1>1. ~Outside(t)
  BY DEF Outside
<1>2. Running
  BY <1>1 DEF BarIInv, Fresh
<1>3. t \in Meeting
  <2>1. t \in Bar!Workers => t < size
    BY <1>1, <1>2, SizeFacts DEF Running, Places, Bar!Workers
  <2> QED BY <2>1, SizeFacts DEF Bar!Threads
<1>4. place[t] \in {"toggle", "count", "reset"} => Current(t)
  <2>1. CASE t = Bar!Caller
    BY <1>2, <2>1 DEF Running, Places
  <2>2. CASE t # Bar!Caller
    <3>1. t \in Bar!Workers /\ t < size
      BY <1>3, <2>2, SizeFacts DEF Bar!Threads
    <3> QED BY <1>1, <1>2, <3>1 DEF Running, Places, Waits
  <2> QED BY <2>1, <2>2
<1>5. nw = size
  BY <1>2 DEF Running
<1>6. \A u \in Meeting : Bar!tid(u) \in 0 .. size /\ (Bar!tid(u) = size <=> u = Bar!Caller)
                        /\ (u # Bar!Caller => Bar!tid(u) = u)
  BY <1>5, SizeFacts DEF Bar!tid
<1> QED BY <1>2, <1>3, <1>4, <1>6

\* A worker takes its wake-up.
LEMMA WorkIInv == ASSUME OneSize, BarIInv, NEW i \in Bar!Workers, Bar!Work(i) PROVE BarIInv'
<1> USE SizeFacts, SameMeeting
<1>1. /\ place[i] = "idle" /\ inbox[i] # <<>> /\ i # Bar!Caller /\ i \in Bar!Threads /\ Shapes
      /\ UNCHANGED <<_barrier, barArray, B, nw, loops, arrived, left>>
  BY DEF Bar!Work, Bar!Threads, BarIInv
<1>2. Running /\ i < size /\ w[i].loop + 1 = loops /\ inbox[i] = <<loops>> /\ i \in Meeting
  BY <1>1 DEF BarIInv, Fresh, Running, Places, Bar!Workers
<1>3. /\ place'[i] = "toggle" /\ w'[i].loop = loops /\ inbox'[i] = <<>>
      /\ \A u \in Bar!Threads \ {i} : place'[u] = place[u] /\ w'[u] = w[u]
      /\ \A u \in Bar!Workers \ {i} : inbox'[u] = inbox[u]
  BY <1>1, <1>2 DEF Bar!Work, Shapes
<1>4. Shapes'
  <2>1. Head(inbox[i]) \in Nat /\ Tail(inbox[i]) \in Seq(Nat)
    BY <1>1, SMTT(30) DEF Shapes
  <2>2. w' \in [Bar!Threads -> [bar : BOOLEAN, c : Nat, loop : Nat]]
    BY <1>1, <2>1, ZenonT(30) DEF Bar!Work, Shapes
  <2>3. inbox' \in [Bar!Workers -> Seq(Nat)]
    BY <1>1, <2>1 DEF Bar!Work, Shapes
  <2>4. place' \in [Bar!Threads -> {"setup", "idle", "toggle", "count", "compare", "reset", "spin"}]
    BY <1>1 DEF Bar!Work, Shapes
  <2> QED BY <1>1, <2>2, <2>3, <2>4 DEF Shapes
<1>5. cur' = cur
  BY <1>1, <1>3 DEF cur, Bar!Threads
<1>6. ~Came(i) /\ ~Came(i)' /\ ~Toggled(i) /\ ~Toggled(i)' /\ Current(i)' /\ loops \in Nat
  BY <1>1, <1>2, <1>3 DEF Came, Toggled, Current, Shapes
<1>7. \A u \in Meeting \ {i} :
        /\ Current(u)' <=> Current(u)
        /\ Toggled(u)' <=> Toggled(u)
        /\ Outside(u)' <=> Outside(u)
        /\ Waits(u)' <=> Waits(u)
        /\ Came(u)' <=> Came(u)
  BY <1>1, <1>3, Unmoved
<1>8. Gathering /\ i \notin arrived[loops]
  BY <1>2, <1>6 DEF Running, Complete, Open
<1>9. Gathering'
  BY <1>1, <1>5, <1>6, <1>7, <1>8 DEF Gathering
<1>10. Places'
  <2>1. \A u \in Bar!Workers \ {i} :
          /\ Current(u)' <=> Current(u)
          /\ Outside(u)' <=> Outside(u)
          /\ Waits(u)' <=> Waits(u)
    BY <1>1, <1>3, Unmoved DEF Bar!Threads
  <2>2. Current(Bar!Caller)'
    BY <1>1, <1>2, <1>7 DEF Running, Places
  <2> QED BY <1>1, <1>2, <1>3, <1>6, <2>1, <2>2 DEF Running, Places
<1>11. Counters'
  <2>1. \A u \in Meeting : Bar!tid(u)' = Bar!tid(u)
    BY <1>1 DEF Bar!tid
  <2> QED BY <1>1, <1>2, <1>3, <1>5, <1>6, <1>7, <2>1 DEF Running, Counters
<1>12. Running'
  <2>1. arrived'[loops'] = {u \in Meeting : Came(u)'}
    BY <1>1, <1>2, <1>6, <1>7 DEF Running
  <2>2. \A u \in Meeting : left'[u] = loops' => Came(u)' /\ Outside(u)'
    BY <1>1, <1>2, <1>6, <1>7 DEF Running
  <2> QED BY <1>1, <1>2, <1>5, <1>9, <1>10, <1>11, <2>1, <2>2 DEF Running
<1> QED BY <1>4, <1>12 DEF BarIInv

\* A step inside doBarrier is one thread's, and nobody else moves.
LEMMA OthersStay ==
  ASSUME OneSize, BarIInv, NEW t \in Bar!Threads, Bar!Step(t)
  PROVE  /\ UNCHANGED <<_barrier, nw, loops, inbox>>
         /\ place[t] \in {"toggle", "count", "compare", "reset", "spin"}
         /\ \A u : Bar!tid(u)' = Bar!tid(u)
         /\ \A u \in Bar!Threads \ {t} :
              /\ place'[u] = place[u] /\ w'[u] = w[u] /\ left'[u] = left[u]
              /\ Current(u)' <=> Current(u)
              /\ Toggled(u)' <=> Toggled(u)
              /\ Outside(u)' <=> Outside(u)
              /\ Waits(u)' <=> Waits(u)
              /\ IsLast(u)' <=> IsLast(u)
              /\ Came(u)' <=> Came(u)
         /\ w'[t].loop = w[t].loop /\ (Current(t)' <=> Current(t))
<1>1. /\ UNCHANGED <<_barrier, nw, loops, inbox>>
      /\ place[t] \in {"toggle", "count", "compare", "reset", "spin"}
      /\ \A u \in Bar!Threads \ {t} : place'[u] = place[u] /\ w'[u] = w[u] /\ left'[u] = left[u]
      /\ w'[t].loop = w[t].loop
  BY DEF Bar!Step, Bar!Toggle, Bar!Count, Bar!Compare, Bar!Reset, Bar!Spin, Bar!Leave,
         BarIInv, Shapes
<1>2. \A u : Bar!tid(u)' = Bar!tid(u)
  BY <1>1, SameMeeting DEF Bar!tid
<1>3. \A u \in Bar!Threads \ {t} :
        /\ Current(u)' <=> Current(u)
        /\ Toggled(u)' <=> Toggled(u)
        /\ Outside(u)' <=> Outside(u)
        /\ Waits(u)' <=> Waits(u)
        /\ IsLast(u)' <=> IsLast(u)
        /\ Came(u)' <=> Came(u)
  BY <1>1, Unmoved
<1>4. Current(t)' <=> Current(t)
  BY <1>1 DEF Current
<1> QED BY <1>1, <1>2, <1>3, <1>4

\* The places stay right when the thread that moves stays in its loop.
LEMMA PlacesKept ==
  ASSUME OneSize, BarIInv, NEW t \in Meeting, Bar!Step(t), Running,
         Current(t) \/ Outside(t)' \/ Waits(t)'
  PROVE  Places'
<1> USE SizeFacts, SameMeeting
<1>1. t \in Bar!Threads
  OBVIOUS
<1>2. Current(Bar!Caller)'
  BY <1>1, OthersStay DEF Running, Places, Bar!Threads
<1>3. \A i \in Bar!Workers : i >= size => Outside(i)' /\ inbox'[i] = <<>> /\ left'[i] = 0
  <2> SUFFICES ASSUME NEW i \in Bar!Workers, i >= size
               PROVE  Outside(i)' /\ inbox'[i] = <<>> /\ left'[i] = 0
    OBVIOUS
  <2>1. i # t /\ i \in Bar!Threads
    BY DEF Bar!Threads, Bar!Workers
  <2> QED BY <1>1, <2>1, OthersStay DEF Running, Places
<1>4. ASSUME NEW i \in Bar!Workers, i < size
      PROVE  \/ Current(i)' /\ inbox'[i] = <<>>
             \/ /\ w'[i].loop + 1 = loops' /\ inbox'[i] = <<loops'>>
                /\ Outside(i)' \/ Waits(i)'
  <2>1. \/ Current(i) /\ inbox[i] = <<>>
        \/ /\ w[i].loop + 1 = loops /\ inbox[i] = <<loops>>
           /\ Outside(i) \/ Waits(i)
    BY <1>4 DEF Running, Places
  <2>2. CASE i = t
    <3>1. w[i].loop + 1 = loops => ~Current(i)
      BY SMTT(30) DEF Current, BarIInv, Shapes
    <3>2. inbox'[i] = inbox[i] /\ loops' = loops /\ w'[i].loop = w[i].loop
          /\ (Current(i)' <=> Current(i))
      BY <1>1, <2>2, OthersStay
    <3> QED BY <2>1, <2>2, <3>1, <3>2
  <2>3. CASE i # t
    BY <1>1, <2>1, <2>3, OthersStay DEF Bar!Threads
  <2> QED BY <2>2, <2>3
<1> QED BY <1>2, <1>3, <1>4 DEF Places

\* The counters stay right when the current one does and the thread that moves keeps to it.
LEMMA CountersKept ==
  ASSUME OneSize, BarIInv, NEW t \in Meeting, Bar!Step(t), Running, cur' = cur,
         place[t] # "toggle", UNCHANGED barArray, Toggled(t)' <=> Toggled(t), w'[t].bar = w[t].bar
  PROVE  Counters'
<1> USE SizeFacts, SameMeeting
<1>1. t \in Bar!Threads /\ place[t] \in {"toggle", "count", "compare", "reset", "spin"}
  BY OthersStay
<1>2. place[t] \in {"count", "compare", "reset", "spin"}
  BY <1>1
<1> QED BY <1>1, <1>2, OthersStay DEF Running, Counters

\* A thread takes the other counter than last time, which is the current one.
LEMMA ToggleIInv == ASSUME OneSize, BarIInv, NEW t \in Bar!Threads, Bar!Toggle(t) PROVE BarIInv'
<1> USE SizeFacts, SameMeeting
<1>1. /\ Bar!Step(t) /\ place[t] = "toggle" /\ Running /\ t \in Meeting /\ Current(t) /\ Shapes
      /\ Bar!tid(t) \in 0 .. size /\ (Bar!tid(t) = size <=> t = Bar!Caller)
      /\ \A u \in Meeting : Bar!tid(u) \in 0 .. size /\ (Bar!tid(u) = Bar!tid(t) => u = t)
  BY InMeeting DEF Bar!Step, Bar!Toggle, BarIInv
<1>2. /\ place'[t] = "count" /\ w'[t].bar = ~barArray[Bar!tid(t)]
      /\ barArray'[Bar!tid(t)] = ~barArray[Bar!tid(t)]
      /\ \A u \in Meeting \ {t} : barArray'[Bar!tid(u)] = barArray[Bar!tid(u)]
      /\ barArray' \in [0 .. MaxWorkers -> BOOLEAN]
      /\ UNCHANGED <<B, loops, arrived, left>>
  BY <1>1, SMTT(30) DEF Bar!Toggle, Shapes
<1>3. ~Toggled(t) /\ Toggled(t)' /\ ~Came(t) /\ ~Came(t)'
  BY <1>1, <1>2 DEF Toggled, Came, Current, Bar!Toggle
<1>4. barArray[Bar!tid(t)] = ~cur /\ cur \in BOOLEAN
  <2>1. barArray[size] \in BOOLEAN
    BY <1>1 DEF Shapes
  <2> QED BY <1>1, <1>3, <2>1 DEF Running, Counters, cur
<1>5. cur' = cur
  <2>1. CASE t = Bar!Caller
    BY <1>1, <1>2, <1>4, <2>1 DEF cur
  <2>2. CASE t # Bar!Caller
    <3>1. Bar!tid(Bar!Caller) = size /\ place'[Bar!Caller] = place[Bar!Caller]
      BY <1>1, <2>2, OthersStay DEF Bar!tid, Running, Bar!Threads
    <3> QED BY <1>2, <2>2, <3>1 DEF cur
  <2> QED BY <2>1, <2>2
<1>6. Gathering'
  <2>1. Gathering
    BY <1>1, <1>3 DEF Running, Complete, Open
  <2> QED BY <1>1, <1>2, <1>3, <1>5, <2>1, OthersStay DEF Gathering
<1>7. Places'
  BY <1>1, PlacesKept
<1>8. Counters'
  <2>1. \A u \in Meeting \ {t} :
          /\ barArray'[Bar!tid(u)'] = (IF Toggled(u)' THEN cur' ELSE ~cur')
          /\ place'[u] \in {"count", "compare", "reset", "spin"} => w'[u].bar = barArray'[Bar!tid(u)']
    BY <1>1, <1>2, <1>5, OthersStay, SMTT(30) DEF Running, Counters
  <2>2. /\ barArray'[Bar!tid(t)'] = cur' /\ w'[t].bar = barArray'[Bar!tid(t)']
    BY <1>1, <1>2, <1>4, <1>5, OthersStay
  <2> QED BY <1>3, <2>1, <2>2 DEF Counters
<1>9. Shapes'
  <2>1. place' \in [Bar!Threads -> {"setup", "idle", "toggle", "count", "compare", "reset", "spin"}]
    BY <1>1 DEF Shapes, Bar!Toggle
  <2>2. w' \in [Bar!Threads -> [bar : BOOLEAN, c : Nat, loop : Nat]]
    <3>1. (~barArray[Bar!tid(t)]) \in BOOLEAN
      OBVIOUS
    <3> DEFINE b == ~barArray[Bar!tid(t)]
    <3>2. w' = [w EXCEPT ![t].bar = b]
      BY DEF Bar!Toggle
    <3> HIDE DEF b
    <3>3. b \in BOOLEAN /\ w \in [Bar!Threads -> [bar : BOOLEAN, c : Nat, loop : Nat]]
      BY <1>1, <3>1 DEF b, Shapes
    <3>4. [w[t] EXCEPT !.bar = b] \in [bar : BOOLEAN, c : Nat, loop : Nat]
      BY <3>3
    <3> QED BY <3>2, <3>3, <3>4
  <2>3. UNCHANGED <<loops, B, inbox, arrived>>
    BY DEF Bar!Toggle
  <2> QED BY <1>1, <1>2, <2>1, <2>2, <2>3 DEF Shapes
<1>10. Running'
  <2>1. arrived'[loops'] = {u \in Meeting : Came(u)'}
    BY <1>1, <1>2, <1>3, OthersStay DEF Running
  <2>2. \A u \in Meeting : left'[u] = loops' => Came(u)' /\ Outside(u)'
    BY <1>1, <1>2, <1>3, OthersStay DEF Running
  <2> QED BY <1>1, <1>2, <1>5, <1>6, <1>7, <1>8, <2>1, <2>2, OthersStay DEF Running
<1> QED BY <1>9, <1>10 DEF BarIInv

\* A thread counts: it comes to the current barrier, and the last one sees all.
LEMMA CountIInv == ASSUME OneSize, BarIInv, NEW t \in Bar!Threads, Bar!Count(t) PROVE BarIInv'
<1> USE SizeFacts, SameMeeting
<1>1. /\ Bar!Step(t) /\ place[t] = "count" /\ Running /\ t \in Meeting /\ Current(t) /\ Shapes
  BY InMeeting DEF Bar!Step, Bar!Count, BarIInv
<1>2. Toggled(t) /\ Toggled(t)' /\ ~Came(t) /\ Came(t)' /\ loops' = loops
  BY <1>1, OthersStay DEF Toggled, Came, Current, Bar!Count, Shapes
<1>3. cur \in BOOLEAN /\ w[t].bar = cur
  <2>1. barArray[size] \in BOOLEAN
    BY <1>1 DEF Shapes
  <2> QED BY <1>1, <1>2, <2>1 DEF Running, Counters, cur
<1>4. /\ place'[t] = "compare" /\ w'[t].bar = w[t].bar /\ w'[t].c = B[cur] + 1
      /\ B'[cur] = B[cur] + 1 /\ B'[~cur] = B[~cur]
      /\ arrived'[loops] = arrived[loops] \cup {t}
      /\ UNCHANGED <<barArray, left>>
  <2>1. loops \in 1 .. MaxLoops /\ w[t].loop = loops
    BY <1>1 DEF Running, Shapes, Current
  <2> QED BY <1>1, <1>3, <2>1 DEF Bar!Count, Shapes
<1>5. cur' = cur
  BY <1>1, <1>4, OthersStay DEF cur, Bar!Threads
<1>6. Gathering
  BY <1>1, <1>2 DEF Running, Complete, Open
<1>7. /\ arrived[loops] \in SUBSET Meeting /\ t \notin arrived[loops]
      /\ B[cur] = Cardinality(arrived[loops])
      /\ B'[cur] = Cardinality(arrived'[loops]) /\ arrived'[loops] \in SUBSET Meeting
  <2>1. arrived[loops] \in SUBSET Meeting /\ t \notin arrived[loops]
    BY <1>1, <1>2 DEF Running
  <2> QED BY <1>1, <1>4, <1>6, <2>1, AllCounted DEF Gathering
<1>8. Gathering' \/ Complete'
  <2>1. CASE arrived'[loops] = Meeting
    <3>1. B'[cur] = size + 1 /\ IsLast(t)'
      BY <1>4, <1>7, <2>1 DEF IsLast
    <3>2. \A u \in Meeting \ {t} : Waits(u)'
      <4>1. \A u \in Meeting \ {t} : Came(u)
        BY <1>1, <1>4, <2>1 DEF Running
      <4> QED BY <1>1, <1>6, <4>1, OthersStay DEF Gathering
    <3> QED BY <1>1, <1>2, <1>5, <2>1, <3>1, <3>2 DEF Complete
  <2>2. CASE arrived'[loops] # Meeting
    <3>1. Waits(t)'
      <4>1. Cardinality(arrived'[loops]) # size + 1
        BY <1>7, <2>2, AllCounted
      <4> QED BY <1>4, <1>7, <4>1 DEF Waits
    <3>2. \A u \in Meeting : Came(u)' => Waits(u)'
      BY <1>1, <1>6, <3>1, OthersStay DEF Gathering
    <3> QED BY <1>2, <1>5, <1>7, <2>2, <3>2 DEF Gathering
  <2> QED BY <2>1, <2>2
<1>9. Places' /\ Counters'
  BY <1>1, <1>2, <1>4, <1>5, PlacesKept, CountersKept
<1>10. Shapes'
  <2>1. B' \in [BOOLEAN -> Nat]
    BY <1>1, <1>3 DEF Shapes, Bar!Count
  <2>2. w' \in [Bar!Threads -> [bar : BOOLEAN, c : Nat, loop : Nat]]
    <3>1. [w[t] EXCEPT !.c = B[w[t].bar] + 1] \in [bar : BOOLEAN, c : Nat, loop : Nat]
      <4>1. w[t] \in [bar : BOOLEAN, c : Nat, loop : Nat] /\ B[w[t].bar] + 1 \in Nat
        BY <1>1, <1>3 DEF Shapes
      <4> QED BY <4>1
    <3>2. w' = [w EXCEPT ![t] = [w[t] EXCEPT !.c = B[w[t].bar] + 1]]
      BY <1>1 DEF Shapes, Bar!Count
    <3> QED BY <1>1, <3>1, <3>2 DEF Shapes
  <2>3. /\ arrived' \in [1 .. MaxLoops -> SUBSET Bar!Threads]
        /\ \A k \in 1 .. MaxLoops : k > loops => arrived'[k] = {}
    <3>1. w[t].loop = loops
      BY <1>1 DEF Current
    <3>2. loops \in 1 .. MaxLoops /\ arrived[loops] \cup {t} \in SUBSET Bar!Threads
      BY <1>1 DEF Shapes, Running
    <3>3. arrived' = [arrived EXCEPT ![loops] = arrived[loops] \cup {t}]
      BY <3>1 DEF Bar!Count
    <3> QED BY <1>1, <3>2, <3>3 DEF Shapes
  <2> QED BY <1>1, <1>2, <2>1, <2>2, <2>3 DEF Shapes, Bar!Count
<1>11. Running'
  <2>1. arrived'[loops'] = {u \in Meeting : Came(u)'}
    BY <1>1, <1>2, <1>4, OthersStay DEF Running
  <2>2. \A u \in Meeting : left'[u] = loops' => Came(u)' /\ Outside(u)'
    BY <1>1, <1>2, <1>4, OthersStay DEF Running
  <2> QED BY <1>1, <1>4, <1>5, <1>8, <1>9, <2>1, <2>2, OthersStay DEF Running
<1> QED BY <1>10, <1>11 DEF BarIInv

\* The last thread finds out that it is, and all others that they are not.
LEMMA CompareIInv == ASSUME OneSize, BarIInv, NEW t \in Bar!Threads, Bar!Compare(t) PROVE BarIInv'
<1> USE SizeFacts, SameMeeting
<1>1. /\ Bar!Step(t) /\ place[t] = "compare" /\ Running /\ t \in Meeting /\ Shapes
      /\ UNCHANGED <<_barrier, barArray, B, nw, loops, inbox, w, arrived, left>>
  BY InMeeting DEF Bar!Step, Bar!Compare, BarIInv
<1>2. /\ Toggled(t)' <=> Toggled(t)
      /\ Came(t)' <=> Came(t)
      /\ Waits(t)' <=> Waits(t)
      /\ IsLast(t)' <=> IsLast(t)
      /\ ~Outside(t) /\ ~Outside(t)'
      /\ place'[t] \in {"reset", "spin"} /\ (Waits(t) \/ IsLast(t))
  <2>1. place'[t] = IF w[t].c = size + 1 THEN "reset" ELSE "spin"
    BY <1>1 DEF Bar!Compare, Bar!LastOne, Running, Shapes
  <2> QED BY <1>1, <2>1 DEF Toggled, Came, Waits, IsLast, Outside, Current
<1>3. \A u \in Meeting : /\ Came(u)' <=> Came(u)
                         /\ Waits(u)' <=> Waits(u)
                         /\ IsLast(u)' <=> IsLast(u)
                         /\ Outside(u)' <=> Outside(u)
  BY <1>1, <1>2, OthersStay
<1>4. cur' = cur
  BY <1>1, <1>2, OthersStay DEF cur, Bar!Threads
<1>5. Places'
  <2>1. Current(t) \/ Waits(t)
    <3>1. t = Bar!Caller => Current(t)
      BY <1>1 DEF Running, Places
    <3>2. t # Bar!Caller => t \in Bar!Workers /\ t < size
      BY <1>1 DEF Bar!Threads
    <3> QED BY <1>1, <1>2, <3>1, <3>2 DEF Running, Places
  <2> QED BY <1>1, <1>2, <2>1, PlacesKept
<1>6. Counters'
  BY <1>1, <1>2, <1>4, CountersKept
<1>7. (Gathering => Gathering') /\ (Complete => Complete') /\ (Open => Open')
  <2>1. Gathering => Gathering'
    BY <1>1, <1>3, <1>4 DEF Gathering
  <2>2. Complete => Complete'
    BY <1>1, <1>3, <1>4 DEF Complete
  <2>3. Open => Open'
    BY <1>1, <1>3, <1>4 DEF Open
  <2> QED BY <2>1, <2>2, <2>3
<1>8. Shapes'
  BY <1>1 DEF Shapes, Bar!Compare
<1>9. Running'
  BY <1>1, <1>3, <1>4, <1>5, <1>6, <1>7 DEF Running
<1> QED BY <1>8, <1>9 DEF BarIInv

\* The last thread lets the others go, and leaves.
LEMMA ResetIInv == ASSUME OneSize, BarIInv, NEW t \in Bar!Threads, Bar!Reset(t) PROVE BarIInv'
<1> USE SizeFacts, SameMeeting
<1>1. /\ Bar!Step(t) /\ place[t] = "reset" /\ Running /\ t \in Meeting /\ Current(t) /\ Shapes
      /\ UNCHANGED <<_barrier, barArray, nw, loops, inbox, w, arrived>>
  BY InMeeting DEF Bar!Step, Bar!Reset, BarIInv
<1>2. place'[t] = (IF t = Bar!Caller THEN "setup" ELSE "idle") /\ left'[t] = loops
  BY <1>1 DEF Bar!Reset, Bar!Leave, Shapes, Current
<1>3. /\ Toggled(t) /\ Toggled(t)' /\ Came(t) /\ Came(t)'
      /\ ~Waits(t) /\ ~Outside(t) /\ Outside(t)'
  BY <1>1, <1>2 DEF Toggled, Came, Current, Waits, Outside
<1>4. cur \in BOOLEAN /\ w[t].bar = cur /\ loops > 0
  <2>1. barArray[size] \in BOOLEAN
    BY <1>1 DEF Shapes
  <2> QED BY <1>1, <1>3, <2>1 DEF Running, Counters, cur
<1>5. B'[cur] = 0 /\ B'[~cur] = B[~cur] /\ B' \in [BOOLEAN -> Nat]
  BY <1>1, <1>4 DEF Bar!Reset, Shapes
<1>6. cur' = cur
  BY <1>1, <1>2, OthersStay DEF cur, Bar!Threads
<1>7. Complete /\ \A u \in Meeting \ {t} : Waits(u)
  <2>1. Complete
    BY <1>1, <1>3 DEF Running, Gathering, Open
  <2> QED BY <1>1, <1>3, <2>1 DEF Complete
<1>8. Open'
  <2>1. \A u \in Meeting : Waits(u)' \/ Outside(u)'
    BY <1>1, <1>3, <1>7, OthersStay
  <2> QED BY <1>1, <1>5, <1>6, <1>7, <2>1 DEF Open, Complete
<1>9. Places' /\ Counters'
  BY <1>1, <1>3, <1>6, PlacesKept, CountersKept
<1>10. Shapes'
  <2>1. left' \in [Bar!Threads -> 0 .. loops']
    BY <1>1, <1>4 DEF Bar!Reset, Bar!Leave, Shapes, Current
  <2>2. place' \in [Bar!Threads -> {"setup", "idle", "toggle", "count", "compare", "reset", "spin"}]
    BY <1>1 DEF Bar!Reset, Bar!Leave, Shapes
  <2> QED BY <1>1, <1>5, <2>1, <2>2 DEF Shapes
<1>11. Running'
  <2>1. arrived'[loops'] = {u \in Meeting : Came(u)'}
    BY <1>1, <1>3, OthersStay DEF Running
  <2>2. \A u \in Meeting : left'[u] = loops' => Came(u)' /\ Outside(u)'
    BY <1>1, <1>3, OthersStay DEF Running
  <2>3. left'  = [left EXCEPT ![t] = w[t].loop] /\ B'[~cur'] = 0
    BY <1>1, <1>5, <1>6 DEF Bar!Reset, Bar!Leave, Running
  <2> QED BY <1>1, <1>6, <1>8, <1>9, <2>1, <2>2, <2>3, OthersStay DEF Running
<1> QED BY <1>10, <1>11 DEF BarIInv

\* A thread reads the counter: those of the current loop leave once it has been reset,
\* those of the loop before can leave at any time.
LEMMA LeaveIInv == ASSUME OneSize, BarIInv, NEW t \in Bar!Threads, Bar!Spin(t) PROVE BarIInv'
<1> USE SizeFacts, SameMeeting
<1>1. /\ Bar!Step(t) /\ place[t] = "spin" /\ Running /\ t \in Meeting /\ Shapes
      /\ UNCHANGED <<_barrier, barArray, B, nw, loops, inbox, w, arrived>>
  BY InMeeting DEF Bar!Step, Bar!Spin, BarIInv
<1>2. CASE UNCHANGED <<place, left>>
  <2>1. UNCHANGED Bar!vars
    BY <1>1, <1>2 DEF Bar!vars
  <2>2. BarIInv' <=> BarIInv
    BY <2>1 DEF Bar!vars, BarIInv, Shapes, Fresh, Running, Places, Counters, Gathering,
                Complete, Open, Came, Waits, IsLast, Outside, Current, Toggled, cur, Bar!tid
  <2> QED BY <2>2
<1>3. CASE B[w[t].bar] = 0 /\ Bar!Leave(t)
  <2>1. place'[t] = (IF t = Bar!Caller THEN "setup" ELSE "idle") /\ left'[t] = w[t].loop
    BY <1>1, <1>3 DEF Bar!Leave, Shapes
  <2>2. /\ Toggled(t)' <=> Toggled(t)
        /\ Came(t)' <=> Came(t)
        /\ Came(t) <=> Current(t)
        /\ Toggled(t) <=> Current(t)
        /\ Waits(t) /\ ~Outside(t) /\ Outside(t)' /\ ~IsLast(t)
    BY <1>1, <2>1 DEF Toggled, Came, Current, Waits, Outside, IsLast
  <2>3. cur \in BOOLEAN /\ loops \in 1 .. MaxLoops
    <3>1. barArray[size] \in BOOLEAN
      BY <1>1 DEF Shapes
    <3>2. cur \in BOOLEAN
      BY <3>1 DEF cur
    <3>3. loops \in 1 .. MaxLoops
      BY <1>1 DEF Shapes, Running
    <3> QED BY <3>2, <3>3
  <2>4. cur' = cur
    BY <1>1, <2>1, OthersStay DEF cur, Bar!Threads
  <2>5. ASSUME Current(t) PROVE Open'
    <3>1. w[t].bar = cur /\ B[cur] = 0 /\ t \in arrived[loops]
      BY <1>1, <1>3, <2>2, <2>5 DEF Running, Counters
    <3>2. Open
      <4>1. ~Complete
        BY <3>1 DEF Complete
      <4>2. arrived[loops] \in SUBSET Meeting
        BY <1>1 DEF Running
      <4>3. ~Gathering
        BY <3>1, <4>2, AllCounted DEF Gathering
      <4> QED BY <1>1, <4>1, <4>3 DEF Running
    <3>3. \A u \in Meeting : Waits(u)' \/ Outside(u)'
      BY <1>1, <2>2, <3>2, OthersStay DEF Open
    <3> QED BY <1>1, <2>4, <3>2, <3>3 DEF Open
  <2>6. ASSUME ~Current(t) PROVE Gathering'
    <3>1. Gathering
      BY <1>1, <2>2, <2>6 DEF Running, Complete, Open
    <3>2. \A u \in Meeting : Came(u)' => Waits(u)'
      BY <1>1, <2>2, <2>6, <3>1, OthersStay DEF Gathering
    <3> QED BY <1>1, <2>4, <3>1, <3>2 DEF Gathering
  <2>7. Gathering' \/ Complete' \/ Open'
    BY <2>5, <2>6
  <2>8. Places' /\ Counters'
    BY <1>1, <2>2, <2>4, PlacesKept, CountersKept
  <2>9. Shapes'
    <3>1. w[t].loop \in 0 .. loops
      <4>1. Current(t) \/ w[t].loop + 1 = loops
        <5>1. t = Bar!Caller => Current(t)
          BY <1>1 DEF Running, Places
        <5>2. t # Bar!Caller => t \in Bar!Workers /\ t < size
          BY <1>1 DEF Bar!Threads
        <5> QED BY <1>1, <5>1, <5>2 DEF Running, Places
      <4>2. w[t].loop \in Nat
        BY <1>1 DEF Shapes
      <4> QED BY <2>3, <4>1, <4>2 DEF Current
    <3>2. left' = [left EXCEPT ![t] = w[t].loop]
      BY <1>3 DEF Bar!Leave
    <3>3. left' \in [Bar!Threads -> 0 .. loops']
      BY <1>1, <3>1, <3>2 DEF Shapes
    <3>4. place' \in [Bar!Threads -> {"setup", "idle", "toggle", "count", "compare", "reset", "spin"}]
      BY <1>1, <1>3 DEF Bar!Leave, Shapes
    <3> QED BY <1>1, <3>3, <3>4 DEF Shapes
  <2>10. Running'
    <3>1. arrived'[loops'] = {u \in Meeting : Came(u)'}
      BY <1>1, <2>2, OthersStay DEF Running
    <3>2. \A u \in Meeting : left'[u] = loops' => Came(u)' /\ Outside(u)'
      BY <1>1, <2>1, <2>2, OthersStay DEF Running, Current
    <3> QED BY <1>1, <2>4, <2>7, <2>8, <3>1, <3>2 DEF Running
  <2> QED BY <2>9, <2>10 DEF BarIInv
<1> QED BY <1>1, <1>2, <1>3 DEF Bar!Spin

\* The caller starts a loop once it has left the barrier of the loop before, whose
\* counter is then clear and whose threads have all come.
LEMMA SetupIInv == ASSUME OneSize, BarIInv, NEW n \in Sizes, Bar!run_then_freeze(n) PROVE BarIInv'
<1> USE SizeFacts, SameMeeting
<1>1. /\ n = size /\ place[Bar!Caller] = "setup" /\ loops \in 0 .. MaxLoops /\ loops < MaxLoops
      /\ loops' = loops + 1 /\ loops' \in 1 .. MaxLoops /\ nw' = size
      /\ UNCHANGED <<arrived, left>> /\ Shapes /\ Bar!Caller \in Bar!Threads
  BY DEF Bar!run_then_freeze, BarIInv, Shapes, Bar!Threads
<1>2. /\ place'[Bar!Caller] = "toggle" /\ w'[Bar!Caller].loop = loops'
      /\ \A i \in Bar!Workers : place'[i] = place[i] /\ w'[i] = w[i]
      /\ \A i \in Bar!Workers : inbox'[i] = IF i < size THEN Append(inbox[i], loops') ELSE inbox[i]
  <2>1. place'[Bar!Caller] = "toggle" /\ w'[Bar!Caller].loop = loops'
    BY <1>1 DEF Bar!run_then_freeze, Shapes
  <2>2. \A i \in Bar!Workers : place'[i] = place[i] /\ w'[i] = w[i]
    BY <1>1 DEF Bar!run_then_freeze, Shapes, Bar!Threads
  <2>3. \A i \in Bar!Workers : inbox'[i] = IF i < size THEN Append(inbox[i], loops') ELSE inbox[i]
    BY <1>1 DEF Bar!run_then_freeze
  <2> QED BY <2>1, <2>2, <2>3
<1>3. /\ _barrier' = size + 1 /\ barArray' \in [0 .. MaxWorkers -> BOOLEAN]
      /\ B' \in [BOOLEAN -> Nat]
      /\ _barrier = size + 1 => UNCHANGED <<barArray, B>>
      /\ _barrier = 0 => /\ \A i \in 0 .. size : barArray'[i] = FALSE
                         /\ \A b \in BOOLEAN : B'[b] = 0
  <2>1. Bar!barrierSetup(size + 1)
    BY <1>1 DEF Bar!run_then_freeze
  <2>2. barArray' \in [0 .. MaxWorkers -> BOOLEAN]
    BY <1>1, <2>1 DEF Bar!barrierSetup, Shapes
  <2>3. B' \in [BOOLEAN -> Nat]
    <3>1. B' = B \/ B' = [b \in BOOLEAN |-> 0]
      BY <2>1 DEF Bar!barrierSetup
    <3>2. B \in [BOOLEAN -> Nat] /\ [b \in BOOLEAN |-> 0] \in [BOOLEAN -> Nat]
      BY <1>1 DEF Shapes
    <3> QED BY <3>1, <3>2
  <2>4. _barrier' = size + 1 /\ (_barrier = size + 1 => UNCHANGED <<barArray, B>>)
    BY <2>1 DEF Bar!barrierSetup
  <2>5. ASSUME _barrier = 0
        PROVE  /\ \A i \in 0 .. size : barArray'[i] = FALSE
               /\ \A b \in BOOLEAN : B'[b] = 0
    <3>1. /\ barArray' = [i \in 0 .. MaxWorkers |-> IF i < size + 1 THEN FALSE ELSE barArray[i]]
          /\ B' = [b \in BOOLEAN |-> 0]
      <4>1. size + 1 # _barrier
        BY <2>5
      <4> QED BY <2>1, <4>1 DEF Bar!barrierSetup
    <3>2. \A i \in 0 .. size : i \in 0 .. MaxWorkers /\ i < size + 1
      OBVIOUS
    <3>3. \A i \in 0 .. size : barArray'[i] = FALSE
      BY <3>1, <3>2
    <3>4. \A b \in BOOLEAN : B'[b] = 0
      BY <3>1
    <3> QED BY <3>3, <3>4
  <2> QED BY <2>2, <2>3, <2>4, <2>5
<1>4. Shapes'
  <2>1. inbox' \in [Bar!Workers -> Seq(Nat)]
    BY <1>1 DEF Bar!run_then_freeze, Shapes
  <2>2. w' \in [Bar!Threads -> [bar : BOOLEAN, c : Nat, loop : Nat]]
    <3>1. w' = [w EXCEPT ![Bar!Caller] = [w[Bar!Caller] EXCEPT !.loop = loops']] /\ loops' \in Nat
      BY <1>1 DEF Bar!run_then_freeze, Shapes
    <3>2. [w[Bar!Caller] EXCEPT !.loop = loops'] \in [bar : BOOLEAN, c : Nat, loop : Nat]
      <4>1. w[Bar!Caller] \in [bar : BOOLEAN, c : Nat, loop : Nat]
        BY <1>1 DEF Shapes
      <4> QED BY <3>1, <4>1
    <3> QED BY <1>1, <3>1, <3>2 DEF Shapes
  <2>3. place' \in [Bar!Threads -> {"setup", "idle", "toggle", "count", "compare", "reset", "spin"}]
    BY <1>1 DEF Bar!run_then_freeze, Shapes
  <2>4. left' \in [Bar!Threads -> 0 .. loops']
    BY <1>1 DEF Shapes
  <2>5. \A k \in 1 .. MaxLoops : k > loops' => arrived'[k] = {}
    BY <1>1 DEF Shapes
  <2>6. loops' \in 0 .. MaxLoops
    BY <1>1
  <2> QED BY <1>1, <1>3, <2>1, <2>2, <2>3, <2>4, <2>5, <2>6 DEF Shapes
<1>5. arrived'[loops'] = {}
  BY <1>1 DEF Shapes
<1>6. /\ \A i \in Bar!Workers : i < size => w[i].loop + 1 = loops'
      /\ \A i \in Bar!Workers : i < size => inbox[i] = <<>> /\ (Outside(i) \/ Waits(i))
      /\ \A i \in Bar!Workers : i >= size => Outside(i) /\ inbox[i] = <<>> /\ left[i] = 0
      /\ cur' \in BOOLEAN /\ \A b \in BOOLEAN : B'[b] = 0
      /\ \A i \in 0 .. size : barArray'[i] = ~cur'
      /\ \A i \in Bar!Workers : i < size /\ place[i] \in {"count", "compare", "reset", "spin"}
                              => w[i].bar = barArray'[i]
  <2>1. CASE Fresh
    <3>1. loops = 0 /\ loops' = 1 /\ _barrier = 0
      BY <1>1, <2>1 DEF Fresh
    <3>2. /\ \A i \in 0 .. size : barArray'[i] = FALSE
          /\ \A b \in BOOLEAN : B'[b] = 0
          /\ size \in 0 .. size
      BY <1>3, <3>1
    <3>4. cur' = TRUE
      BY <1>2, <3>2 DEF cur
    <3>3. \A i \in Bar!Workers : /\ w[i].loop = 0 /\ inbox[i] = <<>> /\ left[i] = 0
                             /\ Outside(i) /\ place[i] = "idle"
      BY <2>1 DEF Fresh, Outside, Bar!Threads
    <3>5. cur' \in BOOLEAN /\ \A i \in 0 .. size : barArray'[i] = ~cur'
      BY <3>2, <3>4
    <3> QED BY <3>1, <3>2, <3>3, <3>5
  <2>2. CASE Running
    <3>1. Outside(Bar!Caller) /\ ~Waits(Bar!Caller) /\ ~IsLast(Bar!Caller) /\ Came(Bar!Caller)
      BY <1>1, <2>2 DEF Outside, Waits, IsLast, Came, Running, Places
    <3>2. Open
      BY <2>2, <3>1 DEF Running, Gathering, Complete
    <3>3. \A u \in Meeting : Came(u) /\ Current(u) /\ Toggled(u)
      BY <2>2, <3>2 DEF Running, Open, Came, Toggled
    <3>4. /\ UNCHANGED <<barArray, B>> /\ barArray[size] \in BOOLEAN /\ cur = barArray[size]
          /\ cur' = ~cur
      BY <1>1, <1>2, <1>3, <2>2 DEF Running, Shapes, cur
    <3>5. \A b \in BOOLEAN : B'[b] = 0
      BY <2>2, <3>2, <3>4 DEF Running, Open
    <3>6. /\ Bar!tid(Bar!Caller) = size
          /\ \A i \in Bar!Workers : i < size => Bar!tid(i) = i /\ i \in Meeting
      BY <2>2 DEF Bar!tid, Running
    <3>7. \A u \in Meeting : barArray[Bar!tid(u)] = cur
      BY <2>2, <3>3 DEF Running, Counters
    <3>8. \A i \in 0 .. size : barArray'[i] = ~cur'
      <4>1. \A i \in 0 .. size : i = size \/ (i \in Bar!Workers /\ i < size)
        BY DEF Bar!Workers
      <4> QED BY <3>4, <3>6, <3>7, <4>1
    <3>9. \A i \in Bar!Workers : i < size => inbox[i] = <<>> /\ (Outside(i) \/ Waits(i))
                                         /\ w[i].loop + 1 = loops'
      <4> SUFFICES ASSUME NEW i \in Bar!Workers, i < size
                   PROVE  inbox[i] = <<>> /\ (Outside(i) \/ Waits(i)) /\ w[i].loop + 1 = loops'
        OBVIOUS
      <4>1. w[i].loop = loops /\ (Outside(i) \/ Waits(i))
        BY <3>2, <3>3, <3>6 DEF Open, Current
      <4>2. inbox[i] = <<>>
        BY <1>1, <2>2, <4>1 DEF Running, Places
      <4> QED BY <1>1, <4>1, <4>2
    <3>10. \A i \in Bar!Workers : i < size /\ place[i] \in {"count", "compare", "reset", "spin"}
                                => w[i].bar = barArray'[i]
      BY <2>2, <3>4, <3>6 DEF Running, Counters
    <3>11. cur' \in BOOLEAN
      BY <3>4
    <3> QED BY <2>2, <3>5, <3>8, <3>9, <3>10, <3>11 DEF Running, Places
  <2> QED BY <2>1, <2>2 DEF BarIInv
<1>7. /\ \A i \in Bar!Workers : i < size =>
           /\ w'[i].loop + 1 = loops' /\ inbox'[i] = <<loops'>> /\ ~Current(i)'
           /\ Outside(i)' \/ Waits(i)'
      /\ \A i \in Bar!Workers : i >= size => Outside(i)' /\ inbox'[i] = <<>> /\ left'[i] = 0
      /\ Current(Bar!Caller)'
  <2>1. \A i \in Bar!Workers : (Outside(i)' <=> Outside(i)) /\ (Waits(i)' <=> Waits(i))
    BY <1>2 DEF Outside, Waits
  <2>2. \A i \in Bar!Workers : Current(i)' <=> w[i].loop = loops'
    BY <1>2 DEF Current
  <2>3. Current(Bar!Caller)'
    BY <1>2 DEF Current
  <2>4. Append(<<>>, loops') = <<loops'>>
    OBVIOUS
  <2>5. \A i \in Bar!Workers : i < size => w'[i].loop + 1 = loops' /\ inbox'[i] = <<loops'>>
    BY <1>2, <1>6, <2>4
  <2>6. \A i \in Bar!Workers : i < size => ~Current(i)'
    BY <1>1, <1>2, <2>2, <2>5
  <2>7. \A i \in Bar!Workers : i >= size => Outside(i)' /\ inbox'[i] = <<>> /\ left'[i] = 0
    BY <1>1, <1>2, <1>6, <2>1
  <2> QED BY <1>6, <2>1, <2>3, <2>5, <2>6, <2>7
<1>8. \A u \in Meeting : ~Toggled(u)' /\ ~Came(u)' /\ left'[u] # loops'
  <2>1. \A u \in Meeting : left[u] \in 0 .. loops
    BY <1>1 DEF Shapes
  <2>2. \A u \in Meeting : u = Bar!Caller \/ (u \in Bar!Workers /\ u < size)
    BY DEF Bar!Threads
  <2>3. \A u \in Meeting : ~Toggled(u)' /\ ~Came(u)'
    BY <1>2, <1>7, <2>2 DEF Toggled, Came
  <2> QED BY <1>1, <2>1, <2>3
<1>9. Places'
  BY <1>7 DEF Places
<1>10. Counters'
  <2>1. Bar!tid(Bar!Caller)' = size /\ \A i \in Bar!Workers : Bar!tid(i)' = i
    BY <1>1 DEF Bar!tid
  <2>2. \A u \in Meeting : u = Bar!Caller \/ (u \in Bar!Workers /\ u < size /\ u \in 0 .. size)
    BY DEF Bar!Threads, Bar!Workers
  <2>3. place'[Bar!Caller] \notin {"count", "compare", "reset", "spin"}
    BY <1>2
  <2> QED BY <1>2, <1>6, <1>8, <2>1, <2>2, <2>3 DEF Counters
<1>11. Gathering'
  <2>1. Cardinality({}) = 0 /\ Meeting # {}
    BY FS_EmptySet
  <2> QED BY <1>5, <1>6, <1>8, <2>1 DEF Gathering
<1>12. Running'
  <2>1. (~cur') \in BOOLEAN
    BY <1>6
  <2>2. arrived'[loops'] = {u \in Meeting : Came(u)'}
    BY <1>5, <1>8
  <2>3. B'[~cur'] = 0
    BY <1>6, <2>1
  <2>4. loops' > 0
    BY <1>1
  <2> QED BY <1>1, <1>3, <1>8, <1>9, <1>10, <1>11, <2>2, <2>3, <2>4 DEF Running
<1> QED BY <1>4, <1>12 DEF BarIInv

\* Every step keeps the invariant.
LEMMA BarStepIInv == ASSUME OneSize, BarIInv, [Bar!Next]_(Bar!vars) PROVE BarIInv'
<1>1. CASE UNCHANGED Bar!vars
  BY <1>1 DEF Bar!vars, BarIInv, Shapes, Fresh, Running, Places, Counters, Gathering,
              Complete, Open, Came, Waits, IsLast, Outside, Current, Toggled, cur, Bar!tid
<1>2. CASE \E n \in Sizes : Bar!run_then_freeze(n)
  BY <1>2, SetupIInv
<1>3. CASE \E i \in Bar!Workers : Bar!Work(i)
  BY <1>3, WorkIInv
<1>4. CASE \E t \in Bar!Threads : Bar!Step(t)
  BY <1>4, ToggleIInv, CountIInv, CompareIInv, ResetIInv, LeaveIInv DEF Bar!Step
<1>5. CASE Bar!Terminating
  BY <1>1, <1>5 DEF Bar!Terminating
<1> QED BY <1>1, <1>2, <1>3, <1>4, <1>5 DEF Bar!Next

\* It holds in every state the barrier can reach.
LEMMA BarInvariant == ASSUME OneSize PROVE Bar!Spec => []BarIInv
<1>1. Bar!Init => BarIInv
  BY BarInitIInv
<1>2. BarIInv /\ [Bar!Next]_(Bar!vars) => BarIInv'
  BY BarStepIInv
<1> QED BY <1>1, <1>2, PTL DEF Bar!Spec

\* Consecutive loops are kept apart (doBarrier): no thread is past the barrier of a loop
\* that has not been reached by all of its threads.
THEOREM LoopsApart == ASSUME OneSize PROVE Bar!Spec => []Bar!Together
<1>1. ASSUME BarIInv PROVE Bar!Together
  <2> USE SizeFacts
  <2> SUFFICES ASSUME NEW t \in Bar!Threads, left[t] = loops, loops > 0
               PROVE  Bar!Party(nw) \subseteq arrived[loops]
    BY DEF Bar!Together
  <2>1. Running
    BY <1>1 DEF BarIInv, Fresh
  <2>2. t \in Meeting
    <3>1. t \in Bar!Workers => t < size
      BY <2>1 DEF Running, Places, Bar!Workers
    <3> QED BY <3>1 DEF Bar!Threads
  <2>3. Came(t) /\ Outside(t)
    BY <2>1, <2>2 DEF Running
  <2>4. ~Waits(t)
    BY <2>3 DEF Waits, Outside
  <2>5. arrived[loops] = Meeting
    BY <2>1, <2>2, <2>3, <2>4 DEF Running, Gathering, Complete, Open
  <2> QED BY <2>1, <2>5 DEF Running, Meeting
<1> QED BY <1>1, BarInvariant, PTL

\* Two counters are enough (B in spinBarrier): a worker that still waits at a barrier is at
\* most one loop behind.
THEOREM TwoCountersEnough == ASSUME OneSize PROVE Bar!Spec => []Bar!OneBehind
<1>1. ASSUME BarIInv PROVE Bar!OneBehind
  <2> USE SizeFacts
  <2> SUFFICES ASSUME NEW i \in Bar!Workers, place[i] \in {"compare", "reset", "spin"}
               PROVE  loops <= w[i].loop + 1
    BY DEF Bar!OneBehind
  <2>1. i \in Bar!Threads /\ ~Outside(i)
    BY DEF Bar!Threads, Outside
  <2>2. Running /\ i < size
    BY <1>1, <2>1 DEF BarIInv, Fresh, Running, Places, Bar!Workers
  <2>3. loops \in Nat
    BY <1>1 DEF BarIInv, Shapes
  <2> QED BY <2>2, <2>3 DEF Running, Places, Current
<1> QED BY <1>1, BarInvariant, PTL

\* The types hold, and once set up a counter never passes the number of threads.
LEMMA LoopBarrierTyped == ASSUME OneSize, BarIInv PROVE Bar!TypeOK
<1> USE SizeFacts
<1>1. CASE Fresh
  BY <1>1 DEF Fresh, BarIInv, Shapes, Bar!TypeOK
<1>2. CASE Running
  <2>1. _barrier = size + 1 /\ nw = size /\ B \in [BOOLEAN -> Nat]
    BY <1>2 DEF Running, BarIInv, Shapes
  <2>2. B[cur] \in 0 .. size + 1
    <3>1. arrived[loops] \subseteq Meeting
      BY <1>2 DEF Running
    <3>2. Cardinality(arrived[loops]) \in 0 .. size + 1
      <4>1. IsFiniteSet(arrived[loops]) /\ Cardinality(arrived[loops]) <= size + 1
        BY <3>1, FS_Subset
      <4> QED BY <4>1, FS_CardinalityType
    <3>3. CASE Gathering
      BY <3>2, <3>3 DEF Gathering
    <3>4. CASE Complete \/ Open
      BY <3>4 DEF Complete, Open
    <3> QED BY <1>2, <3>3, <3>4 DEF Running
  <2>3. B[~cur] \in 0 .. size + 1
    BY <1>2 DEF Running
  <2>4. cur \in BOOLEAN
    <3>1. barArray \in [0 .. MaxWorkers -> BOOLEAN] /\ size \in 0 .. MaxWorkers
      BY DEF BarIInv, Shapes
    <3>2. barArray[size] \in BOOLEAN
      BY <3>1, Zenon
    <3> QED BY <3>2, Zenon DEF cur
  <2>5. \A b \in BOOLEAN : B[b] \in 0 .. size + 1
    BY <2>2, <2>3, <2>4, Zenon
  <2> QED BY <2>1, <2>5 DEF BarIInv, Shapes, Bar!TypeOK
<1> QED BY <1>1, <1>2 DEF BarIInv

\* spinBarrier, together: what two who spin at the same counter could break.
THEOREM LoopBarrierIsSafe == ASSUME OneSize PROVE Bar!Spec => []Bar!SpinningIsSafe
<1>1. BarIInv => Bar!TypeOK
  BY LoopBarrierTyped
<1>2. Bar!TypeOK /\ Bar!Together /\ Bar!OneBehind => Bar!SpinningIsSafe
  BY DEF Bar!SpinningIsSafe
<1> QED BY <1>1, <1>2, BarInvariant, LoopsApart, TwoCountersEnough, PTL

-----------------------------------------------------------------------------
(* The linked queue: a node has one use at a time, and it is a queue.        *)

CONSTANTS Item, CacheSize, MaxLen                \* those of DynQueue
VARIABLES next, item, head, tail, cache, live,   \* its variables, item for data
          pcP, n, pcC, old, out, list, q, pushed, popped

Dyn == INSTANCE DynQueue WITH data <- item

\* The types of what the steps change.
DynShapes ==
  /\ next \in [Dyn!Nodes -> Dyn!Nodes \cup {Dyn!NULL}]
  /\ item \in [Dyn!Nodes -> Item \cup {Dyn!NULL}]
  /\ list \in Seq(Dyn!Nodes) /\ cache \in Seq(Dyn!Nodes) /\ Len(cache) <= CacheSize
  /\ q \in Seq(Item) /\ Len(q) <= MaxLen
  /\ live \subseteq Dyn!Nodes
  /\ pcP \in {"idle", "link", "tail"} /\ pcC \in {"idle", "head", "recycle"}
  /\ pushed = TRUE

\* The producer between two steps: the node is filled and there is room for it.
Pushing ==
  /\ pcP # "idle" => n \in Dyn!Nodes
  /\ pcP = "link" => item[n] \in Item /\ next[n] = Dyn!NULL /\ Len(q) < MaxLen

\* The consumer between two steps: it read the oldest item, and holds the old dummy.
Popping ==
  /\ pcC = "head" => old = head /\ q # <<>> /\ out = q[1]
  /\ pcC = "recycle" => old \in Dyn!Nodes

\* The inductive invariant.
DynIInv == DynShapes /\ Pushing /\ Popping /\ Dyn!ListHoldsQueue /\ Dyn!OneUse

-----------------------------------------------------------------------------
(* Sequences without repetition *)

\* One more at the end.
LEMMA AppendOne ==
  ASSUME NEW S, NEW s \in Seq(S), NEW x \in S
  PROVE  /\ Append(s, x) \in Seq(S) /\ Len(Append(s, x)) = Len(s) + 1
         /\ \A i \in 1 .. Len(s) : Append(s, x)[i] = s[i]
         /\ Append(s, x)[Len(s) + 1] = x
         /\ Dyn!Range(Append(s, x)) = Dyn!Range(s) \cup {x}
         /\ Dyn!IsInjective(s) /\ x \notin Dyn!Range(s) => Dyn!IsInjective(Append(s, x))
<1>1. /\ Append(s, x) \in Seq(S) /\ Len(Append(s, x)) = Len(s) + 1 /\ Len(s) \in Nat
      /\ \A i \in 1 .. Len(s) : Append(s, x)[i] = s[i]
      /\ Append(s, x)[Len(s) + 1] = x
  OBVIOUS
<1>2. DOMAIN s = 1 .. Len(s) /\ DOMAIN Append(s, x) = 1 .. (Len(s) + 1)
  BY <1>1
<1>3. Dyn!Range(Append(s, x)) = Dyn!Range(s) \cup {x}
  BY <1>1, <1>2 DEF Dyn!Range
<1>4. ASSUME Dyn!IsInjective(s), x \notin Dyn!Range(s) PROVE Dyn!IsInjective(Append(s, x))
  <2> SUFFICES ASSUME NEW i \in 1 .. (Len(s) + 1), NEW j \in 1 .. (Len(s) + 1),
                      Append(s, x)[i] = Append(s, x)[j]
               PROVE  i = j
    BY <1>2 DEF Dyn!IsInjective
  <2>1. \A k \in 1 .. Len(s) : Append(s, x)[k] # x
    BY <1>1, <1>2, <1>4 DEF Dyn!Range
  <2>2. \A k \in 1 .. (Len(s) + 1) : k \in 1 .. Len(s) \/ k = Len(s) + 1
    BY <1>1
  <2>3. CASE i \in 1 .. Len(s) /\ j \in 1 .. Len(s)
    <3>1. s[i] = s[j]
      BY <1>1, <2>3
    <3> QED BY <1>2, <1>4, <2>3, <3>1 DEF Dyn!IsInjective
  <2> QED BY <1>1, <2>1, <2>2, <2>3
<1> QED BY <1>1, <1>3, <1>4

\* One less at the front.
LEMMA TakeOne ==
  ASSUME NEW S, NEW s \in Seq(S), s # <<>>
  PROVE  /\ Tail(s) \in Seq(S) /\ Len(Tail(s)) = Len(s) - 1 /\ Len(s) \in Nat \ {0}
         /\ \A i \in 1 .. Len(s) - 1 : Tail(s)[i] = s[i + 1]
         /\ Head(s) = s[1] /\ s[1] \in S /\ s[1] \in Dyn!Range(s)
         /\ Dyn!IsInjective(s) => Dyn!IsInjective(Tail(s)) /\ Dyn!Range(Tail(s)) = Dyn!Range(s) \ {s[1]}
<1>1. /\ Tail(s) \in Seq(S) /\ Len(Tail(s)) = Len(s) - 1 /\ Len(s) \in Nat \ {0}
      /\ \A i \in 1 .. Len(s) - 1 : Tail(s)[i] = s[i + 1]
      /\ Head(s) = s[1] /\ s[1] \in S
  OBVIOUS
<1>2. DOMAIN s = 1 .. Len(s) /\ DOMAIN Tail(s) = 1 .. Len(s) - 1
  BY <1>1
<1>3. s[1] \in Dyn!Range(s)
  BY <1>1, <1>2 DEF Dyn!Range
<1>4. ASSUME Dyn!IsInjective(s)
      PROVE  Dyn!IsInjective(Tail(s)) /\ Dyn!Range(Tail(s)) = Dyn!Range(s) \ {s[1]}
  <2>1. \A i, j \in 1 .. Len(s) : s[i] = s[j] => i = j
    BY <1>2, <1>4 DEF Dyn!IsInjective
  <2>2. Dyn!IsInjective(Tail(s))
    <3> SUFFICES ASSUME NEW i \in 1 .. Len(s) - 1, NEW j \in 1 .. Len(s) - 1,
                        Tail(s)[i] = Tail(s)[j]
                 PROVE  i = j
      BY <1>2 DEF Dyn!IsInjective
    <3>1. s[i + 1] = s[j + 1] /\ i + 1 \in 1 .. Len(s) /\ j + 1 \in 1 .. Len(s)
      BY <1>1
    <3> QED BY <2>1, <3>1
  <2>3. ASSUME NEW x \in Dyn!Range(Tail(s)) PROVE x \in Dyn!Range(s) \ {s[1]}
    <3>1. PICK i \in 1 .. Len(s) - 1 : x = Tail(s)[i]
      BY <1>2 DEF Dyn!Range
    <3>2. x = s[i + 1] /\ i + 1 \in 1 .. Len(s) /\ i + 1 # 1 /\ 1 \in 1 .. Len(s)
      BY <1>1, <3>1
    <3> QED BY <1>2, <2>1, <3>2 DEF Dyn!Range
  <2>4. ASSUME NEW x \in Dyn!Range(s) \ {s[1]} PROVE x \in Dyn!Range(Tail(s))
    <3>1. PICK i \in 1 .. Len(s) : x = s[i]
      BY <1>2 DEF Dyn!Range
    <3>2. i # 1 /\ i - 1 \in 1 .. Len(s) - 1 /\ (i - 1) + 1 = i
      BY <1>1, <3>1
    <3>3. x = Tail(s)[i - 1]
      BY <1>1, <3>1, <3>2
    <3> QED BY <1>2, <3>2, <3>3 DEF Dyn!Range
  <2> QED BY <2>2, <2>3, <2>4
<1> QED BY <1>1, <1>3, <1>4

\* The places of a sequence without repetition can be told apart by what is there.
LEMMA PlacesDiffer ==
  ASSUME NEW S, NEW s \in Seq(S), s # <<>>
  PROVE  /\ \A i \in 1 .. Len(s) : s[i] \in S /\ s[i] \in Dyn!Range(s)
         /\ Len(s) \in 1 .. Len(s) /\ 1 \in 1 .. Len(s)
         /\ Dyn!Range(s) \subseteq S
         /\ Dyn!IsInjective(s) => \A i, j \in 1 .. Len(s) : s[i] = s[j] => i = j
BY DEF Dyn!Range, Dyn!IsInjective

-----------------------------------------------------------------------------
(* The queue *)

\* A new queue: a dummy, and nodes that nobody uses in the cache.
LEMMA DynInitIInv == ASSUME Dyn!BoundAssumption, Dyn!Init PROVE DynIInv
<1>1. CacheSize \in Nat \ {0} /\ MaxLen \in Nat \ {0} /\ 1 \in Dyn!Nodes
      /\ \A i \in 1 .. CacheSize : i + 1 \in Dyn!Nodes
  BY DEF Dyn!BoundAssumption, Dyn!Nodes
<1>2. list = <<1>> /\ q = <<>> /\ list \in Seq(Dyn!Nodes) /\ list[1] = 1 /\ DOMAIN list = {1}
      /\ Len(list) = 1 /\ q \in Seq(Item) /\ Len(q) = 0
  BY <1>1 DEF Dyn!Init
<1>3. /\ cache \in Seq(Dyn!Nodes) /\ Len(cache) <= CacheSize
      /\ DOMAIN cache = 1 .. Len(cache) /\ \A i \in DOMAIN cache : cache[i] = i + 1
  <2>1. CASE cache = [i \in 1 .. CacheSize |-> i + 1]
    <3>1. cache \in [1 .. CacheSize -> Dyn!Nodes]
      BY <1>1, <2>1
    <3>2. cache \in Seq(Dyn!Nodes) /\ Len(cache) = CacheSize
      BY <1>1, <3>1
    <3> QED BY <1>1, <2>1, <3>2
  <2>2. CASE cache = <<>>
    BY <1>1, <2>2
  <2> QED BY <2>1, <2>2 DEF Dyn!Init
<1>4. Dyn!Range(list) = {1} /\ Dyn!IsInjective(list)
  BY <1>2 DEF Dyn!Range, Dyn!IsInjective
<1>5. /\ Dyn!IsInjective(cache) /\ 1 \notin Dyn!Range(cache) /\ Dyn!Range(cache) \subseteq Dyn!Nodes
      /\ Dyn!Range(cache) = {cache[i] : i \in DOMAIN cache}
  BY <1>3 DEF Dyn!Range, Dyn!IsInjective
<1>6. Dyn!OneUse
  <2>1. Dyn!Linking = {} /\ Dyn!GivingBack = {} /\ live = {1} \cup Dyn!Range(cache)
    BY <1>5 DEF Dyn!Init, Dyn!Linking, Dyn!GivingBack
  <2> QED BY <1>4, <1>5, <2>1 DEF Dyn!OneUse
<1>7. Dyn!ListHoldsQueue
  <2>1. next[1] = Dyn!NULL /\ head = 1 /\ tail = 1 /\ pcP = "idle"
    BY <1>1 DEF Dyn!Init
  <2> QED BY <1>2, <2>1 DEF Dyn!ListHoldsQueue
<1>8. DynShapes
  <2>1. live \subseteq Dyn!Nodes
    BY <1>1, <1>5 DEF Dyn!Init
  <2> QED BY <1>1, <1>2, <1>3, <2>1 DEF DynShapes, Dyn!Init
<1>9. Pushing /\ Popping
  BY DEF Pushing, Popping, Dyn!Init
<1> QED BY <1>6, <1>7, <1>8, <1>9 DEF DynIInv

\* While the producer begins there is a node for malloc to return.
LEMMA RoomForNode ==
  ASSUME Dyn!BoundAssumption, DynIInv, pcP = "idle", Len(q) < MaxLen, cache = <<>>
  PROVE  \E x \in Dyn!Nodes : x \notin live
<1>1. /\ MaxLen \in Nat /\ CacheSize \in Nat \ {0} /\ Len(q) \in Nat /\ list \in Seq(Dyn!Nodes)
      /\ Len(list) = Len(q) + 1
  BY DEF Dyn!BoundAssumption, DynIInv, DynShapes, Dyn!ListHoldsQueue
<1>2. live \subseteq Dyn!Range(list) \cup {old}
  <2>1. Dyn!Range(cache) = {} /\ Dyn!Linking = {} /\ Dyn!GivingBack \subseteq {old}
    BY DEF Dyn!Range, Dyn!Linking, Dyn!GivingBack
  <2> QED BY <2>1 DEF DynIInv, Dyn!OneUse
<1>3. /\ IsFiniteSet(Dyn!Range(list) \cup {old})
      /\ Cardinality(Dyn!Range(list) \cup {old}) <= Len(q) + 2
      /\ Cardinality(Dyn!Range(list) \cup {old}) \in Nat
  <2>1. IsFiniteSet(1 .. Len(list)) /\ Cardinality(1 .. Len(list)) = Len(list)
    BY <1>1, FS_Interval
  <2>2. list \in Surjection(1 .. Len(list), Dyn!Range(list))
    BY <1>1 DEF Dyn!Range, Surjection
  <2>3. IsFiniteSet(Dyn!Range(list)) /\ Cardinality(Dyn!Range(list)) <= Len(list)
    BY <2>1, <2>2, FS_Surjection
  <2>4. /\ IsFiniteSet(Dyn!Range(list) \cup {old})
        /\ \/ Cardinality(Dyn!Range(list) \cup {old}) = Cardinality(Dyn!Range(list))
           \/ Cardinality(Dyn!Range(list) \cup {old}) = Cardinality(Dyn!Range(list)) + 1
    BY <2>3, FS_AddElement
  <2>5. Cardinality(Dyn!Range(list)) \in Nat
    BY <2>3, FS_CardinalityType
  <2> QED BY <1>1, <2>3, <2>4, <2>5
<1>4. Cardinality(live) <= Len(q) + 2
  <2>1. IsFiniteSet(live) /\ Cardinality(live) <= Cardinality(Dyn!Range(list) \cup {old})
    BY <1>2, <1>3, FS_Subset
  <2>2. Cardinality(live) \in Nat
    BY <2>1, FS_CardinalityType
  <2> QED BY <1>1, <1>3, <2>1, <2>2
<1>5. Cardinality(Dyn!Nodes) = MaxLen + CacheSize + 3
  BY <1>1, FS_Interval DEF Dyn!Nodes
<1>6. live # Dyn!Nodes
  BY <1>1, <1>4, <1>5
<1> QED BY <1>6 DEF DynIInv, DynShapes

\* The node the producer fills is its own.
LEMMA NodeIsNew ==
  ASSUME Dyn!BoundAssumption, DynIInv, pcP = "idle", Len(q) < MaxLen, Dyn!allocnode
  PROVE  /\ n' \in Dyn!Nodes /\ n' \notin Dyn!Range(list)
         /\ n' \notin Dyn!Range(cache') /\ n' \notin Dyn!GivingBack
         /\ cache' \in Seq(Dyn!Nodes) /\ Len(cache') <= CacheSize /\ Dyn!IsInjective(cache')
         /\ Dyn!Range(cache') \subseteq Dyn!Range(cache)
         /\ live' = Dyn!Range(list) \cup Dyn!Range(cache') \cup {n'} \cup Dyn!GivingBack
<1>1. /\ cache \in Seq(Dyn!Nodes) /\ Len(cache) <= CacheSize /\ Dyn!IsInjective(cache)
      /\ Dyn!Linking = {}
      /\ Dyn!Range(list) \cap Dyn!Range(cache) = {} /\ Dyn!Range(cache) \cap Dyn!GivingBack = {}
      /\ live = Dyn!Range(list) \cup Dyn!Range(cache) \cup Dyn!GivingBack /\ CacheSize \in Nat
  BY DEF DynIInv, DynShapes, Dyn!OneUse, Dyn!Linking, Dyn!BoundAssumption
<1>2. CASE cache # <<>> /\ n' = Head(cache) /\ cache' = Tail(cache) /\ UNCHANGED live
  <2>1. /\ cache' \in Seq(Dyn!Nodes) /\ Len(cache') = Len(cache) - 1 /\ n' \in Dyn!Nodes
        /\ Len(cache) \in Nat /\ n' \in Dyn!Range(cache) /\ Dyn!IsInjective(cache')
        /\ Dyn!Range(cache') = Dyn!Range(cache) \ {n'}
    BY <1>1, <1>2, TakeOne
  <2> QED BY <1>1, <1>2, <2>1
<1>3. CASE /\ cache = <<>> /\ n' = (CHOOSE x \in Dyn!Nodes : x \notin live)
           /\ live' = live \cup {n'} /\ UNCHANGED cache
  <2>1. n' \in Dyn!Nodes /\ n' \notin live
    BY <1>3, RoomForNode
  <2> QED BY <1>1, <1>3, <2>1
<1> QED BY <1>2, <1>3 DEF Dyn!allocnode

\* push fills a node.
LEMMA FillIInv ==
  ASSUME Dyn!BoundAssumption, DynIInv, NEW d \in Item, Dyn!pushFill(d)
  PROVE  DynIInv'
<1>1. /\ pcP = "idle" /\ Len(q) < MaxLen /\ Dyn!allocnode /\ pcP' = "link"
      /\ item' = [item EXCEPT ![n'] = d] /\ next' = [next EXCEPT ![n'] = Dyn!NULL]
      /\ UNCHANGED <<head, tail, pcC, old, out, list, q, pushed, popped>>
  BY DEF Dyn!pushFill
<1>2. /\ n' \in Dyn!Nodes /\ n' \notin Dyn!Range(list)
      /\ n' \notin Dyn!Range(cache') /\ n' \notin Dyn!GivingBack
      /\ cache' \in Seq(Dyn!Nodes) /\ Len(cache') <= CacheSize /\ Dyn!IsInjective(cache')
      /\ Dyn!Range(cache') \subseteq Dyn!Range(cache)
      /\ live' = Dyn!Range(list) \cup Dyn!Range(cache') \cup {n'} \cup Dyn!GivingBack
  BY <1>1, NodeIsNew
<1>3. DynShapes /\ Dyn!ListHoldsQueue /\ Dyn!OneUse /\ Popping
  BY DEF DynIInv
<1>4. Dyn!Linking' = {n'} /\ Dyn!GivingBack' = Dyn!GivingBack
  BY <1>1 DEF Dyn!Linking, Dyn!GivingBack
<1>5. Dyn!OneUse'
  <2>1. /\ Dyn!IsInjective(list) /\ Dyn!Range(list) \cap Dyn!Range(cache) = {}
        /\ (Dyn!Range(list) \cup Dyn!Range(cache)) \cap Dyn!GivingBack = {}
    BY <1>3 DEF Dyn!OneUse
  <2> QED BY <1>1, <1>2, <1>4, <2>1 DEF Dyn!OneUse
<1>6. /\ list \in Seq(Dyn!Nodes) /\ list # <<>> /\ Len(q) \in Nat /\ Len(list) = Len(q) + 1
  <2>1. list \in Seq(Dyn!Nodes) /\ Len(q) \in Nat /\ Len(list) = Len(q) + 1
    BY <1>3 DEF DynShapes, Dyn!ListHoldsQueue
  <2> QED BY <2>1
<1>7. \A i \in 1 .. Len(list) : next'[list[i]] = next[list[i]] /\ item'[list[i]] = item[list[i]]
  <2>1. \A i \in 1 .. Len(list) : list[i] \in Dyn!Nodes /\ list[i] # n'
    BY <1>2, <1>6, PlacesDiffer
  <2> QED BY <1>1, <1>3, <2>1 DEF DynShapes
<1>8. Dyn!ListHoldsQueue'
  <2>1. \A i \in 1 .. Len(q) : i \in 1 .. Len(list) /\ i + 1 \in 1 .. Len(list)
    BY <1>6
  <2>2. Len(list) \in 1 .. Len(list)
    BY <1>6
  <2> QED BY <1>1, <1>3, <1>7, <2>1, <2>2 DEF Dyn!ListHoldsQueue
<1>9. DynShapes'
  <2>1. live' \subseteq Dyn!Nodes
    <3>1. Dyn!Range(cache) \subseteq Dyn!Nodes /\ Dyn!Range(list) \subseteq Dyn!Nodes
      BY <1>3 DEF Dyn!OneUse, DynShapes
    <3>2. Dyn!GivingBack \subseteq Dyn!Nodes
      BY <1>3 DEF Dyn!OneUse, DynShapes
    <3> QED BY <1>2, <3>1, <3>2
  <2> QED BY <1>1, <1>2, <1>3, <2>1 DEF DynShapes
<1>10. Pushing' /\ Popping'
  BY <1>1, <1>2, <1>3 DEF Pushing, Popping, DynShapes
<1> QED BY <1>5, <1>8, <1>9, <1>10 DEF DynIInv

\* What the invariant says of the list.
LEMMA ListFacts ==
  ASSUME DynIInv
  PROVE  /\ list \in Seq(Dyn!Nodes) /\ list # <<>> /\ Len(q) \in Nat /\ Len(list) = Len(q) + 1
         /\ Dyn!IsInjective(list) /\ list[1] = head /\ next[list[Len(list)]] = Dyn!NULL
         /\ \A i \in 1 .. Len(q) : next[list[i]] = list[i + 1] /\ item[list[i + 1]] = q[i]
         /\ \A i \in 1 .. Len(list) : list[i] \in Dyn!Nodes /\ list[i] \in Dyn!Range(list)
         /\ \A i, j \in 1 .. Len(list) : list[i] = list[j] => i = j
         /\ Len(list) \in 1 .. Len(list) /\ 1 \in 1 .. Len(list)
<1>1. list \in Seq(Dyn!Nodes) /\ Len(q) \in Nat /\ Len(list) = Len(q) + 1 /\ Dyn!IsInjective(list)
  BY DEF DynIInv, DynShapes, Dyn!ListHoldsQueue, Dyn!OneUse
<1>2. list # <<>>
  BY <1>1
<1>3. /\ \A i \in 1 .. Len(list) : list[i] \in Dyn!Nodes /\ list[i] \in Dyn!Range(list)
      /\ \A i, j \in 1 .. Len(list) : list[i] = list[j] => i = j
      /\ Len(list) \in 1 .. Len(list) /\ 1 \in 1 .. Len(list)
  BY <1>1, <1>2, PlacesDiffer
<1> QED BY <1>1, <1>2, <1>3 DEF DynIInv, Dyn!ListHoldsQueue

\* push links the node behind the last one.
LEMMA LinkIInv ==
  ASSUME Dyn!BoundAssumption, DynIInv, Dyn!pushLink
  PROVE  DynIInv'
<1>1. /\ pcP = "link" /\ pcP' = "tail" /\ next' = [next EXCEPT ![tail] = n]
      /\ list' = Append(list, n) /\ q' = Append(q, item[n]) /\ pushed' = TRUE
      /\ UNCHANGED <<item, head, tail, cache, live, n, pcC, old, out, popped>>
  BY DEF Dyn!pushLink
<1>2. /\ n \in Dyn!Nodes /\ item[n] \in Item /\ next[n] = Dyn!NULL /\ Len(q) < MaxLen
      /\ DynShapes /\ Dyn!OneUse /\ Popping /\ tail = list[Len(list)]
  BY <1>1 DEF DynIInv, Pushing, Dyn!ListHoldsQueue
<1>3. Dyn!Linking = {n} /\ Dyn!Linking' = {} /\ Dyn!GivingBack' = Dyn!GivingBack
  BY <1>1 DEF Dyn!Linking, Dyn!GivingBack
<1>4. n \notin Dyn!Range(list) /\ n \notin Dyn!Range(cache) /\ n \notin Dyn!GivingBack
  BY <1>2, <1>3 DEF Dyn!OneUse
<1>5. /\ list' \in Seq(Dyn!Nodes) /\ Len(list') = Len(list) + 1
      /\ \A i \in 1 .. Len(list) : list'[i] = list[i]
      /\ list'[Len(list) + 1] = n /\ Dyn!Range(list') = Dyn!Range(list) \cup {n}
      /\ Dyn!IsInjective(list')
  BY <1>1, <1>2, <1>4, ListFacts, AppendOne
<1>6. /\ q' \in Seq(Item) /\ Len(q') = Len(q) + 1
      /\ \A i \in 1 .. Len(q) : q'[i] = q[i]
      /\ q'[Len(q) + 1] = item[n]
  BY <1>1, <1>2, AppendOne DEF DynShapes
<1>7. Dyn!OneUse'
  BY <1>1, <1>2, <1>3, <1>4, <1>5 DEF Dyn!OneUse
<1>8. /\ next'[n] = Dyn!NULL /\ next'[list[Len(list)]] = n
      /\ \A i \in 1 .. Len(q) : next'[list[i]] = next[list[i]]
  <2>1. n # list[Len(list)] /\ list[Len(list)] \in Dyn!Nodes
    BY <1>4, ListFacts
  <2>2. ASSUME NEW i \in 1 .. Len(q) PROVE list[i] # list[Len(list)] /\ list[i] \in Dyn!Nodes
    <3>1. i \in 1 .. Len(list) /\ i # Len(list)
      BY ListFacts
    <3> QED BY <3>1, ListFacts
  <2>3. next \in [Dyn!Nodes -> Dyn!Nodes \cup {Dyn!NULL}]
    BY <1>2 DEF DynShapes
  <2> QED BY <1>1, <1>2, <2>1, <2>2, <2>3
<1>9. Dyn!ListHoldsQueue'
  <2>1. Len(list') = Len(q') + 1 /\ list'[1] = head'
    BY <1>1, <1>5, <1>6, ListFacts
  <2>2. ASSUME NEW i \in 1 .. Len(q')
        PROVE  next'[list'[i]] = list'[i + 1] /\ item'[list'[i + 1]] = q'[i]
    <3>1. CASE i \in 1 .. Len(q)
      <4>1. i \in 1 .. Len(list) /\ i + 1 \in 1 .. Len(list)
        BY <3>1, ListFacts
      <4>2. list'[i] = list[i] /\ list'[i + 1] = list[i + 1] /\ q'[i] = q[i]
        BY <1>5, <1>6, <3>1, <4>1
      <4>3. next[list[i]] = list[i + 1] /\ item[list[i + 1]] = q[i]
        BY <3>1, ListFacts
      <4> QED BY <1>1, <1>8, <3>1, <4>2, <4>3
    <3>2. CASE i = Len(list)
      <4>1. list'[i] = list[i] /\ list'[i + 1] = n /\ q'[i] = item[n]
        BY <1>5, <1>6, <3>2, ListFacts
      <4> QED BY <1>1, <1>8, <3>2, <4>1
    <3> QED BY <1>6, <3>1, <3>2, ListFacts
  <2>3. list'[Len(list')] = n
    BY <1>5
  <2> QED BY <1>1, <1>8, <2>1, <2>2, <2>3 DEF Dyn!ListHoldsQueue
<1>10. DynShapes'
  <2>1. next' \in [Dyn!Nodes -> Dyn!Nodes \cup {Dyn!NULL}]
    BY <1>1, <1>2 DEF DynShapes
  <2>2. Len(q') <= MaxLen
    BY <1>2, <1>6, ListFacts DEF Dyn!BoundAssumption
  <2> QED BY <1>1, <1>2, <1>5, <1>6, <2>1, <2>2 DEF DynShapes
<1>11. Pushing' /\ Popping'
  <2>1. q # <<>> => q' # <<>> /\ q'[1] = q[1]
    <3>1. q # <<>> => 1 \in 1 .. Len(q)
      BY <1>2 DEF DynShapes
    <3> QED BY <1>6, <3>1
  <2> QED BY <1>1, <1>2, <2>1 DEF Pushing, Popping
<1> QED BY <1>7, <1>9, <1>10, <1>11 DEF DynIInv

\* push ends.
LEMMA TailIInv ==
  ASSUME DynIInv, Dyn!pushTail
  PROVE  DynIInv'
<1>1. /\ pcP = "tail" /\ tail' = n /\ pcP' = "idle"
      /\ UNCHANGED <<next, item, head, cache, live, pcC, old, out, list, q, pushed, popped>>
  BY DEF Dyn!pushTail
<1>2. Dyn!Linking' = Dyn!Linking /\ Dyn!GivingBack' = Dyn!GivingBack
  BY <1>1 DEF Dyn!Linking, Dyn!GivingBack
<1>3. Dyn!OneUse'
  BY <1>1, <1>2 DEF DynIInv, Dyn!OneUse
<1>4. Dyn!ListHoldsQueue'
  BY <1>1 DEF DynIInv, Dyn!ListHoldsQueue
<1>5. DynShapes' /\ Pushing' /\ Popping'
  BY <1>1 DEF DynIInv, DynShapes, Pushing, Popping
<1> QED BY <1>3, <1>4, <1>5 DEF DynIInv

\* The queue is empty exactly if nothing is linked behind the dummy.
LEMMA EmptyOrNot ==
  ASSUME DynIInv
  PROVE  /\ next[head] = Dyn!NULL <=> q = <<>>
         /\ q # <<>> => next[head] = list[2] /\ item[next[head]] = q[1] /\ Len(q) >= 1
<1>1. q \in Seq(Item)
  BY DEF DynIInv, DynShapes
<1>2. CASE q = <<>>
  <2>1. Len(q) = 0
    BY <1>2
  <2>2. Len(list) = 1
    BY <2>1, ListFacts
  <2> QED BY <1>2, <2>2, ListFacts
<1>3. CASE q # <<>>
  <2>1. Len(q) >= 1
    BY <1>1, <1>3
  <2>2. 1 \in 1 .. Len(q) /\ 2 \in 1 .. Len(list)
    BY <2>1, ListFacts
  <2>3. list[2] \in Dyn!Nodes /\ next[list[1]] = list[1 + 1] /\ item[list[1 + 1]] = q[1]
        /\ head = list[1]
    BY <2>2, ListFacts
  <2>4. Dyn!NULL \notin Dyn!Nodes
    BY DEF Dyn!NULL, Dyn!Nodes
  <2> QED BY <1>3, <2>1, <2>3, <2>4
<1> QED BY <1>2, <1>3

\* pop looks whether there is an item, and reads it.
LEMMA ReadIInv ==
  ASSUME DynIInv, Dyn!popRead
  PROVE  DynIInv'
<1>1. /\ pcC = "idle" /\ Dyn!GivingBack = {} /\ Dyn!GivingBack' = {} /\ Dyn!Linking' = Dyn!Linking
      /\ UNCHANGED <<next, item, head, tail, cache, live, pcP, n, list, q, pushed>>
      /\ \/ pcC' = pcC
         \/ /\ next[head] # Dyn!NULL /\ old' = head /\ out' = item[next[head]] /\ pcC' = "head"
  BY DEF Dyn!popRead, Dyn!GivingBack, Dyn!Linking
<1>2. Dyn!OneUse'
  BY <1>1 DEF DynIInv, Dyn!OneUse
<1>3. Dyn!ListHoldsQueue'
  BY <1>1 DEF DynIInv, Dyn!ListHoldsQueue
<1>4. DynShapes' /\ Pushing'
  BY <1>1 DEF DynIInv, DynShapes, Pushing
<1>5. Popping'
  BY <1>1, EmptyOrNot DEF Popping
<1> QED BY <1>2, <1>3, <1>4, <1>5 DEF DynIInv

\* pop makes the node of the item the dummy.
LEMMA HeadIInv ==
  ASSUME Dyn!BoundAssumption, DynIInv, Dyn!popHead
  PROVE  DynIInv'
<1>1. /\ pcC = "head" /\ head' = next[head] /\ pcC' = "recycle"
      /\ list' = Tail(list) /\ q' = Tail(q)
      /\ UNCHANGED <<next, item, tail, cache, live, pcP, n, old, out, pushed>>
  BY DEF Dyn!popHead
<1>2. DynShapes /\ Pushing /\ Dyn!OneUse /\ old = head /\ q # <<>> /\ q \in Seq(Item)
  BY <1>1 DEF DynIInv, Popping, DynShapes
<1>3. /\ list' \in Seq(Dyn!Nodes) /\ Len(list') = Len(list) - 1
      /\ \A i \in 1 .. Len(list) - 1 : list'[i] = list[i + 1]
      /\ list[1] \in Dyn!Range(list) /\ Dyn!IsInjective(list')
      /\ Dyn!Range(list') = Dyn!Range(list) \ {list[1]}
  BY <1>1, ListFacts, TakeOne
<1>4. /\ q' \in Seq(Item) /\ Len(q') = Len(q) - 1
      /\ \A i \in 1 .. Len(q) - 1 : q'[i] = q[i + 1]
  BY <1>1, <1>2, TakeOne
<1>5. Dyn!GivingBack = {} /\ Dyn!GivingBack' = {list[1]} /\ Dyn!Linking' = Dyn!Linking
  BY <1>1, <1>2, ListFacts DEF Dyn!GivingBack, Dyn!Linking
<1>6. Dyn!OneUse'
  BY <1>1, <1>2, <1>3, <1>5 DEF Dyn!OneUse
<1>7. Dyn!ListHoldsQueue'
  <2>1. Len(q) >= 1 /\ Len(list') = Len(q') + 1
    BY <1>3, <1>4, ListFacts, EmptyOrNot, <1>2
  <2>2. list'[1] = head'
    BY <1>1, <1>2, <1>3, <2>1, ListFacts, EmptyOrNot
  <2>3. ASSUME NEW i \in 1 .. Len(q')
        PROVE  next[list'[i]] = list'[i + 1] /\ item[list'[i + 1]] = q'[i]
    <3>1. i + 1 \in 1 .. Len(q) /\ i \in 1 .. Len(list) - 1 /\ i + 1 \in 1 .. Len(list) - 1
          /\ i \in 1 .. Len(q) - 1
      BY <1>4, <2>1, ListFacts
    <3>2. list'[i] = list[i + 1] /\ list'[i + 1] = list[(i + 1) + 1] /\ q'[i] = q[i + 1]
      BY <1>3, <1>4, <3>1
    <3> QED BY <3>1, <3>2, ListFacts
  <2>4. list'[Len(list')] = list[Len(list)]
    <3>1. Len(list') \in 1 .. Len(list) - 1 /\ Len(list') + 1 = Len(list)
      BY <1>3, <2>1, ListFacts
    <3> QED BY <1>3, <3>1
  <2> QED BY <1>1, <2>1, <2>2, <2>3, <2>4 DEF DynIInv, Dyn!ListHoldsQueue
<1>8. DynShapes' /\ Len(q') < MaxLen
  <2>1. Len(q') < MaxLen
    BY <1>2, <1>4, ListFacts DEF DynShapes, Dyn!BoundAssumption
  <2>2. Len(q') <= MaxLen
    BY <1>4, <2>1 DEF Dyn!BoundAssumption
  <2> QED BY <1>1, <1>2, <1>3, <1>4, <2>1, <2>2 DEF DynShapes
<1>9. Pushing' /\ Popping'
  <2>1. old' \in Dyn!Nodes
    BY <1>1, <1>2, ListFacts
  <2> QED BY <1>1, <1>2, <1>8, <2>1 DEF Pushing, Popping
<1> QED BY <1>6, <1>7, <1>8, <1>9 DEF DynIInv

\* pop gives the old dummy back, to the cache or to free.
LEMMA RecycleIInv ==
  ASSUME Dyn!BoundAssumption, DynIInv, Dyn!popRecycle
  PROVE  DynIInv'
<1>1. /\ pcC = "recycle" /\ pcC' = "idle"
      /\ \/ Len(cache) < CacheSize /\ cache' = Append(cache, old) /\ UNCHANGED live
         \/ live' = live \ {old} /\ UNCHANGED cache
      /\ UNCHANGED <<next, item, head, tail, pcP, n, list, q, pushed, popped>>
  BY DEF Dyn!popRecycle
<1>2. DynShapes /\ Pushing /\ Dyn!OneUse /\ Dyn!ListHoldsQueue
      /\ old \in Dyn!Nodes /\ cache \in Seq(Dyn!Nodes)
  BY <1>1 DEF DynIInv, Popping, DynShapes
<1>3. Dyn!GivingBack = {old} /\ Dyn!GivingBack' = {} /\ Dyn!Linking' = Dyn!Linking
  BY <1>1 DEF Dyn!GivingBack, Dyn!Linking
<1>4. /\ old \notin Dyn!Range(list) /\ old \notin Dyn!Range(cache) /\ old \notin Dyn!Linking
      /\ live = Dyn!Range(list) \cup Dyn!Range(cache) \cup Dyn!Linking \cup {old}
  BY <1>2, <1>3 DEF Dyn!OneUse
<1>5. /\ Append(cache, old) \in Seq(Dyn!Nodes) /\ Len(Append(cache, old)) = Len(cache) + 1
      /\ Dyn!Range(Append(cache, old)) = Dyn!Range(cache) \cup {old}
      /\ Dyn!IsInjective(cache) => Dyn!IsInjective(Append(cache, old))
      /\ Len(cache) \in Nat /\ CacheSize \in Nat
  BY <1>2, <1>4, AppendOne DEF Dyn!BoundAssumption
<1>6. Dyn!OneUse'
  BY <1>1, <1>2, <1>3, <1>4, <1>5 DEF Dyn!OneUse
<1>7. Dyn!ListHoldsQueue'
  BY <1>1, <1>2 DEF Dyn!ListHoldsQueue
<1>8. DynShapes'
  <2>1. CASE Len(cache) < CacheSize /\ cache' = Append(cache, old) /\ UNCHANGED live
    <3>1. cache' \in Seq(Dyn!Nodes) /\ Len(cache') <= CacheSize
      BY <1>5, <2>1
    <3> QED BY <1>1, <1>2, <2>1, <3>1 DEF DynShapes
  <2>2. CASE live' = live \ {old} /\ UNCHANGED cache
    BY <1>1, <1>2, <2>2 DEF DynShapes
  <2> QED BY <1>1, <2>1, <2>2
<1>9. Pushing' /\ Popping'
  BY <1>1, <1>2 DEF Pushing, Popping
<1> QED BY <1>6, <1>7, <1>8, <1>9 DEF DynIInv

\* Every step keeps the invariant.
LEMMA DynStepIInv == ASSUME Dyn!BoundAssumption, DynIInv, [Dyn!Next]_(Dyn!vars) PROVE DynIInv'
<1>1. CASE UNCHANGED Dyn!vars
  BY <1>1 DEF Dyn!vars, DynIInv, DynShapes, Pushing, Popping,
              Dyn!ListHoldsQueue, Dyn!OneUse, Dyn!Linking, Dyn!GivingBack
<1>2. CASE Dyn!Next
  BY <1>2, FillIInv, LinkIInv, TailIInv, ReadIInv, HeadIInv, RecycleIInv DEF Dyn!Next
<1> QED BY <1>1, <1>2

\* The invariant holds in every state.
LEMMA DynInvariant == ASSUME Dyn!BoundAssumption PROVE Dyn!Spec => []DynIInv
<1>1. Dyn!Init => DynIInv
  BY DynInitIInv
<1>2. DynIInv /\ [Dyn!Next]_(Dyn!vars) => DynIInv'
  BY DynStepIInv
<1> QED BY <1>1, <1>2, PTL DEF Dyn!Spec

\* dynqueue: whatever the two threads are in the middle of, the links from the dummy on
\* lead through the queue.
THEOREM LinksHoldQueue == ASSUME Dyn!BoundAssumption PROVE Dyn!Spec => []Dyn!ListHoldsQueue
<1>1. DynIInv => Dyn!ListHoldsQueue
  BY DEF DynIInv
<1> QED BY <1>1, DynInvariant, PTL

\* A node of dynqueue is never used by two, and none is lost.
THEOREM NodesHaveOneUse == ASSUME Dyn!BoundAssumption PROVE Dyn!Spec => []Dyn!OneUse
<1>1. DynIInv => Dyn!OneUse
  BY DEF DynIInv
<1> QED BY <1>1, DynInvariant, PTL

\* dynqueue, together: the linked nodes hold the items, and each node has one use.
THEOREM LinksHoldItems == ASSUME Dyn!BoundAssumption PROVE Dyn!Spec => []Dyn!QueuesHoldItems
<1>1. Dyn!ListHoldsQueue /\ Dyn!OneUse => Dyn!QueuesHoldItems
  BY DEF Dyn!QueuesHoldItems
<1> QED BY <1>1, LinksHoldQueue, NodesHaveOneUse, PTL

\* The two unsynchronised threads of dynqueue implement an indivisible bounded queue.
THEOREM QueueInOrder == ASSUME Dyn!BoundAssumption PROVE Dyn!Spec => Dyn!ImplementsFifo
<1>1. Dyn!Init => Dyn!Fifo!FifoInit
  BY DEF Dyn!Init, Dyn!Fifo!FifoInit
<1>2. ASSUME DynIInv, [Dyn!Next]_(Dyn!vars) PROVE [Dyn!Fifo!FifoNext]_(Dyn!Fifo!fifoVars)
  <2>1. ASSUME NEW d \in Item, Dyn!pushFill(d) PROVE UNCHANGED Dyn!Fifo!fifoVars
    BY <2>1 DEF Dyn!pushFill, Dyn!Fifo!fifoVars
  <2>2. ASSUME Dyn!pushLink PROVE Dyn!Fifo!FifoNext
    <3>1. /\ q' = Append(q, item[n]) /\ pushed' = TRUE /\ popped' = popped
          /\ item[n] \in Item /\ Len(q) < MaxLen /\ q \in Seq(Item)
      BY <1>2, <2>2 DEF Dyn!pushLink, DynIInv, Pushing, DynShapes
    <3>2. q' = q \o <<item[n]>> /\ Len(<<item[n]>>) = 1
      BY <3>1
    <3>3. Len(q) + 1 <= MaxLen
      BY <1>2, <3>1, ListFacts DEF Dyn!BoundAssumption
    <3> QED BY <3>1, <3>2, <3>3 DEF Dyn!Fifo!FifoNext, Dyn!Fifo!Offer
  <2>3. ASSUME Dyn!pushTail PROVE UNCHANGED Dyn!Fifo!fifoVars
    BY <2>3 DEF Dyn!pushTail, Dyn!Fifo!fifoVars
  <2>4. ASSUME Dyn!popRead PROVE [Dyn!Fifo!FifoNext]_(Dyn!Fifo!fifoVars)
    BY <1>2, <2>4, EmptyOrNot DEF Dyn!popRead, Dyn!Fifo!fifoVars, Dyn!Fifo!FifoNext, Dyn!Fifo!Miss
  <2>5. ASSUME Dyn!popHead PROVE Dyn!Fifo!FifoNext
    <3>1. /\ q # <<>> /\ popped' = q[1] /\ q' = Tail(q) /\ pushed' = pushed /\ q \in Seq(Item)
      BY <1>2, <2>5 DEF Dyn!popHead, DynIInv, Popping, DynShapes
    <3>2. popped' = Head(q)
      BY <3>1
    <3> QED BY <3>1, <3>2 DEF Dyn!Fifo!FifoNext, Dyn!Fifo!Take
  <2>6. ASSUME Dyn!popRecycle PROVE UNCHANGED Dyn!Fifo!fifoVars
    BY <2>6 DEF Dyn!popRecycle, Dyn!Fifo!fifoVars
  <2>7. CASE UNCHANGED Dyn!vars
    BY <2>7 DEF Dyn!vars, Dyn!Fifo!fifoVars
  <2> QED BY <1>2, <2>1, <2>2, <2>3, <2>4, <2>5, <2>6, <2>7 DEF Dyn!Next
<1>3. DynIInv /\ [Dyn!Next]_(Dyn!vars) => [Dyn!Fifo!FifoNext]_(Dyn!Fifo!fifoVars)
  BY <1>2
<1> QED BY <1>1, <1>3, DynInvariant, PTL DEF Dyn!Spec, Dyn!ImplementsFifo, Dyn!Fifo!FifoSpec
=============================================================================
