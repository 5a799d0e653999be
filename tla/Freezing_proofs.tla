-------------------------- MODULE Freezing_proofs --------------------------
(***************************************************************************)
(* Proofs about the parts of FastFlow that are frozen and run again: the    *)
(* ordered farm, for any number of workers, tasks and runs and any length   *)
(* of the channels, whichever workers are woken, and the thread of a node.  *)
(***************************************************************************)
EXTENDS OrderedFarm, FiniteSetTheorems, TLAPS

-----------------------------------------------------------------------------
(* Lanes *)

\* What k rounds of turns add to the number of a task.
Row(k, n) == k * n

\* What a lane holds when c workers have their turn before it at the collector, who
\* has sent g tasks on, and e at the emitter, who has sent s, and there are n: every
\* n-th task from the first that is due to the last that was sent, and then, when
\* it is ending, the end of the stream.
Holds(lane, ending, g, c, s, e, n) ==
  LET m == Len(lane) - (IF ending THEN 1 ELSE 0)
  IN  /\ ending => lane # <<>> /\ lane[Len(lane)] = EOS
      /\ \A k \in 1 .. m : lane[k] = g + 1 + c + Row(k - 1, n)
      /\ g + c + Row(m, n) = s + e

\* The multiples of n.
LEMMA RowFacts ==
  ASSUME NEW n \in Nat \ {0}
  PROVE  /\ Row(0, n) = 0
         /\ \A k \in Nat : /\ Row(k, n) \in Nat /\ Row(k + 1, n) = Row(k, n) + n
                           /\ k # 0 => Row(k, n) >= n
<1>1. Row(0, n) = 0
  BY DEF Row
<1>2. ASSUME NEW k \in Nat PROVE Row(k, n) \in Nat
  BY DEF Row
<1>3. ASSUME NEW k \in Nat PROVE Row(k + 1, n) = Row(k, n) + n
  BY DEF Row
<1>4. ASSUME NEW k \in Nat, k # 0 PROVE Row(k, n) >= n
  <2>1. k - 1 \in Nat /\ k = (k - 1) + 1
    BY <1>4
  <2>2. Row(k, n) = Row(k - 1, n) + n
    BY <2>1, <1>3
  <2> QED BY <2>1, <2>2, <1>2
<1> QED BY <1>1, <1>2, <1>3, <1>4

\* An empty lane.
LEMMA HoldsNone ==
  ASSUME NEW n \in Nat \ {0}, NEW g \in Nat, NEW c \in Nat, NEW s \in Nat, NEW e \in Nat,
         g + c = s + e
  PROVE  Holds(<<>>, FALSE, g, c, s, e, n)
<1>1. Row(0, n) = 0
  BY RowFacts
<1>2. Len(<<>>) - 0 = 0
  OBVIOUS
<1>3. g + c + Row(0, n) = s + e
  BY <1>1
<1> QED BY <1>2, <1>3 DEF Holds

\* The turn of another moves on, at the emitter or at the collector.
LEMMA HoldsShift ==
  ASSUME NEW n \in Nat \ {0}, NEW lane \in Seq(Nat), NEW ending \in BOOLEAN,
         NEW g \in Nat, NEW c \in Nat, NEW s \in Nat, NEW e \in Nat,
         NEW g1 \in Nat, NEW c1 \in Nat, NEW s1 \in Nat, NEW e1 \in Nat,
         Holds(lane, ending, g, c, s, e, n), g1 + c1 = g + c, s1 + e1 = s + e
  PROVE  Holds(lane, ending, g1, c1, s1, e1, n)
<1> DEFINE m == Len(lane) - (IF ending THEN 1 ELSE 0)
<1>1. m \in Nat
  BY DEF Holds
<1>2. ASSUME NEW k \in 1 .. m PROVE lane[k] = g1 + 1 + c1 + Row(k - 1, n)
  <2>0. lane[k] = g + 1 + c + Row(k - 1, n)
    BY DEF Holds
  <2> HIDE DEF m
  <2>1. k - 1 \in Nat
    BY <1>1
  <2> DEFINE x == Row(k - 1, n)
  <2>2. x \in Nat
    BY <2>1, RowFacts
  <2>3. lane[k] = g + 1 + c + x
    BY <2>0
  <2> HIDE DEF x
  <2>4. lane[k] = g1 + 1 + c1 + x
    BY <2>2, <2>3
  <2> QED BY <2>4 DEF x
<1>3. Row(m, n) \in Nat
  BY <1>1, RowFacts
<1>4. g + c + Row(m, n) = s + e
  BY DEF Holds
<1>5. g1 + c1 + Row(m, n) = s1 + e1
  BY <1>3, <1>4
<1> QED BY <1>2, <1>5 DEF Holds

\* A task is sent to the worker that has its turn.
LEMMA HoldsSend ==
  ASSUME NEW n \in Nat \ {0}, NEW lane \in Seq(Nat), NEW g \in Nat, NEW c \in Nat,
         NEW s \in Nat, Holds(lane, FALSE, g, c, s, 0, n)
  PROVE  Holds(Append(lane, s + 1), FALSE, g, c, s + 1, n - 1, n)
<1> DEFINE m == Len(lane)
           longer == Append(lane, s + 1)
<1>1. /\ m \in Nat /\ \A k \in 1 .. m : lane[k] = g + 1 + c + Row(k - 1, n)
      /\ g + c + Row(m, n) = s + 0
  BY DEF Holds
<1>2. Row(m, n) \in Nat /\ Row(m + 1, n) = Row(m, n) + n
  BY <1>1, RowFacts
<1>3. Len(longer) = m + 1 /\ longer[m + 1] = s + 1 /\ \A k \in 1 .. m : longer[k] = lane[k]
  OBVIOUS
<1> HIDE DEF longer, m
<1>4. ASSUME NEW k \in 1 .. m + 1 PROVE longer[k] = g + 1 + c + Row(k - 1, n)
  <2>1. CASE k = m + 1
    <3>1. k - 1 = m /\ longer[k] = s + 1
      BY <1>1, <1>3, <2>1
    <3>2. g + c + Row(m, n) = s + 0
      BY <1>1
    <3> QED BY <1>2, <3>1, <3>2
  <2>2. CASE k # m + 1
    <3>1. k \in 1 .. m
      BY <2>2, <1>1
    <3> QED BY <3>1, <1>1, <1>3
  <2> QED BY <2>1, <2>2
<1>5. g + c + Row(m + 1, n) = s + 1 + (n - 1)
  <2> DEFINE x == Row(m, n)
             y == Row(m + 1, n)
  <2>1. g + c + x = s
    BY <1>1
  <2>2. x \in Nat /\ y = x + n
    BY <1>2
  <2> HIDE DEF x, y
  <2>3. g + c + y = s + 1 + (n - 1)
    BY <2>1, <2>2
  <2> QED BY <2>3 DEF y
<1>6. Len(longer) - 0 = m + 1
  BY <1>1, <1>3
<1>7. Holds(longer, FALSE, g, c, s + 1, n - 1, n)
  BY <1>4, <1>5, <1>6 DEF Holds
<1> QED BY <1>7 DEF longer

\* The end of stream is sent.
LEMMA HoldsClose ==
  ASSUME NEW n \in Nat \ {0}, NEW lane \in Seq(Nat), NEW g \in Nat, NEW c \in Nat,
         NEW s \in Nat, NEW e \in Nat, Holds(lane, FALSE, g, c, s, e, n)
  PROVE  Holds(Append(lane, EOS), TRUE, g, c, s, e, n)
<1> DEFINE m == Len(lane)
           longer == Append(lane, EOS)
<1>1. /\ m \in Nat /\ \A k \in 1 .. m : lane[k] = g + 1 + c + Row(k - 1, n)
      /\ g + c + Row(m, n) = s + e
  BY DEF Holds
<1>3. /\ Len(longer) = m + 1 /\ longer[m + 1] = EOS /\ \A k \in 1 .. m : longer[k] = lane[k]
      /\ longer # <<>>
  OBVIOUS
<1> HIDE DEF longer, m
<1>4. Len(longer) - 1 = m
  BY <1>1, <1>3
<1>7. Holds(longer, TRUE, g, c, s, e, n)
  BY <1>1, <1>3, <1>4 DEF Holds
<1> QED BY <1>7 DEF longer

\* The collector takes a task.
LEMMA HoldsTake ==
  ASSUME NEW n \in Nat \ {0}, NEW lane \in Seq(Nat), NEW ending \in BOOLEAN,
         NEW g \in Nat, NEW s \in Nat, NEW e \in 0 .. n - 1,
         Holds(lane, ending, g, 0, s, e, n), lane # <<>>, lane[1] # EOS
  PROVE  /\ lane[1] = g + 1 /\ g + 1 <= s
         /\ Holds(Tail(lane), ending, g + 1, n - 1, s, e, n)
<1> DEFINE b == IF ending THEN 1 ELSE 0
           m == Len(lane) - b
           rest == Tail(lane)
<1>0. Len(lane) \in Nat \ {0}
  OBVIOUS
<1>1. /\ ending => lane[Len(lane)] = EOS
      /\ \A k \in 1 .. m : lane[k] = g + 1 + 0 + Row(k - 1, n)
      /\ g + 0 + Row(m, n) = s + e
  BY DEF Holds
<1>2. m \in Nat \ {0}
  <2>1. CASE ending
    <3>1. Len(lane) # 1
      BY <1>1, <2>1
    <3> QED BY <1>0, <2>1, <3>1
  <2>2. CASE ~ending
    BY <1>0, <2>2
  <2> QED BY <2>1, <2>2
<1>3. /\ Row(0, n) = 0 /\ Row(m, n) \in Nat /\ Row(m, n) >= n
      /\ Row((m - 1) + 1, n) = Row(m - 1, n) + n
      /\ \A k \in Nat : Row(k, n) \in Nat /\ Row(k + 1, n) = Row(k, n) + n
  <2> HIDE DEF m
  <2>1. m - 1 \in Nat /\ m \in Nat
    BY <1>2
  <2> QED BY <1>2, <2>1, RowFacts
<1>4. lane[1] = g + 1
  <2> HIDE DEF m
  <2>1. 1 \in 1 .. m /\ 1 - 1 = 0
    BY <1>2
  <2> QED BY <2>1, <1>1, <1>3
<1>5. g + 1 <= s
  <2> HIDE DEF m
  <2>1. g + 0 + Row(m, n) = s + e
    BY <1>1
  <2>2. Row(m, n) \in Nat /\ Row(m, n) >= n
    BY <1>3
  <2> QED BY <2>1, <2>2
<1>6. rest \in Seq(Nat) /\ Len(rest) = Len(lane) - 1 /\ \A k \in 1 .. Len(rest) : rest[k] = lane[k + 1]
  BY <1>0
<1>7. ending => rest # <<>> /\ rest[Len(rest)] = EOS
  <2>1. ASSUME ending PROVE Len(rest) \in Nat \ {0} /\ rest[Len(rest)] = EOS
    <3>1. Len(rest) \in Nat \ {0} /\ Len(rest) + 1 = Len(lane)
      BY <1>0, <1>2, <1>6, <2>1
    <3>2. rest[Len(rest)] = lane[Len(rest) + 1]
      BY <1>6, <3>1
    <3> QED BY <1>1, <3>1, <3>2, <2>1
  <2> QED BY <2>1
<1>8. Len(rest) - b = m - 1
  BY <1>0, <1>6
<1>9. ASSUME NEW k \in 1 .. m - 1 PROVE rest[k] = g + 1 + 1 + (n - 1) + Row(k - 1, n)
  <2>1. k \in 1 .. Len(rest) /\ k + 1 \in 1 .. m /\ k - 1 \in Nat /\ (k + 1) - 1 = (k - 1) + 1
    BY <1>2, <1>6
  <2> HIDE DEF m, rest
  <2>2. rest[k] = lane[k + 1] /\ lane[k + 1] = g + 1 + 0 + Row((k - 1) + 1, n)
    BY <2>1, <1>1, <1>6
  <2>3. Row((k - 1) + 1, n) = Row(k - 1, n) + n /\ Row(k - 1, n) \in Nat
    BY <2>1, <1>3
  <2> QED BY <2>2, <2>3
<1>10. g + 1 + (n - 1) + Row(m - 1, n) = s + e
  <2> HIDE DEF m
  <2>1. m - 1 \in Nat /\ (m - 1) + 1 = m
    BY <1>2
  <2>2. Row(m, n) = Row(m - 1, n) + n /\ Row(m - 1, n) \in Nat
    BY <1>3, <2>1
  <2> QED BY <2>2, <1>1
<1>11. Holds(rest, ending, g + 1, n - 1, s, e, n)
  <2> HIDE DEF rest, m
  <2> DEFINE p == m - 1
  <2>1. Len(rest) - (IF ending THEN 1 ELSE 0) = p
    BY <1>8
  <2>2. \A k \in 1 .. p : rest[k] = g + 1 + 1 + (n - 1) + Row(k - 1, n)
    BY <1>9
  <2>3. g + 1 + (n - 1) + Row(p, n) = s + e
    BY <1>10
  <2> HIDE DEF p
  <2> QED BY <2>1, <2>2, <2>3, <1>7 DEF Holds
<1> QED BY <1>4, <1>5, <1>11 DEF rest

\* The collector meets the end of the stream: nothing is left in that lane.
LEMMA HoldsEnd ==
  ASSUME NEW n \in Nat \ {0}, NEW lane \in Seq(Nat), NEW ending \in BOOLEAN,
         NEW g \in Nat, NEW c \in Nat, NEW s \in Nat, NEW e \in Nat,
         Holds(lane, ending, g, c, s, e, n), lane # <<>>, lane[1] = EOS
  PROVE  ending /\ Len(lane) = 1 /\ g + c = s + e
<1> DEFINE m == Len(lane) - (IF ending THEN 1 ELSE 0)
<1>1. \A k \in 1 .. m : lane[k] = g + 1 + c + Row(k - 1, n)
  BY DEF Holds
<1>2. m \in Nat /\ Len(lane) \in Nat \ {0}
  BY DEF Holds
<1>3. ~(1 \in 1 .. m)
  <2>1. Row(0, n) = 0
    BY RowFacts
  <2>2. 1 \in 1 .. m => lane[1] = g + 1 + c + Row(0, n)
    BY <1>1
  <2> QED BY <2>1, <2>2 DEF EOS
<1>4. m = 0 /\ ending /\ Len(lane) = 1
  <2>0. ASSUME NEW d \in Nat, ~(1 \in 1 .. d) PROVE d = 0
    BY <2>0
  <2>3. m = 0
    <3> HIDE DEF m
    <3> QED BY <2>0, <1>2, <1>3
  <2>1. CASE ending
    BY <2>1, <2>3, <1>2
  <2>2. CASE ~ending
    BY <2>2, <2>3, <1>2
  <2> QED BY <2>1, <2>2
<1>5. Row(0, n) = 0 /\ g + c + Row(0, n) = s + e
  BY <1>4, RowFacts DEF Holds
<1> QED BY <1>4, <1>5

\* When every task sent has been sent on, a lane has no task.
LEMMA HoldsNothing ==
  ASSUME NEW n \in Nat \ {0}, NEW lane \in Seq(Nat), NEW ending \in BOOLEAN,
         NEW g \in Nat, NEW c \in Nat, Holds(lane, ending, g, c, g, c, n)
  PROVE  Len(lane) = (IF ending THEN 1 ELSE 0)
<1> DEFINE m == Len(lane) - (IF ending THEN 1 ELSE 0)
<1>1. m \in Nat
  BY DEF Holds
<1>2. g + c + Row(m, n) = g + c
  BY DEF Holds
<1>3. m # 0 => Row(m, n) >= n
  BY <1>1, RowFacts
<1>4. Row(m, n) \in Nat
  BY <1>1, RowFacts
<1>5. m = 0
  <2> HIDE DEF m
  <2> QED BY <1>1, <1>2, <1>3, <1>4
<1> QED BY <1>5

-----------------------------------------------------------------------------
(* The invariant *)

\* The ends of stream and the tasks that the collector has sent on.
Ended == IF cpc = "frozen" THEN round ELSE round - 1

Got == Len(out) - Ended

\* How many workers have their turn before w when x has it.
Off(w, x) == IF x <= w THEN w - x ELSE w - x + running

\* To how many workers the end of stream was sent, and from how many it came.
Told == IF epc = "frozen" THEN running ELSE bpos

Done == IF cpc = "frozen" THEN running ELSE neos

\* Where the collector's turn was before it met the first end of stream: when all
\* tasks are out, where the emitter's is.
Turn == IF Done = 0 THEN nextoneC ELSE nextoneE

\* The end of stream is in the lane of w.
Ending(w) == Off(w, nextoneE) >= Done /\ Off(w, nextoneE) < Told

\* The lane of w holds what it owes the collector.
LaneHolds(w) ==
  Holds(Lane(w), Ending(w), Got, Off(w, Turn), sent, Off(w, nextoneE), running)

\* A worker freezes after the end of stream, and only then.
Working(w) ==
  /\ wpc[w] = "frozen" => Off(w, nextoneE) < Told /\ q[w] = <<>>
  /\ wpc[w] = "pop" => /\ Off(w, nextoneE) >= Done
                       /\ Off(w, nextoneE) < Told => q[w] # <<>>

\* A worker that was not woken, or that froze and whose lane is empty.
Asleep(w) == wpc[w] = "frozen" /\ q[w] = <<>> /\ r[w] = <<>>

\* The emitter's two records of its turn agree while it sends; the ends of stream
\* follow the last task.
Emitting ==
  /\ nextoneE < running
  /\ epc = "svc" => victimE = nextoneE
  /\ epc # "svc" => bpos = 0
  /\ bpos <= running
  /\ Told > 0 => sent = NTasks * round

\* So do the collector's; when it has met an end of stream every task is out, and
\* the workers whose end it has met are those before its turn.
Collecting ==
  /\ cpc = "gather" => victimC = nextoneC /\ dead = {w \in Active : Off(w, nextoneE) < neos}
  /\ cpc # "gather" => neos = 0
  /\ neos < running
  /\ Done <= Told
  /\ Done > 0 => Got = sent
  /\ Done > 0 /\ Done < running => Off(nextoneC, nextoneE) = Done
  /\ Done = running => nextoneC = nextoneE

\* The tasks of the runs before are out.
Counting ==
  /\ NTasks * (round - 1) <= Got /\ Got <= sent /\ sent <= NTasks * round
  /\ cpc = "frozen" => out # <<>> /\ out[Len(out)] = EOS

\* A run in which the worker that has the turn was woken.
GoodRun ==
  /\ Emitting /\ Collecting /\ Counting
  /\ \A w \in Active : LaneHolds(w) /\ Working(w)
  /\ \A w \in Workers \ Active : Asleep(w)

\* One in which it sleeps: the collector waits for it.
StuckRun ==
  /\ cpc # "frozen" /\ (cpc = "gather" => victimC = nextoneC)
  /\ r[nextoneC] = <<>> /\ wpc[nextoneC] = "frozen"

\* A frozen farm: nobody has anything, both turns are the same.
Resting ==
  /\ \A w \in Workers : Asleep(w)
  /\ epc = "frozen" /\ cpc = "frozen" /\ bpos = 0 /\ neos = 0
  /\ nextoneE = nextoneC /\ Got = sent /\ sent = NTasks * round
  /\ out # <<>> /\ out[Len(out)] = EOS

\* Where the variables range.
Types ==
  /\ q \in [Workers -> Seq(Nat)] /\ r \in [Workers -> Seq(Nat)]
  /\ hold \in [Workers -> Nat]
  /\ wpc \in [Workers -> {"pop", "push", "frozen"}]
  /\ epc \in {"init", "svc", "frozen"} /\ cpc \in {"init", "gather", "frozen"}
  /\ nextoneE \in Workers /\ victimE \in Workers
  /\ nextoneC \in Workers /\ victimC \in Workers
  /\ dead \subseteq Workers /\ neos \in 0 .. NWorkers /\ bpos \in Nat
  /\ running \in (1 .. NWorkers) \union {-1}
  /\ running \in Subsets \union {-1, NWorkers}
  /\ round \in 1 .. Rounds /\ sent \in Nat /\ out \in Seq(Nat)
  /\ \A w \in Workers : Len(q[w]) <= Size /\ Len(r[w]) <= Size

\* The inductive invariant: what a run is depends on whether the worker that has the
\* collector's turn was woken.
IInv ==
  /\ Types /\ ResultsInOrder
  /\ running = -1 => Resting
  /\ running # -1 /\ nextoneC < running => GoodRun
  /\ running # -1 /\ nextoneC >= running => StuckRun

-----------------------------------------------------------------------------
(* Turns *)

\* The worker after x.
LEMMA NextTurn ==
  ASSUME NEW n \in Nat \ {0}, NEW x \in 0 .. n - 1
  PROVE  (x + 1) % n = IF x + 1 = n THEN 0 ELSE x + 1
OBVIOUS

\* Whoever is before x, or x itself, is one nearer to its turn, or the last, when
\* the turn of x has passed.
LEMMA OffFacts ==
  ASSUME running \in Nat \ {0}, NEW x \in 0 .. running - 1, NEW w \in 0 .. running - 1
  PROVE  /\ Off(w, x) \in 0 .. running - 1
         /\ Off(w, x) = 0 <=> w = x
         /\ (x + 1) % running \in 0 .. running - 1
         /\ Off(w, (x + 1) % running) = (IF w = x THEN running - 1 ELSE Off(w, x) - 1)
         /\ Off(w, x) < running - 1 => Off((w + 1) % running, x) = Off(w, x) + 1
         /\ Off(w, x) = running - 1 => (w + 1) % running = x
         /\ \A v \in 0 .. running - 1 : Off(v, x) = Off(w, x) => v = w
<1> DEFINE y == (x + 1) % running
           v == (w + 1) % running
<1>1. y = IF x + 1 = running THEN 0 ELSE x + 1
  BY NextTurn
<1>2. v = IF w + 1 = running THEN 0 ELSE w + 1
  BY NextTurn
<1> HIDE DEF y, v
<1>3. /\ Off(w, x) \in 0 .. running - 1
      /\ Off(w, x) = 0 <=> w = x
      /\ y \in 0 .. running - 1
      /\ Off(w, y) = (IF w = x THEN running - 1 ELSE Off(w, x) - 1)
      /\ Off(w, x) < running - 1 => Off(v, x) = Off(w, x) + 1
      /\ Off(w, x) = running - 1 => v = x
      /\ \A z \in 0 .. running - 1 : Off(z, x) = Off(w, x) => z = w
  BY <1>1, <1>2 DEF Off
<1> QED BY <1>3 DEF y, v

-----------------------------------------------------------------------------
(* The lanes of the workers *)

\* Sequences of the same length with the same items are the same.
LEMMA SameItems ==
  ASSUME NEW x \in Seq(Nat), NEW y \in Seq(Nat), Len(x) = Len(y),
         \A i \in 1 .. Len(x) : x[i] = y[i]
  PROVE  x = y
OBVIOUS

\* Sequences that are joined.
LEMMA JoinFacts ==
  ASSUME NEW a \in Seq(Nat), NEW b \in Seq(Nat), NEW c \in Seq(Nat)
  PROVE  /\ a \o b \in Seq(Nat) /\ a \o b \o c \in Seq(Nat)
         /\ Len(a \o b \o c) = Len(a) + Len(b) + Len(c)
         /\ c # <<>> => (a \o b \o c)[Len(a \o b \o c)] = c[Len(c)]
         /\ a # <<>> => (a \o b \o c)[1] = Head(a)
<1> DEFINE d == a \o b
<1>1. d \in Seq(Nat) /\ Len(d) = Len(a) + Len(b)
  OBVIOUS
<1>2. a # <<>> => d # <<>> /\ d[1] = Head(a)
  OBVIOUS
<1>3. ASSUME NEW x \in Seq(Nat)
      PROVE  /\ x \o c \in Seq(Nat) /\ Len(x \o c) = Len(x) + Len(c)
             /\ x # <<>> => (x \o c)[1] = x[1]
             /\ c # <<>> => (x \o c)[Len(x) + Len(c)] = c[Len(c)]
  <2>1. x \o c \in Seq(Nat) /\ Len(x \o c) = Len(x) + Len(c)
    OBVIOUS
  <2>2. x # <<>> => (x \o c)[1] = x[1]
    OBVIOUS
  <2>3. ASSUME c # <<>> PROVE (x \o c)[Len(x) + Len(c)] = c[Len(c)]
    <3>1. Len(c) \in Nat \ {0} /\ Len(x) \in Nat
      BY <2>3
    <3>2. \A i \in 1 .. Len(x) + Len(c) : (x \o c)[i] = IF i <= Len(x) THEN x[i] ELSE c[i - Len(x)]
      OBVIOUS
    <3>3. Len(x) + Len(c) \in 1 .. Len(x) + Len(c) /\ (Len(x) + Len(c)) - Len(x) = Len(c)
          /\ ~(Len(x) + Len(c) <= Len(x))
      BY <3>1
    <3> QED BY <3>2, <3>3
  <2> QED BY <2>1, <2>2, <2>3
<1> HIDE DEF d
<1>4. /\ d \o c \in Seq(Nat) /\ Len(d \o c) = Len(d) + Len(c)
      /\ d # <<>> => (d \o c)[1] = d[1]
      /\ c # <<>> => (d \o c)[Len(d) + Len(c)] = c[Len(c)]
  BY <1>1, <1>3, Zenon
<1>5. Len(d \o c) = Len(a) + Len(b) + Len(c)
  BY <1>1, <1>4
<1>6. a # <<>> => (d \o c)[1] = Head(a)
  BY <1>2, <1>4, Zenon
<1>7. c # <<>> => (d \o c)[Len(d \o c)] = c[Len(c)]
  BY <1>4, Zenon
<1> QED BY <1>1, <1>4, <1>5, <1>6, <1>7 DEF d

\* An item added to the second of two is added to both.
LEMMA JoinAppend ==
  ASSUME NEW a \in Seq(Nat), NEW b \in Seq(Nat), NEW t \in Nat
  PROVE  a \o Append(b, t) = Append(a \o b, t)
<1> DEFINE x == a \o Append(b, t)
           y == Append(a \o b, t)
<1>1. /\ x \in Seq(Nat) /\ Len(x) = Len(a) + Len(b) + 1
      /\ y \in Seq(Nat) /\ Len(y) = Len(a) + Len(b) + 1
  OBVIOUS
<1>2. ASSUME NEW i \in 1 .. Len(a) + Len(b) + 1 PROVE x[i] = y[i]
  OBVIOUS
<1> HIDE DEF x, y
<1>3. x = y
  BY <1>1, <1>2
<1> QED BY <1>3 DEF x, y

\* What is taken from the first of two is taken from both.
LEMMA JoinTail ==
  ASSUME NEW a \in Seq(Nat), NEW b \in Seq(Nat), a # <<>>
  PROVE  a \o b # <<>> /\ Tail(a) \o b = Tail(a \o b) /\ a \o b \in Seq(Nat) /\ Tail(a) \in Seq(Nat)
<1> DEFINE x == Tail(a) \o b
           y == Tail(a \o b)
<1>1. a \o b # <<>> /\ a \o b \in Seq(Nat) /\ Tail(a) \in Seq(Nat)
      /\ Len(Tail(a)) = Len(a) - 1 /\ Len(a \o b) = Len(a) + Len(b) /\ Len(a) \in Nat \ {0}
  OBVIOUS
<1>2. /\ x \in Seq(Nat) /\ Len(x) = (Len(a) - 1) + Len(b)
      /\ y \in Seq(Nat) /\ Len(y) = (Len(a) - 1) + Len(b)
  BY <1>1
<1>3. ASSUME NEW i \in 1 .. (Len(a) - 1) + Len(b) PROVE x[i] = y[i]
  <2>1. y[i] = (a \o b)[i + 1]
    BY <1>1, <1>2
  <2>2. x[i] = IF i <= Len(a) - 1 THEN a[i + 1] ELSE b[i - (Len(a) - 1)]
    BY <1>1
  <2>3. (a \o b)[i + 1] = IF i + 1 <= Len(a) THEN a[i + 1] ELSE b[(i + 1) - Len(a)]
    BY <1>1
  <2>4. i - (Len(a) - 1) = (i + 1) - Len(a) /\ (i <= Len(a) - 1 <=> i + 1 <= Len(a))
    BY <1>1
  <2> QED BY <2>1, <2>2, <2>3, <2>4
<1> HIDE DEF x, y
<1>4. Len(x) = Len(y) /\ \A i \in 1 .. Len(x) : x[i] = y[i]
  BY <1>2, <1>3
<1>5. x = y
  BY <1>2, <1>4, SameItems, Zenon
<1> QED BY <1>1, <1>5 DEF x, y

\* A lane is made of the two channels and of what the worker holds.
LEMMA LaneType ==
  ASSUME Types, NEW w \in Workers
  PROVE  /\ Lane(w) \in Seq(Nat)
         /\ Len(Lane(w)) = Len(r[w]) + (IF wpc[w] = "push" THEN 1 ELSE 0) + Len(q[w])
         /\ q[w] # <<>> => Lane(w)[Len(Lane(w))] = q[w][Len(q[w])]
         /\ r[w] # <<>> => Lane(w)[1] = Head(r[w])
<1> DEFINE h == IF wpc[w] = "push" THEN <<hold[w]>> ELSE <<>>
<1>1. q[w] \in Seq(Nat) /\ r[w] \in Seq(Nat) /\ h \in Seq(Nat)
      /\ Len(h) = (IF wpc[w] = "push" THEN 1 ELSE 0)
  BY DEF Types
<1>2. Lane(w) = r[w] \o h \o q[w]
  BY DEF Lane
<1> HIDE DEF h
<1>3. /\ r[w] \o h \o q[w] \in Seq(Nat)
      /\ Len(r[w] \o h \o q[w]) = Len(r[w]) + Len(h) + Len(q[w])
      /\ q[w] # <<>> => (r[w] \o h \o q[w])[Len(r[w] \o h \o q[w])] = q[w][Len(q[w])]
      /\ r[w] # <<>> => (r[w] \o h \o q[w])[1] = Head(r[w])
  <2>1. PICK a \in Seq(Nat), b \in Seq(Nat), c \in Seq(Nat) : a = r[w] /\ b = h /\ c = q[w]
    BY <1>1
  <2>2. /\ a \o b \o c \in Seq(Nat) /\ Len(a \o b \o c) = Len(a) + Len(b) + Len(c)
        /\ c # <<>> => (a \o b \o c)[Len(a \o b \o c)] = c[Len(c)]
        /\ a # <<>> => (a \o b \o c)[1] = Head(a)
    BY JoinFacts
  <2> QED BY <2>1, <2>2
<1> QED BY <1>1, <1>2, <1>3, Zenon

\* An item enters at the emitter's end.
LEMMA LanePut ==
  ASSUME Types, NEW v \in Workers, NEW t \in Nat, q' = Put(q, v, t),
         r' = r, wpc' = wpc, hold' = hold
  PROVE  /\ Lane(v)' = Append(Lane(v), t) /\ q'[v] # <<>>
         /\ \A w \in Workers \ {v} : Lane(w)' = Lane(w) /\ q'[w] = q[w]
<1>1. /\ q[v] \in Seq(Nat) /\ q'[v] = Append(q[v], t) /\ \A w \in Workers \ {v} : q'[w] = q[w]
      /\ r' = r /\ wpc' = wpc /\ hold' = hold
  BY DEF Types, Put
<1> DEFINE h == r[v] \o (IF wpc[v] = "push" THEN <<hold[v]>> ELSE <<>>)
<1>2. h \in Seq(Nat)
  BY DEF Types
<1>3. Lane(v) = h \o q[v] /\ Lane(v)' = h \o q'[v]
  BY <1>1 DEF Lane
<1> HIDE DEF h
<1>4. h \o Append(q[v], t) = Append(h \o q[v], t)
  BY <1>1, <1>2, JoinAppend, Zenon
<1>5. \A w \in Workers \ {v} : Lane(w)' = Lane(w)
  BY <1>1 DEF Lane
<1>6. Append(q[v], t) # <<>>
  BY <1>1
<1>7. Lane(v)' = Append(Lane(v), t)
  BY <1>1, <1>3, <1>4, Zenon
<1> QED BY <1>1, <1>5, <1>6, <1>7, Zenon

\* One leaves at the collector's.
LEMMA LaneGet ==
  ASSUME Types, NEW v \in Workers, r[v] # <<>>, r' = [r EXCEPT ![v] = Tail(@)],
         q' = q, wpc' = wpc, hold' = hold
  PROVE  /\ Lane(v) # <<>> /\ Lane(v)[1] = Head(r[v]) /\ Lane(v)' = Tail(Lane(v))
         /\ \A w \in Workers \ {v} : Lane(w)' = Lane(w) /\ r'[w] = r[w]
<1>1. /\ r[v] \in Seq(Nat) /\ r'[v] = Tail(r[v]) /\ \A w \in Workers \ {v} : r'[w] = r[w]
      /\ q' = q /\ wpc' = wpc /\ hold' = hold /\ q[v] \in Seq(Nat)
  BY DEF Types
<1> DEFINE h == IF wpc[v] = "push" THEN <<hold[v]>> ELSE <<>>
<1>2. h \in Seq(Nat)
  BY DEF Types
<1>3. Lane(v) = r[v] \o h \o q[v] /\ Lane(v)' = r'[v] \o h \o q[v]
  BY <1>1 DEF Lane
<1> HIDE DEF h
<1>5. r[v] \o h # <<>> /\ Tail(r[v]) \o h = Tail(r[v] \o h) /\ r[v] \o h \in Seq(Nat)
  BY <1>1, <1>2, JoinTail, Zenon
<1>8. (r[v] \o h) \o q[v] # <<>> /\ Tail(r[v] \o h) \o q[v] = Tail((r[v] \o h) \o q[v])
  BY <1>1, <1>5, JoinTail, Zenon
<1>6. Lane(v)' = Tail(Lane(v)) /\ Lane(v) # <<>>
  BY <1>1, <1>3, <1>5, <1>8, Zenon
<1>7. \A w \in Workers \ {v} : Lane(w)' = Lane(w)
  BY <1>1 DEF Lane
<1> QED BY <1>1, <1>6, <1>7, LaneType

\* A worker passes an item on: its lane stays what it is.
LEMMA LanePop ==
  ASSUME Types, NEW v \in Workers, wpc[v] = "pop", q[v] # <<>>,
         hold' = [hold EXCEPT ![v] = Head(q[v])], q' = [q EXCEPT ![v] = Tail(@)],
         wpc' = [wpc EXCEPT ![v] = "push"], r' = r
  PROVE  \A w \in Workers : Lane(w)' = Lane(w)
<1>1. /\ q[v] \in Seq(Nat) /\ r[v] \in Seq(Nat) /\ q'[v] = Tail(q[v]) /\ wpc'[v] = "push"
      /\ hold'[v] = Head(q[v]) /\ r' = r
      /\ \A w \in Workers \ {v} : q'[w] = q[w] /\ wpc'[w] = wpc[w] /\ hold'[w] = hold[w]
  BY DEF Types
<1>2. Lane(v) = r[v] \o <<>> \o q[v] /\ Lane(v)' = r[v] \o <<Head(q[v])>> \o Tail(q[v])
  BY <1>1 DEF Lane
<1>3. ASSUME NEW a \in Seq(Nat), NEW b \in Seq(Nat), b # <<>>
      PROVE  a \o <<>> \o b = a \o <<Head(b)>> \o Tail(b)
  <2>1. a \o <<>> = a
    OBVIOUS
  <2>2. Head(b) \in Nat /\ Tail(b) \in Seq(Nat) /\ <<Head(b)>> \in Seq(Nat) /\ Len(<<Head(b)>>) = 1
    BY <1>3
  <2>3. a \o <<Head(b)>> \in Seq(Nat) /\ Len(a \o <<Head(b)>>) = Len(a) + 1
    BY <2>2
  <2>4. Len(a \o b) = Len(a) + Len(b) /\ Len((a \o <<Head(b)>>) \o Tail(b)) = Len(a) + Len(b)
    BY <1>3, <2>2, <2>3
  <2>5. ASSUME NEW i \in 1 .. Len(a) + Len(b)
        PROVE  (a \o b)[i] = ((a \o <<Head(b)>>) \o Tail(b))[i]
    BY <1>3, <2>2, <2>3
  <2>6. a \o b = (a \o <<Head(b)>>) \o Tail(b)
    <3>1. a \o b \in Seq(Nat) /\ (a \o <<Head(b)>>) \o Tail(b) \in Seq(Nat)
      BY <2>2, <2>3
    <3>2. \A i \in 1 .. Len(a \o b) : (a \o b)[i] = ((a \o <<Head(b)>>) \o Tail(b))[i]
      BY <2>4, <2>5
    <3> QED BY <2>4, <3>1, <3>2, SameItems, Zenon
  <2> QED BY <2>1, <2>6
<1>4. Lane(v)' = Lane(v)
  BY <1>1, <1>2, <1>3
<1>5. ASSUME NEW w \in Workers \ {v} PROVE Lane(w)' = Lane(w)
  <2>1. q'[w] = q[w] /\ wpc'[w] = wpc[w] /\ hold'[w] = hold[w] /\ r'[w] = r[w]
    BY <1>1
  <2>2. Lane(w)' = r'[w] \o (IF wpc'[w] = "push" THEN <<hold'[w]>> ELSE <<>>) \o q'[w]
    BY DEF Lane
  <2>3. Lane(w) = r[w] \o (IF wpc[w] = "push" THEN <<hold[w]>> ELSE <<>>) \o q[w]
    BY DEF Lane
  <2> QED BY <2>1, <2>2, <2>3, Zenon
<1> QED BY <1>4, <1>5

\* It hands the item to the collector: the same.
LEMMA LanePush ==
  ASSUME Types, NEW v \in Workers, wpc[v] = "push", r' = Put(r, v, hold[v]), wpc'[v] # "push",
         \A w \in Workers \ {v} : wpc'[w] = wpc[w] /\ hold'[w] = hold[w], q' = q
  PROVE  \A w \in Workers : Lane(w)' = Lane(w)
<1>1. /\ q[v] \in Seq(Nat) /\ r[v] \in Seq(Nat) /\ r'[v] = Append(r[v], hold[v]) /\ q'[v] = q[v]
      /\ \A w \in Workers \ {v} : r'[w] = r[w]
      /\ hold[v] \in Nat
  BY DEF Types, Put
<1>2. Lane(v) = r[v] \o <<hold[v]>> \o q[v] /\ Lane(v)' = Append(r[v], hold[v]) \o <<>> \o q[v]
  BY <1>1 DEF Lane
<1>3. r[v] \o <<hold[v]>> = Append(r[v], hold[v]) /\ Append(r[v], hold[v]) \o <<>> = Append(r[v], hold[v])
  BY <1>1
<1>4. Lane(v)' = Lane(v)
  BY <1>2, <1>3
<1> QED BY <1>1, <1>4 DEF Lane

-----------------------------------------------------------------------------
(* Steps of a run in which the turn is awake *)

\* A state of a run in which the turn is awake.
Awake == OrderedFarmAssumption /\ Types /\ running # -1 /\ nextoneC < running /\ GoodRun

\* The tasks of k runs.
LEMMA RoundFacts ==
  ASSUME OrderedFarmAssumption, NEW k \in Nat \ {0}
  PROVE  /\ NTasks * k \in Nat /\ NTasks * (k - 1) \in Nat
         /\ NTasks * k = NTasks * (k - 1) + NTasks
         /\ (NTasks + 1) * k = NTasks * k + k
         /\ (k - 1) * (NTasks + 1) = NTasks * (k - 1) + (k - 1)
         /\ (k - 1) * NTasks = NTasks * (k - 1)
<1>1. NTasks \in Nat
  BY DEF OrderedFarmAssumption
<1>2. ASSUME NEW a \in Nat, NEW b \in Nat PROVE a * b \in Nat
  OBVIOUS
<1>3. k - 1 \in Nat
  OBVIOUS
<1>4. NTasks * k \in Nat /\ NTasks * (k - 1) \in Nat
  BY <1>1, <1>2, <1>3
<1>5. NTasks * k = NTasks * (k - 1) + NTasks
  BY <1>1
<1>6. (NTasks + 1) * k = NTasks * k + k
  BY <1>1
<1>7. (k - 1) * (NTasks + 1) = NTasks * (k - 1) + (k - 1)
  BY <1>1
<1>8. (k - 1) * NTasks = NTasks * (k - 1)
  BY <1>1
<1> QED BY <1>4, <1>5, <1>6, <1>7, <1>8

\* What the parts of the invariant range over.
LEMMA AwakeFacts ==
  ASSUME Awake
  PROVE  /\ running \in 1 .. NWorkers /\ running \in Nat \ {0} /\ NWorkers \in Nat \ {0}
         /\ Active = 0 .. running - 1 /\ Active \subseteq Workers
         /\ nextoneE \in Active /\ nextoneC \in Active /\ Turn \in Active
         /\ Told \in 0 .. running /\ Done \in 0 .. running
         /\ Got \in Nat /\ sent \in Nat /\ NTasks * round \in Nat
<1>1. running \in 1 .. NWorkers /\ running \in Nat \ {0} /\ NWorkers \in Nat \ {0}
  BY DEF Awake, Types, OrderedFarmAssumption
<1>2. Active = 0 .. running - 1 /\ Active \subseteq Workers
  BY <1>1 DEF Active, Workers
<1>3. nextoneE \in Active /\ nextoneC \in Active
  BY <1>1, <1>2 DEF Awake, Types, GoodRun, Emitting, Workers
<1>4. Turn \in Active
  BY <1>3 DEF Turn
<1>5. Told \in 0 .. running
  BY <1>1 DEF Told, Awake, Types, GoodRun, Emitting
<1>6. Done \in 0 .. running
  BY <1>1 DEF Done, Awake, Types, GoodRun, Collecting
<1>7. round \in Nat \ {0} /\ sent \in Nat
  BY DEF Awake, Types
<1>8. NTasks * (round - 1) \in Nat /\ NTasks * round \in Nat
  BY <1>7, RoundFacts DEF Awake
<1>9. Got \in Int
  BY <1>7 DEF Got, Ended, Awake, Types
<1>10. Got \in Nat
  BY <1>8, <1>9 DEF Awake, GoodRun, Counting
<1> QED BY <1>1, <1>2, <1>3, <1>4, <1>5, <1>6, <1>7, <1>8, <1>10

\* The emitter starts where it stopped.
LEMMA AwakeEmitterInit == ASSUME Awake, EmitterInit PROVE GoodRun'
<1>1. /\ epc = "init" /\ epc' = "svc" /\ victimE' = nextoneE
      /\ UNCHANGED <<channels, workers, collector, bpos, nextoneE, running, round, sent, out>>
  BY DEF EmitterInit
<1> USE DEF channels, workers, collector
<1>2. Told' = Told /\ Done' = Done /\ Got' = Got /\ Turn' = Turn /\ Active' = Active
  BY <1>1 DEF Told, Done, Got, Ended, Turn, Active
<1>3. \A w, x : Off(w, x)' = Off(w, x)
  BY <1>1 DEF Off
<1>4. Emitting'
  BY <1>1, <1>2 DEF Awake, GoodRun, Emitting
<1>5. Collecting'
  BY <1>1, <1>2 DEF Awake, GoodRun, Collecting, Off
<1>6. Counting'
  BY <1>1, <1>2 DEF Awake, GoodRun, Counting
<1>7. ASSUME NEW w \in Active PROVE LaneHolds(w)' /\ Working(w)'
  <2>1. Off(w, nextoneE)' = Off(w, nextoneE) /\ Off(w, Turn)' = Off(w, Turn)
    BY <1>1, <1>2 DEF Off
  <2>2. (Ending(w)' <=> Ending(w)) /\ Lane(w)' = Lane(w)
    BY <1>1, <1>2, <2>1 DEF Ending, Lane
  <2>3. Ending(w)' = Ending(w)
    BY <2>2 DEF Ending
  <2>4. LaneHolds(w)'
    BY <1>1, <1>2, <2>1, <2>2, <2>3 DEF LaneHolds, Awake, GoodRun
  <2>5. Working(w)'
    BY <1>1, <1>2, <2>1 DEF Working, Awake, GoodRun
  <2> QED BY <2>4, <2>5
<1>8. \A w \in Workers \ Active : Asleep(w)'
  BY <1>1 DEF Awake, GoodRun, Asleep
<1> QED BY <1>2, <1>4, <1>5, <1>6, <1>7, <1>8 DEF GoodRun

\* The order of the turns, for the workers of the run.
LEMMA OffActive ==
  ASSUME Awake, NEW x \in Active, NEW w \in Active
  PROVE  /\ Off(w, x) \in Nat /\ Off(w, x) <= running - 1
         /\ Off(w, x) = 0 <=> w = x
         /\ (x + 1) % running \in Active
         /\ Off(w, (x + 1) % running) = (IF w = x THEN running - 1 ELSE Off(w, x) - 1)
         /\ Off(w, x) < running - 1 => Off((w + 1) % running, x) = Off(w, x) + 1
         /\ Off(w, x) = running - 1 => (w + 1) % running = x
         /\ \A v \in Active : Off(v, x) = Off(w, x) => v = w
<1>1. running \in Nat \ {0} /\ Active = 0 .. running - 1
  BY AwakeFacts
<1>2. x \in 0 .. running - 1 /\ w \in 0 .. running - 1
  BY <1>1
<1>3. Off(w, x) \in 0 .. running - 1
  BY <1>1, <1>2, OffFacts
<1> QED BY <1>1, <1>2, <1>3, OffFacts

\* What a worker waits for when the turn moves on.
LEMMA OffNext ==
  ASSUME Awake, NEW x \in Active, NEW w \in Active
  PROVE  Off(w, (x + 1) % running) = (IF w = x THEN running - 1 ELSE Off(w, x) - 1)
BY OffActive

\* No end of stream was sent yet: nor has the collector seen one.
LEMMA NoneTold ==
  ASSUME Awake, epc = "svc", bpos = 0
  PROVE  Told = 0 /\ Done = 0 /\ Turn = nextoneC /\ \A w \in Active : ~Ending(w)
<1>1. Told = 0
  BY DEF Told
<1>2. Done = 0
  BY <1>1, AwakeFacts DEF Awake, GoodRun, Collecting
<1>3. \A w \in Active : Off(w, nextoneE) \in Nat
  BY AwakeFacts, OffActive
<1>4. \A w \in Active : ~Ending(w)
  BY <1>1, <1>3 DEF Ending
<1> QED BY <1>1, <1>2, <1>4 DEF Turn

\* The task goes to the worker whose turn it is at the emitter.
LEMMA AwakeSend ==
  ASSUME Awake, Send
  PROVE  GoodRun' /\ nextoneC' < running' /\ q' \in [Workers -> Seq(Nat)] /\ sent' \in Nat
         /\ nextoneE' \in Workers /\ victimE' \in Workers
<1>1. /\ epc = "svc" /\ sent < NTasks * round /\ Room(q, victimE)
      /\ sent' = sent + 1 /\ q' = Put(q, victimE, sent + 1)
      /\ nextoneE' = (nextoneE + 1) % running /\ victimE' = nextoneE'
      /\ UNCHANGED <<r, workers, collector, epc, bpos, running, round, out>>
  BY DEF Send
<1>2. victimE = nextoneE /\ nextoneE \in Active /\ nextoneE \in Workers /\ bpos = 0
  <2>1. Emitting /\ Types
    BY DEF Awake, GoodRun
  <2>2. nextoneE \in Active /\ sent \in Nat /\ NTasks * round \in Nat
    BY AwakeFacts
  <2>3. victimE = nextoneE /\ nextoneE \in Workers /\ bpos \in Nat /\ Told = bpos
    BY <1>1, <2>1 DEF Emitting, Types, Told
  <2>4. ~(Told > 0)
    <3>1. sent # NTasks * round
      BY <1>1, <2>2
    <3> QED BY <2>1, <3>1 DEF Emitting
  <2> QED BY <2>2, <2>3, <2>4
<1>3. Told = 0 /\ Done = 0 /\ Turn = nextoneC /\ \A w \in Active : ~Ending(w)
  BY <1>1, <1>2, NoneTold
<1>4. nextoneE' \in Active
  BY <1>1, AwakeFacts, OffActive
<1>5. Told' = 0 /\ Done' = 0 /\ Got' = Got /\ Turn' = nextoneC /\ Active' = Active
  BY <1>1, <1>2, <1>3 DEF Told, Done, Got, Ended, Turn, Active, collector
<1>6. ASSUME NEW w \in Active
      PROVE  /\ Off(w, nextoneE)' = (IF w = nextoneE THEN running - 1 ELSE Off(w, nextoneE) - 1)
             /\ Off(w, nextoneE)' \in 0 .. running - 1
             /\ Off(w, Turn)' = Off(w, Turn)
  <2>1. Off(w, nextoneE)' = Off(w, (nextoneE + 1) % running)
    BY <1>1 DEF Off
  <2>2. Off(w, Turn)' = Off(w, Turn)
    BY <1>1, <1>3, <1>5 DEF Off
  <2>3. Off(w, nextoneE)' = Off(w, nextoneE')
    BY <1>1 DEF Off
  <2>4. Off(w, nextoneE') \in Nat /\ Off(w, nextoneE') <= running - 1
    BY <1>4, OffActive, Zenon
  <2>5. Off(w, (nextoneE + 1) % running) = (IF w = nextoneE THEN running - 1 ELSE Off(w, nextoneE) - 1)
    BY <1>2, OffNext, Zenon
  <2>6. running \in Nat
    BY AwakeFacts
  <2> DEFINE f == Off(w, nextoneE)'
             g == Off(w, nextoneE')
  <2>7. f \in 0 .. running - 1
    <3>1. f = g /\ g \in Nat /\ g <= running - 1
      BY <2>3, <2>4
    <3> HIDE DEF f, g
    <3> QED BY <3>1, <2>6
  <2> QED BY <2>1, <2>2, <2>5, <2>7
<1>7. sent + 1 \in Nat /\ nextoneC' = nextoneC
  <2>1. sent \in Nat
    BY AwakeFacts
  <2> QED BY <1>1, <2>1 DEF collector
<1>0. PICK v \in Workers : v = nextoneE
  BY <1>2
<1>8. /\ Lane(v)' = Append(Lane(v), sent + 1) /\ q'[v] # <<>>
      /\ \A w \in Workers \ {v} : Lane(w)' = Lane(w) /\ q'[w] = q[w]
  <2>1. Types /\ q' = Put(q, v, sent + 1) /\ r' = r /\ wpc' = wpc /\ hold' = hold
    BY <1>0, <1>1, <1>2 DEF Awake, workers
  <2> QED BY <1>7, <2>1, LanePut, Zenon
<1>9. Emitting'
  <2>1. running \in Nat \ {0} /\ Active = 0 .. running - 1
    BY AwakeFacts
  <2>2. nextoneE' < running /\ running' = running /\ 0 <= running
    BY <1>1, <1>4, <2>1
  <2> QED BY <1>1, <1>2, <1>5, <2>2 DEF Emitting
<1>10. Collecting'
  <2>1. dead' = dead /\ neos' = neos /\ cpc' = cpc /\ victimC' = victimC /\ neos = 0
    BY <1>1, <1>3, AwakeFacts DEF collector, Done, Awake, GoodRun, Collecting
  <2>2. cpc = "gather" => dead = {}
    <3>1. \A w \in Active : Off(w, nextoneE) \in Nat
      BY <1>2, OffActive
    <3> QED BY <2>1, <3>1 DEF Awake, GoodRun, Collecting
  <2>3. {w \in Active : Off(w, nextoneE) < neos}' = {}
    BY <1>5, <1>6, <2>1
  <2>4. cpc # "frozen" /\ running' = running /\ cpc' # "frozen"
    BY <1>3, <2>1, <1>1, AwakeFacts DEF Done
  <2>5. 0 < running /\ ~(0 > 0) /\ 0 # running
    BY AwakeFacts
  <2> QED BY <1>5, <1>7, <2>1, <2>2, <2>3, <2>4, <2>5 DEF Collecting, Awake, GoodRun
<1>11. Counting'
  <2>1. Got \in Nat /\ sent \in Nat /\ NTasks * round \in Nat
    BY AwakeFacts
  <2>2. Counting /\ round' = round /\ cpc' = cpc /\ out' = out
    BY <1>1 DEF Awake, GoodRun, collector
  <2>3. sent' <= NTasks * round /\ Got <= sent'
    BY <1>1, <2>1, <2>2 DEF Counting
  <2> QED BY <1>5, <2>2, <2>3 DEF Counting
<1>12. ASSUME NEW w \in Active PROVE LaneHolds(w)' /\ Working(w)'
  <2>0. w \in Workers
    BY AwakeFacts
  <2>1. Ending(w) = FALSE /\ Ending(w)' = FALSE
    BY <1>3, <1>5, <1>6, AwakeFacts DEF Ending
  <2>2. Holds(Lane(w), FALSE, Got, Off(w, Turn), sent, Off(w, nextoneE), running)
    BY <2>1 DEF Awake, GoodRun, LaneHolds
  <2>3. /\ Lane(w) \in Seq(Nat) /\ running \in Nat \ {0} /\ Got \in Nat /\ sent \in Nat
        /\ Off(w, Turn) \in Nat /\ Off(w, nextoneE) \in Nat /\ Off(w, nextoneE)' \in Nat
    <3>1. Lane(w) \in Seq(Nat)
      BY <2>0, LaneType DEF Awake
    <3>2. Off(w, Turn) \in Nat /\ Off(w, nextoneE) \in Nat
      BY <1>2, AwakeFacts, OffActive
    <3>3. Off(w, nextoneE)' \in 0 .. running - 1
      BY <1>6
    <3>4. \A x \in 0 .. running - 1 : x \in Nat
      OBVIOUS
    <3> QED BY <3>1, <3>2, <3>3, <3>4, AwakeFacts
  <2>4. LaneHolds(w)'
    <3>1. CASE w = nextoneE
      <4>1. Off(w, nextoneE) = 0
        BY <3>1, AwakeFacts, OffActive
      <4>2. Holds(Append(Lane(w), sent + 1), FALSE, Got, Off(w, Turn), sent + 1, running - 1, running)
        BY <2>2, <2>3, <4>1, HoldsSend
      <4>3. Off(w, nextoneE)' = running - 1 /\ Off(w, Turn)' = Off(w, Turn)
        BY <1>6, <3>1
      <4>4. Lane(w)' = Append(Lane(w), sent + 1)
        BY <1>0, <1>8, <3>1
      <4> QED BY <1>1, <1>5, <2>1, <4>2, <4>3, <4>4 DEF LaneHolds
    <3>2. CASE w # nextoneE
      <4>1. sent + 1 \in Nat /\ (sent + 1) + Off(w, nextoneE)' = sent + Off(w, nextoneE)
        BY <1>6, <2>3, <3>2
      <4>2. Holds(Lane(w), FALSE, Got, Off(w, Turn), sent + 1, Off(w, nextoneE)', running)
        <5> DEFINE e1 == Off(w, nextoneE)'
        <5>1. e1 \in Nat /\ (sent + 1) + e1 = sent + Off(w, nextoneE)
          BY <2>3, <4>1
        <5> HIDE DEF e1
        <5>2. Holds(Lane(w), FALSE, Got, Off(w, Turn), sent + 1, e1, running)
          BY <2>2, <2>3, <4>1, <5>1, HoldsShift
        <5> QED BY <5>2 DEF e1
      <4>3. Off(w, Turn)' = Off(w, Turn) /\ Lane(w)' = Lane(w)
        BY <1>0, <1>6, <1>8, <2>0, <3>2
      <4> QED BY <1>1, <1>5, <2>1, <4>2, <4>3 DEF LaneHolds
    <3> QED BY <3>1, <3>2
  <2>5. Working(w)'
    <3>1. Off(w, nextoneE) >= 0 /\ Off(w, nextoneE)' >= 0
      BY <2>3
    <3>2. wpc[w] # "frozen" /\ wpc' = wpc
      BY <1>1, <1>3, <3>1, <2>3 DEF Awake, GoodRun, Working, workers
    <3> QED BY <1>5, <3>1, <3>2, <2>3 DEF Working
  <2> QED BY <2>4, <2>5
<1>13. ASSUME NEW w \in Workers \ Active PROVE Asleep(w)'
  <2>1. q'[w] = q[w] /\ r' = r /\ wpc' = wpc
    BY <1>0, <1>1, <1>2, <1>8 DEF workers
  <2> QED BY <2>1 DEF Asleep, Awake, GoodRun
<1>14. q' \in [Workers -> Seq(Nat)]
  BY <1>1, <1>2, <1>7 DEF Put, Awake, Types
<1> QED BY <1>1, <1>4, <1>5, <1>7, <1>9, <1>10, <1>11, <1>12, <1>13, <1>14, AwakeFacts DEF GoodRun, Awake

\* What is where in sequences that are joined.
LEMMA JoinItems ==
  ASSUME NEW S, NEW a \in Seq(S), NEW b \in Seq(S)
  PROVE  /\ a \o b \in Seq(S) /\ Len(a \o b) = Len(a) + Len(b)
         /\ \A i \in 1 .. Len(a) + Len(b) : (a \o b)[i] = IF i <= Len(a) THEN a[i] ELSE b[i - Len(a)]
OBVIOUS

\* The end of stream goes to the victim first and to the one before it last.
LEMMA OrderFacts ==
  ASSUME running \in 1 .. NWorkers, NWorkers \in Nat, victimE \in Workers
  PROVE  /\ BroadcastOrder \in Seq(Workers)
         /\ victimE < running =>
              /\ Len(BroadcastOrder) = running
              /\ \A i \in 1 .. running :
                   /\ BroadcastOrder[i] \in 0 .. running - 1
                   /\ Off(BroadcastOrder[i], victimE) = i - 1
<1> DEFINE m == Max({0, running - victimE})
           a == [i \in 1 .. m |-> victimE + i - 1]
           b == [i \in 1 .. victimE |-> i - 1]
<1>1. victimE \in Nat /\ running \in Nat \ {0} /\ victimE < NWorkers
  BY DEF Workers
<1>2. m = IF victimE < running THEN running - victimE ELSE 0
  BY <1>1 DEF Max
<1>3. m \in Nat /\ (m # 0 => victimE + m = running)
  BY <1>1, <1>2
<1> HIDE DEF m
<1>4. a \in Seq(Workers) /\ Len(a) = m /\ \A i \in 1 .. m : a[i] = (victimE + i) - 1
  <2>1. \A i \in 1 .. m : victimE + i - 1 \in Workers
    BY <1>1, <1>3 DEF Workers
  <2> QED BY <1>1, <1>3, <2>1
<1>5. b \in Seq(Workers) /\ Len(b) = victimE /\ \A i \in 1 .. victimE : b[i] = i - 1
  <2>1. \A i \in 1 .. victimE : i - 1 \in Workers
    BY <1>1 DEF Workers
  <2> QED BY <1>1, <2>1
<1>6. BroadcastOrder = a \o b
  BY DEF BroadcastOrder, m, a, b
<1> HIDE DEF a, b
<1>7. BroadcastOrder \in Seq(Workers) /\ Len(BroadcastOrder) = m + victimE
  <2>1. a \o b \in Seq(Workers) /\ Len(a \o b) = Len(a) + Len(b)
    BY <1>4, <1>5, JoinItems, Zenon
  <2> QED BY <1>4, <1>5, <1>6, <2>1, Zenon
<1>8. \A i \in 1 .. m + victimE : BroadcastOrder[i] = IF i <= m THEN a[i] ELSE b[i - m]
  <2>1. \A i \in 1 .. Len(a) + Len(b) : (a \o b)[i] = IF i <= Len(a) THEN a[i] ELSE b[i - Len(a)]
    BY <1>4, <1>5, JoinItems, Zenon
  <2> QED BY <1>4, <1>5, <1>6, <2>1, Zenon
<1>9. ASSUME victimE < running
      PROVE  /\ Len(BroadcastOrder) = running
             /\ \A i \in 1 .. running :
                  /\ BroadcastOrder[i] \in 0 .. running - 1
                  /\ Off(BroadcastOrder[i], victimE) = i - 1
  <2>1. m = running - victimE /\ m + victimE = running
    BY <1>1, <1>2, <1>9
  <2>2. ASSUME NEW i \in 1 .. running
        PROVE  /\ BroadcastOrder[i] \in 0 .. running - 1
               /\ Off(BroadcastOrder[i], victimE) = i - 1
    <3>1. CASE i <= m
      <4>1. BroadcastOrder[i] = (victimE + i) - 1
        BY <1>4, <1>8, <1>3, <2>1, <3>1
      <4> QED BY <1>1, <1>9, <2>1, <3>1, <4>1 DEF Off
    <3>2. CASE ~(i <= m)
      <4>1. i - m \in 1 .. victimE
        BY <1>1, <1>3, <2>1, <3>2
      <4>2. BroadcastOrder[i] = (i - m) - 1
        BY <1>5, <1>8, <2>1, <3>2, <4>1
      <4> QED BY <1>1, <1>3, <1>9, <2>1, <3>2, <4>1, <4>2 DEF Off
    <3> QED BY <3>1, <3>2
  <2> QED BY <1>7, <2>1, <2>2
<1> QED BY <1>7, <1>9

\* The end of stream goes to the next worker, or has gone to all.
LEMMA AwakeBroadcast ==
  ASSUME Awake, Broadcast
  PROVE  GoodRun' /\ nextoneC' < running' /\ q' \in [Workers -> Seq(Nat)] /\ bpos' \in Nat
<1>1. /\ epc = "svc" /\ sent = NTasks * round
      /\ UNCHANGED <<r, workers, collector, nextoneE, victimE, running, round, sent, out>>
  BY DEF Broadcast
<1> USE DEF workers, collector
<1>2. victimE = nextoneE /\ nextoneE \in Active /\ nextoneE \in Workers
  BY <1>1, AwakeFacts DEF Awake, Types, GoodRun, Emitting
<1>3. /\ Len(BroadcastOrder) = running
      /\ \A i \in 1 .. running : BroadcastOrder[i] \in Active /\ Off(BroadcastOrder[i], nextoneE) = i - 1
  BY <1>2, AwakeFacts, OrderFacts DEF Awake, GoodRun, Emitting
<1>4. Done' = Done /\ Got' = Got /\ Turn' = Turn /\ Active' = Active /\ Told = bpos
  BY <1>1 DEF Told, Done, Got, Ended, Turn, Active
<1>5. \A w, x : Off(w, x)' = Off(w, x)
  BY <1>1 DEF Off
<1>6. Counting'
  BY <1>1, <1>4 DEF Awake, GoodRun, Counting
<1>7. bpos \in Nat /\ bpos <= running /\ Done <= bpos
  BY <1>4, AwakeFacts DEF Awake, Types, GoodRun, Emitting, Collecting
<1>8. ASSUME NEW w \in Active
      PROVE  /\ Off(w, nextoneE)' = Off(w, nextoneE) /\ Off(w, Turn)' = Off(w, Turn)
             /\ Off(w, nextoneE) \in Nat /\ Off(w, nextoneE) <= running - 1 /\ Off(w, Turn) \in Nat
             /\ w \in Workers /\ Lane(w) \in Seq(Nat)
  BY <1>1, <1>2, <1>4, AwakeFacts, OffActive, LaneType DEF Off, Awake
<1>9. CASE /\ bpos < running /\ Room(q, BroadcastOrder[bpos + 1])
           /\ q' = Put(q, BroadcastOrder[bpos + 1], EOS) /\ bpos' = bpos + 1 /\ epc' = epc
  <2>1. PICK v \in Active : v = BroadcastOrder[bpos + 1] /\ Off(v, nextoneE) = bpos
    <3>1. bpos + 1 \in 1 .. running /\ (bpos + 1) - 1 = bpos
      BY <1>7, <1>9, AwakeFacts
    <3> QED BY <1>3, <3>1
  <2>2. Told' = bpos + 1 /\ bpos + 1 > 0
    BY <1>1, <1>7, <1>9 DEF Told
  <2>3. v \in Workers /\ EOS \in Nat
    BY <1>8 DEF EOS
  <2>4. q' = Put(q, v, EOS) /\ r' = r /\ wpc' = wpc /\ hold' = hold
    BY <1>1, <1>9, <2>1
  <2>5. /\ Lane(v)' = Append(Lane(v), EOS) /\ q'[v] # <<>>
        /\ \A w \in Workers \ {v} : Lane(w)' = Lane(w) /\ q'[w] = q[w]
    BY <2>3, <2>4, LanePut, Zenon DEF Awake
  <2>6. Emitting'
    BY <1>1, <1>7, <1>9, <2>2, AwakeFacts DEF Awake, GoodRun, Emitting
  <2>7. Collecting'
    BY <1>1, <1>4, <1>7, <2>2, AwakeFacts DEF Awake, GoodRun, Collecting, Off
  <2>8. ASSUME NEW w \in Active PROVE LaneHolds(w)' /\ Working(w)'
    <3>0. LaneHolds(w) /\ Working(w)
      BY DEF Awake, GoodRun
    <3>1. CASE w = v
      <4>1. Ending(w) = FALSE /\ Ending(w)' = TRUE
        BY <1>4, <1>7, <1>8, <2>1, <2>2, <3>1 DEF Ending
      <4>2. Holds(Lane(w), FALSE, Got, Off(w, Turn), sent, Off(w, nextoneE), running)
        BY <3>0, <4>1 DEF LaneHolds
      <4>3. Holds(Append(Lane(w), EOS), TRUE, Got, Off(w, Turn), sent, Off(w, nextoneE), running)
        BY <1>8, <4>2, AwakeFacts, HoldsClose
      <4>4. LaneHolds(w)'
        BY <1>1, <1>4, <1>8, <2>5, <3>1, <4>1, <4>3 DEF LaneHolds
      <4>5. wpc[w] # "frozen"
        BY <1>4, <1>8, <2>1, <3>0, <3>1 DEF Working
      <4>6. Working(w)'
        BY <1>1, <1>4, <1>7, <1>8, <2>1, <2>5, <3>1, <4>5 DEF Working
      <4> QED BY <4>4, <4>6
    <3>2. CASE w # v
      <4>1. Off(w, nextoneE) # bpos
        <5>1. \A z \in Active : Off(z, nextoneE) = Off(v, nextoneE) => z = v
          BY <1>2, OffActive, Zenon
        <5> QED BY <2>1, <3>2, <5>1, Zenon
      <4>2. Off(w, nextoneE) < Told' <=> Off(w, nextoneE) < Told
        BY <1>4, <1>7, <1>8, <2>2, <4>1
      <4>3. Ending(w)' = Ending(w)
        BY <1>4, <1>8, <4>2 DEF Ending
      <4>4. Lane(w)' = Lane(w) /\ q'[w] = q[w]
        BY <1>8, <2>5, <3>2
      <4>5. LaneHolds(w)'
        BY <1>1, <1>4, <1>8, <3>0, <4>3, <4>4 DEF LaneHolds
      <4>6. Working(w)'
        BY <1>1, <1>4, <1>8, <3>0, <4>2, <4>4 DEF Working
      <4> QED BY <4>5, <4>6
    <3> QED BY <3>1, <3>2
  <2>9. ASSUME NEW w \in Workers \ Active PROVE Asleep(w)'
    <3>1. q'[w] = q[w]
      BY <2>5, <2>1
    <3> QED BY <1>1, <3>1 DEF Asleep, Awake, GoodRun
  <2>10. q' \in [Workers -> Seq(Nat)]
    <3>1. q \in [Workers -> Seq(Nat)]
      BY DEF Awake, Types
    <3> QED BY <2>3, <2>4, <3>1 DEF Put
  <2> QED BY <1>1, <1>4, <1>6, <1>7, <1>9, <2>6, <2>7, <2>8, <2>9, <2>10 DEF GoodRun, Awake
<1>10. CASE bpos = running /\ epc' = "frozen" /\ bpos' = 0 /\ q' = q
  <2>1. Told' = running /\ Told = running
    BY <1>1, <1>4, <1>10 DEF Told
  <2>2. Emitting'
    BY <1>1, <1>10, <2>1, AwakeFacts DEF Awake, GoodRun, Emitting
  <2>3. Collecting'
    BY <1>1, <1>4, <1>7, <2>1, AwakeFacts DEF Awake, GoodRun, Collecting, Off
  <2>4. ASSUME NEW w \in Active PROVE LaneHolds(w)' /\ Working(w)'
    <3>0. LaneHolds(w) /\ Working(w)
      BY DEF Awake, GoodRun
    <3>1. Ending(w)' = Ending(w)
      BY <1>4, <1>8, <2>1 DEF Ending
    <3>2. Lane(w)' = Lane(w)
      BY <1>1, <1>10 DEF Lane
    <3>3. LaneHolds(w)'
      BY <1>1, <1>4, <1>8, <3>0, <3>1, <3>2 DEF LaneHolds
    <3>4. Working(w)'
      BY <1>1, <1>4, <1>8, <1>10, <2>1, <3>0 DEF Working
    <3> QED BY <3>3, <3>4
  <2>5. ASSUME NEW w \in Workers \ Active PROVE Asleep(w)'
    BY <1>1, <1>10 DEF Asleep, Awake, GoodRun
  <2> QED BY <1>1, <1>4, <1>6, <1>10, <2>2, <2>3, <2>4, <2>5 DEF GoodRun, Awake, Types
<1> QED BY <1>3, <1>9, <1>10 DEF Broadcast

\* The end of the stream is the last in its lane.
LEMMA HoldsEos ==
  ASSUME NEW n \in Nat \ {0}, NEW lane \in Seq(Nat), NEW ending \in BOOLEAN,
         NEW g \in Nat, NEW c \in Nat, NEW s \in Nat, NEW e \in Nat,
         Holds(lane, ending, g, c, s, e, n), NEW k \in 1 .. Len(lane)
  PROVE  lane[k] = EOS <=> ending /\ k = Len(lane)
<1> DEFINE m == Len(lane) - (IF ending THEN 1 ELSE 0)
<1>1. \A i \in 1 .. m : lane[i] = g + 1 + c + Row(i - 1, n)
  BY DEF Holds
<1>2. ending => lane[Len(lane)] = EOS
  BY DEF Holds
<1>3. m \in Nat /\ (ending => m = Len(lane) - 1) /\ (~ending => m = Len(lane))
  BY DEF Holds
<1> HIDE DEF m
<1>4. ASSUME k <= m PROVE lane[k] # EOS
  <2>1. k \in 1 .. m /\ k - 1 \in Nat
    BY <1>3, <1>4
  <2> DEFINE x == Row(k - 1, n)
  <2>2. x \in Nat /\ lane[k] = g + 1 + c + x
    BY <1>1, <2>1, RowFacts
  <2> HIDE DEF x
  <2> QED BY <2>2 DEF EOS
<1>5. ASSUME ~(k <= m) PROVE ending /\ k = Len(lane)
  BY <1>3, <1>5
<1>6. ASSUME ending, k = Len(lane) PROVE ~(k <= m)
  BY <1>3, <1>6
<1> QED BY <1>2, <1>4, <1>5, <1>6

\* What is in the middle.
LEMMA JoinMiddle ==
  ASSUME NEW a \in Seq(Nat), NEW b \in Seq(Nat), NEW h \in Nat
  PROVE  /\ Len(a) + 1 \in 1 .. Len(a \o <<h>> \o b) /\ (a \o <<h>> \o b)[Len(a) + 1] = h
         /\ Len(a \o <<h>> \o b) = Len(a) + 1 + Len(b)
<1> DEFINE d == a \o <<h>>
<1>1. d \in Seq(Nat) /\ Len(d) = Len(a) + 1 /\ d[Len(a) + 1] = h
  OBVIOUS
<1> HIDE DEF d
<1>2. /\ Len(d \o b) = Len(d) + Len(b)
      /\ \A i \in 1 .. Len(d) + Len(b) : (d \o b)[i] = IF i <= Len(d) THEN d[i] ELSE b[i - Len(d)]
  BY <1>1, JoinItems, Zenon
<1>3. Len(a) + 1 \in 1 .. Len(d) + Len(b) /\ Len(a) + 1 <= Len(d)
  BY <1>1
<1>4. (d \o b)[Len(a) + 1] = h
  BY <1>1, <1>2, <1>3
<1>5. Len(d \o b) = Len(a) + 1 + Len(b)
  BY <1>1, <1>2
<1> QED BY <1>3, <1>4, <1>5, <1>2 DEF d

\* What the worker holds is behind the results and before the tasks.
LEMMA LaneHeld ==
  ASSUME Types, NEW w \in Workers, wpc[w] = "push"
  PROVE  /\ Len(r[w]) + 1 \in 1 .. Len(Lane(w)) /\ Lane(w)[Len(r[w]) + 1] = hold[w]
         /\ Len(Lane(w)) = Len(r[w]) + 1 + Len(q[w])
<1>1. r[w] \in Seq(Nat) /\ q[w] \in Seq(Nat) /\ hold[w] \in Nat
  BY DEF Types
<1>2. Lane(w) = r[w] \o <<hold[w]>> \o q[w]
  BY DEF Lane
<1>3. PICK a \in Seq(Nat), b \in Seq(Nat), h \in Nat : a = r[w] /\ b = q[w] /\ h = hold[w]
  BY <1>1
<1>4. /\ Len(a) + 1 \in 1 .. Len(a \o <<h>> \o b) /\ (a \o <<h>> \o b)[Len(a) + 1] = h
      /\ Len(a \o <<h>> \o b) = Len(a) + 1 + Len(b)
  BY JoinMiddle
<1>5. Lane(w) = a \o <<h>> \o b
  BY <1>2, <1>3
<1> QED BY <1>3, <1>4, <1>5

\* A step that changes neither the lanes nor the counts.
LEMMA AwakeFrame ==
  ASSUME Awake, UNCHANGED <<collector, out, round, sent, emitter, running>>,
         \A w \in Workers : Lane(w)' = Lane(w)
  PROVE  /\ Emitting' /\ Collecting' /\ Counting' /\ nextoneC' < running' /\ Active' = Active
         /\ \A w \in Active : LaneHolds(w)'
         /\ Told' = Told /\ Done' = Done /\ \A w : Off(w, nextoneE)' = Off(w, nextoneE)
<1> USE DEF collector, emitter
<1>1. Told' = Told /\ Done' = Done /\ Got' = Got /\ Turn' = Turn /\ Active' = Active
  BY DEF Told, Done, Got, Ended, Turn, Active
<1>2. \A w, x : Off(w, x)' = Off(w, x)
  BY DEF Off
<1>3. \A w : Off(w, nextoneE)' = Off(w, nextoneE) /\ Off(w, Turn)' = Off(w, Turn)
  BY <1>1 DEF Off
<1>4. Emitting'
  BY <1>1 DEF Awake, GoodRun, Emitting
<1>5. Collecting'
  BY <1>1 DEF Awake, GoodRun, Collecting, Off
<1>6. Counting'
  BY <1>1 DEF Awake, GoodRun, Counting
<1>7. ASSUME NEW w \in Active PROVE LaneHolds(w)'
  <2>1. Ending(w)' = Ending(w)
    BY <1>1, <1>3 DEF Ending
  <2>2. Lane(w)' = Lane(w) /\ LaneHolds(w)
    BY AwakeFacts DEF Awake, GoodRun
  <2> QED BY <1>1, <1>3, <2>1, <2>2 DEF LaneHolds
<1> QED BY <1>1, <1>3, <1>4, <1>5, <1>6, <1>7 DEF Awake

\* What the numbers of a lane are.
LEMMA LaneNumbers ==
  ASSUME Awake, NEW w \in Active
  PROVE  /\ w \in Workers /\ Lane(w) \in Seq(Nat) /\ Ending(w) \in BOOLEAN
         /\ Off(w, nextoneE) \in Nat /\ Off(w, nextoneE) <= running - 1
         /\ Off(w, Turn) \in Nat /\ Off(w, Turn) <= running - 1
         /\ LaneHolds(w) /\ Working(w)
         /\ Holds(Lane(w), Ending(w), Got, Off(w, Turn), sent, Off(w, nextoneE), running)
<1>1. LaneHolds(w) /\ Working(w)
  BY DEF Awake, GoodRun
<1>2. w \in Workers /\ Lane(w) \in Seq(Nat)
  BY AwakeFacts, LaneType DEF Awake
<1>3. Ending(w) \in BOOLEAN
  BY DEF Ending
<1>4. Off(w, nextoneE) \in Nat /\ Off(w, nextoneE) <= running - 1
  BY AwakeFacts, OffActive
<1>5. Off(w, Turn) \in Nat /\ Off(w, Turn) <= running - 1
  BY AwakeFacts, OffActive
<1> QED BY <1>1, <1>2, <1>3, <1>4, <1>5 DEF LaneHolds

\* When the collector has met an end of stream all lanes are without a task.
LEMMA NothingLeft ==
  ASSUME Awake, Done > 0, NEW w \in Active
  PROVE  Len(Lane(w)) = (IF Ending(w) THEN 1 ELSE 0)
<1>1. Got = sent /\ Turn = nextoneE
  BY AwakeFacts DEF Awake, GoodRun, Collecting, Turn
<1>2. Holds(Lane(w), Ending(w), Got, Off(w, nextoneE), Got, Off(w, nextoneE), running)
  BY <1>1, LaneNumbers
<1> QED BY <1>2, LaneNumbers, AwakeFacts, HoldsNothing

\* A worker takes what comes next.
LEMMA AwakePop == ASSUME Awake, NEW v \in Workers, Pop(v) PROVE GoodRun' /\ nextoneC' < running'
<1>1. /\ wpc[v] = "pop" /\ q[v] # <<>> /\ hold' = [hold EXCEPT ![v] = Head(q[v])]
      /\ q' = [q EXCEPT ![v] = Tail(@)] /\ wpc' = [wpc EXCEPT ![v] = "push"] /\ r' = r
      /\ UNCHANGED <<collector, out, round, sent, emitter, running>>
  BY DEF Pop
<1>2. \A w \in Workers : Lane(w)' = Lane(w)
  BY <1>1, LanePop, Zenon DEF Awake
<1>3. /\ Emitting' /\ Collecting' /\ Counting' /\ nextoneC' < running' /\ Active' = Active
      /\ \A w \in Active : LaneHolds(w)'
      /\ Told' = Told /\ Done' = Done /\ \A w : Off(w, nextoneE)' = Off(w, nextoneE)
  BY <1>1, <1>2, AwakeFrame
<1>4. /\ wpc'[v] = "push"
      /\ \A w \in Workers \ {v} : wpc'[w] = wpc[w] /\ q'[w] = q[w] /\ r'[w] = r[w]
  BY <1>1 DEF Awake, Types
<1>5. ASSUME NEW w \in Active PROVE Working(w)'
  <2>1. CASE w = v
    BY <1>4, <2>1 DEF Working
  <2>2. CASE w # v
    <3>1. wpc'[w] = wpc[w] /\ q'[w] = q[w] /\ Working(w)
      BY <1>4, <2>2, LaneNumbers
    <3> QED BY <1>3, <3>1 DEF Working
  <2> QED BY <2>1, <2>2
<1>6. ASSUME NEW w \in Workers \ Active PROVE Asleep(w)'
  <2>1. Asleep(w)
    BY DEF Awake, GoodRun
  <2>2. w # v
    BY <1>1, <2>1 DEF Asleep
  <2> QED BY <1>4, <2>1, <2>2 DEF Asleep
<1> QED BY <1>3, <1>5, <1>6 DEF GoodRun

\* It passes on its result, or the end of stream, after which it freezes.
LEMMA AwakePush == ASSUME Awake, NEW v \in Workers, Push(v) PROVE GoodRun' /\ nextoneC' < running'
<1>1. /\ wpc[v] = "push" /\ r' = Put(r, v, hold[v]) /\ q' = q
      /\ wpc' = [wpc EXCEPT ![v] = IF hold[v] = EOS THEN "frozen" ELSE "pop"]
      /\ hold' = [hold EXCEPT ![v] = EOS]
      /\ UNCHANGED <<collector, out, round, sent, emitter, running>>
  BY DEF Push
<1>2. /\ wpc'[v] = IF hold[v] = EOS THEN "frozen" ELSE "pop"
      /\ \A w \in Workers \ {v} : wpc'[w] = wpc[w] /\ hold'[w] = hold[w] /\ r'[w] = r[w]
  BY <1>1 DEF Awake, Types, Put
<1>3. \A w \in Workers : Lane(w)' = Lane(w)
  <2>1. wpc'[v] # "push"
    BY <1>2
  <2> QED BY <1>1, <1>2, <2>1, LanePush, Zenon DEF Awake
<1>4. /\ Emitting' /\ Collecting' /\ Counting' /\ nextoneC' < running' /\ Active' = Active
      /\ \A w \in Active : LaneHolds(w)'
      /\ Told' = Told /\ Done' = Done /\ \A w : Off(w, nextoneE)' = Off(w, nextoneE)
  BY <1>1, <1>3, AwakeFrame
<1>5. v \in Active
  BY <1>1 DEF Awake, GoodRun, Asleep
<1>6. /\ Len(r[v]) + 1 \in 1 .. Len(Lane(v)) /\ Lane(v)[Len(r[v]) + 1] = hold[v]
      /\ Len(Lane(v)) = Len(r[v]) + 1 + Len(q[v]) /\ q[v] \in Seq(Nat) /\ r[v] \in Seq(Nat)
  BY <1>1, LaneHeld DEF Awake, Types
<1>7. hold[v] = EOS <=> Ending(v) /\ Len(q[v]) = 0
  <2>1. hold[v] = EOS <=> Ending(v) /\ Len(r[v]) + 1 = Len(Lane(v))
    <3>1. PICK lane \in Seq(Nat) : lane = Lane(v)
      BY <1>5, LaneNumbers
    <3>2. PICK k \in 1 .. Len(lane) : k = Len(r[v]) + 1
      BY <1>6, <3>1
    <3>3. Holds(lane, Ending(v), Got, Off(v, Turn), sent, Off(v, nextoneE), running)
      BY <1>5, <3>1, LaneNumbers
    <3>4. lane[k] = EOS <=> Ending(v) /\ k = Len(lane)
      <4>1. /\ running \in Nat \ {0} /\ Got \in Nat /\ sent \in Nat /\ Ending(v) \in BOOLEAN
            /\ Off(v, Turn) \in Nat /\ Off(v, nextoneE) \in Nat
        BY <1>5, AwakeFacts, LaneNumbers
      <4> QED BY <3>3, <4>1, HoldsEos, Zenon
    <3> QED BY <1>6, <3>1, <3>2, <3>4, Zenon
  <2>2. Len(r[v]) + 1 = Len(Lane(v)) <=> Len(q[v]) = 0
    <3>1. Len(q[v]) \in Nat /\ Len(r[v]) \in Nat
      BY <1>6
    <3>2. ASSUME NEW a \in Nat, NEW b \in Nat PROVE a + 1 = a + 1 + b <=> b = 0
      OBVIOUS
    <3> QED BY <1>6, <3>1, <3>2, Zenon
  <2> QED BY <2>1, <2>2
<1>8. Working(v)'
  <2>1. CASE hold[v] = EOS
    <3>1. Off(v, nextoneE) < Told /\ q[v] = <<>>
      BY <1>6, <1>7, <2>1 DEF Ending
    <3> QED BY <1>1, <1>2, <1>4, <2>1, <3>1 DEF Working
  <2>2. CASE hold[v] # EOS
    <3>1. ~(Done > 0)
      <4>1. ASSUME Done > 0 PROVE FALSE
        <5>1. Len(Lane(v)) = (IF Ending(v) THEN 1 ELSE 0)
          BY <1>5, <4>1, NothingLeft
        <5>2. Len(q[v]) \in Nat /\ Len(r[v]) \in Nat
          BY <1>6
        <5>3. ASSUME NEW a \in Nat, NEW b \in Nat, a + 1 + b = 1 PROVE b = 0
          BY <5>3
        <5>4. ASSUME NEW a \in Nat, NEW b \in Nat PROVE a + 1 + b # 0
          OBVIOUS
        <5> QED BY <1>6, <1>7, <2>2, <5>1, <5>2, <5>3, <5>4, Zenon
      <4> QED BY <4>1
    <3>2. Done = 0 /\ Off(v, nextoneE) \in Nat
      BY <1>5, <3>1, AwakeFacts, LaneNumbers
    <3>3. Off(v, nextoneE) >= Done
      BY <3>2
    <3>4. ASSUME Off(v, nextoneE) < Told PROVE q[v] # <<>>
      BY <1>6, <1>7, <2>2, <3>3, <3>4 DEF Ending
    <3> QED BY <1>1, <1>2, <1>4, <2>2, <3>3, <3>4 DEF Working
  <2> QED BY <2>1, <2>2
<1>9. ASSUME NEW w \in Active PROVE Working(w)'
  <2>2. CASE w # v
    <3>1. wpc'[w] = wpc[w] /\ q'[w] = q[w] /\ Working(w)
      BY <1>1, <1>2, <2>2, LaneNumbers
    <3> QED BY <1>4, <3>1 DEF Working
  <2> QED BY <1>8, <2>2
<1>10. ASSUME NEW w \in Workers \ Active PROVE Asleep(w)'
  <2>1. Asleep(w) /\ w # v
    BY <1>5 DEF Awake, GoodRun
  <2> QED BY <1>1, <1>2, <2>1 DEF Asleep
<1> QED BY <1>4, <1>9, <1>10 DEF GoodRun

-----------------------------------------------------------------------------
(* The collector *)

\* It starts where it stopped, and all are alive.
LEMMA AwakeCollectorInit ==
  ASSUME Awake, CollectorInit
  PROVE  GoodRun' /\ nextoneC' < running' /\ victimC' \in Workers /\ dead' = {}
<1>1. /\ cpc = "init" /\ cpc' = "gather" /\ dead' = {} /\ victimC' = nextoneC
      /\ UNCHANGED <<channels, workers, emitter, neos, nextoneC, running, round, sent, out>>
  BY DEF CollectorInit
<1> USE DEF channels, workers, emitter
<1>2. neos = 0 /\ Done = 0
  BY <1>1 DEF Awake, GoodRun, Collecting, Done
<1>3. Told' = Told /\ Done' = Done /\ Got' = Got /\ Turn' = Turn /\ Active' = Active
  BY <1>1 DEF Told, Done, Got, Ended, Turn, Active
<1>4. \A w : Off(w, nextoneE)' = Off(w, nextoneE) /\ Off(w, Turn)' = Off(w, Turn)
  BY <1>1, <1>3 DEF Off
<1>5. Emitting'
  BY <1>1, <1>3 DEF Awake, GoodRun, Emitting
<1>6. Collecting'
  <2>1. \A w \in Active : Off(w, nextoneE)' \in Nat
    BY <1>4, LaneNumbers
  <2>2. {w \in Active : Off(w, nextoneE) < neos}' = {}
    BY <1>1, <1>2, <1>3, <2>1
  <2>3. running \in Nat \ {0} /\ Told \in Nat /\ running' = running /\ neos' = 0
    BY <1>1, <1>2, AwakeFacts
  <2> QED BY <1>1, <1>2, <1>3, <2>2, <2>3 DEF Collecting
<1>7. Counting'
  BY <1>1, <1>3 DEF Awake, GoodRun, Counting
<1>8. ASSUME NEW w \in Active PROVE LaneHolds(w)' /\ Working(w)'
  <2>0. LaneHolds(w) /\ Working(w)
    BY LaneNumbers
  <2>1. Ending(w)' = Ending(w) /\ Lane(w)' = Lane(w)
    BY <1>1, <1>3, <1>4 DEF Ending, Lane
  <2>2. LaneHolds(w)'
    BY <1>1, <1>3, <1>4, <2>0, <2>1 DEF LaneHolds
  <2>3. Working(w)'
    BY <1>1, <1>3, <1>4, <2>0 DEF Working
  <2> QED BY <2>2, <2>3
<1>9. \A w \in Workers \ Active : Asleep(w)'
  BY <1>1 DEF Awake, GoodRun, Asleep
<1>10. victimC' \in Workers /\ nextoneC' < running'
  BY <1>1 DEF Awake, Types
<1> QED BY <1>1, <1>3, <1>5, <1>6, <1>7, <1>8, <1>9, <1>10 DEF GoodRun

\* How many the collector has sent on in this run.
LEMMA OutLength ==
  ASSUME Awake, cpc # "frozen"
  PROVE  /\ round \in Nat \ {0} /\ round \in 1 .. Rounds /\ out \in Seq(Nat) /\ NTasks \in Nat
         /\ Len(out) = Got + (round - 1)
         /\ NTasks * (round - 1) \in Nat /\ NTasks * round = NTasks * (round - 1) + NTasks
         /\ (round - 1) * (NTasks + 1) = NTasks * (round - 1) + (round - 1)
         /\ (round - 1) * NTasks = NTasks * (round - 1)
         /\ NTasks * (round - 1) <= Got /\ Got <= sent /\ sent <= NTasks * round
<1>1. round \in Nat \ {0} /\ round \in 1 .. Rounds /\ out \in Seq(Nat) /\ NTasks \in Nat
  BY DEF Awake, Types, OrderedFarmAssumption
<1>2. Len(out) = Got + (round - 1)
  BY <1>1, AwakeFacts DEF Got, Ended
<1> QED BY <1>1, <1>2, RoundFacts DEF Awake, GoodRun, Counting

\* The place of what comes out next, in its run.
LEMMA OutNext ==
  ASSUME Awake, cpc # "frozen"
  PROVE  LET j == (Len(out) + 1) - (round - 1) * (NTasks + 1)
         IN  /\ round - 1 \in 0 .. Rounds - 1 /\ j = Got + 1 - NTasks * (round - 1)
             /\ Got < sent => j \in 1 .. NTasks /\ (round - 1) * NTasks + j = Got + 1
             /\ Got = NTasks * round => j = NTasks + 1
<1> DEFINE p == NTasks * (round - 1)
           m == (round - 1) * (NTasks + 1)
           o == (round - 1) * NTasks
           z == NTasks * round
<1>1. /\ round \in Nat \ {0} /\ round \in 1 .. Rounds /\ NTasks \in Nat
      /\ Len(out) = Got + (round - 1)
      /\ p \in Nat /\ z = p + NTasks /\ m = p + (round - 1) /\ o = p
      /\ p <= Got /\ Got <= sent /\ sent <= z
  BY OutLength
<1>2. Got \in Nat /\ sent \in Nat
  BY AwakeFacts
<1> HIDE DEF p, m, o, z
<1>3. round - 1 \in 0 .. Rounds - 1
  BY <1>1 DEF Awake, OrderedFarmAssumption
<1>4. (Len(out) + 1) - m = (Got + 1) - p
  BY <1>1, <1>2
<1>5. ASSUME Got < sent PROVE (Len(out) + 1) - m \in 1 .. NTasks /\ o + ((Len(out) + 1) - m) = Got + 1
  BY <1>1, <1>2, <1>4, <1>5
<1>6. ASSUME Got = z PROVE (Len(out) + 1) - m = NTasks + 1
  BY <1>1, <1>2, <1>4, <1>6
<1>7. Got + 1 - p = (Got + 1) - p
  BY <1>1, <1>2
<1> QED BY <1>3, <1>4, <1>5, <1>6, <1>7 DEF p, m, o, z

\* The next result, or after the last of the run its end of stream, keeps the order.
LEMMA OutInOrder ==
  ASSUME Awake, cpc # "frozen", ResultsInOrder, NEW t \in Nat, out' = Append(out, t),
         \/ t = Got + 1 /\ Got < sent
         \/ t = EOS /\ Got = NTasks * round
  PROVE  ResultsInOrder'
<1>1. out \in Seq(Nat) /\ NTasks \in Nat
  BY OutLength
<1>2. /\ DOMAIN out' = 1 .. Len(out) + 1 /\ out'[Len(out) + 1] = t /\ DOMAIN out = 1 .. Len(out)
      /\ \A i \in 1 .. Len(out) : out'[i] = out[i]
  BY <1>1
<1>3. ASSUME NEW i \in DOMAIN out'
      PROVE  \E k \in 0 .. Rounds - 1 :
               LET j == i - k * (NTasks + 1)
               IN  j \in 1 .. NTasks + 1 /\ out'[i] = IF j > NTasks THEN EOS ELSE k * NTasks + j
  <2>1. CASE i \in 1 .. Len(out)
    <3>1. \E k \in 0 .. Rounds - 1 :
            LET j == i - k * (NTasks + 1)
            IN  j \in 1 .. NTasks + 1 /\ out[i] = IF j > NTasks THEN EOS ELSE k * NTasks + j
      BY <1>2, <2>1 DEF ResultsInOrder
    <3>2. out'[i] = out[i]
      BY <1>2, <2>1
    <3> QED BY <3>1, <3>2, Zenon
  <2>2. CASE i = Len(out) + 1
    <3> DEFINE k == round - 1
               j == i - k * (NTasks + 1)
               o == k * NTasks
    <3>1. /\ k \in 0 .. Rounds - 1
          /\ Got < sent => j \in 1 .. NTasks /\ o + j = Got + 1
          /\ Got = NTasks * round => j = NTasks + 1
      BY <2>2, OutNext
    <3>2. out'[i] = t
      BY <1>2, <2>2
    <3>3. j \in 1 .. NTasks + 1 /\ out'[i] = IF j > NTasks THEN EOS ELSE o + j
      <4>1. CASE t = Got + 1 /\ Got < sent
        <5> HIDE DEF j, o
        <5> QED BY <1>1, <3>1, <3>2, <4>1
      <4>2. CASE t = EOS /\ Got = NTasks * round
        <5> HIDE DEF j, o
        <5> QED BY <1>1, <3>1, <3>2, <4>2
      <4> QED BY <4>1, <4>2
    <3> QED BY <3>1, <3>3, Zenon
  <2>3. i \in 1 .. Len(out) \/ i = Len(out) + 1
    BY <1>1, <1>2
  <2> QED BY <2>1, <2>2, <2>3
<1> QED BY <1>3 DEF ResultsInOrder

\* With nobody dead the next alive is the next.
LEMMA NextWhenAllLive ==
  ASSUME Awake, dead = {}
  PROVE  NextAlive = (nextoneC + 1) % running
<1> DEFINE P(k) == /\ (nextoneC + k) % running \notin dead
                   /\ \A j \in 1 .. k - 1 : (nextoneC + j) % running \in dead
<1>1. running \in Nat \ {0}
  BY AwakeFacts
<1>2. 1 \in 1 .. running /\ P(1)
  BY <1>1
<1>3. \A k \in 1 .. running : P(k) => k = 1
  <2> SUFFICES ASSUME NEW k \in 1 .. running, k # 1 PROVE ~P(k)
    OBVIOUS
  <2>1. 1 \in 1 .. k - 1
    BY <1>1
  <2> QED BY <2>1
<1> DEFINE c == CHOOSE k \in 1 .. running : P(k)
<1>4. c \in 1 .. running /\ P(c)
  <2> HIDE DEF P
  <2> QED BY <1>2
<1>5. c = 1
  <2> HIDE DEF P, c
  <2> QED BY <1>3, <1>4
<1>6. NextAlive = (nextoneC + c) % running
  BY DEF NextAlive
<1> QED BY <1>5, <1>6

\* The result of the victim is the next of all.
LEMMA AwakeGather ==
  ASSUME Awake, Gather, ResultsInOrder
  PROVE  /\ GoodRun' /\ nextoneC' < running' /\ ResultsInOrder'
         /\ r' \in [Workers -> Seq(Nat)] /\ out' \in Seq(Nat)
         /\ nextoneC' \in Workers /\ victimC' \in Workers
         /\ out' = Append(out, Got + 1) /\ Got + 1 <= sent /\ Got' = Got + 1
<1>1. /\ cpc = "gather" /\ r[victimC] # <<>> /\ Head(r[victimC]) # EOS
      /\ out' = Append(out, Head(r[victimC])) /\ r' = [r EXCEPT ![victimC] = Tail(@)]
      /\ nextoneC' = NextAlive /\ victimC' = nextoneC'
      /\ q' = q /\ wpc' = wpc /\ hold' = hold
      /\ UNCHANGED <<emitter, cpc, neos, dead, running, round, sent>>
  BY DEF Gather, workers
<1> USE DEF emitter
<1>2. PICK v \in Active : v = victimC /\ v = nextoneC
  BY <1>1, AwakeFacts DEF Awake, GoodRun, Collecting
<1>3. v \in Workers /\ Lane(v) \in Seq(Nat)
  BY LaneNumbers
<1>4. /\ Lane(v) # <<>> /\ Lane(v)[1] = Head(r[v]) /\ Lane(v)' = Tail(Lane(v))
      /\ \A w \in Workers \ {v} : Lane(w)' = Lane(w) /\ r'[w] = r[w]
  <2>1. Types /\ r[v] # <<>> /\ r' = [r EXCEPT ![v] = Tail(@)] /\ q' = q /\ wpc' = wpc /\ hold' = hold
    BY <1>1, <1>2 DEF Awake
  <2> QED BY <1>3, <2>1, LaneGet, Zenon
<1>5. Done = 0
  <2>1. ASSUME Done > 0 PROVE FALSE
    <3>1. Len(Lane(v)) = (IF Ending(v) THEN 1 ELSE 0)
      BY <2>1, NothingLeft
    <3>2. Ending(v) /\ Len(Lane(v)) = 1
      BY <1>3, <1>4, <3>1
    <3>3. Lane(v)[Len(Lane(v))] = EOS
      BY <3>2, LaneNumbers DEF Holds
    <3> QED BY <1>1, <1>2, <1>4, <3>2, <3>3
  <2> QED BY <2>1, AwakeFacts
<1>6. Turn = nextoneC /\ neos = 0 /\ dead = {}
  <2>1. Turn = nextoneC /\ neos = 0
    BY <1>1, <1>5 DEF Turn, Done
  <2>2. \A w \in Active : Off(w, nextoneE) \in Nat
    BY LaneNumbers
  <2> QED BY <1>1, <2>1, <2>2 DEF Awake, GoodRun, Collecting
<1>7. nextoneC' = (nextoneC + 1) % running /\ nextoneC' \in Active
  BY <1>1, <1>2, <1>6, NextWhenAllLive, OffActive
<1>8. /\ Head(r[v]) = Got + 1 /\ Got + 1 <= sent
      /\ Holds(Tail(Lane(v)), Ending(v), Got + 1, running - 1, sent, Off(v, nextoneE), running)
  <2>1. Off(v, Turn) = 0
    BY <1>2, <1>6, OffActive
  <2>2. Holds(Lane(v), Ending(v), Got, 0, sent, Off(v, nextoneE), running)
    BY <2>1, LaneNumbers
  <2>3. /\ running \in Nat \ {0} /\ Got \in Nat /\ sent \in Nat /\ Ending(v) \in BOOLEAN
        /\ Off(v, nextoneE) \in 0 .. running - 1
    BY AwakeFacts, LaneNumbers
  <2>4. Lane(v)[1] # EOS
    BY <1>1, <1>2, <1>4
  <2>5. PICK lane \in Seq(Nat), n \in Nat \ {0}, g \in Nat, s \in Nat, b \in BOOLEAN :
             lane = Lane(v) /\ n = running /\ g = Got /\ s = sent /\ b = Ending(v)
    BY <1>3, <2>3
  <2>6. PICK e \in 0 .. n - 1 : e = Off(v, nextoneE)
    BY <2>3, <2>5
  <2>7. Holds(lane, b, g, 0, s, e, n) /\ lane # <<>> /\ lane[1] # EOS
    BY <1>4, <2>2, <2>4, <2>5, <2>6
  <2>8. lane[1] = g + 1 /\ g + 1 <= s /\ Holds(Tail(lane), b, g + 1, n - 1, s, e, n)
    BY <2>7, HoldsTake
  <2> QED BY <1>4, <2>5, <2>6, <2>8
<1>9. out \in Seq(Nat) /\ Got \in Nat /\ sent \in Nat /\ running \in Nat \ {0} /\ Got + 1 \in Nat
  <2>1. Got \in Nat /\ sent \in Nat /\ running \in Nat \ {0}
    BY AwakeFacts
  <2> QED BY <2>1 DEF Awake, Types
<1>10. out' = Append(out, Got + 1)
  BY <1>1, <1>2, <1>8
<1>11. /\ Told' = Told /\ Done' = 0 /\ Got' = Got + 1 /\ Turn' = nextoneC' /\ Active' = Active
       /\ nextoneE' = nextoneE /\ running' = running
  <2>1. Len(out') = Len(out) + 1 /\ Len(out) \in Nat
    BY <1>9, <1>10
  <2>2. Ended' = Ended /\ Ended \in Int
    BY <1>1 DEF Ended, Awake, Types
  <2>3. Got' = Got + 1
    BY <2>1, <2>2 DEF Got
  <2> QED BY <1>1, <1>6, <2>3 DEF Told, Done, Turn, Active
<1>12. ASSUME NEW w \in Active
       PROVE  /\ Off(w, nextoneE)' = Off(w, nextoneE)
              /\ Off(w, Turn)' = (IF w = v THEN running - 1 ELSE Off(w, Turn) - 1)
              /\ w # v => Off(w, Turn) # 0
  <2>1. Off(w, Turn)' = Off(w, (nextoneC + 1) % running)
    BY <1>7, <1>11 DEF Off
  <2>2. Off(w, (nextoneC + 1) % running) = (IF w = nextoneC THEN running - 1 ELSE Off(w, nextoneC) - 1)
    <3>1. nextoneC \in Active
      BY AwakeFacts
    <3> QED BY <3>1, OffNext, Zenon
  <2>3. Off(w, nextoneC) = 0 <=> w = nextoneC
    BY AwakeFacts, OffActive
  <2>4. Off(w, nextoneE)' = Off(w, nextoneE)
    BY <1>11 DEF Off
  <2> QED BY <1>2, <1>6, <2>1, <2>2, <2>3, <2>4
<1>13. Emitting'
  BY <1>1, <1>11 DEF Awake, GoodRun, Emitting
<1>14. Collecting'
  <2>1. \A w \in Active : Off(w, nextoneE) \in Nat
    BY LaneNumbers
  <2>2. {w \in Active : Off(w, nextoneE) < neos}' = {}
    BY <1>1, <1>6, <1>11, <1>12, <2>1
  <2>3. running \in Nat \ {0} /\ Told \in Nat
    BY AwakeFacts
  <2> QED BY <1>1, <1>6, <1>11, <2>2, <2>3 DEF Collecting
<1>15. Counting'
  <2>1. NTasks * (round - 1) \in Nat /\ NTasks * (round - 1) <= Got /\ sent <= NTasks * round
    BY <1>1, OutLength
  <2> DEFINE p == NTasks * (round - 1)
             z == NTasks * round
  <2>2. p' = p /\ z' = z /\ sent' = sent /\ cpc' # "frozen"
    BY <1>1
  <2>3. p <= Got' /\ Got' <= sent /\ sent <= z
    <3> HIDE DEF p, z
    <3>1. p \in Nat /\ p <= Got /\ sent <= z
      BY <2>1 DEF p, z
    <3> QED BY <1>8, <1>9, <1>11, <3>1
  <2> QED BY <2>2, <2>3 DEF Counting
<1>16. ASSUME NEW w \in Active PROVE LaneHolds(w)' /\ Working(w)'
  <2>0. Working(w)
    BY LaneNumbers
  <2>1. Ending(w)' = Ending(w)
    BY <1>5, <1>11, <1>12 DEF Ending
  <2>2. CASE w = v
    <3>1. Lane(w)' = Tail(Lane(v)) /\ Off(w, Turn)' = running - 1
      BY <1>4, <1>12, <2>2
    <3> QED BY <1>1, <1>5, <1>8, <1>11, <1>12, <2>0, <2>1, <2>2, <3>1 DEF LaneHolds, Working
  <2>3. CASE w # v
    <3>1. Lane(w)' = Lane(w) /\ Off(w, Turn)' = Off(w, Turn) - 1 /\ Off(w, Turn) # 0
      BY <1>4, <1>12, <2>3, LaneNumbers
    <3>0. PICK x \in Nat : x = Off(w, Turn)
      BY LaneNumbers
    <3>2. PICK c \in Nat : c = Off(w, Turn) - 1 /\ (Got + 1) + c = Got + Off(w, Turn)
      BY <1>9, <3>0, <3>1
    <3>3. /\ Lane(w) \in Seq(Nat) /\ Ending(w) \in BOOLEAN /\ Off(w, Turn) \in Nat
          /\ Off(w, nextoneE) \in Nat
          /\ Holds(Lane(w), Ending(w), Got, Off(w, Turn), sent, Off(w, nextoneE), running)
      BY LaneNumbers
    <3>4. Holds(Lane(w), Ending(w), Got + 1, c, sent, Off(w, nextoneE), running)
      <4>1. PICK lane \in Seq(Nat), n \in Nat \ {0}, g \in Nat, s \in Nat, b \in BOOLEAN, e \in Nat :
                 /\ lane = Lane(w) /\ n = running /\ g = Got /\ s = sent /\ b = Ending(w)
                 /\ e = Off(w, nextoneE)
        BY <1>9, <3>3
      <4>2. Holds(lane, b, g, x, s, e, n) /\ g + 1 \in Nat /\ (g + 1) + c = g + x
        BY <3>0, <3>2, <3>3, <4>1
      <4>3. Holds(lane, b, g + 1, c, s, e, n)
        BY <4>2, HoldsShift
      <4> QED BY <4>1, <4>3
    <3> QED BY <1>1, <1>5, <1>11, <1>12, <2>0, <2>1, <3>1, <3>2, <3>4 DEF LaneHolds, Working
  <2> QED BY <2>2, <2>3
<1>17. ASSUME NEW w \in Workers \ Active PROVE Asleep(w)'
  <2>1. r'[w] = r[w] /\ Asleep(w)
    BY <1>4 DEF Awake, GoodRun
  <2> QED BY <1>1, <2>1 DEF Asleep
<1>18. ResultsInOrder'
  <2>1. cpc # "frozen" /\ Got < sent
    BY <1>1, <1>8, <1>9
  <2>2. \/ Got + 1 = Got + 1 /\ Got < sent
        \/ Got + 1 = EOS /\ Got = NTasks * round
    BY <2>1
  <2> QED BY <1>9, <1>10, <2>1, <2>2, OutInOrder, Zenon
<1>19. r' \in [Workers -> Seq(Nat)] /\ out' \in Seq(Nat)
  <2>1. r[v] \in Seq(Nat) /\ r[v] # <<>> /\ r \in [Workers -> Seq(Nat)]
    BY <1>1, <1>2, <1>3 DEF Awake, Types
  <2>2. Tail(r[v]) \in Seq(Nat)
    BY <2>1
  <2>3. r' = [r EXCEPT ![v] = Tail(r[v])]
    BY <1>1, <1>2
  <2>4. r' \in [Workers -> Seq(Nat)]
    BY <2>1, <2>2, <2>3
  <2>5. out' \in Seq(Nat)
    BY <1>9, <1>10
  <2> QED BY <2>4, <2>5
<1>20. GoodRun'
  BY <1>11, <1>13, <1>14, <1>15, <1>16, <1>17 DEF GoodRun
<1>21. nextoneC' \in Workers /\ victimC' \in Workers /\ nextoneC' < running'
  <2>1. running \in Nat /\ Active = 0 .. running - 1 /\ Active \subseteq Workers
    BY AwakeFacts
  <2>2. nextoneC' < running
    BY <1>7, <2>1
  <2> QED BY <1>1, <1>7, <1>11, <2>1, <2>2
<1>22. out' = Append(out, Got + 1) /\ Got + 1 <= sent /\ Got' = Got + 1
  BY <1>8, <1>10, <1>11
<1> QED BY <1>18, <1>19, <1>20, <1>21, <1>22

\* The end of the stream in the lane of the victim: it is alone there.
LEMMA EndMet ==
  ASSUME Awake, cpc = "gather", NEW v \in Active, v = nextoneC, Lane(v) # <<>>, Lane(v)[1] = EOS
  PROVE  /\ Ending(v) /\ Len(Lane(v)) = 1 /\ Got = sent /\ Turn = nextoneE
         /\ Done = neos /\ Off(v, nextoneE) = Done
<1>1. /\ Got \in Nat /\ sent \in Nat /\ running \in Nat \ {0} /\ Got <= sent /\ Done \in Nat
      /\ Done = neos /\ neos < running
  BY AwakeFacts DEF Awake, GoodRun, Counting, Collecting, Done
<1>2. PICK lane \in Seq(Nat), n \in Nat \ {0}, g \in Nat, s \in Nat, b \in BOOLEAN, c \in Nat, e \in Nat :
           /\ lane = Lane(v) /\ n = running /\ g = Got /\ s = sent /\ b = Ending(v)
           /\ c = Off(v, Turn) /\ e = Off(v, nextoneE)
  BY <1>1, LaneNumbers
<1>3. Holds(lane, b, g, c, s, e, n) /\ lane # <<>> /\ lane[1] = EOS
  BY <1>2, LaneNumbers
<1>4. b /\ Len(lane) = 1 /\ g + c = s + e
  BY <1>3, HoldsEnd
<1>5. CASE Done = 0
  <2>1. Turn = nextoneC /\ c = 0
    BY <1>2, <1>5, AwakeFacts, OffActive DEF Turn
  <2>2. e = 0 /\ g = s
    BY <1>1, <1>2, <1>4, <2>1
  <2>3. v = nextoneE
    BY <1>2, <2>2, AwakeFacts, OffActive
  <2> QED BY <1>1, <1>2, <1>4, <1>5, <2>1, <2>2, <2>3
<1>6. CASE Done > 0
  <2>1. Got = sent /\ Off(nextoneC, nextoneE) = Done /\ Turn = nextoneE
    BY <1>1, <1>6 DEF Awake, GoodRun, Collecting, Turn
  <2> QED BY <1>1, <1>2, <1>4, <2>1
<1> QED BY <1>1, <1>5, <1>6

\* Its worker sleeps, and both channels are empty without it.
LEMMA EndAlone ==
  ASSUME Awake, NEW v \in Active, r[v] # <<>>, Len(Lane(v)) = 1, Ending(v)
  PROVE  wpc[v] = "frozen" /\ q[v] = <<>> /\ Tail(r[v]) = <<>>
<1>1. /\ r[v] \in Seq(Nat) /\ q[v] \in Seq(Nat) /\ v \in Workers
      /\ wpc[v] \in {"pop", "push", "frozen"}
  BY AwakeFacts DEF Awake, Types
<1>2. 1 = Len(r[v]) + (IF wpc[v] = "push" THEN 1 ELSE 0) + Len(q[v])
  BY <1>1, LaneType DEF Awake
<1>3. Len(r[v]) \in Nat \ {0} /\ Len(q[v]) \in Nat
  BY <1>1
<1>4. Len(r[v]) = 1 /\ Len(q[v]) = 0 /\ wpc[v] # "push"
  <2>1. PICK a \in Nat \ {0}, b \in Nat : a = Len(r[v]) /\ b = Len(q[v])
    BY <1>3
  <2>2. 1 = a + (IF wpc[v] = "push" THEN 1 ELSE 0) + b
    BY <1>2, <2>1
  <2>3. wpc[v] # "push" /\ a = 1 /\ b = 0
    BY <2>2
  <2> QED BY <2>1, <2>3
<1>5. q[v] = <<>> /\ Tail(r[v]) = <<>>
  <2>2. ASSUME NEW s \in Seq(Nat), Len(s) = 0 PROVE s = <<>>
    BY <2>2
  <2>1. ASSUME NEW s \in Seq(Nat), Len(s) = 1 PROVE Tail(s) = <<>>
    <3>1. s # <<>>
      BY <2>1
    <3>2. Tail(s) \in Seq(Nat) /\ Len(Tail(s)) = 0
      BY <2>1, <3>1
    <3> QED BY <2>2, <3>2, Zenon
  <2> QED BY <1>1, <1>4, <2>1, <2>2, Zenon
<1>6. wpc[v] # "pop"
  BY <1>5, LaneNumbers DEF Working, Ending
<1> QED BY <1>1, <1>4, <1>5, <1>6

\* After the end of stream of the victim comes that of the next, after the last one
\* the collector freezes, with the turn where the emitter's is.
LEMMA AwakeGatherEos ==
  ASSUME Awake, GatherEos, ResultsInOrder
  PROVE  /\ GoodRun' /\ nextoneC' < running' /\ ResultsInOrder'
         /\ r' \in [Workers -> Seq(Nat)] /\ out' \in Seq(Nat)
         /\ nextoneC' \in Workers /\ victimC' \in Workers
         /\ dead' \subseteq Workers /\ neos' \in 0 .. NWorkers
         /\ Got = sent /\ Got' = Got /\ out' \in {out, Append(out, EOS)}
<1>1. /\ cpc = "gather" /\ r[victimC] # <<>> /\ Head(r[victimC]) = EOS
      /\ r' = [r EXCEPT ![victimC] = Tail(@)]
      /\ dead' = dead \union {victimC}
      /\ nextoneC' = (IF nextoneC = victimC THEN (nextoneC + 1) % running ELSE nextoneC)
      /\ victimC' = (IF nextoneC' \in dead' THEN victimC ELSE nextoneC')
      /\ IF neos + 1 >= running
         THEN neos' = 0 /\ cpc' = "frozen" /\ out' = Append(out, EOS)
         ELSE neos' = neos + 1 /\ cpc' = cpc /\ out' = out
      /\ q' = q /\ wpc' = wpc /\ hold' = hold
      /\ UNCHANGED <<emitter, running, round, sent>>
  BY DEF GatherEos, workers
<1> USE DEF emitter
<1>2. PICK v \in Active : v = victimC /\ v = nextoneC
  BY <1>1, AwakeFacts DEF Awake, GoodRun, Collecting
<1>3. v \in Workers /\ Lane(v) \in Seq(Nat)
  BY LaneNumbers
<1>4. /\ Lane(v) # <<>> /\ Lane(v)[1] = EOS /\ Lane(v)' = Tail(Lane(v))
      /\ \A w \in Workers \ {v} : Lane(w)' = Lane(w) /\ r'[w] = r[w]
  <2>1. Types /\ r[v] # <<>> /\ r' = [r EXCEPT ![v] = Tail(@)] /\ q' = q /\ wpc' = wpc /\ hold' = hold
    BY <1>1, <1>2 DEF Awake
  <2>2. /\ Lane(v) # <<>> /\ Lane(v)[1] = Head(r[v]) /\ Lane(v)' = Tail(Lane(v))
        /\ \A w \in Workers \ {v} : Lane(w)' = Lane(w) /\ r'[w] = r[w]
    BY <1>3, <2>1, LaneGet, Zenon
  <2> QED BY <1>1, <1>2, <2>2
<1>5. /\ Ending(v) /\ Len(Lane(v)) = 1 /\ Got = sent /\ Turn = nextoneE
      /\ Done = neos /\ Off(v, nextoneE) = Done
  BY <1>1, <1>2, <1>4, EndMet
<1>6. wpc[v] = "frozen" /\ q[v] = <<>> /\ Tail(r[v]) = <<>>
  BY <1>1, <1>2, <1>5, EndAlone
<1>7. /\ running \in Nat \ {0} /\ running <= NWorkers /\ neos \in Nat /\ neos < running /\ out \in Seq(Nat)
      /\ Told \in Nat /\ Got \in Nat /\ sent \in Nat /\ neos < Told /\ round \in Nat \ {0}
      /\ Len(out) = Got + (round - 1) /\ sent = NTasks * round
  <2>1. neos < Told
    BY <1>5 DEF Ending
  <2>2. running \in Nat \ {0} /\ running <= NWorkers /\ Told \in Nat /\ Got \in Nat /\ sent \in Nat
    BY AwakeFacts
  <2>3. round \in Nat \ {0} /\ Len(out) = Got + (round - 1)
    BY <1>1, OutLength
  <2>4. neos \in Nat /\ neos < running /\ out \in Seq(Nat)
    BY AwakeFacts DEF Awake, Types, GoodRun, Collecting
  <2>5. Told > 0
    BY <2>1, <2>2, <2>4
  <2> QED BY <2>1, <2>2, <2>3, <2>4, <2>5 DEF Awake, GoodRun, Emitting
<1>8. nextoneC' = (nextoneC + 1) % running /\ nextoneC' \in Active
  BY <1>1, <1>2, OffActive
<1>9. /\ neos + 1 < running => Off(nextoneC', nextoneE) = neos + 1
      /\ neos + 1 >= running => nextoneC' = nextoneE
  <2>1. /\ Off(v, nextoneE) < running - 1 => Off((v + 1) % running, nextoneE) = Off(v, nextoneE) + 1
        /\ Off(v, nextoneE) = running - 1 => (v + 1) % running = nextoneE
    BY AwakeFacts, OffActive
  <2>2. nextoneC' = (v + 1) % running /\ Off(v, nextoneE) = neos
    BY <1>2, <1>5, <1>8
  <2> QED BY <1>7, <2>1, <2>2
<1>10. /\ Told' = Told /\ Done' = neos + 1 /\ Got' = Got /\ Turn' = nextoneE /\ Active' = Active
       /\ nextoneE' = nextoneE /\ running' = running
  <2>1. Done' = neos + 1
    <3>1. running' = running /\ cpc = "gather"
      BY <1>1
    <3>2. CASE neos + 1 >= running
      <4>1. cpc' = "frozen" /\ running = neos + 1
        BY <1>1, <1>7, <3>2
      <4> QED BY <3>1, <4>1 DEF Done
    <3>3. CASE ~(neos + 1 >= running)
      <4>1. cpc' = "gather" /\ neos' = neos + 1
        BY <1>1, <3>1, <3>3
      <4> QED BY <4>1 DEF Done
    <3> QED BY <3>2, <3>3
  <2>2. Got' = Got
    <3>1. CASE neos + 1 >= running
      <4>1. Len(out') = Len(out) + 1 /\ Ended' = round
        BY <1>1, <1>7, <3>1 DEF Ended
      <4>2. Len(out) = Got + (round - 1) /\ Len(out') - round = Got
        BY <1>7, <4>1
      <4> QED BY <4>1, <4>2 DEF Got
    <3>2. CASE ~(neos + 1 >= running)
      BY <1>1, <3>2 DEF Got, Ended
    <3> QED BY <3>1, <3>2
  <2>3. Turn' = nextoneE'
    BY <1>7, <2>1 DEF Turn
  <2> QED BY <1>1, <2>1, <2>2, <2>3 DEF Told, Active
<1>11. ASSUME NEW w \in Active
       PROVE  /\ Off(w, nextoneE)' = Off(w, nextoneE) /\ Off(w, Turn)' = Off(w, nextoneE)
              /\ Off(w, nextoneE) \in Nat
              /\ w # v => Off(w, nextoneE) # neos
  <2>0. \A z \in Active : Off(z, nextoneE) = Off(v, nextoneE) => z = v
    BY AwakeFacts, OffActive
  <2>1. Off(w, nextoneE) = Off(v, nextoneE) => w = v
    BY <2>0, Zenon
  <2>2. Off(w, nextoneE)' = Off(w, nextoneE) /\ Off(w, Turn)' = Off(w, nextoneE)
    BY <1>10 DEF Off
  <2> QED BY <1>5, <2>1, <2>2, LaneNumbers
<1>12. dead' = {w \in Active : Off(w, nextoneE) < neos + 1}
  <2>1. dead = {w \in Active : Off(w, nextoneE) < neos}
    BY <1>1 DEF Awake, GoodRun, Collecting
  <2>2. \A w \in Active : Off(w, nextoneE) < neos + 1 <=> Off(w, nextoneE) < neos \/ w = v
    <3> SUFFICES ASSUME NEW w \in Active
                 PROVE  Off(w, nextoneE) < neos + 1 <=> Off(w, nextoneE) < neos \/ w = v
      OBVIOUS
    <3>1. PICK o \in Nat : o = Off(w, nextoneE) /\ (w = v => o = neos) /\ (w # v => o # neos)
      BY <1>5, <1>11
    <3>2. o < neos + 1 <=> o < neos \/ w = v
      BY <1>7, <3>1
    <3> QED BY <3>1, <3>2
  <2> QED BY <1>1, <1>2, <2>1, <2>2
<1>13. Emitting'
  BY <1>1, <1>10 DEF Awake, GoodRun, Emitting
<1>14. Collecting'
  <2>1. \A w \in Active : Off(w, nextoneE)' = Off(w, nextoneE)
    BY <1>11
  <2>2. dead' = {w \in Active : Off(w, nextoneE) < neos + 1}
    BY <1>12
  <2>3. Off(nextoneC, nextoneE)' = Off(nextoneC', nextoneE)
    BY <1>10 DEF Off
  <2>4. Done' <= Told' /\ Done' > 0 /\ Got' = sent'
    BY <1>1, <1>5, <1>7, <1>10
  <2>5. CASE neos + 1 < running
    <3>1. neos' = neos + 1 /\ cpc' = "gather" /\ Done' = neos + 1 /\ running' = running
      BY <1>1, <1>7, <1>10, <2>5
    <3>2. Off(nextoneC, nextoneE)' = neos + 1
      BY <1>9, <2>3, <2>5
    <3>3. nextoneC' \notin dead'
      BY <1>7, <1>9, <2>2, <2>5
    <3>4. victimC' = nextoneC'
      BY <1>1, <3>3
    <3>5. dead' = {w \in Active : Off(w, nextoneE) < neos}'
      BY <1>10, <2>1, <2>2, <3>1
    <3> QED BY <1>7, <2>4, <2>5, <3>1, <3>2, <3>4, <3>5 DEF Collecting
  <2>6. CASE ~(neos + 1 < running)
    <3>1. neos' = 0 /\ cpc' = "frozen" /\ Done' = running' /\ nextoneC' = nextoneE' /\ running' = running
      BY <1>1, <1>7, <1>9, <1>10, <2>6
    <3> QED BY <1>7, <2>4, <3>1 DEF Collecting
  <2> QED BY <2>5, <2>6
<1>15. Counting'
  <2>1. NTasks * (round - 1) <= Got /\ Got <= sent /\ sent <= NTasks * round
    BY <1>1, OutLength
  <2>2. cpc' = "frozen" => out' # <<>> /\ out'[Len(out')] = EOS
    BY <1>1, <1>7
  <2> QED BY <1>1, <1>10, <2>1, <2>2 DEF Counting
<1>16. ASSUME NEW w \in Active PROVE LaneHolds(w)' /\ Working(w)'
  <2>0. Working(w)
    BY LaneNumbers
  <2>1. CASE w = v
    <3>1. Lane(w)' = <<>>
      BY <1>3, <1>4, <1>5, <2>1
    <3>2. Ending(w)' = FALSE
      BY <1>5, <1>7, <1>10, <1>11, <2>1 DEF Ending
    <3>3. Holds(<<>>, FALSE, Got, Off(w, nextoneE), sent, Off(w, nextoneE), running)
      <4>1. PICK n \in Nat \ {0}, g \in Nat, e \in Nat :
                 n = running /\ g = Got /\ g = sent /\ e = Off(w, nextoneE)
        BY <1>5, <1>7, <1>11
      <4>2. Holds(<<>>, FALSE, g, e, g, e, n)
        BY HoldsNone
      <4> QED BY <4>1, <4>2
    <3>4. LaneHolds(w)'
      BY <1>1, <1>10, <1>11, <3>1, <3>2, <3>3 DEF LaneHolds
    <3>5. Working(w)'
      BY <1>1, <1>5, <1>6, <1>7, <1>10, <1>11, <2>1 DEF Working
    <3> QED BY <3>4, <3>5
  <2>2. CASE w # v
    <3>1. Off(w, nextoneE) >= neos + 1 <=> Off(w, nextoneE) >= neos
      <4>1. PICK o \in Nat : o = Off(w, nextoneE) /\ o # neos
        BY <1>11, <2>2
      <4>2. o >= neos + 1 <=> o >= neos
        BY <1>7, <4>1
      <4> QED BY <4>1, <4>2
    <3>2. Ending(w)' = Ending(w)
      BY <1>5, <1>10, <1>11, <3>1 DEF Ending
    <3>3. Lane(w)' = Lane(w)
      BY <1>4, <2>2, LaneNumbers
    <3>4. Holds(Lane(w), Ending(w), Got, Off(w, nextoneE), sent, Off(w, nextoneE), running)
      BY <1>5, LaneNumbers
    <3>5. LaneHolds(w)'
      BY <1>1, <1>10, <1>11, <3>2, <3>3, <3>4 DEF LaneHolds
    <3>6. Working(w)'
      BY <1>1, <1>5, <1>10, <1>11, <2>0, <3>1 DEF Working
    <3> QED BY <3>5, <3>6
  <2> QED BY <2>1, <2>2
<1>17. ASSUME NEW w \in Workers \ Active PROVE Asleep(w)'
  <2>1. r'[w] = r[w] /\ Asleep(w)
    BY <1>4 DEF Awake, GoodRun
  <2> QED BY <1>1, <2>1 DEF Asleep
<1>18. ResultsInOrder'
  <2>1. CASE neos + 1 >= running
    <3>1. out' = Append(out, EOS) /\ cpc # "frozen" /\ EOS \in Nat /\ Got = NTasks * round
      BY <1>1, <1>5, <1>7, <2>1 DEF EOS
    <3>2. \/ EOS = Got + 1 /\ Got < sent
          \/ EOS = EOS /\ Got = NTasks * round
      BY <3>1
    <3> QED BY <3>1, <3>2, OutInOrder, Zenon
  <2>2. CASE ~(neos + 1 >= running)
    BY <1>1, <2>2 DEF ResultsInOrder
  <2> QED BY <2>1, <2>2
<1>19. r' \in [Workers -> Seq(Nat)] /\ out' \in Seq(Nat)
  <2>1. r[v] \in Seq(Nat) /\ r[v] # <<>> /\ r \in [Workers -> Seq(Nat)]
    BY <1>1, <1>2, <1>3 DEF Awake, Types
  <2>2. Tail(r[v]) \in Seq(Nat)
    BY <2>1
  <2>3. r' = [r EXCEPT ![v] = Tail(r[v])]
    BY <1>1, <1>2
  <2>4. r' \in [Workers -> Seq(Nat)]
    BY <2>1, <2>2, <2>3
  <2>5. out' \in Seq(Nat)
    <3>1. CASE neos + 1 >= running
      <4>1. out' = Append(out, EOS) /\ EOS \in Nat
        BY <1>1, <3>1 DEF EOS
      <4> QED BY <1>7, <4>1
    <3>2. CASE ~(neos + 1 >= running)
      BY <1>1, <1>7, <3>2
    <3> QED BY <3>1, <3>2
  <2> QED BY <2>4, <2>5
<1>20. GoodRun'
  BY <1>10, <1>13, <1>14, <1>15, <1>16, <1>17 DEF GoodRun
<1>21. /\ nextoneC' \in Workers /\ victimC' \in Workers /\ nextoneC' < running'
       /\ dead' \subseteq Workers /\ neos' \in 0 .. NWorkers
  <2>0. NWorkers \in Nat /\ Active = 0 .. running - 1 /\ Active \subseteq Workers
    BY AwakeFacts
  <2>1. nextoneC' \in Workers /\ nextoneC' < running'
    <3>1. nextoneC' < running
      BY <1>7, <1>8, <2>0
    <3> QED BY <1>8, <1>10, <2>0, <3>1
  <2>2. victimC' \in Workers
    BY <1>1, <1>2, <1>3, <2>1
  <2>3. dead' \subseteq Workers
    BY <1>12, <2>0
  <2>4. neos' \in 0 .. NWorkers
    BY <1>1, <1>7, <2>0
  <2> QED BY <2>1, <2>2, <2>3, <2>4
<1>22. Got = sent /\ Got' = Got /\ out' \in {out, Append(out, EOS)}
  BY <1>1, <1>5, <1>10
<1> QED BY <1>18, <1>19, <1>20, <1>21, <1>22

-----------------------------------------------------------------------------
(* The owner, and runs in which the turn is asleep *)

\* When all have frozen, the farm rests.
LEMMA AwakeWaitFreezing == ASSUME Awake, WaitFreezing PROVE Resting' /\ running' = -1
<1>1. /\ \A w \in Active : wpc[w] = "frozen"
      /\ epc = "frozen" /\ cpc = "frozen" /\ running' = -1
      /\ UNCHANGED <<channels, workers, emitter, collector, round, sent, out>>
  BY DEF WaitFreezing
<1> USE DEF channels, workers, emitter, collector
<1>2. Done = running /\ Done > 0 /\ Got' = Got
  BY <1>1, AwakeFacts DEF Done, Got, Ended
<1>3. ASSUME NEW w \in Active PROVE Asleep(w)
  <2>1. ~Ending(w)
    BY <1>2, LaneNumbers, AwakeFacts DEF Ending
  <2>2. Len(Lane(w)) = 0
    BY <1>2, <2>1, NothingLeft
  <2>3. r[w] \in Seq(Nat) /\ q[w] \in Seq(Nat) /\ w \in Workers
    BY AwakeFacts DEF Awake, Types
  <2>4. Len(Lane(w)) = Len(r[w]) + (IF wpc[w] = "push" THEN 1 ELSE 0) + Len(q[w])
    BY <2>3, LaneType DEF Awake
  <2>5. PICK a \in Nat, b \in Nat : a = Len(r[w]) /\ b = Len(q[w])
    BY <2>3
  <2>6. a + (IF wpc[w] = "push" THEN 1 ELSE 0) + b = 0
    BY <2>2, <2>4, <2>5
  <2>7. a = 0 /\ b = 0
    BY <2>6
  <2>8. ASSUME NEW s \in Seq(Nat), Len(s) = 0 PROVE s = <<>>
    BY <2>8
  <2>9. r[w] = <<>> /\ q[w] = <<>>
    BY <2>3, <2>5, <2>7, <2>8, Zenon
  <2> QED BY <1>1, <2>9 DEF Asleep
<1>4. \A w \in Workers : Asleep(w)'
  BY <1>1, <1>3 DEF Asleep, Awake, GoodRun
<1>5. Told = running
  BY <1>1 DEF Told
<1>6. bpos = 0 /\ neos = 0 /\ nextoneE = nextoneC /\ Got = sent /\ sent = NTasks * round
  BY <1>1, <1>2, <1>5, AwakeFacts DEF Awake, GoodRun, Emitting, Collecting
<1>7. out # <<>> /\ out[Len(out)] = EOS
  BY <1>1 DEF Awake, GoodRun, Counting
<1> QED BY <1>1, <1>2, <1>4, <1>6, <1>7 DEF Resting

\* The owner wakes some workers: the one that has the turn, or not.
LEMMA RestingThaw ==
  ASSUME OrderedFarmAssumption, Types, Resting, running = -1, NEW nw \in Subsets, Thaw(nw)
  PROVE  /\ running' # -1
         /\ nextoneC' < running' => GoodRun'
         /\ nextoneC' >= running' => StuckRun'
<1>1. /\ running' = nw /\ round' = round + 1
      /\ wpc' = [w \in Workers |-> IF w < nw THEN "pop" ELSE wpc[w]]
      /\ epc' = "init" /\ cpc' = "init"
      /\ UNCHANGED <<channels, hold, bpos, nextoneE, nextoneC, neos, dead, sent, out>>
  BY DEF Thaw
<1> USE DEF channels
<1>2. nw \in 1 .. NWorkers /\ NWorkers \in Nat \ {0} /\ nw \in Nat \ {0}
  BY DEF OrderedFarmAssumption
<1>3. /\ \A w \in Workers : Asleep(w) /\ (w < nw => wpc'[w] = "pop") /\ (~(w < nw) => wpc'[w] = "frozen")
      /\ epc = "frozen" /\ cpc = "frozen" /\ bpos = 0 /\ neos = 0
      /\ nextoneE = nextoneC /\ Got = sent /\ sent = NTasks * round
  BY <1>1 DEF Resting, Asleep
<1>4. nextoneC \in 0 .. NWorkers - 1 /\ round \in Nat \ {0} /\ sent \in Nat
  BY DEF Types, Workers
<1>5. ASSUME nextoneC >= nw PROVE StuckRun'
  <2>1. nextoneC \in Workers /\ ~(nextoneC < nw)
    BY <1>2, <1>4, <1>5 DEF Workers
  <2>2. r'[nextoneC'] = <<>> /\ wpc'[nextoneC'] = "frozen"
    BY <1>1, <1>3, <2>1 DEF Asleep
  <2> QED BY <1>1, <2>2 DEF StuckRun
<1>6. ASSUME nextoneC < nw PROVE GoodRun'
  <2>1. Told' = 0 /\ Done' = 0 /\ Turn' = nextoneC /\ Active' = 0 .. nw - 1
    BY <1>1, <1>3 DEF Told, Done, Turn, Active
  <2>2. Got' = Got
    <3>1. Got = Len(out) - round
      BY <1>3 DEF Got, Ended
    <3>2. Got' = Len(out) - ((round + 1) - 1)
      BY <1>1 DEF Got, Ended
    <3>3. (round + 1) - 1 = round
      BY <1>4
    <3> QED BY <3>1, <3>2, <3>3
  <2>3. Active' \subseteq Workers
    BY <1>2, <2>1 DEF Workers
  <2>4. Emitting'
    BY <1>1, <1>2, <1>3, <1>6, <2>1 DEF Emitting
  <2>5. Collecting'
    BY <1>1, <1>2, <1>3, <2>1 DEF Collecting
  <2>6. Counting'
    <3>1. round + 1 \in Nat \ {0} /\ (round + 1) - 1 = round
      BY <1>4
    <3>2. NTasks * (round + 1) = NTasks * ((round + 1) - 1) + NTasks /\ NTasks * ((round + 1) - 1) \in Nat
      BY <3>1, RoundFacts
    <3>3. NTasks \in Nat
      BY DEF OrderedFarmAssumption
    <3> DEFINE a == NTasks * round
               b == NTasks * (round + 1)
    <3>4. a \in Nat /\ b = a + NTasks
      BY <3>1, <3>2
    <3>5. Got = a /\ sent = a
      BY <1>3
    <3> HIDE DEF a, b
    <3>6. a <= Got /\ Got <= sent /\ sent <= b
      BY <3>3, <3>4, <3>5
    <3>7. NTasks * ((round + 1) - 1) <= Got /\ Got <= sent /\ sent <= NTasks * (round + 1)
      BY <3>1, <3>6 DEF a, b
    <3> QED BY <1>1, <2>2, <3>7 DEF Counting
  <2>7. ASSUME NEW w \in Active' PROVE LaneHolds(w)' /\ Working(w)'
    <3>1. w \in Workers /\ w \in 0 .. nw - 1
      BY <2>1, <2>3
    <3>2. wpc'[w] = "pop" /\ Asleep(w)
      BY <1>2, <1>3, <3>1
    <3>3. q'[w] = <<>> /\ r'[w] = <<>>
      BY <1>1, <3>2 DEF Asleep
    <3>4. Lane(w)' = <<>>
      <4>1. Lane(w)' = <<>> \o <<>> \o <<>>
        BY <3>2, <3>3 DEF Lane
      <4> QED BY <4>1
    <3>5. PICK o \in Nat : o = Off(w, nextoneE)' /\ o = Off(w, Turn)'
      <4>1. Off(w, nextoneE)' \in Nat
        BY <1>1, <1>2, <1>3, <1>4, <1>6, <3>1 DEF Off
      <4>2. Off(w, Turn)' = Off(w, nextoneE)'
        BY <1>1, <1>3, <2>1 DEF Off
      <4> QED BY <4>1, <4>2
    <3>6. Ending(w)' = FALSE
      BY <2>1, <3>5 DEF Ending
    <3>7. Holds(<<>>, FALSE, sent, o, sent, o, nw)
      BY <1>2, <1>4, HoldsNone
    <3>8. LaneHolds(w)'
      BY <1>1, <1>3, <2>2, <3>4, <3>5, <3>6, <3>7 DEF LaneHolds
    <3>9. Working(w)'
      BY <2>1, <3>2, <3>5 DEF Working
    <3> QED BY <3>8, <3>9
  <2>8. ASSUME NEW w \in Workers \ Active' PROVE Asleep(w)'
    <3>1. ~(w < nw)
      BY <1>2, <2>1 DEF Workers
    <3> QED BY <1>1, <1>3, <3>1 DEF Asleep
  <2> QED BY <2>4, <2>5, <2>6, <2>7, <2>8 DEF GoodRun
<1> QED BY <1>1, <1>2, <1>5, <1>6

\* The collector waits for a worker that sleeps: whatever the others do, it goes on.
LEMMA StuckStep ==
  ASSUME OrderedFarmAssumption, Types, running # -1, nextoneC >= running, StuckRun, Next
  PROVE  StuckRun' /\ running' = running /\ nextoneC' = nextoneC /\ out' = out
<1>1. /\ cpc # "frozen" /\ (cpc = "gather" => victimC = nextoneC)
      /\ r[nextoneC] = <<>> /\ wpc[nextoneC] = "frozen" /\ nextoneC \in Workers
  BY DEF StuckRun, Types
<1>2. CASE EmitterInit \/ Send \/ Broadcast
  BY <1>1, <1>2 DEF EmitterInit, Send, Broadcast, channels, workers, collector, StuckRun
<1>3. CASE CollectorInit
  BY <1>1, <1>3 DEF CollectorInit, channels, workers, emitter, StuckRun
<1>4. CASE Gather \/ GatherEos
  BY <1>1, <1>4 DEF Gather, GatherEos
<1>5. ASSUME NEW w \in Workers, Pop(w) PROVE StuckRun' /\ running' = running /\ nextoneC' = nextoneC /\ out' = out
  <2>1. w # nextoneC
    BY <1>1, <1>5 DEF Pop
  <2> QED BY <1>1, <1>5, <2>1 DEF Pop, emitter, collector, StuckRun, Types
<1>6. ASSUME NEW w \in Workers, Push(w) PROVE StuckRun' /\ running' = running /\ nextoneC' = nextoneC /\ out' = out
  <2>1. w # nextoneC
    BY <1>1, <1>6 DEF Push
  <2> QED BY <1>1, <1>6, <2>1 DEF Push, Put, emitter, collector, StuckRun, Types
<1>7. CASE WaitFreezing
  BY <1>1, <1>7 DEF WaitFreezing
<1>8. ASSUME NEW nw \in Subsets, Thaw(nw) PROVE FALSE
  BY <1>8 DEF Thaw
<1> QED BY <1>2, <1>3, <1>4, <1>5, <1>6, <1>7, <1>8 DEF Next, Threads

-----------------------------------------------------------------------------
(* The inductive invariant *)

\* The first run: everything is empty and worker 0 has the turn.
LEMMA InitIInv == OrderedFarmAssumption /\ Init => IInv
<1> SUFFICES ASSUME OrderedFarmAssumption, Init PROVE IInv
  OBVIOUS
<1>1. NWorkers \in Nat \ {0} /\ Size \in Nat \ {0} /\ NTasks \in Nat /\ Rounds \in Nat \ {0}
  BY DEF OrderedFarmAssumption
<1>2. 0 \in Workers
  BY <1>1 DEF Workers
<1>3. Types
  <2>1. q \in [Workers -> Seq(Nat)] /\ r \in [Workers -> Seq(Nat)] /\ hold \in [Workers -> Nat]
    BY DEF Init, EOS
  <2>2. \A w \in Workers : Len(q[w]) <= Size /\ Len(r[w]) <= Size
    BY <1>1 DEF Init
  <2>3. wpc \in [Workers -> {"pop", "push", "frozen"}] /\ out \in Seq(Nat)
    BY DEF Init
  <2> QED BY <1>1, <1>2, <2>1, <2>2, <2>3 DEF Types, Init
<1>4. ResultsInOrder
  BY DEF ResultsInOrder, Init
<1>5. Told = 0 /\ Done = 0 /\ Got = 0 /\ Turn = 0 /\ Active = Workers
  BY DEF Told, Done, Got, Ended, Turn, Active, Workers, Init
<1>6. GoodRun
  <2>1. Emitting
    BY <1>1, <1>5 DEF Emitting, Init
  <2>2. Collecting
    BY <1>1, <1>5 DEF Collecting, Init
  <2>3. Counting
    BY <1>1, <1>5 DEF Counting, Init
  <2>4. ASSUME NEW w \in Active PROVE LaneHolds(w) /\ Working(w)
    <3>1. PICK o \in Nat : o = Off(w, nextoneE) /\ o = Off(w, Turn)
      <4>1. w \in Nat
        BY <1>1, <1>5 DEF Workers
      <4> QED BY <1>5, <4>1 DEF Off, Init
    <3>2. Lane(w) = <<>>
      <4>1. Lane(w) = <<>> \o <<>> \o <<>>
        BY <1>5 DEF Lane, Init
      <4> QED BY <4>1
    <3>3. Ending(w) = FALSE
      BY <1>5, <3>1 DEF Ending
    <3>4. Holds(<<>>, FALSE, 0, o, 0, o, running)
      BY <1>1, HoldsNone DEF Init
    <3>5. LaneHolds(w)
      BY <1>5, <3>1, <3>2, <3>3, <3>4 DEF LaneHolds, Init
    <3> QED BY <1>5, <3>1, <3>5 DEF Working, Init
  <2> QED BY <1>5, <2>1, <2>2, <2>3, <2>4 DEF GoodRun
<1>7. running # -1 /\ ~(nextoneC >= running)
  BY <1>1 DEF Init
<1> QED BY <1>3, <1>4, <1>6, <1>7 DEF IInv

\* In a run the turn is awake or asleep.
LEMMA TurnAwakeOrNot ==
  ASSUME OrderedFarmAssumption, IInv
  PROVE  \/ running = -1 /\ Resting
         \/ Awake
         \/ running # -1 /\ nextoneC >= running /\ StuckRun
<1>1. nextoneC \in Nat /\ running \in Int
  BY DEF IInv, Types, OrderedFarmAssumption, Workers
<1> QED BY <1>1 DEF IInv, Awake

\* A farm that rests only waits for its owner.
LEMMA RestingStep ==
  ASSUME OrderedFarmAssumption, Types, Resting, running = -1, Next
  PROVE  \E nw \in Subsets : Thaw(nw)
<1>1. ~EmitterInit /\ ~Send /\ ~Broadcast
  BY DEF Resting, EmitterInit, Send, Broadcast
<1>2. ~CollectorInit /\ ~Gather /\ ~GatherEos /\ ~WaitFreezing
  BY DEF Resting, CollectorInit, Gather, GatherEos, WaitFreezing
<1>3. \A w \in Workers : ~Pop(w) /\ ~Push(w)
  BY DEF Resting, Asleep, Pop, Push
<1> QED BY <1>1, <1>2, <1>3 DEF Next, Threads

\* No step mixes the types up or lets a channel hold more than it can.
LEMMA StepTypes == ASSUME OrderedFarmAssumption, IInv, Next PROVE Types'
<1> USE DEF channels, workers, emitter, collector
<1>0. /\ Types /\ NWorkers \in Nat \ {0} /\ Size \in Nat \ {0} /\ Subsets \subseteq 1 .. NWorkers
      /\ running # -1 => running \in Nat \ {0} /\ running <= NWorkers
  <2>1. Types
    BY DEF IInv
  <2>2. NWorkers \in Nat \ {0} /\ running \in (1 .. NWorkers) \union {-1}
    BY <2>1 DEF Types, OrderedFarmAssumption
  <2>3. running # -1 => running \in Nat \ {0} /\ running <= NWorkers
    BY <2>2
  <2> QED BY <2>1, <2>2, <2>3 DEF OrderedFarmAssumption
<1>1. CASE EmitterInit
  BY <1>0, <1>1 DEF EmitterInit, Types
<1>2. ASSUME NEW v \in Workers, NEW t \in Nat, NEW c \in [Workers -> Seq(Nat)], Room(c, v),
             \A w \in Workers : Len(c[w]) <= Size
      PROVE  Put(c, v, t) \in [Workers -> Seq(Nat)] /\ \A w \in Workers : Len(Put(c, v, t)[w]) <= Size
  <2>1. c[v] \in Seq(Nat) /\ Len(c[v]) < Size
    BY <1>2 DEF Room
  <2>2. Append(c[v], t) \in Seq(Nat) /\ Len(Append(c[v], t)) = Len(c[v]) + 1 /\ Len(c[v]) \in Nat
    BY <2>1
  <2>3. Len(Append(c[v], t)) <= Size
    BY <1>0, <2>1, <2>2
  <2> QED BY <1>2, <2>2, <2>3 DEF Put
<1>3. ASSUME NEW v \in Workers, NEW c \in [Workers -> Seq(Nat)], c[v] # <<>>,
             \A w \in Workers : Len(c[w]) <= Size
      PROVE  /\ [c EXCEPT ![v] = Tail(@)] \in [Workers -> Seq(Nat)] /\ Head(c[v]) \in Nat
             /\ \A w \in Workers : Len([c EXCEPT ![v] = Tail(@)][w]) <= Size
  <2>1. c[v] \in Seq(Nat) /\ Len(c[v]) <= Size
    BY <1>3
  <2>2. Tail(c[v]) \in Seq(Nat) /\ Len(Tail(c[v])) = Len(c[v]) - 1 /\ Len(c[v]) \in Nat /\ Head(c[v]) \in Nat
    BY <1>3, <2>1
  <2>3. Len(Tail(c[v])) <= Size
    BY <1>0, <2>1, <2>2
  <2> QED BY <1>3, <2>2, <2>3
<1>4. CASE Send
  <2>1. running # -1
    <3>1. running = -1 => epc = "frozen"
      BY DEF IInv, Resting
    <3> QED BY <1>4, <3>1 DEF Send
  <2>2. q' = Put(q, victimE, sent + 1) /\ Room(q, victimE) /\ sent' = sent + 1 /\ r' = r
    BY <1>4 DEF Send
  <2>3. q' \in [Workers -> Seq(Nat)] /\ \A w \in Workers : Len(q'[w]) <= Size
    <3>1. victimE \in Workers /\ q \in [Workers -> Seq(Nat)] /\ sent \in Nat
      BY <1>0 DEF Types
    <3>2. \A w \in Workers : Len(q[w]) <= Size
      BY <1>0 DEF Types
    <3>3. sent + 1 \in Nat
      BY <3>1
    <3> QED BY <1>2, <2>2, <3>1, <3>2, <3>3
  <2>4. (nextoneE + 1) % running \in Workers
    <3>1. ASSUME NEW n \in Nat \ {0}, NEW x \in Nat PROVE x % n \in Nat /\ x % n <= n - 1
      OBVIOUS
    <3>2. nextoneE + 1 \in Nat
      BY <1>0 DEF Types, Workers
    <3>3. PICK y \in Nat : y = (nextoneE + 1) % running /\ y <= running - 1
      BY <1>0, <2>1, <3>1, <3>2
    <3>4. y \in 0 .. NWorkers - 1
      BY <1>0, <2>1, <3>3
    <3> QED BY <3>3, <3>4 DEF Workers
  <2>5. nextoneE' \in Workers /\ victimE' \in Workers /\ sent' \in Nat
    <3>1. nextoneE' = (nextoneE + 1) % running /\ victimE' = nextoneE'
      BY <1>4 DEF Send
    <3>2. sent' \in Nat
      BY <1>0, <2>2 DEF Types
    <3> QED BY <2>4, <3>1, <3>2
  <2>6. UNCHANGED <<r, workers, collector, epc, bpos, running, round, out>>
    BY <1>4 DEF Send
  <2> QED BY <1>0, <2>3, <2>5, <2>6 DEF Types, workers, collector
<1>5. CASE Broadcast
  <2>1. running # -1
    <3>1. running = -1 => epc = "frozen"
      BY DEF IInv, Resting
    <3> QED BY <1>5, <3>1 DEF Broadcast
  <2>2. BroadcastOrder \in Seq(Workers)
    <3>1. running \in 1 .. NWorkers /\ NWorkers \in Nat /\ victimE \in Workers
      BY <1>0, <2>1 DEF Types
    <3> QED BY <3>1, OrderFacts
  <2>3. CASE /\ bpos < Len(BroadcastOrder) /\ Room(q, BroadcastOrder[bpos + 1])
             /\ q' = Put(q, BroadcastOrder[bpos + 1], EOS) /\ bpos' = bpos + 1 /\ epc' = epc
    <3>1. BroadcastOrder[bpos + 1] \in Workers
      <4>1. bpos \in Nat
        BY <1>0 DEF Types
      <4>2. Len(BroadcastOrder) \in Nat
        BY <2>2
      <4>3. bpos + 1 \in 1 .. Len(BroadcastOrder)
        BY <2>3, <4>1, <4>2
      <4>4. ASSUME NEW b \in Seq(Workers), NEW i \in 1 .. Len(b) PROVE b[i] \in Workers
        OBVIOUS
      <4> QED BY <2>2, <4>3, <4>4
    <3>2. q' \in [Workers -> Seq(Nat)] /\ \A w \in Workers : Len(q'[w]) <= Size
      <4>1. EOS \in Nat /\ q \in [Workers -> Seq(Nat)] /\ \A w \in Workers : Len(q[w]) <= Size
        BY <1>0 DEF Types, EOS
      <4> QED BY <1>2, <2>3, <3>1, <4>1
    <3>3. bpos' \in Nat /\ epc' \in {"init", "svc", "frozen"}
      BY <1>0, <2>3 DEF Types
    <3>4. UNCHANGED <<r, workers, collector, nextoneE, victimE, running, round, sent, out>>
      BY <1>5 DEF Broadcast
    <3> QED BY <1>0, <3>2, <3>3, <3>4 DEF Types, workers, collector
  <2>4. CASE bpos = Len(BroadcastOrder) /\ epc' = "frozen" /\ bpos' = 0 /\ q' = q
    BY <1>0, <1>5, <2>4 DEF Broadcast, Types
  <2> QED BY <1>5, <2>3, <2>4 DEF Broadcast
<1>6. CASE CollectorInit
  BY <1>0, <1>6 DEF CollectorInit, Types
<1>7. CASE Gather \/ GatherEos
  <2>1. Awake
    <3>1. running # -1
      BY <1>7 DEF IInv, Resting, Gather, GatherEos
    <3>2. ~(nextoneC >= running /\ StuckRun)
      BY <1>7 DEF StuckRun, Gather, GatherEos
    <3> QED BY <3>1, <3>2, TurnAwakeOrNot
  <2>2. r' = [r EXCEPT ![victimC] = Tail(@)] /\ r[victimC] # <<>>
    BY <1>7 DEF Gather, GatherEos
  <2>3. \A w \in Workers : Len(r'[w]) <= Size
    <3>1. victimC \in Workers /\ r \in [Workers -> Seq(Nat)] /\ \A w \in Workers : Len(r[w]) <= Size
      BY <1>0 DEF Types
    <3> QED BY <1>3, <2>2, <3>1
  <2>4. CASE Gather
    <3>1. /\ r' \in [Workers -> Seq(Nat)] /\ out' \in Seq(Nat)
          /\ nextoneC' \in Workers /\ victimC' \in Workers
      BY <2>1, <2>4, AwakeGather DEF IInv
    <3> QED BY <1>0, <2>3, <2>4, <3>1 DEF Gather, Types
  <2>5. CASE GatherEos
    <3>1. /\ r' \in [Workers -> Seq(Nat)] /\ out' \in Seq(Nat)
          /\ nextoneC' \in Workers /\ victimC' \in Workers
          /\ dead' \subseteq Workers /\ neos' \in 0 .. NWorkers
      BY <2>1, <2>5, AwakeGatherEos DEF IInv
    <3>2. cpc' \in {"init", "gather", "frozen"}
      BY <1>0, <2>5 DEF GatherEos, Types
    <3> QED BY <1>0, <2>3, <2>5, <3>1, <3>2 DEF GatherEos, Types
  <2> QED BY <1>7, <2>4, <2>5
<1>8. ASSUME NEW v \in Workers, Pop(v) PROVE Types'
  <2>1. /\ q' = [q EXCEPT ![v] = Tail(@)] /\ q[v] # <<>> /\ hold' = [hold EXCEPT ![v] = Head(q[v])]
        /\ wpc' = [wpc EXCEPT ![v] = "push"]
    BY <1>8 DEF Pop
  <2>2. /\ q' \in [Workers -> Seq(Nat)] /\ Head(q[v]) \in Nat /\ \A w \in Workers : Len(q'[w]) <= Size
    <3>1. q \in [Workers -> Seq(Nat)] /\ \A w \in Workers : Len(q[w]) <= Size
      BY <1>0 DEF Types
    <3> QED BY <1>3, <2>1, <3>1
  <2>3. hold' \in [Workers -> Nat] /\ wpc' \in [Workers -> {"pop", "push", "frozen"}]
    BY <1>0, <2>1, <2>2 DEF Types
  <2> QED BY <1>0, <1>8, <2>2, <2>3 DEF Pop, Types
<1>9. ASSUME NEW v \in Workers, Push(v) PROVE Types'
  <2>1. /\ r' = Put(r, v, hold[v]) /\ Room(r, v) /\ hold' = [hold EXCEPT ![v] = EOS]
        /\ wpc' = [wpc EXCEPT ![v] = IF hold[v] = EOS THEN "frozen" ELSE "pop"]
    BY <1>9 DEF Push
  <2>2. r' \in [Workers -> Seq(Nat)] /\ \A w \in Workers : Len(r'[w]) <= Size
    <3>1. r \in [Workers -> Seq(Nat)] /\ hold[v] \in Nat /\ \A w \in Workers : Len(r[w]) <= Size
      BY <1>0 DEF Types
    <3> QED BY <1>2, <2>1, <3>1
  <2>3. hold' \in [Workers -> Nat] /\ wpc' \in [Workers -> {"pop", "push", "frozen"}]
    BY <1>0, <2>1 DEF Types, EOS
  <2> QED BY <1>0, <1>9, <2>2, <2>3 DEF Push, Types
<1>10. CASE WaitFreezing
  BY <1>0, <1>10 DEF WaitFreezing, Types
<1>11. ASSUME NEW nw \in Subsets, Thaw(nw) PROVE Types'
  <2>1. victimE' \in Workers /\ victimC' \in Workers /\ nw \in 1 .. NWorkers
    BY <1>0, <1>11 DEF Thaw, Types, Workers
  <2>2. wpc' \in [Workers -> {"pop", "push", "frozen"}]
    BY <1>0, <1>11 DEF Thaw, Types
  <2>3. round' \in 1 .. Rounds
    BY <1>0, <1>11 DEF Thaw, Types, OrderedFarmAssumption
  <2> QED BY <1>0, <1>11, <2>1, <2>2, <2>3 DEF Thaw, Types
<1> QED BY <1>1, <1>4, <1>5, <1>6, <1>7, <1>8, <1>9, <1>10, <1>11 DEF Next, Threads

\* A step of a run in which the turn is awake leaves it awake, or the farm at rest.
LEMMA AwakeStep ==
  ASSUME Awake, ResultsInOrder, Next
  PROVE  /\ ResultsInOrder'
         /\ \/ running' = -1 /\ Resting'
            \/ running' = running /\ nextoneC' < running' /\ GoodRun'
<1>1. CASE EmitterInit
  <2>1. GoodRun' /\ running' = running /\ nextoneC' = nextoneC /\ out' = out
    BY <1>1, AwakeEmitterInit DEF EmitterInit, collector
  <2> QED BY <2>1 DEF Awake, ResultsInOrder
<1>2. CASE Send
  <2>1. GoodRun' /\ nextoneC' < running' /\ running' = running /\ out' = out
    BY <1>2, AwakeSend DEF Send
  <2> QED BY <2>1 DEF ResultsInOrder
<1>3. CASE Broadcast
  <2>1. GoodRun' /\ nextoneC' < running' /\ running' = running /\ out' = out
    BY <1>3, AwakeBroadcast DEF Broadcast
  <2> QED BY <2>1 DEF ResultsInOrder
<1>4. CASE CollectorInit
  <2>1. GoodRun' /\ nextoneC' < running' /\ running' = running /\ out' = out
    BY <1>4, AwakeCollectorInit DEF CollectorInit
  <2> QED BY <2>1 DEF ResultsInOrder
<1>5. CASE Gather
  BY <1>5, AwakeGather DEF Gather
<1>6. CASE GatherEos
  BY <1>6, AwakeGatherEos DEF GatherEos
<1>7. ASSUME NEW w \in Workers, Pop(w) \/ Push(w)
      PROVE  ResultsInOrder' /\ running' = running /\ nextoneC' < running' /\ GoodRun'
  <2>1. GoodRun' /\ nextoneC' < running'
    BY <1>7, AwakePop, AwakePush
  <2>2. running' = running /\ out' = out
    BY <1>7 DEF Pop, Push
  <2> QED BY <2>1, <2>2 DEF ResultsInOrder
<1>8. CASE WaitFreezing
  <2>1. Resting' /\ running' = -1 /\ out' = out
    BY <1>8, AwakeWaitFreezing DEF WaitFreezing
  <2> QED BY <2>1 DEF ResultsInOrder
<1>9. ASSUME NEW nw \in Subsets, Thaw(nw) PROVE FALSE
  BY <1>9 DEF Thaw, Awake
<1> QED BY <1>1, <1>2, <1>3, <1>4, <1>5, <1>6, <1>7, <1>8, <1>9 DEF Next, Threads

\* Every step keeps the invariant.
LEMMA StepIInv == ASSUME OrderedFarmAssumption, IInv, [Next]_vars PROVE IInv'
<1>1. CASE UNCHANGED vars
  <2> USE <1>1 DEF vars, channels, workers, emitter, collector
  <2>1. Types' /\ ResultsInOrder'
    BY DEF IInv, Types, ResultsInOrder
  <2>2. Got' = Got /\ Told' = Told /\ Done' = Done /\ Turn' = Turn /\ Active' = Active
    BY DEF Got, Ended, Told, Done, Turn, Active
  <2>3. \A w : Off(w, nextoneE)' = Off(w, nextoneE) /\ Off(w, Turn)' = Off(w, Turn)
    BY <2>2 DEF Off
  <2>4. \A w : Lane(w)' = Lane(w) /\ (Asleep(w)' <=> Asleep(w)) /\ (Working(w)' <=> Working(w))
    BY <2>2, <2>3 DEF Lane, Asleep, Working
  <2>5. ASSUME NEW w, LaneHolds(w) PROVE LaneHolds(w)'
    <3>1. Ending(w)' = Ending(w)
      BY <2>2, <2>3 DEF Ending
    <3> QED BY <2>2, <2>3, <2>4, <2>5, <3>1 DEF LaneHolds
  <2>6. Resting => Resting'
    BY <2>2, <2>4 DEF Resting
  <2>7. StuckRun => StuckRun'
    BY DEF StuckRun
  <2>8. GoodRun => GoodRun'
    <3>1. Emitting => Emitting'
      BY <2>2 DEF Emitting
    <3>2. Collecting => Collecting'
      BY <2>2 DEF Collecting, Off
    <3>3. Counting => Counting'
      BY <2>2 DEF Counting
    <3> QED BY <2>2, <2>4, <2>5, <3>1, <3>2, <3>3 DEF GoodRun
  <2> QED BY <2>1, <2>6, <2>7, <2>8 DEF IInv
<1>2. CASE Next
  <2>0. Types' /\ Types /\ ResultsInOrder
    BY <1>2, StepTypes DEF IInv
  <2>1. CASE running = -1 /\ Resting
    <3>1. PICK nw \in Subsets : Thaw(nw)
      BY <1>2, <2>0, <2>1, RestingStep
    <3>2. /\ running' # -1
          /\ nextoneC' < running' => GoodRun'
          /\ nextoneC' >= running' => StuckRun'
      BY <2>0, <2>1, <3>1, RestingThaw
    <3>3. ResultsInOrder'
      BY <2>0, <3>1 DEF Thaw, ResultsInOrder
    <3> QED BY <2>0, <3>2, <3>3 DEF IInv
  <2>2. CASE Awake
    <3>1. ResultsInOrder'
      BY <1>2, <2>0, <2>2, AwakeStep
    <3>2. CASE running' = -1 /\ Resting'
      BY <2>0, <3>1, <3>2 DEF IInv
    <3>3. CASE running' = running /\ nextoneC' < running' /\ GoodRun'
      <4>1. running' # -1 /\ ~(nextoneC' >= running')
        <5>1. running \in Nat /\ nextoneC' \in Nat
          BY <2>0, <2>2, AwakeFacts DEF Types, Workers, OrderedFarmAssumption
        <5> QED BY <3>3, <5>1
      <4> QED BY <2>0, <3>1, <3>3, <4>1 DEF IInv
    <3> QED BY <1>2, <2>0, <2>2, <3>2, <3>3, AwakeStep
  <2>3. CASE running # -1 /\ nextoneC >= running /\ StuckRun
    <3>1. StuckRun' /\ running' = running /\ nextoneC' = nextoneC /\ out' = out
      BY <1>2, <2>0, <2>3, StuckStep
    <3>2. ResultsInOrder'
      BY <2>0, <3>1 DEF ResultsInOrder
    <3>3. running' # -1 /\ ~(nextoneC' < running')
      <4>1. running \in Int /\ nextoneC \in Int
        BY <2>0 DEF Types, Workers, OrderedFarmAssumption
      <4> QED BY <2>3, <3>1, <4>1
    <3> QED BY <2>0, <3>1, <3>2, <3>3 DEF IInv
  <2> QED BY <2>1, <2>2, <2>3, TurnAwakeOrNot
<1> QED BY <1>1, <1>2

\* In every reachable state the invariant holds.
LEMMA Invariant == ASSUME OrderedFarmAssumption PROVE Spec => []IInv
<1>1. Init => IInv
  BY InitIInv
<1>2. IInv /\ [Next]_vars => IInv'
  BY StepIInv
<1> QED BY <1>1, <1>2, PTL DEF Spec

\* Type correctness.
THEOREM FarmTypeCorrect == ASSUME OrderedFarmAssumption PROVE Spec => []TypeOK
<1>1. IInv => TypeOK
  BY DEF IInv, Types, TypeOK
<1> QED BY <1>1, Invariant, PTL

\* A frozen farm is empty and both ends have the same turn.
THEOREM FrozenIsEmpty == ASSUME OrderedFarmAssumption PROVE Spec => []FrozenEmpty
<1>1. ASSUME IInv PROVE FrozenEmpty
  <2> SUFFICES ASSUME running = -1
               PROVE  /\ q = [w \in Workers |-> <<>>] /\ r = [w \in Workers |-> <<>>]
                      /\ Last(out) = EOS /\ Len(out) = (NTasks + 1) * round
                      /\ nextoneE = nextoneC
    BY DEF FrozenEmpty
  <2>1. Resting /\ Types
    BY <1>1 DEF IInv
  <2>2. q = [w \in Workers |-> <<>>] /\ r = [w \in Workers |-> <<>>]
    BY <2>1 DEF Resting, Asleep, Types
  <2>3. Last(out) = EOS /\ nextoneE = nextoneC
    BY <2>1 DEF Resting, Last
  <2>4. Len(out) = (NTasks + 1) * round
    <3>1. (NTasks + 1) * round = NTasks * round + round
      BY <2>1, RoundFacts DEF Types
    <3>2. Len(out) - round = NTasks * round /\ Len(out) \in Nat /\ round \in Nat
      BY <2>1 DEF Resting, Types, Got, Ended
    <3> QED BY <3>1, <3>2
  <2> QED BY <2>2, <2>3, <2>4
<1>2. IInv => FrozenEmpty
  BY <1>1
<1> QED BY <1>2, Invariant, PTL

\* Each run gives the results of its own tasks in their order, then one end of stream.
THEOREM InOrder == ASSUME OrderedFarmAssumption PROVE Spec => []ResultsInOrder
<1>1. IInv => ResultsInOrder
  BY DEF IInv
<1> QED BY <1>1, Invariant, PTL

\* The three together.
THEOREM FrozenFarm == ASSUME OrderedFarmAssumption PROVE Spec => []FrozenFarmIsEmpty
<1> QED BY FarmTypeCorrect, FrozenIsEmpty, InOrder, PTL DEF FrozenFarmIsEmpty

-----------------------------------------------------------------------------
(* Numbers of turns *)

\* More rounds, or more workers, are no fewer turns.
LEMMA RowGrows ==
  ASSUME NEW a \in Nat, NEW b \in Nat, NEW n \in Nat, NEW l \in Nat
  PROVE  /\ a <= b => Row(a, n) <= Row(b, n)
         /\ n <= l => Row(b, n) <= Row(b, l)
<1>0. ASSUME NEW x \in Nat, NEW y \in Nat PROVE x * y \in Nat
  OBVIOUS
<1>1. ASSUME a <= b PROVE Row(a, n) <= Row(b, n)
  <2>1. PICK d \in Nat : b = a + d
    <3>1. b - a \in Nat /\ b = a + (b - a)
      BY <1>1
    <3> QED BY <3>1
  <2>2. Row(b, n) = Row(a, n) + d * n /\ d * n \in Nat /\ Row(a, n) \in Nat
    BY <2>1, <1>0 DEF Row
  <2> QED BY <2>2
<1>2. ASSUME n <= l PROVE Row(b, n) <= Row(b, l)
  <2>1. PICK d \in Nat : l = n + d
    <3>1. l - n \in Nat /\ l = n + (l - n)
      BY <1>2
    <3> QED BY <3>1
  <2>2. Row(b, l) = Row(b, n) + b * d /\ b * d \in Nat /\ Row(b, n) \in Nat
    BY <2>1, <1>0 DEF Row
  <2> QED BY <2>2
<1> QED BY <1>1, <1>2

\* Counting in turns: what is left over, and how many rounds there were.
LEMMA RowSplits ==
  ASSUME NEW n \in Nat \ {0}, NEW p \in Nat
  PROVE  /\ p \div n \in Nat /\ p % n \in 0 .. n - 1
         /\ p = Row(p \div n, n) + (p % n)
<1>1. p \div n \in Int /\ p % n \in 0 .. n - 1
  OBVIOUS
<1>2. p = Row(p \div n, n) + (p % n)
  BY DEF Row
<1>3. p \div n \in Nat
  <2> DEFINE d == p \div n
  <2> SUFFICES ASSUME d < 0 PROVE FALSE
    BY <1>1
  <2>1. - d \in Nat /\ - d # 0
    BY <1>1
  <2>2. Row(- d, n) >= n
    BY <2>1, RowFacts
  <2>3. Row(- d, n) = - Row(d, n)
    BY <1>1 DEF Row
  <2>4. Row(d, n) \in Int
    BY <1>1 DEF Row
  <2>5. p = Row(d, n) + (p % n)
    BY <1>2
  <2> HIDE DEF d
  <2> QED BY <1>1, <2>2, <2>3, <2>4, <2>5
<1> QED BY <1>1, <1>2, <1>3

\* A sum in turns has its rounds and what is left over.
LEMMA RowSum ==
  ASSUME NEW n \in Nat \ {0}, NEW a \in Nat, NEW z \in 0 .. n - 1
  PROVE  (Row(a, n) + z) % n = z
<1> DEFINE p == Row(a, n) + z
           b == p \div n
           y == p % n
<1>0. Row(a, n) \in Nat
  BY RowFacts
<1>1. p \in Nat /\ Row(a, n) \in Nat
  BY <1>0
<1>2. b \in Nat /\ y \in 0 .. n - 1 /\ p = Row(b, n) + y
  BY <1>1, RowSplits
<1>3. p = Row(a, n) + z
  OBVIOUS
<1> HIDE DEF p, b, y
<1>4. ASSUME NEW c \in Nat, NEW d \in Nat, c < d PROVE Row(c, n) + n <= Row(d, n)
  <2>1. Row(c + 1, n) <= Row(d, n) /\ Row(c + 1, n) = Row(c, n) + n
    BY <1>4, RowGrows, RowFacts
  <2> QED BY <2>1
<1>5. Row(b, n) \in Nat
  BY <1>2, RowFacts
<1>6. ~(a < b)
  BY <1>1, <1>2, <1>3, <1>4, <1>5
<1>7. ~(b < a)
  BY <1>1, <1>2, <1>3, <1>4, <1>5
<1>8. a = b
  BY <1>2, <1>6, <1>7
<1>9. y = z
  BY <1>1, <1>2, <1>3, <1>8
<1> QED BY <1>9 DEF p, y

\* The turns of p steps after x.
LEMMA TurnAfter ==
  ASSUME NEW n \in Nat \ {0}, NEW x \in 0 .. n - 1, NEW p \in Nat
  PROVE  \E d \in 0 .. n - 1, a \in Nat :
           /\ d = p % n /\ a = p \div n /\ p = Row(a, n) + d
           /\ (x + p) % n = IF x + d < n THEN x + d ELSE x + d - n
<1>1. PICK d \in 0 .. n - 1, a \in Nat : d = p % n /\ a = p \div n /\ p = Row(a, n) + d
  BY RowSplits
<1>2. Row(a, n) \in Nat /\ Row(a + 1, n) = Row(a, n) + n
  BY RowFacts
<1>3. CASE x + d < n
  <2>1. x + p = Row(a, n) + (x + d) /\ x + d \in 0 .. n - 1
    BY <1>1, <1>2, <1>3
  <2>2. (x + p) % n = x + d
    BY <2>1, RowSum
  <2> QED BY <1>1, <1>3, <2>2
<1>4. CASE ~(x + d < n)
  <2>1. x + p = Row(a + 1, n) + (x + d - n) /\ x + d - n \in 0 .. n - 1 /\ a + 1 \in Nat
    BY <1>1, <1>2, <1>4
  <2>2. (x + p) % n = x + d - n
    BY <2>1, RowSum
  <2> QED BY <1>1, <1>4, <2>2
<1> QED BY <1>3, <1>4

-----------------------------------------------------------------------------
(* The farm as one queue *)

\* The results sent on are the tasks up to the last of them.
Counted ==
  /\ IsFiniteSet(Results) /\ Cardinality(Results) = Got
  /\ Got = 0 => Results = {}
  /\ Got # 0 => \E m \in Results : out[m] = Got /\ \A y \in Results : y <= m

\* In every run the turn is one of a worker that was woken.
TurnIsAwake == running # -1 => nextoneC < running

\* The last result has the number of results.
LEMMA LastIsGot ==
  ASSUME Counted, out \in Seq(Nat), Got \in Nat
  PROVE  LastResult = Got
<1>1. CASE Got = 0
  BY <1>1 DEF Counted, LastResult, EOS
<1>2. CASE Got # 0
  <2>1. PICK m \in Results : out[m] = Got /\ \A y \in Results : y <= m
    BY <1>2 DEF Counted
  <2>2. Results \subseteq Nat
    BY DEF Results
  <2>3. Max(Results) = m
    <3>1. m \in Results /\ \A y \in Results : m >= y
      BY <2>1, <2>2
    <3>2. \A x \in Results : (\A y \in Results : x >= y) => x = m
      BY <2>1, <2>2
    <3> QED BY <3>1, <3>2 DEF Max
  <2> QED BY <2>1, <2>3 DEF LastResult
<1> QED BY <1>1, <1>2

\* A result is sent on.
LEMMA CountResult ==
  ASSUME Counted, out \in Seq(Nat), Got \in Nat, out' = Append(out, Got + 1), Got' = Got + 1
  PROVE  Counted'
<1> DEFINE n == Len(out) + 1
<1>1. n \in Nat /\ DOMAIN out = 1 .. Len(out) /\ Len(out) \in Nat
  OBVIOUS
<1>2. DOMAIN out' = 1 .. n /\ out'[n] = Got + 1 /\ \A i \in DOMAIN out : out'[i] = out[i]
  OBVIOUS
<1>3. n \notin Results /\ \A y \in Results : y \in 1 .. Len(out)
  BY <1>1 DEF Results
<1>4. Results' = Results \union {n}
  <2>1. Results' = {i \in 1 .. n : out'[i] # EOS} /\ Results = {i \in 1 .. Len(out) : out[i] # EOS}
    BY <1>1, <1>2 DEF Results
  <2>2. Got + 1 # EOS
    BY DEF EOS
  <2>3. 1 .. n = (1 .. Len(out)) \union {n}
    BY <1>1
  <2> HIDE DEF n
  <2> QED BY <1>1, <1>2, <2>1, <2>2, <2>3
<1> HIDE DEF n
<1>5. IsFiniteSet(Results') /\ Cardinality(Results') = Got + 1
  BY <1>3, <1>4, FS_AddElement DEF Counted
<1>6. n \in Results' /\ out'[n] = Got' /\ \A y \in Results' : y <= n
  <2>1. \A y \in Results : y <= n
    BY <1>1, <1>3 DEF n
  <2> QED BY <1>1, <1>2, <1>4, <2>1
<1>7. Got' # 0
  OBVIOUS
<1>8. \E m \in Results' : out'[m] = Got' /\ \A y \in Results' : y <= m
  BY <1>6
<1> QED BY <1>5, <1>7, <1>8 DEF Counted

\* An end of stream is sent on, or nothing.
LEMMA CountOther ==
  ASSUME Counted, out \in Seq(Nat), Got' = Got, out' \in {out, Append(out, EOS)}
  PROVE  Counted'
<1>1. CASE out' = out
  BY <1>1 DEF Counted, Results
<1>2. CASE out' = Append(out, EOS)
  <2>1. /\ DOMAIN out = 1 .. Len(out) /\ Len(out) \in Nat /\ DOMAIN out' = 1 .. Len(out) + 1
        /\ out'[Len(out) + 1] = EOS /\ \A i \in DOMAIN out : out'[i] = out[i]
    BY <1>2
  <2>2. Results' = {i \in DOMAIN out' : out'[i] # EOS} /\ Results = {i \in DOMAIN out : out[i] # EOS}
    BY DEF Results
  <2>3. \A i \in DOMAIN out' : i \in DOMAIN out \/ i = Len(out) + 1
    BY <2>1
  <2>4. DOMAIN out \subseteq DOMAIN out'
    BY <2>1
  <2>5. Results' = Results
    BY <2>1, <2>2, <2>3, <2>4
  <2>6. \A m \in Results : out'[m] = out[m]
    BY <2>1, <2>2
  <2> QED BY <2>5, <2>6 DEF Counted
<1> QED BY <1>1, <1>2

\* Every step keeps the count.
LEMMA StepCounted ==
  ASSUME OrderedFarmAssumption, IInv, TurnIsAwake, Counted, [Next]_vars
  PROVE  Counted'
<1>0. out \in Seq(Nat) /\ running \in Int /\ nextoneC \in Nat
  BY DEF IInv, Types, Workers, OrderedFarmAssumption
<1>1. CASE UNCHANGED <<out, cpc, round>>
  <2>1. Got' = Got
    BY <1>1 DEF Got, Ended
  <2> QED BY <1>0, <1>1, <2>1, CountOther
<1>2. CASE Gather \/ GatherEos
  <2>1. Awake
    <3>1. running # -1
      BY <1>2 DEF IInv, Resting, Gather, GatherEos
    <3> QED BY <1>0, <3>1 DEF Awake, TurnIsAwake, IInv
  <2>2. Got \in Nat /\ ResultsInOrder
    BY <2>1, AwakeFacts DEF IInv
  <2>3. CASE Gather
    BY <1>0, <2>1, <2>2, <2>3, AwakeGather, CountResult
  <2>4. CASE GatherEos
    BY <1>0, <2>1, <2>2, <2>4, AwakeGatherEos, CountOther
  <2> QED BY <1>2, <2>3, <2>4
<1>3. CASE CollectorInit
  <2>1. Got' = Got /\ out' = out
    BY <1>3 DEF Got, Ended, CollectorInit
  <2> QED BY <1>0, <2>1, CountOther
<1>4. ASSUME NEW nw \in Subsets, Thaw(nw) PROVE Counted'
  <2>1. cpc = "frozen" /\ round \in Nat
    BY <1>4 DEF IInv, Resting, Thaw, Types
  <2>2. Got' = Got /\ out' = out
    BY <1>4, <2>1 DEF Got, Ended, Thaw
  <2> QED BY <1>0, <2>2, CountOther
<1>5. CASE EmitterInit \/ Send \/ Broadcast \/ WaitFreezing \/ \E w \in Workers : Pop(w) \/ Push(w)
  BY <1>1, <1>5 DEF EmitterInit, Send, Broadcast, WaitFreezing, Pop, Push, collector
<1>6. CASE UNCHANGED vars
  BY <1>1, <1>6 DEF vars, collector
<1> QED BY <1>2, <1>3, <1>4, <1>5, <1>6 DEF Next, Threads

\* The tasks inside have the numbers after that of the last result.
InFlightIsNext == InFlight = [i \in 1 .. sent - Got |-> Got + i] /\ LastResult = Got

\* The task that comes p turns after the next is that many after it.
LEMMA NthTask ==
  ASSUME Awake, NEW p \in Nat, p < sent - Got
  PROVE  LET lane == Lane((nextoneC + p) % running)
             k == 1 + p \div running
         IN  k \in DOMAIN lane /\ lane[k] = Got + 1 + p
<1>1. PICK n \in Nat \ {0}, g \in Nat, s \in Nat, x \in Nat :
           n = running /\ g = Got /\ s = sent /\ x = nextoneC /\ x \in 0 .. n - 1 /\ p < s - g
  BY AwakeFacts
<1>2. PICK d \in 0 .. n - 1, a \in Nat :
           /\ d = p % n /\ a = p \div n /\ p = Row(a, n) + d
           /\ (x + p) % n = IF x + d < n THEN x + d ELSE x + d - n
  <2>1. x \in 0 .. n - 1
    BY <1>1
  <2> QED BY <2>1, TurnAfter, Zenon
<1>3. PICK w \in 0 .. n - 1 : w = (x + p) % n
  BY <1>1, <1>2
<1>4. w \in Active /\ Off(w, nextoneC) = d
  <2>1. Off(w, nextoneC) = IF x <= w THEN w - x ELSE w - x + n
    BY <1>1 DEF Off
  <2>2. w = IF x + d < n THEN x + d ELSE x + d - n
    BY <1>2, <1>3
  <2>3. d = IF x <= w THEN w - x ELSE w - x + n
    BY <1>1, <2>2
  <2>4. Active = 0 .. n - 1
    BY <1>1, AwakeFacts
  <2> QED BY <2>1, <2>3, <2>4
<1>5. Turn = nextoneC
  <2>1. Done \in Nat /\ Got # sent
    BY <1>1, AwakeFacts
  <2> QED BY <2>1 DEF Turn, Awake, GoodRun, Collecting
<1>6. PICK lane \in Seq(Nat), b \in BOOLEAN, e \in Nat :
           lane = Lane(w) /\ b = Ending(w) /\ e = Off(w, nextoneE)
  BY <1>4, LaneNumbers
<1>7. Holds(lane, b, g, d, s, e, n)
  BY <1>1, <1>4, <1>5, <1>6, LaneNumbers
<1> DEFINE m == Len(lane) - (IF b THEN 1 ELSE 0)
<1>8. /\ m \in Nat /\ m <= Len(lane)
      /\ \A k \in 1 .. m : lane[k] = g + 1 + d + Row(k - 1, n)
      /\ g + d + Row(m, n) = s + e
  BY <1>7 DEF Holds
<1> HIDE DEF m
<1>9. a < m
  <2>1. Row(a, n) \in Nat /\ Row(m, n) \in Nat
    BY <1>8, RowFacts
  <2>2. Row(a, n) < Row(m, n)
    <3>1. PICK ra \in Nat, rm \in Nat : ra = Row(a, n) /\ rm = Row(m, n)
      BY <2>1
    <3>2. p < s - g /\ p = ra + d /\ g + d + rm = s + e
      BY <1>1, <1>2, <1>8, <3>1
    <3>3. ra < rm
      BY <3>2
    <3> QED BY <3>1, <3>3
  <2>3. m <= a => Row(m, n) <= Row(a, n)
    BY <1>8, RowGrows
  <2> QED BY <1>8, <2>1, <2>2, <2>3
<1>10. a + 1 \in 1 .. m /\ (a + 1) - 1 = a /\ a + 1 \in DOMAIN lane
  BY <1>8, <1>9
<1>11. lane[a + 1] = g + 1 + p
  <2>1. Row(a, n) \in Nat
    BY RowFacts
  <2>2. lane[a + 1] = g + 1 + d + Row(a, n)
    BY <1>8, <1>10
  <2> QED BY <1>2, <2>1, <2>2
<1>12. Lane((nextoneC + p) % running) = lane /\ 1 + p \div running = a + 1
  BY <1>1, <1>2, <1>3, <1>6
<1> QED BY <1>1, <1>10, <1>11, <1>12

\* While the turn is awake, and when the farm rests.
LEMMA InFlightNext ==
  ASSUME OrderedFarmAssumption, IInv, TurnIsAwake, Counted
  PROVE  InFlightIsNext /\ Got \in Nat /\ sent \in Nat /\ Got <= sent
<1>1. out \in Seq(Nat) /\ sent \in Nat /\ Got \in Int
  <2>1. out \in Seq(Nat) /\ sent \in Nat /\ round \in Nat
    BY DEF IInv, Types
  <2>2. Len(out) \in Nat /\ Ended \in Int
    BY <2>1 DEF Ended
  <2> QED BY <2>1, <2>2 DEF Got
<1>2. CASE running = -1
  <2>1. Got = sent
    BY <1>2 DEF IInv, Resting
  <2>2. Cardinality(Results) = Got
    BY DEF Counted
  <2>3. LastResult = Got
    BY <1>1, <2>1, LastIsGot
  <2>4. InFlightIsNext
    <3>1. 1 .. sent - Got = {}
      BY <1>1, <2>1
    <3> QED BY <2>2, <2>3, <3>1 DEF InFlight, InFlightIsNext
  <2> QED BY <1>1, <2>1, <2>4
<1>3. CASE running # -1
  <2>1. Awake
    BY <1>3 DEF Awake, TurnIsAwake, IInv
  <2>2. Got \in Nat /\ Got <= sent
    BY <2>1, AwakeFacts DEF Awake, GoodRun, Counting
  <2>3. Cardinality(Results) = Got
    BY DEF Counted
  <2>4. ASSUME NEW i \in 1 .. sent - Got
        PROVE  LET lane == Lane((nextoneC + i - 1) % running)
                   k == 1 + (i - 1) \div running
               IN  k \in DOMAIN lane /\ lane[k] = Got + i
    <3>1. PICK p \in Nat : p = i - 1 /\ p < sent - Got /\ Got + 1 + p = Got + i
      BY <1>1, <2>2
    <3>2. nextoneC + i - 1 = nextoneC + p
      BY <2>1, <3>1, AwakeFacts
    <3>3. LET lane == Lane((nextoneC + p) % running)
              k == 1 + p \div running
          IN  k \in DOMAIN lane /\ lane[k] = Got + 1 + p
      BY <2>1, <3>1, NthTask
    <3> QED BY <3>1, <3>2, <3>3
  <2>5. LastResult = Got
    BY <1>1, <2>2, LastIsGot
  <2>6. InFlightIsNext
    BY <2>3, <2>4, <2>5 DEF InFlight, InFlightIsNext
  <2> QED BY <1>1, <2>2, <2>6
<1> QED BY <1>2, <1>3

\* A farm with room in the channel of the worker that has the turn has room for
\* one more task.
LEMMA RoomForOne ==
  ASSUME Awake, epc = "svc", Told = 0, Room(q, victimE)
  PROVE  sent - Got + 1 <= NWorkers * (2 * Size + 1)
<1>1. PICK n \in Nat \ {0}, g \in Nat, s \in Nat, l \in Nat, S \in Nat :
           n = running /\ g = Got /\ s = sent /\ l = NWorkers /\ S = Size /\ n <= l
  <2>1. /\ running \in Nat \ {0} /\ Got \in Nat /\ sent \in Nat /\ NWorkers \in Nat
        /\ running <= NWorkers
    BY AwakeFacts
  <2>2. Size \in Nat
    BY DEF Awake, OrderedFarmAssumption
  <2> QED BY <2>1, <2>2
<1>2. PICK v \in Active : v = victimE /\ v = nextoneE
  BY AwakeFacts DEF Awake, GoodRun, Emitting
<1>3. PICK lane \in Seq(Nat), c \in Nat :
           lane = Lane(v) /\ c = Off(v, Turn) /\ c <= n - 1
  BY <1>1, LaneNumbers
<1>4. Off(v, nextoneE) = 0 /\ ~Ending(v)
  <2>1. Off(v, nextoneE) = 0
    BY <1>2, OffActive, AwakeFacts
  <2> QED BY <2>1 DEF Ending
<1>5. Holds(lane, FALSE, g, c, s, 0, n)
  BY <1>1, <1>3, <1>4, LaneNumbers
<1>6. Len(lane) \in Nat /\ Len(lane) <= 2 * S
  <2>1. v \in Workers /\ q[v] \in Seq(Nat) /\ r[v] \in Seq(Nat) /\ Len(q[v]) < Size /\ Len(r[v]) <= Size
    BY <1>2, AwakeFacts DEF Awake, Types, Room
  <2>2. PICK a \in Nat, b \in Nat : a = Len(q[v]) /\ b = Len(r[v]) /\ a < S /\ b <= S
    BY <1>1, <2>1
  <2>3. Len(lane) = b + (IF wpc[v] = "push" THEN 1 ELSE 0) + a
    BY <1>3, <2>1, <2>2, LaneType DEF Awake
  <2>4. PICK h \in 0 .. 1 : h = IF wpc[v] = "push" THEN 1 ELSE 0
    OBVIOUS
  <2>5. Len(lane) = b + h + a
    BY <2>3, <2>4
  <2>6. b + h + a \in Nat /\ b + h + a <= 2 * S
    <3>1. ASSUME NEW x \in Nat, NEW y \in Nat, NEW z \in 0 .. 1, x <= S - 1, y <= S
          PROVE  y + z + x \in Nat /\ y + z + x <= 2 * S
      BY <3>1
    <3>2. a <= S - 1 /\ b <= S
      BY <2>2
    <3> QED BY <3>1, <3>2
  <2> QED BY <2>5, <2>6
<1>7. PICK m \in Nat : m = Len(lane) /\ m <= 2 * S
  BY <1>6
<1>8. g + c + Row(m, n) = s
  BY <1>5, <1>7 DEF Holds
<1>9. Row(m + 1, n) = Row(m, n) + n /\ Row(m, n) \in Nat
  BY RowFacts
<1>10. Row(m + 1, n) <= Row(2 * S + 1, n) /\ Row(2 * S + 1, n) <= Row(2 * S + 1, l)
  <2>1. m + 1 <= 2 * S + 1 /\ m + 1 \in Nat /\ 2 * S + 1 \in Nat
    BY <1>7
  <2> QED BY <1>1, <2>1, RowGrows
<1>11. Row(2 * S + 1, l) = l * (2 * S + 1) /\ Row(2 * S + 1, n) \in Nat /\ Row(2 * S + 1, l) \in Nat
  BY DEF Row
<1>12. s - g + 1 <= Row(2 * S + 1, l)
  <2>1. PICK a \in Nat, b \in Nat, d \in Nat :
             a = Row(m, n) /\ b = Row(2 * S + 1, n) /\ d = Row(2 * S + 1, l)
    BY <1>9, <1>11
  <2>2. a + n <= b /\ b <= d /\ g + c + a = s /\ c <= n - 1
    BY <1>3, <1>8, <1>9, <1>10, <2>1
  <2>3. s - g + 1 <= d
    BY <2>2
  <2> QED BY <2>1, <2>3
<1> QED BY <1>1, <1>11, <1>12

\* The sequences of the numbers after g up to s.
LEMMA Following ==
  ASSUME NEW g \in Nat, NEW s \in Nat, g <= s
  PROVE  LET f(x, y) == [i \in 1 .. y - x |-> x + i]
         IN  /\ f(g, s + 1) = f(g, s) \o <<s + 1>> /\ Len(f(g, s)) = s - g
             /\ g < s => f(g, s) # <<>> /\ Head(f(g, s)) = g + 1 /\ f(g + 1, s) = Tail(f(g, s))
             /\ f(s, s) = <<>>
<1> DEFINE f(x, y) == [i \in 1 .. y - x |-> x + i]
<1>1. PICK d \in Nat : d = s - g /\ s = g + d
  OBVIOUS
<1>2. f(g, s) = [i \in 1 .. d |-> g + i] /\ f(g, s + 1) = [i \in 1 .. d + 1 |-> g + i]
  BY <1>1
<1>3. f(g, s) \in Seq(Nat) /\ Len(f(g, s)) = d /\ f(g, s + 1) \in Seq(Nat) /\ Len(f(g, s + 1)) = d + 1
  BY <1>2
<1>4. f(g, s + 1) = f(g, s) \o <<s + 1>>
  <2> DEFINE a == f(g, s + 1)
             b == f(g, s) \o <<s + 1>>
  <2>1. b \in Seq(Nat) /\ Len(b) = d + 1
    BY <1>3
  <2>2. ASSUME NEW i \in 1 .. d + 1 PROVE a[i] = b[i]
    <3>1. a[i] = g + i
      BY <1>2
    <3>2. b[i] = IF i <= d THEN f(g, s)[i] ELSE s + 1
      BY <1>3
    <3>3. i <= d => f(g, s)[i] = g + i
      BY <1>2
    <3> QED BY <1>1, <3>1, <3>2, <3>3
  <2>3. a \in Seq(Nat) /\ Len(a) = d + 1
    BY <1>3
  <2> HIDE DEF a, b
  <2>4. a = b
    BY <2>1, <2>2, <2>3, SameItems
  <2> QED BY <2>4 DEF a, b
<1>5. ASSUME g < s PROVE f(g, s) # <<>> /\ Head(f(g, s)) = g + 1 /\ f(g + 1, s) = Tail(f(g, s))
  <2>1. d > 0 /\ d - 1 = s - (g + 1) /\ d - 1 \in Nat
    BY <1>1, <1>5
  <2>2. f(g, s) # <<>> /\ Head(f(g, s)) = g + 1
    BY <1>2, <1>3, <2>1
  <2>3. f(g + 1, s) = [i \in 1 .. d - 1 |-> g + 1 + i]
    BY <2>1
  <2>4. Tail(f(g, s)) = [i \in 1 .. d - 1 |-> f(g, s)[i + 1]]
    BY <1>3, <2>1
  <2>5. \A i \in 1 .. d - 1 : f(g, s)[i + 1] = g + 1 + i
    BY <1>2, <2>1
  <2> QED BY <2>2, <2>3, <2>4, <2>5
<1>6. f(s, s) = <<>>
  <2>1. 1 .. s - s = {}
    OBVIOUS
  <2> QED BY <2>1
<1> QED BY <1>1, <1>3, <1>4, <1>5, <1>6

\* Every step of the farm is one of the queue, or leaves it as it is.
LEMMA StepFifo ==
  ASSUME OrderedFarmAssumption, IInv, TurnIsAwake, Counted, [Next]_vars,
         InFlightIsNext'
  PROVE  [Fifo!FifoNext]_(Fifo!fifoVars)
<1>1. /\ InFlight = [i \in 1 .. sent - Got |-> Got + i] /\ LastResult = Got
      /\ Got \in Nat /\ sent \in Nat /\ Got <= sent
  BY InFlightNext DEF InFlightIsNext
<1>2. LastResult' = Got'
  BY DEF InFlightIsNext
<1>3. InFlight' = [i \in 1 .. sent' - Got' |-> Got' + i]
  BY DEF InFlightIsNext
<1>4. ASSUME sent' = sent, Got' = Got PROVE UNCHANGED Fifo!fifoVars
  BY <1>1, <1>2, <1>3, <1>4 DEF Fifo!fifoVars
<1>5. ASSUME running # -1 PROVE Awake
  BY <1>5 DEF Awake, TurnIsAwake, IInv
<1>6. CASE Send
  <2>1. running # -1
    BY <1>6 DEF IInv, Resting, Send
  <2>2. Awake /\ epc = "svc" /\ Room(q, victimE) /\ sent' = sent + 1 /\ Got' = Got
        /\ sent < NTasks * round
    BY <1>5, <1>6, <2>1 DEF Send, Got, Ended, collector
  <2>3. Told = 0
    BY <2>2, AwakeFacts DEF Awake, GoodRun, Emitting
  <2>4. sent - Got + 1 <= NWorkers * (2 * Size + 1)
    BY <2>2, <2>3, RoomForOne
  <2>5. sent + 1 \in 1 .. NTasks * Rounds
    <3>1. /\ NTasks \in Nat /\ round \in Nat /\ Rounds \in Nat /\ round <= Rounds
      BY <2>2 DEF Awake, Types, OrderedFarmAssumption
    <3>2. Row(NTasks, round) <= Row(NTasks, Rounds)
      BY <3>1, RowGrows
    <3>3. NTasks * round <= NTasks * Rounds /\ NTasks * round \in Nat /\ NTasks * Rounds \in Nat
      BY <3>1, <3>2 DEF Row
    <3> QED BY <1>1, <2>2, <3>3
  <2>6. InFlight' = InFlight \o <<sent + 1>> /\ Len(InFlight) = sent - Got
    BY <1>1, <1>3, <2>2, Following
  <2>7. Len(InFlight) + Len(<<sent + 1>>) <= NWorkers * (2 * Size + 1)
    BY <2>4, <2>6
  <2>8. LastResult' = LastResult
    BY <1>1, <1>2, <2>2
  <2>9. Fifo!Offer(<<sent + 1>>)
    BY <2>6, <2>7, <2>8 DEF Fifo!Offer
  <2>10. <<sent + 1>> \in {<<t>> : t \in 1 .. NTasks * Rounds}
    BY <2>5
  <2> QED BY <2>9, <2>10 DEF Fifo!FifoNext
<1>7. CASE Gather
  <2>1. running # -1 /\ ResultsInOrder
    BY <1>7 DEF IInv, Resting, Gather
  <2>2. Got + 1 <= sent /\ Got' = Got + 1 /\ sent' = sent
    BY <1>5, <1>7, <2>1, AwakeGather DEF Gather
  <2>3. InFlight # <<>> /\ Head(InFlight) = Got + 1 /\ InFlight' = Tail(InFlight)
    <3>1. PICK g \in Nat, s \in Nat : g = Got /\ s = sent /\ g < s
      BY <1>1, <2>2
    <3>2. InFlight = [i \in 1 .. s - g |-> g + i] /\ InFlight' = [i \in 1 .. s - (g + 1) |-> g + 1 + i]
      BY <1>1, <1>3, <2>2, <3>1
    <3>3. g <= s
      BY <3>1
    <3> QED BY <3>1, <3>2, <3>3, Following
  <2>4. LastResult' = Got + 1
    BY <1>2, <2>2
  <2> QED BY <2>3, <2>4 DEF Fifo!FifoNext, Fifo!Take
<1>8. CASE GatherEos
  <2>1. running # -1 /\ ResultsInOrder
    BY <1>8 DEF IInv, Resting, GatherEos
  <2>2. Got' = Got /\ sent' = sent
    BY <1>5, <1>8, <2>1, AwakeGatherEos DEF GatherEos
  <2> QED BY <1>4, <2>2
<1>9. CASE CollectorInit
  BY <1>4, <1>9 DEF Got, Ended, CollectorInit
<1>10. ASSUME NEW nw \in Subsets, Thaw(nw) PROVE UNCHANGED Fifo!fifoVars
  <2>1. cpc = "frozen" /\ round \in Nat
    BY <1>10 DEF IInv, Resting, Thaw, Types
  <2>2. Got' = Got /\ sent' = sent
    BY <1>10, <2>1 DEF Got, Ended, Thaw
  <2> QED BY <1>4, <2>2
<1>11. CASE EmitterInit \/ Broadcast \/ WaitFreezing \/ \E w \in Workers : Pop(w) \/ Push(w)
  <2>1. sent' = sent /\ UNCHANGED <<out, cpc, round>>
    BY <1>11 DEF EmitterInit, Broadcast, WaitFreezing, Pop, Push, collector
  <2>2. Got' = Got
    BY <2>1 DEF Got, Ended
  <2> QED BY <1>4, <2>1, <2>2
<1>12. CASE UNCHANGED vars
  <2>1. Got' = Got /\ sent' = sent
    BY <1>12 DEF vars, collector, Got, Ended
  <2> QED BY <1>4, <2>1
<1> QED BY <1>6, <1>7, <1>8, <1>9, <1>10, <1>11, <1>12 DEF Next, Threads

\* At the start both are empty.
LEMMA InitFifo == OrderedFarmAssumption /\ Init => Fifo!FifoInit /\ Counted
<1> SUFFICES ASSUME OrderedFarmAssumption, Init PROVE Fifo!FifoInit /\ Counted
  OBVIOUS
<1>1. out = <<>> /\ sent = 0 /\ cpc = "init" /\ round = 1
  BY DEF Init
<1>2. Results = {}
  BY <1>1 DEF Results
<1>3. Cardinality(Results) = 0 /\ IsFiniteSet(Results)
  BY <1>2, FS_EmptySet
<1>4. Got = 0
  BY <1>1 DEF Got, Ended
<1>5. InFlight = <<>>
  <2>1. 1 .. 0 - 0 = {}
    OBVIOUS
  <2> QED BY <1>1, <1>3, <2>1 DEF InFlight
<1>6. LastResult = EOS
  BY <1>2 DEF LastResult
<1>7. Counted
  BY <1>2, <1>3, <1>4 DEF Counted
<1> QED BY <1>5, <1>6, <1>7 DEF Fifo!FifoInit

\* From outside the farm is one queue, whichever of its workers are woken, in every
\* behaviour in which the worker that has the turn is among them.
THEOREM OneQueue ==
  ASSUME OrderedFarmAssumption
  PROVE  Spec /\ []TurnIsAwake => ImplementsFifo
<1>1. Init => Fifo!FifoInit /\ Counted
  BY InitFifo
<1>2. IInv /\ TurnIsAwake /\ Counted /\ [Next]_vars => Counted'
  BY StepCounted
<1>3. IInv /\ TurnIsAwake /\ Counted => InFlightIsNext
  BY InFlightNext
<1>4. IInv /\ TurnIsAwake /\ Counted /\ InFlightIsNext' /\ [Next]_vars
        => [Fifo!FifoNext]_(Fifo!fifoVars)
  BY StepFifo
<1>5. Spec => []IInv
  BY Invariant
<1> QED BY <1>1, <1>2, <1>3, <1>4, <1>5, PTL DEF Spec, ImplementsFifo, Fifo!FifoSpec

\* Waking always all of them is enough for that.
THEOREM AllWorkersAwake ==
  ASSUME OrderedFarmAssumption, Subsets \subseteq {NWorkers}
  PROVE  Spec => ImplementsFifo
<1>1. ASSUME IInv PROVE TurnIsAwake
  <2>1. running # -1 => running = NWorkers
    BY <1>1 DEF IInv, Types
  <2>2. NWorkers \in Nat /\ nextoneC \in 0 .. NWorkers - 1
    BY <1>1 DEF IInv, Types, Workers, OrderedFarmAssumption
  <2> QED BY <2>1, <2>2 DEF TurnIsAwake
<1>2. IInv => TurnIsAwake
  BY <1>1
<1> QED BY <1>2, Invariant, OneQueue, PTL

-----------------------------------------------------------------------------
(* The thread of a node, for any number of runs and of EOS_NOFREEZE *)

CONSTANTS MaxRuns, MaxNoFreeze, EarlyThaw

VARIABLES stp, freezing, frozen, spawned, init_error, locked, pc, ret, owner,
          asked, runs, nofreeze

Thr == INSTANCE FFThread

\* Where the properties hold: an owner that thaws a thread before it froze may
\* do so only to a node that never returns EOS_NOFREEZE (such a node would freeze
\* before it ran again).
OneAtATime == ~EarlyThaw \/ MaxNoFreeze = 0

\* The owner is between run_then_freeze and the next wait or thaw(FALSE).
Freezable == owner \in {"started", "thawed", "frozen", "wait_freezing", "asleep_freezing"}

\* svc has been asked for and has not been called, or asked to be called again.
ToRun == \/ pc \in {"loop", "init", "svc"}
         \/ pc \in {"lock", "unlock"} /\ ret = "EOS_NOFREEZE"

\* The mutex and the results of svc.
Locking ==
  /\ locked <=> pc \in {"freezing", "unlock"}
  /\ ret \in {"EOS", "GO_OUT", "EOS_NOFREEZE"} /\ nofreeze \in 0 .. MaxNoFreeze
  /\ asked \in Nat /\ runs \in Nat
  /\ ret = "EOS_NOFREEZE" => nofreeze > 0
  /\ pc \in {"freezing", "asleep", "awake"} => ret # "EOS_NOFREEZE"

\* frozen means that the thread sleeps, or is about to again, or has ended.
FrozenMeans ==
  /\ frozen => pc = "none" \/ (pc \in {"freezing", "asleep", "awake"} /\ freezing = 1)
  /\ frozen => freezing # 0
  /\ pc = "tell" => freezing # 0

\* What the owner knows where it is.
OwnerKnows ==
  /\ owner \in {"frozen", "wait_thaw"} => frozen
  /\ owner \in {"new", "join"} => freezing = 0 /\ ~frozen
  /\ owner = "new" => pc = "none" /\ runs = asked
  /\ owner = "started" => freezing = 1
  /\ Freezable => ~stp /\ freezing \in {1, 2}

\* While it may freeze, the thread ends only if svc_init fails.
Alive ==
  Freezable => /\ pc \in {"final", "tell", "none"} => init_error
               /\ init_error => pc \in {"init", "final", "tell", "none"}

\* What is asked for and not done yet: the run the thread is in, and one thaw it
\* has not seen.
Due ==
  Freezable /\ pc \notin {"final", "tell", "none"} =>
    /\ asked = runs + (IF ToRun THEN 1 ELSE 0) + (IF freezing = 2 THEN 1 ELSE 0)
    /\ ~EarlyThaw /\ freezing = 2 => ~ToRun /\ pc # "lock"
    /\ pc = "unlock" /\ ret # "EOS_NOFREEZE" => freezing = 2

\* The inductive invariant.
ThreadIInv == Thr!TypeOK /\ Locking /\ FrozenMeans /\ OwnerKnows /\ Alive /\ Due

-----------------------------------------------------------------------------
(* The invariant of a thread *)

\* A node that was not run yet owes nothing.
LEMMA InitThread == Thr!BoundsAssumption /\ Thr!Init => ThreadIInv
<1> USE DEF Thr!BoundsAssumption, Thr!Init
<1>0. 0 \in 0 .. 2
  OBVIOUS
<1>1. Thr!BoundsAssumption /\ Thr!Init => Thr!TypeOK
  BY <1>0 DEF Thr!TypeOK
<1>2. Thr!BoundsAssumption /\ Thr!Init => Locking
  BY DEF Locking
<1>3. Thr!BoundsAssumption /\ Thr!Init => FrozenMeans /\ OwnerKnows /\ Alive /\ Due
  BY DEF FrozenMeans, OwnerKnows, Alive, Due, Freezable
<1> QED BY <1>1, <1>2, <1>3 DEF ThreadIInv

\* Every step of the owner and of the thread keeps the invariant.
LEMMA StepThread ==
  ASSUME Thr!BoundsAssumption, OneAtATime, ThreadIInv, [Thr!Next]_(Thr!vars)
  PROVE  ThreadIInv'
<1> USE DEF Thr!BoundsAssumption, OneAtATime, ThreadIInv, Thr!TypeOK, Locking, FrozenMeans,
            OwnerKnows, Alive, Due, Freezable, ToRun, Thr!fields, Thr!thread, Thr!history
<1>1. CASE Thr!run
  BY <1>1 DEF Thr!run
<1>2. CASE Thr!freeze_run
  <2> USE <1>2 DEF Thr!freeze_run
  <2>1. freezing' \in 0 .. 2
    OBVIOUS
  <2>2. Thr!TypeOK'
    BY <2>1
  <2>3. Locking'
    OBVIOUS
  <2>4. FrozenMeans'
    OBVIOUS
  <2>5. OwnerKnows'
    OBVIOUS
  <2>6. Alive'
    OBVIOUS
  <2>7. Due'
    OBVIOUS
  <2> QED BY <2>2, <2>3, <2>4, <2>5, <2>6, <2>7
<1>3. ASSUME NEW f \in BOOLEAN, Thr!thaw(f) PROVE ThreadIInv'
  <2> USE <1>3 DEF Thr!thaw, Thr!WakeThread
  <2>1. freezing' \in 0 .. 2
    OBVIOUS
  <2>2. Thr!TypeOK'
    BY <2>1
  <2>3. Locking'
    OBVIOUS
  <2>4. FrozenMeans'
    OBVIOUS
  <2>5. OwnerKnows'
    OBVIOUS
  <2>6. Alive'
    OBVIOUS
  <2>7. Due'
    OBVIOUS
  <2> QED BY <2>2, <2>3, <2>4, <2>5, <2>6, <2>7
<1>4. CASE Thr!call_wait_freezing
  BY <1>4 DEF Thr!call_wait_freezing, Thr!Goes
<1>5. CASE Thr!wait
  BY <1>5 DEF Thr!wait
<1>6. CASE Thr!wait_freezing
  BY <1>6 DEF Thr!wait_freezing, Thr!Goes
<1>7. CASE Thr!wait_isfrozen
  BY <1>7 DEF Thr!wait_isfrozen, Thr!Goes
<1>8. CASE Thr!wait_thaw
  <2> USE <1>8 DEF Thr!wait_thaw, Thr!WakeThread
  <2>1. freezing' \in 0 .. 2
    OBVIOUS
  <2>2. Thr!TypeOK'
    BY <2>1
  <2>3. Locking'
    OBVIOUS
  <2>4. FrozenMeans'
    OBVIOUS
  <2>5. OwnerKnows'
    OBVIOUS
  <2>6. Alive'
    OBVIOUS
  <2>7. Due'
    OBVIOUS
  <2> QED BY <2>2, <2>3, <2>4, <2>5, <2>6, <2>7
<1>9. CASE Thr!join
  BY <1>9 DEF Thr!join
<1>10. CASE Thr!OwnerSpurious
  BY <1>10 DEF Thr!OwnerSpurious, Thr!woken, Thr!Goes
<1>11. CASE Thr!svc_init
  <2> USE <1>11 DEF Thr!svc_init, Thr!At
  <2>1. freezing' \in 0 .. 2
    OBVIOUS
  <2>2. Thr!TypeOK'
    BY <2>1
  <2>3. Locking'
    OBVIOUS
  <2>4. FrozenMeans'
    OBVIOUS
  <2>5. OwnerKnows'
    OBVIOUS
  <2>6. Alive'
    OBVIOUS
  <2>7. Due'
    OBVIOUS
  <2> QED BY <2>2, <2>3, <2>4, <2>5, <2>6, <2>7
<1>12. ASSUME NEW ans \in {"EOS", "GO_OUT", "EOS_NOFREEZE"}, Thr!svc(ans) PROVE ThreadIInv'
  BY <1>12 DEF Thr!svc, Thr!At
<1>13. CASE Thr!CheckStop
  <2> USE <1>13 DEF Thr!CheckStop, Thr!At
  <2>1. freezing' \in 0 .. 2
    OBVIOUS
  <2>2. Thr!TypeOK'
    BY <2>1
  <2>3. Locking'
    OBVIOUS
  <2>4. FrozenMeans'
    OBVIOUS
  <2>5. OwnerKnows'
    OBVIOUS
  <2>6. Alive'
    OBVIOUS
  <2>7. Due'
    OBVIOUS
  <2> QED BY <2>2, <2>3, <2>4, <2>5, <2>6, <2>7
<1>14. CASE Thr!Freeze
  <2> USE <1>14 DEF Thr!Freeze, Thr!SignalFrozen, Thr!woken, Thr!At
  <2>1. freezing' \in 0 .. 2
    OBVIOUS
  <2>2. Thr!TypeOK'
    BY <2>1
  <2>3. Locking'
    OBVIOUS
  <2>4. ASSUME freezing = 1 PROVE FrozenMeans' /\ OwnerKnows'
    <3>1. frozen' = TRUE /\ pc' = "asleep" /\ freezing' = 1 /\ owner' = Thr!woken
      BY <2>4
    <3>2. FrozenMeans'
      BY <3>1
    <3>3. OwnerKnows'
      BY <3>1
    <3> QED BY <3>2, <3>3
  <2>5. ASSUME freezing # 1 PROVE FrozenMeans' /\ OwnerKnows'
    <3>1. frozen' = frozen /\ pc' = "unlock" /\ freezing' = freezing /\ owner' = owner
      BY <2>5
    <3>2. ~frozen
      BY <2>5
    <3>3. FrozenMeans'
      BY <3>1, <3>2
    <3>4. OwnerKnows'
      BY <3>1, <3>2
    <3> QED BY <3>3, <3>4
  <2>6. Alive'
    OBVIOUS
  <2>7. Due'
    OBVIOUS
  <2> QED BY <2>2, <2>3, <2>4, <2>5, <2>6, <2>7
<1>15. CASE Thr!Relock
  BY <1>15 DEF Thr!Relock, Thr!At
<1>16. CASE Thr!Unlock
  <2> USE <1>16 DEF Thr!Unlock, Thr!At
  <2>1. freezing' \in 0 .. 2
    OBVIOUS
  <2>2. Thr!TypeOK'
    BY <2>1
  <2>3. Locking'
    OBVIOUS
  <2>4. FrozenMeans'
    OBVIOUS
  <2>5. OwnerKnows'
    OBVIOUS
  <2>6. Alive'
    OBVIOUS
  <2>7. Due'
    OBVIOUS
  <2> QED BY <2>2, <2>3, <2>4, <2>5, <2>6, <2>7
<1>17. CASE Thr!Loop
  BY <1>17 DEF Thr!Loop, Thr!At
<1>18. CASE Thr!Final
  BY <1>18 DEF Thr!Final, Thr!At
<1>19. CASE Thr!Tell
  BY <1>19 DEF Thr!Tell, Thr!SignalFrozen, Thr!woken, Thr!At
<1>20. CASE Thr!Spurious
  BY <1>20 DEF Thr!Spurious, Thr!At
<1>21. CASE UNCHANGED Thr!vars
  BY <1>21 DEF Thr!vars
<1> QED
  BY <1>1, <1>2, <1>3, <1>4, <1>5, <1>6, <1>7, <1>8, <1>9, <1>10, <1>11, <1>12, <1>13, <1>14, <1>15, <1>16, <1>17, <1>18, <1>19, <1>20, <1>21 DEF Thr!Next, Thr!Owner, Thr!Thread, Thr!Terminating

-----------------------------------------------------------------------------
(* The theorems of a thread *)

\* In every reachable state the invariant holds.
LEMMA ThreadInvariant == ASSUME Thr!BoundsAssumption, OneAtATime PROVE Thr!Spec => []ThreadIInv
<1>1. Thr!Init => ThreadIInv
  BY InitThread
<1>2. ThreadIInv /\ [Thr!Next]_(Thr!vars) => ThreadIInv'
  BY StepThread
<1> QED BY <1>1, <1>2, PTL DEF Thr!Spec

\* When wait_freezing has returned, every run and thaw so far was answered by
\* exactly one complete call of svc.
THEOREM RunsCounted == ASSUME Thr!BoundsAssumption, OneAtATime PROVE Thr!Spec => []Thr!EachRunOnce
<1>1. ThreadIInv => Thr!EachRunOnce
  BY DEF ThreadIInv, Thr!EachRunOnce, Due, Alive, FrozenMeans, OwnerKnows, Freezable, ToRun, Locking, Thr!TypeOK
<1> QED BY <1>1, ThreadInvariant, PTL

\* The fields of ff_thread and the places of both threads have their types.
THEOREM ThreadTypeCorrect == ASSUME Thr!BoundsAssumption, OneAtATime PROVE Thr!Spec => []Thr!TypeOK
<1>1. ThreadIInv => Thr!TypeOK
  BY DEF ThreadIInv
<1> QED BY <1>1, ThreadInvariant, PTL

\* When wait_freezing has returned, the thread is not inside the node's code: the
\* owner may change the node.
THEOREM QuietWhenFrozen == ASSUME Thr!BoundsAssumption, OneAtATime PROVE Thr!Spec => []Thr!QuietWhileFrozen
<1>1. ThreadIInv => Thr!QuietWhileFrozen
  BY DEF ThreadIInv, Thr!QuietWhileFrozen, FrozenMeans, OwnerKnows, Thr!TypeOK
<1> QED BY <1>1, ThreadInvariant, PTL

\* The three together: no run is lost or done twice, and a frozen thread rests.
THEOREM FreezeIsSafe == ASSUME Thr!BoundsAssumption, OneAtATime PROVE Thr!Spec => []Thr!RunsAndRests
<1> QED BY ThreadTypeCorrect, RunsCounted, QuietWhenFrozen, PTL DEF Thr!RunsAndRests
============================================================================
