--------------------------- MODULE SlabCache_proofs ---------------------------
(***************************************************************************)
(* Proofs about a cache of the slab allocator, for any threads, any length  *)
(* of a segment and any number of calls.                                    *)
(***************************************************************************)
EXTENDS SlabCache, FiniteSetTheorems, SequenceTheorems, TLAPS

\* The model has no second table, hence the room.
Assumptions == SlabAssumption /\ RoomAssumption /\ NobodyAssumption

Buffer == Nat \X Nat

\* Inside getitem, putitem and deregisterAllocator, the last also in checkReclaim.
Polling == [at : {"poll"}, i : Nat]
Putting ==
  [at : {"search", "register", "size", "store", "push", "reclaim", "count"}, buf : Buffer]
Draining == [at : {"drain"}, i : Nat \ {0}]
Returning == [at : {"reclaim", "count"}, i : Nat \ {0}, buf : Buffer]

\* A thread that frees, before its buffer is in its queue.
Pushing(t) == pc[t].at \in {"search", "register", "size", "store", "push"}

Typed ==
  /\ seglist \in Seq([avail : Int, freed : BOOLEAN])
  /\ availbuffers \in 0 .. nslabs /\ (availbuffers > 0 => seglist # <<>>)
  /\ fb \in Seq(Threads) /\ fb_size \in Nat \ {0}
  /\ leak \in [Threads -> Seq(Buffer)]
  /\ lastqueue \in Nat
  /\ nomoremalloc \in BOOLEAN
  /\ used \in [Threads -> SUBSET Buffer]
  /\ pc \in [Threads -> {Idle} \cup Polling \cup Putting \cup Draining \cup Returning]
  /\ \A t \in Threads \ {Owner} : pc[t] \in {Idle} \cup Putting

\* The fresh buffers are used up when the owner polls, nothing is counted before
\* it deregisters, and then only the late ones still push.
Phases ==
  /\ pc[Owner] \in Polling => ~nomoremalloc /\ availbuffers = 0
  /\ pc[Owner] \in Draining \cup Returning => nomoremalloc
  /\ \A t \in Threads : pc[t].at \in {"reclaim", "count"} => nomoremalloc
  /\ nomoremalloc => \A t \in Threads : Pushing(t) => t \in late

\* The lock covers an entry whose size is still to come, or a size whose entry is; who
\* has pushed is entered.
Entries ==
  /\ \A t \in Threads : lock = t <=> pc[t].at \in {"size", "store", "count"}
  /\ \A t \in Threads : pc[t].at = "size" => Len(fb) = fb_size + 1 /\ fb[fb_size + 1] = t
  /\ \A t \in Threads : pc[t].at = "store" => fb_size = Len(fb) + 1
  /\ (\A t \in Threads : pc[t].at \notin {"size", "store"}) => Len(fb) = fb_size
  /\ \A t \in Threads : pc[t].at = "push" \/ leak[t] # <<>> => InTable(t)

\* No buffer is in two places.
Disjoint ==
  /\ \A t, u \in Threads : t # u => held(t) \cap held(u) = {}
  /\ \A t, u \in Threads : \A i \in 1 .. Len(leak[t]), j \in 1 .. Len(leak[u]) :
       leak[t][i] = leak[u][j] => t = u /\ i = j
  /\ \A t, u \in Threads : \A i \in 1 .. Len(leak[t]) : leak[t][i] \notin held(u)

\* Neither has a thread given back what it still uses.
Carried ==
  \A t \in Threads :
    pc[t].at # "idle" /\ "buf" \in DOMAIN pc[t] => pc[t].buf \notin used[t]

\* What is out was handed out; until the owner deregisters nothing is counted.
Handed ==
  /\ Out \subseteq HandedOut
  /\ ~nomoremalloc => HandedOut \subseteq Out
  /\ ~nomoremalloc => \A s \in Segments : ~seglist[s].freed

\* Behind the owner's walk through the table.
Passed(t) ==
  "i" \in DOMAIN pc[Owner] => \A j \in pc[Owner].i .. fb_size : Stored(j) => fb[j] # t

\* A queue behind the owner's walk holds no more than its late thread pushes.
Behind ==
  nomoremalloc => \A t \in Threads : Passed(t) =>
    Len(leak[t]) + (IF Pushing(t) THEN 1 ELSE 0) <= (IF t \in late THEN 1 ELSE 0)

\* What every step but a crash keeps.
Books ==
  /\ Typed
  /\ Phases
  /\ Entries
  /\ Disjoint
  /\ Carried
  /\ Handed
  /\ CountsExact
  /\ Behind

\* The inductive invariant.
IInv == Books /\ CrashesInRegister

-----------------------------------------------------------------------------
(* Where the buffers are *)

\* The buffers of a queue.
LEMMA QueueSet ==
  ASSUME NEW s \in Seq(Buffer) PROVE ToSet(s) = {s[i] : i \in 1 .. Len(s)}
BY DEF ToSet

\* b is in one of the queues l.
Inside(b, l) == \E t \in Threads : \E i \in 1 .. Len(l[t]) : l[t][i] = b

\* A buffer is out with a thread or in a queue.
LEMMA OutHas ==
  ASSUME leak \in [Threads -> Seq(Buffer)], NEW b
  PROVE  b \in Out <=> Inside(b, leak) \/ \E t \in Threads : b \in held(t)
<1>1. \A t \in Threads : ToSet(leak[t]) = {leak[t][i] : i \in 1 .. Len(leak[t])}
  BY QueueSet
<1> QED BY <1>1 DEF Out, Queued, Inside

\* The same in the next state.
LEMMA OutHasNext ==
  ASSUME (leak \in [Threads -> Seq(Buffer)])', NEW b
  PROVE  b \in Out' <=> Inside(b, leak') \/ \E t \in Threads : b \in held(t)'
<1>1. \A t \in Threads : ToSet(leak'[t]) = {leak'[t][i] : i \in 1 .. Len(leak'[t])}
  BY QueueSet
<1> QED BY <1>1 DEF Out, Queued, Inside

\* The part of the type that moving buffers needs.
Queues == leak \in [Threads -> Seq(Buffer)]

\* A step that moves no buffer keeps them apart.
LEMMA KeepAll ==
  ASSUME Queues, Disjoint, leak' = leak, \A t \in Threads : held(t)' = held(t)
  PROVE  Disjoint' /\ Out' = Out
<1>1. Disjoint'
  BY DEF Disjoint
<1>2. Out' = Out
  BY DEF Out, Queued
<1> QED BY <1>1, <1>2

\* The owner hands a buffer to another thread.
LEMMA MoveUser ==
  ASSUME Queues, Disjoint, leak' = leak, NEW t \in Threads, t # Owner, Owner \in Threads,
         NEW b \in held(Owner),
         held(Owner)' = held(Owner) \ {b}, held(t)' = held(t) \cup {b},
         \A u \in Threads \ {t, Owner} : held(u)' = held(u)
  PROVE  Disjoint' /\ Out' = Out
<1>1. Disjoint'
  BY DEF Disjoint
<1>2. UNION {held(u)' : u \in Threads} = UNION {held(u) : u \in Threads}
  <2>1. \A x : (\E u \in Threads : x \in held(u)') <=> (\E u \in Threads : x \in held(u))
    <3> TAKE x
    <3>1. CASE x = b
      BY <3>1
    <3>2. CASE x # b
      BY <3>2
    <3> QED BY <3>1, <3>2
  <2> QED BY <2>1
<1>3. Out' = Out
  BY <1>2 DEF Out, Queued
<1> QED BY <1>1, <1>3

\* A thread pushes a buffer it holds into its queue.
LEMMA MovePush ==
  ASSUME Queues, Disjoint, NEW t \in Threads, NEW b \in held(t), b \in Buffer,
         leak' = [leak EXCEPT ![t] = Append(@, b)],
         held(t)' = held(t) \ {b},
         \A u \in Threads \ {t} : held(u)' = held(u)
  PROVE  Disjoint' /\ Out' = Out
<1>1. /\ \A u \in Threads \ {t} : leak'[u] = leak[u]
      /\ Len(leak'[t]) = Len(leak[t]) + 1 /\ Len(leak[t]) \in Nat
      /\ leak'[t][Len(leak[t]) + 1] = b
      /\ \A i \in 1 .. Len(leak[t]) : leak'[t][i] = leak[t][i]
      /\ Queues'
  BY DEF Queues
<1>2. \A i \in 1 .. Len(leak'[t]) : i \in 1 .. Len(leak[t]) \/ i = Len(leak[t]) + 1
  BY <1>1
<1>3. /\ \A u \in Threads : \A i \in 1 .. Len(leak[u]) :
           i \in 1 .. Len(leak'[u]) /\ leak'[u][i] = leak[u][i]
      /\ \A u \in Threads : \A i \in 1 .. Len(leak'[u]) :
           \/ i \in 1 .. Len(leak[u]) /\ leak'[u][i] = leak[u][i]
           \/ u = t /\ i = Len(leak[t]) + 1 /\ leak'[u][i] = b
  BY <1>1, <1>2
<1>4. \A u \in Threads : \A i \in 1 .. Len(leak[u]) : leak[u][i] # b
  BY DEF Disjoint
<1>5. \A u \in Threads : held(u)' \subseteq held(u) /\ b \notin held(u)'
  BY DEF Disjoint
<1>6. Disjoint'
  <2>1. \A u, v \in Threads : u # v => held(u)' \cap held(v)' = {}
    BY <1>5 DEF Disjoint
  <2>2. \A u, v \in Threads : \A i \in 1 .. Len(leak'[u]), j \in 1 .. Len(leak'[v]) :
          leak'[u][i] = leak'[v][j] => u = v /\ i = j
    BY <1>3, <1>4 DEF Disjoint
  <2>3. \A u, v \in Threads : \A i \in 1 .. Len(leak'[u]) : leak'[u][i] \notin held(v)'
    BY <1>3, <1>5 DEF Disjoint
  <2> QED BY <2>1, <2>2, <2>3 DEF Disjoint
<1>7. Out' = Out
  <2>1. \A x : Inside(x, leak') <=> Inside(x, leak) \/ x = b
    <3>1. Len(leak[t]) + 1 \in 1 .. Len(leak'[t])
      BY <1>1
    <3> QED BY <1>1, <1>3, <3>1 DEF Inside
  <2>2. \A x : (\E u \in Threads : x \in held(u)')
                 <=> (\E u \in Threads : x \in held(u)) /\ x # b
    BY <1>5
  <2>3. \A x : x \in Out' <=> x \in Out
    BY <1>1, <2>1, <2>2, OutHas, OutHasNext, ZenonT(30) DEF Queues
  <2> QED BY <2>3
<1> QED BY <1>6, <1>7

\* The owner takes the first buffer of a queue.
LEMMA MovePop ==
  ASSUME Queues, Disjoint, NEW t \in Threads, leak[t] # <<>>, Owner \in Threads,
         leak' = [leak EXCEPT ![t] = Tail(@)],
         held(Owner)' = held(Owner) \cup {Head(leak[t])},
         \A u \in Threads \ {Owner} : held(u)' = held(u)
  PROVE  Disjoint' /\ Out' = Out
<1> DEFINE b == Head(leak[t])
<1>1. /\ \A u \in Threads \ {t} : leak'[u] = leak[u]
      /\ Len(leak'[t]) = Len(leak[t]) - 1 /\ Len(leak[t]) \in Nat \ {0}
      /\ leak[t][1] = b
      /\ \A i \in 1 .. Len(leak'[t]) : leak'[t][i] = leak[t][i + 1]
      /\ Queues'
  BY DEF Queues
<1> HIDE DEF b
<1>2. /\ \A u \in Threads \ {t} : \A i \in 1 .. Len(leak'[u]) :
           i \in 1 .. Len(leak[u]) /\ leak'[u][i] = leak[u][i]
      /\ \A i \in 1 .. Len(leak'[t]) :
           i + 1 \in 1 .. Len(leak[t]) /\ leak'[t][i] = leak[t][i + 1]
      /\ 1 \in 1 .. Len(leak[t])
  BY <1>1
<1>3. \A u \in Threads : \A i \in 1 .. Len(leak'[u]) :
        /\ leak'[u][i] # b
        /\ \E j \in 1 .. Len(leak[u]) : leak'[u][i] = leak[u][j]
  <2>1. \A i \in 1 .. Len(leak'[t]) : i + 1 # 1
    BY <1>1
  <2> QED BY <1>1, <1>2, <2>1 DEF Disjoint
<1>4. \A u \in Threads : /\ b \notin held(u)
                         /\ held(u)' = IF u = Owner THEN held(u) \cup {b} ELSE held(u)
  BY <1>1, <1>2 DEF Disjoint, b
<1>5. Disjoint'
  <2>1. \A u, v \in Threads : u # v => held(u)' \cap held(v)' = {}
    BY <1>4 DEF Disjoint
  <2>2. \A u, v \in Threads : \A i \in 1 .. Len(leak'[u]), j \in 1 .. Len(leak'[v]) :
          leak'[u][i] = leak'[v][j] => u = v /\ i = j
    <3> TAKE u, v \in Threads
    <3> TAKE i \in 1 .. Len(leak'[u]), j \in 1 .. Len(leak'[v])
    <3> HAVE leak'[u][i] = leak'[v][j]
    <3>1. u = v
      BY <1>2 DEF Disjoint
    <3>2. CASE u = t
      <4>1. i + 1 = j + 1
        BY <1>2, <3>1, <3>2 DEF Disjoint
      <4> QED BY <3>1, <4>1, <1>1
    <3>3. CASE u # t
      BY <1>2, <3>1, <3>3 DEF Disjoint
    <3> QED BY <3>1, <3>2, <3>3
  <2>3. \A u, v \in Threads : \A i \in 1 .. Len(leak'[u]) : leak'[u][i] \notin held(v)'
    BY <1>3, <1>4, SMTT(30) DEF Disjoint
  <2> QED BY <2>1, <2>2, <2>3 DEF Disjoint
<1>6. Out' = Out
  <2>1. \A x : Inside(x, leak) <=> Inside(x, leak') \/ x = b
    <3> TAKE x
    <3>1. ASSUME Inside(x, leak') PROVE Inside(x, leak)
      BY <1>3, <3>1 DEF Inside
    <3>2. Inside(b, leak)
      BY <1>1, <1>2 DEF Inside
    <3>3. ASSUME Inside(x, leak), x # b PROVE Inside(x, leak')
      <4>1. PICK u \in Threads : \E i \in 1 .. Len(leak[u]) : leak[u][i] = x
        BY <3>3 DEF Inside
      <4>2. PICK i \in 1 .. Len(leak[u]) : leak[u][i] = x
        BY <4>1
      <4>3. CASE u = t
        <5>1. i - 1 \in 1 .. Len(leak'[t]) /\ (i - 1) + 1 = i
          BY <1>1, <3>3, <4>2, <4>3
        <5>2. leak'[t][i - 1] = x
          BY <1>2, <4>2, <4>3, <5>1
        <5> QED BY <5>1, <5>2 DEF Inside
      <4>4. CASE u # t
        BY <1>1, <4>2, <4>4 DEF Inside
      <4> QED BY <4>3, <4>4
    <3> QED BY <3>1, <3>2, <3>3
  <2>2. \A x : (\E u \in Threads : x \in held(u)')
                 <=> (\E u \in Threads : x \in held(u)) \/ x = b
    BY <1>4
  <2>3. \A x : x \in Out' <=> x \in Out
    BY <1>1, <2>1, <2>2, OutHas, OutHasNext DEF Queues
  <2> QED BY <2>3
<1> QED BY <1>5, <1>6

\* The owner gets a buffer that was not out.
LEMMA MoveNew ==
  ASSUME Queues, Disjoint, NEW b, b \notin Out, leak' = leak, Owner \in Threads,
         held(Owner)' = held(Owner) \cup {b},
         \A u \in Threads \ {Owner} : held(u)' = held(u)
  PROVE  Disjoint' /\ Out' = Out \cup {b}
<1>1. ~Inside(b, leak) /\ \A u \in Threads : b \notin held(u)
  BY OutHas DEF Queues
<1>2. Disjoint'
  BY <1>1 DEF Disjoint, Inside
<1>3. \A x : (\E u \in Threads : x \in held(u)')
               <=> (\E u \in Threads : x \in held(u)) \/ x = b
  OBVIOUS
<1>4. \A x : x \in Out' <=> x \in Out \/ x = b
  BY <1>3, OutHas, OutHasNext DEF Queues
<1> QED BY <1>2, <1>4

\* A thread gives back a buffer it holds, which is then out no more.
LEMMA MoveBack ==
  ASSUME Queues, Disjoint, NEW t \in Threads, NEW b \in held(t), leak' = leak,
         held(t)' = held(t) \ {b},
         \A u \in Threads \ {t} : held(u)' = held(u)
  PROVE  Disjoint' /\ Out' = Out \ {b} /\ b \in Out
<1>1. ~Inside(b, leak) /\ \A u \in Threads : b \notin held(u)' /\ held(u)' \subseteq held(u)
  BY DEF Inside, Disjoint
<1>2. Disjoint'
  BY <1>1 DEF Disjoint
<1>3. \A x : (\E u \in Threads : x \in held(u)')
               <=> (\E u \in Threads : x \in held(u)) /\ x # b
  BY <1>1
<1>4. \A x : x \in Out' <=> x \in Out /\ x # b
  BY <1>1, <1>3, OutHas, OutHasNext DEF Queues
<1>5. b \in Out
  BY OutHas DEF Queues
<1> QED BY <1>2, <1>4, <1>5

-----------------------------------------------------------------------------
(* The counts of the segments *)

\* The buffers of a segment.
Row(s) == {s} \X (1 .. nslabs)

\* One element more.
LEMMA OneMore ==
  ASSUME NEW S, NEW T, NEW b, IsFiniteSet(S), b \notin S, T = S \cup {b}
  PROVE  Cardinality(T) = Cardinality(S) + 1
BY FS_AddElement

\* One element less.
LEMMA OneLess ==
  ASSUME NEW S, NEW T, NEW b \in S, IsFiniteSet(S), T = S \ {b}
  PROVE  Cardinality(T) = Cardinality(S) - 1
BY FS_RemoveElement

\* Reading and replacing one entry of a sequence.
LEMMA OneEntry ==
  ASSUME NEW R, NEW q \in Seq(R), NEW s \in DOMAIN q
  PROVE  /\ q[s] \in R /\ s \in 1 .. Len(q)
         /\ \A x \in R : LET r == [q EXCEPT ![s] = x]
                         IN  /\ r \in Seq(R) /\ Len(r) = Len(q) /\ r[s] = x
                             /\ \A i \in DOMAIN q : i # s => r[i] = q[i]
<1>1. s \in 1 .. Len(q) /\ DOMAIN q = 1 .. Len(q)
  BY LenProperties
<1>2. q[s] \in R
  BY <1>1, ElementOfSeq
<1> QED BY <1>1, <1>2, ExceptSeq

\* The buffers of a segment that are out are finitely many.
LEMMA Rows ==
  ASSUME Assumptions, NEW s, NEW S
  PROVE  /\ IsFiniteSet(Row(s) \cap S)
         /\ Cardinality(Row(s) \cap S) \in Nat
         /\ Cardinality(Row(s) \cap S) = 0 <=> Row(s) \cap S = {}
<1>1. IsFiniteSet(1 .. nslabs) /\ IsFiniteSet({s})
  <2>1. nslabs \in Int /\ 1 \in Int
    BY DEF Assumptions, SlabAssumption
  <2>2. IsFiniteSet(1 .. nslabs)
    BY <2>1, FS_Interval
  <2>3. IsFiniteSet({s})
    BY FS_Singleton
  <2> QED BY <2>2, <2>3
<1>2. IsFiniteSet(Row(s))
  BY <1>1, FS_Product DEF Row
<1>3. IsFiniteSet(Row(s) \cap S)
  <2>1. Row(s) \cap S \in SUBSET Row(s)
    OBVIOUS
  <2> QED BY <1>2, <2>1, FS_Subset
<1> QED BY <1>3, FS_EmptySet, FS_CardinalityType

\* The counts of the segments, said with Row.
LEMMA Counts ==
  CountsExact <=>
    \A s \in Segments :
      /\ seglist[s].avail = nslabs - Cardinality(Row(s) \cap Out)
      /\ seglist[s].freed => Row(s) \cap Out = {}
      /\ (nomoremalloc /\ Row(s) \cap HandedOut # {} /\ Row(s) \cap Out = {})
           => seglist[s].freed
BY DEF CountsExact, Row

\* The same in the next state.
LEMMA CountsNext ==
  CountsExact' <=>
    \A s \in Segments' :
      /\ seglist'[s].avail = nslabs - Cardinality(Row(s) \cap Out')
      /\ seglist'[s].freed => Row(s) \cap Out' = {}
      /\ (nomoremalloc' /\ Row(s) \cap HandedOut' # {} /\ Row(s) \cap Out' = {})
           => seglist'[s].freed
BY DEF CountsExact, Row

\* A step that moves no buffer out or back keeps the counts.
LEMMA CountsKept ==
  ASSUME Handed, CountsExact, Out' = Out, UNCHANGED <<seglist, availbuffers, nomoremalloc>>
  PROVE  Handed' /\ CountsExact'
<1>1. HandedOut' = HandedOut /\ Segments' = Segments
  BY DEF HandedOut, Segments, FreshBuffers
<1>2. Handed'
  BY <1>1 DEF Handed
<1>3. CountsExact'
  BY <1>1, Counts, CountsNext
<1> QED BY <1>2, <1>3

\* A fresh buffer that goes out is counted in the last segment, perhaps a new one.
LEMMA CountsFresh ==
  ASSUME Assumptions, Typed, Handed, CountsExact, ~nomoremalloc, nomoremalloc' = nomoremalloc,
         NEW segs \in Seq([avail : Int, freed : BOOLEAN]), NEW n \in 1 .. nslabs,
         \/ segs = seglist /\ n = availbuffers
         \/ /\ segs = Append(seglist, [avail |-> nslabs, freed |-> FALSE])
            /\ n = nslabs /\ availbuffers = 0,
         NEW b, b = <<Len(segs), nslabs - n + 1>>,
         seglist' = [segs EXCEPT ![Len(segs)].avail = @ - 1],
         availbuffers' = n - 1, Out' = Out \cup {b}
  PROVE  Handed' /\ CountsExact'
<1> USE DEF Assumptions, SlabAssumption
<1> DEFINE k == Len(segs)
<1>1. /\ k \in Nat \ {0} /\ k \in 1 .. k /\ nslabs \in Nat \ {0} /\ b = <<k, nslabs - n + 1>>
      /\ b \in Row(k) /\ DOMAIN segs = 1 .. k
  <2>1. k \in Nat \ {0}
    BY SMTT(30) DEF Typed
  <2> QED BY <2>1 DEF Row
<1>2. /\ Segments' = 1 .. k /\ Len(seglist') = k
      /\ \A s \in 1 .. k : /\ seglist'[s].freed = segs[s].freed
                           /\ s # k => seglist'[s].avail = segs[s].avail
                           /\ s = k => seglist'[s].avail = segs[s].avail - 1
  <2>1. \A s \in 1 .. k : segs[s] \in [avail : Int, freed : BOOLEAN]
    BY LenProperties
  <2>2. seglist' = [s \in 1 .. k |-> IF s = k THEN [segs[k] EXCEPT !.avail = @ - 1] ELSE segs[s]]
    BY <1>1
  <2>3. DOMAIN seglist' = 1 .. k /\ Len(seglist') = k
    BY <1>1, <2>2
  <2> QED BY <1>1, <2>1, <2>2, <2>3 DEF Segments
<1>3. HandedOut' = HandedOut \cup {b} /\ b \notin HandedOut
  <2>1. FreshBuffers' = {<<k, i>> : i \in nslabs - (n - 1) + 1 .. nslabs}
    BY <1>2 DEF FreshBuffers
  <2>2. HandedOut' = ((1 .. k) \X (1 .. nslabs)) \ FreshBuffers'
    BY <1>2 DEF HandedOut
  <2>3. CASE segs = seglist /\ n = availbuffers
    <3>1. FreshBuffers = {<<k, i>> : i \in nslabs - n + 1 .. nslabs}
      BY <2>3 DEF FreshBuffers
    <3>2. HandedOut = ((1 .. k) \X (1 .. nslabs)) \ FreshBuffers
      BY <1>1, <2>3 DEF HandedOut, Segments
    <3>3. \A s \in 1 .. k, i \in 1 .. nslabs :
            /\ <<s, i>> \in FreshBuffers <=> s = k /\ i >= nslabs - n + 1
            /\ <<s, i>> \in FreshBuffers' <=> s = k /\ i >= nslabs - n + 2
      BY <2>1, <3>1, SMTT(30)
    <3>4. nslabs - n + 1 \in 1 .. nslabs
      OBVIOUS
    <3>5. \A s \in 1 .. k, i \in 1 .. nslabs :
            <<s, i>> \in HandedOut' <=> <<s, i>> \in HandedOut \/ <<s, i>> = b
      <4> TAKE s \in 1 .. k, i \in 1 .. nslabs
      <4>1. <<s, i>> = b <=> s = k /\ i = nslabs - n + 1
        BY <1>1
      <4>2. i >= nslabs - n + 2 <=> i >= nslabs - n + 1 /\ i # nslabs - n + 1
        BY <1>1, SMTT(30)
      <4> QED BY <2>2, <3>2, <3>3, <4>1, <4>2
    <3>6. b \in (1 .. k) \X (1 .. nslabs) /\ b \in FreshBuffers
      BY <1>1, <3>3, <3>4
    <3>7. HandedOut \subseteq (1 .. k) \X (1 .. nslabs)
          /\ HandedOut' \subseteq (1 .. k) \X (1 .. nslabs)
      BY <2>2, <3>2
    <3>8. \A x \in (1 .. k) \X (1 .. nslabs) :
            x \in HandedOut' <=> x \in HandedOut \/ x = b
      BY <3>5
    <3> QED BY <3>2, <3>6, <3>7, <3>8
  <2>4. CASE /\ segs = Append(seglist, [avail |-> nslabs, freed |-> FALSE])
             /\ n = nslabs /\ availbuffers = 0
    <3>1. k = Len(seglist) + 1 /\ Segments = 1 .. Len(seglist) /\ Len(seglist) \in Nat
      BY <2>4 DEF Typed, Segments
    <3>2. FreshBuffers = {}
      BY <1>1, <2>4 DEF FreshBuffers
    <3>3. HandedOut = (1 .. k - 1) \X (1 .. nslabs)
      BY <3>1, <3>2 DEF HandedOut
    <3>4. \A s \in 1 .. k, i \in 1 .. nslabs :
            <<s, i>> \in FreshBuffers' <=> s = k /\ i >= 2
      BY <1>1, <2>1, <2>4
    <3>5. \A s \in 1 .. k, i \in 1 .. nslabs :
            <<s, i>> \in HandedOut' <=> <<s, i>> \in HandedOut \/ <<s, i>> = b
      <4> TAKE s \in 1 .. k, i \in 1 .. nslabs
      <4>1. <<s, i>> = b <=> s = k /\ i = 1
        BY <1>1, <2>4
      <4>2. s # k <=> s \in 1 .. k - 1
        BY <1>1
      <4> QED BY <2>2, <3>3, <3>4, <4>1, <4>2
    <3>6. b \in (1 .. k) \X (1 .. nslabs) /\ b \notin HandedOut
      BY <1>1, <2>4, <3>3
    <3>7. HandedOut \subseteq (1 .. k) \X (1 .. nslabs)
          /\ HandedOut' \subseteq (1 .. k) \X (1 .. nslabs)
      BY <2>2, <3>1, <3>3, SMTT(30)
    <3>8. \A x \in (1 .. k) \X (1 .. nslabs) :
            x \in HandedOut' <=> x \in HandedOut \/ x = b
      BY <3>5
    <3> QED BY <3>6, <3>7, <3>8
  <2> QED BY <2>3, <2>4
<1>4. \A s \in 1 .. k : segs[s].avail = nslabs - Cardinality(Row(s) \cap Out) /\ ~segs[s].freed
  <2>1. CASE segs = seglist /\ n = availbuffers
    BY <1>1, <2>1, Counts DEF Handed, Segments
  <2>2. CASE /\ segs = Append(seglist, [avail |-> nslabs, freed |-> FALSE])
             /\ n = nslabs /\ availbuffers = 0
    <3>1. k = Len(seglist) + 1 /\ Segments = 1 .. Len(seglist) /\ Len(seglist) \in Nat
      BY <2>2 DEF Typed, Segments
    <3>2. \A s \in Segments : segs[s] = seglist[s]
      BY <2>2, <3>1 DEF Typed
    <3>3. segs[k] = [avail |-> nslabs, freed |-> FALSE]
      BY <2>2, <3>1 DEF Typed
    <3>4. Row(k) \cap Out = {}
      <4>1. \A x \in HandedOut : x[1] \in Segments
        BY DEF HandedOut
      <4>2. k \notin Segments
        BY <3>1
      <4> QED BY <4>1, <4>2 DEF Row, Handed
    <3>5. Cardinality(Row(k) \cap Out) = 0
      BY <3>4, FS_EmptySet
    <3> TAKE s \in 1 .. k
    <3>6. CASE s \in Segments
      BY <3>2, <3>6, Counts DEF Handed
    <3>7. CASE s = k
      BY <1>1, <3>3, <3>5, <3>7
    <3>8. s \in Segments \/ s = k
      BY <3>1
    <3> QED BY <3>6, <3>7, <3>8
  <2> QED BY <2>1, <2>2
<1> HIDE DEF k
<1>5. CountsExact'
  <2> SUFFICES ASSUME NEW s \in 1 .. k
               PROVE  /\ seglist'[s].avail = nslabs - Cardinality(Row(s) \cap Out')
                      /\ ~seglist'[s].freed
    BY <1>2, CountsNext
  <2>1. CASE s # k
    <3>1. Row(s) \cap Out' = Row(s) \cap Out
      BY <1>1, <2>1 DEF Row
    <3> QED BY <1>2, <1>4, <2>1, <3>1
  <2>2. CASE s = k
    <3>1. Row(s) \cap Out' = (Row(s) \cap Out) \cup {b} /\ b \notin Row(s) \cap Out
      BY <1>1, <1>3, <2>2 DEF Handed
    <3>2. IsFiniteSet(Row(s) \cap Out) /\ Cardinality(Row(s) \cap Out) \in Nat
      BY Rows
    <3>3. Cardinality(Row(s) \cap Out') = Cardinality(Row(s) \cap Out) + 1
      BY <3>1, <3>2, OneMore
    <3>4. /\ seglist'[s].avail = segs[s].avail - 1 /\ seglist'[s].freed = segs[s].freed
          /\ segs[s].avail = nslabs - Cardinality(Row(s) \cap Out) /\ ~segs[s].freed
      BY <1>2, <1>4, <2>2
    <3>5. nslabs - Cardinality(Row(s) \cap Out) - 1 = nslabs - (Cardinality(Row(s) \cap Out) + 1)
      BY <1>1, <3>2
    <3> QED BY <3>3, <3>4, <3>5
  <2> QED BY <2>1, <2>2
<1>6. Handed'
  BY <1>2, <1>3, <1>4 DEF Handed
<1> QED BY <1>5, <1>6

\* A buffer that comes back is counted in its segment, which the last one frees.
LEMMA CountsBack ==
  ASSUME Assumptions, Typed, Handed, CountsExact, nomoremalloc, nomoremalloc' = nomoremalloc,
         availbuffers' = availbuffers,
         NEW b \in Out, Out' = Out \ {b}, NEW s, s = b[1],
         seglist' = [seglist EXCEPT ![s] =
                       [avail |-> seglist[s].avail + 1,
                        freed |-> seglist[s].freed \/ seglist[s].avail + 1 = nslabs]]
  PROVE  /\ Handed' /\ CountsExact' /\ s \in Segments
<1> USE DEF Assumptions, SlabAssumption
<1>1. b \in Segments \X (1 .. nslabs) /\ s \in Segments /\ b \in Row(s)
  BY DEF Handed, HandedOut, Row
<1>2. /\ Segments' = Segments /\ Len(seglist') = Len(seglist)
      /\ \A r \in Segments : r # s => seglist'[r] = seglist[r]
      /\ seglist'[s].avail = seglist[s].avail + 1
      /\ seglist'[s].freed = (seglist[s].freed \/ seglist[s].avail + 1 = nslabs)
      /\ seglist[s].avail \in Int /\ seglist[s].freed \in BOOLEAN
  <2> DEFINE R == [avail : Int, freed : BOOLEAN]
             x == [avail |-> seglist[s].avail + 1,
                   freed |-> seglist[s].freed \/ seglist[s].avail + 1 = nslabs]
  <2>1. seglist \in Seq(R) /\ s \in DOMAIN seglist
    BY <1>1 DEF Typed, Segments
  <2>2. seglist[s] \in R
    <3> HIDE DEF R, x
    <3> QED BY <2>1, OneEntry
  <2>3. seglist[s].avail \in Int /\ seglist[s].freed \in BOOLEAN
    BY <2>2
  <2>4. /\ x.avail = seglist[s].avail + 1
        /\ x.freed = (seglist[s].freed \/ seglist[s].avail + 1 = nslabs)
    OBVIOUS
  <2>5. x \in R
    BY <2>3
  <2>6. seglist' = [seglist EXCEPT ![s] = x]
    OBVIOUS
  <2> HIDE DEF R, x
  <2>7. seglist'[s] = x /\ Len(seglist') = Len(seglist)
        /\ \A r \in DOMAIN seglist : r # s => seglist'[r] = seglist[r]
    BY <2>1, <2>5, <2>6, OneEntry
  <2>8. DOMAIN seglist' = DOMAIN seglist
    BY <2>6
  <2> QED BY <2>3, <2>4, <2>7, <2>8 DEF Segments
<1>3. HandedOut' = HandedOut
  BY <1>2 DEF HandedOut, FreshBuffers
<1>4. Handed'
  BY <1>3 DEF Handed
<1>5. CountsExact'
  <2> SUFFICES ASSUME NEW r \in Segments
               PROVE  /\ seglist'[r].avail = nslabs - Cardinality(Row(r) \cap Out')
                      /\ seglist'[r].freed => Row(r) \cap Out' = {}
                      /\ Row(r) \cap HandedOut # {} /\ Row(r) \cap Out' = {}
                           => seglist'[r].freed
    BY <1>2, <1>3, CountsNext
  <2>1. CASE r # s
    <3>1. Row(r) \cap Out' = Row(r) \cap Out
      BY <1>1, <2>1 DEF Row
    <3> QED BY <1>2, <2>1, <3>1, Counts
  <2>2. CASE r = s
    <3>1. Row(s) \cap Out' = (Row(s) \cap Out) \ {b} /\ b \in Row(s) \cap Out
      BY <1>1
    <3>2. Cardinality(Row(s) \cap Out') = Cardinality(Row(s) \cap Out) - 1
      <4>1. IsFiniteSet(Row(s) \cap Out)
        BY Rows
      <4> QED BY <3>1, <4>1, OneLess
    <3>3. /\ Cardinality(Row(s) \cap Out') \in Nat
          /\ Cardinality(Row(s) \cap Out) \in Nat
          /\ Cardinality(Row(s) \cap Out') = 0 <=> Row(s) \cap Out' = {}
      BY Rows
    <3>4. seglist[s].avail = nslabs - Cardinality(Row(s) \cap Out) /\ ~seglist[s].freed
      BY <1>1, <1>2, <3>1, Counts
    <3>5. seglist'[s].avail = nslabs - Cardinality(Row(s) \cap Out')
      BY <1>2, <3>2, <3>3, <3>4
    <3>6. seglist'[s].freed <=> Row(s) \cap Out' = {}
      <4>1. seglist[s].avail + 1 = nslabs <=> Cardinality(Row(s) \cap Out') = 0
        BY <3>2, <3>3, <3>4
      <4> QED BY <1>2, <3>3, <3>4, <4>1
    <3> QED BY <2>2, <3>5, <3>6
  <2> QED BY <2>1, <2>2
<1> QED BY <1>1, <1>4, <1>5

-----------------------------------------------------------------------------
(* Where the threads are *)

\* Where a thread is, and what it carries there.
Place == {Idle} \cup Polling \cup Putting \cup Draining \cup Returning

\* What a thread holds that uses u and is at place p.
LEMMA Holding ==
  ASSUME NEW u, NEW p \in Place
  PROVE  /\ p \in Putting \cup Returning
              => u \cup (IF "buf" \in DOMAIN p THEN {p.buf} ELSE {}) = u \cup {p.buf}
         /\ p \notin Putting \cup Returning
              => u \cup (IF "buf" \in DOMAIN p THEN {p.buf} ELSE {}) = u
<1>1. "buf" \in DOMAIN p <=> p \in Putting \cup Returning
  BY DEF Place, Idle, Polling, Putting, Draining, Returning
<1> QED BY <1>1

\* What a place says.
LEMMA Places ==
  ASSUME NEW p \in Place
  PROVE  /\ p.at \in {"idle", "poll", "drain", "search", "register", "size", "store", "push",
                      "reclaim", "count"}
         /\ p.at = "idle" <=> p = Idle
         /\ p.at = "poll" <=> p \in Polling
         /\ p.at = "drain" <=> p \in Draining
         /\ p.at \in {"search", "register", "size", "store", "push"} => p \in Putting
         /\ p.at \in {"reclaim", "count"} => p \in Putting \cup Returning
         /\ p \in Putting => p.at \in {"search", "register", "size", "store", "push", "reclaim", "count"}
         /\ p \in Returning => p.at \in {"reclaim", "count"}
         /\ p \in Putting \cup Returning <=> "buf" \in DOMAIN p
         /\ p \in Putting \cup Returning => p.buf \in Buffer
         /\ p \in Polling \cup Draining \cup Returning <=> "i" \in DOMAIN p
         /\ p \in Polling \cup Draining \cup Returning => p.i \in Nat
         /\ p \in Putting => p \notin Returning
BY DEF Place, Idle, Polling, Putting, Draining, Returning

\* Where the threads are.
LEMMA Threading ==
  ASSUME Typed
  PROVE  /\ DOMAIN pc = Threads /\ \A t \in Threads : pc[t] \in Place
         /\ \A t \in Threads \ {Owner} : pc[t] \in {Idle} \cup Putting
         /\ \A t \in Threads : pc[t] \notin Putting \cup Returning => held(t) = used[t]
         /\ \A t \in Threads :
              pc[t] \in Putting \cup Returning => held(t) = used[t] \cup {pc[t].buf}
<1>1. DOMAIN pc = Threads /\ \A t \in Threads : pc[t] \in Place
  BY DEF Typed, Place
<1>2. \A t \in Threads \ {Owner} : pc[t] \in {Idle} \cup Putting
  BY DEF Typed
<1> QED BY <1>1, <1>2, Holding DEF held

\* And in the next state.
LEMMA ThreadingNext ==
  ASSUME Typed'
  PROVE  /\ \A t \in Threads : pc'[t] \in Place
         /\ \A t \in Threads : pc'[t] \notin Putting \cup Returning => held(t)' = used'[t]
         /\ \A t \in Threads :
              pc'[t] \in Putting \cup Returning => held(t)' = used'[t] \cup {pc'[t].buf}
<1>1. \A t \in Threads : pc'[t] \in Place
  BY DEF Typed, Place
<1> QED BY <1>1, Holding DEF held

\* A fresh buffer is not out.
LEMMA NewBuffer ==
  ASSUME Assumptions, Typed, Handed,
         NEW segs \in Seq([avail : Int, freed : BOOLEAN]), NEW n \in 1 .. nslabs,
         \/ segs = seglist /\ n = availbuffers
         \/ /\ segs = Append(seglist, [avail |-> nslabs, freed |-> FALSE])
            /\ n = nslabs /\ availbuffers = 0,
         NEW b, b = <<Len(segs), nslabs - n + 1>>
  PROVE  b \in Buffer /\ b \notin Out
<1> USE DEF Assumptions, SlabAssumption
<1>1. Len(segs) \in Nat /\ b \in Buffer
  <2>1. Len(segs) \in Nat
    BY LenProperties
  <2>2. nslabs - n + 1 \in Nat
    OBVIOUS
  <2> QED BY <2>1, <2>2 DEF Buffer
<1>2. b \notin HandedOut
  <2>1. CASE segs = seglist /\ n = availbuffers
    <3>1. nslabs - n + 1 \in nslabs - n + 1 .. nslabs
      OBVIOUS
    <3> QED BY <2>1, <3>1 DEF HandedOut, FreshBuffers
  <2>2. CASE segs = Append(seglist, [avail |-> nslabs, freed |-> FALSE])
    <3>1. Len(segs) = Len(seglist) + 1 /\ Len(seglist) \in Nat /\ Segments = 1 .. Len(seglist)
      BY <2>2 DEF Typed, Segments
    <3> QED BY <3>1 DEF HandedOut
  <2> QED BY <2>1, <2>2
<1> QED BY <1>1, <1>2 DEF Handed

\* Only the place of one thread changes.
MovesTo(t, p) == pc' = [pc EXCEPT ![t] = p]

\* What that says of every thread.
LEMMA Moved ==
  ASSUME Typed, NEW t \in Threads, NEW p, MovesTo(t, p)
  PROVE  /\ pc'[t] = p /\ \A u \in Threads : u # t => pc'[u] = pc[u]
         /\ p \in Place /\ (t # Owner => p \in {Idle} \cup Putting)
              => /\ pc' \in [Threads -> {Idle} \cup Polling \cup Putting \cup Draining \cup Returning]
                 /\ \A u \in Threads \ {Owner} : pc'[u] \in {Idle} \cup Putting
<1>1. pc \in [Threads -> Place] /\ \A u \in Threads \ {Owner} : pc[u] \in {Idle} \cup Putting
  BY DEF Typed, Place
<1>2. pc'[t] = p /\ \A u \in Threads : u # t => pc'[u] = pc[u]
  BY <1>1 DEF MovesTo
<1>3. p \in Place => pc' \in [Threads -> Place]
  BY <1>1 DEF MovesTo
<1>4. t # Owner /\ p \in {Idle} \cup Putting
        => \A u \in Threads \ {Owner} : pc'[u] \in {Idle} \cup Putting
  BY <1>1, <1>2
<1>5. t = Owner => \A u \in Threads \ {Owner} : pc'[u] \in {Idle} \cup Putting
  BY <1>1, <1>2
<1> QED BY <1>2, <1>3, <1>4, <1>5 DEF Place

-----------------------------------------------------------------------------
(* The steps *)

\* A segment with one buffer fewer.
LEMMA OneFewer ==
  ASSUME NEW y \in [avail : Int, freed : BOOLEAN]
  PROVE  [y EXCEPT !.avail = @ - 1] \in [avail : Int, freed : BOOLEAN]
<1>1. y.avail - 1 \in Int /\ y.freed \in BOOLEAN
  OBVIOUS
<1>2. [y EXCEPT !.avail = @ - 1] = [avail |-> y.avail - 1, freed |-> y.freed]
  OBVIOUS
<1> QED BY <1>1, <1>2

\* Taking a buffer from the last segment leaves a list of segments.
LEMMA TakeLast ==
  ASSUME NEW segs \in Seq([avail : Int, freed : BOOLEAN]), segs # <<>>,
         Len(segs) \in Nat \ {0}
  PROVE  LET s == [segs EXCEPT ![Len(segs)].avail = @ - 1]
         IN  s \in Seq([avail : Int, freed : BOOLEAN]) /\ s # <<>>
<1> DEFINE R == [avail : Int, freed : BOOLEAN]
           k == Len(segs)
           x == [segs[k] EXCEPT !.avail = @ - 1]
           s == [segs EXCEPT ![k] = x]
<1>1. segs \in Seq(R) /\ k \in 1 .. Len(segs)
  OBVIOUS
<1>2. segs[k] \in R
  <2> HIDE DEF R, k
  <2> QED BY <1>1, ElementOfSeq
<1>3. x \in R
  BY <1>2, OneFewer
<1>4. [segs EXCEPT ![Len(segs)].avail = @ - 1] = s
  OBVIOUS
<1> HIDE DEF R, x, k
<1>5. s \in Seq(R) /\ Len(s) = Len(segs)
  BY <1>1, <1>3, ExceptSeq
<1>6. s # <<>>
  BY <1>5
<1> QED BY <1>4, <1>5, <1>6 DEF R

\* The owner takes a fresh buffer of the last segment.
LEMMA FreshStep ==
  ASSUME Assumptions, Books, ~nomoremalloc, pc[Owner] \in {Idle} \cup Polling,
         NEW segs \in Seq([avail : Int, freed : BOOLEAN]), NEW n \in 1 .. nslabs,
         \/ segs = seglist /\ n = availbuffers
         \/ /\ segs = Append(seglist, [avail |-> nslabs, freed |-> FALSE])
            /\ n = nslabs /\ availbuffers = 0,
         Fresh(segs, n),
         UNCHANGED <<table, leak, lastqueue, lock, nomoremalloc, late>>
  PROVE  Books'
<1> USE DEF Assumptions, SlabAssumption, Books
<1> DEFINE b == <<Len(segs), nslabs - n + 1>>
<1>1. b \in Buffer /\ b \notin Out
  BY NewBuffer
<1>2. /\ MovesTo(Owner, Idle) /\ used' = [used EXCEPT ![Owner] = @ \cup {b}]
      /\ seglist' = [segs EXCEPT ![Len(segs)].avail = @ - 1] /\ availbuffers' = n - 1
  BY DEF Fresh, Give, MovesTo
<1>3. /\ pc'[Owner] = Idle /\ \A u \in Threads : u # Owner => pc'[u] = pc[u]
      /\ pc' \in [Threads -> {Idle} \cup Polling \cup Putting \cup Draining \cup Returning]
      /\ \A u \in Threads \ {Owner} : pc'[u] \in {Idle} \cup Putting
  BY <1>2, Moved DEF Place
<1>4. Len(segs) \in Nat \ {0} /\ segs # <<>>
  BY LenProperties DEF Typed
<1>5. seglist' \in Seq([avail : Int, freed : BOOLEAN]) /\ seglist' # <<>>
  BY <1>2, <1>4, TakeLast
<1> HIDE DEF b
<1>6. used' \in [Threads -> SUBSET Buffer] /\ used'[Owner] = used[Owner] \cup {b}
      /\ \A u \in Threads : u # Owner => used'[u] = used[u]
  BY <1>1, <1>2 DEF Typed
<1>7. Typed'
  <2>1. availbuffers' \in 0 .. nslabs
    BY <1>2
  <2> QED BY <1>3, <1>5, <1>6, <2>1 DEF Typed, table
<1>8. Phases'
  <2>1. Idle.at \notin {"reclaim", "count", "search", "register", "size", "store", "push"}
    BY DEF Idle
  <2>2. \A t \in Threads : pc'[t].at \in {"reclaim", "count"} => pc[t].at \in {"reclaim", "count"}
    BY <1>3, <2>1
  <2>3. Idle \notin Polling \cup Draining \cup Returning
    BY DEF Idle, Polling, Draining, Returning
  <2> QED BY <1>3, <2>2, <2>3 DEF Phases
<1>9. Entries'
  <2>1. \A t \in Threads, x \in {"size", "store", "count", "push"} : pc'[t].at = x <=> pc[t].at = x
    BY <1>3, Threading, Places DEF Idle, Polling
  <2> QED BY <2>1 DEF Entries, InTable, Stored, table
<1>10. Disjoint' /\ Out' = Out \cup {b}
  <2>1. held(Owner) = used[Owner] /\ held(Owner)' = used'[Owner]
    <3>1. \A p \in {Idle} \cup Polling : p \notin Putting \cup Returning
      BY DEF Idle, Polling, Putting, Returning
    <3> QED BY <1>3, <1>7, <3>1, Threading, ThreadingNext
  <2>2. \A u \in Threads \ {Owner} : held(u)' = held(u)
    BY <1>3, <1>6 DEF held
  <2> QED BY <1>1, <1>6, <2>1, <2>2, MoveNew DEF Queues, Typed
<1>11. Carried'
  <2>1. "buf" \notin DOMAIN Idle
    BY DEF Idle
  <2> QED BY <1>3, <1>6, <2>1 DEF Carried
<1>12. Handed' /\ CountsExact'
  BY <1>2, <1>10, CountsFresh DEF b
<1>13. Behind'
  BY DEF Behind
<1> QED BY <1>7, <1>8, <1>9, <1>10, <1>11, <1>12, <1>13

\* getitem: a fresh buffer, or the owner starts to look through the queues.
LEMMA GetitemStep == ASSUME Assumptions, Books, Getitem PROVE Books'
<1> USE DEF Assumptions, SlabAssumption, Books
<1>1. CASE availbuffers > 0
  <2>1. Fresh(seglist, availbuffers) /\ UNCHANGED <<table, leak, lastqueue, lock, nomoremalloc, late>>
    BY <1>1 DEF Getitem
  <2>2. seglist \in Seq([avail : Int, freed : BOOLEAN]) /\ availbuffers \in 1 .. nslabs
    BY <1>1 DEF Typed
  <2> QED BY <2>1, <2>2, FreshStep DEF Getitem
<1>2. CASE ~(availbuffers > 0)
  <2> DEFINE p == [at |-> "poll", i |-> 0]
  <2>1. /\ MovesTo(Owner, p) /\ pc[Owner] = Idle /\ ~nomoremalloc
        /\ UNCHANGED <<segments, used, table, leak, lastqueue, lock, nomoremalloc, late>>
    BY <1>2 DEF Getitem, MovesTo
  <2>2. p \in Polling /\ p.at = "poll"
    BY DEF Polling
  <2> HIDE DEF p
  <2>3. /\ pc'[Owner] = p /\ \A u \in Threads : u # Owner => pc'[u] = pc[u]
        /\ pc' \in [Threads -> {Idle} \cup Polling \cup Putting \cup Draining \cup Returning]
        /\ \A u \in Threads \ {Owner} : pc'[u] \in {Idle} \cup Putting
    BY <2>1, <2>2, Moved DEF Place
  <2>4. Typed'
    BY <2>1, <2>3 DEF Typed, segments, table
  <2>5. \A t \in Threads : pc'[t].at = pc[t].at \/ (pc[t].at = "idle" /\ pc'[t].at = "poll")
    BY <2>1, <2>2, <2>3 DEF Idle
  <2>6. Phases'
    <3>1. p \notin Draining \cup Returning
      BY <2>2 DEF Draining, Returning
    <3>2. availbuffers = 0
      BY <1>2 DEF Typed
    <3> QED BY <2>1, <2>3, <2>5, <3>1, <3>2 DEF Phases, segments
  <2>7. Entries'
    BY <2>1, <2>5 DEF Entries, InTable, Stored, table
  <2>8. \A t \in Threads : held(t)' = held(t)
    <3>1. "buf" \notin DOMAIN Idle /\ "buf" \notin DOMAIN p
      BY <2>2 DEF Idle, Polling
    <3> QED BY <2>1, <2>3, <3>1 DEF held
  <2>9. Disjoint' /\ Out' = Out
    BY <2>1, <2>8, KeepAll DEF Queues, Typed
  <2>10. Handed' /\ CountsExact'
    BY <2>1, <2>9, CountsKept DEF segments
  <2>11. Carried'
    <3>1. "buf" \notin DOMAIN p
      BY <2>2 DEF Polling
    <3> QED BY <2>1, <2>3, <3>1 DEF Carried
  <2>12. Behind'
    BY <2>1 DEF Behind
  <2> QED BY <2>4, <2>6, <2>7, <2>9, <2>10, <2>11, <2>12
<1> QED BY <1>1, <1>2

\* newslab: the queues had nothing, and a new segment gives its first buffer.
LEMMA NewslabStep == ASSUME Assumptions, Books, Newslab PROVE Books'
<1> USE DEF Assumptions, SlabAssumption, Books
<1> DEFINE segs == Append(seglist, [avail |-> nslabs, freed |-> FALSE])
<1>1. pc[Owner] \in Polling /\ ~nomoremalloc /\ availbuffers = 0
  BY Threading, Places DEF Newslab, Phases
<1>2. Fresh(segs, nslabs) /\ UNCHANGED <<table, leak, lastqueue, lock, nomoremalloc, late>>
  BY DEF Newslab
<1>3. segs \in Seq([avail : Int, freed : BOOLEAN]) /\ nslabs \in 1 .. nslabs
  <2>1. [avail |-> nslabs, freed |-> FALSE] \in [avail : Int, freed : BOOLEAN]
    OBVIOUS
  <2> QED BY <2>1 DEF Typed
<1> QED BY <1>1, <1>2, <1>3, FreshStep

\* The stored entries of the table name threads.
LEMMA TableNames ==
  ASSUME Typed
  PROVE  /\ fb_size \in Nat \ {0} /\ Len(fb) \in Nat
         /\ \A j \in Nat \ {0} : Stored(j) => fb[j] \in Threads
<1>1. \A j \in 1 .. Len(fb) : fb[j] \in Threads
  BY ElementOfSeq DEF Typed
<1>2. fb_size \in Nat \ {0} /\ Len(fb) \in Nat
  BY LenProperties DEF Typed
<1> QED BY <1>1, <1>2 DEF Stored

\* getfrom_fb: the owner looks at one queue, and may take its first buffer.
LEMMA PollStep == ASSUME Assumptions, Books, Poll PROVE Books'
<1> USE DEF Assumptions, SlabAssumption, Books
<1> DEFINE k == (lastqueue + pc[Owner].i) % fb_size
           t == fb[k + 1]
<1>1. pc[Owner] \in Polling /\ pc[Owner].i \in Nat /\ pc[Owner].at = "poll" /\ ~nomoremalloc /\ availbuffers = 0
  BY Threading, Places DEF Poll, Phases
<1>2. k \in Nat /\ t \in Threads
  <2>1. lastqueue + pc[Owner].i \in Nat /\ fb_size \in Nat \ {0}
    BY <1>1 DEF Typed
  <2>2. k \in 0 .. fb_size - 1 /\ Stored(k + 1)
    BY <2>1 DEF Poll
  <2> HIDE DEF k
  <2> QED BY <2>1, <2>2, TableNames
<1>3. /\ UNCHANGED <<segments, table, lock, nomoremalloc, gets, late>>
      /\ \/ /\ leak[t] # <<>> /\ leak' = [leak EXCEPT ![t] = Tail(@)] /\ lastqueue' = k
            /\ Give(Head(leak[t]))
         \/ /\ pc' = [pc EXCEPT ![Owner].i = @ + 1]
            /\ UNCHANGED <<leak, lastqueue, used>>
  BY DEF Poll
<1> HIDE DEF k, t
<1>4. CASE /\ leak[t] # <<>> /\ leak' = [leak EXCEPT ![t] = Tail(@)] /\ lastqueue' = k
           /\ Give(Head(leak[t]))
  <2> DEFINE b == Head(leak[t])
  <2>1. b \in Buffer /\ leak' \in [Threads -> Seq(Buffer)]
        /\ \A u \in Threads : leak'[u] # <<>> => leak[u] # <<>>
    BY <1>2, <1>4 DEF Typed
  <2>2. MovesTo(Owner, Idle) /\ used' = [used EXCEPT ![Owner] = @ \cup {b}]
    BY <1>4 DEF Give, MovesTo
  <2> HIDE DEF b
  <2>3. /\ pc'[Owner] = Idle /\ \A u \in Threads : u # Owner => pc'[u] = pc[u]
        /\ pc' \in [Threads -> {Idle} \cup Polling \cup Putting \cup Draining \cup Returning]
        /\ \A u \in Threads \ {Owner} : pc'[u] \in {Idle} \cup Putting
    BY <2>2, Moved DEF Place
  <2>4. used' \in [Threads -> SUBSET Buffer] /\ used'[Owner] = used[Owner] \cup {b}
        /\ \A u \in Threads : u # Owner => used'[u] = used[u]
    BY <2>1, <2>2 DEF Typed
  <2>5. Typed'
    BY <1>2, <1>3, <1>4, <2>1, <2>3, <2>4 DEF Typed, segments, table
  <2>6. \A u \in Threads : pc'[u].at = pc[u].at \/ (pc[u].at = "poll" /\ pc'[u].at = "idle")
    BY <1>1, <2>3 DEF Idle
  <2>7. Phases'
    <3>1. Idle \notin Polling \cup Draining \cup Returning
      BY DEF Idle, Polling, Draining, Returning
    <3> QED BY <1>1, <1>3, <2>3, <2>6, <3>1 DEF Phases
  <2>8. Entries'
    BY <1>3, <2>1, <2>6, ZenonT(30) DEF Entries, InTable, Stored, table
  <2>9. Disjoint' /\ Out' = Out
    <3>1. held(Owner) = used[Owner] /\ held(Owner)' = used'[Owner]
      <4>1. \A p \in {Idle} \cup Polling : p \notin Putting \cup Returning
        BY DEF Idle, Polling, Putting, Returning
      <4> QED BY <1>1, <2>3, <2>5, <4>1, Threading, ThreadingNext
    <3>2. \A u \in Threads \ {Owner} : held(u)' = held(u)
      BY <2>3, <2>4 DEF held
    <3> QED BY <1>2, <1>4, <2>4, <3>1, <3>2, MovePop DEF Queues, Typed, b
  <2>10. Carried'
    <3>1. "buf" \notin DOMAIN Idle
      BY DEF Idle
    <3> QED BY <2>3, <2>4, <3>1 DEF Carried
  <2>11. Handed' /\ CountsExact'
    BY <1>3, <2>9, CountsKept DEF segments
  <2>12. Behind'
    BY <1>1, <1>3 DEF Behind
  <2> QED BY <2>5, <2>7, <2>8, <2>9, <2>10, <2>11, <2>12
<1>5. CASE pc' = [pc EXCEPT ![Owner].i = @ + 1] /\ UNCHANGED <<leak, lastqueue, used>>
  <2> DEFINE p == [pc[Owner] EXCEPT !.i = @ + 1]
  <2>1. MovesTo(Owner, p)
    BY <1>5 DEF MovesTo
  <2>2. p \in Polling /\ p.at = "poll"
    BY <1>1 DEF Polling
  <2> HIDE DEF p
  <2>3. /\ pc'[Owner] = p /\ \A u \in Threads : u # Owner => pc'[u] = pc[u]
        /\ pc' \in [Threads -> {Idle} \cup Polling \cup Putting \cup Draining \cup Returning]
        /\ \A u \in Threads \ {Owner} : pc'[u] \in {Idle} \cup Putting
    BY <2>1, <2>2, Moved DEF Place
  <2>4. Typed'
    BY <1>3, <1>5, <2>3 DEF Typed, segments, table
  <2>5. \A u \in Threads : pc'[u].at = pc[u].at
    BY <1>1, <2>2, <2>3
  <2>6. Phases'
    <3>1. p \notin Draining \cup Returning
      BY <2>2 DEF Draining, Returning
    <3> QED BY <1>1, <1>3, <2>3, <2>5, <3>1 DEF Phases, segments
  <2>7. Entries'
    BY <1>3, <1>5, <2>5 DEF Entries, InTable, Stored, table
  <2>8. \A u \in Threads : held(u)' = held(u)
    <3>1. "buf" \notin DOMAIN pc[Owner] /\ "buf" \notin DOMAIN p
      BY <1>1, <2>2 DEF Polling
    <3> QED BY <1>5, <2>3, <3>1 DEF held
  <2>9. Disjoint' /\ Out' = Out
    BY <1>5, <2>8, KeepAll DEF Queues, Typed
  <2>10. Handed' /\ CountsExact'
    BY <1>3, <2>9, CountsKept DEF segments
  <2>11. Carried'
    <3>1. "buf" \notin DOMAIN p
      BY <2>2 DEF Polling
    <3> QED BY <1>5, <2>3, <3>1 DEF Carried
  <2>12. Behind'
    BY <1>1, <1>3 DEF Behind
  <2> QED BY <2>4, <2>6, <2>7, <2>9, <2>10, <2>11, <2>12
<1> QED BY <1>3, <1>4, <1>5

\* A step inside putitem or checkReclaim that keeps the buffer in hand.
LEMMA Went ==
  ASSUME Assumptions, Typed, Carried, NEW t \in Threads, UNCHANGED used,
         NEW x \in {"search", "register", "size", "store", "push", "reclaim", "count"}, Goto(t, x),
         pc[t] \in Putting \/ (pc[t] \in Returning /\ x \in {"reclaim", "count"})
  PROVE  /\ pc' \in [Threads -> {Idle} \cup Polling \cup Putting \cup Draining \cup Returning]
         /\ \A u \in Threads \ {Owner} : pc'[u] \in {Idle} \cup Putting
         /\ pc'[t].at = x /\ \A u \in Threads : u # t => pc'[u] = pc[u]
         /\ \A u \in Threads : held(u)' = held(u)
         /\ Carried'
         /\ pc'[Owner] \in Polling <=> pc[Owner] \in Polling
         /\ pc'[Owner] \in Draining \cup Returning <=> pc[Owner] \in Draining \cup Returning
         /\ \A u \in Threads : Passed(u) <=> ("i" \in DOMAIN pc'[Owner] =>
                                              \A j \in pc'[Owner].i .. fb_size : Stored(j) => fb[j] # u)
<1> USE DEF Assumptions, SlabAssumption
<1> DEFINE p == [pc[t] EXCEPT !.at = x]
<1>1. MovesTo(t, p)
  BY Threading DEF Goto, MovesTo
<1>2. /\ p \in Putting \cup Returning /\ p.at = x /\ p.buf = pc[t].buf
      /\ pc[t] \in Putting => p \in Putting
      /\ pc[t] \in Returning => p \in Returning /\ p.i = pc[t].i
  BY DEF Putting, Returning
<1> HIDE DEF p
<1>3. pc[t] \in Returning => t = Owner
  <2>1. \A y \in {Idle} \cup Putting : y \notin Returning
    BY DEF Idle, Putting, Returning
  <2> QED BY <2>1, Threading
<1>4. p \in Place /\ (t # Owner => p \in {Idle} \cup Putting)
  BY <1>2, <1>3 DEF Place
<1>5. /\ pc'[t] = p /\ \A u \in Threads : u # t => pc'[u] = pc[u]
      /\ pc' \in [Threads -> {Idle} \cup Polling \cup Putting \cup Draining \cup Returning]
      /\ \A u \in Threads \ {Owner} : pc'[u] \in {Idle} \cup Putting
  BY <1>1, <1>4, Moved
<1>6. pc[t] \in Place
  BY Threading
<1>7. "buf" \in DOMAIN p /\ "buf" \in DOMAIN pc[t]
  BY <1>2, <1>4, <1>6, Places
<1>8. \A u \in Threads : held(u)' = held(u)
  BY <1>2, <1>5, <1>7 DEF held
<1>9. Carried'
  <2>1. pc[t].at # "idle"
    BY <1>6, Places DEF Idle, Putting, Returning
  <2> QED BY <1>2, <1>5, <1>7, <2>1 DEF Carried
<1>10. /\ p \in Polling <=> pc[t] \in Polling
       /\ p \in Draining \cup Returning <=> pc[t] \in Draining \cup Returning
       /\ "i" \in DOMAIN p <=> "i" \in DOMAIN pc[t]
       /\ "i" \in DOMAIN pc[t] => p.i = pc[t].i
  BY <1>2 DEF Polling, Putting, Draining, Returning
<1>11. \A u \in Threads : Passed(u) <=> ("i" \in DOMAIN pc'[Owner] =>
                                              \A j \in pc'[Owner].i .. fb_size : Stored(j) => fb[j] # u)
  <2>1. CASE t = Owner
    BY <1>5, <1>10, <2>1 DEF Passed, Stored
  <2>2. CASE t # Owner
    BY <1>5, <2>2 DEF Passed, Stored
  <2> QED BY <2>1, <2>2
<1> QED BY <1>2, <1>5, <1>8, <1>9, <1>10, <1>11

\* The user hands a buffer on.
LEMMA HandStep == ASSUME Assumptions, Books, NEW t \in Threads, Hand(t) PROVE Books'
<1> USE DEF Assumptions, SlabAssumption, Books
<1>1. /\ pc[Owner] = Idle /\ t # Owner /\ Owner \in Threads
      /\ UNCHANGED <<segments, table, leak, lastqueue, lock, nomoremalloc, pc, gets, late>>
  BY DEF Hand
<1>2. PICK b \in used[Owner] : used' = [used EXCEPT ![Owner] = @ \ {b}, ![t] = @ \cup {b}]
  BY DEF Hand
<1>3. /\ used' \in [Threads -> SUBSET Buffer]
      /\ used'[Owner] = used[Owner] \ {b} /\ used'[t] = used[t] \cup {b}
      /\ \A u \in Threads \ {t, Owner} : used'[u] = used[u]
  BY <1>1, <1>2 DEF Typed
<1>4. Typed'
  BY <1>1, <1>3 DEF Typed, segments, table
<1>5. Phases'
  BY <1>1 DEF Phases, Pushing, segments
<1>6. Entries'
  BY <1>1 DEF Entries, InTable, Stored, table
<1>7. "buf" \notin DOMAIN Idle
  BY DEF Idle
<1>8. /\ held(Owner) = used[Owner] /\ held(Owner)' = held(Owner) \ {b}
      /\ held(t)' = held(t) \cup {b}
      /\ \A u \in Threads \ {t, Owner} : held(u)' = held(u)
  BY <1>1, <1>3, <1>7 DEF held
<1>9. Disjoint' /\ Out' = Out
  BY <1>1, <1>2, <1>8, MoveUser DEF Queues, Typed
<1>10. Carried'
  <2> SUFFICES ASSUME NEW u \in Threads, pc[u].at # "idle", "buf" \in DOMAIN pc[u]
               PROVE  pc[u].buf \notin used'[u]
    BY <1>1 DEF Carried
  <2>1. u # Owner /\ pc[u].buf \notin used[u] /\ pc[u].buf \in held(u)
    BY <1>1, <1>7 DEF Carried, held
  <2>2. pc[u].buf # b
    BY <1>8, <2>1 DEF Disjoint
  <2> QED BY <1>3, <2>1, <2>2
<1>11. Handed' /\ CountsExact'
  BY <1>1, <1>9, CountsKept DEF segments
<1>12. Behind'
  <2>1. \A u \in Threads : Passed(u)' <=> Passed(u)
    BY <1>1 DEF Passed, Stored, table
  <2> QED BY <1>1, <2>1 DEF Behind, Pushing
<1> QED BY <1>4, <1>5, <1>6, <1>9, <1>10, <1>11, <1>12

\* putitem begins: the thread no longer uses the buffer, and looks at nomoremalloc.
LEMMA PutitemStep == ASSUME Assumptions, Books, NEW t \in Threads, Putitem(t) PROVE Books'
<1> USE DEF Assumptions, SlabAssumption, Books
<1>1. /\ pc[t] = Idle
      /\ UNCHANGED <<segments, table, leak, lastqueue, lock, nomoremalloc, gets, late>>
  BY DEF Putitem
<1>2. PICK b \in used[t] :
        /\ used' = [used EXCEPT ![t] = @ \ {b}]
        /\ pc' = [pc EXCEPT ![t] = [at |-> IF nomoremalloc THEN "reclaim" ELSE "search", buf |-> b]]
  BY DEF Putitem
<1> DEFINE p == [at |-> IF nomoremalloc THEN "reclaim" ELSE "search", buf |-> b]
<1>3. b \in Buffer
  BY DEF Typed
<1>4. /\ p \in Putting /\ p.buf = b
      /\ (nomoremalloc => p.at = "reclaim")
      /\ (~nomoremalloc => p.at = "search")
  BY <1>3 DEF Putting
<1>5. MovesTo(t, p)
  BY <1>2 DEF MovesTo
<1> HIDE DEF p
<1>6. /\ pc'[t] = p /\ \A u \in Threads : u # t => pc'[u] = pc[u]
      /\ pc' \in [Threads -> {Idle} \cup Polling \cup Putting \cup Draining \cup Returning]
      /\ \A u \in Threads \ {Owner} : pc'[u] \in {Idle} \cup Putting
  BY <1>4, <1>5, Moved DEF Place
<1>7. /\ used' \in [Threads -> SUBSET Buffer] /\ used'[t] = used[t] \ {b}
      /\ \A u \in Threads : u # t => used'[u] = used[u]
  BY <1>2 DEF Typed
<1>8. Typed'
  BY <1>1, <1>6, <1>7 DEF Typed, segments, table
<1>9. Idle.at = "idle" /\ p \notin Polling \cup Draining \cup Returning /\ "i" \notin DOMAIN Idle
      /\ "buf" \notin DOMAIN Idle /\ "buf" \in DOMAIN p /\ "i" \notin DOMAIN p
  BY <1>4 DEF Idle, Putting, Polling, Draining, Returning
<1>10. /\ nomoremalloc => pc'[t].at = "reclaim"
       /\ ~nomoremalloc => pc'[t].at = "search"
  BY <1>4, <1>6 DEF p
<1>11. Phases'
  <2>1. pc'[Owner] \in Polling \cup Draining \cup Returning => pc'[Owner] = pc[Owner]
    BY <1>6, <1>9
  <2>2. \A u \in Threads : pc'[u].at \in {"reclaim", "count"} => nomoremalloc
    BY <1>6, <1>10 DEF Phases
  <2>3. nomoremalloc => \A u \in Threads : Pushing(u)' => Pushing(u)
    BY <1>6, <1>10 DEF Pushing
  <2> QED BY <1>1, <2>1, <2>2, <2>3 DEF Phases, segments
<1>12. Entries'
  <2>1. \A u \in Threads, x \in {"size", "store", "count", "push"} : pc'[u].at = x <=> pc[u].at = x
    <3>1. pc'[t].at \notin {"size", "store", "count", "push"} /\ pc[t].at \notin {"size", "store", "count", "push"}
      BY <1>1, <1>9, <1>10
    <3> QED BY <1>6, <3>1
  <2> QED BY <1>1, <2>1 DEF Entries, InTable, Stored, table
<1>13. \A u \in Threads : held(u)' = held(u)
  BY <1>1, <1>4, <1>6, <1>7, <1>9 DEF held
<1>14. Disjoint' /\ Out' = Out
  BY <1>1, <1>13, KeepAll DEF Queues, Typed
<1>15. Carried'
  BY <1>4, <1>6, <1>7 DEF Carried
<1>16. Handed' /\ CountsExact'
  BY <1>1, <1>14, CountsKept DEF segments
<1>17. Behind'
  <2>1. CASE nomoremalloc
    <3>1. \A u \in Threads : Passed(u)' <=> Passed(u)
      BY <1>1, <1>6, <1>9 DEF Passed, Stored, table
    <3>2. \A u \in Threads : Pushing(u)' <=> Pushing(u)
      BY <1>1, <1>6, <1>9, <1>10, <2>1 DEF Pushing
    <3> QED BY <1>1, <3>1, <3>2 DEF Behind
  <2>2. CASE ~nomoremalloc
    BY <1>1, <2>2 DEF Behind
  <2> QED BY <2>1, <2>2
<1> QED BY <1>8, <1>11, <1>12, <1>14, <1>15, <1>16, <1>17

\* searchfb: who finds its entry in the table pushes, the others register.
LEMMA SearchStep == ASSUME Assumptions, Books, NEW t \in Threads, Search(t) PROVE Books'
<1> USE DEF Assumptions, SlabAssumption, Books
<1>1. /\ pc[t].at = "search"
      /\ UNCHANGED <<segments, table, leak, lastqueue, lock, nomoremalloc, used, gets, late>>
  BY DEF Search
<1>2. PICK x \in {"push", "register"} : Goto(t, x) /\ (x = "push" => InTable(t))
  BY DEF Search
<1>3. pc[t] \in Putting
  BY <1>1, Threading, Places
<1>4. /\ pc' \in [Threads -> {Idle} \cup Polling \cup Putting \cup Draining \cup Returning]
      /\ \A u \in Threads \ {Owner} : pc'[u] \in {Idle} \cup Putting
      /\ pc'[t].at = x /\ \A u \in Threads : u # t => pc'[u] = pc[u]
      /\ \A u \in Threads : held(u)' = held(u)
      /\ Carried'
      /\ pc'[Owner] \in Polling <=> pc[Owner] \in Polling
      /\ pc'[Owner] \in Draining \cup Returning <=> pc[Owner] \in Draining \cup Returning
      /\ \A u \in Threads : Passed(u) <=> ("i" \in DOMAIN pc'[Owner] =>
                                              \A j \in pc'[Owner].i .. fb_size : Stored(j) => fb[j] # u)
  BY <1>1, <1>2, <1>3, Went
<1>5. Typed'
  BY <1>1, <1>4 DEF Typed, segments, table
<1>6. \A u \in Threads : Pushing(u)' <=> Pushing(u)
  BY <1>1, <1>2, <1>4 DEF Pushing
<1>7. Phases'
  <2>1. \A u \in Threads : pc'[u].at \in {"reclaim", "count"} => pc[u].at \in {"reclaim", "count"}
    BY <1>4
  <2> QED BY <1>1, <1>4, <1>6, <2>1 DEF Phases, segments
<1>8. Entries'
  <2>1. \A u \in Threads, y \in {"size", "store", "count"} : pc'[u].at = y <=> pc[u].at = y
    BY <1>1, <1>4
  <2>2. \A u \in Threads : InTable(u)' <=> InTable(u)
    BY <1>1 DEF InTable, Stored, table
  <2>3. \A u \in Threads : pc'[u].at = "push" => InTable(u)
    BY <1>2, <1>4 DEF Entries
  <2> QED BY <1>1, <2>1, <2>2, <2>3 DEF Entries, table
<1>9. Disjoint' /\ Out' = Out
  BY <1>1, <1>4, KeepAll DEF Queues, Typed
<1>10. Handed' /\ CountsExact'
  BY <1>1, <1>9, CountsKept DEF segments
<1>11. Behind'
  <2>1. \A u \in Threads : Passed(u)' <=> Passed(u)
    BY <1>1, <1>4 DEF Passed, Stored, table
  <2> QED BY <1>1, <1>6, <2>1 DEF Behind
<1> QED BY <1>4, <1>5, <1>7, <1>8, <1>9, <1>10, <1>11

\* The walk begins at the first entry.
LEMMA Placed ==
  ASSUME NEW p \in Place, p \notin Polling, "i" \in DOMAIN p
  PROVE  p.i \in Nat \ {0}
BY DEF Place, Idle, Polling, Putting, Draining, Returning

\* A longer table, in its entries or in its size, keeps whom it names; who is behind
\* the owner's walk then was behind it before.
LEMMA TableGrows ==
  ASSUME Typed, fb_size' \in {fb_size, fb_size + 1},
         \/ fb' = fb
         \/ \E t \in Threads : fb' = Append(fb, t)
  PROVE  /\ fb' \in Seq(Threads) /\ fb_size' \in Nat \ {0} /\ Len(fb) \in Nat
         /\ Len(fb') = Len(fb) \/ Len(fb') = Len(fb) + 1
         /\ \A t \in Threads : fb' = Append(fb, t) => Len(fb') = Len(fb) + 1 /\ fb'[Len(fb) + 1] = t
         /\ \A u \in Threads : InTable(u) => InTable(u)'
         /\ \A u \in Threads : \A i \in Nat \ {0} :
              (\A j \in i .. fb_size' : Stored(j)' => fb'[j] # u)
                => (\A j \in i .. fb_size : Stored(j) => fb[j] # u)
<1>1. /\ fb' \in Seq(Threads) /\ fb_size \in Nat \ {0} /\ fb_size' \in Nat \ {0} /\ Len(fb) \in Nat
      /\ fb' = fb \/ Len(fb') = Len(fb) + 1
      /\ \A t \in Threads : fb' = Append(fb, t) => Len(fb') = Len(fb) + 1 /\ fb'[Len(fb) + 1] = t
      /\ \A j \in 1 .. Len(fb) : fb'[j] = fb[j]
  <2>1. fb \in Seq(Threads) /\ fb_size \in Nat \ {0} /\ Len(fb) \in Nat /\ fb_size' \in Nat \ {0}
    BY LenProperties DEF Typed
  <2>2. \A t \in Threads : /\ Append(fb, t) \in Seq(Threads) /\ Len(Append(fb, t)) = Len(fb) + 1
                           /\ Append(fb, t)[Len(fb) + 1] = t
                           /\ \A j \in 1 .. Len(fb) : Append(fb, t)[j] = fb[j]
    BY <2>1
  <2>3. CASE fb' = fb
    <3>1. Len(fb) # Len(fb) + 1
      BY <2>1
    <3>2. \A t \in Threads : fb' # Append(fb, t)
      BY <2>2, <2>3, <3>1
    <3> QED BY <2>1, <2>3, <3>2
  <2>4. CASE \E t \in Threads : fb' = Append(fb, t)
    BY <2>1, <2>2, <2>4
  <2> QED BY <2>3, <2>4
<1>2. \A j \in Nat \ {0} : Stored(j) => Stored(j)' /\ fb'[j] = fb[j]
  BY <1>1 DEF Stored
<1>3. \A i \in Nat \ {0} : \A j \in i .. fb_size : j \in Nat \ {0} /\ j \in i .. fb_size'
  BY <1>1
<1>4. \A u \in Threads : InTable(u) => InTable(u)'
  BY <1>2, <1>3 DEF InTable
<1> QED BY <1>1, <1>2, <1>3, <1>4

\* register4free under the lock: the size or the entry, one without the other.
LEMMA RegisterStep == ASSUME Assumptions, Books, NEW t \in Threads, Register(t) PROVE Books'
<1> USE DEF Assumptions, SlabAssumption, NobodyAssumption, Books
<1>1. /\ pc[t].at = "register" /\ lock = Nobody /\ lock' = t
      /\ UNCHANGED <<segments, leak, lastqueue, nomoremalloc, used, gets, late>>
  BY DEF Register
<1>2. PICK x \in {"store", "size"} :
        /\ Goto(t, x)
        /\ x = "store" => fb_size' = fb_size + 1 /\ fb' = fb
        /\ x = "size" => fb' = Append(fb, t) /\ fb_size' = fb_size
  BY DEF Register
<1>3. pc[t] \in Putting
  BY <1>1, Threading, Places
<1>4. /\ pc' \in [Threads -> {Idle} \cup Polling \cup Putting \cup Draining \cup Returning]
      /\ \A u \in Threads \ {Owner} : pc'[u] \in {Idle} \cup Putting
      /\ pc'[t].at = x /\ \A u \in Threads : u # t => pc'[u] = pc[u]
      /\ \A u \in Threads : held(u)' = held(u)
      /\ Carried'
      /\ pc'[Owner] \in Polling <=> pc[Owner] \in Polling
      /\ pc'[Owner] \in Draining \cup Returning <=> pc[Owner] \in Draining \cup Returning
      /\ \A u \in Threads : Passed(u) <=> ("i" \in DOMAIN pc'[Owner] =>
                              \A j \in pc'[Owner].i .. fb_size : Stored(j) => fb[j] # u)
  BY <1>1, <1>2, <1>3, Went
<1>5. /\ fb' \in Seq(Threads) /\ fb_size' \in Nat \ {0} /\ Len(fb) \in Nat
      /\ x = "size" => Len(fb') = Len(fb) + 1 /\ fb'[Len(fb) + 1] = t
      /\ \A u \in Threads : InTable(u) => InTable(u)'
      /\ \A u \in Threads : \A i \in Nat \ {0} :
           (\A j \in i .. fb_size' : Stored(j)' => fb'[j] # u)
             => (\A j \in i .. fb_size : Stored(j) => fb[j] # u)
  BY <1>2, TableGrows
<1>6. (\A u \in Threads : pc[u].at \notin {"size", "store", "count"}) /\ Len(fb) = fb_size
  BY <1>1 DEF Entries
<1>7. Typed'
  BY <1>1, <1>4, <1>5 DEF Typed, segments
<1>8. \A u \in Threads : Pushing(u)' <=> Pushing(u)
  BY <1>1, <1>4 DEF Pushing
<1>9. Phases'
  <2>1. \A u \in Threads : pc'[u].at \in {"reclaim", "count"} => pc[u].at \in {"reclaim", "count"}
    BY <1>4
  <2> QED BY <1>1, <1>4, <1>8, <2>1 DEF Phases, segments
<1>10. Entries'
  <2>1. \A u \in Threads : pc'[u].at \in {"size", "store", "count"} <=> u = t
    BY <1>4, <1>6
  <2>2. \A u \in Threads : pc'[u].at = "push" \/ leak'[u] # <<>> => InTable(u)'
    BY <1>1, <1>4, <1>5 DEF Entries
  <2>3. \A u \in Threads : lock' = u <=> pc'[u].at \in {"size", "store", "count"}
    BY <1>1, <2>1
  <2>4. \A u \in Threads : pc'[u].at = "size" => Len(fb') = fb_size' + 1 /\ fb'[fb_size' + 1] = u
    BY <1>2, <1>4, <1>5, <1>6, <2>1
  <2>5. \A u \in Threads : pc'[u].at = "store" => fb_size' = Len(fb') + 1
    BY <1>2, <1>4, <1>6, <2>1
  <2> QED BY <1>4, <2>2, <2>3, <2>4, <2>5 DEF Entries
<1>11. Disjoint' /\ Out' = Out
  BY <1>1, <1>4, KeepAll DEF Queues, Typed
<1>12. Handed' /\ CountsExact'
  BY <1>1, <1>11, CountsKept DEF segments
<1>13. Behind'
  <2> SUFFICES ASSUME nomoremalloc PROVE Behind'
    BY <1>1 DEF Behind
  <2>1. "i" \in DOMAIN pc'[Owner] => pc'[Owner].i \in Nat \ {0}
    BY <1>1, <1>7, <1>9, ThreadingNext, Placed DEF Phases
  <2>2. \A u \in Threads : Passed(u)' => Passed(u)
    BY <1>4, <1>5, <2>1 DEF Passed
  <2> QED BY <1>1, <1>8, <2>2 DEF Behind
<1> QED BY <1>4, <1>7, <1>9, <1>10, <1>11, <1>12, <1>13

\* register4free: what was still to come, the entry or the size, and the lock is free.
LEMMA RegisterEnds ==
  ASSUME Assumptions, Books, NEW t \in Threads, Store(t) \/ Size(t) PROVE Books'
<1> USE DEF Assumptions, SlabAssumption, NobodyAssumption, Books
<1>1. /\ pc[t].at \in {"store", "size"} /\ lock' = Nobody /\ Goto(t, "push")
      /\ pc[t].at = "store" => fb' = Append(fb, t) /\ fb_size' = fb_size
      /\ pc[t].at = "size" => fb_size' = fb_size + 1 /\ fb' = fb
      /\ UNCHANGED <<segments, leak, lastqueue, nomoremalloc, used, gets, late>>
  BY DEF Store, Size
<1>2. pc[t] \in Putting
  BY <1>1, Threading, Places
<1>3. /\ pc' \in [Threads -> {Idle} \cup Polling \cup Putting \cup Draining \cup Returning]
      /\ \A u \in Threads \ {Owner} : pc'[u] \in {Idle} \cup Putting
      /\ pc'[t].at = "push" /\ \A u \in Threads : u # t => pc'[u] = pc[u]
      /\ \A u \in Threads : held(u)' = held(u)
      /\ Carried'
      /\ pc'[Owner] \in Polling <=> pc[Owner] \in Polling
      /\ pc'[Owner] \in Draining \cup Returning <=> pc[Owner] \in Draining \cup Returning
      /\ \A u \in Threads : Passed(u) <=> ("i" \in DOMAIN pc'[Owner] =>
                              \A j \in pc'[Owner].i .. fb_size : Stored(j) => fb[j] # u)
  BY <1>1, <1>2, Went
<1>4. /\ fb' \in Seq(Threads) /\ fb_size' \in Nat \ {0} /\ Len(fb) \in Nat
      /\ fb' = Append(fb, t) => Len(fb') = Len(fb) + 1 /\ fb'[Len(fb) + 1] = t
      /\ \A u \in Threads : InTable(u) => InTable(u)'
      /\ \A u \in Threads : \A i \in Nat \ {0} :
           (\A j \in i .. fb_size' : Stored(j)' => fb'[j] # u)
             => (\A j \in i .. fb_size : Stored(j) => fb[j] # u)
  BY <1>1, TableGrows
<1>5. /\ lock = t /\ \A u \in Threads : u # t => pc[u].at \notin {"size", "store", "count"}
      /\ pc[t].at = "size" => Len(fb) = fb_size + 1 /\ fb[fb_size + 1] = t
      /\ pc[t].at = "store" => fb_size = Len(fb) + 1
  BY <1>1 DEF Entries
<1>6. Len(fb') = fb_size' /\ fb'[fb_size'] = t
  <2>1. CASE pc[t].at = "store"
    BY <1>1, <1>4, <1>5, <2>1
  <2>2. CASE pc[t].at = "size"
    BY <1>1, <1>4, <1>5, <2>2
  <2> QED BY <1>1, <2>1, <2>2
<1>7. Typed'
  BY <1>1, <1>3, <1>4 DEF Typed, segments
<1>8. \A u \in Threads : Pushing(u)' <=> Pushing(u)
  BY <1>1, <1>3 DEF Pushing
<1>9. Phases'
  <2>1. \A u \in Threads : pc'[u].at \in {"reclaim", "count"} => pc[u].at \in {"reclaim", "count"}
    BY <1>3
  <2> QED BY <1>1, <1>3, <1>8, <2>1 DEF Phases, segments
<1>10. Entries'
  <2>1. \A u \in Threads : pc'[u].at \notin {"size", "store", "count"}
    BY <1>3, <1>5
  <2>2. InTable(t)'
    <3>1. fb_size' \in 1 .. fb_size' /\ fb_size' <= Len(fb')
      BY <1>4, <1>6
    <3> QED BY <1>6, <3>1 DEF InTable, Stored
  <2>3. \A u \in Threads : pc'[u].at = "push" \/ leak'[u] # <<>> => InTable(u)'
    BY <1>1, <1>3, <1>4, <2>2 DEF Entries
  <2>4. \A u \in Threads : lock' # u
    BY <1>1
  <2> QED BY <1>6, <2>1, <2>3, <2>4 DEF Entries
<1>11. Disjoint' /\ Out' = Out
  BY <1>1, <1>3, KeepAll DEF Queues, Typed
<1>12. Handed' /\ CountsExact'
  BY <1>1, <1>11, CountsKept DEF segments
<1>13. Behind'
  <2> SUFFICES ASSUME nomoremalloc PROVE Behind'
    BY <1>1 DEF Behind
  <2>1. "i" \in DOMAIN pc'[Owner] => pc'[Owner].i \in Nat \ {0}
    BY <1>1, <1>7, <1>9, ThreadingNext, Placed DEF Phases
  <2>2. \A u \in Threads : Passed(u)' => Passed(u)
    BY <1>3, <1>4, <2>1 DEF Passed
  <2> QED BY <1>1, <1>8, <2>2 DEF Behind
<1> QED BY <1>3, <1>7, <1>9, <1>10, <1>11, <1>12, <1>13

\* putitem ends: the buffer is in the queue of the thread.
LEMMA PushStep == ASSUME Assumptions, Books, NEW t \in Threads, Push(t) PROVE Books'
<1> USE DEF Assumptions, SlabAssumption, Books
<1> DEFINE b == pc[t].buf
<1>1. /\ pc[t].at = "push" /\ leak' = [leak EXCEPT ![t] = Append(@, b)] /\ MovesTo(t, Idle)
      /\ UNCHANGED <<segments, table, lastqueue, lock, nomoremalloc, used, gets, late>>
  BY DEF Push, MovesTo
<1>2. pc[t] \in Putting /\ b \in Buffer /\ "i" \notin DOMAIN pc[t] /\ "buf" \in DOMAIN pc[t]
      /\ held(t) = used[t] \cup {b}
  BY <1>1, Threading, Places
<1> HIDE DEF b
<1>3. /\ pc'[t] = Idle /\ \A u \in Threads : u # t => pc'[u] = pc[u]
      /\ pc' \in [Threads -> {Idle} \cup Polling \cup Putting \cup Draining \cup Returning]
      /\ \A u \in Threads \ {Owner} : pc'[u] \in {Idle} \cup Putting
  BY <1>1, Moved DEF Place
<1>4. /\ Idle.at = "idle" /\ Idle \notin Polling \cup Draining \cup Returning
      /\ "i" \notin DOMAIN Idle /\ "buf" \notin DOMAIN Idle
  BY DEF Idle, Polling, Draining, Returning
<1>5. /\ leak' \in [Threads -> Seq(Buffer)] /\ Len(leak'[t]) = Len(leak[t]) + 1
      /\ \A u \in Threads : u # t => leak'[u] = leak[u]
      /\ \A u \in Threads : Len(leak[u]) \in Nat
  BY <1>1, <1>2 DEF Typed
<1>6. Typed'
  BY <1>1, <1>3, <1>5 DEF Typed, segments, table
<1>7. Phases'
  <2>1. pc'[Owner] \in Polling \cup Draining \cup Returning => pc'[Owner] = pc[Owner]
    BY <1>3, <1>4
  <2>2. \A u \in Threads : pc'[u].at \in {"reclaim", "count"} => pc[u].at \in {"reclaim", "count"}
    BY <1>3, <1>4
  <2>3. \A u \in Threads : Pushing(u)' => Pushing(u)
    BY <1>3, <1>4 DEF Pushing
  <2> QED BY <1>1, <2>1, <2>2, <2>3 DEF Phases, segments
<1>8. Entries'
  <2>1. \A u \in Threads, y \in {"size", "store", "count"} : pc'[u].at = y <=> pc[u].at = y
    BY <1>1, <1>3, <1>4
  <2>2. \A u \in Threads : InTable(u)' <=> InTable(u)
    BY <1>1 DEF InTable, Stored, table
  <2>3. \A u \in Threads : pc'[u].at = "push" \/ leak'[u] # <<>> => InTable(u)
    BY <1>1, <1>3, <1>4, <1>5 DEF Entries
  <2> QED BY <1>1, <2>1, <2>2, <2>3 DEF Entries, table
<1>9. Disjoint' /\ Out' = Out
  <2>1. used' = used /\ b \notin used[t]
    BY <1>1, <1>2 DEF Carried, b
  <2>2. held(t)' = held(t) \ {b}
    BY <1>2, <1>3, <1>4, <2>1 DEF held
  <2>3. \A u \in Threads \ {t} : held(u)' = held(u)
    BY <1>3, <2>1 DEF held
  <2>4. b \in held(t)
    BY <1>2
  <2> QED BY <1>1, <1>2, <2>2, <2>3, <2>4, MovePush DEF Queues, Typed
<1>10. Carried'
  BY <1>1, <1>3, <1>4 DEF Carried
<1>11. Handed' /\ CountsExact'
  BY <1>1, <1>9, CountsKept DEF segments
<1>12. Behind'
  <2>1. \A u \in Threads : Passed(u)' <=> Passed(u)
    BY <1>1, <1>2, <1>3, <1>4 DEF Passed, Stored, table
  <2>2. /\ Pushing(t) /\ ~Pushing(t)'
        /\ \A u \in Threads : u # t => (Pushing(u)' <=> Pushing(u))
    BY <1>1, <1>3, <1>4 DEF Pushing
  <2> SUFFICES ASSUME nomoremalloc, NEW u \in Threads, Passed(u)
               PROVE  Len(leak'[u]) + (IF Pushing(u)' THEN 1 ELSE 0) <= (IF u \in late THEN 1 ELSE 0)
    BY <1>1, <2>1 DEF Behind
  <2>3. Len(leak[u]) + (IF Pushing(u) THEN 1 ELSE 0) <= (IF u \in late THEN 1 ELSE 0)
    BY DEF Behind
  <2>4. Len(leak'[u]) + (IF Pushing(u)' THEN 1 ELSE 0) = Len(leak[u]) + (IF Pushing(u) THEN 1 ELSE 0)
    <3>1. CASE u = t
      BY <1>5, <2>2, <3>1
    <3>2. CASE u # t
      BY <1>5, <2>2, <3>2
    <3> QED BY <3>1, <3>2
  <2> QED BY <2>3, <2>4
<1> QED BY <1>6, <1>7, <1>8, <1>9, <1>10, <1>11, <1>12

\* deregisterAllocator begins: who is inside putitem now is late.
LEMMA DeregisterStep == ASSUME Assumptions, Books, Deregister PROVE Books'
<1> USE DEF Assumptions, SlabAssumption, Books
<1> DEFINE p == [at |-> "drain", i |-> 1]
<1>1. /\ pc[Owner] = Idle /\ ~nomoremalloc /\ nomoremalloc' = TRUE /\ MovesTo(Owner, p)
      /\ late' = {t \in Threads : pc[t] # Idle}
      /\ UNCHANGED <<segments, table, leak, lastqueue, lock, used, gets>>
  BY DEF Deregister, MovesTo
<1>2. /\ p \in Draining /\ p.at = "drain" /\ p.i = 1 /\ p \notin Polling /\ "buf" \notin DOMAIN p
      /\ "i" \in DOMAIN p /\ Idle.at = "idle" /\ "buf" \notin DOMAIN Idle
  BY DEF Draining, Polling, Idle
<1> HIDE DEF p
<1>3. /\ pc'[Owner] = p /\ \A u \in Threads : u # Owner => pc'[u] = pc[u]
      /\ pc' \in [Threads -> {Idle} \cup Polling \cup Putting \cup Draining \cup Returning]
      /\ \A u \in Threads \ {Owner} : pc'[u] \in {Idle} \cup Putting
  BY <1>1, <1>2, Moved DEF Place
<1>4. Typed'
  BY <1>1, <1>3 DEF Typed, segments, table
<1>5. \A u \in Threads : Pushing(u)' => Pushing(u) /\ u \in late'
  BY <1>1, <1>2, <1>3 DEF Pushing
<1>6. Phases'
  BY <1>1, <1>2, <1>3, <1>5 DEF Phases
<1>7. Entries'
  <2>1. \A u \in Threads, x \in {"size", "store", "count", "push"} : pc'[u].at = x <=> pc[u].at = x
    BY <1>1, <1>2, <1>3
  <2> QED BY <1>1, <2>1 DEF Entries, InTable, Stored, table
<1>8. \A u \in Threads : held(u)' = held(u)
  BY <1>1, <1>2, <1>3 DEF held
<1>9. Disjoint' /\ Out' = Out
  BY <1>1, <1>8, KeepAll DEF Queues, Typed
<1>10. Carried'
  BY <1>1, <1>2, <1>3 DEF Carried
<1>11. Handed' /\ CountsExact'
  <2>1. HandedOut' = HandedOut /\ Segments' = Segments /\ seglist' = seglist
    BY <1>1 DEF HandedOut, Segments, FreshBuffers, segments
  <2>2. Handed'
    BY <1>1, <1>9, <2>1 DEF Handed
  <2>3. HandedOut \subseteq Out
    BY <1>1 DEF Handed
  <2>4. \A s : ~(Row(s) \cap HandedOut # {} /\ Row(s) \cap Out = {})
    BY <2>3
  <2>5. CountsExact'
    BY <1>9, <2>1, <2>4, Counts, CountsNext
  <2> QED BY <2>2, <2>5
<1>12. Behind'
  <2> SUFFICES ASSUME NEW u \in Threads, Passed(u)'
               PROVE  Len(leak'[u]) + (IF Pushing(u)' THEN 1 ELSE 0) <= (IF u \in late' THEN 1 ELSE 0)
    BY DEF Behind
  <2>1. ~InTable(u)
    BY <1>1, <1>2, <1>3 DEF Passed, InTable, Stored, table
  <2>2. leak'[u] = <<>>
    BY <1>1, <2>1 DEF Entries
  <2>3. Len(<<>>) = 0
    OBVIOUS
  <2> QED BY <1>5, <2>2, <2>3
<1> QED BY <1>4, <1>6, <1>7, <1>9, <1>10, <1>11, <1>12

\* deregisterAllocator: one queue, its first buffer or the next queue.
LEMMA DrainStep == ASSUME Assumptions, Books, Drain PROVE Books'
<1> USE DEF Assumptions, SlabAssumption, Books
<1> DEFINE i == pc[Owner].i
           t == fb[i]
<1>1. /\ pc[Owner] \in Draining /\ i \in Nat \ {0} /\ i <= fb_size /\ pc[Owner].at = "drain"
      /\ "i" \in DOMAIN pc[Owner] /\ "buf" \notin DOMAIN pc[Owner] /\ nomoremalloc
  BY Threading, Places DEF Drain, Draining, Phases
<1>2. t \in Threads
  BY <1>1, TableNames DEF Drain
<1>3. /\ UNCHANGED <<segments, table, lastqueue, lock, nomoremalloc, used, gets, late>>
      /\ \/ leak[t] = <<>> /\ pc' = [pc EXCEPT ![Owner].i = @ + 1] /\ UNCHANGED leak
         \/ /\ leak[t] # <<>> /\ leak' = [leak EXCEPT ![t] = Tail(@)]
            /\ pc' = [pc EXCEPT ![Owner] = [at |-> "reclaim", i |-> @.i, buf |-> Head(leak[t])]]
  BY DEF Drain
<1>4. CASE leak[t] = <<>> /\ pc' = [pc EXCEPT ![Owner].i = @ + 1] /\ UNCHANGED leak
  <2> DEFINE p == [pc[Owner] EXCEPT !.i = @ + 1]
  <2>1. MovesTo(Owner, p)
    BY <1>4 DEF MovesTo
  <2>2. /\ p \in Draining /\ p.at = "drain" /\ p.i = i + 1 /\ p \notin Polling
        /\ "i" \in DOMAIN p /\ "buf" \notin DOMAIN p
    BY <1>1 DEF Draining, Polling
  <2> HIDE DEF p
  <2>3. /\ pc'[Owner] = p /\ \A u \in Threads : u # Owner => pc'[u] = pc[u]
        /\ pc' \in [Threads -> {Idle} \cup Polling \cup Putting \cup Draining \cup Returning]
        /\ \A u \in Threads \ {Owner} : pc'[u] \in {Idle} \cup Putting
    BY <2>1, <2>2, Moved DEF Place
  <2>4. Typed'
    BY <1>3, <1>4, <2>3 DEF Typed, segments, table
  <2>5. \A u \in Threads : pc'[u].at = pc[u].at
    BY <1>1, <2>2, <2>3
  <2>6. Phases'
    BY <1>1, <1>3, <2>2, <2>3, <2>5 DEF Phases, Pushing, segments
  <2>7. Entries'
    BY <1>3, <1>4, <2>5 DEF Entries, InTable, Stored, table
  <2>8. \A u \in Threads : held(u)' = held(u)
    BY <1>1, <1>3, <2>2, <2>3 DEF held
  <2>9. Disjoint' /\ Out' = Out
    BY <1>4, <2>8, KeepAll DEF Queues, Typed
  <2>10. Handed' /\ CountsExact'
    BY <1>3, <2>9, CountsKept DEF segments
  <2>11. Carried'
    BY <1>3, <2>2, <2>3 DEF Carried
  <2>12. Behind'
    <3> SUFFICES ASSUME NEW u \in Threads, Passed(u)'
                 PROVE  Len(leak[u]) + (IF Pushing(u) THEN 1 ELSE 0) <= (IF u \in late THEN 1 ELSE 0)
      <4>1. \A u \in Threads : Pushing(u)' <=> Pushing(u)
        BY <2>5 DEF Pushing
      <4> QED BY <1>3, <1>4, <4>1 DEF Behind
    <3>1. \A j \in i + 1 .. fb_size : Stored(j) => fb[j] # u
      BY <1>3, <2>2, <2>3 DEF Passed, Stored, table
    <3>2. CASE u = t
      <4>1. leak[u] = <<>> /\ Len(<<>>) = 0
        BY <1>4, <3>2
      <4>2. Pushing(u) => u \in late
        BY <1>1 DEF Phases
      <4> QED BY <4>1, <4>2
    <3>3. CASE u # t
      <4>1. fb_size \in Nat
        BY DEF Typed
      <4>2. \A j \in i .. fb_size : j = i \/ j \in i + 1 .. fb_size
        BY <1>1, <4>1
      <4>3. Passed(u)
        BY <3>1, <3>3, <4>2 DEF Passed, Stored
      <4> QED BY <1>1, <4>3 DEF Behind
    <3> QED BY <3>2, <3>3
  <2> QED BY <2>4, <2>6, <2>7, <2>9, <2>10, <2>11, <2>12
<1>5. CASE /\ leak[t] # <<>> /\ leak' = [leak EXCEPT ![t] = Tail(@)]
           /\ pc' = [pc EXCEPT ![Owner] = [at |-> "reclaim", i |-> @.i, buf |-> Head(leak[t])]]
  <2> DEFINE b == Head(leak[t])
             p == [at |-> "reclaim", i |-> i, buf |-> b]
  <2>1. /\ b \in Buffer /\ leak' \in [Threads -> Seq(Buffer)]
        /\ Len(leak'[t]) = Len(leak[t]) - 1 /\ \A u \in Threads : u # t => leak'[u] = leak[u]
        /\ \A u \in Threads : Len(leak[u]) \in Nat
    BY <1>2, <1>5, SMTT(30) DEF Typed
  <2>2. MovesTo(Owner, p)
    BY <1>5 DEF MovesTo
  <2>3. /\ p \in Returning /\ p.at = "reclaim" /\ p.i = i /\ p \notin Polling
        /\ "i" \in DOMAIN p /\ "buf" \in DOMAIN p /\ p.buf = b
    BY <1>1, <2>1 DEF Returning, Polling
  <2> HIDE DEF p
  <2>4. /\ pc'[Owner] = p /\ \A u \in Threads : u # Owner => pc'[u] = pc[u]
        /\ pc' \in [Threads -> {Idle} \cup Polling \cup Putting \cup Draining \cup Returning]
        /\ \A u \in Threads \ {Owner} : pc'[u] \in {Idle} \cup Putting
    BY <2>2, <2>3, Moved DEF Place
  <2>5. Typed'
    BY <1>3, <2>1, <2>4 DEF Typed, segments, table
  <2>6. \A u \in Threads, y \in {"search", "register", "size", "store", "push", "count"} :
          pc'[u].at = y <=> pc[u].at = y
    BY <1>1, <2>3, <2>4
  <2>7. \A u \in Threads : Pushing(u)' <=> Pushing(u)
    BY <2>6 DEF Pushing
  <2>8. Phases'
    BY <1>1, <1>3, <2>3, <2>4, <2>7 DEF Phases
  <2>9. Entries'
    <3>1. \A u \in Threads : leak'[u] # <<>> => leak[u] # <<>>
      BY <1>5, <2>1
    <3> QED BY <1>3, <2>6, <3>1 DEF Entries, InTable, Stored, table
  <2>10. Disjoint' /\ Out' = Out
    <3>1. held(Owner)' = held(Owner) \cup {b}
      BY <1>1, <1>3, <2>3, <2>4 DEF held
    <3>2. \A u \in Threads \ {Owner} : held(u)' = held(u)
      BY <1>3, <2>4 DEF held
    <3> QED BY <1>2, <1>5, <3>1, <3>2, MovePop DEF Queues, Typed
  <2>11. b \notin used[Owner]
    <3>1. held(Owner) = used[Owner]
      BY <1>1 DEF held
    <3>2. 1 \in 1 .. Len(leak[t]) /\ leak[t][1] = b
      BY <1>2, <1>5 DEF Typed
    <3> QED BY <1>2, <3>1, <3>2 DEF Disjoint
  <2>12. Carried'
    BY <1>3, <2>3, <2>4, <2>11 DEF Carried
  <2>13. Handed' /\ CountsExact'
    BY <1>3, <2>10, CountsKept DEF segments
  <2>14. Behind'
    <3>1. \A u \in Threads : Passed(u)' <=> Passed(u)
      BY <1>1, <1>3, <2>3, <2>4 DEF Passed, Stored, table
    <3>2. \A u \in Threads : Len(leak'[u]) \in Nat /\ Len(leak'[u]) <= Len(leak[u])
      <4>1. \A u \in Threads : leak'[u] \in Seq(Buffer)
        BY <2>1
      <4>2. \A u \in Threads : Len(leak'[u]) \in Nat
        BY <4>1, LenProperties
      <4>3. Len(leak[t]) - 1 <= Len(leak[t])
        BY <1>2, <2>1
      <4> SUFFICES ASSUME NEW u \in Threads PROVE Len(leak'[u]) <= Len(leak[u])
        BY <4>2
      <4>4. CASE u = t
        BY <2>1, <4>3, <4>4
      <4>5. CASE u # t
        BY <2>1, <4>5
      <4> QED BY <4>4, <4>5
    <3> SUFFICES ASSUME NEW u \in Threads, Passed(u)
                 PROVE  Len(leak'[u]) + (IF Pushing(u) THEN 1 ELSE 0) <= (IF u \in late THEN 1 ELSE 0)
      BY <1>3, <2>7, <3>1 DEF Behind
    <3>3. Len(leak[u]) + (IF Pushing(u) THEN 1 ELSE 0) <= (IF u \in late THEN 1 ELSE 0)
      BY <1>1 DEF Behind
    <3> DEFINE l == Len(leak[u])
               m == Len(leak'[u])
               k == IF Pushing(u) THEN 1 ELSE 0
               c == IF u \in late THEN 1 ELSE 0
    <3>4. l \in Nat /\ m \in Nat /\ m <= l /\ k \in Nat /\ c \in Nat /\ l + k <= c
      <4>1. leak[u] \in Seq(Buffer)
        BY <1>1 DEF Typed
      <4>2. l \in Nat
        BY <4>1, LenProperties
      <4>3. k \in Nat /\ c \in Nat
        OBVIOUS
      <4>4. m \in Nat /\ m <= l
        BY <3>2
      <4>5. l + k <= c
        BY <3>3
      <4> HIDE DEF l, m, k, c
      <4> QED BY <4>2, <4>3, <4>4, <4>5
    <3> HIDE DEF l, m, k, c
    <3>5. m + k <= c
      BY <3>4
    <3> QED BY <3>5 DEF m, k, c
  <2> QED BY <2>5, <2>8, <2>9, <2>10, <2>12, <2>13, <2>14
<1> QED BY <1>3, <1>4, <1>5

\* deregisterAllocator ends: the walk has passed every entry.
LEMMA DrainedStep == ASSUME Assumptions, Books, Drained PROVE Books'
<1> USE DEF Assumptions, SlabAssumption, Books
<1>1. /\ pc[Owner] \in Draining /\ pc[Owner].i \in Nat /\ pc[Owner].i > fb_size /\ pc[Owner].at = "drain"
      /\ "buf" \notin DOMAIN pc[Owner] /\ nomoremalloc /\ MovesTo(Owner, Idle)
      /\ UNCHANGED <<segments, table, leak, lastqueue, lock, nomoremalloc, used, gets, late>>
  BY Threading, Places DEF Drained, Draining, Phases, MovesTo
<1>2. /\ pc'[Owner] = Idle /\ \A u \in Threads : u # Owner => pc'[u] = pc[u]
      /\ pc' \in [Threads -> {Idle} \cup Polling \cup Putting \cup Draining \cup Returning]
      /\ \A u \in Threads \ {Owner} : pc'[u] \in {Idle} \cup Putting
  BY <1>1, Moved DEF Place
<1>3. /\ Idle.at = "idle" /\ Idle \notin Polling \cup Draining \cup Returning /\ "buf" \notin DOMAIN Idle
  BY DEF Idle, Polling, Draining, Returning
<1>4. Typed'
  BY <1>1, <1>2 DEF Typed, segments, table
<1>5. \A u \in Threads, y \in {"search", "register", "size", "store", "push", "reclaim", "count"} :
        pc'[u].at = y <=> pc[u].at = y
  BY <1>1, <1>2, <1>3
<1>6. \A u \in Threads : Pushing(u)' <=> Pushing(u)
  BY <1>5 DEF Pushing
<1>7. Phases'
  BY <1>1, <1>2, <1>3, <1>6 DEF Phases
<1>8. Entries'
  BY <1>1, <1>5 DEF Entries, InTable, Stored, table
<1>9. \A u \in Threads : held(u)' = held(u)
  BY <1>1, <1>2, <1>3 DEF held
<1>10. Disjoint' /\ Out' = Out
  BY <1>1, <1>9, KeepAll DEF Queues, Typed
<1>11. Handed' /\ CountsExact'
  BY <1>1, <1>10, CountsKept DEF segments
<1>12. Carried'
  BY <1>1, <1>2, <1>3 DEF Carried
<1>13. Behind'
  <2>1. \A u \in Threads : Passed(u)
    <3>1. fb_size \in Nat
      BY DEF Typed
    <3> QED BY <1>1, <3>1 DEF Passed, Stored
  <2> QED BY <1>1, <1>6, <2>1 DEF Behind
<1> QED BY <1>4, <1>7, <1>8, <1>10, <1>11, <1>12, <1>13

\* checkReclaim waits for the lock.
LEMMA LockStep == ASSUME Assumptions, Books, NEW t \in Threads, Lock(t) PROVE Books'
<1> USE DEF Assumptions, SlabAssumption, NobodyAssumption, Books
<1>1. /\ pc[t].at = "reclaim" /\ lock = Nobody /\ lock' = t /\ Goto(t, "count")
      /\ UNCHANGED <<segments, table, leak, lastqueue, nomoremalloc, used, gets, late>>
  BY DEF Lock
<1>2. pc[t] \in Putting \cup Returning
  BY <1>1, Threading, Places
<1>3. /\ pc' \in [Threads -> {Idle} \cup Polling \cup Putting \cup Draining \cup Returning]
      /\ \A u \in Threads \ {Owner} : pc'[u] \in {Idle} \cup Putting
      /\ pc'[t].at = "count" /\ \A u \in Threads : u # t => pc'[u] = pc[u]
      /\ \A u \in Threads : held(u)' = held(u)
      /\ Carried'
      /\ pc'[Owner] \in Polling <=> pc[Owner] \in Polling
      /\ pc'[Owner] \in Draining \cup Returning <=> pc[Owner] \in Draining \cup Returning
      /\ \A u \in Threads : Passed(u) <=> ("i" \in DOMAIN pc'[Owner] =>
                                              \A j \in pc'[Owner].i .. fb_size : Stored(j) => fb[j] # u)
  BY <1>1, <1>2, Went
<1>4. Typed'
  BY <1>1, <1>3 DEF Typed, segments, table
<1>5. \A u \in Threads : Pushing(u)' <=> Pushing(u)
  BY <1>1, <1>3 DEF Pushing
<1>6. Phases'
  <2>1. \A u \in Threads : pc'[u].at \in {"reclaim", "count"} => pc[u].at \in {"reclaim", "count"}
    BY <1>1, <1>3
  <2> QED BY <1>1, <1>3, <1>5, <2>1 DEF Phases, segments
<1>7. Entries'
  <2>1. \A u \in Threads : pc[u].at \notin {"size", "store", "count"}
    BY <1>1 DEF Entries
  <2>2. \A u \in Threads : pc'[u].at \in {"size", "store", "count"} <=> u = t
    BY <1>3, <2>1
  <2>3. \A u \in Threads : /\ pc'[u].at \notin {"size", "store"}
                           /\ pc'[u].at = "push" => pc[u].at = "push"
    BY <1>3, <2>1
  <2> QED BY <1>1, <2>1, <2>2, <2>3 DEF Entries, InTable, Stored, table
<1>8. Disjoint' /\ Out' = Out
  BY <1>1, <1>3, KeepAll DEF Queues, Typed
<1>9. Handed' /\ CountsExact'
  BY <1>1, <1>8, CountsKept DEF segments
<1>10. Behind'
  <2>1. \A u \in Threads : Passed(u)' <=> Passed(u)
    BY <1>1, <1>3 DEF Passed, Stored, table
  <2> QED BY <1>1, <1>5, <2>1 DEF Behind
<1> QED BY <1>3, <1>4, <1>6, <1>7, <1>8, <1>9, <1>10

\* checkReclaim counts the buffer and frees its segment with the last one.
LEMMA ReclaimStep == ASSUME Assumptions, Books, NEW t \in Threads, checkReclaim(t) PROVE Books'
<1> USE DEF Assumptions, SlabAssumption, NobodyAssumption, Books
<1> DEFINE b == pc[t].buf
           s == b[1]
           n == seglist[s].avail + 1
           x == [avail |-> n, freed |-> seglist[s].freed \/ n = nslabs]
           p == IF "i" \in DOMAIN pc[t] THEN [at |-> "drain", i |-> pc[t].i] ELSE Idle
<1>1. /\ pc[t].at = "count" /\ lock' = Nobody /\ MovesTo(t, p)
      /\ seglist' = [seglist EXCEPT ![s] = x]
      /\ UNCHANGED <<availbuffers, table, leak, lastqueue, nomoremalloc, used, gets, late>>
  BY DEF checkReclaim, MovesTo
<1>2. pc[t] \in Place /\ pc[t] \in Putting \cup Returning /\ b \in Buffer /\ nomoremalloc
      /\ held(t) = used[t] \cup {b} /\ "buf" \in DOMAIN pc[t]
  BY <1>1, Threading, Places DEF Phases
<1>3. /\ pc[t] \in Putting => p = Idle /\ "i" \notin DOMAIN pc[t]
      /\ pc[t] \in Returning => p \in Draining /\ p.i = pc[t].i /\ t = Owner /\ "i" \in DOMAIN pc[t]
  <2>1. \A y \in {Idle} \cup Putting : y \notin Returning
    BY DEF Idle, Putting, Returning
  <2>2. pc[t] \in Returning => t = Owner
    BY <2>1, Threading
  <2> QED BY <2>2 DEF Putting, Returning, Draining
<1>4. /\ p \in {Idle} \cup Draining /\ p.at \in {"idle", "drain"} /\ "buf" \notin DOMAIN p
      /\ p \notin Polling \cup Returning \cup Putting
  BY <1>2, <1>3 DEF Idle, Draining, Polling, Returning, Putting
<1> HIDE DEF p
<1>5. /\ pc'[t] = p /\ \A u \in Threads : u # t => pc'[u] = pc[u]
      /\ pc' \in [Threads -> {Idle} \cup Polling \cup Putting \cup Draining \cup Returning]
      /\ \A u \in Threads \ {Owner} : pc'[u] \in {Idle} \cup Putting
  BY <1>1, <1>2, <1>3, <1>4, Moved DEF Place
<1>6. b \notin used[t]
  <2>1. pc[t].at # "idle"
    BY <1>1
  <2> QED BY <1>2, <2>1 DEF Carried
<1>7. Disjoint' /\ Out' = Out \ {b} /\ b \in Out
  <2>1. held(t)' = held(t) \ {b} /\ b \in held(t)
    BY <1>1, <1>2, <1>4, <1>5, <1>6 DEF held
  <2>2. \A u \in Threads \ {t} : held(u)' = held(u)
    BY <1>1, <1>5 DEF held
  <2> QED BY <1>1, <2>1, <2>2, MoveBack DEF Queues, Typed
<1>8. Handed' /\ CountsExact' /\ s \in Segments
  BY <1>1, <1>2, <1>7, CountsBack
<1>9. seglist' \in Seq([avail : Int, freed : BOOLEAN]) /\ (seglist # <<>> => seglist' # <<>>)
  <2> DEFINE R == [avail : Int, freed : BOOLEAN]
  <2>1. seglist \in Seq(R) /\ s \in DOMAIN seglist
    BY <1>8 DEF Typed, Segments
  <2>2. seglist[s] \in R
    <3> HIDE DEF R, s
    <3> QED BY <2>1, OneEntry
  <2>3. x \in R
    BY <2>2
  <2> HIDE DEF R, x, s
  <2>4. seglist' \in Seq(R) /\ DOMAIN seglist' = DOMAIN seglist
    BY <1>1, <2>1, <2>3, OneEntry
  <2>5. DOMAIN <<>> = {}
    OBVIOUS
  <2> QED BY <2>1, <2>4, <2>5 DEF R
<1>10. Typed'
  BY <1>1, <1>5, <1>9 DEF Typed, table
<1>11. \A u \in Threads : Pushing(u)' <=> Pushing(u)
  BY <1>1, <1>4, <1>5 DEF Pushing
<1>12. Phases'
  <2>1. pc'[Owner] \notin Polling
    BY <1>2, <1>4, <1>5 DEF Phases
  <2> QED BY <1>1, <1>2, <1>11, <2>1 DEF Phases
<1>13. Entries'
  <2>1. \A u \in Threads : pc'[u].at \notin {"size", "store", "count"}
    BY <1>1, <1>4, <1>5 DEF Entries
  <2>2. \A u \in Threads : /\ pc[u].at \notin {"size", "store"}
                           /\ pc'[u].at = "push" => pc[u].at = "push"
    BY <1>1, <1>4, <1>5 DEF Entries
  <2> QED BY <1>1, <2>1, <2>2 DEF Entries, InTable, Stored, table
<1>14. Carried'
  BY <1>1, <1>4, <1>5 DEF Carried
<1>15. Behind'
  <2>1. \A u \in Threads : Passed(u)' <=> Passed(u)
    <3>1. t = Owner => ("i" \in DOMAIN p <=> "i" \in DOMAIN pc[t]) /\ ("i" \in DOMAIN p => p.i = pc[t].i)
      BY <1>2, <1>3 DEF Idle, Draining
    <3> QED BY <1>1, <1>5, <3>1 DEF Passed, Stored, table
  <2> QED BY <1>1, <1>11, <2>1 DEF Behind
<1> QED BY <1>7, <1>8, <1>10, <1>12, <1>13, <1>14, <1>15

-----------------------------------------------------------------------------
(* The invariant and the theorem *)

\* The invariant holds at the start.
LEMMA InitIInv == ASSUME Assumptions, Init PROVE IInv
<1> USE DEF Assumptions, SlabAssumption, NobodyAssumption, Init
<1>1. \A t \in Threads : pc[t] = Idle /\ leak[t] = <<>> /\ used[t] = {}
  OBVIOUS
<1>2. /\ Idle.at = "idle" /\ "buf" \notin DOMAIN Idle /\ "i" \notin DOMAIN Idle
      /\ Idle \notin Polling \cup Draining \cup Returning
  BY DEF Idle, Polling, Draining, Returning
<1>3. Len(<<>>) = 0 /\ Len(<<Owner>>) = 1 /\ <<Owner>>[1] = Owner
  OBVIOUS
<1>4. \A t \in Threads : held(t) = {}
  BY <1>1, <1>2 DEF held
<1>5. Queued = {}
  <2>1. \A t \in Threads : ToSet(leak[t]) = {}
    BY <1>1, <1>3 DEF ToSet
  <2> QED BY <2>1 DEF Queued
<1>6. Out = {}
  BY <1>4, <1>5 DEF Out
<1>7. \/ ~Prealloc /\ seglist = <<>> /\ availbuffers = 0
      \/ Prealloc /\ seglist = <<[avail |-> nslabs, freed |-> FALSE]>> /\ availbuffers = nslabs
  OBVIOUS
<1>8. Typed
  <2>1. [avail |-> nslabs, freed |-> FALSE] \in [avail : Int, freed : BOOLEAN]
    OBVIOUS
  <2>2. seglist \in Seq([avail : Int, freed : BOOLEAN]) /\ (availbuffers > 0 => seglist # <<>>)
    <3> DEFINE x == [avail |-> nslabs, freed |-> FALSE]
               R == [avail : Int, freed : BOOLEAN]
    <3>1. x \in R
      BY <2>1
    <3> HIDE DEF x, R
    <3>2. <<x>> \in Seq(R) /\ <<>> \in Seq(R) /\ <<x>> # <<>>
      BY <3>1
    <3>3. (seglist = <<>> /\ availbuffers = 0) \/ seglist = <<x>>
      BY <1>7 DEF x
    <3>4. CASE seglist = <<>> /\ availbuffers = 0
      BY <3>2, <3>4 DEF R
    <3>5. CASE seglist = <<x>>
      BY <3>2, <3>5 DEF R
    <3> QED BY <3>3, <3>4, <3>5
  <2>3. availbuffers \in 0 .. nslabs
    BY <1>7
  <2>4. leak \in [Threads -> Seq(Buffer)] /\ used \in [Threads -> SUBSET Buffer]
    <3>1. <<>> \in Seq(Buffer)
      OBVIOUS
    <3>2. leak = [t \in Threads |-> <<>>] /\ used = [t \in Threads |-> {}]
      OBVIOUS
    <3> HIDE DEF Init
    <3>3. leak \in [Threads -> Seq(Buffer)]
      BY <3>1, <3>2
    <3>4. used \in [Threads -> SUBSET Buffer]
      BY <3>2
    <3> QED BY <3>3, <3>4
  <2>5. /\ fb \in Seq(Threads) /\ fb_size \in Nat \ {0} /\ lastqueue \in Nat
        /\ nomoremalloc \in BOOLEAN
    <3>1. fb = <<Owner>> /\ fb_size = 1 /\ lastqueue = 0 /\ nomoremalloc = FALSE
      OBVIOUS
    <3>2. <<Owner>> \in Seq(Threads)
      OBVIOUS
    <3> HIDE DEF Init
    <3>3. fb \in Seq(Threads)
      <4> DEFINE o == <<Owner>>
      <4>1. fb = o /\ o \in Seq(Threads)
        BY <3>1, <3>2
      <4> HIDE DEF o
      <4> QED BY <4>1
    <3>4. fb_size \in Nat \ {0} /\ lastqueue \in Nat /\ nomoremalloc \in BOOLEAN
      <4>1. fb_size = 1 /\ lastqueue = 0
        BY <3>1
      <4>2. nomoremalloc = FALSE
        BY <3>1
      <4>3. nomoremalloc \in BOOLEAN
        BY <4>2, Zenon
      <4> QED BY <4>1, <4>3
    <3> QED BY <3>3, <3>4
  <2>6. /\ pc \in [Threads -> {Idle} \cup Polling \cup Putting \cup Draining \cup Returning]
        /\ \A t \in Threads \ {Owner} : pc[t] \in {Idle} \cup Putting
    OBVIOUS
  <2> HIDE DEF Init
  <2> QED BY <2>2, <2>3, <2>4, <2>5, <2>6 DEF Typed
<1>9. Phases
  BY <1>1, <1>2 DEF Phases
<1>10. Entries
  BY <1>1, <1>2, <1>3 DEF Entries
<1>11. Disjoint
  BY <1>1, <1>3, <1>4 DEF Disjoint
<1>12. Carried
  BY <1>1, <1>2 DEF Carried
<1>13. HandedOut = {}
  <2>1. CASE seglist = <<>>
    BY <2>1 DEF HandedOut, Segments
  <2>2. CASE seglist = <<[avail |-> nslabs, freed |-> FALSE]>> /\ availbuffers = nslabs
    <3>1. Len(seglist) = 1 /\ Segments = {1}
      BY <2>2 DEF Segments
    <3>2. FreshBuffers = {<<1, i>> : i \in 1 .. nslabs}
      BY <2>2, <3>1 DEF FreshBuffers
    <3> QED BY <3>1, <3>2 DEF HandedOut
  <2> QED BY <1>7, <2>1, <2>2
<1>14. \A s \in Segments : seglist[s].avail = nslabs /\ ~seglist[s].freed
  BY <1>7 DEF Segments
<1>15. Handed
  BY <1>6, <1>13, <1>14 DEF Handed
<1>16. CountsExact
  <2>1. \A s : Cardinality(Row(s) \cap Out) = 0
    BY <1>6, FS_EmptySet
  <2>2. nslabs - 0 = nslabs
    OBVIOUS
  <2> QED BY <1>6, <1>14, <2>1, <2>2, Counts
<1>17. Behind
  BY DEF Behind
<1>18. CrashesInRegister
  BY DEF CrashesInRegister
<1> QED BY <1>8, <1>9, <1>10, <1>11, <1>12, <1>15, <1>16, <1>17, <1>18 DEF IInv, Books

\* What the books say does not change with a step of nobody, or with a crash.
LEMMA SameBooks ==
  ASSUME Books, UNCHANGED <<segments, table, leak, lastqueue, lock, nomoremalloc, used, pc, gets, late>>
  PROVE  Books'
<1>1. /\ UNCHANGED <<seglist, availbuffers, fb, fb_size, leak, lastqueue, lock, nomoremalloc,
                     used, pc, gets, late>>
  BY DEF segments, table
<1>2. Typed' /\ Phases' /\ Carried'
  BY <1>1 DEF Books, Typed, Phases, Pushing, Carried
<1>3. Entries'
  <2>1. \A u \in Threads : InTable(u)' <=> InTable(u)
    BY <1>1 DEF InTable, Stored
  <2> QED BY <1>1, <2>1 DEF Books, Entries
<1>4. \A t \in Threads : held(t)' = held(t)
  BY <1>1 DEF held
<1>5. Disjoint' /\ Out' = Out
  BY <1>1, <1>4, KeepAll DEF Queues, Books, Typed
<1>6. Handed' /\ CountsExact'
  BY <1>1, <1>5, CountsKept DEF Books
<1>7. Behind'
  <2>1. \A u \in Threads : Passed(u)' <=> Passed(u)
    BY <1>1 DEF Passed, Stored
  <2>2. \A u \in Threads : Pushing(u)' <=> Pushing(u)
    BY <1>1 DEF Pushing
  <2> SUFFICES ASSUME nomoremalloc', NEW u \in Threads, Passed(u)'
               PROVE  Len(leak'[u]) + (IF Pushing(u)' THEN 1 ELSE 0) <= (IF u \in late' THEN 1 ELSE 0)
    BY DEF Behind
  <2>3. nomoremalloc
    BY <1>1
  <2>4. Passed(u)
    BY <2>1
  <2>5. Len(leak[u]) + (IF Pushing(u) THEN 1 ELSE 0) <= (IF u \in late THEN 1 ELSE 0)
    BY <2>3, <2>4 DEF Books, Behind
  <2> QED BY <1>1, <2>2, <2>5
<1> QED BY <1>2, <1>3, <1>5, <1>6, <1>7 DEF Books

\* An entry that counts is not stored: the one with the lock has raised the size first.
LEMMA UnsetEntry ==
  ASSUME Books, NEW j \in Nat \ {0}, j <= fb_size, ~Stored(j)
  PROVE  \E t \in Threads : lock = t /\ pc[t].at = "store"
<1>1. Len(fb) < fb_size /\ Len(fb) \in Nat /\ fb_size \in Nat
  BY TableNames DEF Books, Stored
<1>2. PICK t \in Threads : pc[t].at \in {"size", "store"}
  BY <1>1 DEF Books, Entries
<1>3. pc[t].at = "store"
  BY <1>1, <1>2 DEF Books, Entries
<1> QED BY <1>2, <1>3 DEF Books, Entries

\* Who follows an entry that was not stored does so while another registers.
LEMMA ReadUnsetStep ==
  ASSUME Assumptions, Books, NEW t \in Threads, ReadUnset(t) PROVE IInv'
<1>1. Books' /\ lock' = lock /\ pc' = pc
  BY SameBooks DEF ReadUnset
<1>2. fb_size \in Nat \ {0}
  BY TableNames DEF Books
<1>3. \E j \in Nat \ {0} : j <= fb_size /\ ~Stored(j)
  <2>1. CASE /\ t = Owner /\ pc[t].at = "poll"
             /\ ~Stored(1 + ((lastqueue + pc[t].i) % fb_size))
    <3>1. lastqueue + pc[t].i \in Nat
      <4>1. lastqueue \in Nat
        BY DEF Books, Typed
      <4>2. pc[t].i \in Nat
        BY <2>1, Threading, Places DEF Books
      <4> QED BY <4>1, <4>2
    <3>2. (lastqueue + pc[t].i) % fb_size \in 0 .. fb_size - 1
      BY <1>2, <3>1
    <3> QED BY <1>2, <2>1, <3>2
  <2>2. CASE t = Owner /\ pc[t].at = "drain" /\ pc[t].i <= fb_size /\ ~Stored(pc[t].i)
    <3>1. pc[t].i \in Nat \ {0}
      BY <2>2, Threading, Places DEF Books, Draining
    <3> QED BY <2>2, <3>1
  <2>3. CASE ~Stored(fb_size)
    BY <1>2, <2>3
  <2> QED BY <2>1, <2>2, <2>3 DEF ReadUnset
<1>4. CrashesInRegister'
  BY <1>1, <1>3, UnsetEntry DEF CrashesInRegister
<1> QED BY <1>1, <1>4 DEF IInv

\* Every step keeps the invariant.
LEMMA StepIInv == ASSUME Assumptions, IInv, [Next]_vars PROVE IInv'
<1>1. CASE UNCHANGED vars
  <2>1. UNCHANGED <<lock, pc, crashed>>
    BY <1>1 DEF vars
  <2>2. Books'
    BY <1>1, SameBooks DEF vars, IInv
  <2> QED BY <2>1, <2>2 DEF IInv, CrashesInRegister
<1>2. CASE ~crashed /\ Step
  <2>1. Books'
    BY <1>2, GetitemStep, PollStep, NewslabStep, HandStep, PutitemStep, SearchStep, RegisterStep,
       RegisterEnds, PushStep, DeregisterStep, DrainStep, DrainedStep, LockStep, ReclaimStep
       DEF Step, IInv
  <2>2. ~crashed'
    BY <1>2 DEF Step, Getitem, Poll, Newslab, Deregister, Drain, Drained, Hand, Putitem, Search,
       Register, Store, Size, Push, Lock, checkReclaim
  <2> QED BY <2>1, <2>2 DEF IInv, CrashesInRegister
<1>3. CASE \E t \in Threads : ReadUnset(t)
  BY <1>3, ReadUnsetStep DEF IInv
<1> QED BY <1>1, <1>2, <1>3 DEF Next

\* In every reachable state the invariant holds.
LEMMA Invariant == ASSUME Assumptions PROVE Spec => []IInv
<1>1. Init => IInv
  BY InitIInv
<1>2. IInv /\ [Next]_vars => IInv'
  BY StepIInv
<1> QED BY <1>1, <1>2, PTL DEF Spec

\* ff/allocator.hpp, for any threads the table has room for and any segments: until
\* somebody follows an entry of the table that is not stored, no buffer has two users, a
\* segment is freed when the last of its buffers is back and not before, and what stays
\* in the queues after deregisterAllocator are only buffers of threads that were inside
\* putitem then, at most one of each; and such an entry is followed only while another
\* thread is between the two stores of register4free (line 700).
THEOREM BuffersComeBack == ASSUME Assumptions PROVE Spec => []BuffersReturn
<1>1. ASSUME Books PROVE OneUser
  <2> USE <1>1 DEF Books
  <2>1. \A t \in Threads : leak[t] \in Seq(Buffer) /\ DOMAIN leak[t] = 1 .. Len(leak[t])
          /\ ToSet(leak[t]) = {leak[t][i] : i \in 1 .. Len(leak[t])}
    BY QueueSet DEF Typed
  <2>2. \A t, u \in Threads : t # u => /\ held(t) \cap held(u) = {}
                                       /\ ToSet(leak[t]) \cap ToSet(leak[u]) = {}
    <3> SUFFICES ASSUME NEW t \in Threads, NEW u \in Threads, t # u
                 PROVE  /\ held(t) \cap held(u) = {}
                        /\ ToSet(leak[t]) \cap ToSet(leak[u]) = {}
      OBVIOUS
    <3>1. Disjoint
      BY <1>1
    <3> HIDE DEF Books
    <3>2. held(t) \cap held(u) = {}
      BY <3>1 DEF Disjoint
    <3>3. ASSUME NEW b \in ToSet(leak[t]), b \in ToSet(leak[u]) PROVE FALSE
      <4>1. PICK i \in 1 .. Len(leak[t]) : b = leak[t][i]
        BY <2>1
      <4>2. PICK j \in 1 .. Len(leak[u]) : b = leak[u][j]
        BY <2>1, <3>3
      <4> QED BY <3>1, <4>1, <4>2 DEF Disjoint
    <3> QED BY <3>2, <3>3
  <2>3. \A t \in Threads : IsInjective(leak[t])
    BY <2>1 DEF Disjoint, IsInjective
  <2>4. \A t \in Threads : held(t) \cap Queued = {}
    BY <2>1 DEF Disjoint, Queued
  <2>5. Out \subseteq HandedOut
    BY DEF Handed
  <2> QED BY <2>2, <2>3, <2>4, <2>5 DEF OneUser
<1>2. ASSUME Assumptions, Books PROVE OnlyLateStay
  <2> SUFFICES ASSUME nomoremalloc, pc[Owner] = Idle, NEW t \in Threads
               PROVE  Len(leak[t]) <= (IF t \in late THEN 1 ELSE 0)
    BY DEF OnlyLateStay
  <2>1. Passed(t)
    BY DEF Passed, Stored, Idle
  <2>2. Len(leak[t]) \in Nat
    BY <1>2 DEF Books, Typed
  <2>3. Len(leak[t]) + (IF Pushing(t) THEN 1 ELSE 0) <= (IF t \in late THEN 1 ELSE 0)
    BY <1>2, <2>1 DEF Books, Behind
  <2> DEFINE l == Len(leak[t])
             k == IF Pushing(t) THEN 1 ELSE 0
             c == IF t \in late THEN 1 ELSE 0
  <2>4. l \in Nat /\ k \in Nat /\ c \in Nat
    BY <2>2
  <2>5. l + k <= c
    BY <2>3
  <2> HIDE DEF l, k, c
  <2>6. l <= c
    BY <2>4, <2>5
  <2> QED BY <2>6 DEF l, c
<1>3. ASSUME Assumptions, IInv PROVE BuffersReturn
  BY <1>1, <1>2, <1>3 DEF BuffersReturn, IInv, Books
<1> QED BY <1>3, Invariant, PTL
===============================================================================
