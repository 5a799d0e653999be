---------------------------- MODULE MBuffer_proofs ----------------------------
(***************************************************************************)
(* Proofs about mbuffer_t for any number of structs, control blocks and     *)
(* bytes.  BuffersSafe is inductive as it stands.                           *)
(***************************************************************************)
EXTENDS MBuffer, FiniteSetTheorems, TLAPS

\* What the proofs assume of the constants.
Assumptions == BoundAssumption /\ HandlesAssumption

-----------------------------------------------------------------------------
(* Counting structs *)

\* The structs that refer to a block, and those about to free it, can be counted.
LEMMA Countable ==
  ASSUME Assumptions, NEW b
  PROVE  /\ IsFiniteSet(Users(b)) /\ Cardinality(Users(b)) \in 0 .. Cardinality(Handles)
         /\ IsFiniteSet(Freeing(b)) /\ Cardinality(Freeing(b)) \in Nat
         /\ Cardinality(Users(b)) = 0 <=> Users(b) = {}
         /\ Cardinality(Freeing(b)) = 0 <=> Freeing(b) = {}
         /\ Cardinality(Handles) \in Nat
<1>1. Users(b) \in SUBSET Handles /\ Freeing(b) \in SUBSET Handles
  BY DEF Users, Freeing
<1>2. IsFiniteSet(Handles) /\ Cardinality(Handles) \in Nat
  BY FS_CardinalityType DEF Assumptions, HandlesAssumption
<1>3. IsFiniteSet(Users(b)) /\ Cardinality(Users(b)) <= Cardinality(Handles)
      /\ IsFiniteSet(Freeing(b))
  BY <1>1, <1>2, FS_Subset
<1> QED BY <1>2, <1>3, FS_CardinalityType, FS_EmptySet

\* The same after a step.
LEMMA CountableAfter ==
  ASSUME Assumptions, NEW b
  PROVE  /\ IsFiniteSet(Users(b)') /\ Cardinality(Users(b)') \in 0 .. Cardinality(Handles)
         /\ IsFiniteSet(Freeing(b)') /\ Cardinality(Freeing(b)') \in Nat
<1>1. Users(b)' \in SUBSET Handles /\ Freeing(b)' \in SUBSET Handles
  BY DEF Users, Freeing
<1>2. IsFiniteSet(Handles) /\ Cardinality(Handles) \in Nat
  BY FS_CardinalityType DEF Assumptions, HandlesAssumption
<1>3. IsFiniteSet(Users(b)') /\ Cardinality(Users(b)') <= Cardinality(Handles)
      /\ IsFiniteSet(Freeing(b)')
  BY <1>1, <1>2, FS_Subset
<1> QED BY <1>2, <1>3, FS_CardinalityType

\* A live struct is one of the users of its block, which is allocated, has no thread
\* about to free it and counts at least one.
LEMMA LiveIsUser ==
  ASSUME Assumptions, BuffersSafe, NEW m \in Handles, live(m)
  PROVE  /\ handle[m].mcb \in Blocks /\ handle[m] \in Handle /\ block(m).allocated
         /\ m \in Users(handle[m].mcb) /\ Freeing(handle[m].mcb) = {}
         /\ block(m).i = Cardinality(Users(handle[m].mcb)) /\ block(m).i > 0
<1>1. handle[m].mcb \in Blocks /\ handle[m] \in Handle
  BY DEF BuffersSafe, TypeOK, Handle
<1>2. block(m).allocated /\ m \in Users(handle[m].mcb)
  BY DEF BuffersSafe, InsideMemory, Users
<1>3. block(m).i = Cardinality(Users(handle[m].mcb)) /\ Cardinality(Freeing(handle[m].mcb)) = 0
  BY <1>1, <1>2 DEF BuffersSafe, FreedByTheLast, block
<1> QED BY <1>1, <1>2, <1>3, Countable

-----------------------------------------------------------------------------
(* The inductive invariant *)

\* A struct set up anew has a type.
LEMMA PieceType ==
  ASSUME Assumptions, NEW b \in Blocks, NEW off \in 0 .. MaxSize, NEW n \in 0 .. MaxSize
  PROVE  /\ Piece(b, off, n) \in Handle /\ Piece(b, off, n).at = "live"
         /\ Piece(b, off, n).mcb = b /\ Piece(b, off, n).off = off /\ Piece(b, off, n).n = n
<1>1. MaxSize \in Nat /\ Cardinality(Handles) \in Nat
  BY FS_CardinalityType DEF Assumptions, BoundAssumption, HandlesAssumption
<1> QED BY <1>1 DEF Piece, Handle

\* A struct without a buffer.
LEMMA NoBufferType ==
  ASSUME Assumptions
  PROVE  NoBuffer \in Handle /\ NoBuffer.at = "unused"
<1> DEFINE p == Piece(CHOOSE b \in Blocks : TRUE, 0, 0)
<1>1. (CHOOSE b \in Blocks : TRUE) \in Blocks /\ 0 \in 0 .. MaxSize
  BY DEF Assumptions, HandlesAssumption, BoundAssumption
<1>2. p \in Handle
  BY <1>1, PieceType
<1>3. NoBuffer = [p EXCEPT !.at = "unused"]
  BY DEF NoBuffer
<1> HIDE DEF p
<1> QED BY <1>2, <1>3 DEF Handle

\* At first there is no buffer.
LEMMA InitSafe == ASSUME Assumptions, Init PROVE BuffersSafe
<1>1. NoBuffer \in Handle /\ NoBuffer.at = "unused"
  BY NoBufferType
<1>2. Cardinality(Handles) \in Nat
  BY FS_CardinalityType DEF Assumptions, HandlesAssumption
<1>3. TypeOK
  BY <1>1, <1>2 DEF Init, TypeOK, NotAllocated, Assumptions, BoundAssumption
<1>4. \A b \in Blocks : Users(b) = {} /\ Freeing(b) = {} /\ ~mcb[b].allocated
  BY <1>1 DEF Init, Users, Freeing, live, NotAllocated
<1>5. FreedByTheLast
  BY <1>4, FS_EmptySet DEF FreedByTheLast
<1>6. InsideMemory
  BY <1>1 DEF Init, InsideMemory, live
<1> QED BY <1>3, <1>5, <1>6 DEF BuffersSafe

\* A new buffer has a block of its own and one user.
LEMMA CreateSafe ==
  ASSUME Assumptions, BuffersSafe, NEW m \in Handles, NEW size \in 1 .. MaxSize,
         mbuffer_create(m, size)
  PROVE  BuffersSafe'
<1>1. PICK b \in Blocks :
        /\ ~mcb[b].allocated
        /\ mcb' = [mcb EXCEPT ![b] = [allocated |-> TRUE, i |-> 1, size |-> size]]
        /\ handle' = [handle EXCEPT ![m] = Piece(b, 0, size)]
  BY DEF mbuffer_create
<1>2. unused(m) /\ Cardinality(Handles) \in Nat /\ MaxSize \in Nat
  BY Countable DEF mbuffer_create, Assumptions, BoundAssumption
<1>3. /\ \A c \in Blocks : mcb'[c] = IF c = b THEN [allocated |-> TRUE, i |-> 1, size |-> size]
                                    ELSE mcb[c]
      /\ \A h \in Handles : handle'[h] = IF h = m THEN Piece(b, 0, size) ELSE handle[h]
  BY <1>1 DEF BuffersSafe, TypeOK
<1>4. \A h \in Handles : live(h) => handle[h].mcb # b
  BY <1>1 DEF BuffersSafe, InsideMemory, block
<1>5. \A c \in Blocks : Users(c)' = IF c = b THEN {m} ELSE Users(c)
  BY <1>2, <1>3, <1>4 DEF Users, live, unused, Piece
<1>6. \A c \in Blocks : Freeing(c)' = Freeing(c)
  BY <1>2, <1>3 DEF Freeing, unused, Piece
<1>7. FreedByTheLast'
  <2>1. ASSUME NEW c \in Blocks, c # b
        PROVE  /\ mcb'[c].allocated => mcb'[c].i = Cardinality(Users(c)')
               /\ Cardinality(Freeing(c)') =
                    IF mcb'[c].allocated /\ Users(c)' = {} THEN 1 ELSE 0
    BY <2>1, <1>3, <1>5, <1>6 DEF BuffersSafe, FreedByTheLast
  <2>2. /\ mcb'[b].i = 1 /\ Cardinality(Users(b)') = 1 /\ Users(b)' # {}
        /\ Cardinality(Freeing(b)') = 0
    <3>1. Cardinality(Freeing(b)) = 0
      BY <1>1 DEF BuffersSafe, FreedByTheLast
    <3>2. Users(b)' = {m} /\ Cardinality({m}) = 1
      BY <1>5, FS_Singleton
    <3> QED BY <1>3, <1>6, <3>1, <3>2
  <2> QED BY <2>1, <2>2 DEF FreedByTheLast
<1>8. TypeOK'
  <2>1. 1 \in 0 .. Cardinality(Handles)
    BY <1>5, CountableAfter, FS_Singleton
  <2>2. Piece(b, 0, size) \in Handle
    BY <1>2 DEF Piece, Handle
  <2> QED BY <1>1, <1>2, <2>1, <2>2 DEF BuffersSafe, TypeOK
<1>9. InsideMemory'
  BY <1>1, <1>2, <1>3, <1>4 DEF BuffersSafe, InsideMemory, block, live, Piece
<1> QED BY <1>7, <1>8, <1>9 DEF BuffersSafe

\* A clone counts as one more user of the same bytes.
LEMMA CloneSafe ==
  ASSUME Assumptions, BuffersSafe, NEW m \in Handles, NEW temp \in Handles,
         mbuffer_clone(m, temp)
  PROVE  BuffersSafe'
<1>1. live(m) /\ unused(temp) /\ temp # m
  BY DEF mbuffer_clone, live, unused
<1>2. PICK b \in Blocks : b = handle[m].mcb
  BY <1>1, LiveIsUser
<1>3. /\ b = handle[m].mcb /\ handle[m] \in Handle /\ mcb[b].allocated /\ m \in Users(b)
      /\ Freeing(b) = {} /\ mcb[b].i = Cardinality(Users(b))
  BY <1>2, <1>1, LiveIsUser DEF block
<1>4. /\ \A c \in Blocks : mcb'[c] = IF c = b THEN [mcb[b] EXCEPT !.i = @ + 1] ELSE mcb[c]
      /\ \A h \in Handles : handle'[h] = IF h = temp THEN handle[m] ELSE handle[h]
  BY <1>3 DEF mbuffer_clone, BuffersSafe, TypeOK
<1>5. \A c \in Blocks : mcb'[c].allocated = mcb[c].allocated /\ mcb'[c].size = mcb[c].size
                        /\ mcb'[c].i = IF c = b THEN mcb[c].i + 1 ELSE mcb[c].i
  BY <1>3, <1>4 DEF BuffersSafe, TypeOK
<1>6. \A c \in Blocks : Users(c)' = IF c = b THEN Users(c) \cup {temp} ELSE Users(c)
  BY <1>1, <1>3, <1>4 DEF Users, live, unused
<1>7. \A c \in Blocks : Freeing(c)' = Freeing(c)
  BY <1>1, <1>3, <1>4 DEF Freeing, live, unused
<1>8. temp \notin Users(b)
  BY <1>1 DEF Users, live, unused
<1>9. Cardinality(Users(b)') = Cardinality(Users(b)) + 1
  <2>1. Users(b)' = Users(b) \cup {temp} /\ IsFiniteSet(Users(b))
    BY <1>6, Countable
  <2> QED BY <2>1, <1>8, FS_AddElement
<1>10. FreedByTheLast'
  <2>1. ASSUME NEW c \in Blocks, c # b
        PROVE  /\ mcb'[c].allocated => mcb'[c].i = Cardinality(Users(c)')
               /\ Cardinality(Freeing(c)') =
                    IF mcb'[c].allocated /\ Users(c)' = {} THEN 1 ELSE 0
    BY <2>1, <1>5, <1>6, <1>7 DEF BuffersSafe, FreedByTheLast
  <2>2. /\ mcb'[b].i = Cardinality(Users(b)') /\ Users(b)' # {}
        /\ Cardinality(Freeing(b)') = 0
    BY <1>3, <1>5, <1>6, <1>7, <1>9, FS_EmptySet
  <2> QED BY <2>1, <2>2 DEF FreedByTheLast
<1>11. TypeOK'
  <2>1. mcb[b].i + 1 \in 0 .. Cardinality(Handles)
    BY <1>3, <1>9, CountableAfter, Countable
  <2> QED BY <1>3, <2>1 DEF mbuffer_clone, BuffersSafe, TypeOK
<1>12. InsideMemory'
  BY <1>1, <1>3, <1>4, <1>5 DEF BuffersSafe, TypeOK, Handle, InsideMemory, block, live
<1> QED BY <1>10, <1>11, <1>12 DEF BuffersSafe

\* The two parts of a buffer lie side by side where the whole was.
LEMMA SplitSafe ==
  ASSUME Assumptions, BuffersSafe, NEW m1 \in Handles, NEW m2 \in Handles,
         NEW split \in 1 .. MaxSize, mbuffer_split(m1, m2, split)
  PROVE  BuffersSafe'
<1>1. live(m1) /\ unused(m2) /\ m1 # m2 /\ split < handle[m1].n
  BY DEF mbuffer_split, live, unused
<1>2. PICK b \in Blocks : b = handle[m1].mcb
  BY <1>1, LiveIsUser
<1> DEFINE rest == Piece(b, handle[m1].off + split, handle[m1].n - split)
<1>3. /\ b = handle[m1].mcb /\ handle[m1] \in Handle /\ mcb[b].allocated /\ m1 \in Users(b)
      /\ Freeing(b) = {} /\ mcb[b].i = Cardinality(Users(b))
  BY <1>2, <1>1, LiveIsUser DEF block
<1>4. /\ \A c \in Blocks : mcb'[c] = IF c = b THEN [mcb[b] EXCEPT !.i = @ + 1] ELSE mcb[c]
      /\ \A h \in Handles : handle'[h] = IF h = m2 THEN rest
                                         ELSE IF h = m1 THEN [handle[m1] EXCEPT !.n = split]
                                         ELSE handle[h]
  BY <1>1, <1>3 DEF mbuffer_split, counted, BuffersSafe, TypeOK
<1>5. \A c \in Blocks : mcb'[c].allocated = mcb[c].allocated /\ mcb'[c].size = mcb[c].size
                        /\ mcb'[c].i = IF c = b THEN mcb[c].i + 1 ELSE mcb[c].i
  BY <1>3, <1>4 DEF BuffersSafe, TypeOK
<1>6. \A c \in Blocks : Users(c)' = IF c = b THEN Users(c) \cup {m2} ELSE Users(c)
  BY <1>1, <1>3, <1>4 DEF Users, live, unused, Piece, Handle
<1>7. \A c \in Blocks : Freeing(c)' = Freeing(c)
  BY <1>1, <1>3, <1>4 DEF Freeing, live, unused, Piece, Handle
<1>8. m2 \notin Users(b)
  BY <1>1 DEF Users, live, unused
<1>9. Cardinality(Users(b)') = Cardinality(Users(b)) + 1
  <2>1. Users(b)' = Users(b) \cup {m2} /\ IsFiniteSet(Users(b))
    BY <1>6, Countable
  <2> QED BY <2>1, <1>8, FS_AddElement
<1>10. FreedByTheLast'
  <2>1. ASSUME NEW c \in Blocks, c # b
        PROVE  /\ mcb'[c].allocated => mcb'[c].i = Cardinality(Users(c)')
               /\ Cardinality(Freeing(c)') =
                    IF mcb'[c].allocated /\ Users(c)' = {} THEN 1 ELSE 0
    BY <2>1, <1>5, <1>6, <1>7 DEF BuffersSafe, FreedByTheLast
  <2>2. /\ mcb'[b].i = Cardinality(Users(b)') /\ Users(b)' # {}
        /\ Cardinality(Freeing(b)') = 0
    BY <1>3, <1>5, <1>6, <1>7, <1>9, FS_EmptySet, ZenonT(30)
  <2> QED BY <2>1, <2>2 DEF FreedByTheLast
<1>11. /\ handle[m1].off \in Nat /\ handle[m1].n \in Nat /\ mcb[b].size \in 0 .. MaxSize
       /\ handle[m1].off + handle[m1].n <= mcb[b].size /\ MaxSize \in Nat
  BY <1>1, <1>3 DEF BuffersSafe, TypeOK, InsideMemory, Handle, block, Assumptions, BoundAssumption
<1>12. TypeOK'
  <2>1. mcb[b].i + 1 \in 0 .. Cardinality(Handles)
    BY <1>3, <1>9, CountableAfter, Countable
  <2>2. rest \in Handle
    BY <1>1, <1>3, <1>11, Countable DEF Piece, Handle
  <2>3. [handle[m1] EXCEPT !.n = split] \in Handle
    BY <1>3, <1>11 DEF Handle
  <2>4. handle' \in [Handles -> Handle]
    BY <1>4, <2>2, <2>3 DEF mbuffer_split, BuffersSafe, TypeOK
  <2>5. mcb' \in [Blocks -> [allocated : BOOLEAN, i : 0 .. Cardinality(Handles),
                             size : 0 .. MaxSize]]
    BY <1>3, <2>1 DEF mbuffer_split, counted, BuffersSafe, TypeOK
  <2> QED BY <2>4, <2>5 DEF TypeOK
<1>13. InsideMemory'
  <2>1. ASSUME NEW h \in Handles, live(h)'
        PROVE  /\ mcb'[handle'[h].mcb].allocated /\ handle'[h].n > 0
               /\ handle'[h].off + handle'[h].n <= mcb'[handle'[h].mcb].size
    <3>1. CASE h = m2
      BY <3>1, <1>1, <1>3, <1>4, <1>5, <1>11 DEF Piece
    <3>2. CASE h = m1
      BY <3>2, <1>1, <1>3, <1>4, <1>5, <1>11 DEF Handle
    <3>3. CASE h # m1 /\ h # m2
      <4>1. handle'[h] = handle[h] /\ live(h) /\ handle[h].mcb \in Blocks
        BY <3>3, <2>1, <1>4 DEF live, BuffersSafe, TypeOK, Handle
      <4> QED BY <4>1, <1>5 DEF BuffersSafe, InsideMemory, block
    <3> QED BY <3>1, <3>2, <3>3
  <2> QED BY <2>1 DEF InsideMemory, block
<1> QED BY <1>10, <1>12, <1>13 DEF BuffersSafe

\* Only the one user of a buffer resizes it, so that nobody is left outside.
LEMMA ReallocSafe ==
  ASSUME Assumptions, BuffersSafe, NEW m \in Handles, NEW size \in 1 .. MaxSize,
         mbuffer_realloc(m, size)
  PROVE  BuffersSafe'
<1>1. PICK b \in Blocks : b = handle[m].mcb
  BY LiveIsUser DEF mbuffer_realloc
<1>2. live(m) /\ mcb[b].i <= 1 /\ handle[m].off = 0 /\ MaxSize \in Nat
  BY <1>1 DEF mbuffer_realloc, mayResize, block, Assumptions, BoundAssumption
<1>3. /\ b = handle[m].mcb /\ handle[m] \in Handle /\ mcb[b].allocated /\ m \in Users(b)
      /\ mcb[b].i = Cardinality(Users(b)) /\ mcb[b].i > 0
  BY <1>1, <1>2, LiveIsUser DEF block
<1>4. Users(b) = {m}
  <2>1. Cardinality(Users(b)) = 1 /\ IsFiniteSet(Users(b))
    BY <1>2, <1>3, Countable
  <2> QED BY <2>1, <1>3, FS_Singleton
<1>5. /\ \A c \in Blocks : /\ mcb'[c].allocated = mcb[c].allocated /\ mcb'[c].i = mcb[c].i
                           /\ mcb'[c].size = IF c = b THEN size ELSE mcb[c].size
      /\ \A h \in Handles : handle'[h] = IF h = m THEN [handle[m] EXCEPT !.n = size]
                                         ELSE handle[h]
  BY <1>3 DEF mbuffer_realloc, BuffersSafe, TypeOK
<1>6. \A c \in Blocks : Users(c)' = Users(c) /\ Freeing(c)' = Freeing(c)
  BY <1>3, <1>5 DEF Users, Freeing, live, Handle
<1>7. FreedByTheLast'
  BY <1>5, <1>6 DEF BuffersSafe, FreedByTheLast
<1>8. TypeOK'
  BY <1>2, <1>3 DEF mbuffer_realloc, BuffersSafe, TypeOK, Handle
<1>9. InsideMemory'
  <2>1. ASSUME NEW h \in Handles, live(h)'
        PROVE  /\ mcb'[handle'[h].mcb].allocated /\ handle'[h].n > 0
               /\ handle'[h].off + handle'[h].n <= mcb'[handle'[h].mcb].size
    <3>1. CASE h = m
      BY <3>1, <1>2, <1>3, <1>5 DEF Handle
    <3>2. CASE h # m
      <4>1. handle'[h] = handle[h] /\ live(h) /\ handle[h].mcb \in Blocks
        BY <3>2, <2>1, <1>5 DEF live, BuffersSafe, TypeOK, Handle
      <4>2. handle[h].mcb # b
        BY <3>2, <4>1, <1>4 DEF Users
      <4> QED BY <4>1, <4>2, <1>5 DEF BuffersSafe, InsideMemory, block
    <3> QED BY <3>1, <3>2
  <2> QED BY <2>1 DEF InsideMemory, block
<1> QED BY <1>7, <1>8, <1>9 DEF BuffersSafe

\* The user that counts itself out last, and no other, will give the buffer back.
LEMMA FreeCountSafe ==
  ASSUME Assumptions, BuffersSafe, NEW m \in Handles, FreeCount(m)
  PROVE  BuffersSafe'
<1>1. live(m) /\ MaxSize \in Nat
  BY DEF FreeCount, Assumptions, BoundAssumption
<1>2. PICK b \in Blocks : b = handle[m].mcb
  BY <1>1, LiveIsUser
<1> DEFINE gone == handle'[m]
<1>3. /\ b = handle[m].mcb /\ handle[m] \in Handle /\ mcb[b].allocated /\ m \in Users(b)
      /\ Freeing(b) = {} /\ mcb[b].i = Cardinality(Users(b)) /\ mcb[b].i > 0
      /\ mcb[b].i \in 0 .. Cardinality(Handles) /\ Cardinality(Handles) \in Nat
  BY <1>2, <1>1, LiveIsUser, Countable DEF block
<1>4. /\ \A c \in Blocks : /\ mcb'[c].allocated = mcb[c].allocated /\ mcb'[c].size = mcb[c].size
                           /\ mcb'[c].i = IF c = b THEN mcb[c].i - 1 ELSE mcb[c].i
      /\ \A h \in Handles : h # m => handle'[h] = handle[h]
  BY <1>3 DEF FreeCount, BuffersSafe, TypeOK
<1>5. /\ gone \in Handle /\ gone.at = "freeing" /\ gone.mcb = b /\ gone.ref = mcb[b].i - 1
  <2>1. Piece(b, 0, 0) \in Handle /\ Piece(b, 0, 0).mcb = b
    BY <1>1, PieceType DEF Assumptions, BoundAssumption
  <2>2. gone = [Piece(b, 0, 0) EXCEPT !.at = "freeing", !.ref = mcb[b].i - 1]
    BY <1>3 DEF FreeCount, BuffersSafe, TypeOK, block
  <2>3. mcb[b].i - 1 \in 0 .. Cardinality(Handles)
    BY <1>3
  <2> QED BY <2>1, <2>2, <2>3 DEF Handle
<1>6. \A c \in Blocks : Users(c)' = IF c = b THEN Users(c) \ {m} ELSE Users(c)
  BY <1>1, <1>3, <1>4, <1>5 DEF Users, live
<1>7. Cardinality(Users(b)') = mcb[b].i - 1 /\ IsFiniteSet(Users(b)')
  BY <1>3, <1>6, Countable, FS_RemoveElement
<1>8. \A c \in Blocks : Freeing(c)' = IF c = b /\ mcb[b].i = 1 THEN {m} ELSE Freeing(c)
  BY <1>1, <1>3, <1>4, <1>5 DEF Freeing, live
<1>9. FreedByTheLast'
  <2>1. ASSUME NEW c \in Blocks, c # b
        PROVE  /\ mcb'[c].allocated => mcb'[c].i = Cardinality(Users(c)')
               /\ Cardinality(Freeing(c)') =
                    IF mcb'[c].allocated /\ Users(c)' = {} THEN 1 ELSE 0
    BY <2>1, <1>4, <1>6, <1>8 DEF BuffersSafe, FreedByTheLast
  <2>2. Users(b)' = {} <=> mcb[b].i = 1
    BY <1>3, <1>7, FS_EmptySet
  <2>3. Cardinality(Freeing(b)') = IF Users(b)' = {} THEN 1 ELSE 0
    BY <1>3, <1>8, <2>2, FS_Singleton, FS_EmptySet
  <2> QED BY <1>3, <1>4, <1>7, <2>1, <2>3 DEF FreedByTheLast
<1>10. TypeOK'
  <2>1. mcb[b].i - 1 \in 0 .. Cardinality(Handles)
    BY <1>3
  <2>2. handle' \in [Handles -> Handle]
    BY <1>4, <1>5 DEF FreeCount, BuffersSafe, TypeOK
  <2>3. mcb' \in [Blocks -> [allocated : BOOLEAN, i : 0 .. Cardinality(Handles),
                             size : 0 .. MaxSize]]
    BY <1>3, <2>1 DEF FreeCount, BuffersSafe, TypeOK
  <2> QED BY <2>2, <2>3 DEF TypeOK
<1>11. InsideMemory'
  <2>1. ASSUME NEW h \in Handles, live(h)'
        PROVE  /\ mcb'[handle'[h].mcb].allocated /\ handle'[h].n > 0
               /\ handle'[h].off + handle'[h].n <= mcb'[handle'[h].mcb].size
    <3>1. h # m
      BY <2>1, <1>5 DEF live
    <3>2. handle'[h] = handle[h] /\ live(h) /\ handle[h].mcb \in Blocks
      BY <3>1, <2>1, <1>4 DEF live, BuffersSafe, TypeOK, Handle
    <3> QED BY <3>2, <1>4 DEF BuffersSafe, InsideMemory, block
  <2> QED BY <2>1 DEF InsideMemory, block
<1> QED BY <1>9, <1>10, <1>11 DEF BuffersSafe

\* Memory is given back when nobody refers to it.
LEMMA FreeMemorySafe ==
  ASSUME Assumptions, BuffersSafe, NEW m \in Handles, FreeMemory(m)
  PROVE  BuffersSafe'
<1>1. PICK b \in Blocks : b = handle[m].mcb
  BY DEF BuffersSafe, TypeOK, Handle
<1>2. /\ b = handle[m].mcb /\ handle[m].at = "freeing" /\ MaxSize \in Nat
      /\ Cardinality(Handles) \in Nat /\ handle[m].ref \in Nat
  <2>1. Cardinality(Handles) \in Nat /\ MaxSize \in Nat
    BY FS_CardinalityType DEF Assumptions, BoundAssumption, HandlesAssumption
  <2>2. handle[m] \in Handle /\ handle[m].at = "freeing"
    BY DEF FreeMemory, BuffersSafe, TypeOK
  <2> QED BY <1>1, <2>1, <2>2 DEF Handle
<1>3. NoBuffer \in Handle /\ NoBuffer.at = "unused"
  BY NoBufferType
<1>4. \A h \in Handles : handle'[h] = IF h = m THEN NoBuffer ELSE handle[h]
  BY DEF FreeMemory, BuffersSafe, TypeOK
<1>5. \A c \in Blocks : mcb'[c] = IF handle[m].ref = 0 /\ c = b THEN NotAllocated ELSE mcb[c]
  BY <1>2 DEF FreeMemory, wasLast, BuffersSafe, TypeOK
<1>6. \A c \in Blocks : Users(c)' = Users(c)
  BY <1>2, <1>3, <1>4 DEF Users, live
<1>7. \A c \in Blocks : Freeing(c)' = IF c = b THEN Freeing(c) \ {m} ELSE Freeing(c)
  BY <1>2, <1>3, <1>4 DEF Freeing
<1>8. ASSUME handle[m].ref = 0
      PROVE  mcb[b].allocated /\ Users(b) = {} /\ Freeing(b) = {m}
  <2>1. m \in Freeing(b)
    BY <1>2, <1>8 DEF Freeing
  <2>2. Cardinality(Freeing(b)) # 0
    BY <2>1, Countable
  <2>3. mcb[b].allocated /\ Users(b) = {} /\ Cardinality(Freeing(b)) = 1
    BY <2>2, <1>2 DEF BuffersSafe, FreedByTheLast
  <2> QED BY <2>1, <2>3, Countable, FS_Singleton
<1>9. ASSUME handle[m].ref # 0 PROVE \A c \in Blocks : Freeing(c)' = Freeing(c)
  BY <1>7, <1>9 DEF Freeing
<1>10. FreedByTheLast'
  <2>1. CASE handle[m].ref = 0
    <3>1. ASSUME NEW c \in Blocks, c # b
          PROVE  /\ mcb'[c].allocated => mcb'[c].i = Cardinality(Users(c)')
                 /\ Cardinality(Freeing(c)') =
                      IF mcb'[c].allocated /\ Users(c)' = {} THEN 1 ELSE 0
      BY <3>1, <1>5, <1>6, <1>7 DEF BuffersSafe, FreedByTheLast
    <3>2. Freeing(b)' = {} /\ ~mcb'[b].allocated
      BY <2>1, <1>5, <1>7, <1>8 DEF NotAllocated
    <3> QED BY <3>1, <3>2, FS_EmptySet DEF FreedByTheLast
  <2>2. CASE handle[m].ref # 0
    BY <2>2, <1>5, <1>6, <1>9 DEF BuffersSafe, FreedByTheLast
  <2> QED BY <2>1, <2>2
<1>11. TypeOK'
  BY <1>2, <1>3 DEF FreeMemory, BuffersSafe, TypeOK, NotAllocated
<1>12. InsideMemory'
  <2>1. ASSUME NEW h \in Handles, live(h)'
        PROVE  /\ mcb'[handle'[h].mcb].allocated /\ handle'[h].n > 0
               /\ handle'[h].off + handle'[h].n <= mcb'[handle'[h].mcb].size
    <3>1. h # m
      BY <2>1, <1>3, <1>4 DEF live
    <3>2. handle'[h] = handle[h] /\ live(h) /\ handle[h].mcb \in Blocks
      BY <3>1, <2>1, <1>4 DEF live, BuffersSafe, TypeOK, Handle
    <3>3. mcb'[handle[h].mcb] = mcb[handle[h].mcb]
      BY <3>2, <1>5, <1>8 DEF Users
    <3> QED BY <3>2, <3>3 DEF BuffersSafe, InsideMemory, block
  <2> QED BY <2>1 DEF InsideMemory, block
<1> QED BY <1>10, <1>11, <1>12 DEF BuffersSafe

\* A copy is a new buffer as long as the old one.
LEMMA CopySafe ==
  ASSUME Assumptions, BuffersSafe, NEW m \in Handles, NEW temp \in Handles,
         mbuffer_copy(m, temp)
  PROVE  BuffersSafe'
<1>1. handle[m].n \in 1 .. MaxSize
  BY DEF mbuffer_copy, BuffersSafe, TypeOK, Handle, InsideMemory, Assumptions, BoundAssumption
<1> QED BY <1>1, CreateSafe DEF mbuffer_copy

\* Every step keeps the buffers safe.
LEMMA StepSafe == ASSUME Assumptions, BuffersSafe, [Next]_vars PROVE BuffersSafe'
<1>1. CASE Next
  BY <1>1, CreateSafe, ReallocSafe, CloneSafe, CopySafe, SplitSafe, FreeCountSafe,
     FreeMemorySafe DEF Next
<1>2. CASE UNCHANGED vars
  <2>1. handle' = handle /\ mcb' = mcb
    BY <1>2 DEF vars
  <2>2. \A b : Users(b)' = Users(b) /\ Freeing(b)' = Freeing(b)
    BY <2>1 DEF Users, Freeing, live
  <2> QED BY <2>1, <2>2 DEF BuffersSafe, TypeOK, FreedByTheLast, InsideMemory, live, block
<1> QED BY <1>1, <1>2

-----------------------------------------------------------------------------
(* Theorems *)

\* However threads clone, split, resize and free, in whatever order, a buffer is
\* given back once, by the last, and no struct leads outside it.
THEOREM AlwaysSafe == ASSUME Assumptions PROVE Spec => []BuffersSafe
<1>1. Init => BuffersSafe
  BY InitSafe
<1>2. BuffersSafe /\ [Next]_vars => BuffersSafe'
  BY StepSafe
<1> QED BY <1>1, <1>2, PTL DEF Spec
===============================================================================
