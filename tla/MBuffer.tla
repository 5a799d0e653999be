------------------------------- MODULE MBuffer -------------------------------
(***************************************************************************)
(* mbuffer_t (kernels/dedup/src/mbuffer.c): the reference-counted memory    *)
(* buffers whose pieces the stages of dedup pass from thread to thread.     *)
(* A handle is an mbuffer_t struct; it belongs to one thread at a time, and *)
(* its fields are only touched by that thread.  What threads share is the   *)
(* control block (mcb_t) and the memory behind it, so a step is a section   *)
(* under the lock of the control block or a piece of code after it.         *)
(*                                                                         *)
(* Calls that fail for lack of memory return without any change.            *)
(***************************************************************************)
EXTENDS Naturals, FiniteSets

CONSTANTS Handles,   \* the mbuffer_t structs of all threads
          Blocks,    \* addresses malloc can give to a control block
          MaxSize    \* bound: bytes of a buffer

BoundAssumption == MaxSize \in Nat \ {0}
HandlesAssumption == IsFiniteSet(Handles) /\ Blocks # {}

VARIABLES
  handle,  \* the fields of each struct
  mcb      \* of each control block: allocated or not, i, bytes behind ptr

vars == <<handle, mcb>>

\* off is ptr - mcb->ptr, ref the count mbuffer_free read under the lock.
Handle == [at : {"unused", "live", "freeing"}, mcb : Blocks, off : 0 .. MaxSize,
           n : 0 .. MaxSize, ref : 0 .. Cardinality(Handles)]

live(m) == handle[m].at = "live"
unused(m) == handle[m].at = "unused"
block(m) == mcb[handle[m].mcb]

Piece(b, off, n) == [at |-> "live", mcb |-> b, off |-> off, n |-> n, ref |-> 0]

\* A struct without a buffer and memory that is not allocated: what they hold is
\* never read.
NoBuffer == [Piece(CHOOSE b \in Blocks : TRUE, 0, 0) EXCEPT !.at = "unused"]
NotAllocated == [allocated |-> FALSE, i |-> 0, size |-> 0]

Init ==
  /\ handle = [m \in Handles |-> NoBuffer]
  /\ mcb = [b \in Blocks |-> NotAllocated]

-----------------------------------------------------------------------------
\* mbuffer_create
mbuffer_create(m, size) ==
  /\ unused(m)
  /\ \E b \in Blocks :
       /\ ~mcb[b].allocated
       /\ mcb' = [mcb EXCEPT ![b] = [allocated |-> TRUE, i |-> 1, size |-> size]]
       /\ handle' = [handle EXCEPT ![m] = Piece(b, 0, size)]

\* mbuffer_clone: a second struct for the same bytes.
mbuffer_clone(m, temp) ==
  /\ live(m) /\ unused(temp)
  /\ mcb' = [mcb EXCEPT ![handle[m].mcb].i = @ + 1]
  /\ handle' = [handle EXCEPT ![temp] = handle[m]]

\* mbuffer_copy: a buffer of its own with as many bytes.
mbuffer_copy(m, temp) == live(m) /\ mbuffer_create(temp, handle[m].n)

\* m1->mcb->i++ under the lock.
counted(m) == [mcb EXCEPT ![handle[m].mcb].i = @ + 1]

\* mbuffer_split: the two structs share the control block.  Their fields are
\* set after the lock is released, which nobody else can see.
mbuffer_split(m1, m2, split) ==
  /\ live(m1) /\ unused(m2)
  /\ split < handle[m1].n
  /\ mcb' = counted(m1)
  /\ handle' = [handle EXCEPT
       ![m1].n = split,
       ![m2] = Piece(handle[m1].mcb, handle[m1].off + split, handle[m1].n - split)]

\* "We cannot resize a buffer if more than one pointer to it is in circulation",
\* and only through the struct that holds its beginning.
mayResize(m) == block(m).i <= 1 /\ handle[m].off = 0

\* mbuffer_realloc, all of it under the lock; otherwise it answers -1.
mbuffer_realloc(m, size) ==
  /\ live(m) /\ mayResize(m)
  /\ mcb' = [mcb EXCEPT ![handle[m].mcb].size = size]
  /\ handle' = [handle EXCEPT ![m].n = size]

\* mbuffer_free, under the lock: i-- and what is left of it.
FreeCount(m) ==
  /\ live(m)
  /\ mcb' = [mcb EXCEPT ![handle[m].mcb].i = @ - 1]
  /\ handle' = [handle EXCEPT ![m] = [Piece(@.mcb, 0, 0) EXCEPT
                 !.at = "freeing", !.ref = block(m).i - 1]]

\* Seeded fault: the counter is read again without the lock.
wasLastReread(m) == block(m).i = 0

\* "No need to synchronize access to ref counter value again"
wasLast(m) == handle[m].ref = 0

\* mbuffer_free, after the lock: the last one gives the memory back.
FreeMemory(m) ==
  /\ handle[m].at = "freeing"
  /\ mcb' = IF wasLast(m) THEN [mcb EXCEPT ![handle[m].mcb] = NotAllocated]
            ELSE mcb
  /\ handle' = [handle EXCEPT ![m] = NoBuffer]

Next ==
  \E m \in Handles :
    \/ \E size \in 1 .. MaxSize : mbuffer_create(m, size) \/ mbuffer_realloc(m, size)
    \/ \E temp \in Handles : mbuffer_clone(m, temp) \/ mbuffer_copy(m, temp)
    \/ \E m2 \in Handles, split \in 1 .. MaxSize : mbuffer_split(m, m2, split)
    \/ FreeCount(m)
    \/ FreeMemory(m)

Spec == Init /\ [][Next]_vars

-----------------------------------------------------------------------------
(* Properties *)

\* Type correctness: the counter of a control block never drops below zero and
\* never counts more than the structs there are.
TypeOK ==
  /\ handle \in [Handles -> Handle]
  /\ mcb \in [Blocks -> [allocated : BOOLEAN, i : 0 .. Cardinality(Handles),
                         size : 0 .. MaxSize]]

Users(b) == {m \in Handles : live(m) /\ handle[m].mcb = b}

\* The threads in mbuffer_free that will give b back.
Freeing(b) == {m \in Handles : handle[m].at = "freeing" /\ handle[m].mcb = b
                               /\ handle[m].ref = 0}

\* A buffer is given back once, by the last of its users, and only when no
\* struct refers to it any more; until then the counter of mbuffer_clone,
\* mbuffer_split and mbuffer_free is the number of structs that do.  No buffer
\* without users stays allocated unless one thread is about to free it.
FreedByTheLast ==
  \A b \in Blocks :
    /\ mcb[b].allocated => mcb[b].i = Cardinality(Users(b))
    /\ Cardinality(Freeing(b)) = IF mcb[b].allocated /\ Users(b) = {} THEN 1 ELSE 0

\* Whatever pieces a buffer was split into and whoever resized it, a struct
\* refers to allocated memory and to bytes inside it.
InsideMemory ==
  \A m \in Handles : live(m) =>
    /\ block(m).allocated
    /\ handle[m].n > 0
    /\ handle[m].off + handle[m].n <= block(m).size

\* mbuffer.c: however threads clone, split, resize and free, in whatever order, a
\* buffer is given back once, by the last, and no struct leads outside it.
BuffersSafe == TypeOK /\ FreedByTheLast /\ InsideMemory
=============================================================================
