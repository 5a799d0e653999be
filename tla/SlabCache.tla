----------------------------- MODULE SlabCache -----------------------------
(****************************************************************************)
(* One cache of FastFlow's slab allocator (ff/allocator.hpp): buffers of one  *)
(* size, cut from segments of nslabs.  Only the owner allocates; any thread    *)
(* frees, by pushing the buffer into a queue of its own (a leak queue) that    *)
(* the owner pops when it has no fresh buffer.  A thread enters its queue in   *)
(* the table fb when it first frees something; the owner reads this table      *)
(* without the lock.  When the owner deregisters it drains the queues, and who *)
(* frees a buffer after that counts it in its segment: the last one frees the  *)
(* segment.                                                                  *)
(*                                                                          *)
(* delayedReclaim is 0, as everywhere in FastFlow.  The leak queues are        *)
(* unbounded channels, which lose nothing (UnboundedBuffer).  The table has    *)
(* room for all threads.  One statement raises its size and stores the entry,  *)
(* fb[entry = fb_size++] = xtd, so that a reader may find either done without  *)
(* the other.  Who reads an entry that counts and is not stored follows        *)
(* whatever malloc left there: the model ends at that point.                  *)
(****************************************************************************)
EXTENDS Integers, Sequences, FiniteSets, SequencesExt

CONSTANTS Owner, Threads,  \* the allocating thread, and all threads
          nslabs,          \* buffers in a segment
          Prealloc,        \* whether init makes a segment
          MIN_FB_CAPACITY, \* 32: entries of the table
          MaxGets          \* bound: calls of getitem

SlabAssumption ==
  /\ Owner \in Threads /\ IsFiniteSet(Threads) /\ Prealloc \in BOOLEAN
  /\ {nslabs, MIN_FB_CAPACITY, MaxGets} \subseteq Nat \ {0}
RoomAssumption == Cardinality(Threads) <= MIN_FB_CAPACITY

VARIABLES
  seglist,        \* the segments: the availbuffers of each, and whether it is freed
  availbuffers,   \* the fresh buffers left, all in the last segment, at buffptr
  fb, fb_size,    \* the entries of the table stored so far, and how many count
  leak,           \* the queue of each
  lastqueue,      \* where the owner found something last
  lock,           \* who has it
  nomoremalloc,   \* the owner has deregistered
  used,           \* the buffers of each thread
  pc, gets,
  late,           \* the threads that were inside putitem when the owner deregistered
  crashed         \* somebody has followed an entry that was not stored
segments == <<seglist, availbuffers>>
table == <<fb, fb_size>>
vars == <<segments, table, leak, lastqueue, lock, nomoremalloc, used, pc, gets, late, crashed>>

Idle == [at |-> "idle"]
Nobody == "nobody"

\* The lock word tells a free lock from a thread.
NobodyAssumption == Nobody \notin Threads

Goto(t, at) == pc' = [pc EXCEPT ![t] = [@ EXCEPT !.at = at]]

Init ==
  /\ seglist = IF Prealloc THEN <<[avail |-> nslabs, freed |-> FALSE]>> ELSE <<>>
  /\ availbuffers = IF Prealloc THEN nslabs ELSE 0
  /\ fb = <<Owner>> /\ fb_size = 1 /\ leak = [t \in Threads |-> <<>>]
  /\ lastqueue = 0 /\ lock = Nobody /\ nomoremalloc = FALSE
  /\ used = [t \in Threads |-> {}]
  /\ pc = [t \in Threads |-> Idle] /\ gets = 0 /\ late = {}
  /\ crashed = FALSE

-----------------------------------------------------------------------------
(* getitem *)

\* An entry of the table that a reader may follow.
Stored(j) == j <= Len(fb)

Give(b) ==
  used' = [used EXCEPT ![Owner] = @ \cup {b}] /\ pc' = [pc EXCEPT ![Owner] = Idle]

\* The next fresh buffer, the last segment of segs having n of them.
Fresh(segs, n) ==
  /\ Give(<<Len(segs), nslabs - n + 1>>)
  /\ seglist' = [segs EXCEPT ![Len(segs)].avail = @ - 1]
  /\ availbuffers' = n - 1

Getitem ==
  /\ pc[Owner] = Idle /\ ~nomoremalloc /\ gets < MaxGets
  /\ gets' = gets + 1
  /\ IF availbuffers > 0 THEN Fresh(seglist, availbuffers)
     ELSE /\ pc' = [pc EXCEPT ![Owner] = [at |-> "poll", i |-> 0]]
          /\ UNCHANGED <<segments, used>>
  /\ UNCHANGED <<table, leak, lastqueue, lock, nomoremalloc, late, crashed>>

\* getfrom_fb: one queue after the other; fb_size is read again each time.
Poll ==
  /\ pc[Owner].at = "poll" /\ pc[Owner].i < fb_size
  /\ LET k == (lastqueue + pc[Owner].i) % fb_size
         t == fb[k + 1]
     IN  /\ Stored(k + 1)
         /\ IF leak[t] # <<>>
            THEN /\ leak' = [leak EXCEPT ![t] = Tail(@)] /\ lastqueue' = k
                 /\ Give(Head(leak[t]))
            ELSE pc' = [pc EXCEPT ![Owner].i = @ + 1] /\ UNCHANGED <<leak, lastqueue, used>>
  /\ UNCHANGED <<segments, table, lock, nomoremalloc, gets, late, crashed>>

\* Nothing there: newslab.
Newslab ==
  /\ pc[Owner].at = "poll" /\ pc[Owner].i >= fb_size
  /\ Fresh(Append(seglist, [avail |-> nslabs, freed |-> FALSE]), nslabs)
  /\ UNCHANGED <<table, leak, lastqueue, lock, nomoremalloc, gets, late, crashed>>

\* The user: a buffer goes from the owner to another thread.
Hand(t) ==
  /\ pc[Owner] = Idle /\ t # Owner
  /\ \E b \in used[Owner] : used' = [used EXCEPT ![Owner] = @ \ {b}, ![t] = @ \cup {b}]
  /\ UNCHANGED <<segments, table, leak, lastqueue, lock, nomoremalloc, pc, gets, late, crashed>>

-----------------------------------------------------------------------------
(* putitem *)

\* Seeded fault: whether the owner has deregistered does not matter.
PutitemAlways(t) ==
  /\ pc[t] = Idle
  /\ \E b \in used[t] :
       /\ used' = [used EXCEPT ![t] = @ \ {b}]
       /\ pc' = [pc EXCEPT ![t] = [at |-> "search", buf |-> b]]
  /\ UNCHANGED <<segments, table, leak, lastqueue, lock, nomoremalloc, gets, late, crashed>>

\* The look at nomoremalloc.
Putitem(t) ==
  /\ pc[t] = Idle
  /\ \E b \in used[t] :
       /\ used' = [used EXCEPT ![t] = @ \ {b}]
       /\ LET at == IF nomoremalloc THEN "reclaim" ELSE "search"
          IN  pc' = [pc EXCEPT ![t] = [at |-> at, buf |-> b]]
  /\ UNCHANGED <<segments, table, leak, lastqueue, lock, nomoremalloc, gets, late, crashed>>

\* The thread is in the part of the table that counts.
InTable(t) == \E i \in 1 .. fb_size : Stored(i) /\ fb[i] = t

\* searchfb: only the thread itself enters its own key, and an entry that is not
\* stored is behind all others.
Search(t) ==
  /\ pc[t].at = "search" /\ (InTable(t) \/ Stored(fb_size))
  /\ Goto(t, IF InTable(t) THEN "push" ELSE "register")
  /\ UNCHANGED <<segments, table, leak, lastqueue, lock, nomoremalloc, used, gets, late, crashed>>

\* register4free: the lock, then the entry and the size, in either order, unlock.
Register(t) ==
  /\ pc[t].at = "register" /\ lock = Nobody
  /\ lock' = t
  /\ \/ fb_size' = fb_size + 1 /\ Goto(t, "store") /\ UNCHANGED fb
     \/ fb' = Append(fb, t) /\ Goto(t, "size") /\ UNCHANGED fb_size
  /\ UNCHANGED <<segments, leak, lastqueue, nomoremalloc, used, gets, late, crashed>>

Store(t) ==
  /\ pc[t].at = "store"
  /\ fb' = Append(fb, t) /\ lock' = Nobody /\ Goto(t, "push")
  /\ UNCHANGED <<segments, fb_size, leak, lastqueue, nomoremalloc, used, gets, late, crashed>>

Size(t) ==
  /\ pc[t].at = "size"
  /\ fb_size' = fb_size + 1 /\ lock' = Nobody /\ Goto(t, "push")
  /\ UNCHANGED <<segments, fb, leak, lastqueue, nomoremalloc, used, gets, late, crashed>>

Push(t) ==
  /\ pc[t].at = "push"
  /\ leak' = [leak EXCEPT ![t] = Append(@, pc[t].buf)] /\ pc' = [pc EXCEPT ![t] = Idle]
  /\ UNCHANGED <<segments, table, lastqueue, lock, nomoremalloc, used, gets, late, crashed>>

-----------------------------------------------------------------------------
(* deregisterAllocator *)

Deregister ==
  /\ pc[Owner] = Idle /\ ~nomoremalloc
  /\ nomoremalloc' = TRUE
  /\ pc' = [pc EXCEPT ![Owner] = [at |-> "drain", i |-> 1]]
  /\ late' = {t \in Threads : pc[t] # Idle}
  /\ UNCHANGED <<segments, table, leak, lastqueue, lock, used, gets, crashed>>

Drain ==
  /\ pc[Owner].at = "drain" /\ pc[Owner].i <= fb_size /\ Stored(pc[Owner].i)
  /\ LET t == fb[pc[Owner].i]
     IN  IF leak[t] = <<>> THEN pc' = [pc EXCEPT ![Owner].i = @ + 1] /\ UNCHANGED leak
         ELSE /\ leak' = [leak EXCEPT ![t] = Tail(@)]
              /\ pc' = [pc EXCEPT ![Owner] =
                           [at |-> "reclaim", i |-> @.i, buf |-> Head(leak[t])]]
  /\ UNCHANGED <<segments, table, lastqueue, lock, nomoremalloc, used, gets, late, crashed>>

Drained ==
  /\ pc[Owner].at = "drain" /\ pc[Owner].i > fb_size
  /\ pc' = [pc EXCEPT ![Owner] = Idle]
  /\ UNCHANGED <<segments, table, leak, lastqueue, lock, nomoremalloc, used, gets, late, crashed>>

\* checkReclaim, from either: the lock, ...
Lock(t) ==
  /\ pc[t].at = "reclaim" /\ lock = Nobody
  /\ lock' = t /\ Goto(t, "count")
  /\ UNCHANGED <<segments, table, leak, lastqueue, nomoremalloc, used, gets, late, crashed>>

\* ... and the buffer is counted: with its last one a segment is freed.
checkReclaim(t) ==
  /\ pc[t].at = "count"
  /\ LET s == pc[t].buf[1]
         n == seglist[s].avail + 1
     IN  seglist' = [seglist EXCEPT ![s] = [avail |-> n, freed |-> @.freed \/ n = nslabs]]
  /\ lock' = Nobody
  /\ pc' = [pc EXCEPT ![t] =
              IF "i" \in DOMAIN @ THEN [at |-> "drain", i |-> @.i] ELSE Idle]
  /\ UNCHANGED <<availbuffers, table, leak, lastqueue, nomoremalloc, used, gets, late, crashed>>

\* The owner in getfrom_fb or deregisterAllocator, or another thread in searchfb, which
\* register4free calls once more, comes to the entry that counts and is not stored.
ReadUnset(t) ==
  /\ \/ /\ t = Owner /\ pc[t].at = "poll" /\ pc[t].i < fb_size
        /\ ~Stored(1 + ((lastqueue + pc[t].i) % fb_size))
     \/ t = Owner /\ pc[t].at = "drain" /\ pc[t].i <= fb_size /\ ~Stored(pc[t].i)
     \/ pc[t].at \in {"search", "register"} /\ ~InTable(t) /\ ~Stored(fb_size)
  /\ crashed' = TRUE
  /\ UNCHANGED <<segments, table, leak, lastqueue, lock, nomoremalloc, used, pc, gets, late>>

Step ==
  \/ Getitem \/ Poll \/ Newslab \/ Deregister \/ Drain \/ Drained
  \/ \E t \in Threads : \/ Hand(t)
                         \/ Putitem(t) \/ Search(t) \/ Register(t) \/ Store(t) \/ Size(t)
                         \/ Push(t) \/ Lock(t) \/ checkReclaim(t)

Next == ~crashed /\ (Step \/ \E t \in Threads : ReadUnset(t))

Spec == Init /\ [][Next]_vars

-----------------------------------------------------------------------------
(* Properties *)

Segments == DOMAIN seglist
FreshBuffers == {<<Len(seglist), i>> : i \in nslabs - availbuffers + 1 .. nslabs}
HandedOut == (Segments \X (1 .. nslabs)) \ FreshBuffers
held(t) == used[t] \cup (IF "buf" \in DOMAIN pc[t] THEN {pc[t].buf} ELSE {})
Queued == UNION {ToSet(leak[t]) : t \in Threads}
Out == Queued \cup UNION {held(t) : t \in Threads}

\* No buffer is with two threads, or with one and in a queue, or queued twice.
OneUser ==
  /\ \A t, u \in Threads : t # u => /\ held(t) \cap held(u) = {}
                                   /\ ToSet(leak[t]) \cap ToSet(leak[u]) = {}
  /\ \A t \in Threads : IsInjective(leak[t]) /\ held(t) \cap Queued = {}
  /\ Out \subseteq HandedOut

\* The count of a segment is what is fresh or back; it is freed with the last one,
\* when nobody has a buffer of it.
CountsExact ==
  \A s \in Segments :
    LET row == {s} \X (1 .. nslabs)
    IN  /\ seglist[s].avail = nslabs - Cardinality(row \cap Out)
        /\ seglist[s].freed => row \cap Out = {}
        /\ (nomoremalloc /\ row \cap HandedOut # {} /\ row \cap Out = {})
             => seglist[s].freed

\* After the owner has deregistered, what stays in the queues are buffers of threads
\* that were inside putitem then, at most one of each.
OnlyLateStay ==
  (nomoremalloc /\ pc[Owner] = Idle) =>
    \A t \in Threads : Len(leak[t]) <= (IF t \in late THEN 1 ELSE 0)

\* Nobody follows an unset entry but while another thread, with the lock, has raised
\* the size and not yet stored its entry.
CrashesInRegister ==
  crashed => \E t \in Threads : lock = t /\ pc[t].at = "store"

\* ff/allocator.hpp: no buffer has two users, a segment is freed when the last of its
\* buffers is back and not before, what stays behind in the queues of the freeing
\* threads are only buffers that were on their way as the owner left, and only a
\* registration under way (line 700) can end the program before that.
BuffersReturn == OneUser /\ CountsExact /\ OnlyLateStay /\ CrashesInRegister

\* "These operations are thread safe (mutual exclusion)" (register4free, lines 682 to
\* 687), and deregisterAllocator asserts fb[i]: an entry that counts is stored.
EntriesStored == ~crashed
=============================================================================
