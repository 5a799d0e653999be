------------------------------ MODULE FifoLock ------------------------------
(* A lock that serves its users in the order in which they asked for it. *)
EXTENDS Sequences

CONSTANTS Procs, None

VARIABLES
  queue,   \* who asked and has not released yet, in order
  owner    \* who holds the lock

vars == <<queue, owner>>

Init == queue = <<>> /\ owner = None

Request(p) == /\ p \notin {queue[i] : i \in DOMAIN queue}
              /\ queue' = Append(queue, p)
              /\ UNCHANGED owner

Acquire == /\ owner = None /\ queue # <<>>
           /\ owner' = Head(queue)
           /\ UNCHANGED queue

Release == /\ owner # None
           /\ owner' = None
           /\ queue' = Tail(queue)

Next == (\E p \in Procs : Request(p)) \/ Acquire \/ Release

Spec == Init /\ [][Next]_vars
=============================================================================
