--------------------------- MODULE UnboundedBuffer ---------------------------
(***************************************************************************)
(* uSWSR_Ptr_Buffer and its BufferPool (libs/fastflow/ff/ubuffer.hpp): the   *)
(* unbounded channel every FastFlow node uses by default.  It is a chain of  *)
(* bounded channels: the producer writes to buf_w and links a new one when   *)
(* it is full, the consumer reads from buf_r and moves on when it is empty   *)
(* and no longer written to, recycling the old one through a cache.          *)
(*                                                                         *)
(* The bounded channels (buffer.hpp) and the pool's two queues of buffers    *)
(* (dynqueue and buffer.hpp) are used through their promise, a queue whose   *)
(* operations are indivisible; SWSRBuffer and DynQueue show that they keep   *)
(* it.  Everything else is one step per access to shared memory.             *)
(*                                                                         *)
(* The n-th pointer pushed is the number n.                                  *)
(***************************************************************************)
EXTENDS Integers, Sequences, Functions

CONSTANTS Size,       \* slots of a bounded channel
          CacheSize,  \* CACHE_SIZE of the pool
          MaxPush,    \* bound: items pushed in a behaviour
          Modulus     \* 2^w, w the width of in_use_buffers

BoundAssumption ==
  /\ Size \in Nat \ {0} /\ CacheSize \in Nat \ {0} /\ MaxPush \in Nat
  /\ Modulus \in Nat \ {0, 1}

NULL == 0

\* The addresses malloc can return: enough that it never fails.
Buffers == 1 .. (MaxPush + CacheSize + 2)

VARIABLES
  cont,             \* contents of every bounded channel
  live,             \* addresses allocated and not freed
  buf_r, buf_w, in_use_buffers, fixedsize,  \* fields of the class
  inuse, bufcache,  \* fields of the pool: two queues of bounded channels
  pcP, t, regP,     \* producer: next step, the new channel, a machine register
  pcC, tmp, regC,   \* consumer: the same
  sent, rcvd,       \* items pushed and popped so far
  sawEmpty,         \* history: no item was there at some instant of this pop
  answer            \* what the last pop and the last push answered

fields == <<buf_r, buf_w, in_use_buffers, fixedsize>>
pool == <<inuse, bufcache, live>>
producer == <<pcP, t, regP>>
consumer == <<pcC, tmp, regC>>
history == <<sent, rcvd, sawEmpty, answer>>
vars == <<cont, live, buf_r, buf_w, in_use_buffers, fixedsize, inuse, bufcache,
          pcP, t, regP, pcC, tmp, regC, sent, rcvd, sawEmpty, answer>>

emptyChannel(b) == cont[b] = <<>>

available == Len(cont[buf_w]) < Size

Nothing == rcvd = sent

\* The constructor and init(): one channel for both ends; with fillcache the
\* pool starts with CacheSize spare ones.
Init ==
  /\ cont = [b \in Buffers |-> <<>>]
  /\ buf_r = 1 /\ buf_w = 1
  /\ in_use_buffers = 1
  /\ fixedsize \in BOOLEAN
  /\ inuse = <<>>
  /\ \E fillcache \in BOOLEAN :
       bufcache = IF fillcache THEN [i \in 1 .. CacheSize |-> i + 1] ELSE <<>>
  /\ live = {1} \cup {bufcache[i] : i \in DOMAIN bufcache}
  /\ pcP = "idle" /\ t = NULL /\ regP = 0
  /\ pcC = "idle" /\ tmp = NULL /\ regC = 0
  /\ sent = 0 /\ rcvd = 0
  /\ sawEmpty = FALSE
  /\ answer = [push |-> TRUE, pop |-> TRUE]

-----------------------------------------------------------------------------
(* Producer: push *)

\* Where push goes after its test of the channel it writes to.
PushTest ==
  /\ pcP = "idle" /\ sent < MaxPush
  /\ \/ available /\ pcP' = "put" /\ UNCHANGED answer
     \/ ~available /\ fixedsize /\ answer' = [answer EXCEPT !.push = FALSE]
        /\ UNCHANGED pcP
     \/ ~available /\ ~fixedsize /\ pcP' = "next" /\ UNCHANGED answer
  /\ UNCHANGED <<cont, t, regP, sent, rcvd, sawEmpty, fields, pool, consumer>>

\* pool.next_w, first part: a recycled channel, else a new one.
TakeBuffer ==
  /\ pcP = "next"
  /\ IF bufcache # <<>>
     THEN /\ t' = Head(bufcache) /\ bufcache' = Tail(bufcache)
          /\ UNCHANGED <<cont, live>>
     ELSE /\ t' = CHOOSE b \in Buffers : b \notin live
          /\ cont' = [cont EXCEPT ![t'] = <<>>]
          /\ live' = live \cup {t'}
          /\ UNCHANGED bufcache
  /\ pcP' = "link"
  /\ UNCHANGED <<inuse, regP, fields, consumer, history>>

\* pool.next_w, second part: the new channel is linked before it is written to.
LinkBuffer ==
  /\ pcP = "link"
  /\ inuse' = Append(inuse, t)
  /\ pcP' = "switch"
  /\ UNCHANGED <<cont, live, bufcache, t, regP, fields, consumer, history>>

SwitchBuffer ==
  /\ pcP = "switch"
  /\ buf_w' = t
  /\ pcP' = "count"
  /\ UNCHANGED <<cont, buf_r, in_use_buffers, fixedsize, t, regP, pool,
                 consumer, history>>

\* in_use_buffers++ is a plain read and a plain write, as is the consumer's --.
CountRead ==
  /\ pcP = "count"
  /\ regP' = in_use_buffers
  /\ pcP' = "add"
  /\ UNCHANGED <<cont, t, fields, pool, consumer, history>>

CountWrite ==
  /\ pcP = "add"
  /\ in_use_buffers' = (regP + 1) % Modulus
  /\ pcP' = "put" /\ t' = NULL /\ regP' = 0
  /\ UNCHANGED <<cont, buf_r, buf_w, fixedsize, pool, consumer, history>>

\* buf_w->push(data); its answer is not looked at.
Put ==
  /\ pcP = "put"
  /\ cont' = [cont EXCEPT ![buf_w] = IF Len(@) < Size THEN Append(@, sent + 1)
                                     ELSE @]
  /\ sent' = sent + 1
  /\ answer' = [answer EXCEPT !.push = TRUE]
  /\ pcP' = "idle"
  /\ UNCHANGED <<t, regP, rcvd, sawEmpty, fields, pool, consumer>>

-----------------------------------------------------------------------------
(* Consumer: pop *)

\* The first buf_r->empty().
PopTest ==
  /\ pcC = "idle"
  /\ pcC' = IF emptyChannel(buf_r) THEN "compare" ELSE "get"
  /\ sawEmpty' = Nothing
  /\ UNCHANGED <<cont, tmp, regC, sent, rcvd, answer, fields, pool, producer>>

\* if (buf_r == buf_w) return false
PopCompare ==
  /\ pcC = "compare"
  /\ IF buf_r = buf_w
     THEN pcC' = "idle" /\ answer' = [answer EXCEPT !.pop = FALSE]
     ELSE pcC' = "recheck" /\ UNCHANGED answer
  /\ UNCHANGED <<cont, tmp, regC, sent, rcvd, sawEmpty, fields, pool,
                 producer>>

\* if (buf_r->empty()), "we have to check again": the producer may have filled
\* the channel and left it between the first test and the comparison.
PopRecheck ==
  /\ pcC = "recheck"
  /\ pcC' = IF emptyChannel(buf_r) THEN "unlink" ELSE "get"
  /\ UNCHANGED <<cont, tmp, regC, fields, pool, producer, history>>

\* tmp = pool.next_r()
PopUnlink ==
  /\ pcC = "unlink"
  /\ IF inuse # <<>>
     THEN tmp' = Head(inuse) /\ inuse' = Tail(inuse) /\ pcC' = "clear"
     ELSE pcC' = "get" /\ UNCHANGED <<tmp, inuse>>
  /\ UNCHANGED <<cont, live, bufcache, regC, fields, producer, history>>

\* pool.release, first part: buf->reset()
ReleaseReset ==
  /\ pcC = "clear"
  /\ cont' = [cont EXCEPT ![buf_r] = <<>>]
  /\ pcC' = "recycle"
  /\ UNCHANGED <<tmp, regC, fields, pool, producer, history>>

\* pool.release, second part: into the cache, or freed when the cache is full.
ReleaseRecycle ==
  /\ pcC = "recycle"
  /\ IF Len(bufcache) < CacheSize
     THEN bufcache' = Append(bufcache, buf_r) /\ UNCHANGED live
     ELSE live' = live \ {buf_r} /\ UNCHANGED bufcache
  /\ pcC' = "uncount"
  /\ UNCHANGED <<cont, inuse, tmp, regC, fields, producer, history>>

UncountRead ==
  /\ pcC = "uncount"
  /\ regC' = in_use_buffers
  /\ pcC' = "subtract"
  /\ UNCHANGED <<cont, tmp, fields, pool, producer, history>>

UncountWrite ==
  /\ pcC = "subtract"
  /\ in_use_buffers' = (regC - 1) % Modulus
  /\ pcC' = "move" /\ regC' = 0
  /\ UNCHANGED <<cont, buf_r, buf_w, fixedsize, tmp, pool, producer, history>>

\* buf_r = tmp
MoveOn ==
  /\ pcC = "move"
  /\ buf_r' = tmp
  /\ pcC' = "get" /\ tmp' = NULL
  /\ UNCHANGED <<cont, buf_w, in_use_buffers, fixedsize, regC, pool, producer,
                 history>>

\* return buf_r->pop(data)
Get ==
  /\ pcC = "get"
  /\ IF emptyChannel(buf_r)
     THEN /\ answer' = [answer EXCEPT !.pop = FALSE]
          /\ sawEmpty' = (sawEmpty \/ Nothing)
          /\ UNCHANGED <<cont, rcvd>>
     ELSE /\ rcvd' = Head(cont[buf_r])
          /\ cont' = [cont EXCEPT ![buf_r] = Tail(@)]
          /\ answer' = [answer EXCEPT !.pop = TRUE]
          /\ UNCHANGED sawEmpty
  /\ pcC' = "idle"
  /\ UNCHANGED <<tmp, regC, sent, fields, pool, producer>>

-----------------------------------------------------------------------------
\* How many of the linked channels find room in the cache.
recyclable == IF Len(inuse) <= CacheSize - Len(bufcache) THEN Len(inuse)
              ELSE CacheSize - Len(bufcache)

\* reset(), called between runs: both ends emptied, every linked channel back
\* to the pool.  The count of channels in use is left as it is.
reset ==
  /\ pcP = "idle" /\ pcC = "idle"
  /\ cont' = [b \in Buffers |->
                IF b \in {buf_r, buf_w} \cup {inuse[i] : i \in DOMAIN inuse}
                THEN <<>> ELSE cont[b]]
  /\ buf_w' = buf_r
  /\ inuse' = <<>>
  /\ bufcache' = bufcache \o SubSeq(inuse, 1, recyclable)
  /\ live' = live \ {inuse[i] : i \in recyclable + 1 .. Len(inuse)}
  /\ rcvd' = sent
  /\ UNCHANGED <<buf_r, in_use_buffers, fixedsize, sent, sawEmpty, answer,
                 producer, consumer>>

Push == PushTest \/ TakeBuffer \/ LinkBuffer \/ SwitchBuffer \/ CountRead
        \/ CountWrite \/ Put

Pop == PopTest \/ PopCompare \/ PopRecheck \/ PopUnlink \/ ReleaseReset
       \/ ReleaseRecycle \/ UncountRead \/ UncountWrite \/ MoveOn \/ Get

Next == Push \/ Pop \/ reset

Spec == Init /\ [][Next]_vars

\* Both threads keep running; reset is never forced.
FairSpec == Spec /\ WF_vars(Push) /\ WF_vars(Pop)

-----------------------------------------------------------------------------
(* Properties *)

\* Type correctness: no channel holds more than its slots, the pool's cache no
\* more than CACHE_SIZE channels, and pop delivers nothing that was not pushed.
TypeOK ==
  /\ cont \in [Buffers -> Seq(1 .. MaxPush)]
  /\ \A b \in Buffers : Len(cont[b]) <= Size
  /\ live \subseteq Buffers
  /\ buf_r \in Buffers /\ buf_w \in Buffers
  /\ in_use_buffers \in 0 .. Modulus - 1 /\ fixedsize \in BOOLEAN
  /\ inuse \in Seq(Buffers) /\ bufcache \in Seq(Buffers)
  /\ Len(bufcache) <= CacheSize
  /\ pcP \in {"idle", "next", "link", "switch", "count", "add", "put"}
  /\ pcC \in {"idle", "compare", "recheck", "unlink", "clear", "recycle",
              "uncount", "subtract", "move", "get"}
  /\ t \in Buffers \cup {NULL} /\ tmp \in Buffers \cup {NULL}
  /\ regP \in 0 .. Modulus - 1 /\ regC \in 0 .. Modulus - 1
  /\ sent \in 0 .. MaxPush /\ rcvd \in 0 .. sent
  /\ sawEmpty \in BOOLEAN
  /\ answer \in [push : BOOLEAN, pop : BOOLEAN]

\* The channels the consumer has still to read, in reading order.  Once it has
\* given its channel back it reads from tmp.
given == pcC \in {"uncount", "subtract", "move"}
holding == pcC \in {"clear", "recycle", "uncount", "subtract", "move"}
ahead == (IF holding THEN <<tmp>> ELSE <<>>) \o inuse
chain == (IF given THEN <<>> ELSE <<buf_r>>) \o ahead

\* Along the chain of channels lie exactly the items pushed and not yet popped,
\* in the order they were pushed: none is lost when a channel is left, none is
\* read twice, and no order is broken at a boundary.
ChainHoldsQueue ==
  /\ UNION {Range(cont[b]) : b \in Range(chain)} = rcvd + 1 .. sent
  /\ \A b \in Range(chain) : \A i, j \in 1 .. Len(cont[b]) : i < j => cont[b][i] < cont[b][j]
  /\ \A i, j \in 1 .. Len(chain) : i < j =>
       \A x \in Range(cont[chain[i]]), y \in Range(cont[chain[j]]) : x < y

\* A channel the producer has taken and not yet linked.
Linking == IF pcP = "link" THEN {t} ELSE {}

\* Every allocated channel has exactly one owner: it is on the chain, in the
\* cache, or in the hands of one thread.  So nothing is freed while it can still
\* be read or written, and a recycled channel comes back empty.
OneOwner ==
  /\ IsInjective(chain) /\ IsInjective(bufcache)
  /\ Range(chain) \cap Range(bufcache) = {}
  /\ (Range(chain) \cup Range(bufcache)) \cap Linking = {}
  /\ live = Range(chain) \cup Range(bufcache) \cup Linking
  /\ \A b \in Range(bufcache) : emptyChannel(b)
  /\ buf_w = IF pcP = "switch" THEN chain[Len(chain) - 1] ELSE chain[Len(chain)]

\* The consumer never answers "nothing" because it looked at the wrong channel:
\* at some instant of the call the queue was empty.
TruthfulMiss == pcC = "idle" /\ ~answer.pop => sawEmpty

\* What the two threads may not make of the channels, together.
QueuesHoldItems == TypeOK /\ ChainHoldsQueue /\ OneOwner /\ TruthfulMiss

\* Every item pushed is popped in the end, however many channels lie between: the
\* consumer catches up again and again.
Delivered == []<>(rcvd = sent)

\* The assertion in length(), for a caller that finds the channel at rest: with
\* different channels at the two ends more than two are in use.
LengthAssertion ==
  pcP = "idle" /\ pcC = "idle" /\ buf_r # buf_w => in_use_buffers > 2
=============================================================================
