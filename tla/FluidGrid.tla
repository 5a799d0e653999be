------------------------------ MODULE FluidGrid ------------------------------
(***************************************************************************)
(* fluidanimate on pthreads (fluidanimate/src/pthreads.cpp).  The domain is  *)
(* a grid of cells, each a list of particles; it is cut into one block per   *)
(* thread.  A frame is ten phases with a barrier behind each.  Threads meet  *)
(* only where blocks touch: particles move into cells of another block and   *)
(* act on particles there.  Those cells are marked as border and are locked; *)
(* the others are used without.                                              *)
(*                                                                         *)
(* An access to another particle's data, or to a cell that is being filled,  *)
(* is atomic under the lock and otherwise a load and a store with anything   *)
(* in between.  A phase that touches only the cells of its own block is one  *)
(* step.  Of positions only the cell matters, and all particles of touching  *)
(* cells are near; of sums, who has contributed.                             *)
(***************************************************************************)
EXTENDS Naturals, FiniteSets

CONSTANTS NX, NY, NZ,           \* cells in each direction
          XDIVS, ZDIVS,         \* blocks in each direction
          Particles,            \* numbered as they are in the file
          PARTICLES_PER_CELL,   \* what fits into the head of a cell's list
          Frames                \* the number of frames

GridAssumption ==
  /\ {NX, NY, NZ, XDIVS, ZDIVS, PARTICLES_PER_CELL} \subseteq Nat \ {0}
  /\ NX >= XDIVS /\ NZ >= ZDIVS
  /\ Particles \subseteq Nat /\ Frames \in Nat

Cells == (0 .. NX - 1) \X (0 .. NY - 1) \X (0 .. NZ - 1)
index(c) == (c[3] * NY + c[2]) * NX + c[1]
Threads == 0 .. XDIVS * ZDIVS - 1

\* Rounded borders of the blocks: (int)(n / divs * i + 0.5).
cut(n, divs, i) == (2 * n * i + divs) \div (2 * divs)

\* The block of cells of a thread.
grid(t) ==
  LET i == t \div ZDIVS
      j == t % ZDIVS
  IN  {c \in Cells : /\ cut(NX, XDIVS, i) <= c[1] /\ c[1] < cut(NX, XDIVS, i + 1)
                     /\ cut(NZ, ZDIVS, j) <= c[3] /\ c[3] < cut(NZ, ZDIVS, j + 1)}
owner(c) == CHOOSE t \in Threads : c \in grid(t)

close(a, b) == a <= b + 1 /\ b <= a + 1
touch(c, d) == \A k \in 1 .. 3 : close(c[k], d[k])

\* Seeded fault: only the cells behind this one are looked at.
borderBehind(c) == \E d \in Cells : touch(c, d) /\ index(d) < index(c) /\ owner(d) # owner(c)

\* border: cells that touch a cell of another block.
border(c) == \E d \in Cells : touch(c, d) /\ owner(d) # owner(c)

VARIABLES
  at,                  \* the cell a particle's position is in
  cells, cnumPars,     \* the lists being filled: particle by slot, and slots in use
  cells2, cnumPars2,   \* those of the frame before
  density, a,          \* per particle, how often each other has contributed
  collided,            \* the particles ProcessCollisions looked at in this frame
  phase,               \* per thread: the number of phases it has begun, of all frames
  todo,                \* per thread: what is left of its phase
  reg                  \* per thread: what it has loaded, or the slot to copy to

vars == <<at, cells, cnumPars, cells2, cnumPars2, density, a, collided, phase,
          todo, reg>>
lists == <<cells, cnumPars, cells2, cnumPars2>>
sums == <<density, a>>

Zero == [p \in Particles |-> [q \in Particles |-> 0]]
Idle == [at |-> "idle"]

\* The particles of a cell in file order, as InitSim puts them into the lists.
rank(where, p) == Cardinality({q \in Particles : where[q] = where[p] /\ q <= p})
filled(where) ==
  [c \in Cells |-> [s \in 1 .. Cardinality({p \in Particles : where[p] = c}) |->
     CHOOSE p \in Particles : where[p] = c /\ rank(where, p) = s]]

\* InitSim
Init ==
  /\ at \in [Particles -> Cells]
  /\ cells = filled(at)
  /\ cnumPars = [c \in Cells |-> Cardinality({p \in Particles : at[p] = c})]
  /\ cells2 = [c \in Cells |-> <<>>] /\ cnumPars2 = [c \in Cells |-> 0]
  /\ density = Zero /\ a = Zero
  /\ collided = {}
  /\ phase = [t \in Threads |-> 0]
  /\ todo = [t \in Threads |-> {}] /\ reg = [t \in Threads |-> Idle]

-----------------------------------------------------------------------------
(* The phases of a frame and the barrier between them *)

Phases == <<"swap", "clear", "rebuild", "init", "densities", "densities2", "forces",
            "collisions", "advance", "collisions2">>
NPhases == 10

\* The phase a thread is in, "done" before the first.
now(t) == IF phase[t] = 0 THEN "done" ELSE Phases[((phase[t] - 1) % NPhases) + 1]

finished(t) == todo[t] = {} /\ reg[t] = Idle

\* pthread_barrier_wait: all have finished the phase this one has finished.
pass(t) == \A u \in Threads : phase[u] > phase[t] \/ (phase[u] = phase[t] /\ finished(u))

\* The thread may begin phase ph.
Begin(t, ph) ==
  /\ finished(t) /\ pass(t)
  /\ phase[t] < Frames * NPhases /\ Phases[(phase[t] % NPhases) + 1] = ph
  /\ phase' = [phase EXCEPT ![t] = @ + 1]

own(t) == {p \in Particles : \E c \in grid(t) : \E s \in 1 .. cnumPars[c] : cells[c][s] = p}

\* Thread 0 swaps the lists of this frame and of the one before.
Swap(t) ==
  /\ Begin(t, "swap")
  /\ IF t = 0 THEN /\ cells' = cells2 /\ cells2' = cells
                   /\ cnumPars' = cnumPars2 /\ cnumPars2' = cnumPars
     ELSE UNCHANGED lists
  /\ UNCHANGED <<at, sums, collided, todo, reg>>

ClearParticlesMT(t) ==
  /\ Begin(t, "clear")
  /\ cnumPars' = [c \in Cells |-> IF c \in grid(t) THEN 0 ELSE cnumPars[c]]
  /\ cells' = [c \in Cells |-> IF c \in grid(t) THEN <<>> ELSE cells[c]]
  /\ UNCHANGED <<at, cells2, cnumPars2, sums, collided, todo, reg>>

\* Source cells in the order of their index, slots in order.
RebuildGridMT(t) ==
  /\ Begin(t, "rebuild")
  /\ todo' = [todo EXCEPT ![t] =
       UNION {{<<index(c), s, cells2[c][s]>> : s \in 1 .. cnumPars2[c]} : c \in grid(t)}]
  /\ UNCHANGED <<at, lists, sums, collided, reg>>

InitDensitiesAndForcesMT(t) ==
  /\ Begin(t, "init")
  /\ density' = [p \in Particles |-> IF p \in own(t) THEN Zero[p] ELSE density[p]]
  /\ a' = [p \in Particles |-> IF p \in own(t) THEN Zero[p] ELSE a[p]]
  /\ UNCHANGED <<at, lists, collided, todo, reg>>

\* InitNeighCellList: the cell itself, and those that touch it, are before it and
\* not empty.
neighCells(c) ==
  {c} \cup {d \in Cells : touch(c, d) /\ index(d) < index(c) /\ cnumPars[d] # 0}

\* What the loops of ComputeDensitiesMT and ComputeForcesMT visit: the cell, its
\* particle's slot, the neighbour cell, its particle's slot.
visits(t) ==
  UNION {UNION {{<<c, i, d, j>> : i \in 1 .. cnumPars[c], j \in 1 .. cnumPars[d]} :
                d \in neighCells(c)} : c \in grid(t)}

ComputeDensitiesMT(t) ==
  /\ Begin(t, "densities")
  /\ todo' = [todo EXCEPT ![t] = visits(t)]
  /\ UNCHANGED <<at, lists, sums, collided, reg>>

\* Own particles only; nothing of it is kept here.
ComputeDensities2MT(t) ==
  /\ Begin(t, "densities2")
  /\ UNCHANGED <<at, lists, sums, collided, todo, reg>>

ComputeForcesMT(t) ==
  /\ Begin(t, "forces")
  /\ todo' = [todo EXCEPT ![t] = visits(t)]
  /\ UNCHANGED <<at, lists, sums, collided, reg>>

\* The cells ProcessCollisionsMT does not pass over; the last comparison is written
\* with == where the others are joined with ||.
processed(c) ==
  \/ c[1] = 0 \/ c[2] = 0 \/ c[3] = 0 \/ c[1] = NX - 1
  \/ (c[2] = NY - 1) = (c[3] = NZ - 1)

ProcessCollisionsMT(t) ==
  /\ Begin(t, "collisions")
  /\ collided' = collided \cup {p \in own(t) : processed(at[p])}
  /\ UNCHANGED <<at, lists, sums, todo, reg>>

\* A particle moves by no more than a cell (the CFL condition).
AdvanceParticlesMT(t) ==
  /\ Begin(t, "advance")
  /\ \E to \in [own(t) -> Cells] :
       /\ \A p \in own(t) : touch(to[p], at[p])
       /\ at' = [p \in Particles |-> IF p \in own(t) THEN to[p] ELSE at[p]]
  /\ collided' = collided \ own(t)
  /\ UNCHANGED <<lists, sums, todo, reg>>

\* Particles beyond a wall are reflected; they stay in their cell.
ProcessCollisions2MT(t) ==
  /\ Begin(t, "collisions2")
  /\ UNCHANGED <<at, lists, sums, collided, todo, reg>>

-----------------------------------------------------------------------------
(* Inside RebuildGridMT *)

\* The particle the loop comes to next.
nextMove(t) ==
  CHOOSE m \in todo[t] : \A n \in todo[t] : m[1] < n[1] \/ (m[1] = n[1] /\ m[2] <= n[2])

dest(t) == at[nextMove(t)[3]]

\* np = cnumPars[index]; ++cnumPars[index], under the lock of a border cell ...
Claim(t) ==
  /\ now(t) = "rebuild" /\ todo[t] # {} /\ reg[t] = Idle
  /\ IF border(dest(t))
     THEN /\ cnumPars' = [cnumPars EXCEPT ![dest(t)] = @ + 1]
          /\ reg' = [reg EXCEPT ![t] = [at |-> "copy", np |-> cnumPars[dest(t)]]]
     ELSE /\ reg' = [reg EXCEPT ![t] = [at |-> "count", np |-> cnumPars[dest(t)]]]
          /\ UNCHANGED cnumPars
  /\ UNCHANGED <<at, cells, cells2, cnumPars2, sums, collided, phase, todo>>

\* ... or in two accesses elsewhere;
Count(t) ==
  /\ reg[t].at = "count"
  /\ cnumPars' = [cnumPars EXCEPT ![dest(t)] = reg[t].np + 1]
  /\ reg' = [reg EXCEPT ![t].at = "copy"]
  /\ UNCHANGED <<at, cells, cells2, cnumPars2, sums, collided, phase, todo>>

\* then the particle is copied to its slot, the lock being free again.
Copy(t) ==
  LET s == reg[t].np + 1
      c == dest(t)
  IN  /\ reg[t].at = "copy"
      /\ cells' = [cells EXCEPT ![c] =
                     [i \in DOMAIN @ \cup {s} |-> IF i = s THEN nextMove(t)[3] ELSE @[i]]]
      /\ todo' = [todo EXCEPT ![t] = @ \ {nextMove(t)}]
      /\ reg' = [reg EXCEPT ![t] = Idle]
      /\ UNCHANGED <<at, cnumPars, cells2, cnumPars2, sums, collided, phase>>

-----------------------------------------------------------------------------
(* Inside ComputeDensitiesMT and ComputeForcesMT *)

\* The heads of the lists are an array in the order of the cells; the rest of a
\* list is wherever the pools took it from.
inHead(s) == s <= PARTICLES_PER_CELL

\* &neigh->p[...] < &cell->p[...]: in one list the slots are compared both ways
\* round, so that their order does not matter.  Between two lists the outcome is
\* open as soon as one of the particles is not in the head.
below(d, j, c, i) ==
  IF d = c THEN {j < i}
  ELSE IF inHead(i) /\ inHead(j) THEN {index(d) < index(c)} ELSE BOOLEAN

\* The next pair: of no interest, or the particle and its neighbour get a
\* contribution of each other.
Pair(t) ==
  LET v == CHOOSE v \in todo[t] : TRUE
      p == cells[v[1]][v[2]]
      q == cells[v[3]][v[4]]
  IN  /\ now(t) \in {"densities", "forces"} /\ todo[t] # {} /\ reg[t] = Idle
      /\ \E add \in below(v[3], v[4], v[1], v[2]) :
           reg' = IF add THEN [reg EXCEPT ![t] = [at |-> "first", to |-> p, of |-> q]]
                  ELSE reg
      /\ todo' = [todo EXCEPT ![t] = @ \ {v}]
      /\ UNCHANGED <<at, lists, sums, collided, phase>>

\* The particle has its contribution; its neighbour is next.
after(r) == IF r.at \in {"first", "firstStore"}
            THEN [at |-> "second", to |-> r.of, of |-> r.to] ELSE Idle

\* The sum of r.to with one more contribution of r.of.
plus(sum, r) == [sum EXCEPT ![r.to][r.of] = @ + 1]
store(sum, r) == [sum EXCEPT ![r.to] = [r.old EXCEPT ![r.of] = @ + 1]]

\* cell->density += tc, or a += acc: at once under the mutex of a border cell, and
\* otherwise a load ...
Add(t) ==
  LET r == reg[t]
      inForces == now(t) = "forces"
  IN  /\ r.at \in {"first", "second"}
      /\ IF border(at[r.to])
         THEN /\ density' = IF inForces THEN density ELSE plus(density, r)
              /\ a' = IF inForces THEN plus(a, r) ELSE a
              /\ reg' = [reg EXCEPT ![t] = after(r)]
         ELSE /\ reg' = [reg EXCEPT ![t] =
                           [at |-> IF r.at = "first" THEN "firstStore" ELSE "secondStore",
                            to |-> r.to, of |-> r.of,
                            old |-> IF inForces THEN a[r.to] ELSE density[r.to]]]
              /\ UNCHANGED sums
      /\ UNCHANGED <<at, lists, collided, phase, todo>>

\* ... and a store.
Store(t) ==
  LET r == reg[t]
      inForces == now(t) = "forces"
  IN  /\ r.at \in {"firstStore", "secondStore"}
      /\ density' = IF inForces THEN density ELSE store(density, r)
      /\ a' = IF inForces THEN store(a, r) ELSE a
      /\ reg' = [reg EXCEPT ![t] = after(r)]
      /\ UNCHANGED <<at, lists, collided, phase, todo>>

-----------------------------------------------------------------------------
AdvanceFrameMT(t) ==
  \/ Swap(t) \/ ClearParticlesMT(t)
  \/ RebuildGridMT(t) \/ Claim(t) \/ Count(t) \/ Copy(t)
  \/ InitDensitiesAndForcesMT(t)
  \/ ComputeDensitiesMT(t) \/ Pair(t) \/ Add(t) \/ Store(t)
  \/ ComputeDensities2MT(t) \/ ComputeForcesMT(t)
  \/ ProcessCollisionsMT(t) \/ AdvanceParticlesMT(t) \/ ProcessCollisions2MT(t)

Joined == \A t \in Threads : phase[t] = Frames * NPhases /\ finished(t)

Next == (\E t \in Threads : AdvanceFrameMT(t)) \/ (Joined /\ UNCHANGED vars)

Spec == Init /\ [][Next]_vars

FairSpec == Spec /\ WF_vars(Next)

-----------------------------------------------------------------------------
(* Properties *)

\* Type correctness.
TypeOK ==
  /\ at \in [Particles -> Cells] /\ collided \subseteq Particles
  /\ phase \in [Threads -> 0 .. Frames * NPhases]
  /\ cnumPars \in [Cells -> 0 .. Cardinality(Particles)]
  /\ \A t, u \in Threads : close(phase[t], phase[u])

\* A thread is in one of these phases, and no particle has moved yet.
In(ph) == (\E t \in Threads : now(t) \in ph) /\ \A t \in Threads : now(t) # "advance"

\* Once a barrier stands behind RebuildGridMT and until particles move, the lists
\* hold every particle once, in the cell where it is.
GridHolds ==
  In({"init", "densities", "densities2", "forces", "collisions"}) =>
    /\ \A c \in Cells : \A s \in 1 .. cnumPars[c] :
         s \in DOMAIN cells[c] /\ at[cells[c][s]] = c
    /\ \A p \in Particles : \E s \in 1 .. cnumPars[at[p]] :
         /\ cells[at[p]][s] = p
         /\ \A r \in 1 .. cnumPars[at[p]] : cells[at[p]][r] = p => r = s

slotOf(p) == CHOOSE s \in 1 .. cnumPars[at[p]] : cells[at[p]][s] = p

near(p, q) == p # q /\ touch(at[p], at[q])

\* When a phase of sums is over, no contribution is lost, doubled or one-sided: near
\* particles have counted each other once, or neither has if one of them is not in
\* the head of its list.
Complete(sum) ==
  \A p, q \in Particles :
    /\ sum[p][q] = sum[q][p]
    /\ sum[p][q] = 1 \/ (sum[p][q] = 0 /\
         (near(p, q) => at[p] # at[q] /\ ~(inHead(slotOf(p)) /\ inHead(slotOf(q)))))
    /\ ~near(p, q) => sum[p][q] = 0

\* Forces are computed from densities to which every thread has contributed, and
\* particles move when all forces have been added.
SumsComplete ==
  /\ In({"densities2", "forces"}) => Complete(density)
  /\ In({"collisions"}) => Complete(a)

\* "Check address to make sure densities are computed only once per pair": the pair
\* is computed.
EveryPairCounted ==
  In({"densities2"}) => \A p, q \in Particles : near(p, q) => density[p][q] = 1

wall(c) == c[1] \in {0, NX - 1} \/ c[2] \in {0, NY - 1} \/ c[3] \in {0, NZ - 1}

\* "not on domain wall": only cells that are not on a wall are passed over when
\* particles collide with the walls.
WallsAct ==
  \A t \in Threads : now(t) = "collisions" =>
    \A p \in own(t) : wall(at[p]) => p \in collided

=============================================================================
