----------------------------- MODULE StreamGain -----------------------------
(***************************************************************************)
(* pgain of streamcluster on pthreads: all threads together find out what    *)
(* opening a center at point x would save and do it if it saves anything.    *)
(* The threads own blocks of points and pass nine barriers; between two of   *)
(* them each works on its block and on its part of a shared work array, and  *)
(* thread 0 adds up what the others left there.  Several calls follow each   *)
(* other as in pFL, with the points feasible in some order.                  *)
(*                                                                         *)
(* Points are integers on a line, distances their squared difference, every  *)
(* weight is 1.  The initial state is what pspeedy leaves.                   *)
(***************************************************************************)
EXTENDS Integers, FiniteSets, FiniteSetsExt

CONSTANTS nproc, num,   \* threads and points
          Positions,    \* sequences of points: functions from 0..num-1
          Costs,        \* facility costs
          Calls,        \* calls of pgain
          Line          \* CACHE_LINE / sizeof(double)

GainAssumption == /\ nproc \in Nat \ {0} /\ num \in Nat \ {0}
                  /\ Positions \subseteq [0..(num - 1) -> Int]
                  /\ Costs \subseteq Nat \ {0}
                  /\ Calls \in Nat \ {0} /\ Line \in Nat \ {0}

Pid == 0..(nproc - 1)
Points == 0..(num - 1)

VARIABLES coord, z, xs,      \* the points, the facility cost, the calls to come
          step,              \* barriers each thread has passed
          cost, assign, is_center, numcenters,  \* the solution
          center_table, switch_membership,
          work_mem,          \* per thread, one row more for the sums
          gl_cost, gl_close, \* gl_cost_of_opening_x, gl_number_of_centers_to_close
          mine,              \* cost_of_opening_x of each thread
          returned,          \* what the calls returned to each thread
          before             \* total cost at the start of a call

vars == <<coord, z, xs, step, cost, assign, is_center, numcenters, center_table,
          switch_membership, work_mem, gl_cost, gl_close, mine, returned, before>>
input == <<coord, z, xs>>
solution == <<cost, assign, is_center, numcenters>>

dist(i, j) == (coord[i] - coord[j]) * (coord[i] - coord[j])

bsize == num \div nproc

\* My block: the last thread takes the rest.
Block(p) == (bsize * p)..(IF p = nproc - 1 THEN num - 1 ELSE bsize * (p + 1) - 1)

\* The width of a row of work_mem: a field for every center and two more,
\* rounded up to whole cache lines; K is the place of the two.
stride == LET wanted == numcenters + 2
          IN IF wanted % Line = 0 THEN wanted ELSE Line * (wanted \div Line + 1)
K == stride - 2

Phases == 9
Phase(p) == step[p] % Phases
Call(p) == step[p] \div Phases
x(p) == xs[Call(p)]

\* pthread_barrier_wait before every phase.
Ready(p) == \A q \in Pid : step[q] >= step[p]
Pass(p) == step' = [step EXCEPT ![p] = @ + 1]

CentersOf(S) == {i \in S : is_center[i]}
TotalCost == MapThenSumSet(LAMBDA i : cost[i], Points) + z * numcenters

\* pspeedy's result for the opened centers C: each point with the first of the
\* nearest.
NearestOf(co, C, i) == CHOOSE c \in C :
    \A d \in C : LET dc == (co[i] - co[c]) * (co[i] - co[c])
                     dd == (co[i] - co[d]) * (co[i] - co[d])
                 IN dc < dd \/ (dc = dd /\ c <= d)

Init == /\ coord \in Positions /\ z \in Costs /\ xs \in [0..(Calls - 1) -> Points]
        /\ \E C \in SUBSET Points :
             /\ 0 \in C /\ \A c, d \in C : coord[c] = coord[d] => c = d
             /\ is_center = [i \in Points |-> i \in C]
             /\ assign = [i \in Points |-> NearestOf(coord, C, i)]
             /\ cost = [i \in Points |-> dist(i, assign[i])]
             /\ numcenters = Cardinality(C)
        /\ step = [p \in Pid |-> 0]
        /\ center_table = [i \in Points |-> 0]
        /\ switch_membership = [i \in Points |-> FALSE]
        /\ work_mem = <<>>
        /\ gl_cost = 0 /\ gl_close = 0 /\ mine = [p \in Pid |-> 0]
        /\ returned = [p \in Pid |-> [c \in 0..(Calls - 1) |-> 0]]
        /\ before = TotalCost

-----------------------------------------------------------------------------
\* Lines 1257-1273: thread 0 allocates (the memory is not cleared).
Allocate(p) ==
    /\ IF p = 0 THEN /\ work_mem' = [q \in 0..nproc |-> [f \in 0..(stride - 1) |-> 0]]
                     /\ gl_cost' = 0 /\ gl_close' = 0
                     /\ before' = TotalCost
                ELSE UNCHANGED <<work_mem, gl_cost, gl_close, before>>
    /\ mine' = [mine EXCEPT ![p] = 0]
    /\ UNCHANGED <<solution, center_table, switch_membership, returned>>

\* Lines 1284-1290: number the centers of the block.
Rank(i, S) == Cardinality({j \in CentersOf(S) : j < i})
Count(p) ==
    /\ center_table' = [i \in Points |->
                          IF i \in CentersOf(Block(p)) THEN Rank(i, Block(p)) ELSE center_table[i]]
    /\ work_mem' = [work_mem EXCEPT ![p][0] = Cardinality(CentersOf(Block(p)))]
    /\ UNCHANGED <<solution, switch_membership, gl_cost, gl_close, mine, returned, before>>

\* Lines 1296-1303: the first number of each block.
Offset(p) ==
    /\ IF p = 0
       THEN work_mem' = [q \in 0..nproc |->
              IF q \in Pid
              THEN [work_mem[q] EXCEPT ![0] = MapThenSumSet(LAMBDA r : work_mem[r][0], 0..(q - 1))]
              ELSE work_mem[q]]
       ELSE UNCHANGED work_mem
    /\ UNCHANGED <<solution, center_table, switch_membership, gl_cost, gl_close, mine,
                   returned, before>>

\* Seeded fault: switch_membership keeps the marks of the call before.
TableKeepsMarks(p) ==
    /\ center_table' = [i \in Points |-> IF i \in CentersOf(Block(p))
                                         THEN center_table[i] + work_mem[p][0]
                                         ELSE center_table[i]]
    /\ work_mem' = [q \in 0..nproc |-> IF q = p \/ (p = 0 /\ q = nproc)
                                       THEN [f \in 0..(stride - 1) |-> 0] ELSE work_mem[q]]
    /\ UNCHANGED <<solution, switch_membership, gl_cost, gl_close, mine, returned, before>>

\* Lines 1309-1318: the table is complete, the work array is cleared.
Table(p) ==
    /\ center_table' = [i \in Points |-> IF i \in CentersOf(Block(p))
                                         THEN center_table[i] + work_mem[p][0]
                                         ELSE center_table[i]]
    /\ switch_membership' = [i \in Points |-> i \notin Block(p) /\ switch_membership[i]]
    /\ work_mem' = [q \in 0..nproc |-> IF q = p \/ (p = 0 /\ q = nproc)
                                       THEN [f \in 0..(stride - 1) |-> 0] ELSE work_mem[q]]
    /\ UNCHANGED <<solution, gl_cost, gl_close, mine, returned, before>>

\* Lines 1331-1358: points that are closer to x switch; the others tell what
\* it would take from the savings to move them with their center.
Switches(p, i) == dist(i, x(p)) < cost[i]
Lower(p) ==
    LET S == {i \in Block(p) : Switches(p, i)}
    IN /\ switch_membership' = [i \in Points |-> i \in S \/ switch_membership[i]]
       /\ mine' = [mine EXCEPT ![p] = @ + MapThenSumSet(LAMBDA i : dist(i, x(p)) - cost[i], S)]
       /\ work_mem' = [work_mem EXCEPT ![p] = [f \in DOMAIN @ |-> @[f] +
             MapThenSumSet(LAMBDA i : cost[i] - dist(i, x(p)),
                           {i \in Block(p) \ S : center_table[assign[i]] = f})]]
    /\ UNCHANGED <<solution, center_table, gl_cost, gl_close, returned, before>>

\* Lines 1370-1390: what closing each center of the block saves.
low(i) == z + MapThenSumSet(LAMBDA q : work_mem[q][center_table[i]], Pid)
SaveCosts(p) ==
    LET C == CentersOf(Block(p))
        closing == {i \in C : low(i) > 0}
        total == mine[p] - MapThenSumSet(LAMBDA i : low(i), closing)
    IN /\ mine' = [mine EXCEPT ![p] = total]
       /\ work_mem' = [q \in 0..nproc |->
            IF q = p THEN [work_mem[q] EXCEPT ![K] = Cardinality(closing), ![K + 1] = total]
            ELSE IF q = nproc
            THEN [f \in DOMAIN work_mem[q] |->
                    IF \E i \in C : center_table[i] = f
                    THEN low(CHOOSE i \in C : center_table[i] = f) ELSE work_mem[q][f]]
            ELSE work_mem[q]]
    /\ UNCHANGED <<solution, center_table, switch_membership, gl_cost, gl_close, returned, before>>

\* Lines 1403-1410.
SumUp(p) ==
    /\ IF p = 0
       THEN /\ gl_close' = gl_close + MapThenSumSet(LAMBDA q : work_mem[q][K], Pid)
            /\ gl_cost' = z + MapThenSumSet(LAMBDA q : work_mem[q][K + 1], Pid)
       ELSE UNCHANGED <<gl_close, gl_cost>>
    /\ UNCHANGED <<solution, center_table, switch_membership, work_mem, mine, returned, before>>

Closes(i) == work_mem[nproc][center_table[i]] > 0

\* Lines 1417-1447: open x, close centers, move points, or do nothing.
Apply(p) ==
    /\ IF gl_cost < 0
       THEN LET moved == {i \in Block(p) : switch_membership[i] \/ Closes(assign[i])}
            IN /\ cost' = [i \in Points |-> IF i \in moved THEN dist(i, x(p)) ELSE cost[i]]
               /\ assign' = [i \in Points |-> IF i \in moved THEN x(p) ELSE assign[i]]
               /\ is_center' = [i \in Points |->
                    IF i \notin Block(p) THEN is_center[i]
                    ELSE i = x(p) \/ (is_center[i] /\ ~Closes(i))]
               /\ numcenters' = IF p = 0 THEN numcenters + 1 - gl_close ELSE numcenters
               /\ UNCHANGED gl_cost
       ELSE /\ gl_cost' = IF p = 0 THEN 0 ELSE gl_cost
            /\ UNCHANGED solution
    /\ UNCHANGED <<center_table, switch_membership, work_mem, gl_close, mine, returned, before>>

\* Lines 1451-1459.
Return(p) ==
    /\ work_mem' = IF p = 0 THEN <<>> ELSE work_mem
    /\ returned' = [returned EXCEPT ![p][Call(p)] = -gl_cost]
    /\ UNCHANGED <<solution, center_table, switch_membership, gl_cost, gl_close, mine, before>>

pgain(p) ==
    /\ Call(p) < Calls /\ Ready(p)
    /\ Pass(p) /\ UNCHANGED input
    /\ \/ Phase(p) = 0 /\ Allocate(p)
       \/ Phase(p) = 1 /\ Count(p)
       \/ Phase(p) = 2 /\ Offset(p)
       \/ Phase(p) = 3 /\ Table(p)
       \/ Phase(p) = 4 /\ Lower(p)
       \/ Phase(p) = 5 /\ SaveCosts(p)
       \/ Phase(p) = 6 /\ SumUp(p)
       \/ Phase(p) = 7 /\ Apply(p)
       \/ Phase(p) = 8 /\ Return(p)

Next == \E p \in Pid : pgain(p)

Spec == Init /\ [][Next]_vars

-----------------------------------------------------------------------------
\* Between calls, when no thread is inside one.
AtRest == \A p, q \in Pid : Phase(p) = 0 /\ step[p] = step[q]

\* The solution is one: every point is assigned to a center at the cost of the
\* distance, a center to itself, and numcenters counts the centers.
Solution ==
    AtRest => /\ numcenters = Cardinality(CentersOf(Points))
              /\ \A i \in Points : /\ is_center[assign[i]]
                                   /\ cost[i] = dist(i, assign[i])
                                   /\ is_center[i] => cost[i] = 0

\* pgain returns "the amount of cost saved" (line 912), the same to all
\* threads: the total cost afterwards is smaller by just that.
SavingIsReturned ==
    (AtRest /\ step[0] > 0) =>
        \A p \in Pid : /\ returned[p][Call(p) - 1] >= 0
                       /\ TotalCost = before - returned[p][Call(p) - 1]

\* The cost of opening x as lines 904-909 describe it, of the whole solution.
CostOfOpening(at) ==
    LET d(i) == dist(i, at)
        stay == {i \in Points : d(i) >= cost[i]}
        saves(c) == z - MapThenSumSet(LAMBDA i : d(i) - cost[i], {i \in stay : assign[i] = c})
    IN z + MapThenSumSet(LAMBDA i : d(i) - cost[i], Points \ stay)
         - MapThenSumSet(LAMBDA c : saves(c), {c \in CentersOf(Points) : saves(c) > 0})

\* What thread 0 adds up from the rows of the work array is that cost, whatever
\* the blocks and the order in which the threads filled the rows.
SumIsCost == (Phase(0) = 7 /\ \A p \in Pid : step[p] = step[0]) => gl_cost = CostOfOpening(x(0))

\* Rows do not overlap what other threads still read: fields stay below K, and
\* no two centers share one.
OneFieldPerCenter ==
    (\A p \in Pid : Phase(p) \in {4, 5, 6}) =>
        \A i, j \in CentersOf(Points) :
            /\ center_table[i] < K
            /\ center_table[i] = center_table[j] => i = j
=============================================================================
