------------------------------ MODULE FreqMine ------------------------------
(****************************************************************************)
(* freqmine on OpenMP (freqmine/src/fp_tree.cpp, fpmax.cpp).  Three loops are  *)
(* shared out among the threads, an index at a time, with a barrier behind     *)
(* each: the chunks of the file are translated into hot sets and other items;  *)
(* the transactions of a group of hot sets become parts of the first tree; the *)
(* items are mined, last one first.  Between them one thread sorts, groups and *)
(* writes the array.                                                         *)
(*                                                                          *)
(* In the first two loops an index is one step: threads share nothing there.   *)
(* The third one frees the nodes of items that no thread needs any more; a     *)
(* thread sees how far the others are by reading their entries one at a time.  *)
(****************************************************************************)
EXTENDS FPGrowth

CONSTANTS Threads,       \* 0 .. workingthread - 1
          Files,         \* the files: sequences of chunks of sequences of item sets
          hot_item_num,  \* the number of hot items in the first tree
          FastTable,     \* fast_rightsib_table_size, as a number of hot sets
          WorkShare      \* 512: the groups of hot sets to aim at

FreqMineAssumption ==
  /\ GrowthAssumption
  /\ IsFiniteSet(Threads) /\ Threads # {} /\ Threads = 0 .. Cardinality(Threads) - 1
  /\ {hot_item_num, FastTable} \subseteq Nat /\ WorkShare \in Nat \ {0}

VARIABLES
  file,           \* what is read
  loop,           \* the parallel loop: "tile", "build", "mine" or "done"
  next,           \* its next index
  tiled,          \* per thread: hot set and other items of transactions, in order
  content,        \* threadtranscontent: the transactions by hot set
  merged,         \* mergedworkbase, mergedworkend: the groups of hot sets
  tree,           \* the first tree, as far as it is there
  work,           \* threadworkload: per thread the hot sets it has made a tree of
  round, bounds,  \* of the mining loop: which one, and its last item
  pc,             \* per thread: where it is in the mining loop
  begun, released_pos,  \* thread_finish_status; the nodes from there on are freed
  found           \* what is printed and counted in ITlen, and whether all had room
tiling == <<tiled, content, merged>>
released == <<begun, released_pos>>
vars == <<file, loop, next, tiling, tree, work, round, bounds, pc, released, found>>

Idle == [at |-> "idle"]

-----------------------------------------------------------------------------
(* The first tree *)

transactions == FlattenSeq(file)
counts(i) == Cardinality({k \in DOMAIN transactions : i \in transactions[k]})
Items == UNION Range(transactions)

\* FP_tree::scan1_DB: the frequent items by decreasing count; item_order.
frequent == {i \in Items : counts(i) >= THRESHOLD}
item_order == LET count == [i \in frequent |-> counts(i)]
              IN  [i \in frequent |-> rank(count, i)]
order_item(j) == CHOOSE i \in frequent : item_order[i] = j
itemno == Cardinality(frequent)
num_hot_item == IF hot_item_num > itemno THEN itemno ELSE hot_item_num

\* The hot set as the code's bit mask.
RECURSIVE mask(_)
mask(hot) == IF hot = {} THEN 0 ELSE 2 ^ Max(hot) + mask(hot \ {Max(hot)})

Init ==
  /\ file \in Files
  /\ loop = "tile" /\ next = 1
  /\ tiled = [t \in Threads |-> <<>>] /\ content = <<>> /\ merged = <<>>
  /\ tree = [kids |-> <<>>, count |-> <<>>, num |-> [t \in Threads |-> 0]]
  /\ work = [t \in Threads |-> <<>>]
  /\ round = 0 /\ bounds = 0
  /\ pc = [t \in Threads |-> Idle]
  /\ begun = [t \in Threads |-> itemno]
  /\ released_pos = itemno
  /\ found = Nothing

\* database_tiling, its first loop: a transaction without other items only counts.
Tile(t) ==
  /\ loop = "tile" /\ next <= Len(file)
  /\ LET its(k) == {item_order[i] : i \in file[next][k] \cap frequent}
         hot(k) == {i \in its(k) : i < num_hot_item}
         entry(k) == [hot |-> hot(k), path |-> Sorted(its(k) \ hot(k))]
     IN  tiled' = [tiled EXCEPT ![t] = @ \o [k \in DOMAIN file[next] |-> entry(k)]]
  /\ next' = next + 1
  /\ UNCHANGED <<file, loop, content, merged, tree, work, round, bounds, pc, released, found>>

\* The transactions in the order of the threads; those of a hot set with a path.
allTiled == FoldLeft(LAMBDA s, t : s \o tiled[t], <<>>, Sorted(Threads))
pathsOf(hot) ==
  Each(LAMBDA r : r.path, SelectSeq(allTiled, LAMBDA r : r.hot = hot /\ r.path # <<>>))
hotSets == {r.hot : r \in Range(allTiled)}
useful == {r.hot : r \in {q \in Range(allTiled) : q.path # <<>>}}

\* sumntype: the room for the paths of a hot set.
sumntype(hot) == FoldSeq(LAMBDA p, n : n + Len(p) + 1, 0, pathsOf(hot))

\* The hot sets with most to do first, as many in a group as reach the average; the
\* last group may be empty.
groups ==
  LET by(a, b) == \/ sumntype(a) > sumntype(b)
                  \/ sumntype(a) = sumntype(b) /\ mask(a) < mask(b)
      average == MapThenSumSet(sumntype, useful) \div WorkShare
      load(g) == FoldSeq(LAMBDA hot, n : n + sumntype(hot), 0, g)
      add(gs, hot) ==
        LET g == Append(Last(gs), hot)
        IN  Front(gs) \o (IF load(g) >= average THEN <<g, <<>>>> ELSE <<g>>)
  IN  FoldLeft(add, <<<<>>>>, SetToSortSeq(useful, by))

\* The sets a path of the first tree goes through: all that begin one with a count.
linked == {hot \in SUBSET (0 .. num_hot_item - 1) \ {{}} :
             \E big \in hotSets : begins(hot, big)}

\* The rest of database_tiling: hot sets with nothing below are thread 0's, from the
\* greatest mask down.
Group ==
  /\ loop = "tile" /\ next > Len(file)
  /\ LET bare == SetToSortSeq(linked \ useful, LAMBDA a, b : mask(a) > mask(b))
         total(hot) == Len(SelectSeq(allTiled, LAMBDA r : begins(hot, r.hot)))
         room == FoldSeq(LAMBDA hot, n : n + Cardinality(hot) + 1, 0, bare)
     IN  /\ work' = [work EXCEPT ![0] = bare]
         /\ tree' = [kids |-> [hot \in linked \cup {{}} |-> <<>>],
                     count |-> [hot \in linked |-> total(hot)],
                     num |-> [tree.num EXCEPT ![0] = room]]
  /\ content' = [hot \in useful |-> pathsOf(hot)] /\ merged' = groups
  /\ tiled' = [t \in Threads |-> <<>>]
  /\ loop' = "build" /\ next' = 1
  /\ UNCHANGED <<file, round, bounds, pc, released, found>>

\* The transactions of one hot set, inserted below its node.  "temp != NULL" reads an
\* uninitialized temp when the set is not in the fast table: a path in unmerged then
\* becomes a new branch without a look at the children.
Built(hot, unmerged) ==
  LET step(b, k) ==
        LET path == content[hot][k]
            full == Len(path) + Cardinality(hot)
        IN  IF k \in unmerged
            THEN [kids |-> Graft(b.kids, path, 1),
                  num |-> b.num + (IF b.kids = <<>> THEN Len(path) ELSE full)]
            ELSE [kids |-> insert(b.kids, path, 1),
                  num |-> b.num + dataNum(b.kids, path, full)]
  IN  FoldLeft(step, [kids |-> <<>>, num |-> Cardinality(hot) + 1],
               [k \in DOMAIN content[hot] |-> k])

\* FP_tree::scan2_DB: one group of hot sets.
Build(t) ==
  /\ loop = "build" /\ next <= Len(merged)
  /\ LET g == merged[next]
         read(hot) == {<<hot, k>> : k \in DOMAIN content[hot]}
         garbage == UNION {read(hot) : hot \in {s \in Range(g) : mask(s) >= FastTable}}
     IN  \E unmerged \in SUBSET garbage :
           LET b == [hot \in Range(g) |->
                       Built(hot, {k \in DOMAIN content[hot] : <<hot, k>> \in unmerged})]
           IN  /\ tree' = [tree EXCEPT
                    !.kids = [hot \in DOMAIN b |-> b[hot].kids] @@ @,
                    !.num[t] = @ + MapThenSumSet(LAMBDA hot : b[hot].num, DOMAIN b)]
               /\ work' = [work EXCEPT ![t] = @ \o g]
  /\ next' = next + 1
  /\ UNCHANGED <<file, loop, tiling, round, bounds, pc, released, found>>

-----------------------------------------------------------------------------
(* Its array *)

\* content_offset_array: where the part of a thread ends.
RECURSIVE offset(_)
offset(t) == IF t < 0 THEN 0 ELSE offset(t - 1) + tree.num[t] + 1

type(n) == IF n <= W1 THEN 0 ELSE IF n < W2 THEN 1 ELSE 2
W(k) == <<W1, W2, W3>>[k + 1]

\* The part of a thread: the trees of its hot sets, one after the other.
Part(t) ==
  LET hotTree(s, hot) ==
        LET fresh == [s EXCEPT !.first = TRUE, !.kept = s.at + 1]
            kids == tree.kids[hot]
            node == [item |-> Max(hot), count |-> tree.count[hot], kids |-> kids]
        IN  IF hot = {} THEN Level(kids, <<>>, fresh)
            ELSE Level(<<node>>, Sorted(hot \ {Max(hot)}), fresh)
      mark == W(type(itemno)) - 1
  IN  FoldLeft(hotTree, Writer(0 .. itemno - 1, offset(t) - 1, mark), work[t])

\* global_nodenum: the nodes a thread has made.
nodenum(t, i) ==
  LET own(hot) == IF hot # {} /\ i = Max(hot) THEN 1 ELSE 0
  IN  FoldSeq(LAMBDA hot, n : n + nodes(tree.kids[hot], i) + own(hot), 0, work[t])

\* first_transform_FPTree_into_FPArray: every thread writes its part.
Transform ==
  /\ loop = "build" /\ next > Len(merged)
  /\ LET all == Sorted(Threads)
         part == Each(Part, all)
         s(t) == part[t + 1]
     IN  tree' = [mark |-> W(type(itemno)) - 1,
                  type |-> type(itemno),
                  arr |-> FoldSeq(LAMBDA t, a : s(t).arr @@ a, <<>>, all),
                  nodes |-> [i \in 0 .. itemno - 1 |->
                               FoldLeft(LAMBDA l, t : l \o s(t).nodes[i], <<>>, all)],
                  table |-> [i \in 0 .. itemno - 1 |-> i],
                  count |-> [i \in 0 .. itemno - 1 |-> counts(order_item(i))],
                  fits |-> \A t \in Threads :
                             /\ s(t).at >= offset(t - 1)
                             /\ \A i \in 0 .. itemno - 1 :
                                  Len(s(t).nodes[i]) = nodenum(t, i)]
  /\ loop' = IF itemno = 0 THEN "done" ELSE "mine"
  /\ round' = -1 /\ bounds' = itemno /\ next' = itemno - 1
  /\ UNCHANGED <<file, tiling, work, pc, released, found>>

-----------------------------------------------------------------------------
(* Mining *)

\* The items of a round go down to this one.
lower(r) == <<W2, W1, 0>>[r + 1]

\* The loop over t of FP_growth_first: the items that need a wider type first; then
\* the array is rewritten with the narrower one.
NextRound ==
  /\ loop = "mine" /\ \A t \in Threads : pc[t] = Idle
  /\ round >= 0 => next < lower(round)
  /\ LET r == round + 1
         u == IF bounds > itemno THEN itemno ELSE bounds
         k == IF u - 1 < W1 THEN 0 ELSE IF u - 1 < W2 THEN 1 ELSE 2
     IN  IF r = 3 THEN loop' = "done" /\ UNCHANGED <<tree, round, bounds, next>>
         ELSE /\ round' = r /\ bounds' = lower(r) /\ next' = u - 1
              /\ tree' = IF u > lower(r) /\ k # tree.type /\ r > 0
                         THEN [tree EXCEPT !.type = k, !.mark = W(k) - 1,
                                           !.arr = [p \in DOMAIN @ |-> @[p] % W(k)]]
                         ELSE tree
              /\ UNCHANGED loop
  /\ UNCHANGED <<file, tiling, work, pc, released, found>>

\* The next item, dynamically.
Take(t) ==
  /\ loop = "mine" /\ round >= 0 /\ pc[t] = Idle /\ next >= lower(round)
  /\ pc' = [pc EXCEPT ![t] = [at |-> "mining", item |-> next]]
  /\ next' = next - 1
  /\ UNCHANGED <<file, loop, tiling, tree, work, round, bounds, released, found>>

\* The body of the loop, up to release_node_array_after_mining's first statement.
Mine(t) ==
  /\ pc[t].at = "mining"
  /\ found' = Join(found, MineItem(tree, pc[t].item, {}, tree.mark))
  /\ begun' = [begun EXCEPT ![t] = pc[t].item]
  /\ pc' = [pc EXCEPT ![t] = [at |-> "scan", i |-> 0, current |-> 0]]
  /\ UNCHANGED <<file, loop, next, tiling, tree, work, round, bounds, released_pos>>

\* It looks for the thread that is least far: the greatest item finished last.
Scan(t) ==
  /\ pc[t].at = "scan" /\ pc[t].i \in Threads
  /\ pc' = [pc EXCEPT ![t].i = @ + 1, ![t].current = Max({@, begun[pc[t].i]})]
  /\ UNCHANGED <<file, loop, next, tiling, tree, work, round, bounds, released, found>>

\* The critical section: all from there on is freed.
Free(t) ==
  /\ pc[t].at = "scan" /\ pc[t].i \notin Threads
  /\ released_pos' = Min({released_pos, pc[t].current})
  /\ pc' = [pc EXCEPT ![t] = Idle]
  /\ UNCHANGED <<file, loop, next, tiling, tree, work, round, bounds, begun, found>>

Next ==
  \/ Group \/ Transform \/ NextRound
  \/ \E t \in Threads : Tile(t) \/ Build(t) \/ Take(t) \/ Mine(t) \/ Scan(t) \/ Free(t)

Spec == Init /\ [][Next]_vars

-----------------------------------------------------------------------------
(* Properties *)

support(S) == Cardinality({k \in DOMAIN transactions : S \subseteq transactions[k]})
FrequentSets == {S \in SUBSET frequent : S # {} /\ support(S) >= THRESHOLD}

\* The frequent sets of items, each with its support, are what is printed, each
\* once; and the numbers of sets of each length are right.
MinesExactly ==
  loop = "done" =>
    LET printed(S) == <<{item_order[i] : i \in S}, support(S)>>
        long(n) == {S \in FrequentSets : Cardinality(S) = n}
    IN  /\ found.sets = SetToBag({printed(S) : S \in FrequentSets})
        /\ \A n \in 1 .. itemno : CopiesIn(n, found.lens) = Cardinality(long(n))

\* What is counted while a tree is built is the room its array takes: no thread
\* writes into the part of another one, nor more nodes than it has counted.
ArraysFit == (loop \in {"mine", "done"} /\ itemno > 0) => tree.fits /\ found.fits

\* The nodes of an item are there until it has been mined.
NodesAlive ==
  loop = "mine" =>
    /\ \A i \in 0 .. itemno - 1 : i <= next => i < released_pos
    /\ \A t \in Threads : pc[t].at = "mining" => pc[t].item < released_pos
=============================================================================
