------------------------------ MODULE FPGrowth ------------------------------
(****************************************************************************)
(* The trees of freqmine (freqmine/src/fp_tree.cpp).  A database is mined by  *)
(* FP-growth: the transactions, items ordered by decreasing count, become a   *)
(* prefix tree; the tree is written into one array, each path from the leaf   *)
(* up to a mark, such that siblings without children share the path of the    *)
(* one before; from the array comes, per item, a smaller tree, and so on.     *)
(*                                                                          *)
(* A tree is the sequence of the root's children, in the order of the sibling *)
(* pointers.  Paths over the first items (the hot ones) are kept by the set   *)
(* of items instead, a bit mask in the code, and joined to the rest later.    *)
(****************************************************************************)
EXTENDS Integers, Sequences, FiniteSets, FiniteSetsExt, SequencesExt, Functions, Bags,
        TLC

CONSTANTS THRESHOLD,      \* the least support that is frequent
          hot_item_num1,  \* the number of hot items in the trees after the first
          HotShare,       \* 8: they need this many paths' items per hot set
          W1, W2, W3      \* 2^8, 2^16, 2^32: what the three array types hold

GrowthAssumption ==
  /\ THRESHOLD \in Nat \ {0} /\ hot_item_num1 \in Nat /\ HotShare \in Nat \ {0}
  /\ {W1, W2, W3} \subseteq Nat /\ 1 < W1 /\ W1 < W2 /\ W2 < W3
  /\ W2 % W1 = 0 /\ W3 % W2 = 0

Sorted(S) == SetToSortSeq(S, <)
Each(f(_), s) == FoldLeft(LAMBDA r, x : Append(r, f(x)), <<>>, s)

\* inssort: by decreasing count, equal ones stay in order; from 0.
rank(count, i) ==
  Cardinality({j \in DOMAIN count : \/ count[j] > count[i]
                                    \/ count[j] = count[i] /\ j < i})

-----------------------------------------------------------------------------
(* Building a tree *)

\* New nodes for a path, one below the other.
RECURSIVE Chain(_, _)
Chain(path, n) ==
  [item |-> Head(path), count |-> n,
   kids |-> IF Len(path) = 1 THEN <<>> ELSE <<Chain(Tail(path), n)>>]

\* A new child comes second, behind the left one.
Graft(kids, path, n) ==
  IF kids = <<>> THEN <<Chain(path, n)>> ELSE <<kids[1], Chain(path, n)>> \o Tail(kids)

child(kids, item) == {k \in DOMAIN kids : kids[k].item = item}

\* FP_tree::insert below one node.  (fast_rightsib_table finds the same child.)
RECURSIVE insert(_, _, _)
insert(kids, path, n) ==
  IF path = <<>> THEN kids
  ELSE IF child(kids, path[1]) = {} THEN Graft(kids, path, n)
  ELSE LET k == Min(child(kids, path[1]))
       IN  [kids EXCEPT ![k] = [item |-> path[1], count |-> kids[k].count + n,
                                kids |-> insert(kids[k].kids, Tail(path), n)]]

\* Seeded fault: every new branch is counted as if it continued a path.
RECURSIVE dataNumShort(_, _, _)
dataNumShort(kids, path, full) ==
  IF path = <<>> THEN 0
  ELSE IF child(kids, path[1]) = {} THEN Len(path)
  ELSE dataNumShort(kids[Min(child(kids, path[1]))].kids, Tail(path), full)

\* What insert adds to new_data_num: the new nodes where they continue a path,
\* and otherwise the whole path, which the array will hold once more.
RECURSIVE dataNum(_, _, _)
dataNum(kids, path, full) ==
  IF path = <<>> THEN 0
  ELSE IF child(kids, path[1]) = {} THEN IF kids = <<>> THEN Len(path) ELSE full
  ELSE dataNum(kids[Min(child(kids, path[1]))].kids, Tail(path), full)

RECURSIVE nodes(_, _)
nodes(kids, item) ==
  Len(SelectSeq(kids, LAMBDA k : k.item = item))
    + FoldSeq(LAMBDA k, n : n + nodes(k.kids, item), 0, kids)

-----------------------------------------------------------------------------
(* The array of a tree *)

\* What is being written: the array, the next place (itemiter), where the path of
\* the next leaf begins (kept_itemiter), no path yet (first), and per item the
\* nodes written so far, as the place their path begins at and their count.
Writer(items, at, mark) ==
  [arr |-> <<>>, at |-> at, kept |-> at + 1, first |-> TRUE, mark |-> mark,
   nodes |-> [i \in items |-> <<>>]]

Put(s, v) == [s EXCEPT !.arr = (s.at :> v) @@ s.arr, !.at = @ - 1]
Note(s, n, begin) == [s EXCEPT !.nodes[n.item] = Append(@, <<begin, n.count>>)]

\* The loops of transform_FPTree_into_FPArray.  Down follows the left children to
\* a leaf, whose own place is used again; Level then takes the siblings on the way
\* back.
RECURSIVE Level(_, _, _), Down(_, _, _)
Level(kids, path, s) ==
  IF kids = <<>> THEN [s EXCEPT !.kept = @ + 1]
  ELSE IF kids[1].kids = <<>> /\ ~s.first
  THEN Level(Tail(kids), path, Note(s, kids[1], s.kept))
  ELSE LET start == FoldLeft(Put, Put([s EXCEPT !.first = FALSE], s.mark), path)
       IN  Level(Tail(kids), path, Down(kids[1], path, start))

Down(n, path, s) ==
  LET w == Note(Put(s, n.item), n, s.at + 1)
  IN  IF n.kids = <<>> THEN [w EXCEPT !.kept = w.at + 2, !.at = @ + 1]
      ELSE Level(Tail(n.kids), Append(path, n.item),
                 Down(n.kids[1], Append(path, n.item), w))

\* The path from a place on, up to the mark.
RECURSIVE Trans(_, _, _)
Trans(arr, begin, mark) ==
  IF arr[begin] = mark THEN <<>> ELSE <<arr[begin]>> \o Trans(arr, begin + 1, mark)

-----------------------------------------------------------------------------
(* The tree of an item *)

\* The paths above the nodes of an item, with the counts of these nodes.
paths(tree, item, mark) ==
  Each(LAMBDA n : [items |-> Range(Trans(tree.arr, n[1], mark)), count |-> n[2]],
       tree.nodes[item])

supp(ps, i) ==
  MapThenSumSet(LAMBDA k : IF i \in ps[k].items THEN ps[k].count ELSE 0, DOMAIN ps)
sum_item_num(ps) == MapThenSumSet(LAMBDA k : Cardinality(ps[k].items), DOMAIN ps)

\* FPArray_conditional_pattern_base: the frequent items of these paths, with their
\* support.
patternBase(ps, item) ==
  LET S == {i \in 0 .. item - 1 : supp(ps, i) >= THRESHOLD}
  IN  [i \in S |-> supp(ps, i)]

numHot(itemno, total) ==
  LET h == IF itemno > hot_item_num1 * 2 THEN hot_item_num1 ELSE itemno \div 2
  IN  IF 2 ^ h > total \div HotShare THEN 0 ELSE h

\* Each hot set's paths over the other items, inserted in order, and what they add
\* to new_data_num.
Cold(base, order, h, ps) ==
  LET step(tab, p) ==
        LET its == {order[i] : i \in p.items \cap DOMAIN base}
            hot == {i \in its : i < h}
            path == Sorted(its \ hot)
            old == IF hot \in DOMAIN tab.kids THEN tab.kids[hot] ELSE <<>>
            n == IF hot \in DOMAIN tab.count THEN tab.count[hot] ELSE 0
        IN  [kids |-> (hot :> insert(old, path, p.count)) @@ tab.kids,
             count |-> (hot :> n + p.count) @@ tab.count,
             num |-> tab.num + dataNum(old, path, Len(path) + Cardinality(hot))]
  IN  FoldLeft(step, [kids |-> <<>>, count |-> <<>>, num |-> 0], ps)

\* A path through the hot set big goes through hot: the rest of it comes after.
begins(hot, big) == hot \subseteq big /\ \A i \in big \ hot : \A j \in hot : j < i
lives(tab, hot) == \E big \in DOMAIN tab.kids : begins(hot, big)

\* The last loop of FPArray_scan2_DB: the hot nodes are linked as left children of
\* the set without their greatest item, and count for it too.
RECURSIVE HotNode(_, _, _)
HotNode(tab, hot, h) ==
  LET after == {j \in 0 .. h - 1 : \A i \in hot : i < j}
      next == Sorted({j \in after : lives(tab, hot \cup {j})})
      sub == Each(LAMBDA j : HotNode(tab, hot \cup {j}, h), next)
      own == hot \in DOMAIN tab.kids
  IN  [item |-> IF hot = {} THEN -1 ELSE Max(hot),
       count |-> (IF own THEN tab.count[hot] ELSE 0)
                   + MapThenSumSet(LAMBDA k : sub[k].count, DOMAIN sub),
       kids |-> sub \o (IF own THEN tab.kids[hot] ELSE <<>>)]

\* What this linking adds to new_data_num: one place for the first child of a node,
\* the whole path for another.
hotNum(tab, h) ==
  LET linked == {hot \in SUBSET (0 .. h - 1) \ {{}} : lives(tab, hot)}
      parent(hot) == hot \ {Max(hot)}
      first(hot) ==
        /\ \A b \in linked : parent(b) = parent(hot) => Max(b) <= Max(hot)
        /\ parent(hot) \in DOMAIN tab.kids => tab.kids[parent(hot)] = <<>>
  IN  MapThenSumSet(LAMBDA hot : IF first(hot) THEN 1 ELSE Cardinality(hot), linked)

width(itemno) == IF itemno <= W1 THEN W1 ELSE IF itemno <= W2 THEN W2 ELSE W3

\* FP_tree::init, scan1_DB, FPArray_scan2_DB and the start of FP_growth: the tree
\* of the paths ps over the items of base, and its array.
Conditional(tree, ps, base) ==
  LET order == [i \in DOMAIN base |-> rank(base, i)]
      old(j) == CHOOSE i \in DOMAIN base : order[i] = j
      itemno == Cardinality(DOMAIN base)
      h == numHot(itemno, sum_item_num(ps))
      tab == Cold(base, order, h, ps)
      root == HotNode(tab, {}, h)
      size == tab.num + 1 + hotNum(tab, h) + 1
      mark == width(itemno) - 1
      all == 0 .. itemno - 1
      s == Level(root.kids, <<>>, Writer(all, size - 1, mark))
  IN  [itemno |-> itemno, mark |-> mark, kids |-> root.kids, arr |-> s.arr, nodes |-> s.nodes,
       table |-> [j \in all |-> tree.table[old(j)]], count |-> [j \in all |-> base[old(j)]],
       fits |-> s.at >= 0 /\ \A i \in all : Len(s.nodes[i]) = nodes(root.kids, i)]

-----------------------------------------------------------------------------
(* Mining *)

\* What a call finds: the sets it prints with their support, how often it counts a
\* set of each length (ITlen), and that its arrays were as long as needed.
Found(sets, lens, fits) == [sets |-> sets, lens |-> lens, fits |-> fits]
Nothing == Found(EmptyBag, EmptyBag, TRUE)
One(set, n) == Found(SetToBag({<<set, n>>}), SetToBag({Cardinality(set)}), TRUE)
Join(f, g) == Found(f.sets (+) g.sets, f.lens (+) g.lens, f.fits /\ g.fits)

RECURSIVE Single_path(_)
Single_path(kids) ==
  kids = <<>> \/ (Len(kids) = 1 /\ Single_path(kids[1].kids))

\* How ITlen grows by the subsets of n items: binomials, each from the one before.
subsets(n) ==
  LET temp[i \in 0 .. n] == IF i = 0 THEN 1 ELSE (temp[i - 1] * (n - i + 1)) \div i
  IN  temp

\* generate_all: every set of items of the only path, with its last item's count.
Path(tree, prefix) ==
  LET all == SUBSET (0 .. tree.itemno - 1) \ {{}}
      names(S) == prefix \cup {tree.table[i] : i \in S}
      n == tree.itemno
      p == Cardinality(prefix)
  IN  Found(SetToBag({<<names(S), tree.count[Max(S)]>> : S \in all}),
            [len \in p + 1 .. p + n |-> subsets(n)[len - p]], tree.fits)

\* One round of FP_growth: the sets with this item that are frequent, and all that
\* its tree holds.
RECURSIVE MineItem(_, _, _, _)
MineItem(tree, item, prefix, mark) ==
  LET set == prefix \cup {tree.table[item]}
      ps == paths(tree, item, mark)
      base == IF item = 0 THEN <<>> ELSE patternBase(ps, item)
      only == CHOOSE i \in DOMAIN base : TRUE
      sub == Conditional(tree, ps, base)
      each == Each(LAMBDA i : MineItem(sub, i, set, sub.mark), Sorted(0 .. sub.itemno - 1))
  IN  Join(One(set, tree.count[item]),
           CASE DOMAIN base = {} -> Nothing
             [] DOMAIN base = {only} -> One(set \cup {tree.table[only]}, base[only])
             [] OTHER -> IF Single_path(sub.kids) THEN Path(sub, set)
                         ELSE FoldLeft(Join, [Nothing EXCEPT !.fits = sub.fits], each))
=============================================================================
