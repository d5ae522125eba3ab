------------------------------- MODULE OMTree -------------------------------
(***************************************************************************)
(* The order-maintenance structure itself: rdtool/src/om, and the marking  *)
(* of heavy lists in rdtool/src/omrd.cpp.                                  *)
(*                                                                         *)
(* A bottom list is a sequence of labelled nodes under a leaf of the top   *)
(* tree.  A top node is known by its path from the root, 0 for left and 1  *)
(* for right; a leaf's level is MAX_LEVEL, an internal node's the length   *)
(* of its path.  Inserts go on while pc is "open"; OMBatch shows that      *)
(* om_relabel runs alone.  Inside om_relabel the iterations of its         *)
(* cilk_for and the branches of rebalance run in any order; updates of     *)
(* num_leaves and needs_rebalance commute and are read after the sync, so  *)
(* an iteration is one step up to its compare-and-swap on height.          *)
(***************************************************************************)
EXTENDS Labels, FiniteSets, SequencesExt

CONSTANTS
  MAX_LEVEL,      \* bits of a label: MAX_LABEL = 2^MAX_LEVEL - 1
  NODE_INTERVAL,  \* label distance that split leaves
  SUBLIST_SIZE,   \* the most nodes of a list after split
  IntBits,        \* bits of an int, in which capacity shifts
  MaxNodes,       \* bound: nodes inserted
  Spots           \* bound: the bases that serve while there are n nodes

ASSUME SizeAssumption ==
  /\ MAX_LEVEL \in Nat \ {0} /\ MAX_LABEL = 2^MAX_LEVEL - 1
  /\ NODE_INTERVAL \in Nat \ {0} /\ SUBLIST_SIZE \in Nat \ {0}
  /\ IntBits \in Nat \ {0}

VARIABLES
  pc,           \* "open", or where om_relabel is
  tree,         \* the top nodes, by path
  height,       \* self->height
  order,        \* history: the nodes in the order they were inserted into
  heavy_lists,  \* leaves whose list is flagged heavy and queued
  waiting,      \* bases of the inserts that are in slow_path
  strand,       \* the iterations of om_relabel's cilk_for
  todo          \* the calls of rebalance that are spawned and have not run

vars == <<pc, tree, height, order, heavy_lists, waiting, strand, todo>>

Nodes == 1 .. Len(order)
Root  == <<>>
IsLeaf(p)   == tree[p].lists # <<>>
Level(p)    == IF IsLeaf(p) THEN MAX_LEVEL ELSE Len(p)
Leaves      == {p \in DOMAIN tree : IsLeaf(p)}
Under(p)    == {q \in DOMAIN tree : IsPrefix(p, q)}
CeilLog2(n) == CHOOSE k \in 0 .. n : 2^k >= n /\ \A j \in 0 .. k - 1 : 2^j < n

TopLeaf(label, lists) ==
  [label |-> label, num_leaves |-> Len(lists), needs |-> FALSE, lists |-> lists]

Init ==
  /\ pc = "open"
  /\ tree = (Root :> TopLeaf(0, << <<[id |-> 1, label |-> 0]>> >>))
  /\ height = 0
  /\ order = <<1>>
  /\ heavy_lists = {}
  /\ waiting = {}
  /\ strand = <<>>
  /\ todo = {}
-----------------------------------------------------------------------------
(* Where a node is, and om_precedes. *)
LeafOf(x) == CHOOSE p \in Leaves : \E s \in ToSet(tree[p].lists) :
               \E i \in DOMAIN s : s[i].id = x
PlaceOf(x) == LET s == tree[LeafOf(x)].lists[1]
              IN CHOOSE i \in DOMAIN s : s[i].id = x
LabelOf(x) == tree[LeafOf(x)].lists[1][PlaceOf(x)].label

om_precedes(x, y) ==
  IF LeafOf(x) = LeafOf(y) THEN LabelOf(x) < LabelOf(y)
  ELSE tree[LeafOf(x)].label < tree[LeafOf(y)].label

NextLabel(s, i) == IF i = Len(s) THEN MAX_LABEL ELSE s[i + 1].label
NewLabel(s, i)  == get_new_label(s[i].label, NextLabel(s, i), i = Len(s))
-----------------------------------------------------------------------------
(* omrd_t::insert: try_insert, and the test for a heavy list. *)
Insert(x) ==
  LET p   == LeafOf(x)
      s   == tree[p].lists[1]
      i   == PlaceOf(x)
      lab == NewLabel(s, i)
      n   == Len(order) + 1
      t   == InsertAt(s, i + 1, [id |-> n, label |-> lab])
  IN /\ pc = "open" /\ n <= MaxNodes
     /\ lab # 0
     /\ tree' = [tree EXCEPT ![p].lists = <<t>>]
     /\ order' = InsertAt(order, 1 + CHOOSE j \in DOMAIN order : order[j] = x, n)
     /\ heavy_lists' = IF is_heavy(lab, NextLabel(t, i + 1))
                         THEN heavy_lists \cup {p} ELSE heavy_lists
     /\ waiting' = waiting \ {x}
     /\ UNCHANGED <<pc, height, strand, todo>>

InsertFails(x) ==
  /\ pc = "open" /\ Len(order) < MaxNodes
  /\ x \notin waiting
  /\ NewLabel(tree[LeafOf(x)].lists[1], PlaceOf(x)) = 0
  /\ heavy_lists' = heavy_lists \cup {LeafOf(x)}
  /\ waiting' = waiting \cup {x}
  /\ UNCHANGED <<pc, tree, height, order, strand, todo>>

(* batch_relabel relabels both orders: the insert that failed and started  *)
(* the batch may be one into the other order.                              *)
StartRelabel ==
  /\ pc = "open"
  /\ heavy_lists # {}
  /\ pc' = "split"
  /\ strand' = [p \in heavy_lists |-> [at |-> "split", height |-> 0, old |-> 0]]
  /\ UNCHANGED <<tree, height, order, heavy_lists, waiting, todo>>
-----------------------------------------------------------------------------
(* Variant: an interval of 1. *)
RelabelledByOne(s) == [i \in DOMAIN s |-> [s[i] EXCEPT !.label = i - 1]]

Relabelled(s) ==
  [i \in DOMAIN s |-> [s[i] EXCEPT !.label = ((i - 1) * NODE_INTERVAL)
                                               % (MAX_LABEL + 1)]]

split(s) ==
  LET k == (Len(s) + SUBLIST_SIZE - 1) \div SUBLIST_SIZE
  IN [j \in 1 .. k |-> Relabelled(SubSeq(s, (j - 1) * SUBLIST_SIZE + 1,
                                  IF j = k THEN Len(s) ELSE j * SUBLIST_SIZE))]

(* An iteration up to its read of self->height. *)
Split(p) ==
  LET lists == split(tree[p].lists[1])
      k     == Len(lists)
  IN /\ pc = "split" /\ strand[p].at = "split"
     /\ tree' = [q \in DOMAIN tree |->
          LET n == IF q = p THEN [tree[q] EXCEPT !.lists = lists] ELSE tree[q]
          IN IF k > 1 /\ IsPrefix(q, p)
               THEN [n EXCEPT !.num_leaves = (@ + k - 1) % (MAX_LABEL + 1),
                              !.needs = TRUE]
               ELSE n]
     /\ strand' = [strand EXCEPT ![p] =
          IF k > 1 THEN [at |-> "cas", height |-> Len(p) + CeilLog2(k),
                         old |-> height]
                   ELSE [@ EXCEPT !.at = "done"]]
     /\ UNCHANGED <<pc, height, order, heavy_lists, waiting, todo>>

(* Variant: a compare-and-swap that fails is not repeated. *)
RaiseOnce(p) ==
  LET s == strand[p]
  IN /\ pc = "split" /\ s.at = "cas" /\ s.height > s.old
     /\ height' = IF height = s.old THEN s.height ELSE height
     /\ strand' = [strand EXCEPT ![p].at = "done"]
     /\ UNCHANGED <<pc, tree, order, heavy_lists, waiting, todo>>

RaiseHeight(p) ==
  LET s == strand[p]
  IN /\ pc = "split" /\ s.at = "cas" /\ s.height > s.old
     /\ height' = IF height = s.old THEN s.height ELSE height
     /\ strand' = [strand EXCEPT ![p].old = height]
     /\ UNCHANGED <<pc, tree, order, heavy_lists, waiting, todo>>

HighEnough(p) ==
  /\ pc = "split" /\ strand[p].at = "cas" /\ strand[p].height <= strand[p].old
  /\ strand' = [strand EXCEPT ![p].at = "done"]
  /\ UNCHANGED <<pc, tree, height, order, heavy_lists, waiting, todo>>

(* The count of the leaves before the relabel: nothing else changes them.  *)
(* When the counter overflows, the program exits.                          *)
OldSize == Cardinality(Leaves)
Overflow == tree[Root].num_leaves < OldSize

(* A call of rebalance for a node that needs none returns at once. *)
Called(s) == {p \in s : tree[p].needs}

StartRebalance ==
  /\ pc = "split" /\ \A p \in DOMAIN strand : strand[p].at = "done"
  /\ ~Overflow
  /\ pc' = "rebalance"
  /\ strand' = <<>>
  /\ todo' = Called({Root})
  /\ UNCHANGED <<tree, height, order, heavy_lists, waiting>>
-----------------------------------------------------------------------------
Width(level) == 2^(MAX_LEVEL - level)
range_left(p) == IF p = Root THEN 0
                 ELSE tree[p].label - (tree[p].label % Width(Len(p)))

(* 1 << height(n) is a shift of an int: the processor takes the count      *)
(* modulo IntBits, and a set sign bit widens to a huge size_t.             *)
capacity(p) ==
  LET shift == (MAX_LEVEL - Level(p)) % IntBits
  IN CASE Level(p) = 0          -> MAX_LABEL
       [] Level(p) # 0 /\ shift = IntBits - 1 -> 2^(2 * IntBits) - 2^shift
       [] OTHER                 -> 2^shift

(* Variant: the threshold is not scaled by the height. *)
too_heavy_unscaled(p) ==
  tree[p].needs /\ 4 * tree[p].num_leaves >= capacity(p) * (3 + Level(p))

(* density(n) >= 0.75 + 0.25 * (n->level / (double)height) *)
too_heavy(p) ==
  tree[p].needs /\ 4 * height * tree[p].num_leaves
                     >= capacity(p) * (3 * height + Level(p))

(* build_array_of_leaves: the lists below p from left to right. *)
RECURSIVE array(_)
array(p) == IF IsLeaf(p) THEN tree[p].lists
            ELSE array(Append(p, 0)) \o array(Append(p, 1))

Middle(lo, hi) == lo + ((hi - lo) \div 2 + 1) - 1

RECURSIVE rebuild_recursive(_, _, _, _)
rebuild_recursive(p, lists, lo, hi) ==
  IF Len(lists) = 1 THEN p :> TopLeaf(lo, lists)
  ELSE LET mid == Len(lists) - (Len(lists) \div 2)
       IN    (p :> [label |-> hi, num_leaves |-> Len(lists), needs |-> FALSE,
                    lists |-> <<>>])
          @@ rebuild_recursive(Append(p, 0), SubSeq(lists, 1, mid),
                               lo, Middle(lo, hi))
          @@ rebuild_recursive(Append(p, 1), SubSeq(lists, mid + 1, Len(lists)),
                               Middle(lo, hi) + 1, hi)

(* Variant: a left child's label is half of its parent's range, counted    *)
(* from 0.                                                                 *)
InnerLabelFromZero(p) ==
  IF p = Root THEN MAX_LABEL
  ELSE LET up == tree[Front(p)].label
       IN IF Last(p) = 1 THEN up ELSE (up - range_left(Front(p))) \div 2

(* The label a split leaf gets as an internal node, from its parent's. *)
InnerLabel(p) ==
  IF p = Root THEN MAX_LABEL
  ELSE LET up == tree[Front(p)].label
           lo == range_left(Front(p))
       IN IF Last(p) = 1 THEN up ELSE (up - lo) \div 2 + lo

rebuild(p) ==
  LET hi == IF IsLeaf(p) THEN InnerLabel(p) ELSE tree[p].label
      lo == IF p = Root THEN 0 ELSE hi - (hi % Width(Len(p)))
  IN   rebuild_recursive(p, array(p), lo, hi)
    @@ [q \in DOMAIN tree \ Under(p) |-> tree[q]]

Children(p)   == {Append(p, 0), Append(p, 1)}

HeavyChild(p) == ~IsLeaf(p) /\ \E c \in Children(p) : too_heavy(c)

(* One call of rebalance, up to its two calls for the children. *)
Rebuild(p) ==
  /\ pc = "rebalance"
  /\ IsLeaf(p) \/ HeavyChild(p)
  /\ tree' = rebuild(p)
  /\ todo' = todo \ {p}
  /\ UNCHANGED <<pc, height, order, heavy_lists, waiting, strand>>

Descend(p) ==
  /\ pc = "rebalance"
  /\ ~IsLeaf(p) /\ ~HeavyChild(p)
  /\ tree' = [tree EXCEPT ![p].needs = FALSE]
  /\ todo' = (todo \ {p}) \cup Called(Children(p))
  /\ UNCHANGED <<pc, height, order, heavy_lists, waiting, strand>>

EndRelabel ==
  /\ pc = "rebalance" /\ todo = {}
  /\ pc' = "open"
  /\ heavy_lists' = {}
  /\ UNCHANGED <<tree, height, order, waiting, strand, todo>>

Next ==
  \/ \E x \in Nodes \cap Spots[Len(order)] : Insert(x) \/ InsertFails(x)
  \/ StartRelabel
  \/ \E p \in DOMAIN strand : Split(p) \/ RaiseHeight(p) \/ HighEnough(p)
  \/ StartRebalance
  \/ \E p \in todo : Rebuild(p) \/ Descend(p)
  \/ EndRelabel

Spec == Init /\ [][Next]_vars
-----------------------------------------------------------------------------
(* om_precedes answers by labels what the inserts asked for: whatever was  *)
(* split, relabelled and rebuilt in between, two nodes compare as they     *)
(* stand in the order (om_precedes, om.c:115).  om_precedes compares pairs *)
(* of labels, so it is enough that it sorts neighbours.                    *)
OrderMaintained ==
  pc = "open" => \A i \in Nodes \ {1} : om_precedes(order[i - 1], order[i])

(* The tree is a tree of label ranges: a leaf has the first label of its   *)
(* slot, an inner node the last, and counts the leaves below it.  verify   *)
(* in om/test.c and om.c checks this after every relabel.                  *)
First(p) == FoldLeftDomain(LAMBDA a, i : a + p[i] * Width(i), 0, p)
TreeIsSound ==
  pc = "open" => \A p \in DOMAIN tree :
    /\ ~tree[p].needs
    /\ Len(p) <= MAX_LEVEL
    /\ tree[p].num_leaves = Cardinality(Under(p) \cap Leaves)
    /\ IF IsLeaf(p) THEN tree[p].label = First(p) /\ Len(tree[p].lists) = 1
       ELSE /\ tree[p].label = First(p) + Width(Len(p)) - 1
            /\ Children(p) \subseteq DOMAIN tree

(* self->height bounds the depth of the tree, although the iterations of   *)
(* om_relabel raise it by compare-and-swap at the same time and nothing    *)
(* lowers it: else the threshold of too_heavy exceeds 1 inside the tree    *)
(* and a full node is not rebuilt (om_relabel.c:31, om_relabel.c:224).     *)
HeightBoundsTree ==
  pc \in {"rebalance", "open"} =>
    \A p \in Leaves : Len(p) + CeilLog2(Len(tree[p].lists)) <= height

(* rebalance never reaches a node that has more leaves below it than       *)
(* labels: "The children might be out of room, but this node cannot be"    *)
(* (om_relabel.c:174).                                                     *)
NodeHasRoom ==
  pc = "rebalance" => \A p \in todo :
    ~IsLeaf(p) => capacity(p) >= tree[p].num_leaves

(* After a relabel the insert that asked for it finds a label, and its new *)
(* node is not heavy again: assert(!is_heavy(n)) (omrd.cpp:213).           *)
RetryFindsLabel ==
  pc = "open" => \A x \in waiting :
    LET s == tree[LeafOf(x)].lists[1]
        i == PlaceOf(x)
    IN \/ LeafOf(x) \in heavy_lists
       \/ NewLabel(s, i) # 0 /\ ~is_heavy(NewLabel(s, i), NextLabel(s, i))
=============================================================================
