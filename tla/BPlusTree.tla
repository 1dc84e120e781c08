------------------------------ MODULE BPlusTree ------------------------------
(***************************************************************************)
(* The B+ tree of rmdb/src/index: what the functions of IxNodeHandle and   *)
(* of IxIndexHandle do to the pages of an index file.  No latches and no   *)
(* threads here: module Table takes the latches, in the order of the code, *)
(* and applies these operators under them.                                 *)
(*                                                                         *)
(* The key is one INT column (col_tot_len_ = 4), so that a key cell and    *)
(* the page number of a Rid have the same size.  A node is the memory of   *)
(* its page: num_key says how much of the two arrays is in use, what lies  *)
(* beyond keeps its old content, and the cell after the last key is the    *)
(* first Rid.  A Rid is one number, the page of a child or the place of a  *)
(* row.                                                                    *)
(***************************************************************************)
EXTENDS Integers, Sequences, FiniteSets

CONSTANT
    Order    \* IxFileHdr::btree_order_

ASSUME OrderAssumption == Order \in Nat /\ Order > 2   \* the assert of create_index

IX_NO_PAGE == -1
IX_FILE_HDR_PAGE == 0
IX_LEAF_HEADER_PAGE == 1
IX_INIT_ROOT_PAGE == 2
IX_INIT_NUM_PAGES == 3

max_size == Order + 1
min_size == max_size \div 2

EmptyLeaf(prev, next) ==
    [is_leaf |-> TRUE, parent |-> IX_NO_PAGE, prev_leaf |-> prev, next_leaf |-> next,
     num_key |-> 0, keys |-> [i \in 0 .. Order |-> 0], rids |-> [i \in 0 .. Order + 2 |-> 0]]

\* A fresh index: the file header (root, first and last leaf, page counts), the header
\* page of the leaf list and an empty root leaf.
create_index ==
    [root |-> IX_INIT_ROOT_PAGE, first_leaf |-> IX_INIT_ROOT_PAGE,
     last_leaf |-> IX_INIT_ROOT_PAGE, num_pages |-> IX_INIT_NUM_PAGES,
     next_page |-> IX_INIT_NUM_PAGES,
     pages |-> [p \in {IX_LEAF_HEADER_PAGE, IX_INIT_ROOT_PAGE} |->
                  IF p = IX_LEAF_HEADER_PAGE
                  THEN EmptyLeaf(IX_INIT_ROOT_PAGE, IX_INIT_ROOT_PAGE)
                  ELSE EmptyLeaf(IX_LEAF_HEADER_PAGE, IX_LEAF_HEADER_PAGE)]]

-----------------------------------------------------------------------------
(* One node. *)

\* Key cell Order + 1 lies over the first Rid.
get_key(nd, i) == IF i <= Order THEN nd.keys[i] ELSE nd.rids[0]
set_key(nd, i, k) ==
    IF i <= Order THEN [nd EXCEPT !.keys[i] = k] ELSE [nd EXCEPT !.rids[0] = k]

\* The binary search of lower_bound and upper_bound, whatever the order of the keys is;
\* before: the positions whose key lies before the one that is sought.
Bisect(nd, before) ==
    LET at[lo \in 0 .. nd.num_key, hi \in 0 .. nd.num_key] ==
          IF lo >= hi THEN lo
          ELSE IF (lo + hi) \div 2 \in before THEN at[(lo + hi) \div 2 + 1, hi]
          ELSE at[lo, (lo + hi) \div 2]
    IN  at[0, nd.num_key]

lower_bound(nd, key) == Bisect(nd, {i \in 0 .. nd.num_key - 1 : get_key(nd, i) < key})
upper_bound(nd, key) == Bisect(nd, {i \in 0 .. nd.num_key - 1 : get_key(nd, i) <= key})

HasAt(nd, pos, key) == pos < nd.num_key /\ get_key(nd, pos) = key
leaf_lookup(nd, key) == HasAt(nd, lower_bound(nd, key), key)
internal_lookup(nd, key) == nd.rids[upper_bound(nd, key)]

\* insert_pairs moves and copies the keys first, then the Rids: when the last key
\* falls on cell Order + 1, it is written over the first Rid before that one moves.
KeysAfter(nd, pos, ks) ==
    [i \in 0 .. nd.num_key + Len(ks) - 1 |->
        IF i < pos THEN get_key(nd, i)
        ELSE IF i < pos + Len(ks) THEN ks[i - pos + 1] ELSE get_key(nd, i - Len(ks))]
FirstRid(nd, newkeys) ==
    IF Order + 1 \in DOMAIN newkeys THEN newkeys[Order + 1] ELSE nd.rids[0]
PutPairs(nd, pos, rs, newkeys, rids) ==
    [nd EXCEPT
        !.num_key = @ + Len(rs),
        !.keys = [i \in 0 .. Order |-> IF i \in DOMAIN newkeys THEN newkeys[i] ELSE @[i]],
        !.rids = [i \in 0 .. Order + 2 |->
                    IF i < pos \/ i >= nd.num_key + Len(rs) THEN rids[i]
                    ELSE IF i < pos + Len(rs) THEN rs[i - pos + 1] ELSE rids[i - Len(rs)]]]
insert_pairs(nd, pos, ks, rs) ==
    PutPairs(nd, pos, rs, KeysAfter(nd, pos, ks),
             [nd.rids EXCEPT ![0] = FirstRid(nd, KeysAfter(nd, pos, ks))])
insert_pair(nd, pos, key, rid) == insert_pairs(nd, pos, <<key>>, <<rid>>)

\* A key that is there already is not inserted, and nobody is told.
insert(nd, key, rid) ==
    IF leaf_lookup(nd, key) THEN nd ELSE insert_pair(nd, lower_bound(nd, key), key, rid)

erase_pair(nd, pos) ==
    [nd EXCEPT
        !.num_key = @ - 1,
        !.keys = [i \in 0 .. Order |->
                    IF i >= pos /\ i + 1 < nd.num_key THEN get_key(nd, i + 1) ELSE @[i]],
        !.rids = [i \in 0 .. Order + 2 |->
                    IF i >= pos /\ i + 1 < nd.num_key THEN @[i + 1] ELSE @[i]]]
remove(nd, key) ==
    IF leaf_lookup(nd, key) THEN erase_pair(nd, lower_bound(nd, key)) ELSE nd

\* The children of an inner node, one more than its keys.
Children(nd) == {nd.rids[i] : i \in 0 .. nd.num_key}
find_child(nd, p) == CHOOSE i \in 0 .. nd.num_key :
                        nd.rids[i] = p /\ \A j \in 0 .. i - 1 : nd.rids[j] # p

\* Mutant: the right half begins one pair too late.
PairsBehind(nd, from) == [ks |-> [i \in 1 .. nd.num_key - from - 1 |-> get_key(nd, from + i)],
                          rs |-> [i \in 1 .. nd.num_key - from - 1 |-> nd.rids[from + i]]]
Pairs(nd, from) == [ks |-> [i \in 1 .. nd.num_key - from |-> get_key(nd, from + i - 1)],
                    rs |-> [i \in 1 .. nd.num_key - from |-> nd.rids[from + i - 1]]]

-----------------------------------------------------------------------------
(* The tree. *)

is_root_page(ix, p) == ix.pages[p].parent = IX_NO_PAGE

\* The page of create_node; new_page hands out a zeroed frame.
create_node(ix, nd) ==
    [ix EXCEPT !.num_pages = @ + 1, !.next_page = @ + 1,
               !.pages = [p \in DOMAIN @ \cup {ix.next_page} |->
                            IF p = ix.next_page THEN nd ELSE @[p]]]

set_prev_leaf(ix, p, prev) == [ix EXCEPT !.pages[p].prev_leaf = prev]
set_next_leaf(ix, p, next) == [ix EXCEPT !.pages[p].next_leaf = next]

\* maintain_child for every child that has moved.
Adopt(ix, children, parent) ==
    [ix EXCEPT !.pages = [p \in DOMAIN @ |->
        IF p \in children THEN [@[p] EXCEPT !.parent = parent] ELSE @[p]]]

\* split: the right half of node p goes to a new page, ix.next_page.
LinkRight(ix, p, new) ==
    IF ix.pages[new].next_leaf = IX_LEAF_HEADER_PAGE THEN ix
    ELSE set_prev_leaf(ix, ix.pages[new].next_leaf, new)
SplitLeaf(ix, p, nd, mid) ==
    LinkRight(
        [create_node(ix, [insert_pairs(EmptyLeaf(p, nd.next_leaf), 0,
                                       Pairs(nd, mid).ks, Pairs(nd, mid).rs)
                            EXCEPT !.parent = nd.parent])
           EXCEPT !.pages[p].num_key = mid, !.pages[p].next_leaf = ix.next_page,
                  !.last_leaf = IF @ = p THEN ix.next_page ELSE @],
        p, ix.next_page)
RightHalf(nd, mid) ==
    [insert_pairs(EmptyLeaf(0, 0), 0, Pairs(nd, mid + 1).ks, Pairs(nd, mid + 1).rs)
       EXCEPT !.is_leaf = FALSE, !.parent = nd.parent,
              !.rids[nd.num_key - mid - 1] = nd.rids[nd.num_key]]
SplitInner(ix, p, nd, mid) ==
    Adopt([create_node(ix, RightHalf(nd, mid)) EXCEPT !.pages[p].num_key = mid],
          Children(RightHalf(nd, mid)), ix.next_page)
split(ix, p) ==
    IF ix.pages[p].is_leaf THEN SplitLeaf(ix, p, ix.pages[p], ix.pages[p].num_key \div 2)
    ELSE SplitInner(ix, p, ix.pages[p], ix.pages[p].num_key \div 2)

\* The key between the two halves: the first of the right leaf, or the middle key of
\* the inner node before it was split.
Separator(ix, p) == get_key(ix.pages[p], ix.pages[p].num_key \div 2)

\* insert_into_parent, at the root: a new root over the two halves.  Nobody sets its
\* parent: it stays the 0 of a zeroed frame, which is not the IX_NO_PAGE of a root page
\* but the page of the file header.
NewRoot(ix, old, key, new) ==
    Adopt([create_node(ix, [EmptyLeaf(0, 0) EXCEPT !.is_leaf = FALSE, !.num_key = 1,
                                                    !.parent = IX_FILE_HDR_PAGE,
                                                    !.keys[0] = key,
                                                    !.rids[0] = old, !.rids[1] = new])
             EXCEPT !.root = ix.next_page],
          {old, new}, ix.next_page)

\* insert_into_parent, below it: behind the last child the pair is appended; elsewhere
\* insert_pair puts the key one place too far, and moves as many Rids as keys, so the
\* last child of the node is written over or left behind.
IntoParent(nd, child_idx, key, new) ==
    IF child_idx = nd.num_key
    THEN [set_key(nd, child_idx, key) EXCEPT !.rids[child_idx + 1] = new, !.num_key = @ + 1]
    ELSE insert_pair(nd, child_idx + 1, key, new)
insert_into_parent(ix, parent, old, key, new) ==
    [ix EXCEPT !.pages[parent] = IntoParent(@, find_child(@, old), key, new),
               !.pages[new].parent = parent]

-----------------------------------------------------------------------------
(* Deletion. *)

adjust_root(ix, p) ==
    LET nd == ix.pages[p]
    IN  IF ~nd.is_leaf /\ nd.num_key = 1
        THEN [ix EXCEPT !.root = nd.rids[0], !.num_pages = @ - 1,
                        !.pages[nd.rids[0]].parent = IX_NO_PAGE]
        ELSE IF nd.is_leaf /\ nd.num_key = 0
        THEN [ix EXCEPT !.root = IX_NO_PAGE, !.num_pages = @ - 1]
        ELSE ix

NeighborIndex(index) == IF index > 0 THEN index - 1 ELSE 1

BorrowRightKeepsKey(ix, nb, p, parent) ==   \* mutant
    [ix EXCEPT
        !.pages[p] = insert_pair(@, @.num_key, get_key(ix.pages[nb], 0), ix.pages[nb].rids[0]),
        !.pages[nb] = erase_pair(@, 0)]
\* One pair moves from the neighbour; with index > 0 the parent's key at index is set,
\* which is the one to the right of the node.
BorrowRight(ix, nb, p, parent) ==
    [ix EXCEPT
        !.pages[p] = insert_pair(@, @.num_key, get_key(ix.pages[nb], 0), ix.pages[nb].rids[0]),
        !.pages[nb] = erase_pair(@, 0),
        !.pages[parent] = set_key(@, 0, get_key(erase_pair(ix.pages[nb], 0), 0))]
BorrowLeft(ix, nb, p, parent, index, last) ==
    [ix EXCEPT
        !.pages[p] = insert_pair(@, 0, get_key(ix.pages[nb], last), ix.pages[nb].rids[last]),
        !.pages[nb] = erase_pair(@, last),
        !.pages[parent] = set_key(@, index, get_key(ix.pages[nb], last))]
redistribute(ix, nb, p, parent, index) ==
    IF index = 0 THEN BorrowRight(ix, nb, p, parent)
    ELSE BorrowLeft(ix, nb, p, parent, index, ix.pages[nb].num_key - 1)

\* erase_leaf unlinks the leaf; the header page is linked like any leaf.
erase_leaf(ix, p) ==
    set_prev_leaf(set_next_leaf(ix, ix.pages[p].prev_leaf, ix.pages[p].next_leaf),
                  ix.pages[p].next_leaf, ix.pages[p].prev_leaf)

\* coalesce of two leaves, everything moved into the left one.  The pair erased from
\* the parent is the one at the index of the right child: erase_pair asserts that it is
\* below num_key, which the last child never is.
CoalesceAborts(ix, parent, index) ==
    (IF index = 0 THEN 1 ELSE index) >= ix.pages[parent].num_key
coalesce(ix, left, right, parent, index) ==
    erase_leaf(
        [ix EXCEPT
            !.pages[left] = insert_pairs([@ EXCEPT !.next_leaf = ix.pages[right].next_leaf],
                                         @.num_key, Pairs(ix.pages[right], 0).ks,
                                         Pairs(ix.pages[right], 0).rs),
            !.pages[parent] = erase_pair(@, IF index = 0 THEN 1 ELSE index),
            !.last_leaf = IF @ = right THEN left ELSE @,
            !.num_pages = @ - 1],
        right)

-----------------------------------------------------------------------------
(* What a walk over the finished structure sees. *)

\* The leaf of a key, by the descent of find_leaf_page over a tree nobody changes.
\* A pointer to a page that does not exist ends it.
LeafOf(ix, key) ==
    LET down[p \in Int, depth \in 0 .. Cardinality(DOMAIN ix.pages)] ==
          IF p \notin DOMAIN ix.pages \/ depth = 0 THEN IX_NO_PAGE
          ELSE IF ix.pages[p].is_leaf THEN p
          ELSE down[internal_lookup(ix.pages[p], key), depth - 1]
    IN  down[ix.root, Cardinality(DOMAIN ix.pages)]

\* The leaves from first_leaf_ on, as leaf_begin and IxScan follow them.
LeafChain(ix) ==
    LET from[p \in Int, left \in 0 .. Cardinality(DOMAIN ix.pages)] ==
          IF p = IX_LEAF_HEADER_PAGE \/ p \notin DOMAIN ix.pages \/ left = 0 THEN <<>>
          ELSE <<p>> \o from[ix.pages[p].next_leaf, left - 1]
    IN  from[ix.first_leaf, Cardinality(DOMAIN ix.pages)]

LeafKeys(nd) == {get_key(nd, i) : i \in 0 .. nd.num_key - 1}
KeysOf(ix) == UNION {LeafKeys(ix.pages[LeafChain(ix)[i]]) : i \in DOMAIN LeafChain(ix)}
==============================================================================
