-------------------------------- MODULE BTree -------------------------------
(***************************************************************************)
(* The B+tree: storage/btree.rs over the slotted pages of storage/page.rs. *)
(*                                                                         *)
(* A page is a leaf with a right link, an interior node, an overflow page  *)
(* or free.  A cell's footprint stands for its bytes; a value of more than *)
(* MaxInline units is stored in a chain of overflow pages.  Inserting and  *)
(* deleting are the recursive algorithms of the source, as operators on    *)
(* the map of pages.                                                       *)
(*                                                                         *)
(* Threads latch pages.  Latches that are taken and released with no page  *)
(* access of another thread in between make one step: the rewriting of a   *)
(* leaf by an optimistic writer, and a pessimistic writer's work under the *)
(* root gate.  What stays latched between steps are the shared latches of  *)
(* the descents.                                                           *)
(***************************************************************************)
EXTENDS Integers, FiniteSets, Sequences, SequencesExt

CONSTANTS
    Threads,
    MaxKey,         \* keys are 1..MaxKey
    ValueSizes,     \* sizes of values
    MaxInline,      \* the largest value kept in its cell
    Usable,         \* room for cells on a page
    MaxNode,        \* bound: pages are 1..MaxNode, the root is page 1
    TreeWorkloads,  \* per workload: the keys loaded, what each thread does, the sizes
                    \* of values, and a bound on operations (0: none)
    MaxOps          \* bound on operations in every workload

OpKinds == {"insert", "delete", "search", "scan"}
Keys    == 1..MaxKey
NodeNo  == 1..MaxNode
Root    == 1

\* MAX_CELL: a cell takes at most half of a page.
ASSUME BTreeConstants ==
    /\ MaxKey \in Nat /\ Usable \in Nat /\ MaxNode \in Nat \ {0}
    /\ MaxInline \in 1..(Usable \div 2) /\ ValueSizes \subseteq Nat \ {0}
    /\ TreeWorkloads \subseteq [load : Seq(Keys), does : [Threads -> SUBSET OpKinds],
                                sizes : SUBSET ValueSizes, ops : 0..MaxOps]
    /\ MaxOps \in Nat

VARIABLES
    tree_load,  \* the workload, chosen once
    nodes,      \* the pages
    at,         \* what each thread does next
    op,         \* its operation
    node,       \* the page it is at
    held,       \* the pages it has latched (shared) between two steps
    cells_left, \* Cursor::cells from Cursor::slot on
    found,      \* what its search or scan has delivered
    ops,        \* operations started
    \* history
    content,    \* what the tree should hold: a size per key, 0 for none
    seen        \* the sizes every key has had since a thread's operation began

threadVars == <<at, op, node, held, cells_left, found>>
treeVars   == <<tree_load, nodes, threadVars, ops, content, seen>>

FreeNode == [kind |-> "free"]
Leaf(cells, right) == [kind |-> "leaf", cells |-> cells, right |-> right]
Internal(cells) == [kind |-> "internal", cells |-> cells]
Overflow(next) == [kind |-> "overflow", next |-> next]

-----------------------------------------------------------------------------
(* Pages: page.rs *)

\* leaf_footprint and internal_footprint.  A spilled value leaves a small stub.
LeafFootprint(cell) == IF cell.size <= MaxInline THEN cell.size ELSE 1
InternalFootprint(cell) == MaxInline
Footprint(cells, Measure(_)) ==
    FoldLeft(LAMBDA sum, cell : sum + Measure(cell), 0, cells)

\* Mutant: a key equal to a separator goes left of it.
FindChild_Strict(cells, key) ==
    LET upto == {i \in DOMAIN cells : cells[i].key < key}
    IN  IF upto = {} THEN 1 ELSE Max(upto)

\* Page::find_child: the last cell whose separator is at most key, else the first.
FindChild(cells, key) ==
    LET upto == {i \in DOMAIN cells : cells[i].key <= key}
    IN  IF upto = {} THEN 1 ELSE Max(upto)

\* Page::find_leaf_slot: the cells in front of key, and whether key is there.
Before(cells, key) == Cardinality({i \in DOMAIN cells : cells[i].key < key})
Holds(cells, key) == \E i \in DOMAIN cells : cells[i].key = key

\* btree::split_index: the smallest prefix with at least half of the bytes, or the
\* largest that fits when that cut overflows a side.
SplitIndex(fp) ==
    LET n == Len(fp)
        Sum(i) == FoldLeft(LAMBDA sum, x : sum + x, 0, SubSeq(fp, 1, i))
        cut == CHOOSE i \in 1..n : /\ Sum(i) * 2 >= Sum(n)
                                   /\ i = 1 \/ Sum(i - 1) * 2 < Sum(n)
    IN  IF cut < n /\ Sum(cut) <= Usable /\ Sum(n) - Sum(cut) <= Usable
          THEN cut
          ELSE LET fits == {i \in 0..(n - 1) : Sum(i) <= Usable}
               IN  IF Max(fits) = 0 THEN 1 ELSE Max(fits)

-----------------------------------------------------------------------------
(* Allocation and overflow chains.  The pager's free list is module Pager's;   *)
(* here an allocation takes the lowest free page.                              *)

Free(t) == {no \in NodeNo : t[no].kind = "free"}
Alloc(t) == Min(Free(t))

\* write_overflow: one page per unit beyond the first, written back to front.
RECURSIVE WriteOverflow(_, _, _)
WriteOverflow(t, units, next) ==
    IF units = 0 THEN [tree |-> t, first |-> next]
    ELSE WriteOverflow([t EXCEPT ![Alloc(t)] = Overflow(next)], units - 1, Alloc(t))

\* free_overflow.
RECURSIVE FreeOverflow(_, _)
FreeOverflow(t, no) ==
    IF no = 0 THEN t ELSE FreeOverflow([t EXCEPT ![no] = FreeNode], t[no].next)

\* free_if_overflow.
FreeIfOverflow(t, cell) ==
    IF cell.first = 0 THEN t ELSE FreeOverflow(t, cell.first)

\* The cell for a value, with its chain written if it is too large.
Store(t, key, size) ==
    LET chain == IF size <= MaxInline THEN [tree |-> t, first |-> 0]
                                      ELSE WriteOverflow(t, size - MaxInline, 0)
    IN  [tree |-> chain.tree,
         cell |-> [key |-> key, size |-> size, first |-> chain.first]]

\* The cells of a leaf with a cell put in or replaced, and the pages once the
\* replaced cell's chain is free.
PutCell(t, cells, cell) ==
    LET n == Before(cells, cell.key)
    IN  IF Holds(cells, cell.key)
          THEN [tree |-> FreeIfOverflow(t, cells[n + 1]),
                cells |-> [cells EXCEPT ![n + 1] = cell]]
          ELSE [tree |-> t, cells |-> InsertAt(cells, n + 1, cell)]

-----------------------------------------------------------------------------
(* The pessimistic paths *)

NoSplit == [sep |-> 0, right |-> 0]

\* BTree::insert_into: the pages after the insertion beneath page no, and the
\* separator and page of its new right sibling if it split.
RECURSIVE InsertInto(_, _, _)
InsertInto(t, no, cell) ==
    IF t[no].kind = "leaf"
    THEN LET put == PutCell(t, t[no].cells, cell)
             fp  == [i \in DOMAIN put.cells |-> LeafFootprint(put.cells[i])]
             cut == SplitIndex(fp)
             new == Alloc(put.tree)
         IN  IF Footprint(put.cells, LeafFootprint) <= Usable
             THEN [tree |-> [put.tree EXCEPT ![no] = Leaf(put.cells, t[no].right)],
                   split |-> NoSplit]
             ELSE [tree |-> [put.tree EXCEPT
                        ![no]  = Leaf(SubSeq(put.cells, 1, cut), new),
                        ![new] = Leaf(SubSeq(put.cells, cut + 1, Len(fp)), t[no].right)],
                   split |-> [sep |-> put.cells[cut + 1].key, right |-> new]]
    ELSE LET idx   == FindChild(t[no].cells, cell.key)
             below == InsertInto(t, t[no].cells[idx].child, cell)
             cells == InsertAt(t[no].cells, idx + 1,
                               [key |-> below.split.sep, child |-> below.split.right])
             fp    == [i \in DOMAIN cells |-> InternalFootprint(cells[i])]
             cut   == SplitIndex(fp)
             new   == Alloc(below.tree)
         IN  IF below.split = NoSplit THEN below
             ELSE IF Footprint(cells, InternalFootprint) <= Usable
             THEN [tree |-> [below.tree EXCEPT ![no] = Internal(cells)],
                   split |-> NoSplit]
             ELSE [tree |-> [below.tree EXCEPT
                        ![no]  = Internal(SubSeq(cells, 1, cut)),
                        ![new] = Internal(SubSeq(cells, cut + 1, Len(cells)))],
                   split |-> [sep |-> cells[cut + 1].key, right |-> new]]

\* The tail of BTree::insert: a root that split moves aside, so that its page
\* number stays.
InsertAtRoot(t, cell) ==
    LET ins  == InsertInto(t, Root, cell)
        left == Alloc(ins.tree)
    IN  IF ins.split = NoSplit THEN ins.tree
        ELSE [ins.tree EXCEPT
                ![left] = ins.tree[Root],
                ![Root] = Internal(<<[key |-> ins.tree[Root].cells[1].key, child |-> left],
                                     [key |-> ins.split.sep, child |-> ins.split.right]>>)]

\* btree::merge_child: the child and its right sibling, or its left sibling and the
\* child, become one page if their cells fit.
MergeChild(t, no, idx) ==
    LET cells == t[no].cells
        r     == IF idx < Len(cells) THEN idx + 1 ELSE idx
        left  == cells[r - 1].child
        right == cells[r].child
        both  == t[left].cells \o t[right].cells
        fits  == IF t[left].kind = "leaf" THEN Footprint(both, LeafFootprint) <= Usable
                                          ELSE Footprint(both, InternalFootprint) <= Usable
    IN  IF Len(cells) = 1 \/ ~fits THEN t
        ELSE [t EXCEPT
                ![left]  = IF t[left].kind = "leaf" THEN Leaf(both, t[right].right)
                                                    ELSE Internal(both),
                ![right] = FreeNode,
                ![no]    = Internal(RemoveAt(cells, r))]

\* BTree::delete_from: the pages after removing key beneath page no.
RECURSIVE DeleteFrom(_, _, _)
DeleteFrom(t, no, key) ==
    LET cells == t[no].cells
    IN  IF t[no].kind = "leaf"
        THEN IF ~Holds(cells, key) THEN t
             ELSE LET n == Before(cells, key) + 1
                  IN  [FreeIfOverflow(t, cells[n]) EXCEPT
                          ![no] = Leaf(RemoveAt(cells, n), t[no].right)]
        ELSE LET idx   == FindChild(cells, key)
                 below == DeleteFrom(t, cells[idx].child, key)
             IN  IF below = t THEN t ELSE MergeChild(below, no, idx)

\* Mutant: the child's page is not freed.
CollapseRoot_Leaks(t) ==
    IF t[Root].kind # "internal" \/ Len(t[Root].cells) # 1 THEN t
    ELSE [t EXCEPT ![Root] = t[t[Root].cells[1].child]]

\* The tail of BTree::delete: a root with a single child takes its place.
RECURSIVE CollapseRoot(_)
CollapseRoot(t) ==
    IF t[Root].kind # "internal" \/ Len(t[Root].cells) # 1 THEN t
    ELSE LET only == t[Root].cells[1].child
         IN  CollapseRoot([t EXCEPT ![Root] = t[only], ![only] = FreeNode])

DeleteAtRoot(t, key) == CollapseRoot(DeleteFrom(t, Root, key))

\* The pages on the way from page no to the leaf for key.
RECURSIVE Path(_, _, _)
Path(t, no, key) ==
    IF t[no].kind # "internal" THEN {no}
    ELSE {no} \cup Path(t, t[no].cells[FindChild(t[no].cells, key)].child, key)

\* free_subtree, which free_all calls on the root.
RECURSIVE FreeSubtree(_, _)
FreeSubtree(t, no) ==
    LET below == FoldLeft(LAMBDA u, cell : IF t[no].kind = "internal"
                                             THEN FreeSubtree(u, cell.child)
                                             ELSE FreeIfOverflow(u, cell),
                          t, t[no].cells)
    IN  [below EXCEPT ![no] = FreeNode]

\* BTree::leaf_pages: down the first children, then along the right links.
RECURSIVE LeafPages(_, _)
LeafPages(t, no) ==
    IF no = 0 THEN <<>>
    ELSE IF t[no].kind = "internal" THEN LeafPages(t, t[no].cells[1].child)
    ELSE <<no>> \o LeafPages(t, t[no].right)

-----------------------------------------------------------------------------
(* Threads *)

Cell == [key : Keys, size : ValueSizes, first : 0..MaxNode]

TreeTypeOK ==
    /\ tree_load \in TreeWorkloads
    /\ \A no \in NodeNo :
          \/ nodes[no] = FreeNode
          \/ nodes[no].kind = "overflow" /\ nodes[no].next \in 0..MaxNode
          \/ /\ nodes[no].kind = "leaf" /\ nodes[no].right \in 0..MaxNode
             /\ ToSet(nodes[no].cells) \subseteq Cell
             /\ Footprint(nodes[no].cells, LeafFootprint) <= Usable
          \/ /\ nodes[no].kind = "internal"
             /\ ToSet(nodes[no].cells) \subseteq [key : Keys, child : NodeNo]
             /\ Len(nodes[no].cells) > 0
             /\ Footprint(nodes[no].cells, InternalFootprint) <= Usable
    /\ at \in [Threads -> {"idle", "descend", "read", "cursor", "leaf", "gate", "done",
                           "corrupt"}]
    /\ \A t \in Threads : /\ op[t].kind \in OpKinds \cup {"none"}
                          /\ ToSet(cells_left[t]) \subseteq Cell
                          /\ ToSet(found[t]) \subseteq Cell
    /\ node \in [Threads -> 0..MaxNode]
    /\ held \in [Threads -> SUBSET NodeNo]
    /\ ops \in 0..MaxOps
    /\ content \in [Keys -> {0} \cup ValueSizes]
    /\ seen \in [Threads -> [Keys -> SUBSET ({0} \cup ValueSizes)]]

NoOp == [kind |-> "none", key |-> 0, upper |-> 0, cell |-> <<>>]
Nothing == [k \in Keys |-> {}]
EmptyTree == [no \in NodeNo |-> IF no = Root THEN Leaf(<<>>, 0) ELSE FreeNode]

\* Cells of the smallest size, inserted in the order of the workload.
LoadedTree(load, size) ==
    FoldLeft(LAMBDA t, k : InsertAtRoot(t, [key |-> k, size |-> size, first |-> 0]),
             EmptyTree, load)

TreeInit ==
    /\ tree_load \in TreeWorkloads
    /\ LET size == Min(ValueSizes)
       IN  /\ nodes = LoadedTree(tree_load.load, size)
           /\ content = [k \in Keys |-> IF k \in ToSet(tree_load.load) THEN size ELSE 0]
    /\ at = [t \in Threads |-> "idle"]
    /\ op = [t \in Threads |-> NoOp]
    /\ node = [t \in Threads |-> 0]
    /\ held = [t \in Threads |-> {}]
    /\ cells_left = [t \in Threads |-> <<>>]
    /\ found = [t \in Threads |-> <<>>]
    /\ ops = 0
    /\ seen = [t \in Threads |-> Nothing]

\* The history after key's value became size.
NoteChange(key, size) ==
    /\ content' = [content EXCEPT ![key] = size]
    /\ seen' = [t \in Threads |-> IF at[t] = "idle" THEN seen[t]
                                  ELSE [seen[t] EXCEPT ![key] = @ \cup {size}]]

\* An operation starts at the root.
Begin(t, kind) ==
    /\ at[t] = "idle" /\ kind \in tree_load.does[t]
    /\ tree_load.ops > 0 => ops < tree_load.ops
    /\ ops' = IF tree_load.ops > 0 THEN ops + 1 ELSE ops
    /\ at' = [at EXCEPT ![t] = "descend"]
    /\ node' = [node EXCEPT ![t] = Root]
    /\ seen' = [seen EXCEPT ![t] = [k \in Keys |-> {content[k]}]]
    /\ UNCHANGED <<tree_load, held, cells_left, found, content>>

\* BTree::insert writes the overflow chain before it descends.
BeginInsert(t, key, size) ==
    /\ Begin(t, "insert") /\ size \in tree_load.sizes
    /\ Cardinality(Free(nodes)) >= 6                    \* the bound MaxNode
    /\ LET stored == Store(nodes, key, size)
       IN  /\ nodes' = stored.tree
           /\ op' = [op EXCEPT ![t] = [NoOp EXCEPT !.kind = "insert", !.key = key,
                                                   !.cell = stored.cell]]

BeginOther(t, kind, key, upper) ==
    /\ Begin(t, kind) /\ kind \in {"delete", "search", "scan"}
    /\ kind # "scan" => upper = key
    /\ op' = [op EXCEPT ![t] = [NoOp EXCEPT !.kind = kind, !.key = key,
                                            !.upper = upper]]
    /\ UNCHANGED nodes

\* The operation returns; its caller looks at the result.
Return(t) ==
    /\ at[t] \in {"done", "corrupt"}
    /\ at' = [at EXCEPT ![t] = "idle"]
    /\ op' = [op EXCEPT ![t] = NoOp]
    /\ node' = [node EXCEPT ![t] = 0]
    /\ found' = [found EXCEPT ![t] = <<>>]
    /\ seen' = [seen EXCEPT ![t] = Nothing]
    /\ UNCHANGED <<tree_load, nodes, held, cells_left, ops, content>>

Reading(t) == op[t].kind \in {"search", "scan"}

\* search and cursor: the child's latch is taken and the parent's dropped ...
LatchChild(t) ==
    /\ Reading(t) /\ at[t] = "descend"
    /\ held' = [held EXCEPT ![t] = {node[t]}]
    /\ at' = [at EXCEPT ![t] = "read"]
    /\ UNCHANGED <<tree_load, nodes, op, node, cells_left, found, ops, content, seen>>

\* ... and only then is the child read.  A page that is neither a leaf nor an
\* interior node makes no sense to the reader.
ReadNode(t) ==
    /\ Reading(t) /\ at[t] = "read"
    /\ LET page == nodes[node[t]]
           from == Before(page.cells, op[t].key) + 1
       IN  CASE page.kind = "internal" ->
                  /\ node' = [node EXCEPT ![t] =
                                 page.cells[FindChild(page.cells, op[t].key)].child]
                  /\ at' = [at EXCEPT ![t] = "descend"]
                  /\ UNCHANGED <<held, cells_left, found>>
             [] page.kind = "leaf" /\ op[t].kind = "search" ->
                  /\ found' = [found EXCEPT ![t] =
                                  SelectSeq(page.cells, LAMBDA c : c.key = op[t].key)]
                  /\ held' = [held EXCEPT ![t] = {}]
                  /\ at' = [at EXCEPT ![t] = "done"]
                  /\ UNCHANGED <<node, cells_left>>
             [] page.kind = "leaf" /\ op[t].kind = "scan" ->
                  /\ cells_left' = [cells_left EXCEPT ![t] =
                                       SubSeq(page.cells, from, Len(page.cells))]
                  /\ node' = [node EXCEPT ![t] = page.right]
                  /\ held' = [held EXCEPT ![t] = {}]
                  /\ at' = [at EXCEPT ![t] = "cursor"]
                  /\ UNCHANGED found
             [] OTHER ->
                  /\ held' = [held EXCEPT ![t] = {}]
                  /\ at' = [at EXCEPT ![t] = "corrupt"]
                  /\ UNCHANGED <<node, cells_left, found>>
    /\ UNCHANGED <<tree_load, nodes, op, ops, content, seen>>

\* Cursor::next on a buffered cell.
CursorNext(t) ==
    /\ at[t] = "cursor" /\ cells_left[t] # <<>>
    /\ IF Head(cells_left[t]).key >= op[t].upper
         THEN /\ at' = [at EXCEPT ![t] = "done"]
              /\ cells_left' = [cells_left EXCEPT ![t] = <<>>]
              /\ UNCHANGED found
         ELSE /\ found' = [found EXCEPT ![t] = Append(@, Head(cells_left[t]))]
              /\ cells_left' = [cells_left EXCEPT ![t] = Tail(@)]
              /\ UNCHANGED at
    /\ UNCHANGED <<tree_load, nodes, op, node, held, ops, content, seen>>

\* Cursor::next on an empty buffer: the next leaf of the chain is copied.
CursorLoad(t) ==
    /\ at[t] = "cursor" /\ cells_left[t] = <<>>
    /\ IF node[t] = 0
         THEN at' = [at EXCEPT ![t] = "done"] /\ UNCHANGED <<cells_left, node>>
       ELSE IF nodes[node[t]].kind # "leaf"
         THEN at' = [at EXCEPT ![t] = "corrupt"] /\ UNCHANGED <<cells_left, node>>
         ELSE /\ cells_left' = [cells_left EXCEPT ![t] = nodes[node[t]].cells]
              /\ node' = [node EXCEPT ![t] = nodes[node[t]].right]
              /\ UNCHANGED at
    /\ UNCHANGED <<tree_load, nodes, op, held, found, ops, content, seen>>

\* try_insert_optimistic and try_delete_optimistic: a level of the descent.  The page
\* is latched and read before the parent is released; at the leaf the parent stays
\* latched and the leaf's own latch goes.
WriterDescend(t) ==
    /\ ~Reading(t) /\ at[t] = "descend"
    /\ LET page == nodes[node[t]]
       IN  CASE page.kind = "internal" ->
                  /\ held' = [held EXCEPT ![t] = {node[t]}]
                  /\ node' = [node EXCEPT ![t] =
                                 page.cells[FindChild(page.cells, op[t].key)].child]
                  /\ UNCHANGED at
             [] page.kind = "leaf" ->
                  at' = [at EXCEPT ![t] = "leaf"] /\ UNCHANGED <<held, node>>
             [] OTHER ->
                  at' = [at EXCEPT ![t] = "corrupt"] /\ UNCHANGED <<held, node>>
    /\ UNCHANGED <<tree_load, nodes, op, cells_left, found, ops, content, seen>>

\* Nobody else has a shared latch on these pages.
Unlatched(t, pages) == \A u \in Threads \ {t} : held[u] \cap pages = {}

\* The leaf is not the one for key, or needs a split or a merge.
MustRestart(t, page, put) ==
    \/ page.kind # "leaf"
    \/ page.right # 0 /\ page.cells # <<>> /\ op[t].key > Last(page.cells).key
    \/ op[t].kind = "insert" /\ Footprint(put.cells, LeafFootprint) > Usable
    \/ /\ op[t].kind = "delete" /\ Holds(page.cells, op[t].key)
       /\ Len(page.cells) = 1 /\ (page.right # 0 \/ node[t] # Root)

\* The optimistic attempt at the leaf, under its exclusive latch.
WriteLeaf(t) ==
    /\ at[t] = "leaf" /\ Unlatched(t, {node[t]})
    /\ LET no   == node[t]
           page == nodes[no]
           put  == PutCell(nodes, page.cells, op[t].cell)
           n    == Before(page.cells, op[t].key) + 1
       IN  IF MustRestart(t, page, put)
             THEN at' = [at EXCEPT ![t] = "gate"] /\ UNCHANGED <<nodes, content, seen>>
           ELSE IF op[t].kind = "insert"
             THEN /\ nodes' = [put.tree EXCEPT ![no] = Leaf(put.cells, page.right)]
                  /\ NoteChange(op[t].key, op[t].cell.size)
                  /\ at' = [at EXCEPT ![t] = "done"]
             ELSE /\ nodes' = IF Holds(page.cells, op[t].key)
                                THEN [FreeIfOverflow(nodes, page.cells[n]) EXCEPT
                                         ![no] = Leaf(RemoveAt(page.cells, n), page.right)]
                                ELSE nodes
                  /\ NoteChange(op[t].key, 0)
                  /\ at' = [at EXCEPT ![t] = "done"]
    /\ held' = [held EXCEPT ![t] = {}]
    /\ UNCHANGED <<tree_load, op, node, cells_left, found, ops>>

\* Mutant: shared latches below the root do not hold back the restructuring.
Restructure_RootOnly(t) ==
    /\ at[t] = "gate" /\ Unlatched(t, {Root})
    /\ IF op[t].kind = "insert"
         THEN /\ nodes' = InsertAtRoot(nodes, op[t].cell)
              /\ NoteChange(op[t].key, op[t].cell.size)
         ELSE /\ nodes' = DeleteAtRoot(nodes, op[t].key)
              /\ NoteChange(op[t].key, 0)
    /\ at' = [at EXCEPT ![t] = "done"]
    /\ UNCHANGED <<tree_load, op, node, held, cells_left, found, ops>>

\* The pessimistic attempt: the root gate, an exclusive latch on every page of the
\* path, and the recursive algorithm.  Siblings are merged without a latch of theirs.
Restructure(t) ==
    /\ at[t] = "gate" /\ Unlatched(t, Path(nodes, Root, op[t].key))
    /\ IF op[t].kind = "insert"
         THEN /\ nodes' = InsertAtRoot(nodes, op[t].cell)
              /\ NoteChange(op[t].key, op[t].cell.size)
         ELSE /\ nodes' = DeleteAtRoot(nodes, op[t].key)
              /\ NoteChange(op[t].key, 0)
    /\ at' = [at EXCEPT ![t] = "done"]
    /\ UNCHANGED <<tree_load, op, node, held, cells_left, found, ops>>

TreeNext ==
    \E t \in Threads :
        \/ \E key \in Keys, size \in ValueSizes : BeginInsert(t, key, size)
        \/ \E kind \in OpKinds, key \in Keys, upper \in 1..(MaxKey + 1) :
              BeginOther(t, kind, key, upper)
        \/ LatchChild(t) \/ ReadNode(t) \/ CursorNext(t) \/ CursorLoad(t)
        \/ WriterDescend(t) \/ WriteLeaf(t) \/ Restructure(t) \/ Return(t)

TreeSpec == TreeInit /\ [][TreeNext]_treeVars

-----------------------------------------------------------------------------
(* Properties *)

\* The cells of the leaves beneath a page, left to right, and the leaves.
RECURSIVE Leaves(_)
Leaves(no) ==
    IF nodes[no].kind # "internal" THEN <<no>>
    ELSE FoldLeft(LAMBDA all, cell : all \o Leaves(cell.child), <<>>, nodes[no].cells)

RECURSIVE Depths(_)
Depths(no) ==
    IF nodes[no].kind # "internal" THEN {1}
    ELSE {d + 1 : d \in UNION {Depths(cell.child) : cell \in ToSet(nodes[no].cells)}}

\* Every key beneath a page is in the range [low, high) that its parents route to it.
RECURSIVE Routed(_, _, _)
Routed(no, low, high) ==
    LET cells == nodes[no].cells
        n     == Len(cells)
    IN  IF nodes[no].kind = "leaf"
          THEN \A i \in 1..n : low <= cells[i].key /\ cells[i].key < high
          ELSE \A i \in 1..n :
                  Routed(cells[i].child, IF i = 1 THEN low ELSE cells[i].key,
                                         IF i = n THEN high ELSE cells[i + 1].key)

InLeaves == FoldLeft(LAMBDA all, no : all \o nodes[no].cells, <<>>, Leaves(Root))

\* Chains that an insert has written and not linked yet.
RECURSIVE Chain(_)
Chain(no) == IF no = 0 THEN {} ELSE {no} \cup Chain(nodes[no].next)
Unlinked == UNION {Chain(op[t].cell.first) : t \in
                      {u \in Threads : op[u].kind = "insert" /\ at[u] # "done"}}

\* After any sequence of inserts, replacements and deletes, also by concurrent writers,
\* all leaves have one depth, keys ascend and lie where the separators route a search,
\* the chain of right links visits the leaves in order, and freeing the tree from its
\* root frees every page but the chains still in a writer's hands: no page leaks and
\* none is used twice (insert_into, merge_child, the root's split and collapse,
\* free_subtree).
TreeShape ==
    /\ Cardinality(Depths(Root)) = 1
    /\ Routed(Root, 0, MaxKey + 1)
    /\ \A i \in 1..(Len(InLeaves) - 1) : InLeaves[i].key < InLeaves[i + 1].key
    /\ LeafPages(nodes, Root) = Leaves(Root)
    /\ Free(FreeSubtree(nodes, Root)) = NodeNo \ Unlinked

\* The leaves hold exactly what the completed writes left, with every spilled value
\* readable in full, although writers interleave (try_insert_optimistic,
\* try_delete_optimistic, the root gate).
TreeContents ==
    /\ \A k \in Keys : content[k] # 0 <=> Holds(InLeaves, k)
    /\ \A cell \in ToSet(InLeaves) :
          /\ content[cell.key] = cell.size
          /\ Cardinality(Chain(cell.first)) =
                IF cell.size <= MaxInline THEN 0 ELSE cell.size - MaxInline

\* A search returns a value the key had at some moment of the search; a scan delivers
\* ascending keys, nothing that was never there, and every key that was there all
\* along, although leaves split under it and it holds no latch between two leaves.
ReadsSound ==
    \A t \in Threads :
        /\ at[t] # "corrupt"
        /\ at[t] = "done" /\ Reading(t) =>
              LET got(k) == {c.size : c \in {f \in ToSet(found[t]) : f.key = k}}
                  asked == IF op[t].kind = "search" THEN {op[t].key}
                                                    ELSE op[t].key..(op[t].upper - 1)
              IN  /\ \A i \in 1..(Len(found[t]) - 1) :
                        found[t][i].key < found[t][i + 1].key
                  /\ \A c \in ToSet(found[t]) : c.key \in asked
                  /\ \A k \in asked : IF got(k) = {} THEN 0 \in seen[t][k]
                                                     ELSE got(k) \subseteq seen[t][k]
=============================================================================
