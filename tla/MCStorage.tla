------------------------------ MODULE MCStorage -----------------------------
(***************************************************************************)
(* The storage layer for TLC: workloads for Pager and for BTree, and the   *)
(* rows under their constraints.  A behaviour is one of the pager, of the  *)
(* tree, or of the tables.                                                 *)
(***************************************************************************)
EXTENDS Pager, BTree, MCConstraints

CONSTANTS p1, p2, t1, t2

\* Two connections that write the same pages, with a pool that holds all of them.
SharedPages ==
    [writes |-> (p1 :> {1, 2}) @@ (p2 :> {1, 2}), capacity |-> 4, events |-> {},
     stmts |-> 3, rows |-> 3, crashes |-> 0]

\* Connections on pages of their own, with rollbacks and crashes.
OwnPages ==
    [writes |-> (p1 :> {1, 2}) @@ (p2 :> {3}), capacity |-> 4,
     events |-> {"rollback", "kill", "power"}, stmts |-> 2, rows |-> 3, crashes |-> 2]

\* One connection whose statement does not fit the pool.
Spilling ==
    [writes |-> (p1 :> {1, 2, 3}) @@ (p2 :> {}), capacity |-> 2,
     events |-> {"rollback", "kill"}, stmts |-> 2, rows |-> 3, crashes |-> 1]

\* The same, and the statement comes back to a page that was evicted.
Respilling ==
    {[Spilling EXCEPT !.writes = (p1 :> {1, 2}) @@ (p2 :> {}), !.capacity = 1,
                      !.events = {"rewrite"}, !.stmts = 1]}

\* Allocation from both connections: with rollbacks, and with pages freed.
Allocating ==
    [writes |-> (p1 :> {1}) @@ (p2 :> {}), capacity |-> 5,
     events |-> {"alloc", "rollback"}, stmts |-> 3, rows |-> 3, crashes |-> 0]
Freeing ==
    [writes |-> (p1 :> {1, 2}) @@ (p2 :> {2, 3}), capacity |-> 5,
     events |-> {"alloc", "free"}, stmts |-> 3, rows |-> 2, crashes |-> 0]

Sound == {SharedPages, OwnPages, Spilling, Allocating, Freeing}

Tree(load, one, two, sizes, ops_bound) ==
    [load |-> load, does |-> (t1 :> one) @@ (t2 :> two), sizes |-> sizes,
     ops |-> ops_bound]
Writing == {"insert", "delete"}

\* One thread, large and small values, on an empty tree and on trees of three levels.
OneThread == {Tree(<<>>, Writing, {}, {2, 3}, 4),
              Tree(<<1, 2, 3, 4, 5>>, Writing, {}, {2, 3}, 3),
              Tree(<<5, 4, 3, 2, 1>>, Writing, {}, {2, 3}, 3)}

\* Two writers; a writer that inserts and a reader.
TwoWriters == Tree(<<1, 3, 5>>, Writing, Writing, {2}, 3)
Growing == Tree(<<1, 3, 5>>, {"insert"}, {"search", "scan"}, {2}, 3)

\* Nobody does anything.
QuietTree == Tree(<<>>, {}, {}, {2}, 0)

Trees == OneThread \cup {TwoWriters, Growing, QuietTree}

VARIABLE part

StorageInit ==
    /\ part \in {"pager", "tree", "tables"}
    /\ part # "pager" => store_load = SharedPages
    /\ part # "tree" => tree_load = QuietTree
    /\ part # "tables" => constraint_load = Defining
    /\ StoreInit /\ TreeInit /\ ConstraintInit

StorageNext ==
    \/ part = "pager" /\ StoreNext /\ UNCHANGED <<part, treeVars, constraintVars>>
    \/ part = "tree" /\ TreeNext /\ UNCHANGED <<part, storeVars, constraintVars>>
    \/ part = "tables" /\ ConstraintNext /\ UNCHANGED <<part, storeVars, treeVars>>

StorageSpec ==
    StorageInit /\ [][StorageNext]_<<part, storeVars, treeVars, constraintVars>>

\* The types of the parts: among them that a log's write position lies within the log,
\* that a tree node fits its page, and that a row has one stored version per row ID.
StorageTypeOK ==
    /\ part = "pager" => StoreTypeOK
    /\ part = "tree" => TreeTypeOK
    /\ part = "tables" => ConstraintTypeOK
=============================================================================
