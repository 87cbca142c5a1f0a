---------------------------- MODULE MCConstraints ---------------------------
(* Workloads for module Constraints. *)
EXTENDS Constraints, TLC

CONSTANTS k1, k2

Declaring(actions, required, indexed, one, two, does) ==
    [on_delete |-> actions, not_null |-> required, indexed |-> indexed,
     writes |-> (k1 :> one) @@ (k2 :> two), does |-> does,
     keys |-> [t \in Tables |-> {1, 2}], txs |-> 4, ids |-> 4]
OnDelete(child, grand) == [t \in Children |-> IF t = "child" THEN child ELSE grand]
All(t) == {t} \X {"insert", "update", "delete"}
Inserts == Tables \X {"insert"}

\* One connection: a parent, two children, a grandchild, and every pair of actions.
Referring ==
    {[Declaring(OnDelete(a, b), required, {"child"},
                Inserts \cup {<<"parent", "delete">>}, {}, {})
        EXCEPT !.keys.parent = {1}, !.keys.grand = {1}, !.txs = 5, !.ids = 6] :
        a \in {"restrict", "cascade", "set_null"},
        b \in {"restrict", "cascade", "set_null"}, required \in {{}, {"grand"}}}

\* One connection that rewrites parents and children, and the reclaimer.
Rewriting ==
    [Declaring(OnDelete("cascade", "restrict"), {}, {}, All("parent") \cup All("child"),
              {}, {"reclaim"}) EXCEPT !.keys.child = {1}]

\* Transactions that delete each other's rows, directly and through the parent.
Deleting ==
    [Declaring(OnDelete("cascade", "restrict"), {}, {"child"},
              ({"parent", "child"} \X {"insert"}) \cup {<<"child", "delete">>},
              {<<"parent", "delete">>}, {"transactions", "rollback", "reclaim"})
        EXCEPT !.keys = [t \in Tables |-> {1}], !.ids = 3]

\* Two transactions on one table, one of which updates and deletes.
Concurrent ==
    [Declaring(OnDelete("set_null", "restrict"), {}, {}, All("parent"),
              {<<"parent", "insert">>},
              {"transactions", "rollback", "reclaim", "vacuum"})
        EXCEPT !.txs = 3, !.ids = 3]

\* Tables created and dropped.
Defining ==
    [Declaring(OnDelete("restrict", "restrict"), {}, {}, {<<"parent", "insert">>}, {},
               {"ddl"}) EXCEPT !.txs = 2]

Schemes == Referring \cup {Rewriting, Deleting, Concurrent, Defining}
=============================================================================
