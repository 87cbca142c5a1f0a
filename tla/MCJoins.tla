------------------------------- MODULE MCJoins -------------------------------
(* Inputs for module Joins: empty sides, NULL and repeated keys, more rows than
   a batch, rows the snapshot does not see, columns of two types, and indexes
   that are ready, being built, or both. *)
EXTENDS Joins

Keyed(keys, lives) == [n \in DOMAIN keys |-> [key |-> keys[n], live |-> lives[n]]]
LeftTables == {<<>>, <<1, 0, 2>>, <<1, 1>>, <<2, 2, 1, 1>>}
RightTables ==
    {Keyed(<<a, 1, b>>, <<TRUE, TRUE, TRUE>>) : a \in 0 .. 2, b \in 0 .. 2}
      \cup {Keyed(k, <<TRUE, FALSE>>) : k \in [1 .. 2 -> 0 .. 2]} \cup {<<>>}
Clauses == ({"inner", "left"} \X {"eq", "eq_and", "less"}) \cup {<<"cross", "none">>}
             \cup ({"semi", "anti"} \X {"eq", "less"})

\* An index being built has the rows the scan has come to, and those that writers
\* have entered ahead of it.
Ready(r) == [is_building |-> FALSE, entered |-> DOMAIN r]
Filling(rows) == [is_building |-> TRUE, entered |-> rows]
Indexings(r) ==
    {<<Ready(r)>>, <<Filling(DOMAIN r)>>, <<Ready(r), Filling({})>>}
      \cup {<<Filling(rows), Ready(r)>> : rows \in {{}, {1}, {Len(r)}} \cap SUBSET DOMAIN r}

JoinOf(l, r, clause, typed, ixs, vectorised) ==
    [left |-> l, right |-> r, kind |-> clause[1], on |-> clause[2], same_type |-> typed,
     indexes |-> ixs, batched |-> vectorised]
PlainJoins ==
    {JoinOf(l, r, c, typed, <<>>, vectorised) :
        l \in LeftTables, r \in RightTables, c \in Clauses, typed \in BOOLEAN,
        vectorised \in BOOLEAN}
IndexedJoins ==
    UNION {{JoinOf(l, r, <<kind, on>>, TRUE, ixs, TRUE) :
               l \in LeftTables, kind \in {"inner", "left"}, on \in {"eq", "eq_and"},
               ixs \in Indexings(r)} : r \in RightTables}
SomeJoins ==
    {j \in PlainJoins :
        /\ ~j.same_type => j.on = "eq"
        /\ j.kind \in {"semi", "anti", "cross"} => j.batched /\ j.same_type}
      \cup IndexedJoins
=============================================================================
