------------------------------- MODULE Planner -------------------------------
(***************************************************************************)
(* Access paths: how engine/planner.rs turns a WHERE clause into a range   *)
(* of an index, and which rows that range holds.                           *)
(*                                                                         *)
(* A row has columns "a" and "b".  A value is a number, 0 is NULL.  The    *)
(* order-preserving encoding of a value in an index key is abstracted to   *)
(* the value itself, one symbol of the key: NULL is the least, and the     *)
(* smallest key beyond those that start with v starts with v + 1.          *)
(***************************************************************************)
EXTENDS Integers, Sequences, SequencesExt, FiniteSets, FiniteSetsExt

Null == 0

\* A conjunct of WHERE compares a column and a literal; flipped: the literal
\* is written first.  Anything else, "<>" here, is opaque to the planner.
Flip(op) == CASE op = "<" -> ">" [] op = ">" -> "<" [] op = "<=" -> ">=" [] op = ">=" -> "<="
              [] OTHER -> op

Compares(op, l, r) ==
    CASE op = "=" -> l = r [] op = "<" -> l < r [] op = "<=" -> l <= r
      [] op = ">" -> l > r [] op = ">=" -> l >= r [] op = "<>" -> l # r

\* A comparison with NULL is NULL, and a row passes only when all are TRUE.
Holds(c, row) ==
    /\ row[c.col] # Null
    /\ IF c.flipped THEN Compares(c.op, c.lit, row[c.col]) ELSE Compares(c.op, row[c.col], c.lit)
Passes(where, row) == \A n \in DOMAIN where : Holds(where[n], row)

----------------------------------------------------------------------------
\* classify: a conjunct with the column on the left, as a predicate.
Classify_Unflipped(c) == [col |-> c.col, op |-> c.op, value |-> c.lit]
Classify(c) ==
    [col |-> c.col, op |-> IF c.flipped THEN Flip(c.op) ELSE c.op, value |-> c.lit]

\* The first predicate on a column with one of the operators given.
Find(where, col, ops) ==
    LET Fits(n) == Classify(where[n]).col = col /\ Classify(where[n]).op \in ops
        found == {n \in DOMAIN where : Fits(n)}
    IN IF found = {} THEN <<>> ELSE <<Classify(where[Min(found)])>>

\* prefix_upper_bound: beyond every key that starts with the prefix.
PrefixUpperBound(prefix) == [prefix EXCEPT ![Len(prefix)] = @ + 1]

\* build_index_scan: equalities pin leading columns; the next column may have
\* a range.  upper = <<>> means that the scan runs to the end of the index.
BuildIndexScan(columns, where) ==
    LET pinned == Max({n \in 0 .. Len(columns) :
                         \A i \in 1 .. n : Find(where, columns[i], {"="}) # <<>>})
        prefix == [i \in 1 .. pinned |-> Find(where, columns[i], {"="})[1].value]
        Bound(ops) == IF pinned = Len(columns) THEN <<>>
                      ELSE Find(where, columns[pinned + 1], ops)
        lower == Bound({">", ">="})
        upper == Bound({"<", "<="})
        AtOrPast(b, past) == IF b.op = past THEN <<b.value + 1>> ELSE <<b.value>>
    IN [pinned |-> pinned,
        has_range |-> lower # <<>> \/ upper # <<>>,
        lower |-> IF lower = <<>> THEN prefix ELSE prefix \o AtOrPast(lower[1], ">"),
        upper |-> CASE upper # <<>> -> prefix \o AtOrPast(upper[1], "<=")
                    [] upper = <<>> /\ pinned > 0 -> PrefixUpperBound(prefix)
                    [] OTHER -> <<>>]

\* order_matches: ORDER BY, all ascending, is a prefix of the columns after the
\* pinned ones.
OrderMatches(columns, pinned, order) ==
    /\ order # <<>>
    /\ \A n \in DOMAIN order : ~order[n].desc
    /\ Len(order) <= Len(columns) - pinned
    /\ \A n \in DOMAIN order : order[n].col = columns[pinned + n]

\* choose_access: the first of the indexes with the most pinned columns, then
\* with a range.  An index still being built is passed over.
ChooseAccess(indexes, where, order) ==
    LET Plan(x) == BuildIndexScan(indexes[x].columns, where)
        usable == {x \in DOMAIN indexes :
                     /\ ~indexes[x].is_building
                     /\ Plan(x).pinned > 0 \/ Plan(x).has_range}
        Weight(x) == 2 * Plan(x).pinned + IF Plan(x).has_range THEN 1 ELSE 0
        best == {x \in usable : \A y \in usable : Weight(y) <= Weight(x)}
        x == Min(best)
    IN IF where = <<>> \/ usable = {}
       THEN [index |-> 0, lower |-> <<>>, upper |-> <<>>, presorted |-> FALSE]
       ELSE [index |-> x, lower |-> Plan(x).lower, upper |-> Plan(x).upper,
             presorted |-> OrderMatches(indexes[x].columns, Plan(x).pinned, order)]

----------------------------------------------------------------------------
\* Keys are compared symbol by symbol; a proper prefix comes first.
KeyLess(s, t) ==
    \E n \in 1 .. Len(t) :
        /\ \A i \in 1 .. n - 1 : i <= Len(s) /\ s[i] = t[i]
        /\ n > Len(s) \/ s[n] < t[n]

\* encode_index_key: the values of the indexed columns, then the rowid.
IndexKey(table, columns, id) ==
    Append([n \in DOMAIN columns |-> table[id][columns[n]]], id)

\* The rowids a cursor over the access path yields, in its order.
Entries(table, indexes, access) ==
    IF access.index = 0 THEN [id \in DOMAIN table |-> id]
    ELSE LET columns == indexes[access.index].columns
             Key(id) == IndexKey(table, columns, id)
             inside == {id \in DOMAIN table :
                          /\ ~KeyLess(Key(id), access.lower)
                          /\ access.upper = <<>> \/ KeyLess(Key(id), access.upper)}
         IN SetToSortSeq(inside, LAMBDA i, j : KeyLess(Key(i), Key(j)))
=============================================================================
