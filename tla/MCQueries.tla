------------------------------ MODULE MCQueries ------------------------------
(* Inputs for modules Select and Values, beside those of MCJoins. *)
EXTENDS MCJoins, Select, Values

----------------------------------------------------------------------------
\* Select: values of columns a and b, 0 for NULL, and whether the row is seen.
TableOf(rows) == [n \in DOMAIN rows |-> [a |-> rows[n][1], b |-> rows[n][2], live |-> rows[n][3]]]
SelectTables ==
    {TableOf(<< <<2, 1, TRUE>>, <<1, 2, TRUE>>, <<0, 3, TRUE>>, <<2, 0, FALSE>>, <<1, 1, TRUE>>,
                <<2, 1, TRUE>> >>),
     TableOf(<< <<1, 3, TRUE>>, <<1, 0, TRUE>>, <<0, 0, TRUE>>, <<0, 0, TRUE>>, <<1, 3, TRUE>> >>),
     <<>>}
Column(col, o, lit) == [col |-> col, op |-> o, lit |-> lit, flipped |-> FALSE]
Flipped(col, o, lit) == [col |-> col, op |-> o, lit |-> lit, flipped |-> TRUE]
Wheres ==
    {<<>>, <<Column("a", "=", 1)>>, <<Column("a", ">", 1)>>, <<Flipped("a", ">", 2)>>,
     <<Flipped("a", ">=", 2), Column("b", "=", 1)>>, <<Column("a", "=", 2), Column("b", "<=", 1)>>,
     <<Column("b", ">=", 1), Column("b", "<", 3)>>, <<Column("b", "<>", 1), Column("a", "<=", 2)>>}
By(col, desc) == [col |-> col, desc |-> desc]
SelectOrders == {<<>>, <<By("a", FALSE)>>, <<By("b", TRUE)>>, <<By("b", FALSE), By("a", TRUE)>>}
IndexOn(cols, building) == [columns |-> cols, is_building |-> building]
IndexSets ==
    {<<>>, <<IndexOn(<<"b", "a">>, FALSE), IndexOn(<<"a">>, FALSE)>>,
     <<IndexOn(<<"a">>, TRUE), IndexOn(<<"a", "b">>, FALSE)>>}
Windows == {<<Unlimited, 0>>, <<2, 1>>, <<1, 3>>, <<0, 1>>}
PlainSelects ==
    {[table |-> t, where |-> w, order |-> o, indexes |-> ixs, limit |-> l[1], offset |-> l[2],
      star |-> s, batched |-> vectorised, group |-> "none", having |-> "none", sum |-> FALSE] :
        t \in SelectTables, w \in Wheres, o \in SelectOrders, ixs \in IndexSets, l \in Windows,
        s \in BOOLEAN, vectorised \in BOOLEAN}
GroupedSelects ==
    {[table |-> t, where |-> w, order |-> o, indexes |-> <<IndexOn(<<"a">>, FALSE)>>,
      limit |-> l[1], offset |-> l[2], star |-> FALSE, batched |-> vectorised, group |-> g,
      having |-> h, sum |-> s] :
        t \in SelectTables, w \in {<<>>, <<Column("a", "=", 1)>>, <<Column("b", ">", 3)>>},
        o \in {<<>>, <<By("a", TRUE)>>}, l \in {<<Unlimited, 0>>, <<1, 1>>},
        vectorised \in BOOLEAN, g \in {"key", "whole"}, h \in {"none", "count", "sum"},
        s \in BOOLEAN}
SomeSelects ==
    {q \in PlainSelects : q.star => q.batched /\ q.table # <<>>}
      \cup {q \in GroupedSelects : q.having = "sum" => q.sum}

----------------------------------------------------------------------------
\* Values: expressions over an INT a, a REAL r and a BOOLEAN b, each nullable.
IntOf(n) == <<"int", n>>
RealOf(n) == <<"real", n>>
Yes == TruthOf(TRUE)
No == TruthOf(FALSE)
ColA == <<"col", 1>>
ColR == <<"col", 2>>
ColB == <<"col", 3>>
Lit(v) == <<"lit", v>>
Numbers ==
    {ColA, ColR, Lit(IntOf(2)), <<"+", ColA, Lit(IntOf(1))>>, <<"-", Lit(IntOf(0)), ColA>>,
     <<"*", ColA, ColR>>, <<"/", Lit(IntOf(-3)), ColA>>, <<"neg", ColA>>, <<"/", ColA, Lit(IntOf(-1))>>}
Predicates ==
    {<<o, l, r>> : o \in {"=", "<", ">="}, l \in {ColA, ColR}, r \in Numbers}
      \cup {<<"<>", ColB, Lit(Yes)>>, ColB, Lit(NullValue), <<"not", ColB>>,
            <<"is_null", ColA, FALSE>>, <<"is_null", ColB, TRUE>>, <<"=", Lit(NullValue), ColA>>,
            <<"in", ColA, <<IntOf(1), IntOf(-3)>>, FALSE, FALSE>>, <<"in", ColA, <<IntOf(2)>>, TRUE, TRUE>>,
            <<"in", ColR, <<IntOf(1), Yes>>, TRUE, FALSE>>}
Halves ==
    {ColB, <<"not", ColB>>, Lit(NullValue), <<"in", ColA, <<IntOf(2)>>, TRUE, TRUE>>,
     <<"<", ColA, Lit(IntOf(1))>>}
SomeExprs ==
    {ColA} \cup Predicates
      \cup {<<o, l, r>> : o \in {"and", "or"}, l \in Halves, r \in Predicates}
      \cup {<<o, r, <<"not", l>> >> : o \in {"and", "or"}, l \in Halves, r \in Predicates}
FourRows == << <<IntOf(1), RealOf(2), Yes>>, <<NullValue, RealOf(1), No>>,
               <<IntOf(-3), NullValue, NullValue>>, <<IntOf(2), RealOf(0), NullValue>> >>
SomeBatches ==
    {[rows |-> FourRows, selection |-> s] : s \in {<<>>, <<2, 4>>, <<1, 2>>}}
      \cup {[rows |-> << <<IntOf(0), RealOf(1), Yes>>, <<IntOf(1), RealOf(1), NullValue>> >>,
             selection |-> <<>>]}
=============================================================================
