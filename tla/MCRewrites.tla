------------------------------ MODULE MCRewrites -----------------------------
(* Queries and tables for module Rewrites. *)
EXTENDS Rewrites

\* Outer table o with a nullable x, inner table i with a nullable k and a NOT
\* NULL n, and a third table j.  row_count is a statistic and may be wrong.
Catalog == [o |-> [columns |-> {"id", "x"}, not_null |-> {"id"}, row_count |-> 3],
            i |-> [columns |-> {"id", "k", "n"}, not_null |-> {"id", "n"}, row_count |-> 0],
            j |-> [columns |-> {"id", "y"}, not_null |-> {"id", "y"}, row_count |-> 1]]

Outer(xs) == [r \in DOMAIN xs |-> [id |-> r, x |-> xs[r]]]
Inner(ks, ns) == [r \in DOMAIN ks |-> [id |-> r, k |-> ks[r], n |-> ns[r]]]
Third == [r \in 1 .. 2 |-> [id |-> r, y |-> r]]
InnerTables ==
    {<<>>, Inner(<<0>>, <<1>>)} \cup {Inner(ks, <<1, 2>>) : ks \in [1 .. 2 -> 0 .. 2]}
Contents == {[o |-> ot, i |-> it, j |-> Third] : ot \in {Outer(<<1, 2>>), Outer(<<2, 0>>)},
                                                 it \in InnerTables}

ColOf(qualifier, name) == <<"col", qualifier, name>>
Const(v) == <<"lit", v>>
TableAs(t, a) == [table |-> t, as |-> a]
Equal(a, b) == <<"cmp", "=", a, b>>
Less(a, b) == <<"cmp", "<", a, b>>
Subquery(w, item) == [from |-> <<TableAs("i", "i")>>, where |-> w, item |-> item, plain |-> TRUE]

\* Correlated and not, with bare and qualified names, with no WHERE, with an
\* ORDER BY, and over two tables.
Correlating == Subquery(Equal(ColOf("i", "k"), ColOf("o", "x")), ColOf("i", "n"))
Fixed == Subquery(Less(Const(1), ColOf("", "n")), ColOf("", "n"))
Subqueries ==
    {Correlating, Fixed,
     Subquery(Equal(ColOf("i", "n"), ColOf("", "x")), ColOf("", "k")),
     Subquery(<<"or", Equal(ColOf("", "k"), Const(1)), Less(ColOf("i", "n"), ColOf("o", "x"))>>,
              ColOf("i", "k")),
     Subquery(<<"none">>, ColOf("i", "k")),
     [Fixed EXCEPT !.plain = FALSE],
     [Fixed EXCEPT !.from = <<TableAs("i", "i"), TableAs("j", "jj")>>]}
Bs == [from |-> <<TableAs("j", "b")>>, where |-> Equal(ColOf("b", "y"), ColOf("o", "x")),
       item |-> ColOf("b", "y"), plain |-> TRUE]

First == Equal(ColOf("o", "id"), Const(1))
\* Left out: NULL NOT IN a subquery over a NOT NULL column, for which the anti join
\* and SQL disagree (README, hazards).
Among(sub, negated) == <<"in", ColOf("", "x"), sub, negated>>
Conditions ==
    UNION {{<<"exists", s>>, <<"not", <<"exists", s>> >>, Among(s, FALSE),
            <<"scalar", ColOf("", "x"), s>>, <<"or", First, <<"exists", s>> >>,
            <<"not", Among(s, FALSE)>>} : s \in Subqueries}
      \cup {Among(s, TRUE) : s \in {t \in Subqueries : t.item[3] = "k"}}
      \cup {<<"in", ColOf("o", "id"), s, TRUE>> : s \in Subqueries}

Join(kind, t, on) == [kind |-> kind, ref |-> TableAs(t, t), on |-> on]
Selecting(js, w) == [from |-> TableAs("o", "o"), joins |-> js, where |-> w]
Filtered ==
    {Selecting(<<>>, w) : w \in {<<c>> : c \in Conditions} \cup {<<First, c>> : c \in Conditions}}
      \cup {Selecting(<<>>, <<<<"exists", s>>, <<"exists", Bs>> >>) : s \in Subqueries}
      \cup {Selecting(<<Join("left", "j", <<Equal(ColOf("j", "y"), ColOf("o", "x"))>>)>>,
                      <<<<"exists", Correlating>> >>)}

\* Chains whose second ON clause reaches back, stays local, is constant or
\* cannot be analysed (two tables have an id).
Chained ==
    {Selecting(<<Join(kind, "i", <<Equal(ColOf("i", "k"), ColOf("o", "x"))>>),
                 Join("inner", "j", <<p>>)>>, w) :
        kind \in {"inner", "left"}, w \in {<<>>, <<Less(Const(1), ColOf("", "y"))>>},
        p \in {Equal(ColOf("j", "y"), ColOf("i", "n")), Equal(ColOf("", "y"), ColOf("", "n")),
               <<"and", Equal(ColOf("j", "y"), ColOf("i", "n")), Equal(ColOf("o", "x"), Const(1))>>,
               Equal(Const(1), Const(1)), Less(ColOf("", "id"), ColOf("j", "y")),
               Equal(ColOf("o", "id"), Const(1))}}

\* Bare names that the subquery's table shares with one outside, in the WHERE of the
\* subquery; a bare column left of IN that is another table's than the first, or
\* of two; and names nobody has.
AmongBare(col, sub, negated) == <<"in", ColOf("", col), sub, negated>>
Sharing ==
    {Subquery(Equal(ColOf("", "id"), Const(1)), ColOf("i", "n")),
     Subquery(<<"and", Equal(ColOf("", "id"), Const(2)), Equal(ColOf("i", "k"), ColOf("o", "x"))>>,
              ColOf("", "n"))}
Bare ==
    {Selecting(<<>>, w) :
        w \in UNION {{<<<<"exists", s>> >>, <<<<"not", <<"exists", s>> >> >>, <<Among(s, FALSE)>>,
                      <<First, Among(s, TRUE)>>, <<<<"or", First, <<"exists", s>> >> >>} :
                     s \in Sharing}}
      \cup {Selecting(<<Join(kind, "j", <<Equal(ColOf("j", "y"), ColOf("o", "x"))>>)>>,
                      <<AmongBare(col, Fixed, FALSE)>>) :
               kind \in {"inner", "left"}, col \in {"y", "id"}}
      \cup {Selecting(<<>>, <<<<"exists", Subquery(Equal(ColOf("i", "k"), ColOf("", "z")),
                                                   ColOf("i", "n"))>> >>),
            Selecting(<<>>, <<AmongBare("z", Fixed, FALSE)>>)}

Questions == Filtered \cup Chained \cup Bare
=============================================================================
