------------------------------- MODULE Rewrites ------------------------------
(***************************************************************************)
(* What the planner and the executor do to a query before its operators    *)
(* run: rewrite_subquery_joins turns EXISTS and IN conjuncts into semi and *)
(* anti joins, reorder_inner_chain permutes a chain of INNER joins, and    *)
(* prepare_subqueries runs the subqueries that are left once, or marks     *)
(* them correlated for Filter to run for every row.                        *)
(*                                                                         *)
(* A value is a number, 0 for NULL.  A row is a function from columns to   *)
(* values, a joined row one from qualifiers to rows.  A table in FROM is   *)
(* [table, as].  A predicate is a tuple headed by its kind; its operands   *)
(* are <<"lit", v>> and <<"col", qualifier, name>>, qualifier "" if bare.  *)
(* A subquery is a record: from, where (<<"none">> if absent), item (the   *)
(* column it selects) and plain (no grouping, ordering or limit).  The     *)
(* operators that run the result are those of Joins and Select, here as    *)
(* the sets of rows they return.                                           *)
(***************************************************************************)
EXTENDS Integers, Sequences, SequencesExt, FiniteSets, TLC

CONSTANTS
    WrittenQueries,  \* the queries: from, joins and where, a sequence of conjuncts
    Databases,       \* what the tables may hold: [table -> sequence of rows]
    Schemas          \* per table: columns, not_null, row_count

VARIABLES
    written, tables,   \* the query and the contents of the tables, chosen once
    query_phase,     \* "rewrite", "reorder", "prepare", "run", "done", "failed"
    pending,         \* conjuncts not looked at yet
    from, joins,     \* FromClause
    where,           \* the conjuncts left in the filter
    batched,         \* select: vectorised
    kept             \* the answer

queryVars == <<written, tables, query_phase, pending, from, joins, where, batched, kept>>

Columns(t) == Schemas[t].columns
TableRows(t) == ToSet(tables[t])
NullRow(t) == [c \in Columns(t) |-> 0]

----------------------------------------------------------------------------
\* Scope::resolve in a set of tables.
Owners(col, scope) ==
    {r \in scope : (col[2] = "" \/ col[2] = r.as) /\ col[3] \in Columns(r.table)}
Resolves(operand, scope) ==
    operand[1] = "lit" \/ Cardinality(Owners(operand, scope)) = 1
ValueOf(operand, scope, row) ==
    IF operand[1] = "lit" THEN operand[2]
    ELSE LET r == CHOOSE r \in Owners(operand, scope) : TRUE IN row[r.as][operand[3]]

\* The truth values, as TRUE, FALSE and unknown, and the failure of eval.
Compare(op, a, b) ==
    IF 0 \in {a, b} THEN "null"
    ELSE IF (CASE op = "=" -> a = b [] op = "<" -> a < b [] op = ">" -> a > b)
         THEN "true" ELSE "false"
Not(v) == CASE v = "true" -> "false" [] v = "false" -> "true" [] OTHER -> v
And(vs) ==
    CASE "error" \in vs -> "error"
      [] "error" \notin vs /\ "false" \in vs -> "false"
      [] {"error", "false"} \cap vs = {} -> IF "null" \in vs THEN "null" ELSE "true"
Or(vs) == Not(And({Not(v) : v \in vs}))
InList(v, values, has_null, negated) ==
    LET found == IF v = 0 THEN "null" ELSE IF v \in values THEN "true"
                 ELSE IF has_null THEN "null" ELSE "false"
    IN IF negated THEN Not(found) ELSE found

\* eval on a row.  A subquery that reaches it is an error.
RECURSIVE Truth(_, _, _)
Truth(p, scope, row) ==
    CASE p[1] = "none" -> "true"
      [] p[1] = "const" -> p[2]
      [] p[1] = "cmp" ->
            IF Resolves(p[3], scope) /\ Resolves(p[4], scope)
            THEN Compare(p[2], ValueOf(p[3], scope, row), ValueOf(p[4], scope, row)) ELSE "error"
      [] p[1] = "not" -> Not(Truth(p[2], scope, row))
      [] p[1] = "and" -> And({Truth(p[2], scope, row), Truth(p[3], scope, row)})
      [] p[1] = "or" -> Or({Truth(p[2], scope, row), Truth(p[3], scope, row)})
      [] p[1] = "in_list" ->
            IF Resolves(p[2], scope)
            THEN InList(ValueOf(p[2], scope, row), p[3], p[4], p[5]) ELSE "error"
      [] OTHER -> "error"
TruthAll(ps, scope, row) == And({Truth(ps[n], scope, row) : n \in DOMAIN ps})

----------------------------------------------------------------------------
\* rewrite_subquery_joins: one conjunct, with the joins made so far.

InFrom == {from} \cup {joins[n].ref : n \in DOMAIN joins}

\* A plain SELECT with a WHERE over one table, whose qualifier is free.
SimpleSubquery(sub) ==
    /\ sub.plain /\ sub.where # <<"none">> /\ Len(sub.from) = 1
    /\ \A r \in InFrom : r.as # sub.from[1].as

\* try_extract_exists_join
ExistsJoin(c) ==
    LET negated == c[1] = "not"
        sub == IF negated THEN c[2][2] ELSE c[2]
    IN IF (c[1] = "exists" \/ (negated /\ c[2][1] = "exists")) /\ SimpleSubquery(sub)
       THEN <<[kind |-> IF negated THEN "anti" ELSE "semi", ref |-> sub.from[1],
               on |-> <<sub.where>>]>>
       ELSE <<>>

\* try_extract_in_join: the columns of the equality are qualified, the outer
\* one with the first table of FROM, and NOT IN needs a NOT NULL column.
InJoin_AnyColumn(c) ==
    LET sub == c[3]
        inner == sub.from[1]
        Qualified(col, r) == IF col[2] = "" THEN <<"col", r.as, col[3]>> ELSE col
        equality == <<"cmp", "=", Qualified(c[2], from), Qualified(sub.item, inner)>>
    IN IF c[1] = "in" /\ SimpleSubquery(sub) /\ c[2][1] = "col"
       THEN <<[kind |-> IF c[4] THEN "anti" ELSE "semi", ref |-> inner,
               on |-> <<sub.where, equality>>]>>
       ELSE <<>>
InJoin(c) ==
    LET sub == c[3]
        inner == sub.from[1]
        Qualified(col, r) == IF col[2] = "" THEN <<"col", r.as, col[3]>> ELSE col
        equality == <<"cmp", "=", Qualified(c[2], from), Qualified(sub.item, inner)>>
    IN IF /\ c[1] = "in" /\ SimpleSubquery(sub) /\ c[2][1] = "col"
          /\ c[4] => sub.item[3] \in Schemas[inner.table].not_null
       THEN <<[kind |-> IF c[4] THEN "anti" ELSE "semi", ref |-> inner,
               on |-> <<sub.where, equality>>]>>
       ELSE <<>>

\* One turn of the loop over the conjuncts.
TakeConjunct ==
    /\ query_phase = "rewrite" /\ pending # <<>>
    /\ LET c == Head(pending)
           join == ExistsJoin(c) \o InJoin(c)
       IN /\ joins' = joins \o join
          /\ where' = IF join = <<>> THEN Append(where, c) ELSE where
    /\ pending' = Tail(pending)
    /\ UNCHANGED <<written, tables, query_phase, from, batched, kept>>

Rewritten ==
    /\ query_phase = "rewrite" /\ pending = <<>>
    /\ query_phase' = "reorder"
    /\ UNCHANGED <<written, tables, pending, from, joins, where, batched, kept>>

----------------------------------------------------------------------------
\* reorder_inner_chain.  A chain is its tables in the order written.
Chain == <<from>> \o [n \in DOMAIN joins |-> joins[n].ref]

RECURSIVE Operands(_)
Operands(p) ==
    CASE p[1] = "cmp" -> {p[3], p[4]}
      [] p[1] = "not" -> Operands(p[2])
      [] p[1] \in {"and", "or"} -> Operands(p[2]) \cup Operands(p[3])
      [] OTHER -> {}
ColumnsIn(ps) == {o \in UNION {Operands(ps[n]) : n \in DOMAIN ps} : o[1] = "col"}

\* collect_predicate_refs: the tables an operand may mean, by the qualifier
\* alone if it has one.
Mentioned(col) ==
    {n \in DOMAIN Chain : IF col[2] = "" THEN col[3] \in Columns(Chain[n].table)
                          ELSE col[2] = Chain[n].as}
Refs(k) == UNION {Mentioned(col) : col \in ColumnsIn(joins[k].on)}
REORDER_CAP == 8

\* The early returns that leave the order alone.
CanReorder ==
    /\ joins # <<>> /\ Len(Chain) <= REORDER_CAP
    /\ \A n \in DOMAIN joins : joins[n].kind = "inner" /\ joins[n].on # <<>>
    /\ \A m, n \in DOMAIN Chain : m # n => Chain[m].as # Chain[n].as
    /\ \A n \in DOMAIN joins : \A col \in ColumnsIn(joins[n].on) : Cardinality(Mentioned(col)) = 1

Orderings == {o \in [DOMAIN Chain -> DOMAIN Chain] : ToSet(o) = DOMAIN Chain}
Identity == [n \in DOMAIN Chain |-> n]
JoinedBy(o, step) == {o[n] : n \in 1 .. step}

\* score_ordering: the sum of the estimates of the intermediate results.
Estimate(o) ==
    LET Size(n) == Max({1, Schemas[Chain[n].table].row_count})
        Connected(step) ==
            \E k \in DOMAIN joins : /\ Refs(k) \subseteq JoinedBy(o, step)
                                    /\ o[step] \in Refs(k) /\ Refs(k) # {o[step]}
        sizes[step \in DOMAIN Chain] ==
            IF step = 1 THEN Size(o[1])
            ELSE IF Connected(step) THEN Max({sizes[step - 1], Size(o[step])})
            ELSE sizes[step - 1] * Size(o[step])
        cost[step \in DOMAIN Chain] == IF step = 1 THEN 0 ELSE cost[step - 1] + sizes[step]
    IN cost[Len(Chain)]
Cheapest == {o \in Orderings : \A other \in Orderings : Estimate(o) <= Estimate(other)}

\* assign_predicates: to the first step that has all the tables mentioned.
Assigned(o, step) ==
    SelectSeq([k \in DOMAIN joins |-> k],
              LAMBDA k : /\ Refs(k) \subseteq JoinedBy(o, step)
                         /\ step = 2 \/ ~(Refs(k) \subseteq JoinedBy(o, step - 1)))
Reordered(o) ==
    [n \in DOMAIN joins |->
        [kind |-> "inner", ref |-> Chain[o[n + 1]],
         on |-> LET ks == Assigned(o, n + 1)
                IN FlattenSeq([i \in DOMAIN ks |-> joins[ks[i]].on])]]

\* permute visits the order written first and a tie does not displace it.
ReorderChain ==
    /\ query_phase = "reorder"
    /\ \/ /\ CanReorder /\ Identity \notin Cheapest
          /\ \E o \in Cheapest : from' = Chain[o[1]] /\ joins' = Reordered(o)
       \/ /\ ~CanReorder \/ Identity \in Cheapest
          /\ UNCHANGED <<from, joins>>
    /\ query_phase' = "prepare"
    /\ UNCHANGED <<written, tables, pending, where, batched, kept>>

----------------------------------------------------------------------------
\* Subqueries that were not rewritten.

\* subquery_is_correlated: a column of its WHERE that its own tables lack.
Correlated(sub) ==
    \E o \in Operands(sub.where) : ~Resolves(o, ToSet(sub.from))

\* expr_has_correlated_subquery
RECURSIVE HasCorrelated(_)
HasCorrelated(p) ==
    CASE p[1] = "exists" -> Correlated(p[2])
      [] p[1] \in {"in", "scalar"} -> Correlated(p[3])
      [] p[1] = "not" -> HasCorrelated(p[2])
      [] p[1] \in {"and", "or"} -> HasCorrelated(p[2]) \/ HasCorrelated(p[3])
      [] OTHER -> FALSE

\* substitute_outer_refs: what the subquery's scope lacks becomes a literal.
RECURSIVE Substitute(_, _, _, _)
Substitute(p, inner, scope, row) ==
    LET Put(o) == IF Resolves(o, inner) \/ ~Resolves(o, scope) THEN o
                  ELSE <<"lit", ValueOf(o, scope, row)>>
    IN CASE p[1] = "cmp" -> <<"cmp", p[2], Put(p[3]), Put(p[4])>>
         [] p[1] = "not" -> <<"not", Substitute(p[2], inner, scope, row)>>
         [] p[1] \in {"and", "or"} ->
               <<p[1], Substitute(p[2], inner, scope, row), Substitute(p[3], inner, scope, row)>>
         [] OTHER -> p

\* run_subquery_for_rows: the values of the selected column, or a failure.
SubqueryRows(sub) ==
    LET scope == ToSet(sub.from)
        names == {r.as : r \in scope}
        RefOf(a) == CHOOSE r \in scope : r.as = a
        all == {f \in [names -> UNION {TableRows(r.table) : r \in scope}] :
                    \A a \in names : f[a] \in TableRows(RefOf(a).table)}
    IN [ok |-> \A f \in all : Truth(sub.where, scope, f) # "error",
        rows |-> {f \in all : Truth(sub.where, scope, f) = "true"},
        values |-> {ValueOf(sub.item, scope, f) : f \in {g \in all : Truth(sub.where, scope, g) = "true"}}]

\* execute_exists_subquery, execute_in_subquery and execute_scalar_subquery,
\* the predicate that takes the subquery's place.
Literal(p, sub) ==
    LET res == SubqueryRows(sub)
    IN CASE ~res.ok -> <<"const", "error">>
         [] res.ok /\ p[1] = "exists" -> <<"const", IF res.rows = {} THEN "false" ELSE "true">>
         [] res.ok /\ p[1] = "in" ->
               <<"in_list", p[2], res.values \ {0}, 0 \in res.values, p[4]>>
         [] res.ok /\ p[1] = "scalar" ->
               IF Cardinality(res.rows) > 1 THEN <<"const", "error">>
               ELSE <<"cmp", "=", p[2],
                      <<"lit", IF res.rows = {} THEN 0 ELSE CHOOSE v \in res.values : TRUE>> >>
SubqueryOf(p) == IF p[1] = "exists" THEN p[2] ELSE p[3]

\* prepare_subqueries
RECURSIVE Prepared(_)
Prepared(p) ==
    CASE p[1] \in {"exists", "in", "scalar"} ->
            IF Correlated(SubqueryOf(p)) THEN <<"correlated", p>> ELSE Literal(p, SubqueryOf(p))
      [] p[1] = "not" -> <<"not", Prepared(p[2])>>
      [] p[1] \in {"and", "or"} -> <<p[1], Prepared(p[2]), Prepared(p[3])>>
      [] OTHER -> p

\* resolve_correlated
RECURSIVE Resolved(_, _, _)
Resolved(p, scope, row) ==
    CASE p[1] = "correlated" ->
            LET sub == SubqueryOf(p[2])
            IN Literal(p[2], [sub EXCEPT !.where = Substitute(@, ToSet(sub.from), scope, row)])
      [] p[1] = "not" -> <<"not", Resolved(p[2], scope, row)>>
      [] p[1] \in {"and", "or"} -> <<p[1], Resolved(p[2], scope, row), Resolved(p[3], scope, row)>>
      [] OTHER -> p

\* select: the vectorised pipeline has no step that resolves per row.  A
\* subquery that fails when it is prepared fails the statement.
PrepareQuery ==
    /\ query_phase = "prepare"
    /\ batched' = /\ \A n \in DOMAIN joins : joins[n].kind \notin {"semi", "anti"}
                  /\ \A n \in DOMAIN where : ~HasCorrelated(where[n])
    /\ where' = [n \in DOMAIN where |-> Prepared(where[n])]
    /\ query_phase' = "run"
    /\ UNCHANGED <<written, tables, pending, from, joins, kept>>

----------------------------------------------------------------------------
\* build_from: the joins, left-deep, each with the scope of all tables so far.
\* A semi or anti join returns the left columns only.
JoinStep(acc, j) ==
    LET scope == acc.scope \cup {j.ref}
        With(row, r) == row @@ (j.ref.as :> r)
        Verdict(row, r) == TruthAll(j.on, scope, With(row, r))
        Matches(row) == {r \in TableRows(j.ref.table) : Verdict(row, r) = "true"}
        pairs == UNION {{With(row, r) : r \in Matches(row)} : row \in acc.rows}
        Padded == {With(row, NullRow(j.ref.table)) : row \in {w \in acc.rows : Matches(w) = {}}}
    IN [scope |-> IF j.kind \in {"semi", "anti"} THEN acc.scope ELSE scope,
        ok |-> acc.ok /\ \A row \in acc.rows, r \in TableRows(j.ref.table) : Verdict(row, r) # "error",
        rows |-> CASE j.kind \in {"inner", "cross"} -> pairs
                   [] j.kind = "left" -> pairs \cup Padded
                   [] j.kind = "semi" -> {row \in acc.rows : Matches(row) # {}}
                   [] j.kind = "anti" -> {row \in acc.rows : Matches(row) = {}}]
JoinRows(base, js) ==
    FoldLeft(JoinStep, [scope |-> {base}, ok |-> TRUE,
                        rows |-> {base.as :> r : r \in TableRows(base.table)}], js)

\* Filter::next, or BatchFilter when vectorised, over all rows.
RunQuery ==
    /\ query_phase = "run"
    /\ LET in == JoinRows(from, joins)
           Verdict(row) ==
               TruthAll(IF batched THEN where
                        ELSE [n \in DOMAIN where |-> Resolved(where[n], in.scope, row)],
                        in.scope, row)
       IN \/ /\ in.ok /\ \A row \in in.rows : Verdict(row) # "error"
             /\ query_phase' = "done"
             /\ kept' = {row \in in.rows : Verdict(row) = "true"}
          \/ /\ ~in.ok \/ \E row \in in.rows : Verdict(row) = "error"
             /\ query_phase' = "failed"
             /\ kept' = kept
    /\ UNCHANGED <<written, tables, pending, from, joins, where, batched>>

QueryStart ==
    /\ query_phase = "rewrite" /\ pending = written.where
    /\ from = written.from /\ joins = written.joins
    /\ where = <<>> /\ batched = FALSE /\ kept = {}

QueryInit == written \in WrittenQueries /\ tables \in Databases /\ QueryStart

QueryNext == TakeConjunct \/ Rewritten \/ ReorderChain \/ PrepareQuery \/ RunQuery
QuerySpec == QueryInit /\ [][QueryNext]_queryVars
----------------------------------------------------------------------------
\* The meaning of a WHERE clause in SQL: a subquery is run for each row of the
\* joins as written, a name meaning a column of the subquery if it has one and
\* of the enclosing query otherwise.  (NULL IN an empty set is NULL, which is
\* how eval_in_list defines it, and not FALSE.)
RECURSIVE Meaning(_, _, _)
Meaning(p, scope, row) ==
    LET sub == SubqueryOf(p)
        res == SubqueryRows([sub EXCEPT !.where = Substitute(@, ToSet(sub.from), scope, row)])
    IN CASE p[1] = "exists" ->
               IF ~res.ok THEN "error" ELSE IF res.rows # {} THEN "true" ELSE "false"
         [] p[1] = "in" ->
               IF ~res.ok \/ ~Resolves(p[2], scope) THEN "error"
               ELSE InList(ValueOf(p[2], scope, row), res.values \ {0}, 0 \in res.values, p[4])
         [] p[1] = "scalar" ->
               IF ~res.ok \/ ~Resolves(p[2], scope) \/ Cardinality(res.rows) > 1 THEN "error"
               ELSE IF res.rows = {} THEN "null"
               ELSE Compare("=", ValueOf(p[2], scope, row), CHOOSE v \in res.values : TRUE)
         [] p[1] = "not" -> Not(Meaning(p[2], scope, row))
         [] p[1] = "and" -> And({Meaning(p[2], scope, row), Meaning(p[3], scope, row)})
         [] p[1] = "or" -> Or({Meaning(p[2], scope, row), Meaning(p[3], scope, row)})
         [] OTHER -> Truth(p, scope, row)

WrittenRows == JoinRows(written.from, written.joins)
Verdict(row) ==
    And({Meaning(written.where[n], WrittenRows.scope, row) : n \in DOMAIN written.where})
WrittenFails == ~WrittenRows.ok \/ \E row \in WrittenRows.rows : Verdict(row) = "error"
SqlAnswer == {row \in WrittenRows.rows : Verdict(row) = "true"}

\* The doc's claim: semi-joins made of subqueries, a reordered chain, subqueries
\* run once and subqueries run per row together return exactly the rows SQL gives
\* the query as it was written, and they fail only if a name cannot be resolved
\* in the query as written or a scalar subquery of some row has several rows.
RewriteIsInvisible ==
    /\ query_phase = "done" => kept = SqlAnswer
    /\ query_phase = "failed" => WrittenFails

\* What the rewriting changes the meaning of.  A bare name of a subquery's WHERE is
\* a column of the subquery's table; in the ON clause of the join it may be one of
\* the tables outside as well, and none is preferred.
FromSubquery == {n \in DOMAIN joins : joins[n].kind \in {"semi", "anti"}}
SharesName ==
    \E n \in FromSubquery : \E col \in ColumnsIn(<<joins[n].on[1]>>) :
        /\ col[2] = "" /\ col[3] \in Columns(joins[n].ref.table)
        /\ Owners(col, WrittenRows.scope) # {}
\* A bare column left of IN is taken for one of the first table in FROM, although
\* only another table has it, or several have.
TakenForFirst(c) ==
    /\ c[1] = "in" /\ c[2][2] = ""
    /\ \E n \in FromSubquery : joins[n].ref = c[3].from[1] /\ joins[n].on[1] = c[3].where
    /\ Owners(c[2], WrittenRows.scope) # {written.from}

\* The same for what the code does.  A query that is done returns the rows SQL gives
\* it, unless a bare column left of IN was ambiguous as written, which SQL refuses
\* and the rewriting takes for the first table's.  A query fails only for the
\* reasons above, or because a conjunct that was rewritten shares a name with the
\* tables outside or has a bare column left of IN that the first table lacks.
RewriteKeepsAnswer ==
    /\ query_phase = "done" =>
          \/ kept = SqlAnswer
          \/ \E n \in DOMAIN written.where :
                TakenForFirst(written.where[n]) /\ ~Resolves(written.where[n][2], WrittenRows.scope)
    /\ query_phase = "failed" =>
          \/ WrittenFails
          \/ SharesName
          \/ \E n \in DOMAIN written.where : TakenForFirst(written.where[n])
=============================================================================
