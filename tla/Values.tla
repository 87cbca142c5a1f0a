-------------------------------- MODULE Values -------------------------------
(***************************************************************************)
(* Expressions over one row and over a batch: eval of engine/executor.rs   *)
(* and eval_batch, its columnar twin, which keeps NULL in a mask beside    *)
(* typed slots.                                                            *)
(*                                                                         *)
(* A value is <<type, n>>; an integer has the width given by IntMax, a     *)
(* Boolean is 0 or 1, and a REAL stands for its whole part.  Error is what *)
(* a failed evaluation returns.  Both evaluators do the same f64           *)
(* arithmetic, so its rounding is left out (a quotient is its whole part). *)
(* An expression is a tuple headed by its operator.                        *)
(***************************************************************************)
EXTENDS Integers, Sequences, SequencesExt, FiniteSets

CONSTANTS
    Exprs,      \* the expressions evaluated
    Batches,    \* batches: their rows and their selection, <<>> for none
    IntMax      \* i64::MAX

ASSUME IntMaxAssumption == IntMax \in Nat

VARIABLES
    expr, batch,    \* what is evaluated, and on which rows
    filtering,      \* "eval", "select", "done" or "failed"
    mask,           \* eval_batch's column
    chosen          \* build_selection's rows

exprVars == <<expr, batch, filtering, mask, chosen>>

NullValue == <<"null", 0>>
Error == <<"error", 0>>
TruthOf(p) == <<"bool", IF p THEN 1 ELSE 0>>
IsNull(v) == v = NullValue
Arithmetic == {"+", "-", "*", "/"}
Comparison == {"=", "<>", "<", "<=", ">", ">="}
Logic == {"and", "or"}

\* Columns of the table, by position, with their types.
ColumnTypes == <<"int", "real", "bool">>

----------------------------------------------------------------------------
\* checked_add and the like, checked_div truncating towards zero.
Width(n) == n >= -IntMax - 1 /\ n <= IntMax
Quotient(a, b) ==
    LET Abs(n) == IF n < 0 THEN -n ELSE n
        q == Abs(a) \div Abs(b)
    IN IF (a < 0) = (b < 0) THEN q ELSE -q
Compute(op, a, b) ==
    CASE op = "+" -> a + b [] op = "-" -> a - b [] op = "*" -> a * b
      [] op = "/" -> Quotient(a, b)
ComputeInt(op, a, b) ==
    IF op = "/" /\ b = 0 THEN Error
    ELSE IF Width(Compute(op, a, b)) THEN <<"int", Compute(op, a, b)>> ELSE Error
ComputeReal(op, a, b) ==
    IF op = "/" /\ b = 0 THEN Error ELSE <<"real", Compute(op, a, b)>>
IsNumber(v) == v[1] \in {"int", "real"}

\* arithmetic
EvalArithmetic(op, l, r) ==
    CASE IsNull(l) \/ IsNull(r) -> NullValue
      [] l[1] = "int" /\ r[1] = "int" -> ComputeInt(op, l[2], r[2])
      [] IsNumber(l) /\ IsNumber(r) /\ {l[1], r[1]} # {"int"} -> ComputeReal(op, l[2], r[2])
      [] OTHER -> Error

\* compare_op and compare
EvalCompare(op, l, r) ==
    CASE IsNull(l) \/ IsNull(r) -> NullValue
      [] ~IsNull(l) /\ ~IsNull(r) /\ (l[1] = r[1] \/ (IsNumber(l) /\ IsNumber(r))) ->
            TruthOf(CASE op = "=" -> l[2] = r[2] [] op = "<>" -> l[2] # r[2]
                      [] op = "<" -> l[2] < r[2] [] op = "<=" -> l[2] <= r[2]
                      [] op = ">" -> l[2] > r[2] [] op = ">=" -> l[2] >= r[2])
      [] OTHER -> Error

\* logic: a definite FALSE decides AND, a definite TRUE decides OR.
EvalLogic(op, l, r) ==
    LET decides == TruthOf(op = "or")
    IN CASE {l[1], r[1]} \ {"null", "bool"} # {} -> Error
         [] {l[1], r[1]} \subseteq {"null", "bool"} /\ decides \in {l, r} -> decides
         [] {l[1], r[1]} \subseteq {"null", "bool"} /\ decides \notin {l, r} ->
               IF NullValue \in {l, r} THEN NullValue ELSE TruthOf(op = "and")

\* eval_in_list and negate_bool: the first element that matches, or cannot be
\* compared, ends the search.
EvalIn(v, list, has_null, negated) ==
    LET ends == {n \in DOMAIN list : EvalCompare("=", v, list[n]) \in {TruthOf(TRUE), Error}}
    IN CASE IsNull(v) -> NullValue
         [] ~IsNull(v) /\ ends = {} -> IF has_null THEN NullValue ELSE TruthOf(negated)
         [] ~IsNull(v) /\ ends # {} ->
               IF EvalCompare("=", v, list[Min(ends)]) = Error THEN Error ELSE TruthOf(~negated)

\* eval_unary
EvalUnary(op, v) ==
    CASE IsNull(v) -> NullValue
      [] op = "neg" /\ v[1] = "int" -> IF Width(-v[2]) THEN <<"int", -v[2]>> ELSE Error
      [] op = "neg" /\ v[1] = "real" -> <<"real", -v[2]>>
      [] op = "not" /\ v[1] = "bool" -> <<"bool", 1 - v[2]>>
      [] OTHER -> Error

\* eval: an error of an operand is the error of the expression.
RECURSIVE Eval(_, _)
Eval(e, row) ==
    LET First == Eval(e[2], row)
        Second == Eval(e[3], row)
    IN CASE e[1] = "lit" -> e[2]
         [] e[1] = "col" -> row[e[2]]
         [] e[1] \in {"neg", "not"} -> IF First = Error THEN Error ELSE EvalUnary(e[1], First)
         [] e[1] = "is_null" -> IF First = Error THEN Error ELSE TruthOf(IsNull(First) # e[3])
         [] e[1] = "in" -> IF First = Error THEN Error ELSE EvalIn(First, e[3], e[4], e[5])
         [] e[1] \in Arithmetic \cup Comparison \cup Logic ->
               CASE Error \in {First, Second} -> Error
                 [] Error \notin {First, Second} /\ e[1] \in Arithmetic ->
                       EvalArithmetic(e[1], First, Second)
                 [] Error \notin {First, Second} /\ e[1] \in Comparison ->
                       EvalCompare(e[1], First, Second)
                 [] Error \notin {First, Second} /\ e[1] \in Logic ->
                       EvalLogic(e[1], First, Second)

\* passes_filter: FALSE and NULL both reject the row.
PassesFilter(e, row) == Eval(e, row) = TruthOf(TRUE)

----------------------------------------------------------------------------
\* A column: typed slots and a validity mask.  A NULL's slot holds a zero that
\* is never meant to be read.
ColumnOf(type, slots, valid) == [type |-> type, slots |-> slots, valid |-> valid]
FailedColumn == ColumnOf("error", <<>>, <<>>)
NRows(b) == IF b.selection = <<>> THEN Len(b.rows) ELSE Len(b.selection)
Physical(b, n) == IF b.selection = <<>> THEN n ELSE b.selection[n]

\* value_at and push_value
ValueAt(c, n) == IF c.valid[n] THEN <<c.type, c.slots[n]>> ELSE NullValue
PushValues(type, values) ==
    IF Error \in ToSet(values) THEN FailedColumn
    ELSE ColumnOf(type, [n \in DOMAIN values |-> values[n][2]],
                  [n \in DOMAIN values |-> ~IsNull(values[n])])

\* broadcast_*: a literal fills a column; NULL is a Boolean column of NULLs.
Broadcast(v, n) ==
    ColumnOf(IF IsNull(v) THEN "bool" ELSE v[1], [i \in 1 .. n |-> v[2]],
             [i \in 1 .. n |-> ~IsNull(v)])

\* materialise_column and gather_column
MaterialiseColumn(b, c) ==
    PushValues(ColumnTypes[c], [n \in 1 .. NRows(b) |-> b.rows[Physical(b, n)][c]])

\* arithmetic_columnar: the type of the columns decides, not that of a value.
ArithmeticColumnar(op, l, r) ==
    LET type == IF l.type = "int" /\ r.type = "int" THEN "int" ELSE "real"
        At(n) == IF ~l.valid[n] \/ ~r.valid[n] THEN NullValue
                 ELSE IF type = "int" THEN ComputeInt(op, l.slots[n], r.slots[n])
                 ELSE ComputeReal(op, l.slots[n], r.slots[n])
    IN IF {l.type, r.type} \subseteq {"int", "real"}
       THEN PushValues(type, [n \in DOMAIN l.slots |-> At(n)]) ELSE FailedColumn

CompareColumnar(op, l, r) ==
    PushValues("bool", [n \in DOMAIN l.slots |-> EvalCompare(op, ValueAt(l, n), ValueAt(r, n))])

\* logic_columnar: on the slots and the masks.
LogicColumnar_ReadsSlot(op, l, r) ==
    LET d == IF op = "or" THEN 1 ELSE 0
        Decided(n) == (l.slots[n] = d /\ (l.valid[n] \/ r.valid[n])) \/ (r.valid[n] /\ r.slots[n] = d)
        Valid(n) == Decided(n) \/ (l.valid[n] /\ r.valid[n])
    IN IF l.type # "bool" \/ r.type # "bool" THEN FailedColumn
       ELSE ColumnOf("bool", [n \in DOMAIN l.slots |-> IF ~Valid(n) THEN 0
                                                        ELSE IF Decided(n) THEN d ELSE 1 - d],
                     [n \in DOMAIN l.slots |-> Valid(n)])
LogicColumnar(op, l, r) ==
    LET d == IF op = "or" THEN 1 ELSE 0
        Decided(n) == (l.valid[n] /\ l.slots[n] = d) \/ (r.valid[n] /\ r.slots[n] = d)
        Valid(n) == Decided(n) \/ (l.valid[n] /\ r.valid[n])
    IN IF l.type # "bool" \/ r.type # "bool" THEN FailedColumn
       ELSE ColumnOf("bool", [n \in DOMAIN l.slots |-> IF ~Valid(n) THEN 0
                                                        ELSE IF Decided(n) THEN d ELSE 1 - d],
                     [n \in DOMAIN l.slots |-> Valid(n)])

\* unary_columnar: NOT flips the slots of NULLs too and keeps the mask.
UnaryColumnar(op, c) ==
    LET Negated(n) == IF c.valid[n] THEN EvalUnary("neg", <<c.type, c.slots[n]>>) ELSE NullValue
    IN CASE op = "neg" /\ c.type \in {"int", "real"} ->
              PushValues(c.type, [n \in DOMAIN c.slots |-> Negated(n)])
         [] op = "not" /\ c.type = "bool" ->
              ColumnOf("bool", [n \in DOMAIN c.slots |-> 1 - c.slots[n]], c.valid)
         [] OTHER -> FailedColumn

IsNullColumnar(c, negated) ==
    PushValues("bool", [n \in DOMAIN c.slots |-> TruthOf(~c.valid[n] # negated)])
InListColumnar(c, list, has_null, negated) ==
    PushValues("bool", [n \in DOMAIN c.slots |-> EvalIn(ValueAt(c, n), list, has_null, negated)])

RECURSIVE EvalBatch(_, _)
EvalBatch(e, b) ==
    LET First == EvalBatch(e[2], b)
        Second == EvalBatch(e[3], b)
    IN CASE e[1] = "lit" -> Broadcast(e[2], NRows(b))
         [] e[1] = "col" -> MaterialiseColumn(b, e[2])
         [] e[1] \in {"neg", "not"} ->
               IF First = FailedColumn THEN FailedColumn ELSE UnaryColumnar(e[1], First)
         [] e[1] = "is_null" ->
               IF First = FailedColumn THEN FailedColumn ELSE IsNullColumnar(First, e[3])
         [] e[1] = "in" -> IF First = FailedColumn THEN FailedColumn
                           ELSE InListColumnar(First, e[3], e[4], e[5])
         [] e[1] \in Arithmetic \cup Comparison \cup Logic ->
               CASE FailedColumn \in {First, Second} -> FailedColumn
                 [] FailedColumn \notin {First, Second} /\ e[1] \in Arithmetic ->
                       ArithmeticColumnar(e[1], First, Second)
                 [] FailedColumn \notin {First, Second} /\ e[1] \in Comparison ->
                       CompareColumnar(e[1], First, Second)
                 [] FailedColumn \notin {First, Second} /\ e[1] \in Logic ->
                       LogicColumnar(e[1], First, Second)

\* build_selection: the physical rows whose slot is valid and TRUE.
BuildSelection(b, c) ==
    LET kept == SelectSeq([n \in 1 .. NRows(b) |-> n], LAMBDA n : c.valid[n] /\ c.slots[n] = 1)
    IN [n \in DOMAIN kept |-> Physical(b, kept[n])]

----------------------------------------------------------------------------
ExprStart ==
    filtering = "eval" /\ mask = FailedColumn /\ chosen = <<>>

ExprInit == expr \in Exprs /\ batch \in Batches /\ ExprStart

\* BatchFilter::next_batch on one batch: the mask, then the selection.
EvalMask ==
    /\ filtering = "eval"
    /\ mask' = EvalBatch(expr, batch)
    /\ filtering' = IF mask' = FailedColumn THEN "failed" ELSE "select"
    /\ UNCHANGED <<expr, batch, chosen>>

SelectMask ==
    /\ filtering = "select"
    /\ \/ mask.type = "bool" /\ filtering' = "done" /\ chosen' = BuildSelection(batch, mask)
       \/ mask.type # "bool" /\ filtering' = "failed" /\ chosen' = <<>>
    /\ UNCHANGED <<expr, batch, mask>>

ExprNext == EvalMask \/ SelectMask
ExprSpec == ExprInit /\ [][ExprNext]_exprVars
----------------------------------------------------------------------------
\* A WHERE clause filters a batch exactly as it filters the rows of the batch
\* one by one: same rows kept through NULLs, through slots that must not be
\* read, and through a selection vector; and an error (an overflow, a division
\* by zero) arises in one exactly when it arises in the other.  (A clause that
\* is not Boolean is refused by the batches and rejects each row otherwise.)
ColumnarAgrees ==
    LET logical == [n \in 1 .. NRows(batch) |-> Physical(batch, n)]
        fails == \E n \in DOMAIN logical : Eval(expr, batch.rows[logical[n]]) = Error
        kept == SelectSeq(logical, LAMBDA p : PassesFilter(expr, batch.rows[p]))
    IN /\ filtering = "failed" => fails \/ mask.type \in {"int", "real"}
       /\ filtering = "done" => ~fails /\ chosen = kept
=============================================================================
