-------------------------------- MODULE Select -------------------------------
(***************************************************************************)
(* A SELECT over one table, by the two pipelines of engine/executor.rs:    *)
(* the row pipeline TableScan/IndexScan, Filter, Sort or grouped_select,   *)
(* Project, Limit; and the vectorised BatchScan, BatchFilter, BatchSort or *)
(* BatchHashAggregate, BatchProject, BatchLimit, BatchToRow.               *)
(*                                                                         *)
(* A row is its rowid.  A batch has the rows of its columns and, after a   *)
(* filter or a slice, a selection vector of positions in them.  Grouped    *)
(* queries group by column "a" or take the whole table as one group, and   *)
(* compute COUNT, SUM, MIN, MAX and AVG of column "b".                     *)
(***************************************************************************)
EXTENDS Planner, TLC

CONSTANTS
    Selects,    \* the queries
    BatchSize,  \* BATCH_SIZE
    SpillAt,    \* SORT_SPILL_THRESHOLD
    MaxInt      \* the largest 64-bit integer

ASSUME BatchSizeAssumption == BatchSize \in Nat \ {0}
ASSUME SpillAtAssumption == SpillAt \in Nat \ {0}

VARIABLES
    sel,        \* the query, chosen once
    access,     \* AccessPath and presorted, as planned
    sel_phase,  \* "plan", "scan", "emit", "done", "failed"
    cursor,     \* entries read
    buffer,     \* the rows a pipeline breaker holds
    runs,       \* BatchSort: sorted runs, first row first
    groups,     \* the buckets, in insertion order
    skip,       \* offset still to skip
    quota,      \* remaining
    result      \* the rows handed to the client

selVars == <<sel, access, sel_phase, cursor, buffer, runs, groups, skip, quota, result>>

Unlimited == 99
Grouped == sel.group # "none"
Row(id) == sel.table[id]

\* select: HAVING, and ORDER BY on groups, keep the row pipeline; so do EXPLAIN
\* ANALYZE, correlated subqueries and expression items (not batched).
RunsBatched == sel.batched /\ sel.having = "none" /\ (Grouped => sel.order = <<>>)

\* The pipeline needs a Sort; the vectorised one ignores presorted.
Sorts == ~Grouped /\ sel.order # <<>> /\ (RunsBatched \/ ~access.presorted)

Cursor == Entries(sel.table, sel.indexes, access)
Visible(id) == Row(id).live

----------------------------------------------------------------------------
\* sort_rows and cmp_rows: NULL first, or last when descending.
OrderedBefore(order, x, y) ==
    \E n \in DOMAIN order :
        /\ \A i \in 1 .. n - 1 : x[order[i].col] = y[order[i].col]
        /\ IF order[n].desc THEN x[order[n].col] > y[order[n].col]
           ELSE x[order[n].col] < y[order[n].col]

\* sort_by is stable.
StableSort(order, s, Val(_)) ==
    LET First(i, j) == \/ OrderedBefore(order, Val(s[i]), Val(s[j]))
                       \/ ~OrderedBefore(order, Val(s[j]), Val(s[i])) /\ i < j
        perm == SortSeq([n \in DOMAIN s |-> n], First)
    IN [n \in DOMAIN s |-> s[perm[n]]]
SortRows(s) == StableSort(sel.order, s, Row)

\* spill_sorted_run, whenever the buffer reaches the threshold.
RECURSIVE Spill(_, _, _)
Spill(held, spilled, rows) ==
    IF rows = <<>> THEN [buffer |-> held, runs |-> spilled]
    ELSE LET more == Append(held, Head(rows))
         IN IF Len(more) >= SpillAt THEN Spill(<<>>, Append(spilled, SortRows(more)), Tail(rows))
            ELSE Spill(more, spilled, Tail(rows))

HeapTop(rs) ==
    CHOOSE n \in DOMAIN rs : /\ rs[n] # <<>>
        /\ \A m \in DOMAIN rs : (rs[m] # <<>> /\ m # n) =>
              /\ ~OrderedBefore(sel.order, Row(Head(rs[m])), Row(Head(rs[n])))
              /\ ~OrderedBefore(sel.order, Row(Head(rs[n])), Row(Head(rs[m]))) => n < m

\* next_sorted_row, at most count times.
RECURSIVE Merge(_, _, _)
Merge(rs, rows, count) ==
    IF count = 0 \/ \A n \in DOMAIN rs : rs[n] = <<>> THEN [runs |-> rs, rows |-> rows]
    ELSE LET n == HeapTop(rs)
         IN Merge([rs EXCEPT ![n] = Tail(@)], Append(rows, Head(rs[n])), count - 1)

----------------------------------------------------------------------------
\* Batches: NoSelection is the materialised form.
NoSelection == <<0>>
Materialised(rows) == [columns |-> rows, selection |-> NoSelection, n_rows |-> Len(rows)]
PhysicalFor(b, n) == IF b.selection = NoSelection THEN n ELSE b.selection[n]
RowAt(b, n) == b.columns[PhysicalFor(b, n)]
RowsOf(b) == [n \in 1 .. b.n_rows |-> RowAt(b, n)]

\* BatchFilter and build_selection: the columns stay, positions are selected.
BatchFilter(b) ==
    LET kept == SelectSeq([n \in 1 .. b.n_rows |-> n],
                          LAMBDA n : Passes(sel.where, Row(RowAt(b, n))))
    IN [columns |-> b.columns, n_rows |-> Len(kept),
        selection |-> [n \in DOMAIN kept |-> PhysicalFor(b, kept[n])]]

\* BatchProject and materialise_column; SELECT * passes the batch through.
BatchProject(b) == IF sel.star THEN b ELSE Materialised(RowsOf(b))

\* slice_logical_rows: rows from .. to of the batch's logical rows.
SliceLogicalRows(b, from, to) ==
    [columns |-> b.columns, n_rows |-> to - from + 1,
     selection |-> [n \in 1 .. to - from + 1 |-> PhysicalFor(b, from + n - 1)]]

----------------------------------------------------------------------------
\* AggregateState::update on the slots of one bucket.
FreshBucket(key) ==
    [key |-> key, rows |-> 0, count |-> 0, total |-> 0, least |-> Null, most |-> Null]
UpdateBucket(g, v) ==
    IF v = Null THEN [g EXCEPT !.rows = @ + 1]
    ELSE [g EXCEPT !.rows = @ + 1, !.count = @ + 1, !.total = @ + v,
                   !.least = IF @ = Null \/ v < @ THEN v ELSE @,
                   !.most = IF @ = Null \/ v > @ THEN v ELSE @]
GroupKey(id) == IF sel.group = "whole" THEN Null ELSE Row(id).a

\* The hash pass over one row.
Bucketed(gs, id) ==
    LET at == {n \in DOMAIN gs : gs[n].key = GroupKey(id)}
    IN IF at = {} THEN Append(gs, UpdateBucket(FreshBucket(GroupKey(id)), Row(id).b))
       ELSE [gs EXCEPT ![Min(at)] = UpdateBucket(@, Row(id).b)]
BucketedAll(gs, rows) == FoldLeft(Bucketed, gs, rows)

\* SUM is checked_add: the first total beyond the width fails the statement.
Overflows(gs, rows) ==
    sel.sum /\ \E k \in DOMAIN rows : \E g \in ToSet(BucketedAll(gs, SubSeq(rows, 1, k))) :
                  g.total > MaxInt

\* The whole table is one group even without rows.
Buckets_Empty(gs) == gs
Buckets(gs) == IF sel.group = "whole" /\ gs = <<>> THEN <<FreshBucket(Null)>> ELSE gs

\* finalize: SUM is NULL unless a value was seen, AVG unless one was counted.
Finalize(g) ==
    [key |-> g.key, rows |-> g.rows, count |-> g.count, min |-> g.least, max |-> g.most,
     sum |-> IF g.count = 0 THEN Null ELSE g.total,
     avg |-> IF g.count = 0 THEN <<>> ELSE <<g.total, g.count>>]

\* HAVING COUNT(*) > 1 and HAVING SUM(b) > 2: NULL discards the group too.
Having(g) ==
    CASE sel.having = "none" -> TRUE
      [] sel.having = "count" -> g.rows > 1
      [] sel.having = "sum" -> g.sum # Null /\ g.sum > 2

\* grouped_select after the hash pass: finalise, HAVING, ORDER BY the group key.
GroupRows(gs) ==
    LET final == [n \in DOMAIN Buckets(gs) |-> Finalize(Buckets(gs)[n])]
        kept == SelectSeq(final, Having)
    IN IF sel.group = "whole" THEN kept
       ELSE StableSort(sel.order, kept, LAMBDA g : [a |-> g.key])

----------------------------------------------------------------------------
SelectStart ==
    /\ access = [index |-> 0, lower |-> <<>>, upper |-> <<>>, presorted |-> FALSE]
    /\ sel_phase = "plan"
    /\ cursor = 0 /\ buffer = <<>> /\ runs = <<>> /\ groups = <<>>
    /\ skip = sel.offset /\ quota = sel.limit
    /\ result = <<>>

SelectInit == sel \in Selects /\ SelectStart

PlanSelect ==
    /\ sel_phase = "plan"
    /\ access' = LET chosen == ChooseAccess(sel.indexes, sel.where, sel.order)
                 IN [chosen EXCEPT !.presorted = @ /\ ~Grouped]
    /\ sel_phase' = "scan"
    /\ UNCHANGED <<sel, cursor, buffer, runs, groups, skip, quota, result>>

\* Limit and BatchLimit return None without pulling once the quota is spent.
Spent == skip = 0 /\ quota = 0

\* Limit::next on one row.
LimitRow(row) ==
    IF skip > 0 THEN skip' = skip - 1 /\ UNCHANGED <<quota, result>>
    ELSE quota' = quota - 1 /\ result' = Append(result, row) /\ UNCHANGED skip

\* BatchLimit::next_batch and apply_remaining on one batch, and BatchToRow.
LimitBatch(b) ==
    LET kept == IF skip = 0 THEN b ELSE SliceLogicalRows(b, skip + 1, b.n_rows)
    IN IF skip > 0 /\ b.n_rows <= skip
       THEN skip' = skip - b.n_rows /\ UNCHANGED <<quota, result>>
       ELSE /\ skip' = 0
            /\ IF kept.n_rows <= quota
               THEN quota' = quota - kept.n_rows /\ result' = result \o RowsOf(kept)
               ELSE /\ quota' = 0
                    /\ result' = result \o RowsOf(SliceLogicalRows(kept, 1, quota))

\* The row pipeline: one entry through scan, filter, and into the breaker or out.
ScanRow ==
    /\ sel_phase = "scan" /\ ~RunsBatched
    /\ ~Spent \/ Grouped
    /\ cursor < Len(Cursor)
    /\ cursor' = cursor + 1
    /\ LET id == Cursor[cursor + 1]
       IN IF ~Visible(id) \/ ~Passes(sel.where, Row(id))
          THEN UNCHANGED <<buffer, skip, quota, result>>
          ELSE IF Sorts \/ Grouped
               THEN buffer' = Append(buffer, id) /\ UNCHANGED <<skip, quota, result>>
               ELSE LimitRow(id) /\ UNCHANGED buffer
    /\ UNCHANGED <<sel, access, sel_phase, runs, groups>>

\* Sort has drained its input.
SortBuffer ==
    /\ sel_phase = "scan" /\ ~RunsBatched /\ Sorts /\ ~Spent
    /\ cursor = Len(Cursor)
    /\ buffer' = SortRows(buffer)
    /\ sel_phase' = "emit"
    /\ UNCHANGED <<sel, access, cursor, runs, groups, skip, quota, result>>

EmitRow ==
    /\ sel_phase = "emit" /\ ~RunsBatched /\ ~Spent
    /\ buffer # <<>>
    /\ LimitRow(Head(buffer))
    /\ buffer' = Tail(buffer)
    /\ UNCHANGED <<sel, access, sel_phase, cursor, runs, groups>>

\* grouped_select and apply_limit.
GroupBuffer ==
    /\ sel_phase = "scan" /\ ~RunsBatched /\ Grouped
    /\ cursor = Len(Cursor)
    /\ IF Overflows(<<>>, buffer) THEN sel_phase' = "failed" /\ UNCHANGED result
       ELSE /\ LET rows == GroupRows(BucketedAll(<<>>, buffer))
                   from == IF skip < Len(rows) THEN skip ELSE Len(rows)
                   trimmed == SubSeq(rows, from + 1, Len(rows))
               IN result' = SubSeq(trimmed, 1, IF quota < Len(trimmed) THEN quota ELSE Len(trimmed))
            /\ sel_phase' = "done"
    /\ UNCHANGED <<sel, access, cursor, buffer, runs, groups, skip, quota>>

\* BatchScan: entries are read until the batch is full of visible rows.
ScannedTo ==
    LET Full(n) == Len(SelectSeq(SubSeq(Cursor, cursor + 1, n), Visible)) = BatchSize
        full == {n \in cursor + 1 .. Len(Cursor) : Full(n)}
    IN IF full = {} THEN Len(Cursor) ELSE Min(full)

\* The vectorised pipeline: one batch through scan and filter, and on.
ScanBatch ==
    /\ sel_phase = "scan" /\ RunsBatched /\ ~Spent
    /\ cursor < Len(Cursor)
    /\ cursor' = ScannedTo
    /\ LET scanned == SelectSeq(SubSeq(Cursor, cursor + 1, ScannedTo), Visible)
           b == BatchFilter(Materialised(scanned))
       IN \/ /\ b.n_rows = 0
             /\ UNCHANGED <<sel_phase, buffer, runs, groups, skip, quota, result>>
          \/ /\ b.n_rows > 0 /\ Sorts
             /\ LET s == Spill(buffer, runs, RowsOf(b)) IN buffer' = s.buffer /\ runs' = s.runs
             /\ UNCHANGED <<sel_phase, groups, skip, quota, result>>
          \/ /\ b.n_rows > 0 /\ Grouped
             /\ IF Overflows(groups, RowsOf(b)) THEN sel_phase' = "failed" ELSE UNCHANGED sel_phase
             /\ groups' = BucketedAll(groups, RowsOf(b))
             /\ UNCHANGED <<buffer, runs, skip, quota, result>>
          \/ /\ b.n_rows > 0 /\ ~Sorts /\ ~Grouped
             /\ LimitBatch(BatchProject(b))
             /\ UNCHANGED <<sel_phase, buffer, runs, groups>>
    /\ UNCHANGED <<sel, access>>

\* drain_input of BatchSort and of BatchHashAggregate: the input has ended.
DrainInput ==
    /\ sel_phase = "scan" /\ RunsBatched /\ (Sorts \/ Grouped) /\ ~Spent
    /\ cursor = Len(Cursor)
    /\ runs' = CASE Grouped -> <<GroupRows(groups)>>
                 [] Sorts -> IF buffer = <<>> THEN runs ELSE Append(runs, SortRows(buffer))
    /\ buffer' = <<>>
    /\ sel_phase' = "emit"
    /\ UNCHANGED <<sel, access, cursor, groups, skip, quota, result>>

\* The next batch of sorted rows, or of groups.
EmitBatch ==
    /\ sel_phase = "emit" /\ RunsBatched /\ ~Spent
    /\ \E n \in DOMAIN runs : runs[n] # <<>>
    /\ LET taken == IF Sorts THEN Merge(runs, <<>>, BatchSize)
                    ELSE LET n == IF Len(runs[1]) < BatchSize THEN Len(runs[1]) ELSE BatchSize
                         IN [runs |-> <<SubSeq(runs[1], n + 1, Len(runs[1]))>>,
                             rows |-> SubSeq(runs[1], 1, n)]
       IN /\ runs' = taken.runs
          /\ LimitBatch(IF Sorts THEN BatchProject(Materialised(taken.rows))
                        ELSE Materialised(taken.rows))
    /\ UNCHANGED <<sel, access, sel_phase, cursor, buffer, groups>>

\* The stream returns None.
EndOfStream ==
    /\ \/ Spent /\ sel_phase \in {"scan", "emit"} /\ (RunsBatched \/ ~Grouped)
       \/ sel_phase = "scan" /\ ~Sorts /\ ~Grouped /\ cursor = Len(Cursor)
       \/ sel_phase = "emit" /\ buffer = <<>> /\ \A n \in DOMAIN runs : runs[n] = <<>>
    /\ sel_phase' = "done"
    /\ UNCHANGED <<sel, access, cursor, buffer, runs, groups, skip, quota, result>>

SelectNext ==
    \/ PlanSelect \/ ScanRow \/ SortBuffer \/ EmitRow \/ GroupBuffer
    \/ ScanBatch \/ DrainInput \/ EmitBatch \/ EndOfStream

SelectSpec == SelectInit /\ [][SelectNext]_selVars
----------------------------------------------------------------------------
\* What SQL asks for.
Window(rows) ==
    SelectSeq([n \in DOMAIN rows |-> n],
              LAMBDA n : n > sel.offset /\ (sel.limit = Unlimited \/ n <= sel.offset + sel.limit))
Matching == SelectSeq(Cursor, LAMBDA id : Visible(id) /\ Passes(sel.where, Row(id)))
AllMatching == {id \in DOMAIN sel.table : Visible(id) /\ Passes(sel.where, Row(id))}

\* A query returns the rows that pass its WHERE clause, each once, in the order
\* of ORDER BY (rows that compare equal stay in scan order), cut to OFFSET and
\* LIMIT: whichever index range the planner picked, whether or not it let the
\* index stand for the sort, in both pipelines, across batch boundaries,
\* selection vectors, and the runs of an external sort.
SelectAnswer ==
    sel_phase = "done" /\ ~Grouped =>
        LET sorted == SortRows(Matching)
        IN /\ ToSet(Matching) = AllMatching /\ Len(Matching) = Cardinality(AllMatching)
           /\ result = [n \in DOMAIN Window(sorted) |-> sorted[Window(sorted)[n]]]

\* What an aggregate query says of one group.
GroupIds(key) == {id \in AllMatching : GroupKey(id) = key}
Values(key) == {id \in GroupIds(key) : Row(id).b # Null}
Describes(g) ==
    LET bs == {Row(id).b : id \in Values(g.key)}
        total == MapThenSumSet(LAMBDA id : Row(id).b, Values(g.key))
    IN /\ g.rows = Cardinality(GroupIds(g.key)) /\ g.count = Cardinality(Values(g.key))
       /\ IF bs = {} THEN g.min = Null /\ g.max = Null /\ g.sum = Null /\ g.avg = <<>>
          ELSE /\ g.min = Min(bs) /\ g.max = Max(bs)
               /\ g.sum = total /\ g.avg = <<total, g.count>>
               /\ sel.sum => total <= MaxInt
       /\ sel.having = "count" => g.rows > 1
       /\ sel.having = "sum" => bs # {} /\ total > 2

\* A grouped query returns one row per group, NULL being a group of its own and
\* the whole table one even when it is empty, with the aggregates of exactly the
\* group's rows; HAVING and the window drop whole groups; a SUM that does not
\* fit 64 bits is an error, never a wrong number.
GroupAnswer ==
    sel_phase = "done" /\ Grouped =>
        /\ \A n \in DOMAIN result : Describes(result[n])
        /\ \A m, n \in DOMAIN result : m # n => result[m].key # result[n].key
        /\ sel.having = "none" /\ sel.offset = 0 /\ sel.limit = Unlimited =>
              {result[n].key : n \in DOMAIN result}
                = IF sel.group = "whole" THEN {Null} ELSE {Row(id).a : id \in AllMatching}
        /\ sel.order # <<>> /\ sel.group = "key" =>
              \A m, n \in DOMAIN result :
                  m < n => ~OrderedBefore(sel.order, [a |-> result[n].key], [a |-> result[m].key])
=============================================================================
