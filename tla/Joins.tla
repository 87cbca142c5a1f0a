-------------------------------- MODULE Joins --------------------------------
(***************************************************************************)
(* The join operators of engine/executor.rs: NestedLoopJoin,               *)
(* IndexNestedLoopJoin, HashJoin inside GraceHashJoin, and the vectorised  *)
(* BatchNestedLoopJoin and BatchHashJoin, with the choice between them.    *)
(*                                                                         *)
(* All of them are one loop: pull a left row, pair it with candidates from *)
(* the right side, emit, and deal with the row when its candidates are     *)
(* spent.  They differ in where the candidates come from, in what arrives  *)
(* at once (a row, or a batch of BATCH_SIZE), and in the state they keep   *)
(* when a full output batch is returned in the middle of a left row.       *)
(*                                                                         *)
(* A row is its position in its table and the value of its join column; 0  *)
(* is NULL.  An index on the right join column is [is_building, entered]:   *)
(* while CREATE INDEX fills it, it has entries for some of the rows only.   *)
(* An output row is <<i, j>>, <<i, 0>> when the right side is    *)
(* padded with NULLs, and <<i>> when only the left columns are returned.   *)
(***************************************************************************)
EXTENDS Integers, Sequences, SequencesExt, FiniteSets

CONSTANTS
    JoinInputs,   \* the joins asked for
    BatchRows,    \* BATCH_SIZE
    Partitions    \* HASH_PARTITIONS

ASSUME BatchRowsAssumption == BatchRows \in Nat \ {0}
ASSUME PartitionsAssumption == Partitions \in Nat \ {0}

VARIABLES
    join,             \* tables, kind, ON predicate, indexes, and the pipeline asked for
    join_phase,       \* "build", "run", "done"
    partition_of,     \* partition_for: where the seeded hash sends a key
    partition,        \* GraceHashJoin.partition
    left_in,          \* the left rows not pulled yet
    current_left,     \* current_left: the rows pulled last
    left_pos,         \* left_pos
    match_pos,        \* right_pos, inner_pos or match_pos
    row_started,      \* BatchHashJoin.row_started
    matched_current,  \* matched_current
    out,              \* the output batch under construction
    answer            \* the rows returned

joinVars == <<join, join_phase, partition_of, partition, left_in, current_left,
              left_pos, match_pos, row_started, matched_current, out, answer>>

NullKey == 0
JoinKeys == 0 .. 2
JoinKinds == {"inner", "left", "cross", "semi", "anti"}
Lefts == 1 .. Len(join.left)
Rights == 1 .. Len(join.right)

\* The ON predicate of left row i and right row j: only TRUE keeps the pair.
\* A comparison with NULL is NULL.
On(i, j) ==
    LET l == join.left[i]
        r == join.right[j].key
        known == l # NullKey /\ r # NullKey
    IN CASE join.on = "none" -> TRUE
         [] join.on = "eq" -> known /\ l = r
         [] join.on = "eq_and" -> known /\ l = r /\ i <= j
         [] join.on = "less" -> known /\ l < r

----------------------------------------------------------------------------
\* Which operator runs the join.

\* equi_join_columns: an equality of a left and a right column, at top level or
\* under AND, of one type: the encodings of 1 and 1.0 differ.
EquiJoin_AnyTypes == join.on \in {"eq", "eq_and"}
EquiJoin == join.on \in {"eq", "eq_and"} /\ join.same_type

\* find_index_join: the same, onto the leading column of an index; the first one,
\* whether CREATE INDEX is still filling it or not.
IndexJoin == EquiJoin /\ join.indexes # <<>>
ChosenIndex == Head(join.indexes)

SemiOrAnti == join.kind \in {"semi", "anti"}

\* joins_vectorisable; EXPLAIN ANALYZE and correlated subqueries ask for rows.
Vectorised == join.batched /\ ~SemiOrAnti /\ ~IndexJoin

\* build_from and select_vectorised.
Algorithm ==
    CASE Vectorised /\ EquiJoin -> "batch_hash"
      [] Vectorised /\ ~EquiJoin -> "batch_nested_loop"
      [] ~Vectorised /\ IndexJoin /\ ~SemiOrAnti -> "index"
      [] ~Vectorised /\ EquiJoin /\ ~IndexJoin /\ ~SemiOrAnti -> "grace"
      [] OTHER -> "nested_loop"

Batched == Algorithm \in {"batch_hash", "batch_nested_loop"}
RowsAtOnce == IF Batched THEN BatchRows ELSE 1

----------------------------------------------------------------------------
\* Where the candidates for a left row come from.

\* What a scan of the right table yields: the rows visible to the snapshot.
ScannedRight == SelectSeq([j \in Rights |-> j], LAMBDA j : join.right[j].live)

\* encode_index_value: the type is part of the key.
EncodeLeft(i) == <<"int", join.left[i]>>
EncodeRight(j) == <<IF join.same_type THEN "int" ELSE "real", join.right[j].key>>

\* IndexNestedLoopJoin::lookup.  Equal keys lie in the index in rowid order,
\* an entry may lead to a row the snapshot does not see, and a row that is not
\* entered yet is not found.
Lookup(i) ==
    IF join.left[i] = NullKey THEN <<>>
    ELSE SelectSeq([j \in Rights |-> j],
                   LAMBDA j : /\ j \in ChosenIndex.entered
                              /\ EncodeRight(j) = EncodeLeft(i) /\ join.right[j].live)

\* The bucket of a left row in a table hashed on the rows given.
Bucket(i, rows) ==
    IF join.left[i] = NullKey THEN <<>>
    ELSE SelectSeq(rows, LAMBDA j : /\ join.right[j].key # NullKey
                                    /\ EncodeRight(j) = EncodeLeft(i))

\* partition_for: NULL goes to partition 0.
PartitionFor(key) == IF key = NullKey THEN 0 ELSE partition_of[key]
SpilledRight(p) == SelectSeq(ScannedRight, LAMBDA j : PartitionFor(join.right[j].key) = p)
SpilledLeft(p) ==
    SelectSeq([i \in Lefts |-> i], LAMBDA i : PartitionFor(join.left[i]) = p)

Candidates(i) ==
    CASE Algorithm \in {"nested_loop", "batch_nested_loop"} -> ScannedRight
      [] Algorithm = "index" -> Lookup(i)
      [] Algorithm = "batch_hash" -> Bucket(i, ScannedRight)
      [] Algorithm = "grace" -> Bucket(i, SpilledRight(partition - 1))

----------------------------------------------------------------------------
JoinStart ==
    /\ join_phase = "build"
    /\ partition_of \in [JoinKeys -> 0 .. Partitions - 1]
    /\ Algorithm # "grace" => \A k \in JoinKeys : partition_of[k] = 0
    /\ partition = 0
    /\ left_in = <<>> /\ current_left = <<>>
    /\ left_pos = 1 /\ match_pos = 0
    /\ row_started = FALSE /\ matched_current = FALSE
    /\ out = <<>> /\ answer = <<>>

JoinInit == join \in JoinInputs /\ JoinStart

\* The first pull: the right side is buffered, hashed or partitioned, once.
BuildInner ==
    /\ join_phase = "build"
    /\ join_phase' = "run"
    /\ left_in' = IF Algorithm = "grace" THEN <<>> ELSE [i \in Lefts |-> i]
    /\ UNCHANGED <<join, partition_of, partition, current_left, left_pos, match_pos,
                   row_started, matched_current, out, answer>>

\* GraceHashJoin::next: the pair at hand is joined; the next one is opened.
NextPartition ==
    /\ join_phase = "run" /\ Algorithm = "grace"
    /\ current_left = <<>> /\ left_in = <<>>
    /\ partition < Partitions
    /\ partition' = partition + 1
    /\ left_in' = SpilledLeft(partition)
    /\ UNCHANGED <<join, join_phase, partition_of, current_left, left_pos, match_pos,
                   row_started, matched_current, out, answer>>

\* The next left row, or the next left batch.
PullLeft ==
    /\ join_phase = "run" /\ current_left = <<>> /\ left_in # <<>>
    /\ LET n == IF Len(left_in) < RowsAtOnce THEN Len(left_in) ELSE RowsAtOnce
       IN /\ current_left' = SubSeq(left_in, 1, n)
          /\ left_in' = SubSeq(left_in, n + 1, Len(left_in))
    /\ left_pos' = 1
    /\ IF Algorithm = "batch_hash"
       THEN row_started' = FALSE /\ UNCHANGED <<match_pos, matched_current>>
       ELSE row_started' = TRUE /\ match_pos' = 0 /\ matched_current' = FALSE
    /\ UNCHANGED <<join, join_phase, partition_of, partition, out, answer>>

\* BatchHashJoin crosses into a left row.
StartRow ==
    /\ current_left # <<>> /\ ~row_started
    /\ row_started' = TRUE
    /\ match_pos' = 0
    /\ matched_current' = FALSE
    /\ UNCHANGED <<join, join_phase, partition_of, partition, left_in, current_left,
                   left_pos, out, answer>>

\* push_row and the return of a full batch; a row operator returns every row.
Emit(row) ==
    LET filled == Append(out, row)
    IN IF Len(filled) >= RowsAtOnce
       THEN answer' = answer \o filled /\ out' = <<>>
       ELSE out' = filled /\ UNCHANGED answer

\* One candidate against the current left row.
PairRow ==
    /\ current_left # <<>> /\ row_started
    /\ LET i == current_left[left_pos]
           candidates == Candidates(i)
       IN /\ match_pos < Len(candidates)
          /\ LET j == candidates[match_pos + 1]
             IN \/ /\ ~On(i, j)
                   /\ match_pos' = match_pos + 1
                   /\ UNCHANGED <<current_left, matched_current, out, answer>>
                \/ /\ On(i, j) /\ ~SemiOrAnti
                   /\ match_pos' = match_pos + 1
                   /\ matched_current' = TRUE
                   /\ Emit(<<i, j>>)
                   /\ UNCHANGED current_left
                \/ /\ On(i, j) /\ join.kind = "semi"
                   /\ match_pos' = match_pos + 1
                   /\ matched_current' = TRUE
                   /\ Emit(<<i>>)
                   /\ current_left' = <<>>
                \/ /\ On(i, j) /\ join.kind = "anti"
                   /\ match_pos' = Len(candidates)
                   /\ matched_current' = TRUE
                   /\ UNCHANGED <<current_left, out, answer>>
    /\ UNCHANGED <<join, join_phase, partition_of, partition, left_in, left_pos,
                   row_started>>

\* The candidates of the current left row are spent.
LeftSpent ==
    /\ current_left # <<>> /\ row_started
    /\ LET i == current_left[left_pos]
           last == left_pos = Len(current_left)
       IN /\ match_pos = Len(Candidates(i))
          /\ CASE join.kind = "left" /\ ~matched_current -> Emit(<<i, 0>>)
               [] join.kind = "anti" /\ ~matched_current -> Emit(<<i>>)
               [] OTHER -> UNCHANGED <<out, answer>>
          /\ left_pos' = left_pos + 1
          /\ current_left' = IF last THEN <<>> ELSE current_left
    /\ IF Algorithm = "batch_hash"
       THEN row_started' = FALSE /\ UNCHANGED <<match_pos, matched_current>>
       ELSE match_pos' = 0 /\ matched_current' = FALSE /\ UNCHANGED row_started
    /\ UNCHANGED <<join, join_phase, partition_of, partition, left_in>>

\* The left side is exhausted: what is left of the output batch is returned.
FinishJoin ==
    /\ join_phase = "run" /\ current_left = <<>> /\ left_in = <<>>
    /\ Algorithm = "grace" => partition = Partitions
    /\ join_phase' = "done"
    /\ answer' = answer \o out
    /\ out' = <<>>
    /\ UNCHANGED <<join, partition_of, partition, left_in, current_left, left_pos,
                   match_pos, row_started, matched_current>>

JoinNext ==
    BuildInner \/ NextPartition \/ PullLeft \/ StartRow \/ PairRow \/ LeftSpent \/ FinishJoin

JoinSpec == JoinInit /\ [][JoinNext]_joinVars
----------------------------------------------------------------------------
\* What SQL says the join is, one left row after the other.
Matches(i) == SelectSeq(ScannedRight, LAMBDA j : On(i, j))
Joined(i) ==
    CASE join.kind \in {"inner", "cross"} -> [n \in DOMAIN Matches(i) |-> <<i, Matches(i)[n]>>]
      [] join.kind = "left" /\ Matches(i) # <<>> -> [n \in DOMAIN Matches(i) |-> <<i, Matches(i)[n]>>]
      [] join.kind = "left" /\ Matches(i) = <<>> -> << <<i, 0>> >>
      [] join.kind = "semi" -> IF Matches(i) = <<>> THEN <<>> ELSE << <<i>> >>
      [] join.kind = "anti" -> IF Matches(i) = <<>> THEN << <<i>> >> ELSE <<>>
SqlJoin == FlattenSeq([i \in Lefts |-> Joined(i)])

\* Whatever operator the engine picks, the join that is done returns what SQL asks
\* for: every row once, no batch boundary losing, repeating or padding a row.  In
\* the order of the left table, except that a grace hash join goes partition by
\* partition.  (This is the doc's claim: it takes for granted that an index being
\* built is never probed.)
JoinIsSql ==
    join_phase = "done" =>
        IF Algorithm = "grace"
        THEN Len(answer) = Len(SqlJoin) /\ ToSet(answer) = ToSet(SqlJoin)
        ELSE answer = SqlJoin

\* The index that is probed has an entry for every row the snapshot sees.
IndexCovers == Algorithm = "index" => ToSet(ScannedRight) \subseteq ChosenIndex.entered

\* The same for what the code does: an index that CREATE INDEX is still filling is
\* probed like any other, and then the answer is SQL's if the rows are entered by
\* then.  If not, an inner join still returns rows of SQL's answer only, each
\* once, and a left join every left row, padded at most once.
JoinAnswer ==
    /\ IndexCovers => JoinIsSql
    /\ join_phase = "done" =>
          /\ IsInjective(answer)
          /\ \A n \in DOMAIN answer :
                answer[n] \in ToSet(SqlJoin) \/ (join.kind = "left" /\ answer[n][2] = 0)
          /\ join.kind = "left" => \A i \in Lefts : \E n \in DOMAIN answer : answer[n][1] = i
=============================================================================
