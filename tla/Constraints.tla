----------------------------- MODULE Constraints ----------------------------
(***************************************************************************)
(* INSERT, UPDATE and DELETE under UNIQUE, NOT NULL and FOREIGN KEY        *)
(* constraints (engine/executor.rs), the transactions around them          *)
(* (engine/database.rs), reclaim_dead_rows and VACUUM.                     *)
(*                                                                         *)
(* Three tables, each with a primary key: child.ref refers to parent.key   *)
(* and grand.ref to child.key.  A statement runs in one step; what two     *)
(* transactions may do to each other's rows between statements is in.      *)
(* Index entries know nothing of versions: an entry stays until its row is *)
(* reclaimed, and the UNIQUE and FOREIGN KEY checks look only at entries.  *)
(***************************************************************************)
EXTENDS Integers, FiniteSetsExt

CONSTANTS
    Clients,             \* connections
    KeyValues,           \* primary keys, positive numbers
    MaxRowId,            \* bound on row IDs, over all tables
    MaxTxId,             \* bound on transaction IDs
    ConstraintWorkloads  \* per workload: the declarations and the statements

Tables == {"parent", "child", "grand"}
Children == {"child", "grand"}
ParentOf == [t \in Children |-> IF t = "child" THEN "parent" ELSE "child"]
ChildrenOf(t) == {u \in Children : ParentOf[u] = t}
Null == 0
Same == -1           \* an UPDATE that does not assign the key

ASSUME ConstraintConstants ==
    /\ KeyValues \subseteq Nat \ {0} /\ MaxRowId \in Nat /\ MaxTxId \in Nat
    /\ ConstraintWorkloads \subseteq
          [on_delete : [Children -> {"restrict", "cascade", "set_null"}],
           not_null : SUBSET Children, indexed : SUBSET Children,
           writes : [Clients -> SUBSET (Tables \X {"insert", "update", "delete"})],
           keys : [Tables -> SUBSET KeyValues], txs : 0..MaxTxId, ids : 0..MaxRowId,
           does : SUBSET {"transactions", "rollback", "reclaim", "vacuum", "ddl"}]

VARIABLES
    constraint_load,    \* the workload, chosen once
    db,                 \* the catalog and the trees
    next_id,            \* SharedMeta: the next row ID
    next_txid, active, status,
    client              \* per connection: its transaction and its snapshot

constraintVars == <<constraint_load, db, next_id, next_txid, active, status, client>>

RowIds == 1..MaxRowId
TxIds == 1..MaxTxId
Version == [id : RowIds, key : KeyValues, ref : KeyValues \cup {Null},
            tx_min : TxIds, tx_max : 0..MaxTxId]
NoTransaction == [txn |-> "none", tx |-> 0, high |-> 0, others |-> {}]

ConstraintTypeOK ==
    /\ constraint_load \in ConstraintWorkloads
    /\ db \in [tables : SUBSET Tables, rows : [Tables -> SUBSET Version],
               pk : [Tables -> SUBSET (KeyValues \X RowIds)],
               fk : [Tables -> SUBSET ((KeyValues \cup {Null}) \X RowIds)],
               row_count : [Tables -> Nat]]
    /\ \A t \in Tables : \A v, w \in db.rows[t] : v.id = w.id => v = w
    /\ next_id \in 1..(MaxRowId + 1) /\ next_txid \in 1..(MaxTxId + 1)
    /\ active \subseteq TxIds /\ status \in [TxIds -> {"none", "committed", "rolled_back"}]
    /\ client \in [Clients -> [txn : {"none", "open", "aborted"}, tx : 0..MaxTxId,
                               high : 0..MaxTxId, others : SUBSET TxIds]]

ConstraintInit ==
    /\ constraint_load \in ConstraintWorkloads
    /\ db = [tables |-> IF "ddl" \in constraint_load.does THEN {} ELSE Tables,
             rows |-> [t \in Tables |-> {}], pk |-> [t \in Tables |-> {}],
             fk |-> [t \in Tables |-> {}], row_count |-> [t \in Tables |-> 0]]
    /\ next_id = 1 /\ next_txid = 1 /\ active = {}
    /\ status = [x \in TxIds |-> "none"]
    /\ client = [c \in Clients |-> NoTransaction]

-----------------------------------------------------------------------------
(* Visibility: Snapshot::visible, see module Mvcc *)

Committed(view, x) ==
    x = view.tx \/ (x < view.high /\ x \notin view.others /\ status[x] = "committed")
Visible(view, v) ==
    Committed(view, v.tx_min) /\ ~(v.tx_max # 0 /\ Committed(view, v.tx_max))
SeenRows(d, t, view) == {v \in d.rows[t] : Visible(view, v)}
FreshView == [txn |-> "none", tx |-> 0, high |-> next_txid, others |-> active]

-----------------------------------------------------------------------------
(* The checks.  A statement is a function of the database: it returns the new  *)
(* one, or fails and returns the one it was given.                             *)

Fails(d, n) == [ok |-> FALSE, db |-> d, next |-> n]
Yields(d, n) == [ok |-> TRUE, db |-> d, next |-> n]

\* index_has_value: some entry has this value.
IndexHasValue(entries, value) == \E e \in entries : e[1] = value

NotNull(t) == t \in constraint_load.not_null
Indexed(t) == t \in constraint_load.indexed

\* check_foreign_keys: the parent's index has the value; NULL is exempt.
CheckForeignKeys(d, t, ref) ==
    t \in Children /\ ref # Null => IndexHasValue(d.pk[ParentOf[t]], ref)

\* scan_child_for_fk_value: in the index on the column if there is one, else in every
\* stored version of the table.
ScanChildForFkValue(d, u, value) ==
    IF Indexed(u) THEN IndexHasValue(d.fk[u], value)
                  ELSE \E v \in d.rows[u] : v.ref = value

\* check_no_child_references, over children_referencing.
CheckNoChildReferences(d, t, value) ==
    \A u \in ChildrenOf(t) \cap d.tables : ~ScanChildForFkValue(d, u, value)

\* check_write_write_conflict: no transaction in flight has deleted the row.
NoConflict(v, view) == v.tx_max = 0 \/ v.tx_max = view.tx \/ status[v.tx_max] # "none"

\* Mutant: the new version of a row keeps the entries of the old one.
IndexInsertRow_SkipsUnchanged(d, t, v, old) ==
    IF v.key # old /\ IndexHasValue(d.pk[t], v.key) THEN Fails(d, v.id + 1)
    ELSE Yields([d EXCEPT !.pk[t] = IF v.key = old THEN @ ELSE @ \cup {<<v.key, v.id>>},
                          !.fk[t] = IF Indexed(t) THEN @ \cup {<<v.ref, v.id>>} ELSE @],
                v.id + 1)

\* Mutant: UPDATE skips the check altogether.
IndexInsertRow_TrustsUpdate(d, t, v, old) ==
    IF old = Null /\ IndexHasValue(d.pk[t], v.key) THEN Fails(d, v.id + 1)
    ELSE Yields([d EXCEPT !.pk[t] = @ \cup {<<v.key, v.id>>},
                          !.fk[t] = IF Indexed(t) THEN @ \cup {<<v.ref, v.id>>} ELSE @],
                v.id + 1)

\* index_insert_row_with_old: a key that changes must be in no entry (old is Null for
\* INSERT), then every index gets an entry.
IndexInsertRow(d, t, v, old) ==
    IF v.key # old /\ IndexHasValue(d.pk[t], v.key) THEN Fails(d, v.id + 1)
    ELSE Yields([d EXCEPT !.pk[t] = @ \cup {<<v.key, v.id>>},
                          !.fk[t] = IF Indexed(t) THEN @ \cup {<<v.ref, v.id>>} ELSE @],
                v.id + 1)

\* The row version is stored and indexed.
StoreRow(d, n, t, key, ref, view, old) ==
    LET v == [id |-> n, key |-> key, ref |-> ref, tx_min |-> view.tx, tx_max |-> 0]
    IN  IF (NotNull(t) /\ ref = Null) \/ ~CheckForeignKeys(d, t, ref) THEN Fails(d, n)
        ELSE IndexInsertRow([d EXCEPT !.rows[t] = @ \cup {v}], t, v, old)

\* A row is rewritten in place with our transaction as its tx_max.
Tombstone(d, t, v, view) ==
    [d EXCEPT !.rows[t] = (@ \ {v}) \cup {[v EXCEPT !.tx_max = view.tx]}]

-----------------------------------------------------------------------------
(* INSERT, UPDATE, DELETE *)

Insert(d, n, t, key, ref, view) ==
    LET put == StoreRow(d, n, t, key, ref, view, Null)
    IN  IF put.ok THEN [put EXCEPT !.db.row_count[t] = @ + 1] ELSE put

\* Mutant: UPDATE does not ask whether children refer to the old key.
UpdateRow_IgnoresChildren(d, n, t, v, key, ref, view) ==
    IF ~NoConflict(v, view) THEN Fails(d, n)
    ELSE StoreRow(Tombstone(d, t, v, view), n, t, key, ref, view, v.key)

\* update, for one row: a key that children refer to does not change.
UpdateRow(d, n, t, v, key, ref, view) ==
    IF ~NoConflict(v, view) THEN Fails(d, n)
    ELSE IF key # v.key /\ ~CheckNoChildReferences(d, t, v.key) THEN Fails(d, n)
    ELSE StoreRow(Tombstone(d, t, v, view), n, t, key, ref, view, v.key)

\* A statement goes through its rows in the order of their IDs until one fails.
ForEach(d, n, rows, Change(_, _, _)) ==
    LET run[i \in 0..MaxRowId] ==
            IF i = 0 THEN Yields(d, n)
            ELSE LET acc == run[i - 1]
                 IN  IF acc.ok /\ \E v \in rows : v.id = i
                     THEN Change(acc.db, acc.next, CHOOSE v \in rows : v.id = i)
                     ELSE acc
    IN  run[MaxRowId]

UpdateRows(d, n, t, rows, key, ref, view) ==
    ForEach(d, n, rows, LAMBDA e, m, v :
                UpdateRow(e, m, t, v, IF key = Same THEN v.key ELSE key, ref, view))

\* delete: the children of a row are dealt with first, then the row is marked.
DeleteRow(d, n, t, v, view, Act(_, _, _)) ==
    LET acted == Act(d, n, v.key)
    IN  IF ~NoConflict(v, view) THEN Fails(d, n)
        ELSE IF acted.ok THEN Yields(Tombstone(acted.db, t, v, view), acted.next)
        ELSE acted
DeleteRows(d, n, t, rows, view, Act(_, _, _)) ==
    LET done == ForEach(d, n, rows, LAMBDA e, m, v : DeleteRow(e, m, t, v, view, Act))
    IN  IF done.ok THEN [done EXCEPT !.db.row_count[t] = Max({0, @ - Cardinality(rows)})]
                   ELSE done

\* apply_parent_delete_actions, for the one key of the deleted row: CASCADE runs a DELETE
\* on the child and SET NULL an UPDATE.
DeleteActions(d, n, u, key, view, Cascade(_, _, _)) ==
    LET refer == {w \in SeenRows(d, u, view) : w.ref = key}
    IN  IF u \notin d.tables THEN Yields(d, n)
        ELSE CASE constraint_load.on_delete[u] = "cascade" -> Cascade(d, n, refer)
               [] constraint_load.on_delete[u] = "set_null" /\ ~NotNull(u) ->
                     UpdateRows(d, n, u, refer, Same, Null, view)
               [] OTHER -> IF ScanChildForFkValue(d, u, key) THEN Fails(d, n)
                                                             ELSE Yields(d, n)

\* The recursion of CASCADE, from table to table.
DeleteGrand(d, n, rows, view) ==
    DeleteRows(d, n, "grand", rows, view, LAMBDA e, m, key : Yields(e, m))
DeleteChild(d, n, rows, view) ==
    DeleteRows(d, n, "child", rows, view, LAMBDA e, m, key :
        DeleteActions(e, m, "grand", key, view, LAMBDA f, k, refer :
            DeleteGrand(f, k, refer, view)))
DeleteParent(d, n, rows, view) ==
    DeleteRows(d, n, "parent", rows, view, LAMBDA e, m, key :
        DeleteActions(e, m, "child", key, view, LAMBDA f, k, refer :
            DeleteChild(f, k, refer, view)))
Delete(d, n, t, rows, view) ==
    CASE t = "parent" -> DeleteParent(d, n, rows, view)
      [] t = "child"  -> DeleteChild(d, n, rows, view)
      [] t = "grand"  -> DeleteGrand(d, n, rows, view)

-----------------------------------------------------------------------------
(* Connections *)

Does(what) == what \in constraint_load.does
Writes(c, t, what) == /\ <<t, what>> \in constraint_load.writes[c]
                      /\ t \in db.tables /\ client[c].txn # "aborted"

\* The references that statements on t write.
Refs(t) == IF t = "parent" THEN {Null} ELSE constraint_load.keys[ParentOf[t]] \cup {Null}

\* The view of the next statement: that of BEGIN, or a fresh one.
View(c) == IF client[c].txn = "open" THEN client[c]
           ELSE [FreshView EXCEPT !.tx = next_txid]

\* Database::run_plan: a statement outside a transaction commits at once; one that
\* fails leaves no page behind and rolls its transaction back.
Run(c, result) ==
    /\ result.next <= constraint_load.ids + 1
    /\ IF client[c].txn = "open"
         THEN /\ IF result.ok
                   THEN UNCHANGED <<active, status, client>>
                   ELSE /\ active' = active \ {client[c].tx}
                        /\ status' = [status EXCEPT ![client[c].tx] = "rolled_back"]
                        /\ client' = [client EXCEPT ![c].txn = "aborted"]
              /\ UNCHANGED next_txid
         ELSE /\ next_txid <= constraint_load.txs /\ next_txid' = next_txid + 1
              /\ status' = [status EXCEPT ![next_txid] =
                               IF result.ok THEN "committed" ELSE "rolled_back"]
              /\ UNCHANGED <<active, client>>
    /\ db' = IF result.ok THEN result.db ELSE db
    /\ next_id' = result.next
    /\ UNCHANGED constraint_load

InsertStmt(c, t, key, ref) ==
    /\ Writes(c, t, "insert") /\ key \in constraint_load.keys[t] /\ ref \in Refs(t)
    /\ Run(c, Insert(db, next_id, t, key, ref, View(c)))

\* UPDATE t SET key = ..., ref = ... WHERE key = ...
UpdateStmt(c, t, which, key, ref) ==
    /\ Writes(c, t, "update") /\ key \in constraint_load.keys[t] /\ ref \in Refs(t)
    /\ LET view == View(c)
           rows == {v \in SeenRows(db, t, view) : v.key = which}
       IN  /\ rows # {}
           /\ Run(c, UpdateRows(db, next_id, t, rows, key, ref, view))

DeleteStmt(c, t, which) ==
    /\ Writes(c, t, "delete")
    /\ LET view == View(c)
           rows == {v \in SeenRows(db, t, view) : v.key = which}
       IN  rows # {} /\ Run(c, Delete(db, next_id, t, rows, view))

BeginTxn(c) ==
    /\ Does("transactions") /\ client[c].txn = "none"
    /\ next_txid <= constraint_load.txs
    /\ client' = [client EXCEPT ![c] = [txn |-> "open", tx |-> next_txid,
                                        high |-> next_txid, others |-> active]]
    /\ active' = active \cup {next_txid} /\ next_txid' = next_txid + 1
    /\ UNCHANGED <<constraint_load, db, next_id, status>>

\* COMMIT or ROLLBACK; an aborted transaction has its verdict already.
EndTxn(c, verdict) ==
    /\ client[c].txn # "none"
    /\ verdict = "committed" => client[c].txn = "open"
    /\ verdict = "rolled_back" => client[c].txn = "aborted" \/ Does("rollback")
    /\ active' = active \ {client[c].tx}
    /\ status' = [status EXCEPT ![client[c].tx] = verdict]
    /\ client' = [client EXCEPT ![c] = NoTransaction]
    /\ UNCHANGED <<constraint_load, db, next_id, next_txid>>

-----------------------------------------------------------------------------
(* Reclaiming, VACUUM, tables *)

OldestActive == IF active = {} THEN next_txid ELSE Min(active)
RolledBackInsert(v) == status[v.tx_min] = "rolled_back"
CommittedTombstone(v) == v.tx_max # 0 /\ status[v.tx_max] = "committed"

\* Rows leave the table with their entries.
RemoveRows(d, t, gone) ==
    LET ids == {v.id : v \in gone}
    IN  [d EXCEPT !.rows[t] = @ \ gone, !.pk[t] = {e \in @ : e[2] \notin ids},
                  !.fk[t] = {e \in @ : e[2] \notin ids}]

\* Database::reclaim_dead_rows, for one table: rolled-back inserts come off the count,
\* tombstones came off it at DELETE.
ReclaimTable(t) ==
    LET rolled_back == {v \in db.rows[t] : v.tx_min < OldestActive /\ RolledBackInsert(v)}
        tombstones  == {v \in db.rows[t] : v.tx_max < OldestActive /\ CommittedTombstone(v)}
    IN  /\ Does("reclaim") /\ rolled_back \cup tombstones # {}
        /\ db' = [RemoveRows(db, t, rolled_back \cup tombstones) EXCEPT
                    !.row_count[t] = Max({0, @ - Cardinality(rolled_back \ tombstones)})]
        /\ UNCHANGED <<constraint_load, next_id, next_txid, active, status, client>>

\* Database::vacuum, with no other transaction in flight: dead rows are not copied, and
\* the counts are.
Vacuum ==
    /\ Does("vacuum") /\ \A c \in Clients : client[c].txn = "none"
    /\ LET Dead(t) == {v \in db.rows[t] : RolledBackInsert(v) \/ CommittedTombstone(v)}
       IN  /\ \E t \in Tables : Dead(t) # {}
           /\ db' = RemoveRows(RemoveRows(RemoveRows(db, "parent", Dead("parent")),
                                  "child", Dead("child")), "grand", Dead("grand"))
    /\ UNCHANGED <<constraint_load, next_id, next_txid, active, status, client>>

\* CREATE TABLE: the planner asks for the parent's table and its unique column.
CreateTable(t) ==
    /\ Does("ddl") /\ t \notin db.tables
    /\ t \in Children => ParentOf[t] \in db.tables
    /\ db' = [db EXCEPT !.tables = @ \cup {t}]
    /\ UNCHANGED <<constraint_load, next_id, next_txid, active, status, client>>

\* drop_table, refused while child_referencing finds a table.
DropTable(t) ==
    /\ Does("ddl") /\ t \in db.tables /\ ChildrenOf(t) \cap db.tables = {}
    /\ db' = [db EXCEPT !.tables = @ \ {t}, !.rows[t] = {}, !.pk[t] = {}, !.fk[t] = {},
                        !.row_count[t] = 0]
    /\ UNCHANGED <<constraint_load, next_id, next_txid, active, status, client>>

ConstraintNext ==
    \/ \E c \in Clients :
          \/ BeginTxn(c)
          \/ \E verdict \in {"committed", "rolled_back"} : EndTxn(c, verdict)
          \/ \E t \in Tables, key \in KeyValues, ref \in KeyValues \cup {Null} :
                \/ InsertStmt(c, t, key, ref)
                \/ \E which \in KeyValues : UpdateStmt(c, t, which, key, ref)
          \/ \E t \in Tables, which \in KeyValues : DeleteStmt(c, t, which)
    \/ \E t \in Tables : ReclaimTable(t) \/ CreateTable(t) \/ DropTable(t)
    \/ Vacuum

ConstraintSpec == ConstraintInit /\ [][ConstraintNext]_constraintVars

-----------------------------------------------------------------------------
(* Properties *)

Views == {FreshView} \cup {client[c] : c \in {d \in Clients : client[d].txn = "open"}}

\* Every stored version has its entry in every index and every entry its version, the
\* one with the entry's value: an index scan that meets an entry without its row reports
\* corruption (IndexScan::next, collect_candidates).
EntriesMatchRows ==
    \A t \in Tables :
        /\ db.pk[t] = {<<v.key, v.id>> : v \in db.rows[t]}
        /\ db.fk[t] = IF Indexed(t) THEN {<<v.ref, v.id>> : v \in db.rows[t]} ELSE {}

\* No transaction, present or new, sees two rows with one primary key, although the
\* check looks at entries and UPDATE skips it for a key that stays
\* (index_insert_row_with_old).
UniqueKeys ==
    \A view \in Views, t \in Tables : \A v, w \in SeenRows(db, t, view) :
        v.key = w.key => v = w

\* What the latest committed state holds of t.
Latest(t) == SeenRows(db, t, FreshView)

\* A statement run alone never takes away the parent of a row that keeps its reference:
\* RESTRICT, CASCADE and SET NULL reach every child and grandchild
\* (apply_parent_delete_actions, check_no_child_references).
DeleteKeepsReferences ==
    [][~Does("transactions") /\ db'.tables = db.tables =>
          \A u \in Children : \A w \in Latest(u)' :
             (\E v \in Latest(ParentOf[u]) : v.key = w.ref)
                => w.ref = Null \/ (\E v \in Latest(ParentOf[u])' : v.key = w.ref)
      ]_constraintVars
=============================================================================
