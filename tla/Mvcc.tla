-------------------------------- MODULE Mvcc --------------------------------
(***************************************************************************)
(* Row versions, snapshots and garbage collection: engine/transaction.rs,  *)
(* the transaction half of engine/database.rs, and the row paths of        *)
(* INSERT, UPDATE and DELETE in engine/executor.rs, over one table.        *)
(*                                                                         *)
(* A row version carries the transaction that created it (tx_min) and the  *)
(* one that deleted it (tx_max, 0 for none).  Sessions run concurrently    *)
(* and share TxState and the commit log; the reclaimer thread removes dead *)
(* versions and truncates the commit log.  A statement's writes reach the  *)
(* file as a whole when its pager.commit returns (v0.26: per statement,    *)
(* inside explicit transactions too).  The commit log appears here as the  *)
(* atomic map that module Clog implements, and the SSI verdict at commit   *)
(* as a free choice, which module Ssi decides.                             *)
(***************************************************************************)
EXTENDS Integers, FiniteSets, FiniteSetsExt

CONSTANTS
    Session,    \* client connections
    Item,       \* logical rows: what a WHERE clause can single out
    Loaded,     \* the items that exist from the start
    Workloads,  \* what clients and the environment may do: per workload the
                \* items each session writes, and the events that happen
    MaxTx,      \* bound: transaction IDs are 1..MaxTx
    MaxRow      \* bound: rowids are 1..MaxRow

Events == {"rollback", "reclaim", "truncate", "crash", "empty"}

ASSUME MvccConstants ==
    /\ Item # {} /\ Loaded \subseteq Item /\ IsFiniteSet(Loaded)
    /\ Workloads \subseteq [may_write : [Session -> SUBSET Item],
                          events : SUBSET Events]
    /\ MaxTx \in Nat \ {0}
    /\ MaxRow \in Nat \ {0} /\ Cardinality(Loaded) <= MaxRow

VARIABLES
    workload,   \* chosen once
    \* the table's B+tree and the header page, as the file holds them
    rows, next_rowid, header_next_tx,
    \* the commit log
    clog, min_tx_id,
    \* TxState and SharedMeta
    next_tx_id, in_flight, meta_next_tx,
    \* sessions
    pc, txn, current_tx, snap, stmt, candidates, outcome,
    \* the reclaimer
    gpc, floor, oldest_active,
    \* history
    ins, del,   \* the versions a running transaction wrote and tombstoned
    db,         \* the versions that are live after the committed transactions
    base        \* what db was when a session took its snapshot

fileVars    == <<rows, next_rowid, header_next_tx>>
clogVars    == <<clog, min_tx_id>>
txVars      == <<next_tx_id, in_flight, meta_next_tx>>
sessionVars == <<pc, txn, current_tx, snap, stmt, candidates, outcome>>
gcVars      == <<gpc, floor, oldest_active>>
historyVars == <<ins, del, db, base>>
vars == <<fileVars, clogVars, txVars, sessionVars, gcVars, historyVars,
          workload>>

Tx     == 1..MaxTx
RowId  == 1..MaxRow
Row    == [id : RowId, item : Item, tx_min : Tx, tx_max : 0..MaxTx]
Status == {"None", "Committed", "RolledBack"}
Snap   == [next_tx : 0..(MaxTx + 1), in_flight : SUBSET Tx]
NoSnap == [next_tx |-> 0, in_flight |-> {}]
Op     == {"insert", "update", "delete"}
Stmt   == [op : Op, item : Item]

TypeOK ==
    /\ workload \in Workloads
    /\ rows \subseteq Row
    /\ next_rowid \in 1..(MaxRow + 1)
    /\ header_next_tx \in 1..(MaxTx + 1)
    /\ clog \in [Tx -> Status]
    /\ min_tx_id \in 0..(MaxTx + 1)
    /\ next_tx_id \in 1..(MaxTx + 1)
    /\ in_flight \subseteq Tx
    /\ meta_next_tx \in 1..(MaxTx + 1)
    /\ pc \in [Session -> {"idle", "begun", "open", "scan", "write", "record",
                           "leave", "aborted", "reading"}]
    /\ txn \in [Session -> {"None", "Open", "Aborted"}]
    /\ current_tx \in [Session -> 0..MaxTx]
    /\ snap \in [Session -> Snap]
    /\ stmt \in [Session -> Stmt]
    /\ candidates \in [Session -> SUBSET Row]
    /\ outcome \in [Session -> {"Committed", "RolledBack"}]
    /\ gpc \in {"idle", "pass", "reclaim", "truncate"}
    /\ floor \in 0..(MaxTx + 1)
    /\ oldest_active \in 0..(MaxTx + 1)
    /\ ins \in [Tx -> SUBSET RowId]
    /\ del \in [Tx -> SUBSET RowId]
    /\ db \subseteq RowId
    /\ base \in [Session -> SUBSET RowId]

NoStmt == CHOOSE st \in Stmt : st.op = "insert"

\* The rowid order in which the loaded items were inserted.
Order == CHOOSE f \in [1..Cardinality(Loaded) -> Loaded] :
            \A i \in Loaded : \E n \in DOMAIN f : f[n] = i

\* A database opened after transaction 1 loaded one row per item of Loaded.
Init ==
    /\ workload \in Workloads
    /\ rows = {[id |-> n, item |-> Order[n], tx_min |-> 1, tx_max |-> 0]
                  : n \in DOMAIN Order}
    /\ next_rowid = Cardinality(Loaded) + 1
    /\ header_next_tx = 2 /\ next_tx_id = 2 /\ meta_next_tx = 2
    /\ clog = [t \in Tx |-> IF t = 1 THEN "Committed" ELSE "None"]
    /\ min_tx_id = 0 /\ in_flight = {}
    /\ pc = [s \in Session |-> "idle"]
    /\ txn = [s \in Session |-> "None"]
    /\ current_tx = [s \in Session |-> 0]
    /\ snap = [s \in Session |-> NoSnap]
    /\ stmt = [s \in Session |-> NoStmt]
    /\ candidates = [s \in Session |-> {}]
    /\ outcome = [s \in Session |-> "RolledBack"]
    /\ gpc = "idle" /\ floor = 0 /\ oldest_active = 0
    /\ ins = [t \in Tx |-> {}]
    /\ del = [t \in Tx |-> {}]
    /\ db = DOMAIN Order
    /\ base = [s \in Session |-> {}]

-----------------------------------------------------------------------------
(* Visibility *)

\* Clog::status.
StatusOf(t) == IF t < min_tx_id THEN "Committed" ELSE clog[t]

IsCommitted(t)  == StatusOf(t) = "Committed"
IsRolledBack(t) == StatusOf(t) = "RolledBack"

\* Mutant: the commit log alone decides, whatever was in flight.
Covers_ClogOnly(sn, t) == IsCommitted(t) /\ t < sn.next_tx

\* Whether transaction t committed before snapshot sn was taken.
Covers(sn, t) ==
    IsCommitted(t) /\ t < sn.next_tx /\ t \notin sn.in_flight

\* Snapshot::visible, for the writer own (0 for a reader without a
\* transaction).  No row in a table has tx_min = 0.
Visible(sn, own, r) ==
    /\ r.tx_min = own \/ Covers(sn, r.tx_min)
    /\ r.tx_max = 0 \/ (r.tx_max # own /\ ~Covers(sn, r.tx_max))

\* TxState::snapshot.
SnapshotNow == [next_tx |-> next_tx_id, in_flight |-> in_flight]

\* The row versions snapshot sn shows.
View(sn, own) == {r \in rows : Visible(sn, own, r)}

\* TxState::oldest_active_tx_id.
OldestActive == IF in_flight = {} THEN next_tx_id ELSE Min(in_flight)

\* Mutant: a rolled-back peer conflicts as well.
ConflictsWith_RolledBack(own, r) ==
    r.tx_max # 0 /\ r.tx_max # own /\ StatusOf(r.tx_max) # "Committed"

\* check_write_write_conflict on a collected record: its tombstone belongs to
\* another transaction whose outcome is unknown.
ConflictsWith(own, r) ==
    r.tx_max # 0 /\ r.tx_max # own /\ StatusOf(r.tx_max) = "None"

-----------------------------------------------------------------------------
(* Sessions *)

\* TxState::begin_write.
BeginWrite(s) ==
    /\ next_tx_id <= MaxTx
    /\ next_tx_id' = next_tx_id + 1
    /\ in_flight' = in_flight \cup {next_tx_id}
    /\ current_tx' = [current_tx EXCEPT ![s] = next_tx_id]
    /\ pc' = [pc EXCEPT ![s] = "begun"]
    /\ UNCHANGED <<fileVars, clogVars, meta_next_tx, snap, candidates, outcome,
                   gcVars, historyVars>>

\* begin_transaction: reserve the ID.
BeginTransaction(s) ==
    /\ pc[s] = "idle"
    /\ BeginWrite(s)
    /\ txn' = [txn EXCEPT ![s] = "Open"]
    /\ UNCHANGED stmt

\* run_plan outside a transaction: ensure_write_tx reserves the ID.
AutoCommit(s, st) ==
    /\ pc[s] = "idle"
    /\ BeginWrite(s)
    /\ stmt' = [stmt EXCEPT ![s] = st]
    /\ UNCHANGED txn

\* How a transaction can end: ROLLBACK, a disconnect and the SSI check
\* all record a rollback.
Verdict == {"Committed"} \cup
           (IF "rollback" \in workload.events THEN {"RolledBack"} ELSE {})

\* Whether session s may end its transaction: one whose ID never reached the file
\* header takes the workload "empty".
MayEnd(s) == header_next_tx > current_tx[s] \/ "empty" \in workload.events

\* Where a statement starts: INSERT collects no candidates.
FirstStep(st) == IF st.op = "insert" THEN "write" ELSE "scan"

\* Pager::set_next_tx_id, then TxState::snapshot.
TakeSnapshot(s) ==
    /\ pc[s] = "begun"
    /\ meta_next_tx' = Max({meta_next_tx, current_tx[s] + 1})
    /\ snap' = [snap EXCEPT ![s] = SnapshotNow]
    /\ base' = [base EXCEPT ![s] = db]
    /\ pc' = [pc EXCEPT ![s] =
                IF txn[s] = "Open" THEN "open" ELSE FirstStep(stmt[s])]
    /\ UNCHANGED <<fileVars, clogVars, next_tx_id, in_flight, txn, current_tx,
                   stmt, candidates, outcome, gcVars, ins, del, db>>

\* run_plan inside a transaction: the pinned snapshot is used again.
Execute(s, st) ==
    /\ pc[s] = "open"
    /\ stmt' = [stmt EXCEPT ![s] = st]
    /\ pc' = [pc EXCEPT ![s] = FirstStep(st)]
    /\ UNCHANGED <<fileVars, clogVars, txVars, txn, current_tx, snap,
                   candidates, outcome, gcVars, historyVars>>

\* collect_candidates: copies of the visible rows the WHERE clause keeps.
CollectCandidates(s) ==
    /\ pc[s] = "scan"
    /\ candidates' = [candidates EXCEPT ![s] =
          {r \in View(snap[s], current_tx[s]) : r.item = stmt[s].item}]
    /\ pc' = [pc EXCEPT ![s] = "write"]
    /\ UNCHANGED <<fileVars, clogVars, txVars, txn, current_tx, snap, stmt,
                   outcome, gcVars, historyVars>>

\* The statement's snapshot is no longer needed.
Unpin(s) ==
    /\ snap' = [snap EXCEPT ![s] = NoSnap]
    /\ base' = [base EXCEPT ![s] = {}]

\* Mutant: the new version is not stamped with its transaction.
NewVersion_Unstamped(s) ==
    [id |-> next_rowid, item |-> stmt[s].item, tx_min |-> 0, tx_max |-> 0]

\* The versions a statement writes: INSERT and UPDATE one per row, under a rowid
\* of their own (Snapshot::reserve_rowid).
NewVersion(s) ==
    [id |-> next_rowid, item |-> stmt[s].item,
     tx_min |-> current_tx[s], tx_max |-> 0]

\* The collected rows as a statement writes them back: with tx_max set, otherwise
\* as they were read.
Tombstoned(s) == {[r EXCEPT !.tx_max = current_tx[s]] : r \in candidates[s]}

\* insert, update and delete: each collected row is written back under its
\* rowid with tx_max set, UPDATE and INSERT add a version, and the statement's
\* pager.commit makes it durable together with the header, unless nothing
\* is dirty (a DELETE of no rows).  An auto-commit statement goes on to the SSI
\* check and to commit_write.
Write(s) ==
    LET own   == current_tx[s]
        old   == candidates[s]
        ids   == {r.id : r \in old}
        adds  == IF stmt[s].op = "delete" \/ (stmt[s].op = "update" /\ old = {})
                 THEN {} ELSE {NewVersion(s)}
        dirty == ~(stmt[s].op = "delete" /\ old = {})
    IN
    /\ pc[s] = "write"
    /\ ~ \E r \in old : ConflictsWith(own, r)
    /\ dirty \/ MayEnd(s)
    /\ next_rowid + Cardinality(adds) <= MaxRow + 1
    /\ rows' = {r \in rows : r.id \notin ids}
               \cup Tombstoned(s) \cup adds
    /\ next_rowid' = next_rowid + Cardinality(adds)
    /\ header_next_tx' = IF dirty THEN meta_next_tx ELSE header_next_tx
    /\ ins' = [ins EXCEPT ![own] = @ \cup {r.id : r \in adds}]
    /\ del' = [del EXCEPT ![own] = @ \cup ids]
    /\ candidates' = [candidates EXCEPT ![s] = {}]
    /\ stmt' = [stmt EXCEPT ![s] = NoStmt]
    /\ IF txn[s] = "Open"
       THEN /\ pc' = [pc EXCEPT ![s] = "open"]
            /\ UNCHANGED <<snap, base, outcome>>
       ELSE /\ pc' = [pc EXCEPT ![s] = "record"]
            /\ outcome' \in {[outcome EXCEPT ![s] = o] : o \in Verdict}
            /\ Unpin(s)
    /\ UNCHANGED <<clogVars, txVars, txn, current_tx, gcVars, db>>

\* run_plan, error branch: a write-write conflict or a constraint the statement
\* violates.  pager.rollback drops the statement's pages and the whole
\* transaction is rolled back.  An explicit transaction refuses further
\* statements, so its snapshot is of no use any more.
StatementFails(s) ==
    /\ pc[s] = "write"
    /\ \/ \E r \in candidates[s] : ConflictsWith(current_tx[s], r)
       \/ "rollback" \in workload.events
    /\ MayEnd(s)
    /\ outcome' = [outcome EXCEPT ![s] = "RolledBack"]
    /\ txn' = [txn EXCEPT ![s] = IF @ = "Open" THEN "Aborted" ELSE @]
    /\ candidates' = [candidates EXCEPT ![s] = {}]
    /\ stmt' = [stmt EXCEPT ![s] = NoStmt]
    /\ pc' = [pc EXCEPT ![s] = "record"]
    /\ Unpin(s)
    /\ UNCHANGED <<fileVars, clogVars, txVars, current_tx, gcVars, ins, del,
                   db>>

\* commit_transaction and rollback_transaction (or abort_transaction after a
\* disconnect) in an open transaction.
EndTransaction(s) ==
    /\ pc[s] = "open"
    /\ MayEnd(s)
    /\ outcome' \in {[outcome EXCEPT ![s] = o] : o \in Verdict}
    /\ txn' = [txn EXCEPT ![s] = "None"]
    /\ pc' = [pc EXCEPT ![s] = "record"]
    /\ Unpin(s)
    /\ UNCHANGED <<fileVars, clogVars, txVars, current_tx, stmt, candidates,
                   gcVars, ins, del, db>>

\* commit_write and rollback_write, first half: the record is durable.
RecordOutcome(s) ==
    /\ pc[s] = "record"
    /\ clog' = [clog EXCEPT ![current_tx[s]] = outcome[s]]
    /\ pc' = [pc EXCEPT ![s] = "leave"]
    /\ UNCHANGED <<fileVars, min_tx_id, txVars, txn, current_tx, snap, stmt,
                   candidates, outcome, gcVars, historyVars>>

\* The database after transaction t with the given outcome.
After(d, t, o) == IF o = "Committed" THEN (d \cup ins[t]) \ del[t] ELSE d

\* commit_write and rollback_write, second half: the ID leaves the in-flight set,
\* and snapshots taken from now on see the outcome.
LeaveInFlight(s) ==
    /\ pc[s] = "leave"
    /\ in_flight' = in_flight \ {current_tx[s]}
    /\ db' = After(db, current_tx[s], outcome[s])
    /\ ins' = [ins EXCEPT ![current_tx[s]] = {}]
    /\ del' = [del EXCEPT ![current_tx[s]] = {}]
    /\ current_tx' = [current_tx EXCEPT ![s] = 0]
    /\ outcome' = [outcome EXCEPT ![s] = "RolledBack"]
    /\ pc' = [pc EXCEPT ![s] = IF txn[s] = "Aborted" THEN "aborted" ELSE "idle"]
    /\ UNCHANGED <<fileVars, clogVars, next_tx_id, meta_next_tx, txn, snap,
                   stmt, candidates, gcVars, base>>

\* stream_next: a SELECT inside the transaction fails while its rows are pulled.
\* The transaction is aborted, but its ID stays in flight until the client
\* answers.
StreamFails(s) ==
    /\ pc[s] = "open" /\ "rollback" \in workload.events
    /\ MayEnd(s)
    /\ txn' = [txn EXCEPT ![s] = "Aborted"]
    /\ pc' = [pc EXCEPT ![s] = "aborted"]
    /\ Unpin(s)
    /\ UNCHANGED <<fileVars, clogVars, txVars, current_tx, stmt, candidates,
                   outcome, gcVars, ins, del, db>>

\* COMMIT or ROLLBACK of an aborted transaction; one that still holds its ID is
\* recorded as rolled back.
EndAborted(s) ==
    /\ pc[s] = "aborted"
    /\ txn' = [txn EXCEPT ![s] = "None"]
    /\ pc' = [pc EXCEPT ![s] = IF current_tx[s] = 0 THEN "idle" ELSE "record"]
    /\ UNCHANGED <<fileVars, clogVars, txVars, current_tx, snap, stmt,
                   candidates, outcome, gcVars, historyVars>>

\* An auto-commit SELECT builds its pipeline: its snapshot has no transaction ID.
StartRead(s) ==
    /\ pc[s] = "idle"
    /\ snap' = [snap EXCEPT ![s] = SnapshotNow]
    /\ base' = [base EXCEPT ![s] = db]
    /\ pc' = [pc EXCEPT ![s] = "reading"]
    /\ UNCHANGED <<fileVars, clogVars, txVars, txn, current_tx, stmt,
                   candidates, outcome, gcVars, ins, del, db>>

\* The last row of the stream was sent.
FinishRead(s) ==
    /\ pc[s] = "reading"
    /\ pc' = [pc EXCEPT ![s] = "idle"]
    /\ Unpin(s)
    /\ UNCHANGED <<fileVars, clogVars, txVars, txn, current_tx, stmt,
                   candidates, outcome, gcVars, ins, del, db>>

-----------------------------------------------------------------------------
(* The reclaimer *)

\* The server holds the table's lock (shared) around a write statement, and
\* around its commit too when it is not part of a transaction.
HoldsTableLock(s) ==
    \/ pc[s] \in {"scan", "write"}
    \/ txn[s] = "None" /\ pc[s] \in {"begun", "record", "leave"}

\* truncate_clog captures the floor before the reclaim pass.
CaptureFloor ==
    /\ "truncate" \in workload.events /\ gpc = "idle"
    /\ floor' = OldestActive
    /\ gpc' = "pass"
    /\ UNCHANGED <<fileVars, clogVars, txVars, sessionVars, oldest_active,
                   historyVars>>

\* reclaim_dead_rows, on its own or for truncate_clog, captures its watermark.
StartReclaim ==
    /\ \/ gpc = "idle" /\ "reclaim" \in workload.events
       \/ gpc = "pass"
    /\ oldest_active' = OldestActive
    /\ gpc' = "reclaim"
    /\ UNCHANGED <<fileVars, clogVars, txVars, sessionVars, floor, historyVars>>

\* Mutant: a tombstone is enough, whoever wrote it.
Dead_AnyTombstone(r) ==
    \/ r.tx_max # 0 /\ r.tx_max < oldest_active
    \/ r.tx_min < oldest_active /\ IsRolledBack(r.tx_min)

\* A committed tombstone or a rolled-back insert below the watermark.
Dead(r) ==
    \/ r.tx_max # 0 /\ r.tx_max < oldest_active /\ IsCommitted(r.tx_max)
    \/ r.tx_min < oldest_active /\ IsRolledBack(r.tx_min)

\* reclaim_dead_rows: under the table's exclusive lock, delete the dead rows and
\* commit the pages (and with them the header).
Reclaim ==
    LET dead == {r \in rows : Dead(r)}
    IN
    /\ gpc = "reclaim"
    /\ \A s \in Session : ~HoldsTableLock(s)
    /\ rows' = rows \ dead
    /\ header_next_tx' = IF dead = {} THEN header_next_tx ELSE meta_next_tx
    /\ gpc' = IF floor = 0 THEN "idle" ELSE "truncate"
    /\ UNCHANGED <<next_rowid, clogVars, txVars, sessionVars, floor,
                   oldest_active, historyVars>>

\* Clog::truncate_below: forget the outcomes below the floor.
TruncateBelow ==
    /\ gpc = "truncate"
    /\ min_tx_id' = Max({min_tx_id, floor})
    /\ clog' = [t \in Tx |-> IF t < floor THEN "None" ELSE clog[t]]
    /\ floor' = 0
    /\ gpc' = "idle"
    /\ UNCHANGED <<fileVars, txVars, sessionVars, oldest_active, historyVars>>

-----------------------------------------------------------------------------

\* The process stops and the database is opened again: TxState::new starts from
\* the header's counter.  A transaction whose record reached the commit log has
\* ended.
CrashAndOpen ==
    LET ended == {s \in Session : pc[s] = "leave" /\ outcome[s] = "Committed"}
    IN
    /\ "crash" \in workload.events
    /\ next_tx_id' = header_next_tx
    /\ meta_next_tx' = header_next_tx
    /\ in_flight' = {}
    /\ db' = (db \cup UNION {ins[current_tx[s]] : s \in ended})
             \ UNION {del[current_tx[s]] : s \in ended}
    /\ pc' = [s \in Session |-> "idle"]
    /\ txn' = [s \in Session |-> "None"]
    /\ current_tx' = [s \in Session |-> 0]
    /\ snap' = [s \in Session |-> NoSnap]
    /\ stmt' = [s \in Session |-> NoStmt]
    /\ candidates' = [s \in Session |-> {}]
    /\ outcome' = [s \in Session |-> "RolledBack"]
    /\ gpc' = "idle" /\ floor' = 0 /\ oldest_active' = 0
    /\ ins' = [t \in Tx |-> {}]
    /\ del' = [t \in Tx |-> {}]
    /\ base' = [s \in Session |-> {}]
    /\ UNCHANGED <<fileVars, clogVars>>

\* The write statements of session s: an INSERT adds an item it does not see.
Statements(s) ==
    {st \in Stmt :
        /\ st.item \in workload.may_write[s]
        /\ (st.op = "insert") <=> (\A r \in rows : r.item # st.item)}

SessionStep(s) ==
    \/ BeginTransaction(s) \/ TakeSnapshot(s)
    \/ \E st \in Statements(s) : AutoCommit(s, st) \/ Execute(s, st)
    \/ CollectCandidates(s) \/ Write(s) \/ StatementFails(s)
    \/ EndTransaction(s) \/ RecordOutcome(s) \/ LeaveInFlight(s)
    \/ StreamFails(s) \/ EndAborted(s) \/ StartRead(s) \/ FinishRead(s)

Next ==
    /\ \/ \E s \in Session : SessionStep(s)
       \/ CaptureFloor \/ StartReclaim \/ Reclaim \/ TruncateBelow
       \/ CrashAndOpen
    /\ UNCHANGED workload

Spec == Init /\ [][Next]_vars

-----------------------------------------------------------------------------
(* Properties *)

Ids(rs) == {r.id : r \in rs}

\* The rows a session sees, apart from its own writes, are those it saw when
\* it took its snapshot.
SeesItsBase(s) ==
    LET own    == current_tx[s]
        others == {[r EXCEPT !.tx_max = IF @ = own THEN 0 ELSE @]
                      : r \in {q \in rows : q.tx_min # own}}
    IN  Ids({r \in others : Visible(snap[s], 0, r)}) = base[s]

Pinned == {s \in Session : pc[s] \in {"open", "scan", "write", "reading"}}

\* "no active snapshot's next_tx is lower than oldest_active, so no future reader
\* will ever try to see it as live": from the moment a session takes its snapshot
\* until it gives it up, it sees the same rows.
SnapshotStable == \A s \in Pinned : SeesItsBase(s)

\* Two sessions write one item: check_write_write_conflict lets updates get lost.
Contested ==
    \E s, t \in Session : s # t /\ workload.may_write[s] \cap workload.may_write[t] # {}

\* The same, while nothing is contested, for the snapshots the watermark of the last
\* reclaim pass does not reach into: everything below the watermark had ended when
\* they were taken.  Whatever commits, rolls back, is reclaimed or truncated since,
\* they do not change.
SnapshotStableAboveWatermark ==
    ~Contested => \A s \in Pinned :
      (\A t \in snap[s].in_flight \cup {snap[s].next_tx} : t >= oldest_active)
        => SeesItsBase(s)

\* A snapshot taken now shows exactly the effects of the committed
\* transactions: none is lost, and nothing of a rolled-back, crashed or running
\* one shows through, after any reclaim, truncation or restart.
FreshViewIsDb == Ids(View(SnapshotNow, 0)) = db

\* First-updater-wins: concurrent updates of one item never leave two live
\* versions of it.
OneLiveVersion ==
    \A r, q \in View(SnapshotNow, 0) : r.item = q.item => r = q

\* Both hold while nothing is contested, whatever rolls back, crashes, is reclaimed or
\* truncated (Snapshot::visible, reclaim_dead_rows).
UncontestedViewIsDb == ~Contested => FreshViewIsDb /\ OneLiveVersion

\* A conflict that is reported names a running transaction.
ConflictIsReal ==
    \A s \in Session : \A r \in candidates[s] :
        ConflictsWith(current_tx[s], r) => r.tx_max \in in_flight

\* As long as the process does not crash, a write-write conflict is reported only while
\* the other writer is running: "A rolled-back peer is harmless (we can overwrite)"
\* (check_write_write_conflict).  A transaction has its outcome in the commit log
\* before it leaves in_flight, and a truncation keeps it there.
ConflictIsRealWhileUp == "crash" \notin workload.events => ConflictIsReal
=============================================================================
