# PrehniteDB: TLA+ models and proofs

PrehniteDB (`crates/prehnitedb`, with the server `crates/prehnited` and a client)
is a relational database in Rust with multi-version rows, serializable snapshot
isolation, a commit log with group commit, and a background reclaimer. This
directory models the engine from the commit log and the pager up to the planner and
the server's connections, checks it with TLC and proves with TLAPS the central
properties of the commit log, snapshots, conflict tracking, sessions and the pager.

Paths below are relative to `crates/prehnitedb/src/` unless they start with
`crates/`.

## 1. The system

| Component | State | Operations | Talks to |
|---|---|---|---|
| commit log, `engine/clog.rs` | file `<db>-clog` (floor, records); map, pending queue, LSNs, flush slot | `record_commit`, `record_rollback`, `status`, `truncate_below`, `open` | called by the coordinator, the visibility check, the reclaimer |
| transaction coordinator, `engine/transaction.rs` | next ID, in-flight set, SSI map, table locks, rowid counters | `begin_write`, `commit_write`, `rollback_write`, `snapshot`, `visible`, `record_*`, `ssi_check_commit`, `oldest_active_tx_id` | shared by every session |
| session, `engine/database.rs` | transaction state, current ID, pinned snapshot, prepared statements | `BEGIN`/`COMMIT`/`ROLLBACK`, `run_plan`, streaming, `reclaim_dead_rows`, `truncate_clog`, online `CREATE INDEX`, `VACUUM`, auto-analyze | coordinator, pager, catalog, executor |
| executor, `engine/executor.rs` | none of its own; operators and cursors | scans, joins, aggregation, sorting, `INSERT`/`UPDATE`/`DELETE`, constraints | B+trees through the pager, snapshot |
| planner, binder, EXPLAIN | none | access path, join order | catalog |
| catalog, schema | the catalog tree, schema version | `get`, `put`, `remove` | catalog lock, pager |
| pager and pool, `storage/pager.rs` | file, header page, shared pool, dirty set, spilled pages, free list | `read`/`write_page`, `allocate`, `commit`, `rollback`, recovery | WAL, shared header mutex |
| WAL, `storage/wal.rs` | one log file per pager | `append_page`, `seal`, `apply`, `reset`, recovery | pager |
| B+tree and pages | pages | search, insert with splits, delete with merges, cursors | pager, page latches |
| server, `crates/prehnited/src/lib.rs` | one thread per connection, the reclaimer thread | read a request, take the table lock, run it, stream rows | sessions |
| protocol, SQL front end, CLI | none | framing, parsing, printing | server |

What is hard here, and hard to test:

* **Concurrency.** Session threads and the reclaimer share the coordinator, the
  commit log and the buffer pool. The commit log releases its mutex during I/O and
  hands the file from leader to leader; an index scan fetches a row and notes the
  read under different locks; the floor of a truncation is captured long before it
  is used.
* **Failure.** A write, an fsync, a rename or a reopen can fail in the middle of a
  group commit or of a truncation, and the process can stop at any step.
* **Two ways to do everything.** A query runs row by row or in batches, serially or on
  worker threads, through an index or a scan, as written or rewritten; the answers
  must be the same at every batch boundary, NULL, spill threshold and overflow.
* **Ordering.** Physical commit (per statement) and logical commit (a clog record)
  are different events; visibility depends on the clog, the snapshot's in-flight set
  and the truncation floor together.

What makes each part correct: an outcome reported by the commit log is durable,
unique and final; a snapshot does not change while it is in use; a fresh snapshot
shows exactly the committed transactions; two writers of one row do not both win;
every rw-dependency between running transactions is known before the commit check;
and every committed history has a serial order. A statement is in the database file
with all its pages or none once it has ended; the B+tree keeps its shape and contents
under concurrent writers; an index names exactly the stored rows; keys are unique and
references kept; an index the planner may use is complete; a query returns what SQL
asks for whichever plan runs it. `PROJECT.json` lists the hazards
line by line.

## 2. Modules

**`CommitLog`** is the abstract commit log: each transaction has at most one outcome
and it never changes, a caller learns an outcome only once it is decided, and
raising the floor turns what lies below it into `Committed`. It has no crash.

**`Clog`** models `engine/clog.rs` at the granularity of its critical sections. The
file is `disk_min`, `disk` (what an fsync has covered), `limbo` (written, not
covered: a crash keeps any subset) and `junk` (a torn record). `map`, `pending`,
`next_lsn`, `durable_lsn`, `flushing` and `min_tx_id` are the fields of `ClogState`;
`pc`, `tx`, `status`, `lsn` are the locals of each thread in `append`, and `batch`,
`snapshot_lsn`, `result` those of the leader. `Enqueue`, `Covered`, `Park`, `Lead`,
`WriteBatch`/`WriteFails`/`WriteNothing`/`WritePanics`, `SyncBatch`/`SyncFails` and
`Publish` are `append` and `flush_until`; `TakeSlot` to `FinishTruncate` are the four
steps of `truncate_below` with their error paths; `Crash` and `Open` end and restart
the process at any point. Records are kept as sets: `OneOutcome` shows that no two
records of one transaction exist whose order could matter.

**`Mvcc`** models row versions over one table: `Snapshot::visible`, the life of a
transaction in `database.rs` (explicit and auto-commit, failing statements, failing
streams, disconnects), the row paths of INSERT, UPDATE and DELETE with the two steps
*collect candidates* and *write*, the reclaimer and the truncation of the commit log.
`header_next_tx` is the ID counter as the file holds it: it advances only when a
statement commits dirty pages. The commit log is the atomic map that `Clog`
implements; its record and the departure from the in-flight set are two steps, as in
`commit_write`. The verdict of the SSI check is a free choice. History variables
(`ins`, `del`, `db`, `base`) say what the database should contain. `Workloads` says
which items each session writes and which events occur; a run chooses among several
at the start, which is how one run covers regions that need different environments.
`Constraints`, `Pager`, `BTree` and `Session` have workloads for the same reason.

**`Ssi`** models the read sets and flags of `SsiTxState`. An action is one critical
section of the `ssi` mutex or one B+tree access, so that *fetch row* / *note read* and
*tombstone row* / *note write* interleave. Items have one writer each, so only
rw-conflicts occur. Scans go through the table (`Relation` locks) or the index
(`IndexRange` and `Tuple` locks). An UPDATE leaves the key in its range or moves it to
another one (`key`), and `record_index_write` looks up the range of the new key only. The
history variables say which items nobody had written when a lock was taken (`early`),
and whose writer looked for readers between a reader's fetch and note (`overtaken`).

**`Pager`** models `storage/pager.rs` and `storage/wal.rs`: connections with a WAL file
each on one pool, one header (`SharedMeta`) and one database file. A page is the set of
rows that statements put on it, or a link of the free list. `ReadPage`, `WritePage`,
`AllocPage`, `FreePage` and the eviction or spill that they cause are the pool's critical
sections; a commit is flush, seal, apply page by page, header and reset under the apply
lock; a rollback drops dirty frames and resets the log. Crashes are a kill (files keep
every write) or a power failure (an unsynced record is kept, torn, or what was there
before); recovery replays each log up to its last seal and can itself be cut short.

**`BTree`** models `storage/btree.rs` and the pages of `storage/page.rs`. Cells have a
footprint; a large value moves to an overflow chain. Insertion with splits and deletion
with merges and root collapse are the source's recursive algorithms as operators on the
map of pages. Threads descend latch by latch, try the optimistic path, and restart
under the root gate; cursors hold no latch between leaves.

**`Constraints`** models INSERT, UPDATE and DELETE on three tables that refer to each
other, with the UNIQUE, NOT NULL and FOREIGN KEY checks on index entries, the recursive
delete actions, index maintenance, transactions with snapshots, the reclaimer, VACUUM
and CREATE/DROP TABLE. A statement is one step.

**`Session`** models the server's connection threads and `Database`: BEGIN, COMMIT and
ROLLBACK, auto-commit, failing statements, disconnects, the table lock, the three phases
of online CREATE INDEX, the sweep of partial indexes at open, DROP INDEX, ANALYZE (a
client's or the server's own), EXPLAIN, prepared statements with their schema version, and
the reclaimer. A schema change takes the steps it takes in the code: read the schema, free
pages or scan, put the schema (`Catalog::put`), raise the version
(`bump_schema_version`), commit. Only CREATE INDEX holds the table lock over the first
and the last phase; DROP INDEX, ANALYZE and a SELECT hold none. The history variable
`stale` says whether an ANALYZE or an INSERT has put back a schema that was not the
catalog's any more, and `created` what has become of the index CREATE INDEX made.

**`Parallel`** models the parallel scan and hash join: the decision to go parallel, the
split of the leaves, workers on bounded channels, the stream that drains the channels in
order, LIMIT and OFFSET, and the drop of the stream. A worker is named for the leaf at
which its range begins.

**`Joins`** models every join operator, row and batch, nested loop, index, hash and grace,
as one loop with what each keeps between two output batches. An index has entries for some
of the rows while CREATE INDEX fills it; the index join takes the first index that fits,
filled or not. The entries do not change while a join runs. **`Planner`** turns WHERE
clauses into index ranges and orders; **`Select`** extends it with the two pipelines of a
SELECT over one table, sorting with runs, and both aggregations. **`Values`** has the two
expression evaluators. **`Rewrites`** has the rewriting of EXISTS and IN into semi and
anti joins, the reordering of inner joins, and subqueries run once or per row.

The proofs are in modules of their own: **`ClogProofs`** about `Clog`, **`SsiProofs`**
about `Ssi`, **`MvccProofs`** and **`SnapshotProofs`** about `Mvcc`, **`SessionProofs`**
about `Session`, **`ConstraintsProofs`** about `Constraints`, **`PagerProofs`** about
`Pager`, **`ParallelProofs`** about `Parallel`.

The MC modules define inputs and workloads and the symmetry set. `MCStorage` puts
`Pager`, `BTree` and `Constraints` side by side and `MCEngine` puts `Session`, `Parallel`,
`Joins`, `Select`, `Values` and `Rewrites` side by side (inputs from `MCConstraints`,
`MCSession`, `MCJoins`, `MCQueries` and `MCRewrites`): `part` says whose behaviour it is. These modules share no
state at their level of abstraction, so interleaving them would add states and no
behaviour; each part's steps leave the others in an initial state.

## 3. Runs

| Run | Instance | Shows |
|---|---|---|
| `clog` | 3 writers, 3 IDs, no I/O error | `TypeOK`; `AckedIsDurable`: an Ok survives every crash and truncation; `NoRecordBelowFloor`; `ImplementsCommitLog`: the refinement of `CommitLog` |
| `clog_faults` | 2 writers, 2 IDs, 2 I/O errors, torn writes, fairness | `OneOutcome`, `VisibleIsDurable`, `SlotExclusive`, `AnswerIsFinal` (a reported outcome never changes, across reopens) and `AppendReturns` |
| `mvcc` | 2 sessions, 2 items, 3 transactions after the load; writers of different rows with rollbacks, restarts, reclaim passes and truncations; two writers of one row | `TypeOK`; `SnapshotStableAboveWatermark`; `UncontestedViewIsDb`: a fresh snapshot is the committed state, one version per row; `ConflictIsRealWhileUp`: no conflict is reported against a transaction that has ended |
| `ssi` | 2 transactions, 3 items (one inserted), table and index paths; inserts, deletes, updates that keep the key's range and updates that leave it | `TypeOK`, `EdgeMarked`, `LockCatchesWriter`, `PairIsBroken` |
| `storage` | the three parts below | `StorageTypeOK` and the parts' properties |
| ... pager | 2 connections, 5 pages, pool of 2 to 5, 3 statements, 2 crashes | `AckedRowsInFile`: rows of an acknowledged commit are in the file; `StatementAtomic`: an ended statement is there whole or not at all; `FreePagesHoldNothing` |
| ... tree | 2 threads, 5 keys, 4 operations, trees of up to three levels | `TreeShape`: depth, routing, leaf chain, no page lost or used twice; `TreeContents`; `ReadsSound`: searches and scans beside inserts |
| ... tables | 2 connections, 3 tables, all pairs of delete actions, 5 transactions | `EntriesMatchRows`, `UniqueKeys`, `DeleteKeepsReferences` |
| `engine` | the six parts below | `EngineTypeOK` and the parts' properties |
| ... session | 2 connections, 2 rows, 3 transaction IDs, 4 schema versions; CREATE INDEX beside INSERT, DROP INDEX, ANALYZE and prepared statements | `ReadyIndexComplete`, `IndexSurvives`, `InFlightIsOwned`, `AdmittedPlanFits`, and under fairness `DeadRowsReclaimed` |
| ... parallel | 3 workers, channels of 1, tables of up to 5 leaves | `SameAsSerial`, and under fairness `WorkersReturn` |
| ... join | every kind, predicate and operator on tables of up to 4 rows, with indexes ready, half filled, or both | `JoinAnswer` |
| ... select | both pipelines, with and without index, ORDER BY, LIMIT, OFFSET, groups | `SelectAnswer`, `GroupAnswer` |
| ... expr | expressions of both evaluators on batches with NULLs and selections | `ColumnarAgrees` |
| ... query | FROM lists and WHERE clauses with EXISTS, IN and scalar subqueries, qualified and bare names, names that two tables share | `RewriteKeepsAnswer` |

Six runs state what a comment or the repository's README says and find it violated
by the code (details and quotes under `findings` in `PROJECT.json`):

* `clog_lost_batch`, `AckedIsDurable` with one I/O error. The leader's batch, which
  holds a follower's record, is dropped when its write fails. The follower becomes
  leader with an empty queue, the empty write succeeds, and the follower is told Ok.
* `mvcc_lost_update`, `OneLiveVersion`. The conflict check reads the collected copy
  of the row and accepts a committed tombstone, so both updates succeed.
* `mvcc_reclaim`, `SnapshotStable`. The watermark ignores readers without an ID and
  snapshots that list an older writer as in flight; versions they need are removed.
* `mvcc_truncate`, `FreshViewIsDb`. Below the floor a rolled-back DELETE and the rows
  of a crashed transaction turn into committed ones.
* `ssi_skew`, `Serializable`. The flags of a transaction disappear with its commit, so
  a write skew whose second half reads later is not noticed.
* `pager_respill`, `AckedRowsInFile`. The flush of a commit skips every page it has
  spilled before, also one that was read back and written again: what was written
  after the eviction never reaches the WAL or the file.

Five further statements of comments fail as well. The passing runs check each of them with
its exception spelled out; the statement itself is a definition beside that property, and a
configuration of its own, which is not among the runs, makes TLC show the exception.

| Configuration | Statement | Property that holds | What happens |
|---|---|---|---|
| `MCSsiRange.cfg` of `MCSsi` | `LocksCatchAlike`: a range lock catches any write of a key in the range (`transaction.rs:386`) | `EdgeMarked`, `LockCatchesWriter` | A reader locks a range and fetches a row; an UPDATE moves the row out of the range and announces the new key only; the reader notes the read. Neither side finds the other. |
| `MCSessionSchema.cfg` of `MCSession` | `CreatedIndexKept`: ANALYZE serialises with other statements (`database.rs:1121`) | `IndexSurvives` | ANALYZE, which the server also runs by itself, reads the schema of an index that is being built and puts it back after CREATE INDEX has finished: the index counts as being built again and is dropped at the next open. |
| `MCSessionPlan.cfg` of `MCSession` | `AdmittedPlanIsValid`: an Execute that reads an old version runs a valid plan (`pager.rs:141`) | `AdmittedPlanFits` | Between the steps of DROP INDEX that free the pages, put the schema and raise the version, a prepared plan that uses the index passes the version check. |
| `MCJoinsBuilding.cfg` of `MCJoins` | `JoinIsSql`: an index being built is not read through (`planner.rs:446`, `schema.rs:123`) | `JoinAnswer` | The index join does not look at `is_building`: beside an online CREATE INDEX it loses the rows that have no entry yet. |
| `MCRewritesScope.cfg` of `MCRewrites` | `RewriteIsInvisible`: rewritten or not, correctness is the same (`planner.rs:716`) | `RewriteKeepsAnswer` | A bare name in a subquery's WHERE becomes ambiguous in the ON clause the WHERE turns into, if the outer table has that name too. |

**Bounds.** Two writers are enough for a leader with a follower, three for a
follower whose record is queued while a batch is being written and who then competes
with another; two failures are what it takes to fail both the reopen and the
recovery open of `truncate_below`. Three transactions after the load let a session
snapshot, a peer commit, and a third transaction run after a reclaim pass or a
restart. Two transactions make every pair of an rw-dependency; three items give each
reader something loaded and something inserted, and a range for a key to move to. Four
schema versions are what two schema changes of one connection and one of its peer raise.
Two crashes let the second one hit the
recovery from the first; a pool of two pages makes a statement of three spill. A tree
page has room for two cells, so that four or five keys need three levels and every
insert or delete is near a split or a merge; four operations empty a tree or grow a
level. Two rows per batch, a spill threshold of two and two hash partitions put a
boundary inside every table of three or four rows; a channel of one row blocks its
worker at the second. Integers are as wide as it takes for a sum of two or three to
overflow. The constants named `Max...` bound the counters and sit in the guards.

**Fairness.** `clog_faults`: weak fairness of each writer's steps inside `append` and of
the truncating reclaimer's steps. The code's threads run until they block on a mutex or
on `flush_done`, and file operations return; nothing else is assumed (not that clients
begin transactions, not that truncations start, and a crash or failure is never
obliged). The one wait without an end is excepted in `AppendReturns`: when both reopens
fail, the next leader panics with the slot taken. `SessionFairness`: server threads go
on with a statement they have begun, the reclaimer's loop comes round again, and, an
assumption about clients and not about the code, a client disconnects in the end;
`DeadRowsReclaimed` is claimed only where disconnecting is part of the workload and
crashes are not. `ParallelFairness`: workers run, and whoever has the stream pulls it to
its end and then drops it (`RowStream` is drained by the server's reply loop or dropped
with it).

**Deadlock** is checked in `clog`. The other instances may stop: all IDs used, all
transactions ended, a query answered, a slot lost to a panic, or a file that cannot be
opened.

**Mutants.** Each property of a passing run has a mutant next to the definition it
changes (`Watermark_Latest`, `Dead_AnyTombstone`, ...), a plausible bug under which TLC
finds the property violated.

## 4. Proofs

TLC checks small instances; the theorems below hold for every number of writers,
sessions, connections, transactions, items, keys, pages, workers, rows and crashes.
Constants are assumed to be what their names say (`ClogConstants`, `MvccConstants`,
`SsiConstants`, `SessionConstants`, `ConstraintConstants`, `PagerConstants`,
`ParallelConstants`: sets of actors finite where the code counts them, bounds naturals,
workloads of the right shape); TLC evaluates them in the runs.

Every proof has the same plan: an inductive invariant, one lemma per part or per action
that a step preserves it, and the property as its consequence. Each invariant was checked
by TLC before it was proved. Where the code keeps a property only in part of the
environments (section 5), the theorem carries that region as a hypothesis on the
workload, and the workloads of the runs lie in it unless noted.

| Module | Theorem | States | Hypothesis |
|---|---|---|---|
| `ClogProofs` | `TypeCorrect`, `SlotIsExclusive`, `FloorRespected`, `VisibilityFollowsDurability`, `OutcomeIsUnique` | `TypeOK`, `SlotExclusive`, `NoRecordBelowFloor`, `VisibleIsDurable`, `OneOutcome` | none |
| | `OkMeansDurable` | `AckedIsDurable` | `MaxIoErrors = 0` (`clog_lost_batch` shows why) |
| | `AnswersAreFinal` | `AnswerIsFinal` | none |
| | `ClogImplementsCommitLog` | `ImplementsCommitLog` | `MaxIoErrors = 0` |
| `SsiProofs` | `TypeCorrect` | `TypeOK` | none |
| | `EveryEdgeMarked`, `EveryLockCatches`, `EveryPairBroken` | `EdgeMarked`, `LockCatchesWriter`, `PairIsBroken` | none (the properties except the order of `MCSsiRange.cfg`) |
| `MvccProofs` | `TypeCorrect`, `ConflictsAreReal` | `TypeOK`, `ConflictIsRealWhileUp` | none |
| `SnapshotProofs` | `FreshSnapshotsShowDb`, `SnapshotsAreStable` | `UncontestedViewIsDb`, `SnapshotStableAboveWatermark` | `Known` |
| `SessionProofs` | `TypeCorrect` | `SessionTypeOK` | none |
| | `TransactionsAreOwned` | `InFlightIsOwned` | `ExplainApart` |
| | `CreatedIndexStays`, `AdmittedPlansFit` | `IndexSurvives`, `AdmittedPlanFits` | none (the properties except what `MCSessionSchema.cfg` and `MCSessionPlan.cfg` show) |
| | `ReadyIndexesAreComplete` | `ReadyIndexComplete` | `stale = {}`, `DropApart`, `FailApart` |
| `ConstraintsProofs` | `ConstraintTypeCorrect`, `IndexesMatchRows` | `ConstraintTypeOK`, `EntriesMatchRows` | none |
| | `KeysStayUnique` | `UniqueKeys` | `OneModifier` |
| | `ReferencesSurvive` | `DeleteKeepsReferences` | none (the property is about statements that run alone) |
| `PagerProofs` | `AcknowledgedRowsStay`, `StatementsAreAtomic` | `AckedRowsInFile`, `StatementAtomic` | `Sheltered` |
| `ParallelProofs` | `ParallelTypeCorrect`, `ParallelSameAsSerial` | `ParallelTypeOK`, `SameAsSerial` | none |

**`ClogProofs`.** The invariant `ClogInv` is a conjunction of

* `TypeInv`, types plus: a writer that is not idle owns an ID;
* `SlotExclusive` itself, which is inductive;
* `QueueInv`, a queued or drained record belongs to a writer still inside `append` with
  an LSN above the watermark. Without it nothing ties the queue to the in-flight set;
* `FloorInv`, the floor is at most every in-flight ID and every non-idle writer's ID is
  in flight and its own. With `QueueInv` this gives `NoRecordBelowFloor`;
* `VisibleInv`, the map agrees with the file also while a truncation is between its
  rename and its publication;
* `OutcomeInv`, a transaction that has not enqueued has no record anywhere, one inside
  `append` has none but its own.

For `OkMeansDurable` the invariant `AckInv` adds: a waiting writer's record is in
the file, in the batch with an LSN the leader will publish, or in the queue with a
higher one.

For the answers and the refinement, `MemoryFloorInv` (the floor in memory is never ahead of the file's)
makes answers final: a crash falls back on a file that says at least as much. Without I/O
errors `FloorsAgree` adds that the floors differ only between rename and publication.
The refinement maps the abstract outcome of a transaction to what the file says of
it: `SyncBatch` (or a crash that keeps part of a batch) decides a set of outcomes, the
rename raises the floor, an append that returns is the abstract answer, and everything
else stutters.

**`SsiProofs`.** `SsiInv` relates reader, writer and item. For an item that has been
written, `EdgeInv` says of each reader that has fetched, is about to note or has locked:
the edge is marked, or the reader already knows the writer and will mark it, or the writer
has still to look for this kind of lock (`WillMark`, `WillCatchScan`, `WillCatchRange`), or
the key has left the range. `LockInv` says that the lock comes before the fetch, `RangeInv`
that a row in a range that was locked before anybody wrote it is noted by the scan that
took the lock: so a write is found by the lock on the range its key stays in or comes to,
or by the tuple lock on the row it leaves. The one gap is a reader that fetched before the
tombstone and noted after the writer's last look (`overtaken`), when the new key is in
another range or there is none: `Missed`, which the properties except and `MCSsiRange.cfg`
reaches.

**`MvccProofs` and `SnapshotProofs`.** `BaseInv` holds in all workloads: types; the IDs in
flight are those of the sessions, and neither the watermark of a reclaim pass nor a
captured floor has passed one (`TxInv`); the counter in the header is above every stamp
in the file (`StampInv`, why a restart does not reuse a stamped ID); without crashes an ID
is in flight or has its outcome (`UpInv`). `SnapshotInv` adds, for uncontested items:
outcomes (`OutcomeInv`), the order of insert and delete stamps (`RowInv`), what `db` is in
terms of stamps (`HistoryInv`), one live version also for a transaction in the middle of
an UPDATE (`ItemInv`), what a statement's collected candidates still tell (`StatementInv`)
and the property itself (`StableInv`). The argument is that `visible` depends on a
snapshot only through the set of IDs it takes as committed; commits leave that set alone,
and a reclaim pass removes only rows whose deleter is in it. `Known` leaves
out what section 5 lists: truncation beside rollbacks or crashes, and IDs that never
reached the header beside crashes.

**`SessionProofs`.** `OwnerInv` and `IdInv` give each ID in flight exactly one
connection. `SchemaInv` says that once CREATE INDEX has made its index usable, every INSERT
between reading the schema and putting it back has read the index as usable: it holds the
table lock over both, so only an ANALYZE can put an older schema back. `PlanInv` says that a
plan of the current version was made from the index as it is, unless a schema change is
between its put and its bump (`Ahead`). `StaleGrows` says that `stale` never shrinks, which
is why `stale = {}` now speaks of the whole past.
`BuildInv` is the online build: a stored row is in the index, or its INSERT has
it to enter, or the builder has collected it or will still scan for it. That an INSERT
holds the table lock from planning to finish (`LockInv`), and phase 1 takes it exclusively,
is what makes INSERTs that overlap the scan maintain the index. `DropApart` is needed
because DROP INDEX frees pages that an INSERT is about to write, `FailApart` because the
builder reads uncommitted rows.

**`ConstraintsProofs`.** A statement goes through its rows one by one and a CASCADE runs a
statement for each, so a step of this model is a fold inside a fold inside a fold. `FoldIn`
is the rule all of them use: if every row leads from one set of results into the next, so
does the statement (`ForEach` is a recursive function; `SetInduction` as in
`ParallelProofs`). What is carried along is `Fits`: the row IDs are unique and below the
next one, each index has the entries of the stored versions, stamps are IDs that exist,
and two versions of one key stay apart. A statement may also fail in the middle: its result
is then dropped (`RunCases`), whatever the state it had reached.

`UniqueKeys` needs more than the check of the code, because an UPDATE that keeps its key
does not look at the index at all. The invariant is `KeysApart`: of two stored versions with
one key, one was inserted by a transaction that rolled back, or every view, of a
running transaction or a new one, that sees the insert of the one sees the deletion of the
other; and where nothing is updated, no two versions share a key. `LastOfKey` is the core: a version the
statement sees and may tombstone is the last of its key, so the new version follows all of
them. That holds if every tombstone in the table is the view's own or from before its
snapshot (`Owners`), which is what `OneModifier` gives: the rows of a table that is updated
are modified over one connection, whatever the others insert, and tables that are not
updated are deleted from over any number of connections. `mvcc_lost_update` shows that
it cannot be left out: an UPDATE over another connection that committed after the snapshot leaves two
live versions of the row. `EndKeepsKeys` and `BeginKeepsKeys` show that the end of a
transaction and a new snapshot do not tell a view of an insert before the deletion it follows.

`DeleteKeepsReferences` compares what a fresh snapshot shows before and after a whole
statement. `Swept` says how far a DELETE has come after each of its rows: no reference is new,
none has lost its parent (`Kept`), and the rows so far are gone. The order of the code is
what makes it hold: a row is marked only when the actions on its children are through
(`FinishKeeps`), and by then nothing refers to its key, because the cascade has removed
what did (`SweptUnreferred`), SET NULL has cleared it (`SetNullSweeps`) or the scan has
found nothing (`ScanFinds`, through the index or without it). `LoopSweeps` is the same for the
three levels of the cascade. An UPDATE loses a key only if nothing refers to it
(`UpdateRowStays`). The invariant `RefInv` is that references stand only in tables
that exist, since the checks skip a child that does not; `StatementSight` relates
the view of a statement to the fresh snapshots before and after it.

**`PagerProofs`.** `Sheltered` is: the pool holds every page there can be, so nothing is
evicted or spilled; no page is freed; where statements roll back or the process may stop,
connections write disjoint pages that exist from the start; where it may stop, nothing is
allocated. The workloads `SharedPages`, `OwnPages` and `Allocating` of `MCStorage` are in
it; the spilling and freeing ones are not and stay with TLC. `AllInv` follows a statement through
`commit_apply`. Its log is empty until the flush (`LogInv`); under the apply lock (`LockInv`)
the rows of a page in the file are among those of its image in the log and those among
the pool's (`ChainInv`), so applying never takes a row away; a statement on its way has
its rows in the pool, from its flush on in the log and after its apply in the file
(`ExecInv`); an ended one is wholly in the file or in a log that recovery will replay, or
wholly out of file, pool and logs (`EndInv`). A crash keeps the file and, of each log, a
prefix that is either sealed or skipped; recovery of one log does not disturb another
because their pages are disjoint (`PageInv`). `Survivors` and `CopyEffect` are the two
lemmas the crash and the replay rest on.

**`ParallelProofs`.** What the stream has given is compared with a fold over all leaves, so
this proof needs induction over data. The library's induction theorems cannot be
instantiated; `SetInduction` states induction for a set of naturals instead (from the
least element of its complement), and each use names the set. The fold is a
recursive function: `FlatSteps` gives its equation (by existence and uniqueness of
the fixpoint) and `FlatBlock` where the rows of a leaf lie in the serial answer. `Chunks`,
`NextWorkers` and `Ranges` show that the ranges of the workers adjoin and cover
every leaf once, whatever the numbers of leaves and workers. The invariant `AnswerInv` then
speaks of positions in the serial answer: `Given` is where a worker has got to, `Taken`
where the stream has, and a channel from the current one on holds exactly the rows
between the two (`ChannelOK`); what the stream has skipped and emitted is the prefix up to
`Taken` (`StreamOK`). A worker that has returned came to the end of its range, and there
the next range begins: so moving on to the next channel loses and repeats nothing.

**Only model-checked.**

* Liveness (`AppendReturns`, `DeadRowsReclaimed`, `WorkersReturn`): out of the prover's
  reach.
* `BTree`, `Select`, `Values`, `Rewrites`: they follow the recursion of the source with
  RECURSIVE operators.
* `FreePagesHoldNothing`: the free list is a chain of pages, so what is on it needs
  induction along the chain; without freed pages (`Sheltered`) the chain is empty and
  the property says nothing.
* The pager's properties with evictions and spills (`Spilling`) and with freed pages.
* `JoinAnswer`: the reference is a fold over both tables, and the operators keep a position
  in each; it needs the induction of `ParallelProofs` twice, nested.
* `StorageTypeOK` and `EngineTypeOK` as a whole, because they include parts above.

## 5. Not modelled, and known gaps

Not modelled: the SQL front end, parameter binding, the wire protocol, the client and
the formatting of EXPLAIN (string processing and I/O without state of their own); the
bytes of rows, keys and schemas (only the order of keys is used); histograms; `replace_with`
at the end of VACUUM, the shards of the pool and the removal of a log when its pager is
dropped; I/O errors of the pager and of spill files; column headers.

Each workload states a region in which the code keeps the property. Outside it the
code gives no such guarantee; each of these is a note of a hazard in `PROJECT.json`:

* *Commit log and transactions.* `Clog` never reuses an ID; `Mvcc` shows where the counter
  lags: a transaction that dirtied nothing leaves the header behind, its ID is used
  again after a restart and already has an outcome (event `empty` is left out of
  restarting workloads). With `TornWrites`, `Clog` reaches files that `Open` cannot read.
  After a restart a row tombstoned by the lost transaction reports a write-write
  conflict for ever. A rename without a directory fsync is taken as durable. The row
  writes of one statement are one step in `Mvcc`.
* *SSI.* No edge is marked when a table scan starts after the peer's tombstone, when any
  scan starts after the peer's INSERT, or when an index scan fetches before and notes
  after a peer's DELETE or an UPDATE that takes the key out of the scanned range
  (`MCSsiRange.cfg`; index entries are announced for the new key only). `EdgeMarked` and
  `PairIsBroken` are stated for rows that `record_read` has noted and for what was locked
  before it was written, and except that last order. `IndexNestedLoopJoin::lookup` notes no
  read of the inner table at all; joins are not among the scans of `Ssi`.
* *Pager.* Crashes are checked for connections that write different pages: a kill after a
  peer committed to the same pages replays the older log over the newer pages, and one
  after an allocation leaves rows beyond the header's page count. A rollback after
  `free_page` leaves the shared list on a page still in use. With two writers a spill can
  go to the log of a peer's statement.
* *B+tree.* Cursors are checked beside inserts: a delete that merges the leaf a cursor is
  about to enter, or frees the chain it is about to read, disturbs it.
* *Constraints.* Two statements that run at once can both pass a UNIQUE check; a child
  inserted in one transaction while another deletes its parent is left without it; a scan
  without the table lock can meet an entry whose row is being reclaimed. VACUUM is
  modelled without open transactions beside it.
* *Session.* DROP INDEX and ANALYZE take no table lock. An ANALYZE, the server's own
  included, that reads the schema before a change puts the old one back
  (`MCSessionSchema.cfg`: a finished index is being built again); an INSERT or ANALYZE that
  read the schema before a DROP puts the index back. Between put and bump of a change a
  plan of the old schema passes as fresh (`MCSessionPlan.cfg`), and so does one stamped
  after a change that happened while it was made. EXPLAIN over the server keeps a
  transaction until the connection's next writing statement; a BEGIN before that overwrites
  it and it stays in flight. The builder of an index reads rows of statements that may
  still fail: beside a failing INSERT it may enter a row that is then taken back. The
  process does not end in the model while a DROP INDEX or ANALYZE is under way. "Usable" is
  meant for `choose_access`: an index join uses an index that is being built as well.
* *Queries.* A parallel worker that fails ends its channel as if it were done, and a
  subquery or alias in WHERE makes the rows of a parallel scan fail silently. Arithmetic
  on a bare NULL literal fails in a batch and is NULL in a row. NOT IN over a NOT NULL
  column becomes an anti join that keeps an outer NULL. A reordered `SELECT *` changes its
  column order. An index join beside CREATE INDEX misses rows (`MCJoinsBuilding.cfg`):
  `JoinAnswer` claims SQL's answer if the rows the snapshot sees have entries, and
  otherwise only that an inner join returns rows of that answer, each once. A rewritten
  EXISTS or IN fails on a bare name that the subquery's table shares with an outer one
  (`MCRewritesScope.cfg`), and a bare column left of IN is taken for one of the first table in
  FROM: if another table has it the query fails, if several have it the query runs although
  the name is ambiguous. `RewriteKeepsAnswer` excepts these and nothing else. Subqueries are
  not nested in one another.

## 6. Plan

The model is complete along the first plan, and the central theorems are proved. Left to
prove, in this order:

1. `Pager`: one writer with spills, and what a rollback does to pages allocated from the
   free list;
2. `Joins`: the induction of `ParallelProofs` over the pairs of rows, and what is kept
   between two output batches;
3. `Planner`: lemmas about key ranges.

`Pager`, `Joins` and `Planner` reach no RECURSIVE operator.
