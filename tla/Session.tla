------------------------------- MODULE Session ------------------------------
(***************************************************************************)
(* Connections and the statements they run: the server's serve_client and  *)
(* run_write (prehnited/src/lib.rs), Database (engine/database.rs), the    *)
(* classification of statements (lib.rs) and the catalog.                  *)
(*                                                                         *)
(* There is one table, with the rows Rows and at most one secondary index. *)
(* A writing statement holds the table lock shared; CREATE INDEX takes it  *)
(* exclusively in its first and last phase; SELECT, DROP INDEX and ANALYZE *)
(* take none.  Every statement reads the table's schema at its start, a    *)
(* writing one puts that schema back at its end, and DDL then raises the   *)
(* schema version: a step of its own each, because readers and statements  *)
(* without a lock come in between.                                         *)
(***************************************************************************)
EXTENDS Integers, FiniteSets, FiniteSetsExt

CONSTANTS
    Conns,              \* connections
    Rows,               \* the rows that statements may insert
    MaxTxNo,            \* bound on transaction IDs
    MaxVersion,         \* bound on schema versions
    SessionWorkloads    \* per workload: what each connection asks for, and what
                        \* else may happen

Requests == {"begin", "select", "explain", "insert", "create_index", "drop_index",
             "analyze", "prepare_select", "prepare_insert"}
Incidents == {"fail", "crash", "close"}

ASSUME SessionConstants ==
    /\ IsFiniteSet(Conns) /\ MaxTxNo \in Nat /\ MaxVersion \in Nat
    /\ SessionWorkloads \subseteq [asks : [Conns -> SUBSET Requests],
                                   incidents : SUBSET Incidents]

VARIABLES
    session_load,       \* the workload, chosen once
    \* shared: TxState, SharedMeta, the catalog and the pages
    next_tx, in_flight, outcome,
    schema_version,
    index,              \* the index's entry in the catalog
    index_entries,      \* the rows the index's B+tree holds
    table_rows,         \* the rows of the table, with their tx_min (0: none)
    shared,             \* who holds the table lock shared
    \* per connection: Database
    txn, current_tx, prepared,
    step,               \* what its statement does next
    schema_seen,        \* the index as the statement's schema has it
    scanned,            \* rows that phase 2 still has to enter
    \* history
    created,            \* CREATE INDEX has made its index usable ("yes"), and no DROP
                        \* INDEX has taken it away since; "overwritten" once ANALYZE has
                        \* put back a schema from another time
    stale               \* the kinds of statements that ever put back a schema that was
                        \* not the catalog's any more

coordinator == <<next_tx, in_flight, outcome>>
tableVars   == <<schema_version, index, index_entries, table_rows>>
connVars    == <<txn, current_tx, prepared, step, schema_seen, scanned>>
history     == <<created, stale>>
sessionVars == <<session_load, coordinator, tableVars, shared, connVars, history>>

TxNo == 1..MaxTxNo
IndexStates == {"absent", "building", "ready"}
NoPlan == [kind |-> "none", version |-> 0, index |-> "absent", raced |-> FALSE]

SessionTypeOK ==
    /\ session_load \in SessionWorkloads
    /\ next_tx \in 1..(MaxTxNo + 1) /\ in_flight \subseteq 1..(next_tx - 1)
    /\ outcome \in [TxNo -> {"none", "committed", "rolled_back"}]
    /\ schema_version \in 0..MaxVersion
    /\ index \in IndexStates /\ index_entries \subseteq Rows
    /\ table_rows \in [Rows -> 0..MaxTxNo]
    /\ shared \subseteq Conns
    /\ txn \in [Conns -> {"none", "open", "aborted"}]
    /\ current_tx \in [Conns -> 0..MaxTxNo]
    /\ prepared \in [Conns -> [kind : {"none", "select", "insert"},
                               version : 0..MaxVersion, index : IndexStates,
                               raced : BOOLEAN]]
    /\ step \in [Conns -> {"idle", "stream", "plan", "write", "enter", "finish",
                           "phase1", "published", "scan", "fill", "finalize", "flip",
                           "usable", "drop", "dropped", "analyze", "analyzed", "stamp",
                           "closed"}]
    /\ schema_seen \in [Conns -> IndexStates]
    /\ scanned \in [Conns -> SUBSET Rows]
    /\ created \in {"no", "yes", "overwritten"} /\ stale \subseteq {"analyze", "insert"}

SessionInit ==
    /\ session_load \in SessionWorkloads
    /\ next_tx = 1 /\ in_flight = {} /\ outcome = [t \in TxNo |-> "none"]
    /\ schema_version = 0 /\ index = "absent" /\ index_entries = {}
    /\ table_rows = [r \in Rows |-> 0]
    /\ shared = {}
    /\ txn = [c \in Conns |-> "none"]
    /\ current_tx = [c \in Conns |-> 0]
    /\ prepared = [c \in Conns |-> NoPlan]
    /\ step = [c \in Conns |-> "idle"]
    /\ schema_seen = [c \in Conns |-> "absent"]
    /\ scanned = [c \in Conns |-> {}]
    /\ created = "no" /\ stale = {}

Goes(c, where) == step' = [step EXCEPT ![c] = where]
Asks(c, request) == step[c] = "idle" /\ request \in session_load.asks[c]
May(incident) == incident \in session_load.incidents
Stored == {r \in Rows : table_rows[r] # 0}

\* The table lock: the steps that hold it exclusively, whether a connection may take it
\* shared, and whether it may take it exclusively.
Exclusive == {"phase1", "published", "flip", "usable"}
NotExclusive == \A c \in Conns : step[c] \notin Exclusive
Unused == shared = {} /\ NotExclusive

-----------------------------------------------------------------------------
(* Transactions *)

\* TxState::commit_write and rollback_write: the verdict reaches the commit log and
\* the transaction leaves the in-flight set.
EndTx(tx, verdict) ==
    /\ in_flight' = in_flight \ {tx}
    /\ outcome' = IF tx = 0 THEN outcome ELSE [outcome EXCEPT ![tx] = verdict]
    /\ UNCHANGED next_tx

\* Bound: an ID is left for c besides those that statements being planned will take.
FreshId(c) ==
    next_tx + Cardinality({d \in Conns \ {c} : step[d] = "plan" /\ current_tx[d] = 0})
      <= MaxTxNo
IdLeft(c) == current_tx[c] # 0 \/ FreshId(c)

\* Database::ensure_write_tx.
EnsureTx(c) ==
    IF current_tx[c] # 0 THEN UNCHANGED <<coordinator, current_tx>>
    ELSE /\ next_tx <= MaxTxNo
         /\ next_tx' = next_tx + 1
         /\ in_flight' = in_flight \cup {next_tx}
         /\ current_tx' = [current_tx EXCEPT ![c] = next_tx]
         /\ UNCHANGED outcome

\* Mutant: BEGIN does not advance the counter.
BeginTx_ReusesId(c) ==
    /\ Asks(c, "begin") /\ txn[c] = "none" /\ FreshId(c)
    /\ in_flight' = in_flight \cup {next_tx}
    /\ current_tx' = [current_tx EXCEPT ![c] = next_tx]
    /\ txn' = [txn EXCEPT ![c] = "open"]
    /\ UNCHANGED <<session_load, next_tx, outcome, tableVars, shared, prepared, step,
                   schema_seen, scanned, history>>

\* BEGIN reserves the transaction's ID at once, in place of one that EXPLAIN left.
BeginTx(c) ==
    /\ Asks(c, "begin") /\ txn[c] = "none" /\ FreshId(c)
    /\ next_tx' = next_tx + 1
    /\ in_flight' = in_flight \cup {next_tx}
    /\ current_tx' = [current_tx EXCEPT ![c] = next_tx]
    /\ txn' = [txn EXCEPT ![c] = "open"]
    /\ UNCHANGED <<session_load, outcome, tableVars, shared, prepared, step,
                   schema_seen, scanned, history>>

\* COMMIT, and ROLLBACK.  ssi_check_commit may turn a COMMIT down; one on an aborted
\* transaction rolls it back.
EndTransaction(c, verdict) ==
    /\ step[c] = "idle" /\ txn[c] # "none"
    /\ verdict = "committed" => txn[c] = "open"
    /\ EndTx(current_tx[c], verdict)
    /\ current_tx' = [current_tx EXCEPT ![c] = 0]
    /\ txn' = [txn EXCEPT ![c] = "none"]
    /\ UNCHANGED <<session_load, tableVars, shared, prepared, step, schema_seen,
                   scanned, history>>

\* Mutant: the connection closes with its transaction open.
Disconnect_Forgets(c) ==
    /\ May("close") /\ step[c] \in {"idle", "stream"}
    /\ current_tx' = [current_tx EXCEPT ![c] = 0]
    /\ txn' = [txn EXCEPT ![c] = "none"]
    /\ prepared' = [prepared EXCEPT ![c] = NoPlan]
    /\ Goes(c, "closed")
    /\ UNCHANGED <<session_load, coordinator, tableVars, shared, schema_seen, scanned,
                   history>>

\* The socket closes, or a reply cannot be sent: abort_transaction if one is open.
Disconnect(c) ==
    /\ May("close") /\ step[c] \in {"idle", "stream"}
    /\ IF txn[c] # "none"
         THEN /\ EndTx(current_tx[c], "rolled_back")
              /\ current_tx' = [current_tx EXCEPT ![c] = 0]
         ELSE UNCHANGED <<coordinator, current_tx>>
    /\ txn' = [txn EXCEPT ![c] = "none"]
    /\ prepared' = [prepared EXCEPT ![c] = NoPlan]
    /\ Goes(c, "closed")
    /\ UNCHANGED <<session_load, tableVars, shared, schema_seen, scanned, history>>

-----------------------------------------------------------------------------
(* Reading statements *)

\* SELECT: no lock, no transaction of its own; the rows follow.
RunSelect(c) ==
    /\ Asks(c, "select") /\ txn[c] # "aborted"
    /\ Goes(c, "stream")
    /\ schema_seen' = [schema_seen EXCEPT ![c] = index]
    /\ UNCHANGED <<session_load, coordinator, tableVars, shared, txn, current_tx,
                   prepared, scanned, history>>

\* EXPLAIN: plan_writes holds for it, and run_plan_streaming ends the transaction only
\* of statements that answer with an acknowledgement.
Explain(c) ==
    /\ Asks(c, "explain") /\ txn[c] # "aborted"
    /\ IdLeft(c) /\ EnsureTx(c)
    /\ Goes(c, "stream")
    /\ UNCHANGED <<session_load, tableVars, shared, txn, prepared, schema_seen, scanned,
                   history>>

\* stream_next reaches the end of the rows, or fails and aborts an open transaction.
EndStream(c) ==
    /\ step[c] = "stream"
    /\ Goes(c, "idle")
    /\ txn' \in {txn} \cup {[txn EXCEPT ![c] = IF @ = "open" THEN "aborted" ELSE @]
                              : f \in {i \in {"fail"} : May(i)}}
    /\ UNCHANGED <<session_load, coordinator, tableVars, shared, current_tx, prepared,
                   schema_seen, scanned, history>>

-----------------------------------------------------------------------------
(* INSERT *)

\* run_write: a writing statement takes the table lock shared.
StartInsert(c) ==
    /\ Asks(c, "insert") /\ txn[c] # "aborted" /\ IdLeft(c) /\ NotExclusive
    /\ shared' = shared \cup {c}
    /\ Goes(c, "plan")
    /\ UNCHANGED <<session_load, coordinator, tableVars, txn, current_tx,
                   prepared, schema_seen, scanned, history>>

\* The statement gets its transaction and reads the schema.
ReadSchema(c) ==
    /\ step[c] = "plan" /\ EnsureTx(c)
    /\ schema_seen' = [schema_seen EXCEPT ![c] = index]
    /\ Goes(c, "write")
    /\ UNCHANGED <<session_load, tableVars, shared, txn, prepared, scanned, history>>

\* insert: the row goes to the table ...
WriteRow(c, r) ==
    /\ step[c] = "write" /\ table_rows[r] = 0
    /\ table_rows' = [table_rows EXCEPT ![r] = current_tx[c]]
    /\ scanned' = [scanned EXCEPT ![c] = {r}]
    /\ Goes(c, "enter")
    /\ UNCHANGED <<session_load, coordinator, schema_version, index, index_entries, shared,
                   txn, current_tx, prepared, schema_seen, history>>

\* Catalog::put of the schema that c's statement has read.
PutBack(c, kind) ==
    /\ index' = schema_seen[c]
    /\ stale' = IF schema_seen[c] = index THEN stale ELSE stale \cup {kind}

\* Mutant: an index that is being built is not maintained.
EnterRow_SkipsBuilding(c) ==
    /\ step[c] = "enter"
    /\ index_entries' = IF schema_seen[c] = "ready" THEN index_entries \cup scanned[c]
                        ELSE index_entries
    /\ Goes(c, "finish")
    /\ UNCHANGED <<session_load, coordinator, schema_version, index, table_rows, shared, txn,
                   current_tx, prepared, schema_seen, scanned, history>>

\* ... and to every index of the schema that was read (index_insert_row), then that
\* schema is put back.
EnterRow(c) ==
    /\ step[c] = "enter"
    /\ index_entries' = IF schema_seen[c] # "absent" THEN index_entries \cup scanned[c]
                        ELSE index_entries
    /\ PutBack(c, "insert")
    /\ Goes(c, "finish")
    /\ UNCHANGED <<session_load, coordinator, schema_version, table_rows, shared, txn,
                   current_tx, prepared, schema_seen, scanned, created>>

\* run_plan: the pages are committed and, outside a transaction, so is the statement,
\* unless ssi_check_commit turns it down.  The lock is released.
FinishInsert(c, verdict) ==
    /\ step[c] = "finish"
    /\ IF txn[c] = "none"
         THEN /\ EndTx(current_tx[c], verdict)
              /\ current_tx' = [current_tx EXCEPT ![c] = 0]
         ELSE verdict = "committed" /\ UNCHANGED <<coordinator, current_tx>>
    /\ shared' = shared \ {c}
    /\ scanned' = [scanned EXCEPT ![c] = {}]
    /\ Goes(c, "idle")
    /\ UNCHANGED <<session_load, tableVars, txn, prepared, schema_seen,
                   history>>

\* A failing statement: its pages are dropped, its transaction is rolled back, and an
\* open transaction is aborted.
FailInsert(c) ==
    /\ May("fail") /\ step[c] \in {"write", "enter"}
    /\ table_rows' = [r \in Rows |-> IF r \in scanned[c] THEN 0 ELSE table_rows[r]]
    /\ EndTx(current_tx[c], "rolled_back")
    /\ current_tx' = [current_tx EXCEPT ![c] = 0]
    /\ txn' = [txn EXCEPT ![c] = IF @ = "open" THEN "aborted" ELSE @]
    /\ shared' = shared \ {c}
    /\ scanned' = [scanned EXCEPT ![c] = {}]
    /\ Goes(c, "idle")
    /\ UNCHANGED <<session_load, schema_version, index, index_entries, prepared,
                   schema_seen, history>>

-----------------------------------------------------------------------------
(* CREATE INDEX, DROP INDEX, ANALYZE *)

\* Bound: every schema change that has begun, and c's, has a version left.
Changing == Exclusive \cup {"drop", "dropped", "analyze", "analyzed"}
VersionLeft(c) ==
    schema_version + Cardinality({d \in Conns \ {c} : step[d] \in Changing}) < MaxVersion

\* SharedMeta::bump_schema_version.
Bump == schema_version < MaxVersion /\ schema_version' = schema_version + 1

\* The catalog has the new schema and the version is still the old one.
Unannounced == {"published", "usable", "dropped", "analyzed"}

\* create_index_online, phase 1, takes the lock exclusively ...
CreateIndex(c) ==
    /\ Asks(c, "create_index") /\ txn[c] = "none" /\ Unused /\ index = "absent"
    /\ VersionLeft(c)
    /\ Goes(c, "phase1")
    /\ UNCHANGED <<session_load, coordinator, tableVars, shared, txn, current_tx, prepared,
                   schema_seen, scanned, history>>

\* ... puts an empty index into the catalog, which peers maintain from now on and the
\* planner does not use ...
PublishIndex(c) ==
    /\ step[c] = "phase1"
    /\ index' = "building" /\ index_entries' = {}
    /\ Goes(c, "published")
    /\ UNCHANGED <<session_load, coordinator, schema_version, table_rows, shared, txn,
                   current_tx, prepared, schema_seen, scanned, history>>

\* ... raises the version, commits, and releases the lock.
EndPhase1(c) ==
    /\ step[c] = "published" /\ Bump
    /\ Goes(c, "scan")
    /\ UNCHANGED <<session_load, coordinator, index, index_entries, table_rows, shared, txn,
                   current_tx, prepared, schema_seen, scanned, history>>

\* Phase 2, under the shared lock: the rows of the table are collected ...
ScanTable(c) ==
    /\ step[c] = "scan" /\ NotExclusive
    /\ shared' = shared \cup {c}
    /\ scanned' = [scanned EXCEPT ![c] = Stored]
    /\ Goes(c, "fill")
    /\ UNCHANGED <<session_load, coordinator, tableVars, txn, current_tx,
                   prepared, schema_seen, history>>

\* ... and entered one by one unless a peer did (insert_if_absent).
FillRow(c, r) ==
    /\ step[c] = "fill" /\ r \in scanned[c]
    /\ index_entries' = index_entries \cup {r}
    /\ scanned' = [scanned EXCEPT ![c] = @ \ {r}]
    /\ UNCHANGED <<session_load, coordinator, schema_version, index, table_rows, shared, txn,
                   current_tx, prepared, step, schema_seen, history>>

Filled(c) ==
    /\ step[c] = "fill" /\ scanned[c] = {}
    /\ shared' = shared \ {c}
    /\ Goes(c, "finalize")
    /\ UNCHANGED <<session_load, coordinator, tableVars, txn, current_tx,
                   prepared, schema_seen, scanned, history>>

\* Mutant: the last phase takes the lock shared.
FinalizeIndex_Shared(c) ==
    /\ step[c] = "finalize" /\ VersionLeft(c)
    /\ schema_seen' = [schema_seen EXCEPT ![c] = index]
    /\ Goes(c, IF index = "absent" THEN "idle" ELSE "flip")
    /\ UNCHANGED <<session_load, coordinator, tableVars, shared, txn, current_tx, prepared,
                   scanned, history>>

\* Phase 3 takes the lock exclusively and reads the schema; an index that has gone is an
\* error.  ...
FinalizeIndex(c) ==
    /\ step[c] = "finalize" /\ Unused /\ VersionLeft(c)
    /\ schema_seen' = [schema_seen EXCEPT ![c] = index]
    /\ Goes(c, IF index = "absent" THEN "idle" ELSE "flip")
    /\ UNCHANGED <<session_load, coordinator, tableVars, shared, txn, current_tx, prepared,
                   scanned, history>>

\* ... The schema is put back with the index marked usable ...
FlipBuilding(c) ==
    /\ step[c] = "flip"
    /\ index' = "ready" /\ created' = "yes"
    /\ Goes(c, "usable")
    /\ UNCHANGED <<session_load, coordinator, schema_version, index_entries, table_rows,
                   shared, txn, current_tx, prepared, schema_seen, scanned, stale>>

\* ... the version is raised, the pages are committed and the lock is released.
EndPhase3(c) ==
    /\ step[c] = "usable" /\ Bump
    /\ Goes(c, "idle")
    /\ UNCHANGED <<session_load, coordinator, index, index_entries, table_rows, shared, txn,
                   current_tx, prepared, schema_seen, scanned, history>>

\* drop_index, without a lock, as a statement of its own: the schema is read and the
\* index's pages are freed ...
DropIndex(c) ==
    /\ Asks(c, "drop_index") /\ txn[c] = "none" /\ index # "absent"
    /\ VersionLeft(c) /\ IdLeft(c) /\ EnsureTx(c)
    /\ index_entries' = {}
    /\ Goes(c, "drop")
    /\ UNCHANGED <<session_load, schema_version, index, table_rows, shared, txn, prepared,
                   schema_seen, scanned, history>>

\* ... the schema is put back without it ...
TakeAway(c) ==
    /\ step[c] = "drop"
    /\ index' = "absent" /\ created' = "no"
    /\ Goes(c, "dropped")
    /\ UNCHANGED <<session_load, coordinator, schema_version, index_entries, table_rows,
                   shared, txn, current_tx, prepared, schema_seen, scanned, stale>>

\* Mutant: DROP INDEX leaves the schema version alone.
EndDrop_NoBump(c) ==
    /\ step[c] = "dropped"
    /\ EndTx(current_tx[c], "committed")
    /\ current_tx' = [current_tx EXCEPT ![c] = 0]
    /\ Goes(c, "idle")
    /\ UNCHANGED <<session_load, tableVars, shared, txn, prepared, schema_seen, scanned,
                   history>>

\* ... the version is raised, and the statement commits.
EndDrop(c) ==
    /\ step[c] = "dropped" /\ Bump
    /\ EndTx(current_tx[c], "committed")
    /\ current_tx' = [current_tx EXCEPT ![c] = 0]
    /\ Goes(c, "idle")
    /\ UNCHANGED <<session_load, index, index_entries, table_rows, shared, txn, prepared,
                   schema_seen, scanned, history>>

\* ANALYZE, a client's or auto_analyze_pass's, without a lock: the schema is read, the
\* table scanned ...
Analyze(c) ==
    /\ Asks(c, "analyze") /\ txn[c] = "none"
    /\ VersionLeft(c) /\ IdLeft(c) /\ EnsureTx(c)
    /\ schema_seen' = [schema_seen EXCEPT ![c] = index]
    /\ Goes(c, "analyze")
    /\ UNCHANGED <<session_load, tableVars, shared, txn, prepared, scanned, history>>

\* ... the schema put back with its statistics ...
PutStatistics(c) ==
    /\ step[c] = "analyze" /\ PutBack(c, "analyze")
    /\ created' = IF created = "yes" /\ schema_seen[c] # index THEN "overwritten" ELSE created
    /\ Goes(c, "analyzed")
    /\ UNCHANGED <<session_load, coordinator, schema_version, index_entries, table_rows,
                   shared, txn, current_tx, prepared, schema_seen, scanned>>

\* ... the version raised, and the statement commits.
EndAnalyze(c) ==
    /\ step[c] = "analyzed" /\ Bump
    /\ EndTx(current_tx[c], "committed")
    /\ current_tx' = [current_tx EXCEPT ![c] = 0]
    /\ Goes(c, "idle")
    /\ UNCHANGED <<session_load, index, index_entries, table_rows, shared, txn, prepared,
                   schema_seen, scanned, history>>

-----------------------------------------------------------------------------
(* Prepared statements *)

\* Database::prepare: the plan is made from the catalog as it is now ...
Prepare(c, kind) ==
    /\ Asks(c, IF kind = "select" THEN "prepare_select" ELSE "prepare_insert")
    /\ prepared' = [prepared EXCEPT ![c] = [kind |-> kind, version |-> schema_version,
                                            index |-> index, raced |-> FALSE]]
    /\ Goes(c, "stamp")
    /\ UNCHANGED <<session_load, coordinator, tableVars, shared, txn, current_tx,
                   schema_seen, scanned, history>>

\* ... and stamped with the schema version read afterwards.
StampPlan(c) ==
    /\ step[c] = "stamp"
    /\ prepared' = [prepared EXCEPT ![c].version = schema_version,
                                    ![c].raced = prepared[c].version # schema_version]
    /\ Goes(c, "idle")
    /\ UNCHANGED <<session_load, coordinator, tableVars, shared, txn, current_tx,
                   schema_seen, scanned, history>>

\* take_fresh_prepared_plan: a plan with another version is dropped, with an error.
StalePlan(c) ==
    /\ step[c] = "idle" /\ txn[c] # "aborted"
    /\ prepared[c].kind # "none" /\ prepared[c].version # schema_version
    /\ prepared' = [prepared EXCEPT ![c] = NoPlan]
    /\ UNCHANGED <<session_load, coordinator, tableVars, shared, txn, current_tx, step,
                   schema_seen, scanned, history>>

\* Execute of a fresh plan: a SELECT streams, an INSERT takes the lock first.
ExecutePrepared(c) ==
    /\ step[c] = "idle" /\ txn[c] # "aborted"
    /\ prepared[c].kind # "none" /\ prepared[c].version = schema_version
    /\ IF prepared[c].kind = "select"
         THEN Goes(c, "stream") /\ UNCHANGED shared
         ELSE IdLeft(c) /\ NotExclusive /\ shared' = shared \cup {c} /\ Goes(c, "plan")
    /\ schema_seen' = [schema_seen EXCEPT ![c] = prepared[c].index]
    /\ UNCHANGED <<session_load, coordinator, tableVars, txn, current_tx,
                   prepared, scanned, history>>

Deallocate(c) ==
    /\ step[c] = "idle" /\ prepared[c].kind # "none"
    /\ prepared' = [prepared EXCEPT ![c] = NoPlan]
    /\ UNCHANGED <<session_load, coordinator, tableVars, shared, txn, current_tx, step,
                   schema_seen, scanned, history>>

-----------------------------------------------------------------------------
(* The reclaimer and restarts *)

\* oldest_active_tx_id.
Watermark == IF in_flight = {} THEN next_tx ELSE Min(in_flight)
DeadRows == {r \in Stored : table_rows[r] < Watermark /\ outcome[table_rows[r]] = "rolled_back"}

\* reclaim_dead_rows, one pass over the table under its exclusive lock.
ReclaimRows ==
    /\ Unused /\ DeadRows # {}
    /\ table_rows' = [r \in Rows |-> IF r \in DeadRows THEN 0 ELSE table_rows[r]]
    /\ index_entries' = index_entries \ DeadRows
    /\ UNCHANGED <<session_load, coordinator, schema_version, index, shared, connVars,
                   history>>

\* The process ends and the first Database opens again: statements that had not
\* committed their pages are gone, transactions without a verdict never get one (readers
\* do not see their rows, and the reclaimer leaves them), and sweep_partial_indexes drops
\* an index that was being built.  Of phase 3 whose commit is outstanding the catalog's
\* page may have been committed with a peer's or not.  Bound: the process does not end
\* while a schema change without a lock is under way.
Restart ==
    /\ May("crash") /\ \A c \in Conns : step[c] \notin {"drop", "dropped", "analyzed"}
    /\ LET Lost(r) == \E c \in Conns : step[c] \in {"enter", "finish"} /\ r \in scanned[c]
       IN table_rows' = [r \in Rows |-> IF Lost(r) THEN 0 ELSE table_rows[r]]
    /\ index' \in {IF index = "building" THEN "absent" ELSE index}
                    \cup {"absent" : c \in {d \in Conns : step[d] = "usable"}}
    /\ index_entries' = IF index' = "ready" THEN {r \in index_entries : table_rows'[r] # 0} ELSE {}
    /\ created' = IF index' = index THEN created ELSE "no"
    /\ in_flight' = {}
    /\ schema_version' = 0 /\ shared' = {}
    /\ txn' = [c \in Conns |-> "none"] /\ current_tx' = [c \in Conns |-> 0]
    /\ prepared' = [c \in Conns |-> NoPlan]
    /\ step' = [c \in Conns |-> "idle"]
    /\ schema_seen' = [c \in Conns |-> "absent"]
    /\ scanned' = [c \in Conns |-> {}]
    /\ UNCHANGED <<session_load, next_tx, outcome, stale>>

\* The steps the server's thread for c takes by itself, once a request has arrived.
BuildStep(c) ==
    \/ PublishIndex(c) \/ EndPhase1(c) \/ ScanTable(c) \/ Filled(c)
    \/ \E r \in Rows : FillRow(c, r)
    \/ FinalizeIndex(c) \/ FlipBuilding(c) \/ EndPhase3(c)
CatalogStep(c) == TakeAway(c) \/ EndDrop(c) \/ PutStatistics(c) \/ EndAnalyze(c)

ServerStep(c) ==
    \/ EndStream(c) \/ ReadSchema(c) \/ EnterRow(c) \/ FailInsert(c) \/ StampPlan(c)
    \/ BuildStep(c) \/ CatalogStep(c)
    \/ \E verdict \in {"committed", "rolled_back"} : FinishInsert(c, verdict)
    \/ \E r \in Rows : WriteRow(c, r)

ClientStep(c) ==
    \/ BeginTx(c) \/ RunSelect(c) \/ Explain(c) \/ StartInsert(c) \/ CreateIndex(c)
    \/ DropIndex(c) \/ Analyze(c) \/ StalePlan(c) \/ ExecutePrepared(c) \/ Deallocate(c)
    \/ \E kind \in {"select", "insert"} : Prepare(c, kind)
    \/ \E verdict \in {"committed", "rolled_back"} : EndTransaction(c, verdict)

SessionNext ==
    \/ \E c \in Conns : ServerStep(c) \/ ClientStep(c) \/ Disconnect(c)
    \/ ReclaimRows
    \/ Restart

\* Server threads and the reclaimer go on, and clients leave in the end.
SessionFairness ==
    /\ \A c \in Conns : WF_sessionVars(ServerStep(c)) /\ WF_sessionVars(Disconnect(c))
    /\ WF_sessionVars(ReclaimRows)

SessionSpec == SessionInit /\ [][SessionNext]_sessionVars /\ SessionFairness

-----------------------------------------------------------------------------
(* Properties *)

Being(what) == \E c \in Conns : what \in session_load.asks[c]

\* An index that the planner's choose_access may use has an entry for every row of a
\* finished statement, and no index entry is without its row, although writers, the
\* builder, ANALYZE, the reclaimer and restarts interleave (create_index_online,
\* index_insert_row, reclaim_dead_rows, sweep_partial_indexes).  The index join uses an
\* index that is being built as well: see JoinAnswer of module Joins.
ReadyIndexComplete ==
    /\ index = "ready" =>
          Stored \ UNION {scanned[c] : c \in {d \in Conns : step[d] = "enter"}}
             \subseteq index_entries
    /\ index_entries \subseteq Stored

\* A transaction in flight belongs to a connection that is using it: no transaction
\* outlives its statement outside BEGIN..COMMIT, nor its connection, so the watermark
\* of the reclaimer can move on (Database::current_tx).  EXPLAIN is the exception: its
\* transaction waits for the connection's next writing statement.
InFlightIsOwned ==
    /\ in_flight = {current_tx[c] : c \in Conns} \ {0}
    /\ \A c \in Conns : current_tx[c] # 0 =>
          txn[c] = "open" \/ (txn[c] = "aborted" /\ step[c] = "idle")
             \/ step[c] \notin {"idle", "closed"} \/ "explain" \in session_load.asks[c]

\* From phase 3 of its CREATE INDEX on an index stays usable until it is dropped,
\* whichever schemas INSERTs and other builders put back meanwhile, unless an ANALYZE
\* puts one back that it read before (Catalog::put, analyze_table).
IndexSurvives == created = "yes" => index = "ready"

\* It stays usable whatever ANALYZE does: auto_analyze_pass holds that its read of the
\* catalog and its write serialise with other statements and need no locking of their own.
CreatedIndexKept == created # "no" => index = "ready"

\* A prepared plan that the version check would admit now was made for an index that
\* is as usable as it was, except between the put and the bump of a schema change, for a
\* plan that was made while the version changed, and after an INSERT has put back a schema
\* that a lockless statement had changed since (Database::prepare,
\* take_fresh_prepared_plan, bump_schema_version).
AdmittedPlanFits ==
    \A c \in Conns :
        /\ prepared[c].kind # "none" /\ prepared[c].version = schema_version
        /\ ~prepared[c].raced /\ "insert" \notin stale
        /\ \A d \in Conns : step[d] \notin Unannounced
        => (prepared[c].index = "ready") = (index = "ready")

\* An Execute that reads the version before the bump runs a plan that is still valid: the
\* index it uses is in the catalog (SharedMeta's account of schema_version).
AdmittedPlanIsValid ==
    \A c \in Conns :
        prepared[c].kind # "none" /\ prepared[c].version = schema_version
            /\ ~prepared[c].raced /\ prepared[c].index = "ready" => index = "ready"

\* The rows of a rolled-back transaction are reclaimed in the end, provided clients
\* leave in the end and the process stays up: no transaction holds the watermark down for ever
\* (abort_transaction, oldest_active_tx_id, reclaim_dead_rows).
DeadRowsReclaimed ==
    \A r \in Rows :
        (table_rows[r] # 0 /\ outcome[table_rows[r]] = "rolled_back" /\ May("close")
           /\ ~May("crash")) ~> table_rows[r] = 0
=============================================================================
