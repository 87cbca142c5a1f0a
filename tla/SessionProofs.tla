---------------------------- MODULE SessionProofs ----------------------------
(***************************************************************************)
(* Theorems about Session: its types, that a transaction in flight has an  *)
(* owner, that an index the planner may use is complete, that a created    *)
(* index stays usable, and that an admitted plan fits the catalog.         *)
(*                                                                         *)
(* A BEGIN forgets the ID that EXPLAIN took, DROP INDEX takes no lock, and *)
(* the builder of an index reads rows of statements that may still fail.   *)
(* The theorems say which workloads they speak of.                         *)
(***************************************************************************)
EXTENDS Session, FiniteSetTheorems, TLAPS

\* No connection asks for both EXPLAIN and BEGIN: BEGIN overwrites the transaction
\* that an EXPLAIN took, which then stays in flight (begin_transaction).
ExplainApart ==
    \A c \in Conns : ~("explain" \in session_load.asks[c] /\ "begin" \in session_load.asks[c])

\* Nobody drops an index while somebody inserts: DROP INDEX frees the pages that the
\* INSERT is about to write, and the INSERT puts the dropped index back (drop_index).
DropApart == Being("drop_index") => ~Being("insert") /\ ~Being("prepare_insert")

\* No statement fails while somebody builds an index: the builder may have collected
\* the row that the failing statement takes back (create_index_phase2_populate reads
\* the shared pool).
FailApart == May("fail") => ~Being("create_index")

\* The steps of a statement that has its transaction, and the steps of CREATE INDEX.
TxSteps == {"write", "enter", "finish", "analyze", "analyzed", "drop", "dropped"}
Building(c) == step[c] \in {"phase1", "published", "scan", "fill", "finalize", "flip", "usable"}

-----------------------------------------------------------------------------
(* Types *)

TypeInv == SessionTypeOK
Plans == [kind : {"none", "select", "insert"}, version : 0..MaxVersion,
          index : IndexStates, raced : BOOLEAN]

LEMMA PlansType == TypeInv => prepared \in [Conns -> Plans]
  BY DEF TypeInv, SessionTypeOK, Plans

LEMMA NoPlanType == NoPlan \in Plans
  BY SessionConstants DEF NoPlan, Plans, IndexStates

LEMMA InitTypes == ASSUME SessionInit PROVE TypeInv
<1> USE SessionConstants DEF SessionInit
<1>1. /\ next_tx \in 1..(MaxTxNo + 1) /\ in_flight \subseteq 1..(next_tx - 1)
      /\ schema_version \in 0..MaxVersion
      /\ table_rows \in [Rows -> 0..MaxTxNo]
      /\ current_tx \in [Conns -> 0..MaxTxNo]
  OBVIOUS
<1>2. prepared \in [Conns -> Plans]
  BY NoPlanType
<1>3. /\ outcome \in [TxNo -> {"none", "committed", "rolled_back"}]
      /\ index \in IndexStates /\ schema_seen \in [Conns -> IndexStates]
      /\ scanned \in [Conns -> SUBSET Rows]
  BY DEF IndexStates
<1> QED
  BY <1>1, <1>2, <1>3 DEF TypeInv, SessionTypeOK, Plans

\* A connection for which an ID is left finds the counter within its bound.
LEMMA FreshIdFits ==
  ASSUME NEW c \in Conns, TypeInv, FreshId(c) PROVE next_tx <= MaxTxNo
<1> DEFINE D == {d \in Conns \ {c} : step[d] = "plan" /\ current_tx[d] = 0}
<1>1. IsFiniteSet(D)
  BY SessionConstants, FS_Subset
<1>2. Cardinality(D) \in Nat
  BY <1>1, FS_CardinalityType
<1>3. next_tx + Cardinality(D) <= MaxTxNo
  BY DEF FreshId
<1> HIDE DEF D
<1> QED
  BY <1>2, <1>3, SessionConstants DEF TypeInv, SessionTypeOK

\* EnsureTx keeps the types of what it writes.
LEMMA EnsureTxTypes ==
  ASSUME NEW c \in Conns, TypeInv, EnsureTx(c)
  PROVE  /\ next_tx' \in 1..(MaxTxNo + 1) /\ in_flight' \subseteq 1..(next_tx' - 1)
         /\ outcome' = outcome
         /\ current_tx' \in [Conns -> 0..MaxTxNo]
<1> USE SessionConstants DEF TypeInv, SessionTypeOK
<1>1. CASE current_tx[c] # 0
  BY <1>1 DEF EnsureTx, coordinator
<1>2. CASE current_tx[c] = 0
  <2>1. /\ next_tx <= MaxTxNo /\ next_tx' = next_tx + 1 /\ outcome' = outcome
        /\ in_flight' = in_flight \cup {next_tx}
        /\ current_tx' = [current_tx EXCEPT ![c] = next_tx]
    BY <1>2 DEF EnsureTx
  <2> QED
    BY <2>1
<1> QED
  BY <1>1, <1>2

\* So does EndTx.
LEMMA EndTxTypes ==
  ASSUME NEW tx \in 0..MaxTxNo, NEW verdict \in {"committed", "rolled_back"}, TypeInv,
         EndTx(tx, verdict)
  PROVE  /\ next_tx' = next_tx /\ in_flight' \subseteq 1..(next_tx' - 1)
         /\ outcome' \in [TxNo -> {"none", "committed", "rolled_back"}]
  BY SessionConstants DEF TypeInv, SessionTypeOK, EndTx, TxNo

\* A restart keeps the index's entry or loses it.
LEMMA RestartIndex == ASSUME Restart PROVE index' = "absent" \/ index' = index
  BY Zenon DEF Restart

\* Every step keeps the types.
LEMMA StepTypes == ASSUME TypeInv, [SessionNext]_sessionVars PROVE TypeInv'
<1> USE DEF TypeInv, history
<1>0. CASE UNCHANGED sessionVars
  BY <1>0 DEF SessionTypeOK, sessionVars, coordinator, tableVars, connVars
<1>1. ASSUME NEW c \in Conns, ServerStep(c) PROVE TypeInv'
  <2>1. CASE EndStream(c)
    <3>1. txn' \in [Conns -> {"none", "open", "aborted"}]
      BY <2>1 DEF SessionTypeOK, EndStream
    <3> QED
      BY <2>1, <3>1 DEF SessionTypeOK, EndStream, Goes, coordinator, tableVars
  <2>2. CASE ReadSchema(c)
    <3>1. EnsureTx(c)
      BY <2>2 DEF ReadSchema
    <3> QED
      BY <2>2, <3>1, EnsureTxTypes DEF SessionTypeOK, ReadSchema, Goes, tableVars
  <2>3. CASE EnterRow(c)
    <3>1. stale' \subseteq {"analyze", "insert"} /\ index' \in IndexStates
      BY <2>3 DEF SessionTypeOK, EnterRow, PutBack
    <3> QED
      BY <2>3, <3>1 DEF SessionTypeOK, EnterRow, Goes, coordinator
  <2>4. CASE FailInsert(c)
    <3>1. EndTx(current_tx[c], "rolled_back") /\ current_tx[c] \in 0..MaxTxNo
      BY <2>4 DEF SessionTypeOK, FailInsert
    <3>2. /\ txn' \in [Conns -> {"none", "open", "aborted"}]
          /\ table_rows' \in [Rows -> 0..MaxTxNo]
          /\ current_tx' \in [Conns -> 0..MaxTxNo]
      BY <2>4, SessionConstants DEF SessionTypeOK, FailInsert
    <3> QED
      BY <2>4, <3>1, <3>2, EndTxTypes DEF SessionTypeOK, FailInsert, Goes, history
  <2>5. CASE BuildStep(c)
    <3>1. CASE PublishIndex(c) \/ FlipBuilding(c)
      <4>1. index' \in IndexStates
        BY <3>1 DEF PublishIndex, FlipBuilding, IndexStates
      <4> QED
        BY <3>1, <4>1 DEF SessionTypeOK, PublishIndex, FlipBuilding, Goes, coordinator
    <3>2. CASE EndPhase1(c) \/ EndPhase3(c)
      <4>1. schema_version' \in 0..MaxVersion
        BY <3>2, SessionConstants DEF SessionTypeOK, EndPhase1, EndPhase3, Bump
      <4> QED
        BY <3>2, <4>1 DEF SessionTypeOK, EndPhase1, EndPhase3, Goes, coordinator
    <3>3. CASE ScanTable(c) \/ Filled(c)
      <4>1. scanned' \in [Conns -> SUBSET Rows] /\ shared' \subseteq Conns
        BY <3>3 DEF SessionTypeOK, ScanTable, Filled, Stored
      <4> QED
        BY <3>3, <4>1 DEF SessionTypeOK, ScanTable, Filled, Goes, coordinator, tableVars
    <3>4. ASSUME NEW r \in Rows, FillRow(c, r) PROVE TypeInv'
      BY <3>4 DEF SessionTypeOK, FillRow, coordinator, history
    <3>5. CASE FinalizeIndex(c)
      BY <3>5 DEF SessionTypeOK, FinalizeIndex, Goes, coordinator, tableVars, history
    <3> QED
      BY <2>5, <3>1, <3>2, <3>3, <3>4, <3>5 DEF BuildStep
  <2>6. CASE CatalogStep(c)
    <3>1. CASE TakeAway(c)
      <4>1. index' \in IndexStates
        BY <3>1 DEF TakeAway, IndexStates
      <4> QED
        BY <3>1, <4>1 DEF SessionTypeOK, TakeAway, Goes, coordinator
    <3>2. CASE EndDrop(c) \/ EndAnalyze(c)
      <4>1. EndTx(current_tx[c], "committed") /\ current_tx[c] \in 0..MaxTxNo
        BY <3>2 DEF SessionTypeOK, EndDrop, EndAnalyze
      <4>2. current_tx' \in [Conns -> 0..MaxTxNo] /\ schema_version' \in 0..MaxVersion
        BY <3>2, SessionConstants DEF SessionTypeOK, EndDrop, EndAnalyze, Bump
      <4> QED
        BY <3>2, <4>1, <4>2, EndTxTypes DEF SessionTypeOK, EndDrop, EndAnalyze, Goes
    <3>3. CASE PutStatistics(c)
      <4>1. /\ index' \in IndexStates /\ stale' \subseteq {"analyze", "insert"}
            /\ created' \in {"no", "yes", "overwritten"}
        BY <3>3 DEF SessionTypeOK, PutStatistics, PutBack
      <4> QED
        BY <3>3, <4>1 DEF SessionTypeOK, PutStatistics, Goes, coordinator
    <3> QED
      BY <2>6, <3>1, <3>2, <3>3 DEF CatalogStep
  <2>9. CASE StampPlan(c)
    <3>1. prepared' \in [Conns -> Plans]
      <4>1. prepared \in [Conns -> Plans] /\ schema_version \in 0..MaxVersion
        BY PlansType DEF SessionTypeOK
      <4>2. prepared' = [prepared EXCEPT ![c] =
                           [[prepared[c] EXCEPT !.version = schema_version] EXCEPT
                              !.raced = prepared[c].version # schema_version]]
        BY <2>9 DEF StampPlan
      <4>3. [[prepared[c] EXCEPT !.version = schema_version] EXCEPT
                              !.raced = prepared[c].version # schema_version] \in Plans
        BY <4>1 DEF Plans
      <4> QED
        BY <4>1, <4>2, <4>3
    <3> QED
      BY <2>9, <3>1 DEF SessionTypeOK, Plans, StampPlan, Goes, coordinator, tableVars
  <2>10. ASSUME NEW verdict \in {"committed", "rolled_back"}, FinishInsert(c, verdict)
         PROVE TypeInv'
    <3>1. CASE txn[c] = "none"
      <4>1. EndTx(current_tx[c], verdict) /\ current_tx[c] \in 0..MaxTxNo
        BY <2>10, <3>1 DEF SessionTypeOK, FinishInsert
      <4>2. current_tx' \in [Conns -> 0..MaxTxNo]
        BY <2>10, <3>1, SessionConstants DEF SessionTypeOK, FinishInsert
      <4> QED
        BY <2>10, <4>1, <4>2, EndTxTypes DEF SessionTypeOK, FinishInsert, Goes, tableVars
    <3>2. CASE txn[c] # "none"
      BY <2>10, <3>2 DEF SessionTypeOK, FinishInsert, Goes, coordinator, tableVars
    <3> QED
      BY <3>1, <3>2
  <2>11. ASSUME NEW r \in Rows, WriteRow(c, r) PROVE TypeInv'
    BY <2>11 DEF SessionTypeOK, WriteRow, Goes, coordinator
  <2> QED
    BY <1>1, <2>1, <2>2, <2>3, <2>4, <2>5, <2>6, <2>9, <2>10, <2>11 DEF ServerStep
<1>2. ASSUME NEW c \in Conns, ClientStep(c) PROVE TypeInv'
  <2>1. CASE BeginTx(c)
    <3>1. next_tx <= MaxTxNo
      BY <2>1, FreshIdFits DEF BeginTx
    <3>2. /\ next_tx' \in 1..(MaxTxNo + 1) /\ in_flight' \subseteq 1..(next_tx' - 1)
          /\ current_tx' \in [Conns -> 0..MaxTxNo]
      BY <2>1, <3>1, SessionConstants DEF SessionTypeOK, BeginTx
    <3> QED
      BY <2>1, <3>2 DEF SessionTypeOK, BeginTx, tableVars
  <2>2. CASE RunSelect(c)
    BY <2>2 DEF SessionTypeOK, RunSelect, Goes, coordinator, tableVars
  <2>3. CASE Explain(c)
    <3>1. EnsureTx(c)
      BY <2>3 DEF Explain
    <3> QED
      BY <2>3, <3>1, EnsureTxTypes DEF SessionTypeOK, Explain, Goes, tableVars
  <2>4. CASE StartInsert(c)
    BY <2>4 DEF SessionTypeOK, StartInsert, Goes, coordinator, tableVars
  <2>5. CASE CreateIndex(c)
    BY <2>5 DEF SessionTypeOK, CreateIndex, Goes, coordinator, tableVars
  <2>6. CASE DropIndex(c)
    <3>1. EnsureTx(c)
      BY <2>6 DEF DropIndex
    <3> QED
      BY <2>6, <3>1, EnsureTxTypes DEF SessionTypeOK, DropIndex, Goes
  <2>7. CASE Analyze(c)
    <3>1. EnsureTx(c)
      BY <2>7 DEF Analyze
    <3> QED
      BY <2>7, <3>1, EnsureTxTypes DEF SessionTypeOK, Analyze, Goes, tableVars
  <2>8. CASE StalePlan(c) \/ Deallocate(c)
    <3>1. prepared' \in [Conns -> Plans]
      BY <2>8, PlansType, NoPlanType DEF StalePlan, Deallocate
    <3> QED
      BY <2>8, <3>1
         DEF SessionTypeOK, Plans, StalePlan, Deallocate, coordinator, tableVars
  <2>9. CASE ExecutePrepared(c)
    BY <2>9 DEF SessionTypeOK, ExecutePrepared, Goes, coordinator, tableVars
  <2>10. ASSUME NEW kind \in {"select", "insert"}, Prepare(c, kind) PROVE TypeInv'
    BY <2>10 DEF SessionTypeOK, Prepare, Goes, coordinator, tableVars
  <2>11. ASSUME NEW verdict \in {"committed", "rolled_back"}, EndTransaction(c, verdict)
         PROVE TypeInv'
    <3>1. EndTx(current_tx[c], verdict) /\ current_tx[c] \in 0..MaxTxNo
      BY <2>11 DEF SessionTypeOK, EndTransaction
    <3>2. /\ current_tx' \in [Conns -> 0..MaxTxNo]
          /\ txn' \in [Conns -> {"none", "open", "aborted"}]
      BY <2>11, SessionConstants DEF SessionTypeOK, EndTransaction
    <3>3. /\ next_tx' = next_tx /\ in_flight' \subseteq 1..(next_tx' - 1)
          /\ outcome' \in [TxNo -> {"none", "committed", "rolled_back"}]
      BY <3>1, EndTxTypes
    <3> QED
      BY <2>11, <3>2, <3>3 DEF SessionTypeOK, EndTransaction, tableVars
  <2> QED
    BY <1>2, <2>1, <2>2, <2>3, <2>4, <2>5, <2>6, <2>7, <2>8, <2>9, <2>10, <2>11
       DEF ClientStep
<1>3. ASSUME NEW c \in Conns, Disconnect(c) PROVE TypeInv'
  <2>1. prepared' \in [Conns -> Plans]
    BY <1>3, PlansType, NoPlanType DEF Disconnect
  <2>2. CASE txn[c] # "none"
    <3>1. EndTx(current_tx[c], "rolled_back") /\ current_tx[c] \in 0..MaxTxNo
      BY <1>3, <2>2 DEF SessionTypeOK, Disconnect
    <3>2. current_tx' \in [Conns -> 0..MaxTxNo]
      BY <1>3, <2>2, SessionConstants DEF SessionTypeOK, Disconnect
    <3> QED
      BY <1>3, <2>1, <3>1, <3>2, EndTxTypes DEF SessionTypeOK, Plans, Disconnect, Goes, tableVars
  <2>3. CASE txn[c] = "none"
    BY <1>3, <2>1, <2>3 DEF SessionTypeOK, Plans, Disconnect, Goes, coordinator, tableVars
  <2> QED
    BY <2>2, <2>3
<1>4. CASE ReclaimRows
  BY <1>4, SessionConstants DEF SessionTypeOK, ReclaimRows, coordinator, connVars
<1>5. CASE Restart
  <2>1. /\ table_rows' \in [Rows -> 0..MaxTxNo] /\ current_tx' \in [Conns -> 0..MaxTxNo]
        /\ schema_version' \in 0..MaxVersion
        /\ created' \in {"no", "yes", "overwritten"}
    BY <1>5, SessionConstants DEF SessionTypeOK, Restart
  <2>a. index' \in IndexStates /\ index_entries' \subseteq Rows
    BY <1>5, RestartIndex DEF SessionTypeOK, Restart, IndexStates
  <2>2. prepared' \in [Conns -> Plans]
    BY <1>5, NoPlanType DEF Restart
  <2>3. /\ schema_seen' \in [Conns -> IndexStates] /\ scanned' \in [Conns -> SUBSET Rows]
        /\ txn' \in [Conns -> {"none", "open", "aborted"}]
    BY <1>5 DEF Restart, IndexStates
  <2> QED
    BY <1>5, <2>1, <2>a, <2>2, <2>3 DEF SessionTypeOK, Plans, Restart
<1> QED
  BY <1>0, <1>1, <1>2, <1>3, <1>4, <1>5 DEF SessionNext

-----------------------------------------------------------------------------
(* Transactions and their owners *)

\* A connection's transaction is in flight and nobody else's, and a statement that
\* writes has one.
IdInv ==
    /\ \A c \in Conns : current_tx[c] # 0 => current_tx[c] \in in_flight
    /\ \A c, d \in Conns : current_tx[c] # 0 /\ current_tx[c] = current_tx[d] => c = d
    /\ \A c \in Conns : step[c] \in TxSteps => current_tx[c] # 0

\* Conversely what is in flight is some connection's, and a connection that is idle
\* outside a transaction keeps none, unless it asks for EXPLAIN.
OwnerInv ==
    /\ \A t \in in_flight : \E c \in Conns : current_tx[c] = t
    /\ \A c \in Conns :
          /\ txn[c] # "none" => "begin" \in session_load.asks[c]
          /\ step[c] = "closed" => txn[c] = "none"
          /\ current_tx[c] # 0 =>
                \/ txn[c] # "none" \/ step[c] \in TxSteps
                \/ "explain" \in session_load.asks[c]

\* What a connection's step does to the transactions: it takes a fresh ID, ends its
\* own transaction, or leaves them alone.
TakesId(c) ==
    /\ in_flight' = in_flight \cup {next_tx}
    /\ current_tx' = [current_tx EXCEPT ![c] = next_tx]
EndsTx(c) ==
    /\ in_flight' = in_flight \ {current_tx[c]}
    /\ current_tx' = [current_tx EXCEPT ![c] = 0]
KeepsTx == in_flight' = in_flight /\ current_tx' = current_tx

LEMMA EnsureTxTakes ==
  ASSUME NEW c \in Conns, EnsureTx(c)
  PROVE  \/ current_tx[c] # 0 /\ KeepsTx
         \/ current_tx[c] = 0 /\ TakesId(c)
  BY DEF EnsureTx, KeepsTx, TakesId, coordinator

\* What remains of IdInv and OwnerInv is about step and txn.
LEMMA TxStepKeepsIds ==
  ASSUME TypeInv, NEW c \in Conns, IdInv,
         TakesId(c) \/ EndsTx(c) \/ KeepsTx
  PROVE  /\ \A d \in Conns : current_tx'[d] # 0 => current_tx'[d] \in in_flight'
         /\ \A d, e \in Conns : current_tx'[d] # 0 /\ current_tx'[d] = current_tx'[e] => d = e
<1> USE DEF IdInv
<1>0. /\ current_tx \in [Conns -> 0..MaxTxNo] /\ next_tx \in Nat /\ next_tx \notin in_flight
      /\ next_tx # 0
  BY SessionConstants DEF TypeInv, SessionTypeOK
<1>1. CASE TakesId(c)
  BY <1>0, <1>1 DEF TakesId
<1>2. CASE EndsTx(c)
  BY <1>0, <1>2 DEF EndsTx
<1>3. CASE KeepsTx
  BY <1>3 DEF KeepsTx
<1> QED
  BY <1>1, <1>2, <1>3

LEMMA TxStepKeepsOwners ==
  ASSUME TypeInv, NEW c \in Conns, IdInv,
         \A t \in in_flight : \E d \in Conns : current_tx[d] = t,
         (current_tx[c] = 0 /\ TakesId(c)) \/ EndsTx(c) \/ KeepsTx
  PROVE  \A t \in in_flight' : \E d \in Conns : current_tx'[d] = t
<1>0. current_tx \in [Conns -> 0..MaxTxNo] /\ in_flight \subseteq Nat \ {0}
  BY SessionConstants DEF TypeInv, SessionTypeOK
<1>1. CASE current_tx[c] = 0 /\ TakesId(c)
  BY <1>0, <1>1 DEF TakesId
<1>2. CASE EndsTx(c)
  BY <1>0, <1>2 DEF EndsTx
<1>3. CASE KeepsTx
  BY <1>3 DEF KeepsTx
<1> QED
  BY <1>1, <1>2, <1>3

\* The shape of a step as far as transactions are concerned: one connection goes from
\* one step to the next.
TxStep(c) ==
    /\ \A d \in Conns \ {c} : step'[d] = step[d] /\ txn'[d] = txn[d]
    /\ session_load' = session_load
    /\ \/ current_tx[c] = 0 /\ TakesId(c)
       \/ TakesId(c) /\ Asks(c, "begin") /\ txn[c] = "none"
       \/ EndsTx(c)
       \/ KeepsTx
    /\ step'[c] \in TxSteps => current_tx'[c] # 0
    /\ txn'[c] # "none" => txn[c] # "none" \/ Asks(c, "begin")
    /\ step'[c] = "closed" => txn'[c] = "none"
    /\ current_tx'[c] # 0 =>
          \/ txn'[c] # "none" \/ step'[c] \in TxSteps
          \/ "explain" \in session_load.asks[c]
          \/ /\ current_tx[c] # 0 /\ txn[c] = "none"
             /\ step[c] \notin TxSteps

LEMMA ServerTxStep ==
  ASSUME TypeInv, IdInv, NEW c \in Conns, ServerStep(c) PROVE TxStep(c)
<1> USE DEF TxStep, Goes, TxSteps
<1>0. /\ DOMAIN step = Conns /\ DOMAIN txn = Conns /\ DOMAIN current_tx = Conns
      /\ next_tx \in Nat \ {0}
      /\ txn[c] \in {"none", "open", "aborted"}
      /\ step[c] \in TxSteps => current_tx[c] # 0
  BY DEF TypeInv, SessionTypeOK, IdInv, TxSteps
<1>1. CASE EndStream(c)
  <2>1. \/ txn' = txn
        \/ txn' = [txn EXCEPT ![c] = IF txn[c] = "open" THEN "aborted" ELSE txn[c]]
    BY <1>1 DEF EndStream
  <2> QED
    BY <1>0, <1>1, <2>1 DEF EndStream, KeepsTx, coordinator
<1>2. CASE ReadSchema(c)
  <2>1. EnsureTx(c)
    BY <1>2 DEF ReadSchema
  <2> QED
    BY <1>0, <1>2, <2>1, EnsureTxTakes DEF ReadSchema, TakesId, KeepsTx
<1>3. CASE EnterRow(c)
  BY <1>0, <1>3 DEF EnterRow, KeepsTx, coordinator
<1>4. CASE FailInsert(c)
  BY <1>0, <1>4 DEF FailInsert, EndTx, EndsTx
<1>5. CASE BuildStep(c)
  <2>1. CASE PublishIndex(c) \/ EndPhase1(c) \/ FlipBuilding(c) \/ EndPhase3(c)
    BY <1>0, <2>1 DEF PublishIndex, EndPhase1, FlipBuilding, EndPhase3, KeepsTx, coordinator
  <2>2. CASE ScanTable(c) \/ Filled(c) \/ \E r \in Rows : FillRow(c, r)
    BY <1>0, <2>2 DEF ScanTable, Filled, FillRow, KeepsTx, coordinator
  <2>3. CASE FinalizeIndex(c)
    <3>1. step'[c] \in {"idle", "flip"}
      BY <1>0, <2>3 DEF FinalizeIndex
    <3> QED
      BY <1>0, <2>3, <3>1 DEF FinalizeIndex, KeepsTx, coordinator
  <2> QED
    BY <1>5, <2>1, <2>2, <2>3 DEF BuildStep
<1>6. CASE CatalogStep(c)
  <2>1. CASE TakeAway(c) \/ PutStatistics(c)
    BY <1>0, <2>1 DEF TakeAway, PutStatistics, KeepsTx, coordinator
  <2>2. CASE EndDrop(c) \/ EndAnalyze(c)
    BY <1>0, <2>2 DEF EndDrop, EndAnalyze, EndTx, EndsTx
  <2> QED
    BY <1>6, <2>1, <2>2 DEF CatalogStep
<1>8. CASE StampPlan(c)
  BY <1>0, <1>8 DEF StampPlan, KeepsTx, coordinator
<1>9. ASSUME NEW verdict \in {"committed", "rolled_back"}, FinishInsert(c, verdict)
      PROVE TxStep(c)
  BY <1>0, <1>9 DEF FinishInsert, EndTx, EndsTx, KeepsTx, coordinator
<1>10. ASSUME NEW r \in Rows, WriteRow(c, r) PROVE TxStep(c)
  BY <1>0, <1>10 DEF WriteRow, KeepsTx, coordinator
<1> HIDE DEF TxStep
<1> QED
  BY <1>1, <1>2, <1>3, <1>4, <1>5, <1>6, <1>8, <1>9, <1>10 DEF ServerStep

LEMMA ClientTxStep ==
  ASSUME TypeInv, IdInv, NEW c \in Conns, ClientStep(c) \/ Disconnect(c) PROVE TxStep(c)
<1> USE DEF TxStep, TxSteps
<1>0. /\ DOMAIN step = Conns /\ DOMAIN txn = Conns /\ DOMAIN current_tx = Conns
      /\ next_tx \in Nat \ {0}
      /\ txn[c] \in {"none", "open", "aborted"}
      /\ step[c] \in TxSteps => current_tx[c] # 0
  BY DEF TypeInv, SessionTypeOK, IdInv, TxSteps
<1>1. CASE BeginTx(c)
  BY <1>0, <1>1 DEF BeginTx, TakesId, Asks
<1>2. CASE RunSelect(c)
  BY <1>0, <1>2 DEF RunSelect, KeepsTx, coordinator, Goes, Asks
<1>3. CASE Explain(c)
  <2>1. EnsureTx(c)
    BY <1>3 DEF Explain
  <2> QED
    BY <1>0, <1>3, <2>1, EnsureTxTakes DEF Explain, TakesId, KeepsTx, Goes, Asks
<1>4. CASE StartInsert(c)
  BY <1>0, <1>4 DEF StartInsert, KeepsTx, coordinator, Goes, Asks
<1>5. CASE CreateIndex(c)
  BY <1>0, <1>5 DEF CreateIndex, KeepsTx, coordinator, Goes, Asks
<1>6. CASE DropIndex(c)
  <2>1. EnsureTx(c)
    BY <1>6 DEF DropIndex
  <2> QED
    BY <1>0, <1>6, <2>1, EnsureTxTakes DEF DropIndex, TakesId, KeepsTx, Goes
<1>7. CASE Analyze(c)
  <2>1. EnsureTx(c)
    BY <1>7 DEF Analyze
  <2> QED
    BY <1>0, <1>7, <2>1, EnsureTxTakes DEF Analyze, TakesId, KeepsTx, Goes
<1>8. CASE StalePlan(c) \/ Deallocate(c)
  BY <1>0, <1>8 DEF StalePlan, Deallocate, KeepsTx, coordinator
<1>9. CASE ExecutePrepared(c)
  BY <1>0, <1>9 DEF ExecutePrepared, KeepsTx, coordinator, Goes
<1>10. ASSUME NEW kind \in {"select", "insert"}, Prepare(c, kind) PROVE TxStep(c)
  BY <1>0, <1>10 DEF Prepare, KeepsTx, coordinator, Goes, Asks
<1>11. ASSUME NEW verdict \in {"committed", "rolled_back"}, EndTransaction(c, verdict)
       PROVE TxStep(c)
  BY <1>0, <1>11 DEF EndTransaction, EndTx, EndsTx
<1>12. CASE Disconnect(c)
  BY <1>0, <1>12 DEF Disconnect, EndTx, EndsTx, KeepsTx, coordinator, Goes
<1> QED
  BY <1>1, <1>2, <1>3, <1>4, <1>5, <1>6, <1>7, <1>8, <1>9, <1>10, <1>11, <1>12
     DEF ClientStep

LEMMA StepIds == ASSUME TypeInv, IdInv, [SessionNext]_sessionVars PROVE IdInv'
<1>0. CASE UNCHANGED sessionVars
  BY <1>0 DEF IdInv, TxSteps, sessionVars, coordinator, connVars
<1>1. ASSUME NEW c \in Conns, TxStep(c) PROVE IdInv'
  <2>1. TakesId(c) \/ EndsTx(c) \/ KeepsTx
    BY <1>1 DEF TxStep
  <2>2. /\ \A d \in Conns : current_tx'[d] # 0 => current_tx'[d] \in in_flight'
        /\ \A d, e \in Conns : current_tx'[d] # 0 /\ current_tx'[d] = current_tx'[e] => d = e
    BY <2>1, TxStepKeepsIds
  <2>3. ASSUME NEW d \in Conns, step'[d] \in TxSteps
        PROVE current_tx'[d] # 0
    <3>1. CASE d = c
      BY <1>1, <2>3, <3>1 DEF TxStep
    <3>2. CASE d # c
      <4>1. current_tx[d] # 0
        BY <1>1, <2>3, <3>2 DEF TxStep, IdInv, TxSteps
      <4>2. DOMAIN current_tx = Conns
        BY DEF TypeInv, SessionTypeOK
      <4> QED
        BY <2>1, <3>2, <4>1, <4>2 DEF TakesId, EndsTx, KeepsTx
    <3> QED
      BY <3>1, <3>2
  <2> QED
    BY <2>2, <2>3 DEF IdInv, TxSteps
<1>2. CASE ReclaimRows
  BY <1>2 DEF IdInv, TxSteps, ReclaimRows, coordinator, connVars
<1>3. CASE Restart
  BY <1>3 DEF IdInv, TxSteps, Restart
<1> QED
  BY <1>0, <1>1, <1>2, <1>3, ServerTxStep, ClientTxStep DEF SessionNext

LEMMA StepOwners ==
  ASSUME TypeInv, IdInv, ExplainApart, OwnerInv, [SessionNext]_sessionVars
  PROVE  OwnerInv'
<1>0. CASE UNCHANGED sessionVars
  BY <1>0 DEF OwnerInv, TxSteps, sessionVars, coordinator, connVars
<1>1. ASSUME NEW c \in Conns, TxStep(c) PROVE OwnerInv'
  <2>1. (current_tx[c] = 0 /\ TakesId(c)) \/ EndsTx(c) \/ KeepsTx
    BY <1>1 DEF TxStep, OwnerInv, ExplainApart, TxSteps, Asks
  <2>2. \A t \in in_flight' : \E d \in Conns : current_tx'[d] = t
    BY <2>1, TxStepKeepsOwners DEF OwnerInv
  <2>3. ASSUME NEW d \in Conns
        PROVE  /\ txn'[d] # "none" => "begin" \in session_load'.asks[d]
               /\ step'[d] = "closed" => txn'[d] = "none"
               /\ current_tx'[d] # 0 =>
                    \/ txn'[d] # "none"
                    \/ step'[d] \in TxSteps
                    \/ "explain" \in session_load'.asks[d]
    <3>1. CASE d = c
      BY <1>1, <3>1 DEF TxStep, OwnerInv, TxSteps, Asks
    <3>2. CASE d # c
      <4>1. DOMAIN current_tx = Conns
        BY DEF TypeInv, SessionTypeOK
      <4>2. current_tx'[d] = current_tx[d]
        BY <2>1, <3>2, <4>1 DEF TakesId, EndsTx, KeepsTx
      <4> QED
        BY <1>1, <3>2, <4>2 DEF TxStep, OwnerInv, TxSteps
    <3> QED
      BY <3>1, <3>2
  <2> QED
    BY <2>2, <2>3 DEF OwnerInv, TxSteps
<1>2. CASE ReclaimRows
  BY <1>2 DEF OwnerInv, TxSteps, ReclaimRows, coordinator, connVars
<1>3. CASE Restart
  BY <1>3 DEF OwnerInv, TxSteps, Restart
<1> QED
  BY <1>0, <1>1, <1>2, <1>3, ServerTxStep, ClientTxStep DEF SessionNext

-----------------------------------------------------------------------------
(* Locks, rows and requests *)

\* A statement that writes the table, and a builder that fills its index, hold the lock
\* shared; nobody else has rows to enter; and who holds it exclusively is alone.
LockInv ==
    \A c \in Conns :
        /\ step[c] \in {"plan", "write", "enter", "finish", "fill"} => c \in shared
        /\ step[c] \notin {"enter", "finish", "fill"} => scanned[c] = {}
        /\ step[c] \in Exclusive =>
              shared = {} /\ \A d \in Conns : step[d] \in Exclusive => d = c

\* The row of an INSERT is in the table until the statement ends, and is its own.
RowInv ==
    /\ \A c \in Conns : step[c] \in {"enter", "finish"} =>
          \A r \in scanned[c] : table_rows[r] # 0
    /\ \A c, d \in Conns :
          step[c] \in {"enter", "finish"} /\ step[d] \in {"enter", "finish"} /\ c # d =>
             scanned[c] \cap scanned[d] = {}

Inserters == Being("insert") \/ Being("prepare_insert")
Builders == Being("create_index")

\* What is going on, somebody has asked for.
AskInv ==
    /\ \A c \in Conns :
          /\ step[c] \in {"plan", "write", "enter", "finish"} => Inserters
          /\ Building(c) => Builders
          /\ step[c] \in {"drop", "dropped"} => Being("drop_index")
          /\ prepared[c].kind = "insert" => Being("prepare_insert")
          /\ schema_seen[c] # "absent" \/ prepared[c].index # "absent" => Builders
    /\ index # "absent" \/ index_entries # {} => Builders
    /\ \A r \in Rows : table_rows[r] # 0 => Inserters

LEMMA StepLocks == ASSUME TypeInv, LockInv, [SessionNext]_sessionVars PROVE LockInv'
<1> USE DEF LockInv, Exclusive
<1>d. /\ DOMAIN step = Conns /\ DOMAIN scanned = Conns
      /\ \A c \in Conns : prepared[c].kind \in {"none", "select", "insert"}
  BY DEF TypeInv, SessionTypeOK
<1>0. CASE UNCHANGED sessionVars
  BY <1>0 DEF sessionVars, connVars
\* A connection that takes no lock and gives up no rows may go where it likes.
<1>a. ASSUME NEW c \in Conns, NEW where, shared' = shared, scanned' = scanned,
             step' = [step EXCEPT ![c] = where],
             where \notin {"plan", "write", "enter", "finish", "fill"},
             step[c] \notin {"enter", "finish"}, step[c] = "fill" => scanned[c] = {},
             where \in Exclusive => step[c] \in Exclusive
      PROVE  LockInv'
  BY <1>a, <1>d
<1>1. ASSUME NEW c \in Conns, ServerStep(c) PROVE LockInv'
  <2>1. CASE EndStream(c) \/ StampPlan(c)
    BY <2>1, <1>a DEF EndStream, StampPlan, Goes
  <2>2. CASE ReadSchema(c) \/ EnterRow(c)
    BY <2>2, <1>d DEF ReadSchema, EnterRow, Goes
  <2>3. CASE FailInsert(c)
    BY <2>3, <1>d DEF FailInsert, Goes
  <2>4. CASE BuildStep(c)
    <3>1. CASE PublishIndex(c) \/ EndPhase1(c) \/ FlipBuilding(c) \/ EndPhase3(c)
      BY <3>1, <1>a DEF PublishIndex, EndPhase1, FlipBuilding, EndPhase3, Goes
    <3>2. CASE ScanTable(c)
      BY <3>2, <1>d DEF ScanTable, NotExclusive, Goes
    <3>3. CASE Filled(c)
      BY <3>3, <1>d DEF Filled, Goes
    <3>4. ASSUME NEW r \in Rows, FillRow(c, r) PROVE LockInv'
      BY <3>4, <1>d DEF FillRow
    <3>5. CASE FinalizeIndex(c)
      <4>1. step'[c] \in {"idle", "flip"}
        BY <3>5, <1>d DEF FinalizeIndex, Goes
      <4>2. \A d \in Conns : d # c => step'[d] = step[d]
        BY <3>5, <1>d DEF FinalizeIndex, Goes
      <4> QED
        BY <3>5, <4>1, <4>2, <1>d DEF FinalizeIndex, Unused, NotExclusive
    <3> QED
      BY <2>4, <3>1, <3>2, <3>3, <3>4, <3>5 DEF BuildStep
  <2>5. CASE CatalogStep(c)
    BY <2>5, <1>a DEF CatalogStep, TakeAway, EndDrop, PutStatistics, EndAnalyze, Goes
  <2>6. ASSUME NEW verdict \in {"committed", "rolled_back"}, FinishInsert(c, verdict)
        PROVE LockInv'
    BY <2>6, <1>d DEF FinishInsert, Goes
  <2>7. ASSUME NEW r \in Rows, WriteRow(c, r) PROVE LockInv'
    BY <2>7, <1>d DEF WriteRow, Goes
  <2> QED
    BY <1>1, <2>1, <2>2, <2>3, <2>4, <2>5, <2>6, <2>7 DEF ServerStep
<1>2. ASSUME NEW c \in Conns, ClientStep(c) PROVE LockInv'
  <2>1. CASE BeginTx(c) \/ StalePlan(c) \/ Deallocate(c)
    BY <2>1 DEF BeginTx, StalePlan, Deallocate
  <2>2. CASE CreateIndex(c)
    BY <2>2, <1>d DEF CreateIndex, Unused, NotExclusive, Goes, Asks
  <2>3. CASE RunSelect(c) \/ Explain(c) \/ Analyze(c) \/ DropIndex(c)
    BY <2>3, <1>a DEF RunSelect, Explain, Analyze, DropIndex, Goes, Asks
  <2>4. CASE StartInsert(c)
    BY <2>4, <1>d DEF StartInsert, NotExclusive, Goes, Asks
  <2>5. CASE ExecutePrepared(c)
    <3>1. CASE prepared[c].kind = "select"
      BY <2>5, <3>1, <1>a DEF ExecutePrepared, Goes
    <3>2. CASE prepared[c].kind # "select"
      BY <2>5, <3>2, <1>d DEF ExecutePrepared, NotExclusive, Goes
    <3> QED
      BY <3>1, <3>2
  <2>6. ASSUME NEW kind \in {"select", "insert"}, Prepare(c, kind) PROVE LockInv'
    BY <2>6, <1>a DEF Prepare, Goes, Asks
  <2>7. ASSUME NEW verdict \in {"committed", "rolled_back"}, EndTransaction(c, verdict)
        PROVE LockInv'
    BY <2>7 DEF EndTransaction
  <2> QED
    BY <1>2, <2>1, <2>2, <2>3, <2>4, <2>5, <2>6, <2>7 DEF ClientStep
<1>3. ASSUME NEW c \in Conns, Disconnect(c) PROVE LockInv'
  BY <1>3, <1>a DEF Disconnect, Goes
<1>4. CASE ReclaimRows
  BY <1>4 DEF ReclaimRows, connVars
<1>5. CASE Restart
  BY <1>5 DEF Restart
<1> QED
  BY <1>0, <1>1, <1>2, <1>3, <1>4, <1>5 DEF SessionNext

LEMMA StepRows ==
  ASSUME TypeInv, IdInv, LockInv, RowInv, [SessionNext]_sessionVars PROVE RowInv'
<1> USE DEF RowInv
<1>d. /\ DOMAIN step = Conns /\ DOMAIN scanned = Conns /\ DOMAIN table_rows = Rows
      /\ \A c \in Conns : scanned[c] \subseteq Rows
  BY DEF TypeInv, SessionTypeOK
<1>0. CASE UNCHANGED sessionVars
  BY <1>0 DEF sessionVars, connVars, tableVars
<1>1. ASSUME NEW c \in Conns, ServerStep(c) PROVE RowInv'
  <2>1. CASE EndStream(c) \/ StampPlan(c) \/ ReadSchema(c)
    BY <2>1, <1>d DEF EndStream, StampPlan, ReadSchema, Goes, tableVars
  <2>2. CASE EnterRow(c)
    BY <2>2, <1>d DEF EnterRow, Goes
  <2>3. CASE FailInsert(c)
    <3>1. /\ step' = [step EXCEPT ![c] = "idle"] /\ scanned' = [scanned EXCEPT ![c] = {}]
          /\ table_rows' = [r \in Rows |-> IF r \in scanned[c] THEN 0 ELSE table_rows[r]]
          /\ step[c] \in {"write", "enter"}
      BY <2>3 DEF FailInsert, Goes
    <3>2. \A d \in Conns \ {c} : step[d] \in {"enter", "finish"} =>
             scanned[c] \cap scanned[d] = {}
      BY <3>1 DEF LockInv
    <3> QED
      BY <3>1, <3>2, <1>d
  <2>4. CASE BuildStep(c)
    <3>1. CASE PublishIndex(c) \/ EndPhase1(c) \/ FlipBuilding(c) \/ EndPhase3(c)
      BY <3>1, <1>d DEF PublishIndex, EndPhase1, FlipBuilding, EndPhase3, Goes
    <3>2. CASE ScanTable(c) \/ Filled(c)
      BY <3>2, <1>d DEF ScanTable, Filled, Goes, tableVars
    <3>3. ASSUME NEW r \in Rows, FillRow(c, r) PROVE RowInv'
      BY <3>3, <1>d DEF FillRow
    <3>4. CASE FinalizeIndex(c)
      <4>1. step'[c] \in {"idle", "flip"} /\ \A d \in Conns : d # c => step'[d] = step[d]
        BY <3>4, <1>d DEF FinalizeIndex, Goes
      <4> QED
        BY <3>4, <4>1, <1>d DEF FinalizeIndex, tableVars
    <3> QED
      BY <2>4, <3>1, <3>2, <3>3, <3>4 DEF BuildStep
  <2>8. CASE CatalogStep(c)
    BY <2>8, <1>d DEF CatalogStep, TakeAway, EndDrop, PutStatistics, EndAnalyze, Goes
  <2>5. ASSUME NEW verdict \in {"committed", "rolled_back"}, FinishInsert(c, verdict)
        PROVE RowInv'
    BY <2>5, <1>d DEF FinishInsert, Goes, tableVars
  <2>6. ASSUME NEW r \in Rows, WriteRow(c, r) PROVE RowInv'
    <3>1. /\ step' = [step EXCEPT ![c] = "enter"] /\ scanned' = [scanned EXCEPT ![c] = {r}]
          /\ table_rows' = [table_rows EXCEPT ![r] = current_tx[c]]
          /\ table_rows[r] = 0 /\ current_tx[c] # 0
      BY <2>6 DEF WriteRow, Goes, IdInv, TxSteps
    <3> QED
      BY <3>1, <1>d
  <2> QED
    BY <1>1, <2>1, <2>2, <2>3, <2>4, <2>5, <2>6, <2>8 DEF ServerStep
<1>2. ASSUME NEW c \in Conns, ClientStep(c) PROVE RowInv'
  <2>1. CASE BeginTx(c) \/ StalePlan(c) \/ Deallocate(c)
    BY <2>1 DEF BeginTx, StalePlan, Deallocate, tableVars
  <2>2. CASE DropIndex(c)
    BY <2>2, <1>d DEF DropIndex, Goes
  <2>3. CASE RunSelect(c) \/ Explain(c) \/ StartInsert(c) \/ CreateIndex(c) \/ Analyze(c)
    BY <2>3, <1>d DEF RunSelect, Explain, StartInsert, CreateIndex, Analyze, Goes, tableVars
  <2>4. CASE ExecutePrepared(c)
    BY <2>4, <1>d DEF ExecutePrepared, Goes, tableVars
  <2>5. ASSUME NEW kind \in {"select", "insert"}, Prepare(c, kind) PROVE RowInv'
    BY <2>5, <1>d DEF Prepare, Goes, tableVars
  <2>6. ASSUME NEW verdict \in {"committed", "rolled_back"}, EndTransaction(c, verdict)
        PROVE RowInv'
    BY <2>6 DEF EndTransaction, tableVars
  <2> QED
    BY <1>2, <2>1, <2>2, <2>3, <2>4, <2>5, <2>6 DEF ClientStep
<1>3. ASSUME NEW c \in Conns, Disconnect(c) PROVE RowInv'
  BY <1>3, <1>d DEF Disconnect, Goes, tableVars
<1>4. CASE ReclaimRows
  <2>1. \A c \in Conns : step[c] \notin {"enter", "finish"}
    BY <1>4 DEF ReclaimRows, Unused, LockInv
  <2> QED
    BY <1>4, <2>1 DEF ReclaimRows, connVars
<1>5. CASE Restart
  BY <1>5 DEF Restart
<1> QED
  BY <1>0, <1>1, <1>2, <1>3, <1>4, <1>5 DEF SessionNext

\* The workload is chosen once.
LEMMA LoadKept == ASSUME [SessionNext]_sessionVars PROVE session_load' = session_load
  BY ZenonT(60) DEF SessionNext, sessionVars, ServerStep, ClientStep, EndStream, ReadSchema, EnterRow,
         FailInsert, BuildStep, PublishIndex, EndPhase1, ScanTable, Filled, FillRow,
         FinalizeIndex, FlipBuilding, EndPhase3, CatalogStep, TakeAway, EndDrop,
         PutStatistics, EndAnalyze, StampPlan, FinishInsert, WriteRow, BeginTx, RunSelect, Explain, StartInsert,
         CreateIndex, DropIndex, Analyze, StalePlan, ExecutePrepared, Deallocate, Prepare,
         EndTransaction, Disconnect, ReclaimRows, Restart

LEMMA StepAsks ==
  ASSUME TypeInv, LockInv, AskInv, [SessionNext]_sessionVars PROVE AskInv'
<1> USE DEF AskInv, Building, Inserters, Builders
<1>d. /\ DOMAIN step = Conns /\ DOMAIN table_rows = Rows /\ DOMAIN prepared = Conns
      /\ DOMAIN schema_seen = Conns
      /\ \A c \in Conns : prepared[c].kind \in {"none", "select", "insert"}
      /\ \A c \in Conns : prepared[c] \in Plans
  BY PlansType DEF TypeInv, SessionTypeOK
<1>b. \A what : Being(what)' <=> Being(what)
  BY LoadKept DEF Being
<1>0. CASE UNCHANGED sessionVars
  BY <1>0, <1>b DEF sessionVars, connVars, tableVars
\* A step that leaves the plans, the schemas read and the table alone.
<1>a. ASSUME NEW c \in Conns, NEW where, step' = step \/ step' = [step EXCEPT ![c] = where],
             where \in {"plan", "write", "enter", "finish"} => Inserters,
             where \in {"phase1", "published", "scan", "fill", "finalize", "flip", "usable"}
               => Builders,
             where \in {"drop", "dropped"} => Being("drop_index"),
             prepared' = prepared, schema_seen' = schema_seen, table_rows' = table_rows,
             index' # "absent" \/ index_entries' # {} => Builders
      PROVE  AskInv'
  BY <1>a, <1>b, <1>d
<1>1. ASSUME NEW c \in Conns, ServerStep(c) PROVE AskInv'
  <2>1. CASE EndStream(c)
    BY <2>1, <1>a DEF EndStream, Goes, tableVars
  <2>2. CASE ReadSchema(c)
    BY <2>2, <1>b, <1>d DEF ReadSchema, Goes, tableVars
  <2>3. CASE EnterRow(c)
    BY <2>3, <1>a DEF EnterRow, PutBack, Goes
  <2>4. CASE FailInsert(c)
    BY <2>4, <1>b, <1>d DEF FailInsert, Goes
  <2>5. CASE BuildStep(c)
    <3>1. Building(c)
      BY <2>5 DEF BuildStep, PublishIndex, EndPhase1, ScanTable, Filled, FillRow, FinalizeIndex,
                  FlipBuilding, EndPhase3
    <3>2. CASE PublishIndex(c) \/ EndPhase1(c) \/ FlipBuilding(c) \/ EndPhase3(c)
      BY <3>1, <3>2, <1>a DEF PublishIndex, EndPhase1, FlipBuilding, EndPhase3, Goes
    <3>3. CASE ScanTable(c) \/ Filled(c)
      BY <3>1, <3>3, <1>a DEF ScanTable, Filled, Goes, tableVars
    <3>4. ASSUME NEW r \in Rows, FillRow(c, r) PROVE AskInv'
      BY <3>1, <3>4, <1>a DEF FillRow
    <3>5. CASE FinalizeIndex(c)
      <4>1. step'[c] \in {"idle", "flip"} /\ \A d \in Conns : d # c => step'[d] = step[d]
        BY <3>5, <1>d DEF FinalizeIndex, Goes
      <4>2. \A d \in Conns : schema_seen'[d] # "absent" => Builders
        BY <3>1, <3>5, <1>d DEF FinalizeIndex
      <4> QED
        BY <3>1, <3>5, <4>1, <4>2, <1>b, <1>d DEF FinalizeIndex, tableVars
    <3> QED
      BY <2>5, <3>2, <3>3, <3>4, <3>5 DEF BuildStep
  <2>6. CASE CatalogStep(c)
    BY <2>6, <1>a DEF CatalogStep, TakeAway, EndDrop, PutStatistics, EndAnalyze, PutBack, Goes
  <2>7. ASSUME NEW verdict \in {"committed", "rolled_back"}, FinishInsert(c, verdict)
        PROVE AskInv'
    BY <2>7, <1>a DEF FinishInsert, Goes, tableVars
  <2>8. ASSUME NEW r \in Rows, WriteRow(c, r) PROVE AskInv'
    BY <2>8, <1>b, <1>d DEF WriteRow, Goes
  <2>9. CASE StampPlan(c)
    <3>1. \A d \in Conns : /\ prepared'[d].kind = prepared[d].kind
                           /\ prepared'[d].index = prepared[d].index
      BY <2>9, <1>d DEF StampPlan, Plans
    <3> QED
      BY <2>9, <3>1, <1>b, <1>d DEF StampPlan, Goes, tableVars
  <2> QED
    BY <1>1, <2>1, <2>2, <2>3, <2>4, <2>5, <2>6, <2>7, <2>8, <2>9 DEF ServerStep
<1>2. ASSUME NEW c \in Conns, ClientStep(c) PROVE AskInv'
  <2>1. CASE BeginTx(c)
    BY <2>1, <1>b DEF BeginTx, tableVars
  <2>2. CASE DropIndex(c)
    <3>1. Being("drop_index")
      BY <2>2 DEF DropIndex, Asks, Being
    <3> QED
      BY <2>2, <3>1, <1>a DEF DropIndex, Goes
  <2>3. CASE Explain(c)
    BY <2>3, <1>a DEF Explain, Goes, tableVars
  <2>4. CASE StartInsert(c)
    <3>1. Inserters
      BY <2>4 DEF StartInsert, Asks, Being
    <3> QED
      BY <2>4, <3>1, <1>a DEF StartInsert, Goes, tableVars
  <2>5. CASE CreateIndex(c)
    <3>1. Builders
      BY <2>5 DEF CreateIndex, Asks, Being
    <3> QED
      BY <2>5, <3>1, <1>a DEF CreateIndex, Goes, tableVars
  <2>6. CASE RunSelect(c) \/ Analyze(c)
    BY <2>6, <1>b, <1>d DEF RunSelect, Analyze, Goes, tableVars
  <2>7. CASE ExecutePrepared(c)
    <3>1. /\ schema_seen' = [schema_seen EXCEPT ![c] = prepared[c].index]
          /\ prepared' = prepared /\ table_rows' = table_rows
          /\ index' = index /\ index_entries' = index_entries
          /\ \/ step' = [step EXCEPT ![c] = "stream"]
             \/ step' = [step EXCEPT ![c] = "plan"] /\ prepared[c].kind = "insert"
      BY <2>7, <1>d DEF ExecutePrepared, Goes, tableVars
    <3> QED
      BY <3>1, <1>b, <1>d
  <2>8. ASSUME NEW kind \in {"select", "insert"}, Prepare(c, kind) PROVE AskInv'
    <3>1. kind = "insert" => Being("prepare_insert")
      BY <2>8 DEF Prepare, Asks, Being
    <3>2. \A d \in Conns : prepared'[d] = IF d = c
             THEN [kind |-> kind, version |-> schema_version, index |-> index, raced |-> FALSE]
             ELSE prepared[d]
      BY <2>8, <1>d DEF Prepare
    <3> QED
      BY <2>8, <3>1, <3>2, <1>b, <1>d DEF Prepare, Goes, tableVars
  <2>9. ASSUME NEW verdict \in {"committed", "rolled_back"}, EndTransaction(c, verdict)
        PROVE AskInv'
    BY <2>9, <1>b DEF EndTransaction, tableVars
  <2>10. CASE StalePlan(c) \/ Deallocate(c)
    BY <2>10, <1>b, <1>d DEF StalePlan, Deallocate, NoPlan, tableVars
  <2> QED
    BY <1>2, <2>1, <2>2, <2>3, <2>4, <2>5, <2>6, <2>7, <2>8, <2>9, <2>10 DEF ClientStep
<1>3. ASSUME NEW c \in Conns, Disconnect(c) PROVE AskInv'
  BY <1>3, <1>b, <1>d DEF Disconnect, Goes, tableVars, NoPlan
<1>4. CASE ReclaimRows
  BY <1>4, <1>b DEF ReclaimRows, connVars
<1>5. CASE Restart
  <2>1. index' # "absent" \/ index_entries' # {} => Builders
    BY <1>5, RestartIndex DEF Restart
  <2> QED
    BY <1>5, <2>1, <1>b DEF Restart, NoPlan
<1> QED
  BY <1>0, <1>1, <1>2, <1>3, <1>4, <1>5 DEF SessionNext

-----------------------------------------------------------------------------
(* The catalog *)

\* An index that CREATE INDEX has made usable is so in the catalog and in the schema that
\* a running INSERT will put back, and no CREATE INDEX of its name is starting.
SchemaInv ==
    /\ created = "yes" => index = "ready"
    /\ \A c \in Conns :
          /\ step[c] \in {"write", "enter"} /\ created = "yes" => schema_seen[c] = "ready"
          /\ step[c] = "phase1" => created # "yes"

\* The catalog is ahead of the version.
Ahead == \E c \in Conns : step[c] \in Unannounced

\* A plan's version is not ahead of the catalog's, and a plan of the current version,
\* stamped or about to be, was made from an index as usable as it is now.
PlanInv ==
    \A c \in Conns : prepared[c].kind # "none" =>
        /\ prepared[c].version <= schema_version
        /\ step[c] = "stamp" => ~prepared[c].raced
        /\ prepared[c].version = schema_version /\ ~prepared[c].raced
             /\ "insert" \notin stale /\ ~Ahead =>
              (prepared[c].index = "ready" <=> index = "ready")

LEMMA StepSchema ==
  ASSUME TypeInv, LockInv, SchemaInv, [SessionNext]_sessionVars
  PROVE  SchemaInv'
<1> USE DEF SchemaInv, Exclusive
<1>d. DOMAIN step = Conns /\ DOMAIN schema_seen = Conns
  BY DEF TypeInv, SessionTypeOK
<1>0. CASE UNCHANGED sessionVars
  BY <1>0 DEF sessionVars, connVars, tableVars, history
\* A step that leaves the catalog alone, and the schemas that INSERTs will put back.
<1>a. ASSUME NEW c \in Conns, NEW where, step' = step \/ step' = [step EXCEPT ![c] = where],
             where \in {"write", "enter"} => step[c] \in {"write", "enter"},
             where # "phase1", \A d \in Conns \ {c} : schema_seen'[d] = schema_seen[d],
             step[c] \in {"write", "enter"} => schema_seen'[c] = schema_seen[c],
             index' = index, created' = created
      PROVE  SchemaInv'
  BY <1>a, <1>d
<1>1. ASSUME NEW c \in Conns, ServerStep(c) PROVE SchemaInv'
  <2>1. CASE EndStream(c) \/ StampPlan(c)
    BY <2>1, <1>a DEF EndStream, StampPlan, Goes, tableVars, history
  <2>2. CASE ReadSchema(c)
    BY <2>2, <1>d DEF ReadSchema, Goes, tableVars, history
  <2>3. CASE EnterRow(c)
    BY <2>3, <1>d DEF EnterRow, PutBack, Goes
  <2>4. CASE FailInsert(c)
    BY <2>4, <1>a DEF FailInsert, Goes, history
  <2>5. CASE BuildStep(c)
    <3>1. CASE PublishIndex(c)
      BY <3>1, <1>d DEF PublishIndex, Goes, LockInv, history
    <3>2. CASE EndPhase1(c) \/ EndPhase3(c)
      BY <3>2, <1>a DEF EndPhase1, EndPhase3, Goes, history
    <3>3. CASE ScanTable(c) \/ Filled(c)
      BY <3>3, <1>a DEF ScanTable, Filled, Goes, tableVars, history
    <3>4. ASSUME NEW r \in Rows, FillRow(c, r) PROVE SchemaInv'
      BY <3>4 DEF FillRow, history
    <3>5. CASE FinalizeIndex(c)
      <4>1. /\ step[c] = "finalize"
            /\ step'[c] \in {"idle", "flip"} /\ \A d \in Conns : d # c => step'[d] = step[d]
            /\ \A d \in Conns : d # c => schema_seen'[d] = schema_seen[d]
            /\ index' = index /\ created' = created
        BY <3>5, <1>d DEF FinalizeIndex, Goes, tableVars, history
      <4> QED
        BY <4>1
    <3>6. CASE FlipBuilding(c)
      <4>1. \A d \in Conns : /\ step'[d] \notin {"write", "enter", "phase1"}
        BY <3>6, <1>d DEF FlipBuilding, Goes, LockInv
      <4> QED
        BY <3>6, <4>1 DEF FlipBuilding
    <3> QED
      BY <2>5, <3>1, <3>2, <3>3, <3>4, <3>5, <3>6 DEF BuildStep
  <2>6. CASE CatalogStep(c)
    <3>1. CASE TakeAway(c)
      BY <3>1, <1>d DEF TakeAway, Goes
    <3>2. CASE EndDrop(c) \/ EndAnalyze(c)
      BY <3>2, <1>a DEF EndDrop, EndAnalyze, Goes, history
    <3>3. CASE PutStatistics(c)
      <4>1. created' = "yes" => created = "yes" /\ index' = index
        BY <3>3 DEF PutStatistics, PutBack
      <4> QED
        BY <3>3, <4>1, <1>d DEF PutStatistics, Goes
    <3> QED
      BY <2>6, <3>1, <3>2, <3>3 DEF CatalogStep
  <2>7. ASSUME NEW verdict \in {"committed", "rolled_back"}, FinishInsert(c, verdict)
        PROVE SchemaInv'
    BY <2>7, <1>a DEF FinishInsert, Goes, tableVars, history
  <2>8. ASSUME NEW r \in Rows, WriteRow(c, r) PROVE SchemaInv'
    BY <2>8, <1>a DEF WriteRow, Goes, history
  <2> QED
    BY <1>1, <2>1, <2>2, <2>3, <2>4, <2>5, <2>6, <2>7, <2>8 DEF ServerStep
<1>2. ASSUME NEW c \in Conns, ClientStep(c) PROVE SchemaInv'
  <2>1. CASE BeginTx(c) \/ StalePlan(c) \/ Deallocate(c)
    BY <2>1 DEF BeginTx, StalePlan, Deallocate, tableVars, history
  <2>2. CASE DropIndex(c)
    BY <2>2, <1>a DEF DropIndex, Goes, history
  <2>3. CASE RunSelect(c) \/ Explain(c) \/ StartInsert(c) \/ Analyze(c)
    BY <2>3, <1>a, <1>d
       DEF RunSelect, Explain, StartInsert, Analyze, Goes, Asks, tableVars, history
  <2>4. CASE CreateIndex(c)
    BY <2>4, <1>d DEF CreateIndex, Goes, tableVars, history
  <2>5. CASE ExecutePrepared(c)
    <3>1. \/ step' = [step EXCEPT ![c] = "stream"]
          \/ step' = [step EXCEPT ![c] = "plan"]
      BY <2>5 DEF ExecutePrepared, Goes
    <3> QED
      BY <2>5, <3>1, <1>a, <1>d DEF ExecutePrepared, tableVars, history
  <2>6. ASSUME NEW kind \in {"select", "insert"}, Prepare(c, kind) PROVE SchemaInv'
    BY <2>6, <1>a DEF Prepare, Goes, tableVars, history
  <2>7. ASSUME NEW verdict \in {"committed", "rolled_back"}, EndTransaction(c, verdict)
        PROVE SchemaInv'
    BY <2>7 DEF EndTransaction, tableVars, history
  <2> QED
    BY <1>2, <2>1, <2>2, <2>3, <2>4, <2>5, <2>6, <2>7 DEF ClientStep
<1>3. ASSUME NEW c \in Conns, Disconnect(c) PROVE SchemaInv'
  BY <1>3, <1>a DEF Disconnect, Goes, tableVars, history
<1>4. CASE ReclaimRows
  BY <1>4 DEF ReclaimRows, connVars, history
<1>5. CASE Restart
  BY <1>5 DEF Restart
<1> QED
  BY <1>0, <1>1, <1>2, <1>3, <1>4, <1>5 DEF SessionNext

LEMMA StepPlans ==
  ASSUME TypeInv, PlanInv, [SessionNext]_sessionVars PROVE PlanInv'
<1> USE DEF PlanInv
<1>d. /\ DOMAIN step = Conns /\ schema_version \in Nat /\ DOMAIN prepared = Conns
      /\ \A d \in Conns : prepared[d] \in Plans /\ prepared[d].version \in Nat
  BY PlansType, SessionConstants DEF TypeInv, SessionTypeOK, Plans
<1>0. CASE UNCHANGED sessionVars
  BY <1>0 DEF sessionVars, connVars, tableVars, history, Ahead
\* Between the put and the bump of a schema change no plan is spoken of ...
<1>p. ASSUME NEW c \in Conns, NEW where \in Unannounced, prepared' = prepared,
             step' = [step EXCEPT ![c] = where], schema_version' = schema_version
      PROVE  PlanInv'
  <2>1. Ahead'
    BY <1>p, <1>d DEF Ahead
  <2>2. \A d \in Conns : step'[d] = "stamp" => step[d] = "stamp"
    BY <1>p, <1>d DEF Unannounced
  <2> QED
    BY <1>p, <2>1, <2>2
\* ... the bump leaves every plan behind ...
<1>a. ASSUME NEW c \in Conns, NEW where, prepared' = prepared, where # "stamp",
             step' = step \/ step' = [step EXCEPT ![c] = where], Bump
      PROVE  PlanInv'
  BY <1>a, <1>d DEF Bump
\* ... and otherwise the plans are as good as before.
<1>c. ASSUME NEW c \in Conns, NEW where, prepared' = prepared,
             where \notin Unannounced, where # "stamp", step[c] \notin Unannounced,
             step' = step \/ step' = [step EXCEPT ![c] = where],
             schema_version' = schema_version, stale \subseteq stale',
             index' = index \/ "insert" \in stale'
      PROVE  PlanInv'
  <2>1. Ahead' <=> Ahead
    BY <1>c, <1>d DEF Ahead
  <2> QED
    BY <1>c, <2>1, <1>d
<1>1. ASSUME NEW c \in Conns, ServerStep(c) PROVE PlanInv'
  <2> USE DEF Unannounced
  <2>1. CASE EndStream(c) \/ ReadSchema(c)
    BY <2>1, <1>c DEF EndStream, ReadSchema, Goes, tableVars, history
  <2>2. CASE EnterRow(c)
    <3>1. stale \subseteq stale' /\ (index' = index \/ "insert" \in stale')
      BY <2>2 DEF EnterRow, PutBack
    <3> QED
      BY <2>2, <3>1, <1>c DEF EnterRow, Goes
  <2>3. CASE FailInsert(c)
    BY <2>3, <1>c DEF FailInsert, Goes, history
  <2>4. CASE BuildStep(c)
    <3>1. CASE PublishIndex(c) \/ FlipBuilding(c)
      BY <3>1, <1>p DEF PublishIndex, FlipBuilding, Goes
    <3>2. CASE EndPhase1(c) \/ EndPhase3(c)
      BY <3>2, <1>a DEF EndPhase1, EndPhase3, Goes
    <3>3. CASE ScanTable(c) \/ Filled(c)
      BY <3>3, <1>c DEF ScanTable, Filled, Goes, tableVars, history
    <3>4. ASSUME NEW r \in Rows, FillRow(c, r) PROVE PlanInv'
      BY <3>4, <1>c DEF FillRow, history
    <3>5. CASE FinalizeIndex(c)
      <4>1. \/ step' = [step EXCEPT ![c] = "idle"]
            \/ step' = [step EXCEPT ![c] = "flip"]
        BY <3>5 DEF FinalizeIndex, Goes
      <4> QED
        BY <3>5, <4>1, <1>c DEF FinalizeIndex, tableVars, history
    <3> QED
      BY <2>4, <3>1, <3>2, <3>3, <3>4, <3>5 DEF BuildStep
  <2>5. CASE CatalogStep(c)
    <3>1. CASE TakeAway(c) \/ PutStatistics(c)
      BY <3>1, <1>p DEF TakeAway, PutStatistics, Goes
    <3>2. CASE EndDrop(c) \/ EndAnalyze(c)
      BY <3>2, <1>a DEF EndDrop, EndAnalyze, Goes
    <3> QED
      BY <2>5, <3>1, <3>2 DEF CatalogStep
  <2>6. ASSUME NEW verdict \in {"committed", "rolled_back"}, FinishInsert(c, verdict)
        PROVE PlanInv'
    BY <2>6, <1>c DEF FinishInsert, Goes, tableVars, history
  <2>7. ASSUME NEW r \in Rows, WriteRow(c, r) PROVE PlanInv'
    BY <2>7, <1>c DEF WriteRow, Goes, history
  <2>8. CASE StampPlan(c)
    <3>1. ASSUME NEW d \in Conns
          PROVE  /\ prepared'[d].kind = prepared[d].kind
                 /\ prepared'[d].index = prepared[d].index
                 /\ prepared'[d].version = IF d = c THEN schema_version
                                           ELSE prepared[d].version
                 /\ prepared'[d].raced <=> IF d = c THEN prepared[c].version # schema_version
                                           ELSE prepared[d].raced
      BY <2>8, <1>d DEF StampPlan, Plans
    <3>2. /\ Ahead' <=> Ahead
          /\ step[c] = "stamp" /\ step' = [step EXCEPT ![c] = "idle"]
          /\ schema_version' = schema_version /\ index' = index /\ stale' = stale
      BY <2>8, <1>d DEF StampPlan, Goes, tableVars, history, Ahead
    <3> QED
      BY <3>1, <3>2, <1>d
  <2> QED
    BY <1>1, <2>1, <2>2, <2>3, <2>4, <2>5, <2>6, <2>7, <2>8 DEF ServerStep
<1>2. ASSUME NEW c \in Conns, ClientStep(c) PROVE PlanInv'
  <2> USE DEF Unannounced
  <2>1. CASE BeginTx(c)
    BY <2>1, <1>c DEF BeginTx, Asks, tableVars, history
  <2>2. CASE CreateIndex(c) \/ DropIndex(c)
    BY <2>2, <1>c DEF CreateIndex, DropIndex, Asks, Goes, tableVars, history
  <2>3. CASE RunSelect(c) \/ Explain(c) \/ StartInsert(c) \/ Analyze(c)
    BY <2>3, <1>c DEF RunSelect, Explain, StartInsert, Analyze, Asks, Goes, tableVars, history
  <2>4. CASE ExecutePrepared(c)
    <3>1. \/ step' = [step EXCEPT ![c] = "stream"]
          \/ step' = [step EXCEPT ![c] = "plan"]
      BY <2>4 DEF ExecutePrepared, Goes
    <3> QED
      BY <2>4, <3>1, <1>c DEF ExecutePrepared, tableVars, history
  <2>5. ASSUME NEW kind \in {"select", "insert"}, Prepare(c, kind) PROVE PlanInv'
    <3>1. \A d \in Conns : prepared'[d] = IF d = c
             THEN [kind |-> kind, version |-> schema_version, index |-> index, raced |-> FALSE]
             ELSE prepared[d]
      BY <2>5, <1>d DEF Prepare
    <3>2. /\ Ahead' <=> Ahead
          /\ step' = [step EXCEPT ![c] = "stamp"]
          /\ schema_version' = schema_version /\ index' = index /\ stale' = stale
      BY <2>5, <1>d DEF Prepare, Asks, Goes, tableVars, history, Ahead
    <3> QED
      BY <3>1, <3>2, <1>d
  <2>6. ASSUME NEW verdict \in {"committed", "rolled_back"}, EndTransaction(c, verdict)
        PROVE PlanInv'
    BY <2>6, <1>c DEF EndTransaction, tableVars, history
  <2>7. CASE StalePlan(c) \/ Deallocate(c)
    BY <2>7, <1>d DEF StalePlan, Deallocate, NoPlan, tableVars, history, Ahead
  <2> QED
    BY <1>2, <2>1, <2>2, <2>3, <2>4, <2>5, <2>6, <2>7 DEF ClientStep
<1>3. ASSUME NEW c \in Conns, Disconnect(c) PROVE PlanInv'
  <2>1. /\ Ahead' <=> Ahead
        /\ step' = [step EXCEPT ![c] = "closed"] /\ prepared' = [prepared EXCEPT ![c] = NoPlan]
        /\ schema_version' = schema_version /\ index' = index /\ stale' = stale
    BY <1>3, <1>d DEF Disconnect, Goes, tableVars, history, Ahead, Unannounced
  <2> QED
    BY <2>1, <1>d DEF NoPlan
<1>4. CASE ReclaimRows
  BY <1>4 DEF ReclaimRows, connVars, history, Ahead
<1>5. CASE Restart
  BY <1>5 DEF Restart, NoPlan
<1> QED
  BY <1>0, <1>1, <1>2, <1>3, <1>4, <1>5 DEF SessionNext

-----------------------------------------------------------------------------
(* The index and the table *)

\* r is in the table and its INSERT has yet to enter it.
Entering(r) == \E c \in Conns : step[c] = "enter" /\ r \in scanned[c]

\* Every entry has its row, as has every row a builder has collected.
EntriesInv ==
    /\ \A r \in index_entries : table_rows[r] # 0
    /\ \A c \in Conns : step[c] = "fill" => \A r \in scanned[c] : table_rows[r] # 0

\* A row is in the index, or its INSERT will enter it: from the moment the builder has
\* collected the rows, who counts for the ones it has not entered yet.  While an index
\* is built nobody takes it out of the catalog, so that INSERTs maintain it.
BuildInv ==
    /\ \A c \in Conns :
          /\ step[c] = "phase1" => index = "absent" \/ Being("drop_index")
          /\ step[c] \in {"published", "scan", "fill", "finalize", "flip"} =>
                index # "absent" \/ Being("drop_index")
    /\ \A c \in Conns : step[c] = "fill" => \A r \in Rows :
          table_rows[r] # 0 => r \in index_entries \/ r \in scanned[c] \/ Entering(r)
    /\ \A c \in Conns : step[c] \in {"finalize", "flip"} => \A r \in Rows :
          table_rows[r] # 0 => r \in index_entries \/ Entering(r)
    /\ index = "ready" => \A r \in Rows :
          table_rows[r] # 0 => r \in index_entries \/ Entering(r)

\* A schema that is not the catalog's any more leaves its trace.
LEMMA StaleGrows ==
  ASSUME [SessionNext]_sessionVars, stale' = {} PROVE stale = {}
<1>1. CASE UNCHANGED sessionVars
  BY <1>1 DEF sessionVars, history
<1>2. ASSUME NEW c \in Conns, ServerStep(c) PROVE stale = {}
  <2>1. CASE EnterRow(c) \/ PutStatistics(c)
    BY <2>1 DEF EnterRow, PutStatistics, PutBack
  <2>2. CASE ~EnterRow(c) /\ ~PutStatistics(c)
    BY <1>2, <2>2, ZenonT(60) DEF ServerStep, EndStream, ReadSchema, FailInsert, StampPlan,
       BuildStep, PublishIndex, EndPhase1, ScanTable, Filled, FillRow, FinalizeIndex,
       FlipBuilding, EndPhase3, CatalogStep, TakeAway, EndDrop, EndAnalyze, FinishInsert,
       WriteRow, history
  <2> QED
    BY <2>1, <2>2
<1>3. ASSUME NEW c \in Conns, ClientStep(c) \/ Disconnect(c) PROVE stale = {}
  BY <1>3, ZenonT(60) DEF ClientStep, BeginTx, RunSelect, Explain, StartInsert, CreateIndex,
     DropIndex, Analyze, StalePlan, ExecutePrepared, Deallocate, Prepare, EndTransaction,
     Disconnect, history
<1>4. CASE ReclaimRows \/ Restart
  BY <1>4 DEF ReclaimRows, Restart, history
<1> QED
  BY <1>1, <1>2, <1>3, <1>4 DEF SessionNext

LEMMA StepEntries ==
  ASSUME TypeInv, LockInv, RowInv, AskInv, FailApart, EntriesInv, [SessionNext]_sessionVars
  PROVE  EntriesInv'
<1> USE DEF EntriesInv
<1>d. /\ DOMAIN step = Conns /\ DOMAIN scanned = Conns /\ DOMAIN table_rows = Rows
      /\ index_entries \subseteq Rows
      /\ \A c \in Conns : scanned[c] \subseteq Rows
  BY DEF TypeInv, SessionTypeOK
<1>0. CASE UNCHANGED sessionVars
  BY <1>0 DEF sessionVars, connVars, tableVars
<1>1. ASSUME NEW c \in Conns, ServerStep(c) PROVE EntriesInv'
  <2>1. CASE EndStream(c) \/ StampPlan(c) \/ ReadSchema(c)
    BY <2>1, <1>d DEF EndStream, StampPlan, ReadSchema, Goes, tableVars
  <2>2. CASE EnterRow(c)
    <3>1. \A r \in scanned[c] : table_rows[r] # 0
      BY <2>2 DEF EnterRow, RowInv
    <3>2. index_entries' \subseteq index_entries \cup scanned[c]
      BY <2>2 DEF EnterRow
    <3> QED
      BY <2>2, <3>1, <3>2, <1>d DEF EnterRow, Goes
  <2>3. CASE CatalogStep(c)
    BY <2>3, <1>d DEF CatalogStep, TakeAway, EndDrop, PutStatistics, EndAnalyze, Goes
  <2>4. CASE FailInsert(c)
    <3>1. ~Being("create_index")
      BY <2>4 DEF FailInsert, FailApart
    <3>2. index_entries = {} /\ \A d \in Conns : step[d] # "fill"
      BY <3>1 DEF AskInv, Building, Builders
    <3> QED
      BY <2>4, <3>2, <1>d DEF FailInsert, Goes
  <2>5. CASE BuildStep(c)
    <3>1. CASE PublishIndex(c) \/ EndPhase1(c) \/ FlipBuilding(c) \/ EndPhase3(c)
      BY <3>1, <1>d DEF PublishIndex, EndPhase1, FlipBuilding, EndPhase3, Goes
    <3>2. CASE ScanTable(c) \/ Filled(c)
      BY <3>2, <1>d DEF ScanTable, Filled, Stored, Goes, tableVars
    <3>3. ASSUME NEW r \in Rows, FillRow(c, r) PROVE EntriesInv'
      BY <3>3, <1>d DEF FillRow
    <3>4. CASE FinalizeIndex(c)
      <4>1. step'[c] \in {"idle", "flip"} /\ \A d \in Conns : d # c => step'[d] = step[d]
        BY <3>4, <1>d DEF FinalizeIndex, Goes
      <4> QED
        BY <3>4, <4>1, <1>d DEF FinalizeIndex, tableVars
    <3> QED
      BY <2>5, <3>1, <3>2, <3>3, <3>4 DEF BuildStep
  <2>6. ASSUME NEW verdict \in {"committed", "rolled_back"}, FinishInsert(c, verdict)
        PROVE EntriesInv'
    BY <2>6, <1>d DEF FinishInsert, Goes, tableVars
  <2>7. ASSUME NEW r \in Rows, WriteRow(c, r) PROVE EntriesInv'
    BY <2>7, <1>d DEF WriteRow, Goes
  <2> QED
    BY <1>1, <2>1, <2>2, <2>3, <2>4, <2>5, <2>6, <2>7 DEF ServerStep
<1>2. ASSUME NEW c \in Conns, ClientStep(c) PROVE EntriesInv'
  <2>1. CASE BeginTx(c) \/ StalePlan(c) \/ Deallocate(c)
    BY <2>1 DEF BeginTx, StalePlan, Deallocate, tableVars
  <2>2. CASE DropIndex(c)
    BY <2>2, <1>d DEF DropIndex, Goes
  <2>3. CASE RunSelect(c) \/ Explain(c) \/ StartInsert(c) \/ CreateIndex(c) \/ Analyze(c)
    BY <2>3, <1>d DEF RunSelect, Explain, StartInsert, CreateIndex, Analyze, Goes, tableVars
  <2>4. CASE ExecutePrepared(c)
    BY <2>4, <1>d DEF ExecutePrepared, Goes, tableVars
  <2>5. ASSUME NEW kind \in {"select", "insert"}, Prepare(c, kind) PROVE EntriesInv'
    BY <2>5, <1>d DEF Prepare, Goes, tableVars
  <2>6. ASSUME NEW verdict \in {"committed", "rolled_back"}, EndTransaction(c, verdict)
        PROVE EntriesInv'
    BY <2>6 DEF EndTransaction, tableVars
  <2> QED
    BY <1>2, <2>1, <2>2, <2>3, <2>4, <2>5, <2>6 DEF ClientStep
<1>3. ASSUME NEW c \in Conns, Disconnect(c) PROVE EntriesInv'
  BY <1>3, <1>d DEF Disconnect, Goes, tableVars
<1>4. CASE ReclaimRows
  <2>1. \A c \in Conns : step[c] # "fill"
    BY <1>4 DEF ReclaimRows, Unused, LockInv
  <2> QED
    BY <1>4, <2>1, <1>d DEF ReclaimRows, connVars
<1>5. CASE Restart
  BY <1>5 DEF Restart
<1> QED
  BY <1>0, <1>1, <1>2, <1>3, <1>4, <1>5 DEF SessionNext

LEMMA StepBuild ==
  ASSUME TypeInv, IdInv, LockInv, RowInv, AskInv, DropApart, FailApart, EntriesInv,
         BuildInv, [SessionNext]_sessionVars, stale' = {}
  PROVE  BuildInv'
<1>d. /\ DOMAIN step = Conns /\ DOMAIN scanned = Conns /\ DOMAIN table_rows = Rows
      /\ index_entries \subseteq Rows /\ index \in IndexStates
      /\ \A c \in Conns : scanned[c] \subseteq Rows
  BY DEF TypeInv, SessionTypeOK
<1>b. \A what : Being(what)' <=> Being(what)
  BY LoadKept DEF Being
<1>s. stale = {}
  BY StaleGrows
\* What is dropped while nobody inserts has no rows to miss.
<1>n. ASSUME Being("drop_index") PROVE \A r \in Rows : table_rows[r] = 0
  BY <1>n DEF DropApart, AskInv, Inserters
<1>0. CASE UNCHANGED sessionVars
  BY <1>0, <1>b DEF BuildInv, Entering, sessionVars, connVars, tableVars
\* A connection that moves between steps that neither build nor enter changes nothing.
<1>a. ASSUME NEW c \in Conns, scanned' = scanned,
             NEW where \in {"idle", "stream", "plan", "write", "analyze", "analyzed", "stamp",
                            "dropped", "usable", "closed"} \cup
                           (IF step[c] = "published" THEN {"scan"} ELSE {}),
             step' = step \/ step' = [step EXCEPT ![c] = where],
             step[c] # "enter",
             table_rows' = table_rows, index' = index, index_entries' = index_entries
      PROVE  BuildInv'
  <2>1. ASSUME NEW r \in Rows, Entering(r) PROVE Entering(r)'
    BY <1>a, <2>1, <1>d DEF Entering
  <2> QED
    BY <1>a, <1>b, <1>d, <2>1 DEF BuildInv
<1>1. ASSUME NEW c \in Conns, ServerStep(c) PROVE BuildInv'
  <2>1. CASE EndStream(c) \/ StampPlan(c) \/ ReadSchema(c)
    BY <2>1, <1>a DEF EndStream, StampPlan, ReadSchema, Goes, tableVars
  <2>2. CASE EnterRow(c)
    <3>0. index' = index /\ schema_seen[c] = index
      BY <2>2, <1>s DEF EnterRow, PutBack
    <3>1. /\ step[c] = "enter" /\ table_rows' = table_rows
          /\ scanned' = scanned /\ step' = [step EXCEPT ![c] = "finish"]
          /\ index # "absent" => index_entries' = index_entries \cup scanned[c]
          /\ index_entries \subseteq index_entries'
      BY <2>2, <3>0 DEF EnterRow, Goes
    <3>2. ASSUME NEW r \in Rows, Entering(r), index # "absent"
          PROVE  r \in index_entries' \/ Entering(r)'
      BY <3>1, <3>2, <1>d DEF Entering
    <3>3. ~Being("drop_index")
      BY <3>1 DEF AskInv, DropApart, Inserters
    <3> QED
      BY <3>0, <3>1, <3>2, <3>3, <1>b, <1>d DEF BuildInv
  <2>3. CASE CatalogStep(c)
    <3>1. CASE TakeAway(c)
      <4>1. Being("drop_index")
        BY <3>1 DEF TakeAway, AskInv
      <4> QED
        BY <3>1, <4>1, <1>b, <1>d, <1>n DEF TakeAway, Goes, BuildInv
    <3>2. CASE EndDrop(c) \/ EndAnalyze(c)
      BY <3>2, <1>a DEF EndDrop, EndAnalyze, Goes
    <3>3. CASE PutStatistics(c)
      <4>1. index' = index
        BY <3>3, <1>s DEF PutStatistics, PutBack
      <4> QED
        BY <3>3, <4>1, <1>a DEF PutStatistics, Goes
    <3> QED
      BY <2>3, <3>1, <3>2, <3>3 DEF CatalogStep
  <2>5. CASE FailInsert(c)
    <3>1. ~Being("create_index")
      BY <2>5 DEF FailInsert, FailApart
    <3>2. index = "absent" /\ \A d \in Conns : ~Building(d)
      BY <3>1 DEF AskInv, Builders
    <3> QED
      BY <2>5, <3>2, <1>d DEF FailInsert, Goes, BuildInv, Building
  <2>11. CASE PublishIndex(c)
    <3>1. /\ step[c] = "phase1" /\ step' = [step EXCEPT ![c] = "published"]
          /\ table_rows' = table_rows /\ scanned' = scanned /\ index' = "building"
      BY <2>11 DEF PublishIndex, Goes
    <3>2. CASE Being("drop_index")
      BY <3>1, <3>2, <1>b, <1>d, <1>n DEF BuildInv
    <3>3. CASE ~Being("drop_index")
      <4>1. \A d \in Conns : step[d] \notin {"published", "scan", "fill", "finalize", "flip"}
        BY <3>1, <3>3 DEF BuildInv
      <4>2. \A d \in Conns : d # c => step[d] # "phase1"
        BY <3>1 DEF LockInv, Exclusive
      <4> QED
        BY <3>1, <4>1, <4>2, <1>d DEF BuildInv
    <3> QED
      BY <3>2, <3>3
  <2>12. CASE EndPhase1(c) \/ EndPhase3(c)
    <3>1. \/ step[c] = "published" /\ step' = [step EXCEPT ![c] = "scan"]
          \/ step' = [step EXCEPT ![c] = "idle"] /\ step[c] = "usable"
      BY <2>12 DEF EndPhase1, EndPhase3, Goes
    <3> QED
      BY <2>12, <3>1, <1>a DEF EndPhase1, EndPhase3
  <2>13. CASE FinalizeIndex(c)
    <3>1. /\ step[c] = "finalize" /\ scanned' = scanned
          /\ \/ step' = [step EXCEPT ![c] = "flip"]
             \/ step' = [step EXCEPT ![c] = "idle"]
          /\ table_rows' = table_rows /\ index_entries' = index_entries /\ index' = index
      BY <2>13 DEF FinalizeIndex, Goes, tableVars
    <3>2. ASSUME NEW r \in Rows, Entering(r) PROVE Entering(r)'
      BY <3>1, <3>2, <1>d DEF Entering
    <3> QED
      BY <3>1, <3>2, <1>b, <1>d DEF BuildInv
  <2>14. CASE FlipBuilding(c)
    <3>1. /\ step[c] = "flip" /\ step' = [step EXCEPT ![c] = "usable"] /\ scanned' = scanned
          /\ table_rows' = table_rows /\ index_entries' = index_entries /\ index' = "ready"
      BY <2>14 DEF FlipBuilding, Goes
    <3>2. ASSUME NEW r \in Rows, Entering(r) PROVE Entering(r)'
      BY <3>1, <3>2, <1>d DEF Entering
    <3>3. \A d \in Conns : d # c => step[d] # "phase1"
      BY <3>1 DEF LockInv, Exclusive
    <3> QED
      BY <3>1, <3>2, <3>3, <1>b, <1>d DEF BuildInv
  <2>6. CASE ScanTable(c)
    <3>1. /\ step[c] = "scan" /\ step' = [step EXCEPT ![c] = "fill"]
          /\ scanned' = [scanned EXCEPT ![c] = {r \in Rows : table_rows[r] # 0}]
          /\ table_rows' = table_rows /\ index_entries' = index_entries /\ index' = index
      BY <2>6 DEF ScanTable, Stored, Goes, tableVars
    <3>2. ASSUME NEW r \in Rows, Entering(r) PROVE Entering(r)'
      BY <3>1, <3>2, <1>d DEF Entering
    <3> QED
      BY <3>1, <3>2, <1>b, <1>d DEF BuildInv
  <2>7. CASE Filled(c)
    <3>1. /\ step[c] = "fill" /\ step' = [step EXCEPT ![c] = "finalize"] /\ scanned[c] = {}
          /\ scanned' = scanned
          /\ table_rows' = table_rows /\ index_entries' = index_entries /\ index' = index
      BY <2>7 DEF Filled, Goes, tableVars
    <3>2. ASSUME NEW r \in Rows, Entering(r) PROVE Entering(r)'
      BY <3>1, <3>2, <1>d DEF Entering
    <3> QED
      BY <3>1, <3>2, <1>b, <1>d DEF BuildInv
  <2>8. ASSUME NEW verdict \in {"committed", "rolled_back"}, FinishInsert(c, verdict)
        PROVE BuildInv'
    <3>1. /\ step[c] = "finish" /\ step' = [step EXCEPT ![c] = "idle"]
          /\ scanned' = [scanned EXCEPT ![c] = {}]
          /\ table_rows' = table_rows /\ index_entries' = index_entries /\ index' = index
      BY <2>8 DEF FinishInsert, Goes, tableVars
    <3>2. ASSUME NEW r \in Rows, Entering(r) PROVE Entering(r)'
      BY <3>1, <3>2, <1>d DEF Entering
    <3> QED
      BY <3>1, <3>2, <1>b, <1>d DEF BuildInv
  <2>9. ASSUME NEW r \in Rows, WriteRow(c, r) PROVE BuildInv'
    <3>1. /\ step[c] = "write" /\ step' = [step EXCEPT ![c] = "enter"]
          /\ scanned' = [scanned EXCEPT ![c] = {r}] /\ scanned[c] = {}
          /\ table_rows' = [table_rows EXCEPT ![r] = current_tx[c]]
          /\ index_entries' = index_entries /\ index' = index
      BY <2>9 DEF WriteRow, Goes, LockInv
    <3>2. ASSUME NEW q \in Rows, Entering(q) PROVE Entering(q)'
      BY <3>1, <3>2, <1>d DEF Entering
    <3>3. Entering(r)'
      BY <3>1, <1>d DEF Entering
    <3> QED
      BY <3>1, <3>2, <3>3, <1>b, <1>d DEF BuildInv
  <2>10. ASSUME NEW r \in Rows, FillRow(c, r) PROVE BuildInv'
    <3>1. /\ step[c] = "fill" /\ step' = step
          /\ scanned' = [scanned EXCEPT ![c] = scanned[c] \ {r}]
          /\ table_rows' = table_rows /\ index_entries' = index_entries \cup {r}
          /\ index' = index
      BY <2>10 DEF FillRow
    <3>2. ASSUME NEW q \in Rows, Entering(q) PROVE Entering(q)'
      BY <3>1, <3>2, <1>d DEF Entering
    <3> QED
      BY <3>1, <3>2, <1>b, <1>d DEF BuildInv
  <2> QED
    BY <1>1, <2>1, <2>2, <2>3, <2>5, <2>6, <2>7, <2>8, <2>9, <2>10, <2>11, <2>12, <2>13, <2>14
       DEF ServerStep, BuildStep
<1>2. ASSUME NEW c \in Conns, ClientStep(c) PROVE BuildInv'
  <2>1. CASE BeginTx(c) \/ StalePlan(c) \/ Deallocate(c)
    BY <2>1, <1>b DEF BeginTx, StalePlan, Deallocate, tableVars, BuildInv, Entering
  <2>2. CASE DropIndex(c)
    <3>1. Being("drop_index")
      BY <2>2 DEF DropIndex, Asks, Being
    <3>2. \A d \in Conns : step'[d] # step[d] => step'[d] = "drop"
      BY <2>2, <1>d DEF DropIndex, Goes
    <3> QED
      BY <2>2, <3>1, <3>2, <1>b, <1>n DEF DropIndex, BuildInv
  <2>3. CASE RunSelect(c) \/ Explain(c) \/ StartInsert(c) \/ Analyze(c)
    BY <2>3, <1>a DEF RunSelect, Explain, StartInsert, Analyze, Goes, Asks, tableVars
  <2>4. CASE CreateIndex(c)
    <3>1. /\ index = "absent" /\ index' = index /\ index_entries' = index_entries
          /\ table_rows' = table_rows /\ scanned' = scanned
          /\ step[c] = "idle" /\ step' = [step EXCEPT ![c] = "phase1"]
      BY <2>4 DEF CreateIndex, Asks, Goes, tableVars
    <3>2. ASSUME NEW r \in Rows, Entering(r) PROVE Entering(r)'
      BY <3>1, <3>2, <1>d DEF Entering
    <3> QED
      BY <3>1, <3>2, <1>b, <1>d DEF BuildInv
  <2>5. CASE ExecutePrepared(c)
    BY <2>5, <1>a DEF ExecutePrepared, Goes, tableVars
  <2>6. ASSUME NEW kind \in {"select", "insert"}, Prepare(c, kind) PROVE BuildInv'
    <3>1. /\ step[c] = "idle" /\ step' = [step EXCEPT ![c] = "stamp"]
          /\ scanned' = scanned /\ table_rows' = table_rows
          /\ index_entries' = index_entries /\ index' = index
      BY <2>6 DEF Prepare, Goes, Asks, tableVars
    <3> QED
      BY <3>1, <1>a
  <2>7. ASSUME NEW verdict \in {"committed", "rolled_back"}, EndTransaction(c, verdict)
        PROVE BuildInv'
    BY <2>7, <1>b DEF EndTransaction, tableVars, BuildInv, Entering
  <2> QED
    BY <1>2, <2>1, <2>2, <2>3, <2>4, <2>5, <2>6, <2>7 DEF ClientStep
<1>3. ASSUME NEW c \in Conns, Disconnect(c) PROVE BuildInv'
  <2>1. /\ step[c] # "enter" /\ step' = [step EXCEPT ![c] = "closed"]
        /\ scanned' = scanned /\ table_rows' = table_rows
        /\ index_entries' = index_entries /\ index' = index
    BY <1>3 DEF Disconnect, Goes, tableVars
  <2> QED
    BY <2>1, <1>a
<1>4. CASE ReclaimRows
  <2>1. \A c \in Conns : step[c] \notin {"fill", "enter"}
    BY <1>4 DEF ReclaimRows, Unused, LockInv
  <2>2. /\ table_rows' = [r \in Rows |-> IF r \in DeadRows THEN 0 ELSE table_rows[r]]
        /\ index_entries' = index_entries \ DeadRows
        /\ index' = index /\ step' = step
    BY <1>4 DEF ReclaimRows, connVars
  <2>3. \A r \in Rows : ~Entering(r)
    BY <2>1 DEF Entering
  <2> QED
    BY <2>1, <2>2, <2>3, <1>b, <1>d DEF BuildInv
<1>5. CASE Restart
  <2>1. \A c \in Conns : step'[c] = "idle"
    BY <1>5 DEF Restart
  <2>2. ASSUME index' = "ready", NEW r \in Rows, table_rows'[r] # 0
        PROVE r \in index_entries'
    <3>1. index = "ready" /\ index_entries' = {q \in index_entries : table_rows'[q] # 0}
      BY <1>5, <2>2, RestartIndex DEF Restart
    <3>2. table_rows[r] # 0 /\ ~Entering(r)
      BY <1>5, <2>2 DEF Restart, Entering
    <3> QED
      BY <2>2, <3>1, <3>2 DEF BuildInv
  <2> QED
    BY <2>1, <2>2 DEF BuildInv
<1> QED
  BY <1>0, <1>1, <1>2, <1>3, <1>4, <1>5 DEF SessionNext

-----------------------------------------------------------------------------
(* The theorems *)

\* The inductive invariant.
SessionInv ==
    /\ TypeInv /\ IdInv /\ LockInv /\ RowInv /\ AskInv /\ SchemaInv /\ PlanInv
    /\ ExplainApart => OwnerInv
    /\ FailApart => EntriesInv
    /\ stale = {} /\ DropApart /\ FailApart => BuildInv

LEMMA InitInv == ASSUME SessionInit PROVE SessionInv
<1>1. TypeInv
  BY InitTypes
<1>2. IdInv /\ LockInv /\ RowInv /\ AskInv /\ OwnerInv
  BY DEF SessionInit, IdInv, LockInv, RowInv, AskInv, OwnerInv, TxSteps, Building, Exclusive,
         NoPlan
<1>3. SchemaInv /\ PlanInv /\ EntriesInv /\ BuildInv
  BY DEF SessionInit, SchemaInv, PlanInv, EntriesInv, BuildInv, Building, NoPlan
<1> QED
  BY <1>1, <1>2, <1>3 DEF SessionInv

LEMMA StepInv == ASSUME SessionInv, [SessionNext]_sessionVars PROVE SessionInv'
<1> USE DEF SessionInv
<1>1. /\ ExplainApart' <=> ExplainApart
      /\ DropApart' <=> DropApart
      /\ FailApart' <=> FailApart
  BY LoadKept DEF ExplainApart, DropApart, FailApart, Being, May
<1>2. TypeInv' /\ IdInv' /\ LockInv' /\ RowInv' /\ AskInv' /\ SchemaInv' /\ PlanInv'
  BY StepTypes, StepIds, StepLocks, StepRows, StepAsks, StepSchema, StepPlans
<1>3. ExplainApart => OwnerInv'
  BY StepOwners
<1>4. FailApart => EntriesInv'
  BY StepEntries
<1>5. stale' = {} /\ DropApart /\ FailApart => BuildInv'
  BY StepBuild, StaleGrows
<1> QED
  BY <1>1, <1>2, <1>3, <1>4, <1>5

LEMMA Invariance == SessionSpec => []SessionInv
  BY InitInv, StepInv, PTL DEF SessionSpec

LEMMA OwnersMeet ==
  ASSUME TypeInv, IdInv, OwnerInv PROVE InFlightIsOwned
<1>0. /\ in_flight \subseteq Nat \ {0} /\ current_tx \in [Conns -> 0..MaxTxNo]
      /\ \A c \in Conns : txn[c] \in {"none", "open", "aborted"}
  BY SessionConstants DEF TypeInv, SessionTypeOK
<1>1. in_flight = {current_tx[c] : c \in Conns} \ {0}
  <2>1. \A t \in in_flight : t # 0 /\ t \in {current_tx[c] : c \in Conns}
    BY <1>0, Zenon DEF OwnerInv
  <2>2. \A t \in {current_tx[c] : c \in Conns} \ {0} : t \in in_flight
    BY Zenon DEF IdInv
  <2> QED
    BY <2>1, <2>2, Zenon
<1>2. ASSUME NEW c \in Conns, current_tx[c] # 0
      PROVE  txn[c] = "open" \/ (txn[c] = "aborted" /\ step[c] = "idle")
               \/ step[c] \notin {"idle", "closed"} \/ "explain" \in session_load.asks[c]
  BY <1>0, <1>2 DEF OwnerInv, TxSteps
<1> QED
  BY <1>1, <1>2 DEF InFlightIsOwned

LEMMA BuildMeets ==
  ASSUME TypeInv, EntriesInv, BuildInv PROVE ReadyIndexComplete
<1>1. index_entries \subseteq Stored
  BY DEF EntriesInv, Stored, TypeInv, SessionTypeOK
<1>2. ASSUME index = "ready",
             NEW r \in Stored \ UNION {scanned[c] : c \in {d \in Conns : step[d] = "enter"}}
      PROVE  r \in index_entries
  <2>1. ~Entering(r)
    BY <1>2, Zenon DEF Entering
  <2>2. r \in Rows /\ table_rows[r] # 0
    BY <1>2, Zenon DEF Stored
  <2> QED
    BY <1>2, <2>1, <2>2 DEF BuildInv
<1> QED
  BY <1>1, <1>2, Zenon DEF ReadyIndexComplete

\* Every variable keeps its type; in particular an ID in flight has been handed out, and
\* the counter stays within its bound whoever takes IDs (TxState, SharedMeta).
THEOREM TypeCorrect == SessionSpec => []SessionTypeOK
  BY Invariance, PTL DEF SessionInv, TypeInv

\* Whatever is in flight belongs to a connection that is using it, whoever fails,
\* disconnects or restarts when: no transaction outlives its statement outside
\* BEGIN..COMMIT, nor its connection (Database::current_tx, abort_transaction), unless
\* one connection mixes EXPLAIN and BEGIN.
THEOREM TransactionsAreOwned == SessionSpec => [](ExplainApart => InFlightIsOwned)
<1>1. SessionInv => (ExplainApart => InFlightIsOwned)
  BY OwnersMeet DEF SessionInv
<1> QED
  BY <1>1, Invariance, PTL

\* From phase 3 of its CREATE INDEX on an index stays usable until it is dropped, whichever
\* schemas INSERTs and other builders put back meanwhile, unless an ANALYZE puts one back
\* that it read before: for every workload, ANALYZE beside CREATE INDEX and DROP INDEX
\* included (Catalog::put, create_index_online, analyze_table).
THEOREM CreatedIndexStays == SessionSpec => []IndexSurvives
<1>1. SessionInv => IndexSurvives
  BY DEF SessionInv, SchemaInv, IndexSurvives
<1> QED
  BY <1>1, Invariance, PTL

\* A prepared plan that the version check admits was made for an index as usable as it
\* is now, except between the put and the bump of a schema change, for a plan made while
\* the version changed, and after an INSERT has put an old schema back: for every
\* workload (Database::prepare, take_fresh_prepared_plan, bump_schema_version).
THEOREM AdmittedPlansFit == SessionSpec => []AdmittedPlanFits
<1>1. SessionInv => AdmittedPlanFits
  <2> SUFFICES ASSUME SessionInv, NEW c \in Conns, prepared[c].kind # "none",
                      prepared[c].version = schema_version, ~prepared[c].raced,
                      "insert" \notin stale, \A d \in Conns : step[d] \notin Unannounced
               PROVE  (prepared[c].index = "ready") = (index = "ready")
    BY DEF AdmittedPlanFits
  <2> QED
    BY DEF SessionInv, PlanInv, Ahead
<1> QED
  BY <1>1, Invariance, PTL

\* An index the planner may use has an entry for every row of a finished statement and
\* no entry without its row, however writers, the builder's three phases, ANALYZE, the
\* reclaimer and restarts interleave, as long as no statement has put back a schema that
\* was not the catalog's any more (create_index_online, index_insert_row,
\* reclaim_dead_rows).
THEOREM ReadyIndexesAreComplete ==
  SessionSpec => [](stale = {} /\ DropApart /\ FailApart => ReadyIndexComplete)
<1>1. SessionInv => (stale = {} /\ DropApart /\ FailApart => ReadyIndexComplete)
  BY BuildMeets DEF SessionInv
<1> QED
  BY <1>1, Invariance, PTL

=============================================================================
