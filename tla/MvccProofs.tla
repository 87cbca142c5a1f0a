----------------------------- MODULE MvccProofs -----------------------------
(***************************************************************************)
(* Proofs about row versions, snapshots and garbage collection, for every  *)
(* set of sessions and items and every number of transactions and rows.    *)
(***************************************************************************)
EXTENDS Mvcc, FiniteSetTheorems, WellFoundedInduction, TLAPS

\* A session in one of these steps runs a transaction.
Holding == {"begun", "open", "scan", "write", "record", "leave"}

\* TypeOK is inductive together with: a session that runs a transaction has its ID.
TypeInv ==
    /\ TypeOK
    /\ \A s \in Session : pc[s] \in Holding => current_tx[s] \in Tx
    /\ \A s \in Session : pc[s] \in {"idle", "reading"} => current_tx[s] = 0

\* A set of IDs that is not empty has a smallest member.
LEMMA MinOfIds ==
    ASSUME NEW S, S \subseteq Nat, S # {}
    PROVE  Min(S) \in S /\ \A x \in S : Min(S) <= x
  <1> DEFINE Less == {p \in Nat \X Nat : p[1] < p[2]}
  <1>1. IsWellFoundedOn(Less, Nat)
    BY NatLessThanWellFounded, Zenon DEF OpToRel
  <1> HIDE DEF Less
  <1>2. PICK m \in S : \A y \in S : ~(<<y, m>> \in Less)
    BY <1>1, WFMin
  <1>3. ASSUME NEW y \in S PROVE m <= y
    <2>1. y \in Nat /\ m \in Nat /\ (y < m => <<y, m>> \in Less)
      BY DEF Less
    <2>2. QED
      BY <1>2, <2>1
  <1>4. QED
    BY <1>3 DEF Min

\* The larger of two numbers.
LEMMA MaxOfTwo ==
    ASSUME NEW a \in Nat, NEW b \in Nat
    PROVE  Max({a, b}) \in {a, b} /\ Max({a, b}) >= a /\ Max({a, b}) >= b
  <1>1. \E x \in {a, b} : \A y \in {a, b} : x >= y
    OBVIOUS
  <1>2. QED
    BY <1>1 DEF Max

\* oldest_active_tx_id is the smallest ID in flight, or the next one.
LEMMA OldestActiveIsLeast ==
    ASSUME in_flight \subseteq Nat, next_tx_id \in Nat
    PROVE  /\ OldestActive \in in_flight \cup {next_tx_id}
           /\ \A t \in in_flight : OldestActive <= t
  BY MinOfIds DEF OldestActive

\* The loaded rows are numbered one to one.
LEMMA OrderIsOneToOne ==
    /\ Order \in [1..Cardinality(Loaded) -> Loaded]
    /\ \A m, n \in DOMAIN Order : Order[m] = Order[n] => m = n
    /\ Cardinality(Loaded) \in 0..MaxRow
  <1> DEFINE N == Cardinality(Loaded)
  <1>1. N \in Nat /\ ExistsBijection(1..N, Loaded)
    BY MvccConstants, FS_CardinalityType
  <1>2. \E f \in [1..N -> Loaded] : \A i \in Loaded : \E n \in DOMAIN f : f[n] = i
    BY <1>1 DEF ExistsBijection, Bijection, Surjection
  <1>3. Order \in [1..N -> Loaded] /\ \A i \in Loaded : \E n \in DOMAIN Order : Order[n] = i
    BY <1>2 DEF Order
  <1>4. Order \in Surjection(1..N, Loaded)
    BY <1>3 DEF Surjection
  <1>5. IsFiniteSet(1..N) /\ Cardinality(1..N) = N
    BY <1>1, FS_Interval
  <1>6. Order \in Injection(1..N, Loaded)
    BY <1>4, <1>5, MvccConstants, FS_SurjSameCardinalityImpliesInj
  <1>7. QED
    BY <1>1, <1>3, <1>6, MvccConstants DEF Injection, IsInjective

-----------------------------------------------------------------------------
(* Types *)

LEMMA NoStmtType == NoStmt \in Stmt
  <1>1. \E st \in Stmt : st.op = "insert"
    <2>1. PICK i : i \in Item
      BY MvccConstants
    <2>2. [op |-> "insert", item |-> i] \in Stmt
      BY <2>1 DEF Stmt, Op
    <2>3. QED
      BY <2>2
  <1>2. QED
    BY <1>1 DEF NoStmt

LEMMA NoSnapType == NoSnap \in Snap
  BY MvccConstants DEF NoSnap, Snap

\* The database after transaction 1 is well typed.
LEMMA TypeInit == Init => TypeInv
  <1> SUFFICES ASSUME Init PROVE TypeInv
    OBVIOUS
  <1> USE MvccConstants DEF Init
  <1>1. /\ DOMAIN Order = 1..Cardinality(Loaded) /\ Cardinality(Loaded) \in 0..MaxRow
        /\ \A n \in DOMAIN Order : Order[n] \in Item /\ n \in RowId
    BY OrderIsOneToOne DEF RowId
  <1>2. rows \subseteq Row /\ db \subseteq RowId
    BY <1>1 DEF Row, Tx
  <1>3. next_rowid \in 1..(MaxRow + 1)
    BY <1>1
  <1>4. /\ clog \in [Tx -> Status]
        /\ ins \in [Tx -> SUBSET RowId] /\ del \in [Tx -> SUBSET RowId]
    BY DEF Status
  <1>5. /\ stmt \in [Session -> Stmt] /\ snap \in [Session -> Snap]
    BY NoStmtType, NoSnapType
  <1>6. QED
    BY <1>2, <1>3, <1>4, <1>5 DEF TypeInv, TypeOK, Holding

\* The steps of Next, one name for each action.
LEMMA NextCases ==
    ASSUME [Next]_vars
    PROVE  /\ workload' = workload
           /\ \/ \E s \in Session : BeginTransaction(s)
              \/ \E s \in Session : \E st \in Statements(s) : AutoCommit(s, st)
              \/ \E s \in Session : TakeSnapshot(s)
              \/ \E s \in Session : \E st \in Statements(s) : Execute(s, st)
              \/ \E s \in Session : CollectCandidates(s)
              \/ \E s \in Session : Write(s)
              \/ \E s \in Session : StatementFails(s)
              \/ \E s \in Session : EndTransaction(s)
              \/ \E s \in Session : RecordOutcome(s)
              \/ \E s \in Session : LeaveInFlight(s)
              \/ \E s \in Session : StreamFails(s)
              \/ \E s \in Session : EndAborted(s)
              \/ \E s \in Session : StartRead(s)
              \/ \E s \in Session : FinishRead(s)
              \/ CaptureFloor \/ StartReclaim \/ Reclaim \/ TruncateBelow
              \/ CrashAndOpen
              \/ UNCHANGED vars
  BY Zenon DEF Next, SessionStep, vars

\* The versions a statement adds: none or one.
Adds(s) ==
    IF stmt[s].op = "delete" \/ (stmt[s].op = "update" /\ candidates[s] = {})
    THEN {} ELSE {NewVersion(s)}

LEMMA AddsCardinality ==
    ASSUME NEW s
    PROVE  \/ Adds(s) = {} /\ Cardinality(Adds(s)) = 0
           \/ Adds(s) = {NewVersion(s)} /\ Cardinality(Adds(s)) = 1
  BY FS_EmptySet, FS_Singleton DEF Adds

\* What a write statement does to the table.
LEMMA WriteEffect ==
    ASSUME NEW s \in Session, Write(s)
    PROVE  /\ pc[s] = "write"
           /\ ~ \E r \in candidates[s] : ConflictsWith(current_tx[s], r)
           /\ rows' = {r \in rows : r.id \notin {q.id : q \in candidates[s]}}
                        \cup Tombstoned(s) \cup Adds(s)
           /\ next_rowid' = next_rowid + Cardinality(Adds(s))
           /\ next_rowid' <= MaxRow + 1
           /\ ins' = [ins EXCEPT ![current_tx[s]] = @ \cup {r.id : r \in Adds(s)}]
           /\ del' = [del EXCEPT ![current_tx[s]] = @ \cup {r.id : r \in candidates[s]}]
           /\ header_next_tx' \in {header_next_tx, meta_next_tx}
           /\ candidates' = [candidates EXCEPT ![s] = {}]
           /\ stmt' = [stmt EXCEPT ![s] = NoStmt]
           /\ UNCHANGED <<clogVars, txVars, txn, current_tx, gcVars, db>>
  BY DEF Write, Adds

\* Every step of a session, the reclaimer and a restart keeps the types.
LEMMA TypeNext == TypeInv /\ [Next]_vars => TypeInv'
  <1> SUFFICES ASSUME TypeInv, [Next]_vars PROVE TypeInv'
    OBVIOUS
  <1> USE MvccConstants DEF TypeInv, TypeOK, Tx, Holding,
      fileVars, clogVars, txVars, sessionVars, gcVars, historyVars
  <1>0. workload' = workload
    BY NextCases
  <1>1. ASSUME NEW s \in Session, BeginWrite(s), pc[s] = "idle",
               txn' \in [Session -> {"None", "Open", "Aborted"}],
               stmt' \in [Session -> Stmt]
        PROVE  TypeInv'
    BY <1>0, <1>1 DEF BeginWrite
  <1>2. ASSUME NEW s \in Session, BeginTransaction(s) PROVE TypeInv'
    BY <1>1, <1>2 DEF BeginTransaction
  <1>3. ASSUME NEW s \in Session, NEW st \in Statements(s), AutoCommit(s, st)
        PROVE  TypeInv'
    BY <1>1, <1>3 DEF AutoCommit, Statements
  <1>4. ASSUME NEW s \in Session, TakeSnapshot(s) PROVE TypeInv'
    <2>1. meta_next_tx' \in 1..(MaxTx + 1)
      <3>1. current_tx[s] + 1 \in 1..(MaxTx + 1)
        BY <1>4 DEF TakeSnapshot
      <3>2. Max({meta_next_tx, current_tx[s] + 1}) \in {meta_next_tx, current_tx[s] + 1}
        <4>1. meta_next_tx \in Nat /\ current_tx[s] + 1 \in Nat
          BY <3>1
        <4>2. QED
          BY <4>1, MaxOfTwo, Zenon
      <3>3. QED
        BY <1>4, <3>1, <3>2 DEF TakeSnapshot
    <2>2. snap' \in [Session -> Snap]
      BY <1>4 DEF TakeSnapshot, SnapshotNow, Snap
    <2>3. base' \in [Session -> SUBSET RowId]
      BY <1>4 DEF TakeSnapshot
    <2>4. QED
      BY <1>0, <1>4, <2>1, <2>2, <2>3 DEF TakeSnapshot, FirstStep
  <1>5. ASSUME NEW s \in Session, NEW st \in Statements(s), Execute(s, st)
        PROVE  TypeInv'
    BY <1>0, <1>5 DEF Execute, FirstStep, Statements
  <1>6. ASSUME NEW s \in Session, CollectCandidates(s) PROVE TypeInv'
    BY <1>0, <1>6 DEF CollectCandidates, View
  <1>7. ASSUME NEW s \in Session, Write(s) PROVE TypeInv'
    <2>1. current_tx[s] \in Tx /\ candidates[s] \subseteq Row
      BY <1>7 DEF Write
    <2>0. /\ rows' = {r \in rows : r.id \notin {q.id : q \in candidates[s]}}
                      \cup Tombstoned(s) \cup Adds(s)
          /\ next_rowid' = next_rowid + Cardinality(Adds(s))
          /\ next_rowid' <= MaxRow + 1
          /\ ins' = [ins EXCEPT ![current_tx[s]] = @ \cup {r.id : r \in Adds(s)}]
          /\ del' = [del EXCEPT ![current_tx[s]] = @ \cup {r.id : r \in candidates[s]}]
      BY <1>7, WriteEffect, Zenon
    <2>a. \/ Adds(s) = {} /\ next_rowid' = next_rowid
          \/ Adds(s) = {NewVersion(s)} /\ next_rowid' = next_rowid + 1 /\ next_rowid \in RowId
      <3>1. \/ Adds(s) = {} /\ Cardinality(Adds(s)) = 0
            \/ Adds(s) = {NewVersion(s)} /\ Cardinality(Adds(s)) = 1
        BY AddsCardinality, Zenon
      <3>2. QED
        BY <2>0, <3>1 DEF RowId
    <2>2. rows' \subseteq Row
      <3>1. ASSUME NEW r \in Row PROVE [r EXCEPT !.tx_max = current_tx[s]] \in Row
        BY <2>1 DEF Row
      <3>4. Tombstoned(s) \subseteq Row
        BY <2>1, <3>1 DEF Tombstoned
      <3>2. Adds(s) \subseteq Row
        <4>1. stmt[s].item \in Item
          BY DEF Stmt
        <4>2. next_rowid \in RowId => NewVersion(s) \in Row
          BY <2>1, <4>1 DEF NewVersion, Row
        <4>3. QED
          BY <2>a, <4>2
      <3>3. QED
        BY <2>0, <3>2, <3>4
    <2>3. next_rowid' \in 1..(MaxRow + 1)
      BY <2>a DEF RowId
    <2>4. ins' \in [Tx -> SUBSET RowId] /\ del' \in [Tx -> SUBSET RowId]
      <3>1. {r.id : r \in candidates[s]} \subseteq RowId
        BY <2>1 DEF Row
      <3>2. {r.id : r \in Adds(s)} \subseteq RowId
        BY <2>a DEF NewVersion
      <3>3. QED
        BY <2>0, <3>1, <3>2, ZenonT(60)
    <2>5. header_next_tx' \in 1..(MaxTx + 1)
      BY <1>7 DEF Write
    <2>6. /\ candidates' \in [Session -> SUBSET Row] /\ stmt' \in [Session -> Stmt]
      BY <1>7, NoStmtType DEF Write
    <2>7. /\ snap' \in [Session -> Snap] /\ base' \in [Session -> SUBSET RowId]
      <3>1. \/ UNCHANGED <<snap, base>>
            \/ /\ snap' = [snap EXCEPT ![s] = NoSnap]
               /\ base' = [base EXCEPT ![s] = {}]
        BY <1>7 DEF Write, Unpin
      <3>2. CASE UNCHANGED <<snap, base>>
        BY <3>2
      <3>3. CASE /\ snap' = [snap EXCEPT ![s] = NoSnap]
                 /\ base' = [base EXCEPT ![s] = {}]
        BY <3>3, NoSnapType
      <3>4. QED
        BY <3>1, <3>2, <3>3
    <2>b. outcome' \in [Session -> {"Committed", "RolledBack"}]
      <3>1. Verdict \subseteq {"Committed", "RolledBack"}
        BY DEF Verdict
      <3>2. outcome' = outcome \/ \E o \in Verdict : outcome' = [outcome EXCEPT ![s] = o]
        BY <1>7 DEF Write
      <3>3. QED
        BY <3>1, <3>2
    <2>8. pc' = [pc EXCEPT ![s] = "open"] \/ pc' = [pc EXCEPT ![s] = "record"]
      BY <1>7 DEF Write
    <2>9. UNCHANGED <<clogVars, txVars, txn, current_tx, gcVars, db>>
      BY <1>7 DEF Write
    <2>10. QED
      BY <1>0, <2>1, <2>2, <2>3, <2>4, <2>5, <2>6, <2>7, <2>b, <2>8, <2>9
  <1>8. ASSUME NEW s \in Session, StatementFails(s) PROVE TypeInv'
    BY <1>0, <1>8, NoStmtType, NoSnapType DEF StatementFails, Unpin
  <1>9. ASSUME NEW s \in Session, EndTransaction(s) PROVE TypeInv'
    BY <1>0, <1>9, NoSnapType DEF EndTransaction, Unpin, Verdict
  <1>10. ASSUME NEW s \in Session, RecordOutcome(s) PROVE TypeInv'
    BY <1>0, <1>10 DEF RecordOutcome, Status
  <1>11. ASSUME NEW s \in Session, LeaveInFlight(s) PROVE TypeInv'
    <2>1. db' \subseteq RowId
      BY <1>11 DEF LeaveInFlight, After
    <2>2. /\ ins' \in [Tx -> SUBSET RowId] /\ del' \in [Tx -> SUBSET RowId]
          /\ outcome' \in [Session -> {"Committed", "RolledBack"}]
          /\ in_flight' \subseteq Tx
      BY <1>11 DEF LeaveInFlight
    <2>3. /\ current_tx' = [current_tx EXCEPT ![s] = 0]
          /\ \/ pc' = [pc EXCEPT ![s] = "aborted"]
             \/ pc' = [pc EXCEPT ![s] = "idle"]
      BY <1>11 DEF LeaveInFlight
    <2>4. UNCHANGED <<fileVars, clogVars, next_tx_id, meta_next_tx, txn, snap,
                      stmt, candidates, gcVars, base>>
      BY <1>11 DEF LeaveInFlight
    <2>5. /\ \A u \in Session : pc'[u] \in Holding => current_tx'[u] \in Tx
          /\ \A u \in Session : pc'[u] \in {"idle", "reading"} => current_tx'[u] = 0
      BY <2>3
    <2>6. TypeOK'
      <3>1. /\ current_tx' \in [Session -> 0..MaxTx]
            /\ pc' \in [Session -> {"idle", "begun", "open", "scan", "write", "record",
                                    "leave", "aborted", "reading"}]
        <4>1. current_tx' \in [Session -> 0..MaxTx]
          BY <2>3
        <4>2. \/ pc' = [pc EXCEPT ![s] = "aborted"]
              \/ pc' = [pc EXCEPT ![s] = "idle"]
          BY <2>3
        <4>3. QED
          BY <4>1, <4>2
      <3>2. QED
        BY <1>0, <2>1, <2>2, <2>4, <3>1
    <2>7. QED
      BY <2>5, <2>6
  <1>12. ASSUME NEW s \in Session, StreamFails(s) PROVE TypeInv'
    BY <1>0, <1>12, NoSnapType DEF StreamFails, Unpin
  <1>13. ASSUME NEW s \in Session, EndAborted(s) PROVE TypeInv'
    BY <1>0, <1>13 DEF EndAborted
  <1>14. ASSUME NEW s \in Session, StartRead(s) PROVE TypeInv'
    <2>1. SnapshotNow \in Snap
      BY DEF SnapshotNow, Snap
    <2>2. QED
      BY <1>0, <1>14, <2>1 DEF StartRead
  <1>15. ASSUME NEW s \in Session, FinishRead(s) PROVE TypeInv'
    BY <1>0, <1>15, NoSnapType DEF FinishRead, Unpin
  <1>16. OldestActive \in 0..(MaxTx + 1)
    <2>1. in_flight \subseteq Nat /\ next_tx_id \in Nat
      OBVIOUS
    <2>2. OldestActive \in in_flight \cup {next_tx_id}
      BY <2>1, OldestActiveIsLeast, Zenon
    <2>3. QED
      BY <2>2
  <1>17. CASE CaptureFloor
    BY <1>0, <1>16, <1>17 DEF CaptureFloor
  <1>18. CASE StartReclaim
    BY <1>0, <1>16, <1>18 DEF StartReclaim
  <1>19. CASE Reclaim
    BY <1>0, <1>19 DEF Reclaim
  <1>20. CASE TruncateBelow
    <2>1. min_tx_id' \in 0..(MaxTx + 1)
      <3>1. min_tx_id \in Nat /\ floor \in Nat
        OBVIOUS
      <3>2. Max({min_tx_id, floor}) \in {min_tx_id, floor}
        BY <3>1, MaxOfTwo, Zenon
      <3>3. QED
        BY <1>20, <3>2 DEF TruncateBelow
    <2>2. clog' \in [Tx -> Status]
      BY <1>20 DEF TruncateBelow, Status
    <2>3. QED
      BY <1>0, <1>20, <2>1, <2>2 DEF TruncateBelow
  <1>21. CASE CrashAndOpen
    <2>1. db' \subseteq RowId
      BY <1>21 DEF CrashAndOpen
    <2>2. /\ snap' \in [Session -> Snap] /\ stmt' \in [Session -> Stmt]
          /\ candidates' \in [Session -> SUBSET Row] /\ base' \in [Session -> SUBSET RowId]
          /\ outcome' \in [Session -> {"Committed", "RolledBack"}]
          /\ ins' \in [Tx -> SUBSET RowId] /\ del' \in [Tx -> SUBSET RowId]
      BY <1>21, NoSnapType, NoStmtType DEF CrashAndOpen
    <2>3. QED
      BY <1>0, <1>21, <2>1, <2>2 DEF CrashAndOpen
  <1>22. CASE UNCHANGED vars
    BY <1>22 DEF vars
  <1>23. QED
    BY <1>2, <1>3, <1>4, <1>5, <1>6, <1>7, <1>8, <1>9, <1>10, <1>11, <1>12, <1>13,
       <1>14, <1>15, <1>17, <1>18, <1>19, <1>20, <1>21, <1>22, NextCases

\* Every variable of sessions, rows and garbage collection keeps its type (TypeOK),
\* across statements that fail, reclaim passes, truncations and restarts: no row is
\* ever stamped with an ID that was not reserved.
THEOREM TypeCorrect == Spec => []TypeOK
  <1>1. Spec => []TypeInv
    BY TypeInit, TypeNext, PTL DEF Spec
  <1>2. TypeInv => TypeOK
    BY DEF TypeInv
  <1>3. QED
    BY <1>1, <1>2, PTL

-----------------------------------------------------------------------------
(* Transactions: the IDs in flight are those of the sessions' transactions,  *)
(* and neither the reclaim watermark nor a truncation floor has passed one.  *)

TxInv ==
    /\ \A s \in Session : current_tx[s] # 0 => current_tx[s] \in in_flight
    /\ \A t \in in_flight : \E s \in Session : current_tx[s] = t
    /\ \A s, u \in Session : current_tx[s] = current_tx[u] /\ current_tx[s] # 0 => s = u
    /\ \A t \in in_flight : t < next_tx_id /\ oldest_active <= t /\ floor <= t
    /\ oldest_active <= next_tx_id /\ floor <= next_tx_id
    /\ "truncate" \notin workload.events => gpc # "pass" /\ floor = 0 /\ min_tx_id = 0
    /\ gpc = "truncate" => floor # 0

\* Nothing is in flight in a database that was just loaded.
LEMMA TxInit == Init => TxInv
  BY MvccConstants DEF Init, TxInv

\* The steps that change who is in flight or what the reclaimer has captured.
LEMMA TxSteps ==
    ASSUME [Next]_vars
    PROVE  \/ \E s \in Session : BeginWrite(s) /\ pc[s] = "idle"
           \/ \E s \in Session : LeaveInFlight(s)
           \/ CaptureFloor \/ StartReclaim \/ Reclaim \/ TruncateBelow \/ CrashAndOpen
           \/ UNCHANGED <<next_tx_id, in_flight, current_tx, gcVars, min_tx_id>>
  BY NextCases
     DEF BeginTransaction, AutoCommit, TakeSnapshot, Execute, CollectCandidates, Write,
         StatementFails, EndTransaction, RecordOutcome, StreamFails, EndAborted,
         StartRead, FinishRead, vars, clogVars, txVars, sessionVars

\* A watermark is captured as the oldest ID in flight, and later IDs are higher.
LEMMA TxNext == TypeInv /\ TxInv /\ [Next]_vars => TxInv'
  <1> SUFFICES ASSUME TypeInv, TxInv, [Next]_vars PROVE TxInv'
    OBVIOUS
  <1> USE DEF TxInv, gcVars
  <1>0. /\ workload' = workload
        /\ in_flight \subseteq Nat \ {0} /\ next_tx_id \in Nat \ {0} /\ oldest_active \in Nat
        /\ floor \in Nat /\ min_tx_id \in Nat
        /\ current_tx \in [Session -> Nat]
    BY NextCases, MvccConstants DEF TypeInv, TypeOK, Tx
  <1>1. ASSUME NEW s \in Session, BeginWrite(s), pc[s] = "idle" PROVE TxInv'
    <2>1. /\ current_tx' = [current_tx EXCEPT ![s] = next_tx_id] /\ current_tx[s] = 0
          /\ in_flight' = in_flight \cup {next_tx_id} /\ next_tx_id' = next_tx_id + 1
          /\ UNCHANGED <<gcVars, min_tx_id>>
      BY <1>1 DEF BeginWrite, TypeInv, clogVars
    <2>2. QED
      BY <1>0, <2>1
  <1>2. ASSUME NEW s \in Session, LeaveInFlight(s) PROVE TxInv'
    <2>1. /\ current_tx' = [current_tx EXCEPT ![s] = 0]
          /\ in_flight' = in_flight \ {current_tx[s]} /\ current_tx[s] # 0
          /\ UNCHANGED <<next_tx_id, gcVars, min_tx_id>>
      BY <1>2 DEF LeaveInFlight, TypeInv, clogVars, Holding, Tx
    <2>2. QED
      BY <1>0, <2>1
  <1>3. /\ OldestActive \in in_flight \cup {next_tx_id}
        /\ \A t \in in_flight : OldestActive <= t
    BY <1>0, OldestActiveIsLeast
  <1>4. CASE CaptureFloor
    <2>1. /\ floor' = OldestActive /\ gpc' = "pass" /\ "truncate" \in workload.events
          /\ UNCHANGED <<next_tx_id, in_flight, current_tx, oldest_active, min_tx_id>>
      BY <1>4 DEF CaptureFloor, txVars, sessionVars, clogVars
    <2>2. OldestActive <= next_tx_id /\ OldestActive \in Nat
      BY <1>0, <1>3
    <2>3. \A t \in in_flight : OldestActive <= t
      BY <1>3
    <2> HIDE DEF TxInv
    <2>4. TxInv
      OBVIOUS
    <2>5. QED
      BY <1>0, <2>1, <2>2, <2>3, <2>4 DEF TxInv
  <1>5. CASE StartReclaim
    BY <1>0, <1>3, <1>5 DEF StartReclaim, txVars, sessionVars, clogVars
  <1>6. CASE Reclaim
    BY <1>0, <1>6 DEF Reclaim, txVars, sessionVars, clogVars
  <1>7. CASE TruncateBelow
    BY <1>0, <1>7 DEF TruncateBelow, txVars, sessionVars
  <1>8. CASE CrashAndOpen
    BY <1>0, <1>8 DEF CrashAndOpen, clogVars, TypeInv, TypeOK
  <1>9. CASE UNCHANGED <<next_tx_id, in_flight, current_tx, gcVars, min_tx_id>>
    BY <1>0, <1>9
  <1>10. QED
    BY <1>1, <1>2, <1>4, <1>5, <1>6, <1>7, <1>8, <1>9, TxSteps

-----------------------------------------------------------------------------
(* Stamps: the ID counter in the file header is above every stamp in the file *)

Stamped(r) == r.tx_min < header_next_tx /\ r.tx_max < header_next_tx

StampInv ==
    /\ header_next_tx <= meta_next_tx /\ meta_next_tx <= next_tx_id
    /\ \A r \in rows : Stamped(r)
    /\ \A s \in Session : \A r \in candidates[s] : Stamped(r)
    /\ \A s \in Session : current_tx[s] # 0 /\ pc[s] # "begun" =>
          current_tx[s] < meta_next_tx

LEMMA StampInit == Init => StampInv
  BY MvccConstants DEF Init, StampInv, Stamped

\* A statement's pages reach the file together with a header that covers its ID.
LEMMA StampNext == TypeInv /\ TxInv /\ StampInv /\ [Next]_vars => StampInv'
  <1> SUFFICES ASSUME TypeInv, TxInv, StampInv, [Next]_vars PROVE StampInv'
    OBVIOUS
  <1> USE DEF StampInv, Stamped, fileVars, txVars, sessionVars
  <1>0. /\ next_tx_id \in Nat /\ meta_next_tx \in Nat /\ header_next_tx \in Nat
        /\ current_tx \in [Session -> Nat] /\ candidates \in [Session -> SUBSET Row]
        /\ rows \subseteq Row /\ DOMAIN pc = Session
        /\ \A r \in Row : r.tx_min \in Nat /\ r.tx_max \in Nat
    BY MvccConstants DEF TypeInv, TypeOK, Row, Tx
  <1>1. ASSUME NEW s \in Session, BeginWrite(s) PROVE StampInv'
    BY <1>0, <1>1 DEF BeginWrite
  <1>2. ASSUME NEW s \in Session, TakeSnapshot(s) PROVE StampInv'
    <2>1. /\ meta_next_tx' >= meta_next_tx /\ meta_next_tx' >= current_tx[s] + 1
          /\ meta_next_tx' \in {meta_next_tx, current_tx[s] + 1}
      <3>1. current_tx[s] + 1 \in Nat
        BY <1>0
      <3>2. QED
        BY <1>0, <1>2, <3>1, MaxOfTwo DEF TakeSnapshot
    <2>2. current_tx[s] < next_tx_id
      BY <1>2 DEF TakeSnapshot, TxInv, TypeInv, Holding, Tx
    <2>3. UNCHANGED <<rows, header_next_tx, next_tx_id, current_tx, candidates>>
      BY <1>2 DEF TakeSnapshot
    <2>4. \A u \in Session \ {s} : pc'[u] = pc[u]
      BY <1>0, <1>2 DEF TakeSnapshot
    <2>5. QED
      BY <1>0, <2>1, <2>2, <2>3, <2>4
  <1>3. ASSUME NEW s \in Session, CollectCandidates(s) PROVE StampInv'
    BY <1>0, <1>3 DEF CollectCandidates, View
  <1>4. ASSUME NEW s \in Session, Write(s) PROVE StampInv'
    <2>1. current_tx[s] # 0 /\ pc[s] = "write"
      BY <1>4 DEF Write, TypeInv, Holding, Tx
    <2>2. /\ UNCHANGED <<meta_next_tx, next_tx_id, current_tx>>
          /\ candidates' = [candidates EXCEPT ![s] = {}]
          /\ \A u \in Session \ {s} : pc'[u] = pc[u]
      BY <1>0, <1>4 DEF Write
    <2>3. header_next_tx' >= header_next_tx /\ header_next_tx' <= meta_next_tx
      BY <1>0, <1>4 DEF Write
    <2>4. \A r \in rows' : r.tx_min < header_next_tx' /\ r.tx_max < header_next_tx'
      <3>1. CASE rows' \subseteq rows
        <4>1. ASSUME NEW r \in rows' PROVE r.tx_min < header_next_tx' /\ r.tx_max < header_next_tx'
          <5>1. r \in Row /\ r.tx_min < header_next_tx /\ r.tx_max < header_next_tx
            BY <1>0, <3>1
          <5>2. r.tx_min \in Nat /\ r.tx_max \in Nat /\ header_next_tx' \in Nat
            BY <1>0, <2>3, <5>1, <1>4 DEF Write
          <5>3. QED
            BY <1>0, <2>3, <5>1, <5>2
        <4>2. QED
          BY <4>1
      <3>2. CASE header_next_tx' = meta_next_tx
        <4>1. ASSUME NEW r \in Tombstoned(s)
              PROVE  r.tx_min < meta_next_tx /\ r.tx_max < meta_next_tx
          <5>1. PICK q \in candidates[s] : r = [q EXCEPT !.tx_max = current_tx[s]]
            BY DEF Tombstoned
          <5>2. q \in Row /\ r.tx_min = q.tx_min /\ r.tx_max = current_tx[s]
            BY <1>0, <5>1 DEF Row
          <5>3. QED
            BY <1>0, <2>1, <5>1, <5>2
        <4>2. NewVersion(s).tx_min = current_tx[s] /\ NewVersion(s).tx_max = 0
          BY DEF NewVersion
        <4>3. rows' \subseteq rows \cup Tombstoned(s) \cup {NewVersion(s)}
          BY <1>4, WriteEffect DEF Adds
        <4>4. QED
          BY <1>0, <2>1, <3>2, <4>1, <4>2, <4>3
      <3>3. QED
        BY <1>4, <3>1, <3>2 DEF Write, Tombstoned
    <2>5. ASSUME NEW u \in Session, NEW r \in candidates'[u]
          PROVE  r.tx_min < header_next_tx' /\ r.tx_max < header_next_tx'
      <3>1. r \in candidates[u] /\ r \in Row
        BY <1>0, <2>2, <2>5
      <3>2. r.tx_min < header_next_tx /\ r.tx_max < header_next_tx
        BY <3>1
      <3>3. r.tx_min \in Nat /\ r.tx_max \in Nat /\ header_next_tx' \in Nat
        BY <1>0, <3>1, <1>4 DEF Write
      <3>4. QED
        BY <1>0, <2>3, <3>2, <3>3
    <2>6. \A u \in Session : current_tx'[u] # 0 /\ pc'[u] # "begun" =>
             current_tx'[u] < meta_next_tx'
      BY <1>0, <2>1, <2>2
    <2>7. header_next_tx' <= meta_next_tx' /\ meta_next_tx' <= next_tx_id'
      BY <2>2, <2>3
    <2>8. QED
      BY <2>4, <2>5, <2>6, <2>7
  <1>5. ASSUME NEW s \in Session, LeaveInFlight(s) PROVE StampInv'
    BY <1>0, <1>5 DEF LeaveInFlight
  <1>6. ASSUME NEW s \in Session, EndAborted(s) PROVE StampInv'
    BY <1>0, <1>6 DEF EndAborted
  <1>7. ASSUME NEW s \in Session,
               \/ \E st : Execute(s, st)
               \/ StatementFails(s) \/ EndTransaction(s) \/ RecordOutcome(s)
               \/ StreamFails(s) \/ StartRead(s) \/ FinishRead(s)
        PROVE  StampInv'
    <2>1. UNCHANGED <<rows, header_next_tx, meta_next_tx, next_tx_id, current_tx>>
      BY <1>7 DEF Execute, StatementFails, EndTransaction, RecordOutcome, StreamFails,
         StartRead, FinishRead
    <2>2. candidates' = candidates \/ candidates' = [candidates EXCEPT ![s] = {}]
      BY <1>7 DEF Execute, StatementFails, EndTransaction, RecordOutcome, StreamFails,
         StartRead, FinishRead
    <2>3. pc[s] # "begun" /\ \A u \in Session \ {s} : pc'[u] = pc[u]
      BY <1>0, <1>7 DEF Execute, StatementFails, EndTransaction, RecordOutcome, StreamFails,
         StartRead, FinishRead
    <2>4. QED
      BY <1>0, <2>1, <2>2, <2>3
  <1>8. CASE CaptureFloor \/ StartReclaim \/ TruncateBelow
    BY <1>0, <1>8 DEF CaptureFloor, StartReclaim, TruncateBelow
  <1>9. CASE Reclaim
    BY <1>0, <1>9 DEF Reclaim
  <1>10. CASE CrashAndOpen
    BY <1>0, <1>10 DEF CrashAndOpen
  <1>11. CASE UNCHANGED vars
    BY <1>0, <1>11 DEF vars
  <1>12. QED
    BY <1>1, <1>2, <1>3, <1>4, <1>5, <1>6, <1>7, <1>8, <1>9, <1>10, <1>11, NextCases
       DEF BeginTransaction, AutoCommit

-----------------------------------------------------------------------------
(* Outcomes: while the process is up, every ID that was handed out is in     *)
(* flight or has its outcome in the commit log.                              *)

LogInv ==
    /\ \A t \in in_flight : min_tx_id <= t
    /\ min_tx_id <= next_tx_id
    /\ \A s \in Session : pc[s] = "leave" => clog[current_tx[s]] = outcome[s]
    /\ \A t \in Tx : t < next_tx_id => t \in in_flight \/ StatusOf(t) # "None"

UpInv == "crash" \notin workload.events => LogInv

LEMMA UpInit == Init => UpInv
  BY MvccConstants DEF Init, UpInv, LogInv, StatusOf, Tx

\* The steps that touch the commit log or who is in flight.
LEMMA LogSteps ==
    ASSUME TypeInv, [Next]_vars
    PROVE  \/ \E s \in Session : BeginWrite(s) /\ pc[s] = "idle"
           \/ \E s \in Session : RecordOutcome(s)
           \/ \E s \in Session : LeaveInFlight(s)
           \/ TruncateBelow \/ CrashAndOpen
           \/ /\ UNCHANGED <<clog, min_tx_id, next_tx_id, in_flight, current_tx>>
              /\ \A u \in Session : pc'[u] = "leave" => pc[u] = "leave" /\ outcome'[u] = outcome[u]
  <1> USE DEF TypeInv, TypeOK, clogVars, txVars, sessionVars
  <1>1. ASSUME NEW s \in Session, Write(s)
        PROVE  /\ UNCHANGED <<clog, min_tx_id, next_tx_id, in_flight, current_tx>>
               /\ \A u \in Session : pc'[u] = "leave" => pc[u] = "leave" /\ outcome'[u] = outcome[u]
    BY <1>1 DEF Write
  <1>2. ASSUME NEW s \in Session, EndTransaction(s)
        PROVE  /\ UNCHANGED <<clog, min_tx_id, next_tx_id, in_flight, current_tx>>
               /\ \A u \in Session : pc'[u] = "leave" => pc[u] = "leave" /\ outcome'[u] = outcome[u]
    BY <1>2 DEF EndTransaction
  <1>3. ASSUME NEW s \in Session,
               \/ TakeSnapshot(s) \/ (\E st : Execute(s, st)) \/ CollectCandidates(s)
               \/ StatementFails(s) \/ StreamFails(s) \/ EndAborted(s)
               \/ StartRead(s) \/ FinishRead(s)
        PROVE  /\ UNCHANGED <<clog, min_tx_id, next_tx_id, in_flight, current_tx>>
               /\ \A u \in Session : pc'[u] = "leave" => pc[u] = "leave" /\ outcome'[u] = outcome[u]
    BY <1>3 DEF TakeSnapshot, Execute, CollectCandidates, StatementFails, StreamFails,
       EndAborted, StartRead, FinishRead, FirstStep
  <1>4. CASE CaptureFloor \/ StartReclaim \/ Reclaim \/ UNCHANGED vars
    BY <1>4 DEF CaptureFloor, StartReclaim, Reclaim, vars
  <1>5. QED
    BY <1>1, <1>2, <1>3, <1>4, NextCases DEF BeginTransaction, AutoCommit

\* A transaction leaves in_flight after its record is in the log, and a truncation
\* forgets only what is below every ID in flight.
LEMMA UpNext == TypeInv /\ TxInv /\ UpInv /\ [Next]_vars => UpInv'
  <1> SUFFICES ASSUME TypeInv, TxInv, LogInv, [Next]_vars, "crash" \notin workload.events
               PROVE  LogInv'
    BY NextCases DEF UpInv
  <1> USE DEF LogInv, StatusOf
  <1>0. /\ in_flight \subseteq Tx /\ next_tx_id \in Nat /\ min_tx_id \in Nat /\ floor \in Nat
        /\ clog \in [Tx -> Status] /\ DOMAIN pc = Session /\ Tx \subseteq Nat
        /\ \A t \in in_flight : t < next_tx_id
        /\ outcome \in [Session -> {"Committed", "RolledBack"}]
        /\ current_tx \in [Session -> Nat]
    BY MvccConstants DEF TypeInv, TypeOK, Tx, TxInv
  <1>1. ASSUME NEW s \in Session, BeginWrite(s), pc[s] = "idle" PROVE LogInv'
    <2>1. /\ in_flight' = in_flight \cup {next_tx_id} /\ next_tx_id' = next_tx_id + 1
          /\ UNCHANGED <<clog, min_tx_id, outcome>>
          /\ \A u \in Session : pc'[u] = "leave" => pc[u] = "leave" /\ current_tx'[u] = current_tx[u]
      BY <1>0, <1>1 DEF BeginWrite, clogVars
    <2>2. QED
      BY <1>0, <2>1
  <1>2. ASSUME NEW s \in Session, RecordOutcome(s) PROVE LogInv'
    <2>1. /\ clog' = [clog EXCEPT ![current_tx[s]] = outcome[s]]
          /\ current_tx[s] \in Tx
          /\ UNCHANGED <<min_tx_id, next_tx_id, in_flight, current_tx, outcome>>
          /\ \A u \in Session \ {s} : pc'[u] = pc[u]
      BY <1>0, <1>2 DEF RecordOutcome, txVars, TypeInv, Holding
    <2>2. \A u \in Session : pc'[u] = "leave" => clog'[current_tx'[u]] = outcome'[u]
      <3>1. clog'[current_tx[s]] = outcome[s]
        BY <1>0, <2>1
      <3>2. ASSUME NEW u \in Session \ {s}, pc[u] = "leave"
            PROVE  clog'[current_tx[u]] = outcome[u]
        <4>1. current_tx[u] \in Tx /\ current_tx[u] # 0 /\ clog[current_tx[u]] = outcome[u]
          BY <3>2 DEF TypeInv, Holding, Tx
        <4>2. current_tx[u] # current_tx[s]
          BY <4>1 DEF TxInv
        <4>3. QED
          BY <1>0, <2>1, <4>1, <4>2
      <3>3. QED
        BY <2>1, <3>1, <3>2
    <2>3. \A t \in Tx : clog[t] # "None" => clog'[t] # "None"
      BY <1>0, <2>1
    <2>4. QED
      BY <1>0, <2>1, <2>2, <2>3
  <1>3. ASSUME NEW s \in Session, LeaveInFlight(s) PROVE LogInv'
    <2>1. /\ in_flight' = in_flight \ {current_tx[s]} /\ pc[s] = "leave"
          /\ current_tx[s] \in Tx
          /\ UNCHANGED <<clog, min_tx_id, next_tx_id>>
          /\ \A u \in Session : pc'[u] = "leave" =>
               pc[u] = "leave" /\ current_tx'[u] = current_tx[u] /\ outcome'[u] = outcome[u]
      BY <1>0, <1>3 DEF LeaveInFlight, clogVars, TypeInv, Holding
    <2>2. clog[current_tx[s]] # "None"
      BY <1>0, <2>1
    <2>3. QED
      BY <1>0, <2>1, <2>2
  <1>4. CASE TruncateBelow
    <2>1. /\ min_tx_id' = Max({min_tx_id, floor})
          /\ clog' = [t \in Tx |-> IF t < floor THEN "None" ELSE clog[t]]
          /\ UNCHANGED <<in_flight, next_tx_id, pc, current_tx, outcome>>
      BY <1>4 DEF TruncateBelow, txVars, sessionVars
    <2>2. min_tx_id' \in {min_tx_id, floor} /\ min_tx_id' >= min_tx_id /\ min_tx_id' >= floor
      <3>1. /\ Max({min_tx_id, floor}) \in {min_tx_id, floor}
            /\ Max({min_tx_id, floor}) >= min_tx_id /\ Max({min_tx_id, floor}) >= floor
        BY <1>0, MaxOfTwo, Zenon
      <3>2. QED
        BY <2>1, <3>1
    <2>3. /\ \A t \in in_flight : floor <= t
          /\ floor <= next_tx_id
      BY DEF TxInv
    <2>4. \A u \in Session : pc[u] = "leave" => current_tx[u] \in Tx /\ floor <= current_tx[u]
      BY <2>3 DEF TypeInv, Holding, TxInv, Tx
    <2>5. ASSUME NEW t \in Tx, t < floor \/ t < min_tx_id PROVE t < min_tx_id'
      <3>1. t \in Nat /\ min_tx_id' \in Nat
        BY <1>0, <2>2
      <3>2. QED
        BY <1>0, <2>2, <2>5, <3>1
    <2>7. \A t \in Tx : ~(t < floor) => clog'[t] = clog[t]
      BY <1>0, <2>1
    <2>8. \A u \in Session : pc'[u] = "leave" => clog'[current_tx'[u]] = outcome'[u]
      BY <1>0, <2>1, <2>4, <2>7
    <2>9. /\ \A t \in in_flight' : min_tx_id' <= t
          /\ min_tx_id' <= next_tx_id'
      BY <1>0, <2>1, <2>2, <2>3
    <2>10. \A t \in Tx : t < next_tx_id' => t \in in_flight' \/ t < min_tx_id' \/ clog'[t] # "None"
      BY <1>0, <2>1, <2>5, <2>7
    <2>11. QED
      BY <2>8, <2>9, <2>10
  <1>5. CASE CrashAndOpen
    BY <1>5 DEF CrashAndOpen
  <1>6. CASE /\ UNCHANGED <<clog, min_tx_id, next_tx_id, in_flight, current_tx>>
             /\ \A u \in Session : pc'[u] = "leave" => pc[u] = "leave" /\ outcome'[u] = outcome[u]
    BY <1>6
  <1>7. QED
    BY <1>1, <1>2, <1>3, <1>4, <1>5, <1>6, LogSteps

\* What holds for every workload: types, who is in flight, the ID counter above every
\* stamp and, while the process is up, the outcomes.
BaseInv == TypeInv /\ TxInv /\ StampInv /\ UpInv

LEMMA BaseAlways == Spec => []BaseInv
  <1>1. Init => BaseInv
    BY TypeInit, TxInit, StampInit, UpInit DEF BaseInv
  <1>2. BaseInv /\ [Next]_vars => BaseInv'
    BY TypeNext, TxNext, StampNext, UpNext DEF BaseInv
  <1>3. QED
    BY <1>1, <1>2, PTL DEF Spec

\* check_write_write_conflict never reports a conflict with a transaction that has
\* ended, as long as the process does not crash: a tombstone's ID is below the counter,
\* so it is in flight or its outcome is known, through every truncation of the log.
THEOREM ConflictsAreReal == Spec => []ConflictIsRealWhileUp
  <1>1. BaseInv => ConflictIsRealWhileUp
    <2> SUFFICES ASSUME BaseInv, "crash" \notin workload.events,
                        NEW s \in Session, NEW r \in candidates[s],
                        ConflictsWith(current_tx[s], r)
                 PROVE  r.tx_max \in in_flight
      BY DEF ConflictIsRealWhileUp, ConflictIsReal
    <2>1. r.tx_max \in Tx /\ r.tx_max < header_next_tx
      BY MvccConstants DEF BaseInv, TypeInv, TypeOK, StampInv, Stamped, ConflictsWith, Row, Tx
    <2>2. r.tx_max < next_tx_id
      BY <2>1, MvccConstants DEF BaseInv, StampInv, TypeInv, TypeOK, Tx
    <2>3. StatusOf(r.tx_max) = "None"
      BY DEF ConflictsWith
    <2>4. QED
      BY <2>1, <2>2, <2>3 DEF BaseInv, UpInv, LogInv
  <1>2. QED
    BY <1>1, BaseAlways, PTL
=============================================================================
