--------------------------- MODULE SnapshotProofs ---------------------------
(***************************************************************************)
(* What a snapshot shows: proofs of UncontestedViewIsDb and                *)
(* SnapshotStableAboveWatermark for every set of sessions and items and    *)
(* every number of transactions and rows.                                  *)
(*                                                                         *)
(* Both hold while every session writes items of its own and nothing that  *)
(* the runs MCMvccTruncate, MCMvccReclaim and MCMvccLostUpdate refute      *)
(* takes part: the hypothesis is Known below.                              *)
(***************************************************************************)
EXTENDS MvccProofs

\* A truncation turns what it forgets into committed transactions, so nothing may have
\* rolled back or been cut off by a crash below the floor; and a restart hands out again the ID
\* of a transaction that ended before its ID reached the file header.
Known ==
    /\ "truncate" \in workload.events =>
          "rollback" \notin workload.events /\ "crash" \notin workload.events
    /\ "crash" \in workload.events => "empty" \notin workload.events

Calm == Known /\ ~Contested

-----------------------------------------------------------------------------
(* Visibility in terms of sets of IDs *)

\* The transactions a snapshot shows, and those that have committed by now.
Seen(sn) == {t \in Tx : Covers(sn, t)}
Done     == Seen(SnapshotNow)

\* A version is live for a reader who sees the effects of the transactions in D.
Live(D, r) == r.tx_min \in D /\ r.tx_max \notin D
Shown(R, D) == {r.id : r \in {q \in R : Live(D, q)}}

\* One of the versions of an item at most is live.
OneLive(R, D) == \A r, q \in R : r.item = q.item /\ Live(D, r) /\ Live(D, q) => r = q

\* Transaction t had ended when snapshot sn was taken.
Past(sn, t) == t < sn.next_tx /\ t \notin sn.in_flight

-----------------------------------------------------------------------------
(* The inductive invariant *)

\* What had ended when a snapshot was taken has ended, and a writer's own transaction
\* had not.
SnapInv ==
    \A s \in Pinned :
      /\ snap[s].next_tx <= next_tx_id
      /\ \A t \in in_flight : ~Past(snap[s], t)
      /\ pc[s] # "reading" => current_tx[s] \in snap[s].in_flight

\* The commit log: only IDs that were handed out have a record, and one in flight
\* has it when its session is about to leave.  With crashes, these IDs are below the
\* header's counter as well; with truncations, all that ended has committed.
OutcomeInv ==
    /\ \A s \in Session : pc[s] = "leave" => clog[current_tx[s]] = outcome[s]
    /\ \A t \in Tx : clog[t] # "None" => t < next_tx_id
    /\ \A s \in Session :
          current_tx[s] # 0 /\ pc[s] # "leave" => clog[current_tx[s]] = "None"
    /\ "crash" \in workload.events =>
          /\ \A t \in Tx : clog[t] # "None" => t < header_next_tx
          /\ \A s \in Session : pc[s] \in {"record", "leave", "aborted"} =>
                current_tx[s] < header_next_tx
    /\ "truncate" \in workload.events =>
          /\ \A s \in Session : pc[s] \in {"record", "leave"} => outcome[s] = "Committed"
          /\ \A s \in Session : pc[s] # "aborted" /\ txn[s] # "Aborted"
          /\ \A t \in Tx : t < next_tx_id /\ t \notin in_flight => IsCommitted(t)

\* The table: rowids are unique, a running transaction has stamped items of its
\* session only, and what was tombstoned had been committed or is the deleter's own.
RowInv ==
    /\ \A r \in rows : r.id < next_rowid
    /\ \A r, q \in rows : r.id = q.id => r = q
    /\ \A s \in Session : \A r \in rows :
          current_tx[s] # 0 /\ current_tx[s] \in {r.tx_min, r.tx_max} =>
             r.item \in workload.may_write[s]
    /\ \A r \in rows : r.tx_max # 0 => r.tx_min = r.tx_max \/ r.tx_min \in Done

\* The history variables are what the stamps say, and a fresh snapshot shows db.
HistoryInv ==
    /\ \A t \in in_flight : ins[t] = Ids({r \in rows : r.tx_min = t})
    /\ \A t \in in_flight : del[t] = Ids({r \in rows : r.tx_max = t})
    /\ \A t \in Tx \ in_flight : ins[t] = {} /\ del[t] = {}
    /\ Shown(rows, Done) = db

\* An item has one live version, also for the transaction that is writing it.
ItemInv ==
    /\ OneLive(rows, Done)
    /\ \A s \in Session : current_tx[s] # 0 =>
          OneLive({r \in rows : r.item \in workload.may_write[s]}, Done \cup {current_tx[s]})

\* Statements write items of their session; INSERT one that is not there; the
\* collected rows are those the snapshot shows, and nobody else has touched the
\* session's items since the snapshot was taken.
StatementOk(s) ==
    /\ pc[s] \in {"scan", "write"} \/ (pc[s] = "begun" /\ txn[s] # "Open") =>
          stmt[s].item \in workload.may_write[s]
    /\ pc[s] = "write" \/ (pc[s] = "begun" /\ txn[s] # "Open") =>
          (stmt[s].op = "insert" => \A r \in rows : r.item # stmt[s].item)
    /\ pc[s] = "scan" => stmt[s].op # "insert"
    /\ pc[s] # "write" => candidates[s] = {}
    /\ pc[s] = "write" =>
          candidates[s] = {r \in rows : r.item = stmt[s].item
                              /\ Live(Seen(snap[s]) \cup {current_tx[s]}, r)}
    /\ pc[s] \in {"open", "scan", "write"} =>
          \A r \in rows : r.item \in workload.may_write[s] =>
             \A t \in {r.tx_min, r.tx_max} \ {0, current_tx[s]} : Past(snap[s], t)

StatementInv == \A s \in Session : StatementOk(s)

\* SnapshotStableAboveWatermark.
StableInv ==
    \A s \in Pinned :
      (\A t \in snap[s].in_flight \cup {snap[s].next_tx} : t >= oldest_active)
        => Shown(rows, Seen(snap[s])) = base[s]

CalmInv == OutcomeInv /\ RowInv /\ HistoryInv /\ ItemInv /\ StatementInv /\ StableInv

SnapshotInv == BaseInv /\ SnapInv /\ (Calm => CalmInv)

-----------------------------------------------------------------------------
(* Sets of versions *)

\* Transaction own tombstones the versions C of the table R and adds the versions A.
Overwritten(R, C, A, own) ==
    {r \in R : r.id \notin {q.id : q \in C}}
       \cup {[r EXCEPT !.tx_max = own] : r \in C} \cup A

\* ... whose deletion nobody who sees D knows about yet.
Overwrites(R, C, A, own, D) ==
    /\ R \subseteq Row /\ C \subseteq R /\ own \notin D
    /\ \A r, q \in R : r.id = q.id => r = q
    /\ \A r \in C : r.tx_min \in D => r.tx_max \notin D
    /\ \A r \in A : r.tx_min = own

\* Writing tombstones and new versions of a transaction outside D changes nothing for
\* a reader who sees D.
LEMMA ShownAfterWrite ==
    ASSUME NEW R, NEW C, NEW A, NEW own, NEW D, Overwrites(R, C, A, own, D)
    PROVE  Shown(Overwritten(R, C, A, own), D) = Shown(R, D)
  <1> USE DEF Overwrites
  <1> DEFINE T == {[r EXCEPT !.tx_max = own] : r \in C}
             K == {r \in R : r.id \notin {q.id : q \in C}}
  <1>1. \A r \in C : LET q == [r EXCEPT !.tx_max = own] IN
           q.id = r.id /\ q.tx_min = r.tx_min /\ q.tx_max = own
    BY DEF Row
  <1>2. ASSUME NEW r \in K \cup T \cup A, Live(D, r) PROVE r.id \in Shown(R, D)
    <2>1. CASE r \in K
      BY <1>2, <2>1 DEF Shown
    <2>2. CASE r \in T
      <3>1. PICK q \in C : r = [q EXCEPT !.tx_max = own]
        BY <2>2
      <3>2. Live(D, q) /\ r.id = q.id
        BY <1>1, <1>2, <3>1 DEF Live
      <3>3. QED
        BY <3>2 DEF Shown
    <2>3. CASE r \in A
      BY <1>2, <2>3 DEF Live
    <2>4. QED
      BY <2>1, <2>2, <2>3
  <1>3. ASSUME NEW r \in R, Live(D, r) PROVE r.id \in Shown(K \cup T \cup A, D)
    <2>1. CASE r \in C
      <3>1. /\ [r EXCEPT !.tx_max = own] \in T
            /\ [r EXCEPT !.tx_max = own].id = r.id
            /\ Live(D, [r EXCEPT !.tx_max = own])
        BY <1>1, <1>3, <2>1 DEF Live
      <3>2. QED
        BY <3>1 DEF Shown
    <2>2. CASE r \notin C
      <3>1. r \in K
        BY <2>2
      <3>2. QED
        BY <1>3, <3>1 DEF Shown
    <2>3. QED
      BY <2>1, <2>2
  <1>4. Shown(K \cup T \cup A, D) \subseteq Shown(R, D)
    BY <1>2 DEF Shown
  <1>5. Shown(R, D) \subseteq Shown(K \cup T \cup A, D)
    BY <1>3 DEF Shown
  <1>6. QED
    BY <1>4, <1>5 DEF Overwritten

\* Removing versions that are not live changes nothing.
LEMMA ShownAfterReclaim ==
    ASSUME NEW R, NEW X, NEW D, \A r \in X : ~Live(D, r)
    PROVE  Shown(R \ X, D) = Shown(R, D)
  BY DEF Shown

-----------------------------------------------------------------------------
(* The outcome of a transaction that has ended is final *)

LEMMA EndedIsFinal ==
    ASSUME BaseInv, OutcomeInv, Known, [Next]_vars,
           NEW t \in Tx, t < next_tx_id, t \notin in_flight
    PROVE  IsCommitted(t)' <=> IsCommitted(t)
  <1> USE DEF IsCommitted, StatusOf
  <1>0. /\ next_tx_id \in Nat /\ min_tx_id \in Nat /\ floor \in Nat /\ t \in Nat
        /\ clog \in [Tx -> Status]
    BY MvccConstants DEF BaseInv, TypeInv, TypeOK, Tx
  <1>1. ASSUME NEW s \in Session, RecordOutcome(s) PROVE IsCommitted(t)' <=> IsCommitted(t)
    <2>1. current_tx[s] \in Tx /\ current_tx[s] # 0
      BY <1>1 DEF BaseInv, TypeInv, RecordOutcome, Holding, Tx
    <2>2. current_tx[s] # t
      BY <2>1 DEF BaseInv, TxInv
    <2>3. QED
      BY <1>0, <1>1, <2>1, <2>2 DEF RecordOutcome
  <1>2. CASE TruncateBelow
    <2>1. "truncate" \in workload.events
      BY <1>2 DEF TruncateBelow, BaseInv, TxInv
    <2>2. IsCommitted(t)
      BY <2>1 DEF OutcomeInv
    <2>3. /\ Max({min_tx_id, floor}) \in {min_tx_id, floor}
          /\ Max({min_tx_id, floor}) >= min_tx_id /\ Max({min_tx_id, floor}) >= floor
      BY <1>0, MaxOfTwo, Zenon
    <2>4. /\ min_tx_id' \in Nat /\ min_tx_id' >= min_tx_id /\ min_tx_id' >= floor
          /\ clog'[t] = IF t < floor THEN "None" ELSE clog[t]
      BY <1>0, <1>2, <2>3 DEF TruncateBelow
    <2>5. QED
      BY <1>0, <2>2, <2>4
  <1>3. CASE UNCHANGED <<clog, min_tx_id>>
    BY <1>3
  <1>4. QED
    BY <1>1, <1>2, <1>3, LogSteps
       DEF BaseInv, BeginWrite, LeaveInFlight, CrashAndOpen, clogVars

\* ... so what a pinned snapshot shows does not change.
LEMMA SeenStable ==
    ASSUME BaseInv, SnapInv, OutcomeInv, Known, [Next]_vars,
           NEW s \in Pinned, snap'[s] = snap[s]
    PROVE  Seen(snap[s])' = Seen(snap[s])
  <1>1. next_tx_id \in Nat /\ snap[s].next_tx \in Nat /\ Tx \subseteq Nat
    BY MvccConstants DEF BaseInv, TypeInv, TypeOK, Tx, Snap, Pinned
  <1>2. ASSUME NEW t \in Tx, Past(snap[s], t) PROVE IsCommitted(t)' <=> IsCommitted(t)
    <2>1. t < next_tx_id /\ t \notin in_flight
      BY <1>1, <1>2 DEF SnapInv, Past
    <2>2. QED
      BY <2>1, EndedIsFinal
  <1>3. ASSUME NEW t \in Tx PROVE (t \in Seen(snap[s]))' <=> t \in Seen(snap[s])
    <2>1. t \in Seen(snap[s]) <=> IsCommitted(t) /\ Past(snap[s], t)
      BY DEF Seen, Covers, Past
    <2>2. (t \in Seen(snap[s]))' <=> IsCommitted(t)' /\ Past(snap[s], t)
      BY DEF Seen, Covers, Past, IsCommitted, StatusOf
    <2>3. QED
      BY <1>2, <2>1, <2>2
  <1>4. Seen(snap[s]) \subseteq Tx /\ Seen(snap[s])' \subseteq Tx
    BY DEF Seen
  <1>5. QED
    BY <1>3, <1>4

\* A transaction counts as done from the moment it has left in_flight.
LEMMA DoneMeans ==
    \A t : t \in Done <=> /\ t \in Tx /\ IsCommitted(t) 
                          /\ t < next_tx_id /\ t \notin in_flight
  BY DEF Done, Seen, Covers, SnapshotNow

\* Types that the proofs below use all the time.
LEMMA Types ==
    ASSUME BaseInv
    PROVE  /\ Tx \subseteq Nat \ {0} /\ in_flight \subseteq Tx /\ rows \subseteq Row
           /\ next_tx_id \in Nat /\ min_tx_id \in Nat /\ header_next_tx \in Nat
           /\ oldest_active \in Nat /\ next_rowid \in Nat
           /\ clog \in [Tx -> Status] /\ current_tx \in [Session -> Nat]
           /\ \A s \in Session : current_tx[s] # 0 => current_tx[s] \in Tx
           /\ \A r \in Row : r.tx_min \in Tx /\ r.tx_max \in Nat /\ r.id \in Nat
                             /\ (r.tx_max # 0 => r.tx_max \in Tx)
           /\ \A t \in in_flight : t < next_tx_id
           /\ \A t \in in_flight : \E s \in Session : current_tx[s] = t
           /\ \A s \in Session : current_tx[s] # 0 => current_tx[s] \in in_flight
           /\ \A s, u \in Session : current_tx[s] = current_tx[u] /\ current_tx[s] # 0 => s = u
           /\ \A s \in Session : pc[s] \in Holding => current_tx[s] # 0
           /\ \A r \in rows : r.tx_min < next_tx_id /\ r.tx_max < next_tx_id
  <1>1. /\ Tx \subseteq Nat \ {0} /\ in_flight \subseteq Tx /\ rows \subseteq Row
        /\ next_tx_id \in Nat /\ min_tx_id \in Nat /\ header_next_tx \in Nat
        /\ oldest_active \in Nat /\ next_rowid \in Nat /\ meta_next_tx \in Nat
        /\ clog \in [Tx -> Status] /\ current_tx \in [Session -> Nat]
        /\ \A s \in Session : current_tx[s] # 0 => current_tx[s] \in Tx
    BY MvccConstants DEF BaseInv, TypeInv, TypeOK, Tx
  <1>2. \A r \in Row : /\ r.tx_min \in Tx /\ r.tx_max \in Nat /\ r.id \in Nat
                       /\ (r.tx_max # 0 => r.tx_max \in Tx)
    BY MvccConstants DEF Row, RowId, Tx
  <1>3. ASSUME NEW r \in rows PROVE r.tx_min < next_tx_id /\ r.tx_max < next_tx_id
    <2>1. r.tx_min \in Nat /\ r.tx_max \in Nat
      BY <1>1, <1>2
    <2>2. r.tx_min < header_next_tx /\ r.tx_max < header_next_tx
      BY DEF BaseInv, StampInv, Stamped
    <2>3. header_next_tx <= meta_next_tx /\ meta_next_tx <= next_tx_id
      BY DEF BaseInv, StampInv
    <2>4. QED
      BY <1>1, <2>1, <2>2, <2>3
  <1>4. \A s \in Session : pc[s] \in Holding => current_tx[s] # 0
    BY <1>1 DEF BaseInv, TypeInv
  <1>5. /\ \A t \in in_flight : t < next_tx_id
        /\ \A t \in in_flight : \E s \in Session : current_tx[s] = t
        /\ \A s \in Session : current_tx[s] # 0 => current_tx[s] \in in_flight
        /\ \A s, u \in Session : current_tx[s] = current_tx[u] /\ current_tx[s] # 0 => s = u
    BY DEF BaseInv, TxInv
  <1>6. QED
    BY <1>1, <1>2, <1>3, <1>4, <1>5, Zenon

LEMMA DoneBegin ==
    ASSUME BaseInv, NEW s \in Session, BeginWrite(s)
    PROVE  Done' = Done
  <1>1. /\ in_flight' = in_flight \cup {next_tx_id} /\ next_tx_id' = next_tx_id + 1
        /\ clog' = clog /\ min_tx_id' = min_tx_id
    BY DEF BeginWrite, clogVars
  <1>2. Tx \subseteq Nat /\ next_tx_id \in Nat
    BY Types
  <1>3. \A t : (t \in Done)' <=> /\ t \in Tx /\ IsCommitted(t)'
                                 /\ t < next_tx_id + 1 /\ t \notin in_flight \cup {next_tx_id}
    BY <1>1 DEF Done, Seen, Covers, SnapshotNow, IsCommitted, StatusOf
  <1>4. \A t \in Tx : IsCommitted(t)' <=> IsCommitted(t)
    BY <1>1 DEF IsCommitted, StatusOf
  <1>5. \A t \in Tx : t < next_tx_id + 1 /\ t \notin in_flight \cup {next_tx_id}
                        <=> t < next_tx_id /\ t \notin in_flight
    BY <1>2
  <1>6. \A t : (t \in Done)' <=> t \in Done
    BY <1>3, <1>4, <1>5, DoneMeans
  <1>7. QED
    BY <1>6

\* A commit becomes visible when the ID leaves in_flight; a rollback never does.
LEMMA DoneLeave ==
    ASSUME BaseInv, OutcomeInv, Known, NEW s \in Session, LeaveInFlight(s)
    PROVE  Done' = IF outcome[s] = "Committed" THEN Done \cup {current_tx[s]} ELSE Done
  <1> DEFINE own == current_tx[s]
  <1>1. /\ in_flight' = in_flight \ {own} /\ next_tx_id' = next_tx_id
        /\ clog' = clog /\ min_tx_id' = min_tx_id /\ pc[s] = "leave"
    BY DEF LeaveInFlight, clogVars
  <1>2. own \in Tx /\ own \in in_flight /\ own < next_tx_id
    <2>1. own # 0
      BY <1>1, Types DEF Holding
    <2>2. QED
      BY <2>1, Types
  <1>3. ~(own < min_tx_id)
    <2>1. CASE "truncate" \in workload.events
      <3>1. LogInv
        BY <2>1 DEF Known, BaseInv, UpInv
      <3>2. min_tx_id <= own
        BY <1>2, <3>1 DEF LogInv
      <3>3. QED
        BY <1>2, <3>2, Types
    <2>2. CASE "truncate" \notin workload.events
      <3>1. min_tx_id = 0
        BY <2>2 DEF BaseInv, TxInv
      <3>2. QED
        BY <1>2, <3>1, Types
    <2>3. QED
      BY <2>1, <2>2
  <1>4. IsCommitted(own) <=> outcome[s] = "Committed"
    BY <1>1, <1>3 DEF OutcomeInv, IsCommitted, StatusOf
  <1>5. \A t \in Tx : IsCommitted(t)' <=> IsCommitted(t)
    BY <1>1 DEF IsCommitted, StatusOf
  <1>6. \A t : (t \in Done)' <=> t \in Tx /\ IsCommitted(t)' /\ t < next_tx_id /\ t \notin in_flight \ {own}
    BY <1>1 DEF Done, Seen, Covers, SnapshotNow, IsCommitted, StatusOf
  <1>7. \A t : (t \in Done)' <=> t \in Done \/ (t = own /\ outcome[s] = "Committed")
    BY <1>2, <1>4, <1>5, <1>6, DoneMeans
  <1>8. QED
    BY <1>7

\* A restart ends the transactions whose record reached the log.
Ended == {s \in Session : pc[s] = "leave" /\ outcome[s] = "Committed"}

LEMMA DoneCrash ==
    ASSUME BaseInv, OutcomeInv, Known, CrashAndOpen
    PROVE  Done' = Done \cup {current_tx[s] : s \in Ended}
  <1>1. /\ in_flight' = {} /\ next_tx_id' = header_next_tx
        /\ clog' = clog /\ min_tx_id' = min_tx_id /\ "crash" \in workload.events
    BY DEF CrashAndOpen, clogVars, fileVars
  <1>2. min_tx_id = 0
    BY <1>1 DEF Known, BaseInv, TxInv
  <1>3. \A t \in Tx : IsCommitted(t) <=> clog[t] = "Committed"
    BY <1>2, Types DEF IsCommitted, StatusOf
  <1>4. \A t : (t \in Done)' <=> t \in Tx /\ clog[t] = "Committed" /\ t < header_next_tx
    BY <1>1, <1>2, Types DEF Done, Seen, Covers, SnapshotNow, IsCommitted, StatusOf
  <1>5. \A t \in Tx : clog[t] = "Committed" => t < header_next_tx /\ t < next_tx_id
    BY <1>1 DEF OutcomeInv
  <1>6. ASSUME NEW t \in in_flight, clog[t] = "Committed"
        PROVE  t \in {current_tx[s] : s \in Ended}
    <2>1. PICK s \in Session : current_tx[s] = t
      BY Types
    <2>2. t # 0
      BY Types
    <2>3. pc[s] = "leave" /\ outcome[s] = "Committed"
      BY <1>6, <2>1, <2>2 DEF OutcomeInv
    <2>4. QED
      BY <2>1, <2>3 DEF Ended
  <1>7. ASSUME NEW s \in Ended PROVE current_tx[s] \in Tx /\ clog[current_tx[s]] = "Committed"
    <2>1. pc[s] = "leave" /\ outcome[s] = "Committed" /\ s \in Session
      BY DEF Ended
    <2>2. current_tx[s] \in Tx
      BY <2>1, Types DEF Holding
    <2>3. QED
      BY <2>1, <2>2 DEF OutcomeInv
  <1>8. \A t : (t \in Done)' <=> t \in Done \/ t \in {current_tx[s] : s \in Ended}
    BY <1>3, <1>4, <1>5, <1>6, <1>7, DoneMeans
  <1>9. QED
    BY <1>8

\* No other step changes what is done.
LEMMA DoneOther ==
    ASSUME BaseInv, OutcomeInv, Known, [Next]_vars,
           UNCHANGED <<in_flight, next_tx_id>>
    PROVE  Done' = Done
  <1>1. ASSUME NEW t PROVE (t \in Done)' <=> t \in Done
    <2>1. (t \in Done)' <=> t \in Tx /\ IsCommitted(t)' /\ t < next_tx_id /\ t \notin in_flight
      BY DEF Done, Seen, Covers, SnapshotNow, IsCommitted, StatusOf
    <2>2. t \in Tx /\ t < next_tx_id /\ t \notin in_flight => (IsCommitted(t)' <=> IsCommitted(t))
      BY EndedIsFinal
    <2>3. QED
      BY <2>1, <2>2, DoneMeans
  <1>2. QED
    BY <1>1

-----------------------------------------------------------------------------
(* Snapshots *)

LEMMA SnapInit == Init => SnapInv
  BY DEF Init, SnapInv, Pinned

\* The steps that change a snapshot or who is in flight.
LEMMA SnapSteps ==
    ASSUME TypeInv, [Next]_vars
    PROVE  \/ \E s \in Session : BeginWrite(s) /\ pc[s] = "idle"
           \/ \E s \in Session : TakeSnapshot(s) \/ StartRead(s)
           \/ \E s \in Session : LeaveInFlight(s)
           \/ CrashAndOpen
           \/ /\ UNCHANGED <<next_tx_id, in_flight, current_tx>>
              /\ \A u \in Pinned' : u \in Pinned /\ snap'[u] = snap[u] /\ base'[u] = base[u]
                                    /\ (pc[u] = "reading" => pc'[u] = "reading")
  <1> DEFINE Kept(u) == u \in Pinned /\ snap'[u] = snap[u] /\ base'[u] = base[u]
                          /\ (pc[u] = "reading" => pc'[u] = "reading")
  <1> USE DEF TypeInv, TypeOK, txVars, sessionVars, historyVars, Pinned
  <1>1. ASSUME NEW s \in Session, Write(s)
        PROVE  UNCHANGED <<next_tx_id, in_flight, current_tx>> /\ \A u \in Pinned' : Kept(u)
    BY <1>1 DEF Write, Unpin
  <1>2. ASSUME NEW s \in Session,
               (\E st : Execute(s, st)) \/ CollectCandidates(s) \/ RecordOutcome(s) \/ EndAborted(s)
        PROVE  UNCHANGED <<next_tx_id, in_flight, current_tx>> /\ \A u \in Pinned' : Kept(u)
    BY <1>2 DEF Execute, CollectCandidates, RecordOutcome, EndAborted
  <1>3. ASSUME NEW s \in Session,
               StatementFails(s) \/ EndTransaction(s) \/ StreamFails(s) \/ FinishRead(s)
        PROVE  UNCHANGED <<next_tx_id, in_flight, current_tx>> /\ \A u \in Pinned' : Kept(u)
    BY <1>3 DEF StatementFails, EndTransaction, StreamFails, FinishRead, Unpin
  <1>4. CASE CaptureFloor \/ StartReclaim \/ Reclaim \/ TruncateBelow \/ UNCHANGED vars
    BY <1>4 DEF CaptureFloor, StartReclaim, Reclaim, TruncateBelow, vars
  <1>5. QED
    BY <1>1, <1>2, <1>3, <1>4, NextCases DEF BeginTransaction, AutoCommit

\* New IDs are beyond every snapshot, and nothing enters in_flight again.
LEMMA SnapNext == BaseInv /\ SnapInv /\ [Next]_vars => SnapInv'
  <1> SUFFICES ASSUME BaseInv, SnapInv, [Next]_vars PROVE SnapInv'
    OBVIOUS
  <1>0. /\ TypeInv /\ next_tx_id \in Nat /\ DOMAIN pc = Session
        /\ \A s \in Session : snap[s].next_tx \in Nat
        /\ snap \in [Session -> Snap]
    BY MvccConstants DEF BaseInv, TypeInv, TypeOK, Snap, Tx
  <1>1. ASSUME NEW s \in Session, BeginWrite(s), pc[s] = "idle" PROVE SnapInv'
    <2>1. /\ next_tx_id' = next_tx_id + 1 /\ in_flight' = in_flight \cup {next_tx_id}
          /\ \A u \in Pinned' : u \in Pinned /\ snap'[u] = snap[u] /\ pc'[u] = pc[u]
                                /\ current_tx'[u] = current_tx[u]
      BY <1>0, <1>1, Types DEF BeginWrite, Pinned
    <2>2. Pinned \subseteq Session
      BY DEF Pinned
    <2>3. QED
      BY <1>0, <2>1, <2>2 DEF SnapInv, Past
  <1>2. ASSUME NEW s \in Session, TakeSnapshot(s) \/ StartRead(s) PROVE SnapInv'
    <2>1. /\ next_tx_id' = next_tx_id /\ in_flight' = in_flight /\ current_tx' = current_tx
          /\ snap' = [snap EXCEPT ![s] = SnapshotNow]
          /\ \A u \in Pinned' \ {s} : u \in Pinned /\ pc'[u] = pc[u]
      BY <1>0, <1>2 DEF TakeSnapshot, StartRead, txVars, Pinned
    <2>2. pc'[s] # "reading" => current_tx[s] \in in_flight
      <3>1. CASE TakeSnapshot(s)
        BY <3>1, Types DEF TakeSnapshot, Holding
      <3>2. CASE StartRead(s)
        BY <1>0, <3>2 DEF StartRead
      <3>3. QED
        BY <1>2, <3>1, <3>2
    <2>3. \A u \in Pinned' \ {s} : snap'[u] = snap[u]
      BY <1>0, <2>1 DEF Pinned
    <2>4. /\ snap'[s].next_tx = next_tx_id /\ snap'[s].in_flight = in_flight
      BY <1>0, <2>1 DEF SnapshotNow
    <2>5. QED
      BY <1>0, <2>1, <2>2, <2>3, <2>4 DEF SnapInv, Past
  <1>3. ASSUME NEW s \in Session, LeaveInFlight(s) PROVE SnapInv'
    <2>1. /\ next_tx_id' = next_tx_id /\ in_flight' \subseteq in_flight
          /\ \A u \in Pinned' : u \in Pinned /\ snap'[u] = snap[u] /\ pc'[u] = pc[u]
                                /\ current_tx'[u] = current_tx[u]
      BY <1>0, <1>3, Types DEF LeaveInFlight, Pinned
    <2>2. QED
      BY <2>1 DEF SnapInv, Past
  <1>4. CASE CrashAndOpen
    BY <1>4 DEF CrashAndOpen, SnapInv, Pinned
  <1>5. CASE /\ UNCHANGED <<next_tx_id, in_flight, current_tx>>
             /\ \A u \in Pinned' : u \in Pinned /\ snap'[u] = snap[u] /\ base'[u] = base[u]
                                   /\ (pc[u] = "reading" => pc'[u] = "reading")
    BY <1>5 DEF SnapInv, Past
  <1>6. QED
    BY <1>0, <1>1, <1>2, <1>3, <1>4, <1>5, SnapSteps

-----------------------------------------------------------------------------
(* Outcomes *)

LEMMA OutcomeInit == Init => OutcomeInv
  BY MvccConstants DEF Init, OutcomeInv, IsCommitted, StatusOf, Tx

\* The counter in the file header never goes back.
LEMMA HeaderGrows ==
    ASSUME BaseInv, [Next]_vars
    PROVE  header_next_tx' \in Nat \ {0} /\ header_next_tx <= header_next_tx'
  <1>1. /\ header_next_tx \in Nat \ {0} /\ meta_next_tx \in Nat \ {0}
        /\ header_next_tx <= meta_next_tx
    BY MvccConstants DEF BaseInv, TypeInv, TypeOK, StampInv
  <1>2. header_next_tx' \in {header_next_tx, meta_next_tx}
    BY NextCases DEF BeginTransaction, AutoCommit, BeginWrite, TakeSnapshot, Execute, CollectCandidates,
       Write, StatementFails, EndTransaction, RecordOutcome, LeaveInFlight, StreamFails,
       EndAborted, StartRead, FinishRead, CaptureFloor, StartReclaim, Reclaim,
       TruncateBelow, CrashAndOpen, fileVars, vars
  <1>3. QED
    BY <1>1, <1>2

\* Nobody else has touched the rows a statement collected, so it meets no conflict with
\* a transaction in flight.
LEMMA NoForeignStamp ==
    ASSUME BaseInv, SnapInv, StatementInv, NEW s \in Session,
           pc[s] \in {"open", "scan", "write"},
           NEW r \in rows, r.item \in workload.may_write[s],
           NEW t \in {r.tx_min, r.tx_max} \ {0, current_tx[s]}
    PROVE  Past(snap[s], t) /\ t \in Tx /\ t < next_tx_id /\ t \notin in_flight
  <1>1. Past(snap[s], t)
    BY DEF StatementInv, StatementOk
  <1>2. t \in Tx /\ t < next_tx_id
    BY Types
  <1>3. t \notin in_flight
    BY <1>1 DEF SnapInv, Pinned
  <1>4. QED
    BY <1>1, <1>2, <1>3

LEMMA CandidatesAreRows ==
    ASSUME StatementInv, NEW s \in Session, NEW r \in candidates[s]
    PROVE  /\ pc[s] = "write" /\ r \in rows /\ r.item = stmt[s].item
           /\ r.item \in workload.may_write[s]
           /\ Live(Seen(snap[s]) \cup {current_tx[s]}, r)
  BY DEF StatementInv, StatementOk

LEMMA NoConflictWhileUp ==
    ASSUME BaseInv, SnapInv, StatementInv, "crash" \notin workload.events,
           NEW s \in Session, NEW r \in candidates[s]
    PROVE  ~ConflictsWith(current_tx[s], r)
  <1> SUFFICES ASSUME ConflictsWith(current_tx[s], r) PROVE FALSE
    OBVIOUS
  <1>1. r.tx_max # 0 /\ r.tx_max # current_tx[s] /\ StatusOf(r.tx_max) = "None"
    BY DEF ConflictsWith
  <1>2. r.tx_max \in Tx /\ r.tx_max < next_tx_id /\ r.tx_max \notin in_flight
    BY <1>1, CandidatesAreRows, NoForeignStamp
  <1>3. QED
    BY <1>1, <1>2 DEF BaseInv, UpInv, LogInv

LEMMA OutcomeNext ==
    ASSUME BaseInv, SnapInv, Known, OutcomeInv, StatementInv, [Next]_vars
    PROVE  OutcomeInv'
  <1>0. /\ workload' = workload /\ DOMAIN pc = Session /\ DOMAIN txn = Session
        /\ outcome \in [Session -> {"Committed", "RolledBack"}]
        /\ clog \in [Tx -> Status]
        /\ meta_next_tx \in Nat /\ header_next_tx \in Nat /\ next_tx_id \in Nat
        /\ header_next_tx <= next_tx_id
        /\ Tx \subseteq Nat \ {0}
        /\ current_tx \in [Session -> Nat]
        /\ \A s \in Session : current_tx[s] # 0 => current_tx[s] \in Tx
    BY NextCases, Types, MvccConstants DEF BaseInv, TypeInv, TypeOK, StampInv
  <1>h. header_next_tx' \in Nat /\ 0 < header_next_tx' /\ header_next_tx <= header_next_tx'
    BY HeaderGrows
  <1>1. ASSUME NEW s \in Session, BeginWrite(s), pc[s] = "idle",
               \A u \in Session : txn'[u] = "Aborted" => txn[u] = "Aborted"
        PROVE  OutcomeInv'
    <2>1. /\ next_tx_id' = next_tx_id + 1 /\ in_flight' = in_flight \cup {next_tx_id}
          /\ UNCHANGED <<clog, min_tx_id, outcome, header_next_tx>>
          /\ current_tx' = [current_tx EXCEPT ![s] = next_tx_id]
          /\ pc' = [pc EXCEPT ![s] = "begun"]
          /\ next_tx_id \in Tx
      BY <1>1, <1>0, MvccConstants DEF BeginWrite, clogVars, fileVars, Tx, BaseInv, TypeInv, TypeOK
    <2>2. clog[next_tx_id] = "None"
      BY <1>0, <2>1 DEF OutcomeInv
    <2>3. /\ \A u \in Session : pc'[u] = "leave" => clog'[current_tx'[u]] = outcome'[u]
          /\ \A t \in Tx : clog'[t] # "None" => t < next_tx_id'
          /\ \A u \in Session :
               current_tx'[u] # 0 /\ pc'[u] # "leave" => clog'[current_tx'[u]] = "None"
      BY <1>0, <2>1, <2>2 DEF OutcomeInv
    <2>4. "crash" \in workload.events =>
          /\ \A t \in Tx : clog'[t] # "None" => t < header_next_tx'
          /\ \A u \in Session : pc'[u] \in {"record", "leave", "aborted"} =>
                current_tx'[u] < header_next_tx'
      BY <1>0, <2>1 DEF OutcomeInv
    <2>5. "truncate" \in workload.events =>
          /\ \A u \in Session : pc'[u] \in {"record", "leave"} => outcome'[u] = "Committed"
          /\ \A u \in Session : pc'[u] # "aborted" /\ txn'[u] # "Aborted"
          /\ \A t \in Tx : t < next_tx_id' /\ t \notin in_flight' => IsCommitted(t)'
      <3>1. \A t \in Tx : IsCommitted(t)' <=> IsCommitted(t)
        BY <2>1 DEF IsCommitted, StatusOf
      <3>2. \A t \in Tx : t < next_tx_id' /\ t \notin in_flight' => t < next_tx_id /\ t \notin in_flight
        BY <1>0, <2>1
      <3>3. QED
        BY <1>0, <1>1, <2>1, <3>1, <3>2 DEF OutcomeInv
    <2>6. QED
      BY <1>0, <2>3, <2>4, <2>5 DEF OutcomeInv
  <1>2. ASSUME NEW s \in Session, RecordOutcome(s) PROVE OutcomeInv'
    <2>1. /\ UNCHANGED <<next_tx_id, in_flight, outcome, header_next_tx, min_tx_id, current_tx, txn>>
          /\ clog' = [clog EXCEPT ![current_tx[s]] = outcome[s]]
          /\ pc' = [pc EXCEPT ![s] = "leave"] /\ pc[s] = "record"
      BY <1>2 DEF RecordOutcome, fileVars, txVars
    <2>2. current_tx[s] \in Tx /\ current_tx[s] < next_tx_id /\ current_tx[s] # 0
      BY <2>1, Types DEF Holding
    <2>3. \A u \in Session \ {s} : current_tx[u] # 0 => current_tx[u] # current_tx[s]
      BY Types
    <2>4. \A t \in Tx : t # current_tx[s] => clog'[t] = clog[t]
      BY <1>0, <2>1
    <2>5. clog'[current_tx[s]] = outcome[s]
      BY <1>0, <2>1, <2>2
    <2>6. \A u \in Session : pc'[u] = "leave" => clog'[current_tx'[u]] = outcome'[u]
      <3>1. ASSUME NEW u \in Session \ {s}, pc[u] = "leave" PROVE clog'[current_tx[u]] = outcome[u]
        <4>1. current_tx[u] # 0
          BY <3>1, Types DEF Holding
        <4>2. QED
          BY <1>0, <2>3, <2>4, <3>1, <4>1 DEF OutcomeInv
      <3>2. QED
        BY <1>0, <2>1, <2>5, <3>1
    <2>7. /\ \A t \in Tx : clog'[t] # "None" => t < next_tx_id'
          /\ \A u \in Session :
               current_tx'[u] # 0 /\ pc'[u] # "leave" => clog'[current_tx'[u]] = "None"
      BY <1>0, <2>1, <2>2, <2>3, <2>4 DEF OutcomeInv
    <2>8. "crash" \in workload.events =>
          /\ \A t \in Tx : clog'[t] # "None" => t < header_next_tx'
          /\ \A u \in Session : pc'[u] \in {"record", "leave", "aborted"} =>
                current_tx'[u] < header_next_tx'
      BY <1>0, <2>1, <2>4 DEF OutcomeInv
    <2>9. "truncate" \in workload.events =>
          /\ \A u \in Session : pc'[u] \in {"record", "leave"} => outcome'[u] = "Committed"
          /\ \A u \in Session : pc'[u] # "aborted" /\ txn'[u] # "Aborted"
      BY <1>0, <2>1 DEF OutcomeInv
    <2>10. "truncate" \in workload.events =>
             \A t \in Tx : t < next_tx_id' /\ t \notin in_flight' => IsCommitted(t)'
      BY <2>1, EndedIsFinal DEF OutcomeInv
    <2>11. QED
      BY <1>0, <2>6, <2>7, <2>8, <2>9, <2>10 DEF OutcomeInv
  <1>3. ASSUME NEW s \in Session, LeaveInFlight(s) PROVE OutcomeInv'
    <2>1. /\ UNCHANGED <<next_tx_id, clog, header_next_tx, min_tx_id, txn>>
          /\ in_flight' = in_flight \ {current_tx[s]} /\ pc[s] = "leave"
          /\ current_tx' = [current_tx EXCEPT ![s] = 0]
          /\ \A u \in Session \ {s} : pc'[u] = pc[u] /\ outcome'[u] = outcome[u]
          /\ pc'[s] \in {"aborted", "idle"} /\ (pc'[s] = "aborted" => txn[s] = "Aborted")
      BY <1>0, <1>3 DEF LeaveInFlight, clogVars, fileVars
    <2>2. /\ \A u \in Session : pc'[u] = "leave" => clog'[current_tx'[u]] = outcome'[u]
          /\ \A t \in Tx : clog'[t] # "None" => t < next_tx_id'
          /\ \A u \in Session :
               current_tx'[u] # 0 /\ pc'[u] # "leave" => clog'[current_tx'[u]] = "None"
      BY <1>0, <2>1 DEF OutcomeInv
    <2>3. "crash" \in workload.events =>
          /\ \A t \in Tx : clog'[t] # "None" => t < header_next_tx'
          /\ \A u \in Session : pc'[u] \in {"record", "leave", "aborted"} =>
                current_tx'[u] < header_next_tx'
      BY <1>0, <1>h, <2>1 DEF OutcomeInv
    <2>4. "truncate" \in workload.events =>
          /\ \A u \in Session : pc'[u] \in {"record", "leave"} => outcome'[u] = "Committed"
          /\ \A u \in Session : pc'[u] # "aborted" /\ txn'[u] # "Aborted"
          /\ \A t \in Tx : t < next_tx_id' /\ t \notin in_flight' => IsCommitted(t)'
      <3>1. \A t \in Tx : IsCommitted(t)' <=> IsCommitted(t)
        BY <2>1 DEF IsCommitted, StatusOf
      <3>2. "truncate" \in workload.events => IsCommitted(current_tx[s])
        BY <2>1 DEF OutcomeInv, IsCommitted, StatusOf
      <3>3. QED
        BY <1>0, <2>1, <3>1, <3>2 DEF OutcomeInv
    <2>5. QED
      BY <1>0, <2>2, <2>3, <2>4 DEF OutcomeInv
  <1>4. ASSUME NEW s \in Session,
               \/ Write(s) \/ StatementFails(s) \/ EndTransaction(s)
               \/ StreamFails(s) \/ EndAborted(s)
        PROVE  OutcomeInv'
    <2>1. /\ UNCHANGED <<next_tx_id, clog, min_tx_id, in_flight, current_tx>>
          /\ \A u \in Session \ {s} : pc'[u] = pc[u] /\ outcome'[u] = outcome[u] /\ txn'[u] = txn[u]
          /\ pc[s] \notin {"leave", "record"} /\ pc'[s] \in {"open", "record", "aborted", "idle"}
      BY <1>0, <1>4 DEF Write, StatementFails, EndTransaction, StreamFails, EndAborted,
         clogVars, txVars
    <2>2. /\ \A u \in Session : pc'[u] = "leave" => clog'[current_tx'[u]] = outcome'[u]
          /\ \A t \in Tx : clog'[t] # "None" => t < next_tx_id'
          /\ \A u \in Session :
               current_tx'[u] # 0 /\ pc'[u] # "leave" => clog'[current_tx'[u]] = "None"
      BY <2>1 DEF OutcomeInv
    <2>3. "crash" \in workload.events /\ pc'[s] \in {"record", "aborted"} =>
             current_tx[s] < header_next_tx'
      <3> SUFFICES ASSUME "crash" \in workload.events, pc'[s] \in {"record", "aborted"}
                   PROVE  current_tx[s] < header_next_tx'
        OBVIOUS
      <3>1. ASSUME MayEnd(s) PROVE current_tx[s] < header_next_tx'
        BY <1>0, <1>h, <3>1 DEF MayEnd, Known
      <3>2. CASE Write(s)
        <4>1. current_tx[s] < meta_next_tx
          BY <3>2, Types DEF Write, BaseInv, StampInv, Holding
        <4>2. header_next_tx' = meta_next_tx \/ MayEnd(s)
          BY <3>2 DEF Write
        <4>3. QED
          BY <3>1, <4>1, <4>2
      <3>3. CASE EndAborted(s)
        <4>1. current_tx[s] < header_next_tx
          BY <3>3 DEF EndAborted, OutcomeInv
        <4>2. QED
          BY <1>0, <1>h, <4>1
      <3>4. QED
        BY <1>4, <3>1, <3>2, <3>3 DEF StatementFails, EndTransaction, StreamFails
    <2>4. "crash" \in workload.events =>
          /\ \A t \in Tx : clog'[t] # "None" => t < header_next_tx'
          /\ \A u \in Session : pc'[u] \in {"record", "leave", "aborted"} =>
                current_tx'[u] < header_next_tx'
      <3> SUFFICES ASSUME "crash" \in workload.events
                   PROVE  /\ \A t \in Tx : clog'[t] # "None" => t < header_next_tx'
                          /\ \A u \in Session : pc'[u] \in {"record", "leave", "aborted"} =>
                                current_tx'[u] < header_next_tx'
        OBVIOUS
      <3>1. \A t \in Tx : clog[t] # "None" => t < header_next_tx'
        BY <1>0, <1>h DEF OutcomeInv
      <3>2. \A u \in Session \ {s} : pc[u] \in {"record", "leave", "aborted"} =>
                current_tx[u] < header_next_tx'
        BY <1>0, <1>h DEF OutcomeInv
      <3>3. QED
        BY <2>1, <2>3, <3>1, <3>2
    <2>5. "truncate" \in workload.events =>
             /\ pc'[s] = "record" => outcome'[s] = "Committed"
             /\ pc'[s] # "aborted" /\ txn'[s] # "Aborted"
      <3> SUFFICES ASSUME "truncate" \in workload.events
                   PROVE  /\ pc'[s] = "record" => outcome'[s] = "Committed"
                          /\ pc'[s] # "aborted" /\ txn'[s] # "Aborted"
        OBVIOUS
      <3>1. Verdict = {"Committed"} /\ "crash" \notin workload.events /\ "rollback" \notin workload.events
        BY DEF Verdict, Known
      <3>2. ~StatementFails(s)
        BY <3>1, NoConflictWhileUp DEF StatementFails
      <3>3. ~StreamFails(s) /\ ~EndAborted(s)
        BY <3>1 DEF StreamFails, EndAborted, OutcomeInv
      <3>4. CASE Write(s)
        <4>1. /\ txn' = txn
              /\ \/ pc' = [pc EXCEPT ![s] = "open"]
                 \/ /\ pc' = [pc EXCEPT ![s] = "record"]
                    /\ \E o \in Verdict : outcome' = [outcome EXCEPT ![s] = o]
          BY <3>4 DEF Write
        <4>2. QED
          BY <1>0, <3>1, <4>1 DEF OutcomeInv
      <3>5. CASE EndTransaction(s)
        BY <1>0, <3>1, <3>5 DEF EndTransaction
      <3>6. QED
        BY <1>4, <3>2, <3>3, <3>4, <3>5
    <2>6. "truncate" \in workload.events =>
          /\ \A u \in Session : pc'[u] \in {"record", "leave"} => outcome'[u] = "Committed"
          /\ \A u \in Session : pc'[u] # "aborted" /\ txn'[u] # "Aborted"
      BY <2>1, <2>5 DEF OutcomeInv
    <2>7. "truncate" \in workload.events =>
             \A t \in Tx : t < next_tx_id' /\ t \notin in_flight' => IsCommitted(t)'
      BY <2>1, EndedIsFinal DEF OutcomeInv
    <2>8. QED
      BY <1>0, <2>2, <2>4, <2>6, <2>7 DEF OutcomeInv
  <1>5. CASE TruncateBelow
    <2>1. /\ UNCHANGED <<next_tx_id, in_flight, current_tx, pc, outcome, txn, header_next_tx>>
          /\ clog' = [t \in Tx |-> IF t < floor THEN "None" ELSE clog[t]]
          /\ \A u \in Session : current_tx[u] # 0 => current_tx[u] \in Tx /\ ~(current_tx[u] < floor)
      <3>1. \A u \in Session : current_tx[u] # 0 => current_tx[u] \in Tx /\ floor <= current_tx[u]
        BY Types DEF BaseInv, TxInv
      <3>2. floor \in Nat
        BY MvccConstants DEF BaseInv, TypeInv, TypeOK
      <3>3. QED
        BY <1>0, <1>5, <3>1, <3>2 DEF TruncateBelow, txVars, sessionVars, fileVars
    <2>2. \A u \in Session : pc[u] = "leave" => current_tx[u] # 0
      BY Types DEF Holding
    <2>3. \A t \in Tx : clog'[t] # "None" => clog[t] # "None" /\ clog'[t] = clog[t]
      BY <1>0, <2>1
    <2>4. \A u \in Session : current_tx[u] # 0 => clog'[current_tx[u]] = clog[current_tx[u]]
      BY <1>0, <2>1
    <2>5. \A u \in Session : pc'[u] = "leave" => clog'[current_tx'[u]] = outcome'[u]
      BY <2>1, <2>2, <2>4 DEF OutcomeInv
    <2>6. /\ \A t \in Tx : clog'[t] # "None" => t < next_tx_id'
          /\ \A u \in Session :
               current_tx'[u] # 0 /\ pc'[u] # "leave" => clog'[current_tx'[u]] = "None"
      BY <2>1, <2>3, <2>4 DEF OutcomeInv
    <2>7. "crash" \in workload.events =>
          /\ \A t \in Tx : clog'[t] # "None" => t < header_next_tx'
          /\ \A u \in Session : pc'[u] \in {"record", "leave", "aborted"} =>
                current_tx'[u] < header_next_tx'
      BY <2>1, <2>3 DEF OutcomeInv
    <2>8. "truncate" \in workload.events =>
             \A t \in Tx : t < next_tx_id' /\ t \notin in_flight' => IsCommitted(t)'
      BY <2>1, EndedIsFinal DEF OutcomeInv
    <2>9. "truncate" \in workload.events =>
          /\ \A u \in Session : pc'[u] \in {"record", "leave"} => outcome'[u] = "Committed"
          /\ \A u \in Session : pc'[u] # "aborted" /\ txn'[u] # "Aborted"
      BY <2>1 DEF OutcomeInv
    <2>10. QED
      BY <1>0, <2>5, <2>6, <2>7, <2>8, <2>9 DEF OutcomeInv
  <1>6. CASE CrashAndOpen
    <2>1. /\ "crash" \in workload.events /\ "truncate" \notin workload.events
          /\ UNCHANGED <<clog, header_next_tx>> /\ next_tx_id' = header_next_tx
          /\ \A u \in Session : pc'[u] = "idle" /\ current_tx'[u] = 0
      BY <1>6 DEF CrashAndOpen, Known, clogVars, fileVars
    <2>2. QED
      BY <1>0, <1>h, <2>1 DEF OutcomeInv
  <1>7. CASE /\ UNCHANGED <<next_tx_id, clog, min_tx_id, in_flight, current_tx, outcome>>
             /\ \A u \in Session : /\ pc'[u] \in {"record", "leave", "aborted"} => pc'[u] = pc[u]
                                   /\ pc[u] = "leave" => pc'[u] = "leave"
                                   /\ txn'[u] = "Aborted" => txn[u] = "Aborted"
    <2>1. /\ \A u \in Session : pc'[u] = "leave" => clog'[current_tx'[u]] = outcome'[u]
          /\ \A t \in Tx : clog'[t] # "None" => t < next_tx_id'
          /\ \A u \in Session :
               current_tx'[u] # 0 /\ pc'[u] # "leave" => clog'[current_tx'[u]] = "None"
      BY <1>7 DEF OutcomeInv
    <2>2. "crash" \in workload.events =>
          /\ \A t \in Tx : clog'[t] # "None" => t < header_next_tx'
          /\ \A u \in Session : pc'[u] \in {"record", "leave", "aborted"} =>
                current_tx'[u] < header_next_tx'
      <3> SUFFICES ASSUME "crash" \in workload.events
                   PROVE  /\ \A t \in Tx : clog'[t] # "None" => t < header_next_tx'
                          /\ \A u \in Session : pc'[u] \in {"record", "leave", "aborted"} =>
                                current_tx'[u] < header_next_tx'
        OBVIOUS
      <3>1. \A t \in Tx : clog[t] # "None" => t < header_next_tx'
        BY <1>0, <1>h DEF OutcomeInv
      <3>2. \A u \in Session : pc[u] \in {"record", "leave", "aborted"} =>
                current_tx[u] < header_next_tx'
        BY <1>0, <1>h DEF OutcomeInv
      <3>3. QED
        BY <1>7, <3>1, <3>2
    <2>3. "truncate" \in workload.events =>
          /\ \A u \in Session : pc'[u] \in {"record", "leave"} => outcome'[u] = "Committed"
          /\ \A u \in Session : pc'[u] # "aborted" /\ txn'[u] # "Aborted"
      BY <1>7 DEF OutcomeInv
    <2>4. "truncate" \in workload.events =>
             \A t \in Tx : t < next_tx_id' /\ t \notin in_flight' => IsCommitted(t)'
      BY <1>7, EndedIsFinal DEF OutcomeInv
    <2>5. QED
      BY <1>0, <2>1, <2>2, <2>3, <2>4 DEF OutcomeInv
  <1>8. ASSUME NEW s \in Session,
               \/ TakeSnapshot(s) \/ (\E st : Execute(s, st)) \/ CollectCandidates(s)
               \/ StartRead(s) \/ FinishRead(s)
        PROVE  OutcomeInv'
    BY <1>0, <1>7, <1>8 DEF TakeSnapshot, Execute, CollectCandidates, StartRead, FinishRead,
       FirstStep, clogVars, txVars
  <1>9. CASE CaptureFloor \/ StartReclaim \/ Reclaim \/ UNCHANGED vars
    BY <1>7, <1>9 DEF CaptureFloor, StartReclaim, Reclaim, vars, clogVars, txVars, sessionVars
  <1>10. ASSUME NEW s \in Session,
                BeginTransaction(s) \/ (\E st : AutoCommit(s, st))
         PROVE  OutcomeInv'
    <2>1. /\ BeginWrite(s) /\ pc[s] = "idle"
          /\ \A u \in Session : txn'[u] = "Aborted" => txn[u] = "Aborted"
      BY <1>0, <1>10 DEF BeginTransaction, AutoCommit
    <2>2. QED
      BY <1>1, <2>1
  <1>11. QED
    BY <1>2, <1>3, <1>4, <1>5, <1>6, <1>8, <1>9, <1>10, NextCases

-----------------------------------------------------------------------------
(* Rows *)

\* The transactions E commit after the transactions D, in the table R.
CommitAfter(R, D, E) ==
    /\ 0 \notin D /\ 0 \notin E /\ D \cap E = {}
    /\ \A r, q \in R : r.id = q.id => r = q
    /\ \A r \in R : r.tx_max # 0 => r.tx_min = r.tx_max \/ r.tx_min \in D

Committed(R, D, E) ==
    (Shown(R, D) \cup Ids({r \in R : r.tx_min \in E})) \ Ids({r \in R : r.tx_max \in E})

\* A commit adds what the transactions wrote and removes what they deleted.
LEMMA ShownAfterCommit ==
    ASSUME NEW R, NEW D, NEW E, CommitAfter(R, D, E)
    PROVE  Shown(R, D \cup E) = Committed(R, D, E)
  <1> USE DEF CommitAfter
  <1> DEFINE Now == (Shown(R, D) \cup Ids({r \in R : r.tx_min \in E}))
                      \ Ids({r \in R : r.tx_max \in E})
  <1>1. ASSUME NEW r \in R, Live(D \cup E, r) PROVE r.id \in Now
    BY <1>1 DEF Live, Shown, Ids
  <1>2. ASSUME NEW n \in Now PROVE \E r \in R : n = r.id /\ Live(D \cup E, r)
    <2>1. PICK r \in R : n = r.id /\ (Live(D, r) \/ r.tx_min \in E)
      BY DEF Shown, Ids
    <2>2. r.tx_max \notin E
      BY <2>1 DEF Ids
    <2>3. Live(D \cup E, r)
      BY <2>1, <2>2 DEF Live
    <2>4. QED
      BY <2>1, <2>3
  <1>3. Shown(R, D \cup E) \subseteq Now
    BY <1>1 DEF Shown
  <1>4. Now \subseteq Shown(R, D \cup E)
    BY <1>2 DEF Shown
  <1>5. QED
    BY <1>3, <1>4 DEF Committed

\* What a write statement meets when nobody else writes its session's items.
LEMMA WriteFacts ==
    ASSUME BaseInv, SnapInv, StatementInv, ~Contested, NEW s \in Session, pc[s] = "write"
    PROVE  /\ current_tx[s] \in Tx /\ current_tx[s] \in in_flight /\ current_tx[s] # 0
           /\ current_tx[s] \notin Done
           /\ stmt[s].item \in workload.may_write[s]
           /\ \A u \in Session \ {s} : stmt[s].item \notin workload.may_write[u]
           /\ candidates[s] = {r \in rows : r.item = stmt[s].item
                                  /\ Live(Done \cup {current_tx[s]}, r)}
           /\ stmt[s].op = "insert" => \A r \in rows : r.item # stmt[s].item
           /\ \A r \in candidates[s] : r.tx_max \notin in_flight
  <1>1. current_tx[s] \in Tx /\ current_tx[s] \in in_flight /\ current_tx[s] # 0
    BY Types DEF Holding
  <1>2. current_tx[s] \notin Done
    BY <1>1, DoneMeans
  <1>3. /\ stmt[s].item \in workload.may_write[s]
        /\ stmt[s].op = "insert" => \A r \in rows : r.item # stmt[s].item
        /\ candidates[s] = {r \in rows : r.item = stmt[s].item
                               /\ Live(Seen(snap[s]) \cup {current_tx[s]}, r)}
    BY DEF StatementInv, StatementOk
  <1>4. \A u \in Session \ {s} : stmt[s].item \notin workload.may_write[u]
    BY <1>3 DEF Contested
  <1>5. ASSUME NEW r \in rows, r.item = stmt[s].item
        PROVE  /\ Live(Seen(snap[s]) \cup {current_tx[s]}, r) <=> Live(Done \cup {current_tx[s]}, r)
               /\ r.tx_max # current_tx[s] => r.tx_max \notin in_flight
    <2>1. ASSUME NEW t \in {r.tx_min, r.tx_max} \ {0, current_tx[s]}
          PROVE  (t \in Seen(snap[s]) <=> t \in Done) /\ t \notin in_flight
      <3>1. Past(snap[s], t) /\ t \in Tx /\ t < next_tx_id /\ t \notin in_flight
        BY <1>3, <1>5, NoForeignStamp
      <3>2. t \in Seen(snap[s]) <=> IsCommitted(t)
        BY <3>1 DEF Seen, Covers, Past
      <3>3. QED
        BY <3>1, <3>2, DoneMeans
    <2>2. 0 \notin Seen(snap[s]) /\ 0 \notin Done /\ 0 \notin in_flight
      BY Types DEF Done, Seen
    <2>3. QED
      BY <2>1, <2>2 DEF Live
  <1>6. \A r \in candidates[s] : r.tx_max \notin in_flight
    BY <1>3, <1>5 DEF Live
  <1>7. candidates[s] = {r \in rows : r.item = stmt[s].item
                            /\ Live(Done \cup {current_tx[s]}, r)}
    BY <1>3, <1>5
  <1>8. QED
    BY <1>1, <1>2, <1>3, <1>4, <1>6, <1>7

\* The versions in the table after a write statement: kept, tombstoned or new.
Tombstone(s, q) == [q EXCEPT !.tx_max = current_tx[s]]

LEMMA WriteRows ==
    ASSUME BaseInv, RowInv, NEW s \in Session, Write(s), candidates[s] \subseteq rows
    PROVE  /\ \A r : r \in rows' <=> \/ r \in rows /\ r \notin candidates[s]
                                     \/ \E q \in candidates[s] : r = Tombstone(s, q)
                                     \/ r \in Adds(s)
           /\ \A q \in candidates[s] : LET r == Tombstone(s, q) IN
                r.id = q.id /\ r.item = q.item /\ r.tx_min = q.tx_min /\ r.tx_max = current_tx[s]
           /\ \A r \in Adds(s) :
                /\ r.id = next_rowid /\ r.item = stmt[s].item
                /\ r.tx_min = current_tx[s] /\ r.tx_max = 0
                /\ Adds(s) = {r} /\ next_rowid' = next_rowid + 1
           /\ next_rowid' \in Nat /\ next_rowid <= next_rowid'
           /\ ins' = [ins EXCEPT ![current_tx[s]] = @ \cup {r.id : r \in Adds(s)}]
           /\ del' = [del EXCEPT ![current_tx[s]] = @ \cup {r.id : r \in candidates[s]}]
           /\ UNCHANGED <<clogVars, txVars, txn, current_tx, gcVars, db>>
  <1>1. /\ rows' = {r \in rows : r.id \notin {q.id : q \in candidates[s]}}
                      \cup Tombstoned(s) \cup Adds(s)
        /\ next_rowid' = next_rowid + Cardinality(Adds(s))
        /\ ins' = [ins EXCEPT ![current_tx[s]] = @ \cup {r.id : r \in Adds(s)}]
        /\ del' = [del EXCEPT ![current_tx[s]] = @ \cup {r.id : r \in candidates[s]}]
        /\ UNCHANGED <<clogVars, txVars, txn, current_tx, gcVars, db>>
    BY WriteEffect, Zenon
  <1>2. \A r \in rows : r.id \notin {q.id : q \in candidates[s]} <=> r \notin candidates[s]
    BY DEF RowInv
  <1>3. \A r : r \in Tombstoned(s) <=> \E q \in candidates[s] : r = Tombstone(s, q)
    BY DEF Tombstoned, Tombstone
  <1>4. \A r : r \in rows' <=> \/ r \in rows /\ r \notin candidates[s]
                               \/ \E q \in candidates[s] : r = Tombstone(s, q)
                               \/ r \in Adds(s)
    BY <1>1, <1>2, <1>3
  <1>5. \A q \in candidates[s] : LET r == Tombstone(s, q) IN
          r.id = q.id /\ r.item = q.item /\ r.tx_min = q.tx_min /\ r.tx_max = current_tx[s]
    <2>1. candidates[s] \subseteq Row
      BY Types
    <2>2. QED
      BY <2>1 DEF Tombstone, Row
  <1>6. next_rowid \in Nat
    BY Types
  <1>7. \/ Adds(s) = {} /\ Cardinality(Adds(s)) = 0
        \/ Adds(s) = {NewVersion(s)} /\ Cardinality(Adds(s)) = 1
    BY AddsCardinality, Zenon
  <1>8. next_rowid' \in Nat /\ next_rowid <= next_rowid'
    BY <1>1, <1>6, <1>7
  <1>9. ASSUME NEW r \in Adds(s)
        PROVE  /\ r.id = next_rowid /\ r.item = stmt[s].item
               /\ r.tx_min = current_tx[s] /\ r.tx_max = 0
               /\ Adds(s) = {r} /\ next_rowid' = next_rowid + 1
    <2>1. r = NewVersion(s) /\ Adds(s) = {r} /\ Cardinality(Adds(s)) = 1
      BY <1>7
    <2>2. QED
      BY <1>1, <2>1 DEF NewVersion
  <1>10. QED
    BY <1>1, <1>4, <1>5, <1>8, <1>9, Zenon

\* The steps that change the table, the history or who is in flight.
LEMMA RowSteps ==
    ASSUME [Next]_vars
    PROVE  \/ \E s \in Session : BeginWrite(s)
           \/ \E s \in Session : Write(s)
           \/ \E s \in Session : LeaveInFlight(s)
           \/ Reclaim \/ CrashAndOpen
           \/ UNCHANGED <<rows, next_rowid, next_tx_id, in_flight, current_tx, ins, del, db>>
  BY NextCases
     DEF BeginTransaction, AutoCommit, TakeSnapshot, Execute, CollectCandidates,
         StatementFails, EndTransaction, RecordOutcome, StreamFails, EndAborted,
         StartRead, FinishRead, CaptureFloor, StartReclaim, TruncateBelow,
         vars, fileVars, txVars, sessionVars, historyVars

LEMMA RowInit == Init => RowInv
  <1> SUFFICES ASSUME Init PROVE RowInv
    OBVIOUS
  <1>1. /\ DOMAIN Order = 1..Cardinality(Loaded) /\ Cardinality(Loaded) \in Nat
        /\ rows = {[id |-> n, item |-> Order[n], tx_min |-> 1, tx_max |-> 0] : n \in DOMAIN Order}
        /\ next_rowid = Cardinality(Loaded) + 1
        /\ \A s \in Session : current_tx[s] = 0
    BY OrderIsOneToOne DEF Init
  <1>2. QED
    BY <1>1 DEF RowInv

\* A statement writes its tombstones and its version on items of its session only.
LEMMA RowNext ==
    ASSUME BaseInv, SnapInv, Calm, OutcomeInv, RowInv, StatementInv, [Next]_vars
    PROVE  RowInv'
  <1>0. workload' = workload /\ Known /\ ~Contested
    BY NextCases DEF Calm
  <1>1. ASSUME NEW s \in Session, BeginWrite(s) PROVE RowInv'
    <2>1. /\ current_tx' = [current_tx EXCEPT ![s] = next_tx_id]
          /\ UNCHANGED <<rows, next_rowid>>
      BY <1>1 DEF BeginWrite, fileVars
    <2>2. Done' = Done
      BY <1>1, DoneBegin
    <2>3. \A r \in rows : next_tx_id \notin {r.tx_min, r.tx_max}
      <3>1. ASSUME NEW r \in rows PROVE next_tx_id # r.tx_min /\ next_tx_id # r.tx_max
        <4>1. r.tx_min \in Nat /\ r.tx_max \in Nat /\ r.tx_min < next_tx_id /\ r.tx_max < next_tx_id
          BY Types
        <4>2. QED
          BY <4>1, Types
      <3>2. QED
        BY <3>1
    <2>4. \A u \in Session : current_tx'[u] = current_tx[u] \/ current_tx'[u] = next_tx_id
      BY <2>1, Types
    <2>5. QED
      BY <1>0, <2>1, <2>2, <2>3, <2>4 DEF RowInv
  <1>2. ASSUME NEW s \in Session, Write(s) PROVE RowInv'
    <2> DEFINE own == current_tx[s]
               C   == candidates[s]
    <2>1. /\ own \in Tx /\ own # 0 /\ stmt[s].item \in workload.may_write[s]
          /\ C \subseteq rows /\ \A q \in C : q.item = stmt[s].item /\ q.tx_min \in Done \cup {own}
      <3>1. pc[s] = "write"
        BY <1>2 DEF Write
      <3>2. QED
        BY <1>0, <3>1, WriteFacts DEF Live
    <2>2. /\ \A r : r \in rows' <=> \/ r \in rows /\ r \notin C
                                    \/ \E q \in C : r = Tombstone(s, q)
                                    \/ r \in Adds(s)
          /\ \A q \in C : LET r == Tombstone(s, q) IN
               r.id = q.id /\ r.item = q.item /\ r.tx_min = q.tx_min /\ r.tx_max = own
          /\ \A r \in Adds(s) : /\ r.id = next_rowid /\ r.item = stmt[s].item
                                /\ r.tx_min = own /\ r.tx_max = 0
                                /\ Adds(s) = {r} /\ next_rowid' = next_rowid + 1
          /\ next_rowid' \in Nat /\ next_rowid <= next_rowid'
      BY <1>2, <2>1, WriteRows
    <2>3. Done' = Done /\ current_tx' = current_tx
      <3>1. UNCHANGED <<in_flight, next_tx_id, current_tx>>
        BY <1>2 DEF Write, txVars
      <3>2. QED
        BY <1>0, <3>1, DoneOther
    <2>4. /\ \A r \in rows : r.id \in Nat /\ r.id < next_rowid
          /\ next_rowid \in Nat
      BY Types DEF RowInv
    <2>5. \A r \in rows' : r.id < next_rowid'
      <3>1. ASSUME NEW r \in rows PROVE r.id < next_rowid'
        BY <2>2, <2>4
      <3>2. \A r \in Adds(s) : r.id < next_rowid'
        BY <2>2, <2>4
      <3>3. QED
        BY <2>1, <2>2, <3>1, <3>2
    <2>6. ASSUME NEW r \in rows', NEW q \in rows', r.id = q.id PROVE r = q
      <3>1. ASSUME NEW a \in rows', a \notin Adds(s)
            PROVE  \E b \in rows : a.id = b.id /\ (\/ a = b /\ b \notin C
                                                   \/ b \in C /\ a = Tombstone(s, b))
        BY <2>1, <2>2, <3>1
      <3>2. ASSUME NEW a \in rows', a \notin Adds(s) PROVE a.id # next_rowid
        BY <2>4, <3>1, <3>2
      <3>3. CASE r \in Adds(s) \/ q \in Adds(s)
        <4>1. r \in Adds(s) /\ q \in Adds(s)
          BY <2>2, <2>6, <3>2, <3>3
        <4>2. QED
          BY <2>2, <4>1
      <3>4. CASE r \notin Adds(s) /\ q \notin Adds(s)
        <4>1. PICK b \in rows : r.id = b.id /\ (\/ r = b /\ b \notin C
                                                \/ b \in C /\ r = Tombstone(s, b))
          BY <3>1, <3>4
        <4>2. PICK c \in rows : q.id = c.id /\ (\/ q = c /\ c \notin C
                                                \/ c \in C /\ q = Tombstone(s, c))
          BY <3>1, <3>4
        <4>3. b = c
          BY <2>6, <4>1, <4>2 DEF RowInv
        <4>4. QED
          BY <4>1, <4>2, <4>3
      <3>5. QED
        BY <3>3, <3>4
    <2>7. ASSUME NEW u \in Session, NEW r \in rows', current_tx[u] # 0,
                 current_tx[u] \in {r.tx_min, r.tx_max}
          PROVE  r.item \in workload.may_write[u]
      <3>1. own = current_tx[u] => u = s
        BY <2>1, <2>7, Types
      <3>2. CASE r \in rows
        BY <2>7, <3>2 DEF RowInv
      <3>3. ASSUME NEW q \in C, r = Tombstone(s, q) PROVE r.item \in workload.may_write[u]
        <4>1. current_tx[u] = q.tx_min => q.item \in workload.may_write[u]
          BY <2>1, <2>7 DEF RowInv
        <4>2. QED
          BY <2>1, <2>2, <2>7, <3>1, <3>3, <4>1
      <3>4. CASE r \in Adds(s)
        BY <2>1, <2>2, <2>7, <3>1, <3>4
      <3>5. QED
        BY <2>2, <3>2, <3>3, <3>4
    <2>8. ASSUME NEW r \in rows', r.tx_max # 0
          PROVE  r.tx_min = r.tx_max \/ r.tx_min \in Done
      <3>1. CASE r \in rows
        BY <2>8, <3>1 DEF RowInv
      <3>2. ASSUME NEW q \in C, r = Tombstone(s, q) PROVE r.tx_min = r.tx_max \/ r.tx_min \in Done
        BY <2>1, <2>2, <3>2
      <3>3. QED
        BY <2>2, <2>8, <3>1, <3>2
    <2>9. QED
      BY <1>0, <2>3, <2>5, <2>6, <2>7, <2>8 DEF RowInv
  <1>3. ASSUME NEW s \in Session, LeaveInFlight(s) PROVE RowInv'
    <2>1. /\ UNCHANGED <<rows, next_rowid>>
          /\ \A u \in Session : current_tx'[u] = current_tx[u] \/ current_tx'[u] = 0
      BY <1>3, Types DEF LeaveInFlight, fileVars
    <2>2. Done \subseteq Done'
      BY <1>0, <1>3, DoneLeave
    <2>3. QED
      BY <1>0, <2>1, <2>2 DEF RowInv
  <1>4. CASE Reclaim
    <2>1. /\ rows' \subseteq rows /\ next_rowid' = next_rowid
          /\ UNCHANGED <<in_flight, next_tx_id, current_tx>>
      BY <1>4 DEF Reclaim, txVars, sessionVars
    <2>2. Done' = Done
      BY <1>0, <2>1, DoneOther
    <2>3. QED
      BY <1>0, <2>1, <2>2 DEF RowInv
  <1>5. CASE CrashAndOpen
    <2>1. UNCHANGED <<rows, next_rowid>> /\ \A u \in Session : current_tx'[u] = 0
      BY <1>5 DEF CrashAndOpen, fileVars
    <2>2. Done \subseteq Done'
      BY <1>0, <1>5, DoneCrash
    <2>3. QED
      BY <1>0, <2>1, <2>2 DEF RowInv
  <1>6. CASE UNCHANGED <<rows, next_rowid, next_tx_id, in_flight, current_tx, ins, del, db>>
    <2>1. Done' = Done
      BY <1>0, <1>6, DoneOther
    <2>2. QED
      BY <1>0, <1>6, <2>1 DEF RowInv
  <1>7. QED
    BY <1>1, <1>2, <1>3, <1>4, <1>5, <1>6, RowSteps

-----------------------------------------------------------------------------
(* History: a fresh snapshot shows the effects of the committed transactions *)

LEMMA HistoryInit == Init => HistoryInv
  <1> SUFFICES ASSUME Init PROVE HistoryInv
    OBVIOUS
  <1>1. /\ rows = {[id |-> n, item |-> Order[n], tx_min |-> 1, tx_max |-> 0] : n \in DOMAIN Order}
        /\ db = DOMAIN Order /\ in_flight = {}
        /\ \A t \in Tx : ins[t] = {} /\ del[t] = {}
    BY DEF Init
  <1>2. 1 \in Done /\ 0 \notin Done
    BY MvccConstants DEF Init, Done, Seen, Covers, SnapshotNow, IsCommitted, StatusOf, Tx
  <1>3. \A r \in rows : Live(Done, r)
    BY <1>1, <1>2 DEF Live
  <1>4. Shown(rows, Done) = {r.id : r \in rows}
    BY <1>3 DEF Shown
  <1>5. {r.id : r \in rows} = db
    <2>1. \A r \in rows : r.id \in db
      BY <1>1
    <2>2. ASSUME NEW n \in db PROVE \E r \in rows : r.id = n
      <3>1. [id |-> n, item |-> Order[n], tx_min |-> 1, tx_max |-> 0] \in rows
        BY <1>1
      <3>2. QED
        BY <3>1
    <2>3. QED
      BY <2>1, <2>2
  <1>6. QED
    BY <1>1, <1>4, <1>5 DEF HistoryInv

\* A dead row is shown to nobody from now on, and no running transaction wrote it.
LEMMA DeadRows ==
    ASSUME BaseInv, RowInv, NEW r \in rows, Dead(r)
    PROVE  ~Live(Done, r) /\ r.tx_min \notin in_flight /\ r.tx_max \notin in_flight
  <1>1. /\ r.tx_min \in Tx /\ r.tx_min < next_tx_id /\ r.tx_max \in Nat /\ r.tx_max < next_tx_id
        /\ oldest_active \in Nat /\ Tx \subseteq Nat \ {0} /\ in_flight \subseteq Tx
        /\ (r.tx_max # 0 => r.tx_max \in Tx)
    BY Types
  <1>2. \A t \in in_flight : oldest_active <= t
    BY DEF BaseInv, TxInv
  <1>3. \A t \in Tx : t < oldest_active => t \notin in_flight
    BY <1>1, <1>2
  <1>4. CASE r.tx_max # 0 /\ r.tx_max < oldest_active /\ IsCommitted(r.tx_max)
    <2>1. r.tx_max \in Done /\ r.tx_max \notin in_flight
      BY <1>1, <1>3, <1>4, DoneMeans
    <2>2. r.tx_min \notin in_flight
      BY <1>4, <2>1, DoneMeans DEF RowInv
    <2>3. QED
      BY <2>1, <2>2 DEF Live
  <1>5. CASE r.tx_min < oldest_active /\ IsRolledBack(r.tx_min)
    <2>1. r.tx_min \notin Done /\ r.tx_min \notin in_flight
      BY <1>1, <1>3, <1>5, DoneMeans DEF IsRolledBack, IsCommitted
    <2>2. r.tx_max \notin in_flight
      BY <1>1, <2>1 DEF RowInv
    <2>3. QED
      BY <2>1, <2>2 DEF Live
  <1>6. QED
    BY <1>4, <1>5 DEF Dead

LEMMA HistoryNext ==
    ASSUME BaseInv, SnapInv, Calm, OutcomeInv, RowInv, StatementInv, HistoryInv, [Next]_vars
    PROVE  HistoryInv'
  <1>0. workload' = workload /\ Known /\ ~Contested
    BY NextCases DEF Calm
  <1>t. ins \in [Tx -> SUBSET RowId] /\ del \in [Tx -> SUBSET RowId] /\ in_flight \subseteq Tx
    BY DEF BaseInv, TypeInv, TypeOK
  <1>1. ASSUME NEW s \in Session, BeginWrite(s) PROVE HistoryInv'
    <2>1. /\ in_flight' = in_flight \cup {next_tx_id} /\ UNCHANGED <<rows, ins, del, db>>
          /\ next_tx_id \in Tx
      BY <1>1, MvccConstants DEF BeginWrite, fileVars, historyVars, BaseInv, TypeInv, TypeOK, Tx
    <2>2. Done' = Done
      BY <1>1, DoneBegin
    <2>3. ins[next_tx_id] = {} /\ del[next_tx_id] = {}
      <3>1. next_tx_id \notin in_flight
        BY Types
      <3>2. QED
        BY <2>1, <3>1 DEF HistoryInv
    <2>4. ASSUME NEW r \in rows PROVE next_tx_id # r.tx_min /\ next_tx_id # r.tx_max
      <3>1. r.tx_min \in Nat /\ r.tx_max \in Nat /\ r.tx_min < next_tx_id /\ r.tx_max < next_tx_id
        BY Types
      <3>2. QED
        BY <3>1, Types
    <2>5. /\ Ids({r \in rows : r.tx_min = next_tx_id}) = {}
          /\ Ids({r \in rows : r.tx_max = next_tx_id}) = {}
      BY <2>4 DEF Ids
    <2>6. QED
      BY <2>1, <2>2, <2>3, <2>5 DEF HistoryInv
  <1>2. ASSUME NEW s \in Session, Write(s) PROVE HistoryInv'
    <2> DEFINE own == current_tx[s]
               C   == candidates[s]
    <2>1. /\ own \in Tx /\ own \in in_flight /\ own # 0 /\ own \notin Done
          /\ C \subseteq rows
          /\ \A q \in C : q.tx_max \notin Done \cup {own} /\ q.tx_max \notin in_flight
      <3>1. pc[s] = "write"
        BY <1>2 DEF Write
      <3>2. QED
        BY <1>0, <3>1, WriteFacts DEF Live
    <2>2. /\ \A r : r \in rows' <=> \/ r \in rows /\ r \notin C
                                    \/ \E q \in C : r = Tombstone(s, q)
                                    \/ r \in Adds(s)
          /\ \A q \in C : LET r == Tombstone(s, q) IN
               r.id = q.id /\ r.item = q.item /\ r.tx_min = q.tx_min /\ r.tx_max = own
          /\ \A r \in Adds(s) : /\ r.id = next_rowid /\ r.item = stmt[s].item
                                /\ r.tx_min = own /\ r.tx_max = 0
                                /\ Adds(s) = {r} /\ next_rowid' = next_rowid + 1
          /\ ins' = [ins EXCEPT ![own] = @ \cup {r.id : r \in Adds(s)}]
          /\ del' = [del EXCEPT ![own] = @ \cup {r.id : r \in C}]
      BY <1>2, <2>1, WriteRows
    <2>3. Done' = Done /\ UNCHANGED <<in_flight, db>>
      <3>1. UNCHANGED <<in_flight, next_tx_id, db>>
        BY <1>2 DEF Write, txVars
      <3>2. QED
        BY <1>0, <3>1, DoneOther
    <2>4. Shown(rows', Done) = db
      <3>1. rows' = Overwritten(rows, C, Adds(s), own)
        BY <1>2, WriteEffect DEF Tombstoned, Overwritten
      <3>2. Shown(rows', Done) = Shown(rows, Done)
        <4>1. Overwrites(rows, C, Adds(s), own, Done)
          BY <2>1, <2>2, Types DEF RowInv, Overwrites
        <4>2. QED
          BY <3>1, <4>1, ShownAfterWrite
      <3>3. QED
        BY <3>2 DEF HistoryInv
    <2>5. ASSUME NEW t \in in_flight PROVE ins'[t] = Ids({r \in rows' : r.tx_min = t})
      <3>1. ins[t] = Ids({r \in rows : r.tx_min = t})
        BY DEF HistoryInv
      <3>2. \A n : n \in ins'[t] <=> n \in ins[t] \/ (t = own /\ \E r \in Adds(s) : n = r.id)
        BY <1>t, <2>1, <2>2
      <3>3. \A n : n \in Ids({r \in rows' : r.tx_min = t}) <=>
                     \/ n \in Ids({r \in rows : r.tx_min = t})
                     \/ (t = own /\ \E r \in Adds(s) : n = r.id)
        <4>1. ASSUME NEW r \in rows', r.tx_min = t
              PROVE  \/ r.id \in Ids({q \in rows : q.tx_min = t})
                     \/ (t = own /\ r \in Adds(s))
          BY <2>1, <2>2, <4>1 DEF Ids
        <4>2. ASSUME NEW r \in rows, r.tx_min = t PROVE \E q \in rows' : q.id = r.id /\ q.tx_min = t
          <5>1. CASE r \in C
            BY <2>2, <4>2, <5>1
          <5>2. CASE r \notin C
            BY <2>2, <4>2, <5>2
          <5>3. QED
            BY <5>1, <5>2
        <4>3. \A r \in Adds(s) : r \in rows' /\ r.tx_min = own
          BY <2>2
        <4>4. QED
          BY <4>1, <4>2, <4>3 DEF Ids
      <3>4. QED
        BY <3>1, <3>2, <3>3
    <2>6. ASSUME NEW t \in in_flight PROVE del'[t] = Ids({r \in rows' : r.tx_max = t})
      <3>1. del[t] = Ids({r \in rows : r.tx_max = t})
        BY DEF HistoryInv
      <3>2. \A n : n \in del'[t] <=> n \in del[t] \/ (t = own /\ \E r \in C : n = r.id)
        BY <1>t, <2>1, <2>2
      <3>3. \A n : n \in Ids({r \in rows' : r.tx_max = t}) <=>
                     \/ n \in Ids({r \in rows : r.tx_max = t})
                     \/ (t = own /\ \E r \in C : n = r.id)
        <4>0. t # 0
          BY Types
        <4>1. ASSUME NEW r \in rows', r.tx_max = t
              PROVE  \/ r.id \in Ids({q \in rows : q.tx_max = t})
                     \/ (t = own /\ \E q \in C : r.id = q.id)
          BY <2>1, <2>2, <4>0, <4>1 DEF Ids
        <4>2. ASSUME NEW r \in rows, r.tx_max = t PROVE r \in rows'
          BY <2>1, <2>2, <4>2
        <4>3. \A q \in C : Tombstone(s, q) \in rows' /\ Tombstone(s, q).tx_max = own
                           /\ Tombstone(s, q).id = q.id
          BY <2>2
        <4>4. QED
          BY <4>1, <4>2, <4>3 DEF Ids
      <3>4. QED
        BY <3>1, <3>2, <3>3
    <2>7. \A t \in Tx \ in_flight : ins'[t] = {} /\ del'[t] = {}
      BY <1>t, <2>1, <2>2 DEF HistoryInv
    <2>8. QED
      BY <2>3, <2>4, <2>5, <2>6, <2>7 DEF HistoryInv
  <1>3. ASSUME NEW s \in Session, LeaveInFlight(s) PROVE HistoryInv'
    <2> DEFINE own == current_tx[s]
    <2>1. /\ rows' = rows /\ in_flight' = in_flight \ {own}
          /\ ins' = [ins EXCEPT ![own] = {}] /\ del' = [del EXCEPT ![own] = {}]
          /\ db' = After(db, own, outcome[s]) /\ pc[s] = "leave"
      BY <1>3 DEF LeaveInFlight, fileVars
    <2>2. own \in Tx /\ own \in in_flight /\ own # 0 /\ own \notin Done /\ 0 \notin Done
      BY <2>1, Types, DoneMeans DEF Holding
    <2>3. Done' = IF outcome[s] = "Committed" THEN Done \cup {own} ELSE Done
      BY <1>0, <1>3, DoneLeave
    <2>4. Shown(rows, Done \cup {own}) = (db \cup ins[own]) \ del[own]
      <3>1. Shown(rows, Done \cup {own}) = Committed(rows, Done, {own})
        <4>1. CommitAfter(rows, Done, {own})
          BY <2>2 DEF RowInv, CommitAfter
        <4>2. QED
          BY <4>1, ShownAfterCommit
      <3>2. /\ {r \in rows : r.tx_min \in {own}} = {r \in rows : r.tx_min = own}
            /\ {r \in rows : r.tx_max \in {own}} = {r \in rows : r.tx_max = own}
        OBVIOUS
      <3>3. QED
        BY <2>2, <3>1, <3>2 DEF HistoryInv, Committed
    <2>5. Shown(rows', Done') = db'
      BY <2>1, <2>3, <2>4 DEF After, HistoryInv
    <2>6. QED
      BY <1>t, <2>1, <2>2, <2>5 DEF HistoryInv
  <1>4. CASE Reclaim
    <2> DEFINE X == {r \in rows : Dead(r)}
    <2>1. /\ rows' = rows \ X /\ UNCHANGED <<in_flight, next_tx_id, ins, del, db>>
      BY <1>4 DEF Reclaim, txVars, historyVars
    <2>2. Done' = Done
      BY <1>0, <2>1, DoneOther
    <2>3. \A r \in X : ~Live(Done, r) /\ r.tx_min \notin in_flight /\ r.tx_max \notin in_flight
      BY DeadRows
    <2>4. Shown(rows', Done) = Shown(rows, Done)
      BY <2>1, <2>3, ShownAfterReclaim
    <2>5. \A t \in in_flight : /\ {r \in rows' : r.tx_min = t} = {r \in rows : r.tx_min = t}
                               /\ {r \in rows' : r.tx_max = t} = {r \in rows : r.tx_max = t}
      BY <2>1, <2>3
    <2>6. QED
      BY <2>1, <2>2, <2>4, <2>5 DEF HistoryInv
  <1>5. CASE CrashAndOpen
    <2> DEFINE E == {current_tx[s] : s \in Ended}
    <2>1. /\ rows' = rows /\ in_flight' = {}
          /\ ins' = [t \in Tx |-> {}] /\ del' = [t \in Tx |-> {}]
          /\ db' = (db \cup UNION {ins[current_tx[s]] : s \in Ended})
                     \ UNION {del[current_tx[s]] : s \in Ended}
      BY <1>5 DEF CrashAndOpen, fileVars, Ended
    <2>2. Done' = Done \cup E
      BY <1>0, <1>5, DoneCrash
    <2>3. E \subseteq in_flight
      BY Types DEF Ended, Holding
    <2>4. 0 \notin Done /\ 0 \notin E /\ Done \cap E = {}
      BY <2>3, Types, DoneMeans
    <2>5. Shown(rows, Done \cup E) = Committed(rows, Done, E)
      <3>1. CommitAfter(rows, Done, E)
        BY <2>4 DEF RowInv, CommitAfter
      <3>2. QED
        BY <3>1, ShownAfterCommit
    <2>6. Ids({r \in rows : r.tx_min \in E}) = UNION {ins[current_tx[s]] : s \in Ended}
      <3>1. \A s \in Ended : ins[current_tx[s]] = Ids({r \in rows : r.tx_min = current_tx[s]})
        BY <2>3 DEF HistoryInv
      <3>2. QED
        BY <3>1 DEF Ids
    <2>7. Ids({r \in rows : r.tx_max \in E}) = UNION {del[current_tx[s]] : s \in Ended}
      <3>1. \A s \in Ended : del[current_tx[s]] = Ids({r \in rows : r.tx_max = current_tx[s]})
        BY <2>3 DEF HistoryInv
      <3>2. QED
        BY <3>1 DEF Ids
    <2>8. Shown(rows', Done') = db'
      BY <2>1, <2>2, <2>5, <2>6, <2>7 DEF HistoryInv, Committed
    <2>9. QED
      BY <2>1, <2>8 DEF HistoryInv
  <1>6. CASE UNCHANGED <<rows, next_rowid, next_tx_id, in_flight, current_tx, ins, del, db>>
    <2>1. Done' = Done
      BY <1>0, <1>6, DoneOther
    <2>2. QED
      BY <1>6, <2>1 DEF HistoryInv
  <1>7. QED
    BY <1>1, <1>2, <1>3, <1>4, <1>5, <1>6, RowSteps

-----------------------------------------------------------------------------
(* Items: one live version each *)

LEMMA ItemInit == Init => ItemInv
  <1> SUFFICES ASSUME Init PROVE ItemInv
    OBVIOUS
  <1>1. /\ rows = {[id |-> n, item |-> Order[n], tx_min |-> 1, tx_max |-> 0] : n \in DOMAIN Order}
        /\ \A s \in Session : current_tx[s] = 0
    BY DEF Init
  <1>2. \A m, n \in DOMAIN Order : Order[m] = Order[n] => m = n
    BY OrderIsOneToOne
  <1>3. \A r, q \in rows : r.item = q.item => r = q
    BY <1>1, <1>2
  <1>4. QED
    BY <1>1, <1>3 DEF ItemInv, OneLive

\* When transactions of several sessions commit together, each item still has one live
\* version: at most one of the sessions wrote it.
LEMMA OneLiveAfterCommit ==
    ASSUME BaseInv, ~Contested, RowInv, ItemInv,
           NEW S \in SUBSET Session, \A s \in S : current_tx[s] # 0
    PROVE  OneLive(rows, Done \cup {current_tx[s] : s \in S})
  <1> DEFINE E == {current_tx[s] : s \in S}
  <1> SUFFICES ASSUME NEW r \in rows, NEW q \in rows, r.item = q.item,
                      Live(Done \cup E, r), Live(Done \cup E, q)
               PROVE  r = q
    BY DEF OneLive
  <1>1. CASE \E s \in S : r.item \in workload.may_write[s]
    <2>1. PICK s \in S : r.item \in workload.may_write[s]
      BY <1>1
    <2>2. ASSUME NEW p \in {r, q} PROVE Live(Done \cup {current_tx[s]}, p)
      <3>1. ASSUME NEW u \in S, current_tx[u] \in {p.tx_min, p.tx_max} PROVE u = s
        <4>1. p.item \in workload.may_write[u]
          BY <3>1 DEF RowInv
        <4>2. QED
          BY <2>1, <4>1 DEF Contested
      <3>2. QED
        BY <3>1 DEF Live
    <2>3. QED
      BY <2>1, <2>2 DEF ItemInv, OneLive
  <1>2. CASE ~ \E s \in S : r.item \in workload.may_write[s]
    <2>1. ASSUME NEW p \in {r, q} PROVE Live(Done, p)
      <3>1. ASSUME NEW u \in S PROVE current_tx[u] \notin {p.tx_min, p.tx_max}
        BY <1>2 DEF RowInv
      <3>2. QED
        BY <3>1 DEF Live
    <2>2. QED
      BY <2>1 DEF ItemInv, OneLive
  <1>3. QED
    BY <1>1, <1>2

LEMMA ItemNext ==
    ASSUME BaseInv, SnapInv, Calm, OutcomeInv, RowInv, StatementInv, ItemInv, [Next]_vars
    PROVE  ItemInv'
  <1>0. workload' = workload /\ Known /\ ~Contested
    BY NextCases DEF Calm
  <1>1. ASSUME NEW s \in Session, BeginWrite(s) PROVE ItemInv'
    <2>1. current_tx' = [current_tx EXCEPT ![s] = next_tx_id] /\ rows' = rows
      BY <1>1 DEF BeginWrite, fileVars
    <2>2. Done' = Done
      BY <1>1, DoneBegin
    <2>3. ASSUME NEW r \in rows PROVE next_tx_id # r.tx_min /\ next_tx_id # r.tx_max
      <3>1. r.tx_min \in Nat /\ r.tx_max \in Nat /\ r.tx_min < next_tx_id /\ r.tx_max < next_tx_id
        BY Types
      <3>2. QED
        BY <3>1, Types
    <2>4. OneLive({r \in rows : r.item \in workload.may_write[s]}, Done \cup {next_tx_id})
      BY <2>3 DEF ItemInv, OneLive, Live
    <2>5. \A u \in Session : current_tx'[u] = IF u = s THEN next_tx_id ELSE current_tx[u]
      BY <2>1, Types
    <2>6. QED
      BY <1>0, <2>1, <2>2, <2>4, <2>5 DEF ItemInv
  <1>2. ASSUME NEW s \in Session, Write(s) PROVE ItemInv'
    <2> DEFINE own == current_tx[s]
               C   == candidates[s]
    <2>1. /\ own \in Tx /\ own \in in_flight /\ own # 0 /\ own \notin Done
          /\ C = {r \in rows : r.item = stmt[s].item /\ Live(Done \cup {own}, r)}
          /\ \A u \in Session \ {s} : stmt[s].item \notin workload.may_write[u]
      <3>1. pc[s] = "write"
        BY <1>2 DEF Write
      <3>2. QED
        BY <1>0, <3>1, WriteFacts
    <2>2. /\ \A r : r \in rows' <=> \/ r \in rows /\ r \notin C
                                    \/ \E q \in C : r = Tombstone(s, q)
                                    \/ r \in Adds(s)
          /\ \A q \in C : LET r == Tombstone(s, q) IN
               r.id = q.id /\ r.item = q.item /\ r.tx_min = q.tx_min /\ r.tx_max = own
          /\ \A r \in Adds(s) : /\ r.id = next_rowid /\ r.item = stmt[s].item
                                /\ r.tx_min = own /\ r.tx_max = 0
                                /\ Adds(s) = {r} /\ next_rowid' = next_rowid + 1
      <3>1. C \subseteq rows
        BY <2>1
      <3>2. QED
        BY <1>2, <3>1, WriteRows
    <2>3. Done' = Done /\ current_tx' = current_tx
      <3>1. UNCHANGED <<in_flight, next_tx_id, current_tx>>
        BY <1>2 DEF Write, txVars
      <3>2. QED
        BY <1>0, <3>1, DoneOther
    <2>4. OneLive(rows', Done)
      <3>1. ASSUME NEW r \in rows', Live(Done, r)
            PROVE  \E b \in rows : /\ Live(Done, b) /\ r.item = b.item
                                   /\ \/ r = b /\ b \notin C
                                      \/ b \in C /\ r = Tombstone(s, b)
        <4>1. CASE r \in rows /\ r \notin C
          BY <3>1, <4>1
        <4>2. ASSUME NEW q \in C, r = Tombstone(s, q) PROVE Live(Done, q) /\ r.item = q.item /\ q \in rows
          BY <2>1, <2>2, <3>1, <4>2 DEF Live
        <4>3. r \notin Adds(s)
          BY <2>1, <2>2, <3>1 DEF Live
        <4>4. QED
          BY <2>2, <4>1, <4>2, <4>3
      <3>2. ASSUME NEW r \in rows', NEW q \in rows', r.item = q.item, Live(Done, r), Live(Done, q)
            PROVE  r = q
        <4>1. PICK b \in rows : /\ Live(Done, b) /\ r.item = b.item
                                /\ \/ r = b /\ b \notin C
                                   \/ b \in C /\ r = Tombstone(s, b)
          BY <3>1, <3>2
        <4>2. PICK c \in rows : /\ Live(Done, c) /\ q.item = c.item
                                /\ \/ q = c /\ c \notin C
                                   \/ c \in C /\ q = Tombstone(s, c)
          BY <3>1, <3>2
        <4>3. b = c
          BY <3>2, <4>1, <4>2 DEF ItemInv, OneLive
        <4>4. QED
          BY <4>1, <4>2, <4>3
      <3>3. QED
        BY <3>2 DEF OneLive
    <2>5. OneLive({r \in rows' : r.item \in workload.may_write[s]}, Done \cup {own})
      <3>1. ASSUME NEW r \in rows', Live(Done \cup {own}, r)
            PROVE  r \in Adds(s) \/ (r \in rows /\ r.item # stmt[s].item)
        BY <2>1, <2>2, <3>1 DEF Live
      <3>2. ASSUME NEW r \in rows', NEW q \in rows', r.item = q.item,
                   r.item \in workload.may_write[s],
                   Live(Done \cup {own}, r), Live(Done \cup {own}, q)
            PROVE  r = q
        <4>1. CASE r \in Adds(s)
          BY <2>2, <3>1, <3>2, <4>1
        <4>2. CASE r \in rows /\ r.item # stmt[s].item
          <5>1. q \in rows
            BY <2>2, <3>1, <3>2, <4>2
          <5>2. QED
            BY <2>1, <3>2, <4>2, <5>1 DEF ItemInv, OneLive
        <4>3. QED
          BY <3>1, <3>2, <4>1, <4>2
      <3>3. QED
        BY <3>2 DEF OneLive
    <2>6. ASSUME NEW u \in Session \ {s}, current_tx[u] # 0
          PROVE  OneLive({r \in rows' : r.item \in workload.may_write[u]}, Done \cup {current_tx[u]})
      <3>1. ASSUME NEW r \in rows', r.item \in workload.may_write[u] PROVE r \in rows
        <4>1. ASSUME NEW q \in C, r = Tombstone(s, q) PROVE FALSE
          <5>1. q.item = stmt[s].item
            BY <2>1
          <5>2. r.item = q.item
            BY <2>2, <4>1
          <5>3. QED
            BY <2>1, <3>1, <5>1, <5>2
        <4>2. r \notin Adds(s)
          BY <2>1, <2>2, <3>1
        <4>3. QED
          BY <2>2, <4>1, <4>2
      <3>2. QED
        BY <2>6, <3>1 DEF ItemInv, OneLive
    <2>7. QED
      BY <1>0, <2>3, <2>4, <2>5, <2>6 DEF ItemInv
  <1>3. ASSUME NEW s \in Session, LeaveInFlight(s) PROVE ItemInv'
    <2>1. /\ rows' = rows /\ current_tx[s] # 0
          /\ \A u \in Session : current_tx'[u] = IF u = s THEN 0 ELSE current_tx[u]
      BY <1>3, Types DEF LeaveInFlight, fileVars, Holding
    <2>2. Done' = IF outcome[s] = "Committed" THEN Done \cup {current_tx[s]} ELSE Done
      BY <1>0, <1>3, DoneLeave
    <2>3. CASE outcome[s] # "Committed"
      BY <1>0, <2>1, <2>2, <2>3 DEF ItemInv
    <2>4. CASE outcome[s] = "Committed"
      <3>1. OneLive(rows, Done \cup {current_tx[u] : u \in {s}})
        BY <1>0, <2>1, OneLiveAfterCommit
      <3>2. OneLive(rows, Done')
        <4>1. {current_tx[u] : u \in {s}} = {current_tx[s]}
          OBVIOUS
        <4>2. QED
          BY <2>2, <2>4, <3>1, <4>1
      <3>3. ASSUME NEW u \in Session, u # s, current_tx[u] # 0
            PROVE  OneLive({r \in rows : r.item \in workload.may_write[u]}, Done' \cup {current_tx[u]})
        <4>1. OneLive(rows, Done \cup {current_tx[v] : v \in {s, u}})
          BY <1>0, <2>1, <3>3, OneLiveAfterCommit
        <4>2. Done \cup {current_tx[v] : v \in {s, u}} = Done' \cup {current_tx[u]}
          BY <2>2, <2>4
        <4>3. OneLive(rows, Done' \cup {current_tx[u]})
          BY <4>1, <4>2
        <4>4. QED
          BY <4>3 DEF OneLive
      <3>4. QED
        BY <1>0, <2>1, <3>2, <3>3 DEF ItemInv
    <2>5. QED
      BY <2>3, <2>4
  <1>4. CASE Reclaim
    <2>1. rows' \subseteq rows /\ UNCHANGED <<in_flight, next_tx_id, current_tx>>
      BY <1>4 DEF Reclaim, txVars, sessionVars
    <2>2. Done' = Done
      BY <1>0, <2>1, DoneOther
    <2>3. QED
      BY <1>0, <2>1, <2>2 DEF ItemInv, OneLive
  <1>5. CASE CrashAndOpen
    <2>1. rows' = rows /\ \A u \in Session : current_tx'[u] = 0
      BY <1>5 DEF CrashAndOpen, fileVars
    <2>2. Done' = Done \cup {current_tx[s] : s \in Ended}
      BY <1>0, <1>5, DoneCrash
    <2>3. Ended \in SUBSET Session /\ \A s \in Ended : current_tx[s] # 0
      BY Types DEF Ended, Holding
    <2>4. OneLive(rows, Done \cup {current_tx[s] : s \in Ended})
      BY <1>0, <2>3, OneLiveAfterCommit
    <2>5. QED
      BY <2>1, <2>2, <2>4 DEF ItemInv
  <1>6. CASE UNCHANGED <<rows, next_rowid, next_tx_id, in_flight, current_tx, ins, del, db>>
    <2>1. Done' = Done
      BY <1>0, <1>6, DoneOther
    <2>2. QED
      BY <1>0, <1>6, <2>1 DEF ItemInv
  <1>7. QED
    BY <1>1, <1>2, <1>3, <1>4, <1>5, <1>6, RowSteps

-----------------------------------------------------------------------------
(* Statements *)

LEMMA StatementInit == Init => StatementInv
  BY DEF Init, StatementInv, StatementOk

\* A session that takes no step keeps its rows: nobody else writes its items.
LEMMA StatementFrame ==
    ASSUME BaseInv, SnapInv, OutcomeInv, Known, [Next]_vars,
           NEW u \in Session, StatementOk(u), workload' = workload,
           pc'[u] = pc[u], txn'[u] = txn[u], stmt'[u] = stmt[u],
           candidates'[u] = candidates[u], snap'[u] = snap[u], current_tx'[u] = current_tx[u],
           \A r : r.item \in workload.may_write[u] => (r \in rows' <=> r \in rows)
    PROVE  StatementOk(u)'
  <1>1. pc[u] = "write" => Seen(snap[u])' = Seen(snap[u])
    BY SeenStable DEF Pinned
  <1>2. pc[u] = "write" => candidates'[u] = {r \in rows' : r.item = stmt'[u].item
                              /\ Live(Seen(snap[u])' \cup {current_tx'[u]}, r)}
    BY <1>1 DEF StatementOk
  <1>3. pc[u] = "write" \/ (pc[u] = "begun" /\ txn[u] # "Open") =>
          (stmt[u].op = "insert" => \A r \in rows' : r.item # stmt[u].item)
    BY DEF StatementOk
  <1>4. pc[u] \in {"open", "scan", "write"} =>
          \A r \in rows' : r.item \in workload.may_write[u] =>
             \A t \in {r.tx_min, r.tx_max} \ {0, current_tx[u]} : Past(snap[u], t)
    BY DEF StatementOk
  <1>5. QED
    BY <1>2, <1>3, <1>4 DEF StatementOk, Live, Past

\* A snapshot is taken when every other transaction that wrote the session's items
\* has ended; a statement collects what its snapshot shows; and the reclaimer waits for
\* the statement to end.
LEMMA StatementNext ==
    ASSUME BaseInv, SnapInv, Calm, OutcomeInv, RowInv, StatementInv, [Next]_vars
    PROVE  StatementInv'
  <1>0. workload' = workload /\ Known /\ ~Contested
    BY NextCases DEF Calm
  <1>t. /\ DOMAIN pc = Session /\ DOMAIN txn = Session /\ DOMAIN stmt = Session
        /\ DOMAIN candidates = Session /\ DOMAIN snap = Session /\ DOMAIN current_tx = Session
    BY DEF BaseInv, TypeInv, TypeOK
  <1>f. ASSUME NEW s \in Session, rows' = rows, StatementOk(s)',
               \A u \in Session \ {s} :
                 /\ pc'[u] = pc[u] /\ txn'[u] = txn[u] /\ stmt'[u] = stmt[u]
                 /\ candidates'[u] = candidates[u] /\ snap'[u] = snap[u]
                 /\ current_tx'[u] = current_tx[u]
        PROVE  StatementInv'
    <2>1. ASSUME NEW u \in Session \ {s} PROVE StatementOk(u)'
      BY <1>0, <1>f, StatementFrame DEF StatementInv
    <2>2. QED
      BY <1>f, <2>1 DEF StatementInv
  <1>1. ASSUME NEW s \in Session, BeginTransaction(s) PROVE StatementInv'
    <2>1. StatementOk(s)'
      BY <1>t, <1>1 DEF BeginTransaction, BeginWrite, StatementInv, StatementOk
    <2>2. QED
      BY <1>f, <1>t, <1>1, <2>1 DEF BeginTransaction, BeginWrite, fileVars
  <1>2. ASSUME NEW s \in Session, NEW st \in Statements(s), AutoCommit(s, st) PROVE StatementInv'
    <2>1. StatementOk(s)'
      BY <1>0, <1>t, <1>2 DEF AutoCommit, BeginWrite, StatementInv, StatementOk, Statements, fileVars
    <2>2. QED
      BY <1>f, <1>t, <1>2, <2>1 DEF AutoCommit, BeginWrite, fileVars
  <1>3. ASSUME NEW s \in Session, TakeSnapshot(s) PROVE StatementInv'
    <2>1. /\ UNCHANGED <<rows, txn, stmt, candidates, current_tx, in_flight, next_tx_id>>
          /\ snap'[s] = SnapshotNow /\ pc[s] = "begun"
          /\ pc'[s] = IF txn[s] = "Open" THEN "open" ELSE FirstStep(stmt[s])
      BY <1>t, <1>3 DEF TakeSnapshot, fileVars
    <2>2. ASSUME NEW r \in rows, r.item \in workload.may_write[s],
                 NEW t \in {r.tx_min, r.tx_max} \ {0, current_tx[s]}
          PROVE  Past(SnapshotNow, t)
      <3>1. t < next_tx_id
        BY Types
      <3>2. t \notin in_flight
        <4>1. ASSUME t \in in_flight PROVE FALSE
          <5>1. PICK u \in Session : current_tx[u] = t
            BY <4>1, Types
          <5>2. r.item \in workload.may_write[u]
            BY <5>1 DEF RowInv
          <5>3. QED
            BY <1>0, <2>2, <5>1, <5>2 DEF Contested
        <4>2. QED
          BY <4>1
      <3>3. QED
        BY <3>1, <3>2 DEF Past, SnapshotNow
    <2>3. candidates[s] = {}
      BY <2>1 DEF StatementInv, StatementOk
    <2>4. txn[s] # "Open" => /\ stmt[s].item \in workload.may_write[s]
                             /\ stmt[s].op = "insert" => \A r \in rows : r.item # stmt[s].item
      BY <2>1 DEF StatementInv, StatementOk
    <2>5. pc'[s] = "write" => candidates'[s] =
             {r \in rows' : r.item = stmt'[s].item
                  /\ Live(Seen(snap[s])' \cup {current_tx'[s]}, r)}
      BY <2>1, <2>3, <2>4 DEF FirstStep
    <2>6. \A r \in rows' : r.item \in workload.may_write[s] =>
             \A t \in {r.tx_min, r.tx_max} \ {0, current_tx'[s]} : Past(snap'[s], t)
      BY <2>1, <2>2
    <2>7. StatementOk(s)'
      BY <1>0, <2>1, <2>3, <2>4, <2>5, <2>6 DEF StatementOk, FirstStep, Past, Live
    <2>8. QED
      BY <1>f, <1>t, <1>3, <2>7 DEF TakeSnapshot, fileVars
  <1>4. ASSUME NEW s \in Session, NEW st \in Statements(s), Execute(s, st) PROVE StatementInv'
    <2>1. /\ UNCHANGED <<rows, txn, candidates, current_tx, snap>>
          /\ stmt'[s] = st /\ pc[s] = "open" /\ pc'[s] = FirstStep(st)
      BY <1>t, <1>4 DEF Execute, fileVars
    <2>2. /\ st.item \in workload.may_write[s]
          /\ st.op = "insert" => \A r \in rows : r.item # st.item
      BY DEF Statements
    <2>3. /\ candidates[s] = {}
          /\ \A r \in rows : r.item \in workload.may_write[s] =>
               \A t \in {r.tx_min, r.tx_max} \ {0, current_tx[s]} : Past(snap[s], t)
      BY <2>1 DEF StatementInv, StatementOk
    <2>4. pc'[s] = "write" => candidates'[s] =
             {r \in rows' : r.item = stmt'[s].item
                  /\ Live(Seen(snap[s])' \cup {current_tx'[s]}, r)}
      BY <2>1, <2>2, <2>3 DEF FirstStep
    <2>5. StatementOk(s)'
      BY <1>0, <2>1, <2>2, <2>3, <2>4 DEF StatementOk, FirstStep, Past, Live
    <2>6. QED
      BY <1>f, <1>t, <1>4, <2>5 DEF Execute, fileVars
  <1>5. ASSUME NEW s \in Session, CollectCandidates(s) PROVE StatementInv'
    <2>1. /\ UNCHANGED <<rows, txn, stmt, current_tx, snap>>
          /\ pc[s] = "scan" /\ pc'[s] = "write"
          /\ candidates'[s] = {r \in View(snap[s], current_tx[s]) : r.item = stmt[s].item}
      BY <1>t, <1>5 DEF CollectCandidates, fileVars
    <2>2. current_tx[s] # 0 /\ s \in Pinned
      BY <2>1, Types DEF Holding, Pinned
    <2>3. Seen(snap[s])' = Seen(snap[s])
      BY <1>0, <2>1, <2>2, SeenStable
    <2>4. ASSUME NEW r \in rows
          PROVE  Visible(snap[s], current_tx[s], r) <=> Live(Seen(snap[s]) \cup {current_tx[s]}, r)
      <3>1. r.tx_min \in Tx /\ (r.tx_max # 0 => r.tx_max \in Tx) /\ 0 \notin Tx
        BY Types
      <3>2. \A t \in Tx : t \in Seen(snap[s]) <=> Covers(snap[s], t)
        BY DEF Seen
      <3>3. 0 \notin Seen(snap[s])
        BY <3>1 DEF Seen
      <3>4. QED
        BY <2>2, <3>1, <3>2, <3>3 DEF Visible, Live
    <2>5. candidates'[s] = {r \in rows' : r.item = stmt'[s].item
                                /\ Live(Seen(snap[s])' \cup {current_tx'[s]}, r)}
      BY <2>1, <2>3, <2>4 DEF View
    <2>6. StatementOk(s)'
      BY <1>0, <2>1, <2>5 DEF StatementInv, StatementOk, Past, Live
    <2>7. QED
      BY <1>f, <1>t, <1>5, <2>6 DEF CollectCandidates, fileVars
  <1>6. ASSUME NEW s \in Session, Write(s) PROVE StatementInv'
    <2> DEFINE own == current_tx[s]
               C   == candidates[s]
    <2>1. /\ own # 0 /\ pc[s] = "write" /\ stmt[s].item \in workload.may_write[s]
          /\ C = {r \in rows : r.item = stmt[s].item /\ Live(Done \cup {own}, r)}
          /\ \A u \in Session \ {s} : stmt[s].item \notin workload.may_write[u]
      <3>1. pc[s] = "write"
        BY <1>6 DEF Write
      <3>2. QED
        BY <1>0, <3>1, WriteFacts
    <2>2. /\ \A r : r \in rows' <=> \/ r \in rows /\ r \notin C
                                    \/ \E q \in C : r = Tombstone(s, q)
                                    \/ r \in Adds(s)
          /\ \A q \in C : LET r == Tombstone(s, q) IN
               r.id = q.id /\ r.item = q.item /\ r.tx_min = q.tx_min /\ r.tx_max = own
          /\ \A r \in Adds(s) : /\ r.id = next_rowid /\ r.item = stmt[s].item
                                /\ r.tx_min = own /\ r.tx_max = 0
                                /\ Adds(s) = {r} /\ next_rowid' = next_rowid + 1
      <3>1. C \subseteq rows
        BY <2>1
      <3>2. QED
        BY <1>6, <3>1, WriteRows
    <2>3. /\ current_tx' = current_tx /\ txn' = txn
          /\ candidates'[s] = {} /\ pc'[s] \in {"open", "record"}
          /\ pc'[s] = "open" => snap' = snap
          /\ \A u \in Session \ {s} : /\ pc'[u] = pc[u] /\ stmt'[u] = stmt[u]
                                      /\ candidates'[u] = candidates[u] /\ snap'[u] = snap[u]
      BY <1>t, <1>6 DEF Write, Unpin
    <2>4. ASSUME NEW u \in Session \ {s} PROVE StatementOk(u)'
      <3>1. ASSUME NEW r, r.item \in workload.may_write[u] PROVE r \in rows' <=> r \in rows
        <4>1. \A q \in C : r # q /\ r # Tombstone(s, q)
          BY <2>1, <2>2, <3>1, ZenonT(60)
        <4>2. r \notin Adds(s)
          BY <2>1, <2>2, <3>1
        <4>3. QED
          BY <2>2, <4>1, <4>2
      <3>2. QED
        BY <1>0, <2>3, <3>1, StatementFrame DEF StatementInv
    <2>5. ASSUME NEW r \in rows', r.item \in workload.may_write[s],
                 NEW t \in {r.tx_min, r.tx_max} \ {0, own}
          PROVE  Past(snap[s], t)
      <3>1. \A q \in rows : q.item \in workload.may_write[s] =>
               \A x \in {q.tx_min, q.tx_max} \ {0, own} : Past(snap[s], x)
        BY <2>1 DEF StatementInv, StatementOk
      <3>2. CASE r \in rows
        BY <2>5, <3>1, <3>2
      <3>3. ASSUME NEW q \in C, r = Tombstone(s, q) PROVE Past(snap[s], t)
        <4>1. q \in rows /\ q.item \in workload.may_write[s]
          BY <2>1
        <4>2. t = q.tx_min /\ t \notin {0, own}
          BY <2>2, <2>5, <3>3
        <4>3. QED
          BY <3>1, <4>1, <4>2
      <3>4. r \notin Adds(s)
        BY <2>2, <2>5
      <3>5. QED
        BY <2>2, <3>2, <3>3, <3>4
    <2>6. StatementOk(s)'
      BY <1>0, <2>3, <2>5 DEF StatementOk, Past
    <2>7. QED
      BY <2>4, <2>6 DEF StatementInv
  <1>7. ASSUME NEW s \in Session,
               \/ StatementFails(s) \/ EndTransaction(s) \/ StreamFails(s) \/ EndAborted(s)
               \/ RecordOutcome(s) \/ LeaveInFlight(s) \/ StartRead(s) \/ FinishRead(s)
        PROVE  StatementInv'
    <2>1. /\ rows' = rows
          /\ pc'[s] \in {"record", "aborted", "idle", "leave", "reading"}
          /\ candidates'[s] = {} \/ (candidates'[s] = candidates[s] /\ pc[s] # "write")
          /\ \A u \in Session \ {s} :
                 /\ pc'[u] = pc[u] /\ txn'[u] = txn[u] /\ stmt'[u] = stmt[u]
                 /\ candidates'[u] = candidates[u] /\ snap'[u] = snap[u]
                 /\ current_tx'[u] = current_tx[u]
      BY <1>t, <1>7 DEF StatementFails, EndTransaction, StreamFails, EndAborted, RecordOutcome,
         LeaveInFlight, StartRead, FinishRead, Unpin, fileVars
    <2>2. candidates'[s] = {}
      BY <2>1 DEF StatementInv, StatementOk
    <2>3. StatementOk(s)'
      BY <2>1, <2>2 DEF StatementOk
    <2>4. QED
      BY <1>f, <2>1, <2>3
  <1>8. CASE CaptureFloor \/ StartReclaim \/ TruncateBelow \/ UNCHANGED vars
    <2>1. UNCHANGED <<rows, pc, txn, stmt, candidates, snap, current_tx>>
      BY <1>8 DEF CaptureFloor, StartReclaim, TruncateBelow, vars, fileVars, sessionVars
    <2>2. ASSUME NEW u \in Session PROVE StatementOk(u)'
      BY <1>0, <2>1, StatementFrame DEF StatementInv
    <2>3. QED
      BY <2>2 DEF StatementInv
  <1>9. CASE Reclaim
    <2>1. /\ UNCHANGED <<pc, txn, stmt, candidates, snap, current_tx>> /\ rows' \subseteq rows
          /\ \A u \in Session : pc[u] \notin {"scan", "write"}
      BY <1>9 DEF Reclaim, sessionVars, HoldsTableLock
    <2>2. ASSUME NEW u \in Session PROVE StatementOk(u)'
      BY <1>0, <2>1 DEF StatementInv, StatementOk, Past
    <2>3. QED
      BY <2>2 DEF StatementInv
  <1>10. CASE CrashAndOpen
    BY <1>10 DEF CrashAndOpen, StatementInv, StatementOk
  <1>11. QED
    BY <1>1, <1>2, <1>3, <1>4, <1>5, <1>6, <1>7, <1>8, <1>9, <1>10, NextCases

-----------------------------------------------------------------------------
(* Pinned snapshots *)

LEMMA StableInit == Init => StableInv
  BY DEF Init, StableInv, Pinned

\* The last reclaim pass took nothing that snapshot sn shows.
Above(sn) == \A t \in sn.in_flight \cup {sn.next_tx} : t >= oldest_active

\* A dead row is not shown by a snapshot above the watermark.
LEMMA DeadForSnapshot ==
    ASSUME BaseInv, RowInv, NEW s \in Session, Above(snap[s]), NEW r \in rows, Dead(r)
    PROVE  ~Live(Seen(snap[s]), r)
  <1>1. /\ snap[s].next_tx \in Nat /\ snap[s].in_flight \subseteq Nat /\ oldest_active \in Nat
        /\ r.tx_min \in Tx /\ (r.tx_max # 0 => r.tx_max \in Tx) /\ Tx \subseteq Nat
    <2>1. snap[s].next_tx \in Nat /\ snap[s].in_flight \subseteq Nat
      BY MvccConstants DEF BaseInv, TypeInv, TypeOK, Snap, Tx
    <2>2. QED
      BY <2>1, Types
  <1>2. \A t \in Tx : t < oldest_active => t < snap[s].next_tx /\ t \notin snap[s].in_flight
    <2>1. ASSUME NEW t \in Tx, t < oldest_active
          PROVE  t < snap[s].next_tx /\ t \notin snap[s].in_flight
      <3>1. /\ snap[s].next_tx >= oldest_active
            /\ \A x \in snap[s].in_flight : x >= oldest_active
        BY DEF Above
      <3>2. t \in Nat
        BY <1>1
      <3>3. QED
        BY <1>1, <2>1, <3>1, <3>2
    <2>2. QED
      BY <2>1
  <1>3. CASE r.tx_max # 0 /\ r.tx_max < oldest_active /\ IsCommitted(r.tx_max)
    BY <1>1, <1>2, <1>3 DEF Live, Seen, Covers
  <1>4. CASE r.tx_min < oldest_active /\ IsRolledBack(r.tx_min)
    BY <1>4 DEF Live, Seen, Covers, IsRolledBack, IsCommitted
  <1>5. QED
    BY <1>3, <1>4 DEF Dead

LEMMA StableNext ==
    ASSUME BaseInv, SnapInv, Calm, OutcomeInv, RowInv, StatementInv, HistoryInv, StableInv,
           [Next]_vars
    PROVE  StableInv'
  <1>0. workload' = workload /\ Known /\ ~Contested
    BY NextCases DEF Calm
  <1>t. DOMAIN pc = Session /\ DOMAIN snap = Session /\ DOMAIN base = Session
    BY DEF BaseInv, TypeInv, TypeOK
  <1>f. ASSUME NEW u \in Session, u \in Pinned, snap'[u] = snap[u], base'[u] = base[u],
               rows' = rows, Above(snap[u])
        PROVE  Shown(rows', Seen(snap[u])') = base'[u]
    <2>1. Seen(snap[u])' = Seen(snap[u])
      BY <1>0, <1>f, SeenStable
    <2>2. QED
      BY <1>f, <2>1 DEF StableInv, Above
  <1>u. ASSUME NEW u \in Pinned', snap'[u] = snap[u], oldest_active' = oldest_active,
               (Above(snap[u]))'
        PROVE  Above(snap[u])
    BY <1>u DEF Above
  <1>g. ASSUME rows' = rows, oldest_active' = oldest_active,
               \A u \in Pinned' : u \in Pinned /\ snap'[u] = snap[u] /\ base'[u] = base[u]
        PROVE  StableInv'
    <2> SUFFICES ASSUME NEW u \in Pinned', (Above(snap[u]))'
                 PROVE  Shown(rows', Seen(snap[u])') = base'[u]
      BY DEF StableInv, Above, Shown
    <2>1. u \in Session /\ Above(snap[u])
      BY <1>g, <1>u DEF Pinned
    <2>2. QED
      BY <1>f, <1>g, <2>1
  <1>1. ASSUME NEW s \in Session, BeginWrite(s) PROVE StableInv'
    <2>1. /\ rows' = rows /\ oldest_active' = oldest_active
          /\ \A u \in Pinned' : u \in Pinned /\ snap'[u] = snap[u] /\ base'[u] = base[u]
      BY <1>t, <1>1 DEF BeginWrite, Pinned, fileVars, gcVars, historyVars
    <2>2. QED
      BY <1>g, <2>1
  <1>2. ASSUME NEW s \in Session, TakeSnapshot(s) \/ StartRead(s) PROVE StableInv'
    <2>1. /\ rows' = rows /\ oldest_active' = oldest_active
          /\ snap'[s] = SnapshotNow /\ base'[s] = db
          /\ \A u \in Pinned' \ {s} : u \in Pinned /\ snap'[u] = snap[u] /\ base'[u] = base[u]
          /\ UNCHANGED <<clog, min_tx_id>>
      BY <1>t, <1>2 DEF TakeSnapshot, StartRead, Pinned, fileVars, gcVars, clogVars
    <2> SUFFICES ASSUME NEW u \in Pinned', (Above(snap[u]))'
                 PROVE  Shown(rows', Seen(snap[u])') = base'[u]
      BY DEF StableInv, Above, Shown
    <2>2. CASE u = s
      <3>1. Seen(snap[u])' = Done
        BY <2>1, <2>2 DEF Done, Seen, Covers, IsCommitted, StatusOf
      <3>2. QED
        BY <2>1, <2>2, <3>1 DEF HistoryInv
    <2>3. CASE u # s
      <3>1. u \in Session /\ u \in Pinned /\ Above(snap[u]) /\ snap'[u] = snap[u] /\ base'[u] = base[u]
        BY <1>u, <2>1, <2>3 DEF Pinned
      <3>2. QED
        BY <1>f, <2>1, <3>1
    <2>4. QED
      BY <2>2, <2>3
  <1>3. ASSUME NEW s \in Session, Write(s) PROVE StableInv'
    <2> DEFINE own == current_tx[s]
               C   == candidates[s]
    <2>1. /\ oldest_active' = oldest_active
          /\ \A u \in Pinned' : u \in Pinned /\ snap'[u] = snap[u] /\ base'[u] = base[u]
      BY <1>t, <1>3 DEF Write, Unpin, Pinned, gcVars
    <2>2. /\ pc[s] = "write" /\ own \in in_flight
          /\ C \subseteq rows /\ stmt[s].item \in workload.may_write[s]
          /\ \A q \in C : q.item = stmt[s].item
      <3>1. pc[s] = "write"
        BY <1>3 DEF Write
      <3>2. /\ own \in in_flight /\ stmt[s].item \in workload.may_write[s]
            /\ C = {r \in rows : r.item = stmt[s].item /\ Live(Done \cup {own}, r)}
        BY <1>0, <3>1, WriteFacts
      <3>3. QED
        BY <3>1, <3>2
    <2>3. rows' = Overwritten(rows, C, Adds(s), own)
      BY <1>3, WriteEffect DEF Tombstoned, Overwritten
    <2> SUFFICES ASSUME NEW u \in Pinned', (Above(snap[u]))'
                 PROVE  Shown(rows', Seen(snap[u])') = base'[u]
      BY DEF StableInv, Above, Shown
    <2>4. u \in Session /\ u \in Pinned /\ Above(snap[u]) /\ snap'[u] = snap[u] /\ base'[u] = base[u]
      BY <1>u, <2>1 DEF Pinned
    <2>5. Seen(snap[u])' = Seen(snap[u])
      BY <1>0, <2>4, SeenStable
    <2>6. own \notin Seen(snap[u])
      BY <2>2, <2>4 DEF SnapInv, Seen, Covers, Past
    <2>7. ASSUME NEW r \in C PROVE r.tx_max \notin Seen(snap[u])
      <3>1. r \in rows /\ r.item \in workload.may_write[s] /\ Live(Seen(snap[s]) \cup {own}, r)
        BY CandidatesAreRows
      <3>2. CASE r.tx_max = 0
        BY <3>2, Types DEF Seen
      <3>3. CASE r.tx_max # 0
        <4>1. r.tx_max \in {r.tx_min, r.tx_max} \ {0, own}
          BY <3>1, <3>3 DEF Live
        <4>2. Past(snap[s], r.tx_max) /\ r.tx_max \in Tx
          BY <2>2, <3>1, <4>1, NoForeignStamp
        <4>3. ~IsCommitted(r.tx_max)
          BY <3>1, <4>2 DEF Live, Seen, Covers, Past
        <4>4. QED
          BY <4>3 DEF Seen, Covers
      <3>4. QED
        BY <3>2, <3>3
    <2>8. \A r \in Adds(s) : r.tx_min = own
      BY DEF Adds, NewVersion
    <2>9. Overwrites(rows, C, Adds(s), own, Seen(snap[u]))
      BY <2>2, <2>6, <2>7, <2>8, Types DEF Overwrites, RowInv
    <2>10. Shown(rows', Seen(snap[u])) = Shown(rows, Seen(snap[u]))
      BY <2>3, <2>9, ShownAfterWrite
    <2>11. QED
      BY <2>4, <2>5, <2>10 DEF StableInv, Above
  <1>4. ASSUME NEW s \in Session,
               \/ (\E st : Execute(s, st)) \/ CollectCandidates(s) \/ StatementFails(s)
               \/ EndTransaction(s) \/ RecordOutcome(s) \/ LeaveInFlight(s) \/ StreamFails(s)
               \/ EndAborted(s) \/ FinishRead(s)
        PROVE  StableInv'
    <2>1. /\ rows' = rows /\ oldest_active' = oldest_active
          /\ \A u \in Pinned' : u \in Pinned /\ snap'[u] = snap[u] /\ base'[u] = base[u]
      BY <1>t, <1>4 DEF Execute, CollectCandidates, StatementFails, EndTransaction, RecordOutcome,
         LeaveInFlight, StreamFails, EndAborted, FinishRead, Unpin, Pinned, fileVars, gcVars,
         historyVars
    <2>2. QED
      BY <1>g, <2>1
  <1>5. CASE CaptureFloor \/ TruncateBelow \/ UNCHANGED vars
    <2>1. /\ rows' = rows /\ oldest_active' = oldest_active
          /\ \A u \in Pinned' : u \in Pinned /\ snap'[u] = snap[u] /\ base'[u] = base[u]
      BY <1>5 DEF CaptureFloor, TruncateBelow, vars, fileVars, gcVars, sessionVars, historyVars, Pinned
    <2>2. QED
      BY <1>g, <2>1
  <1>6. CASE StartReclaim
    <2>1. /\ rows' = rows /\ oldest_active' = OldestActive
          /\ \A u \in Pinned' : u \in Pinned /\ snap'[u] = snap[u] /\ base'[u] = base[u]
      BY <1>6 DEF StartReclaim, fileVars, sessionVars, historyVars, Pinned
    <2>2. OldestActive \in Nat /\ oldest_active \in Nat /\ oldest_active <= OldestActive
      <3>1. in_flight \subseteq Nat /\ next_tx_id \in Nat /\ oldest_active \in Nat
        BY Types
      <3>2. OldestActive \in in_flight \cup {next_tx_id}
        BY <3>1, OldestActiveIsLeast
      <3>3. QED
        BY <3>1, <3>2 DEF BaseInv, TxInv
    <2> SUFFICES ASSUME NEW u \in Pinned', (Above(snap[u]))'
                 PROVE  Shown(rows', Seen(snap[u])') = base'[u]
      BY DEF StableInv, Above, Shown
    <2>3. u \in Session /\ u \in Pinned /\ snap'[u] = snap[u] /\ base'[u] = base[u]
      BY <2>1 DEF Pinned
    <2>4. \A t \in snap[u].in_flight \cup {snap[u].next_tx} : t \in Nat
      BY <2>3, MvccConstants DEF BaseInv, TypeInv, TypeOK, Snap, Tx
    <2>5. Above(snap[u])
      BY <2>1, <2>2, <2>3, <2>4 DEF Above
    <2>6. QED
      BY <1>f, <2>1, <2>3, <2>5
  <1>7. CASE Reclaim
    <2> DEFINE X == {r \in rows : Dead(r)}
    <2>1. /\ rows' = rows \ X /\ oldest_active' = oldest_active
          /\ \A u \in Pinned' : u \in Pinned /\ snap'[u] = snap[u] /\ base'[u] = base[u]
      BY <1>7 DEF Reclaim, sessionVars, historyVars, Pinned
    <2> SUFFICES ASSUME NEW u \in Pinned', (Above(snap[u]))'
                 PROVE  Shown(rows', Seen(snap[u])') = base'[u]
      BY DEF StableInv, Above, Shown
    <2>2. u \in Session /\ u \in Pinned /\ Above(snap[u]) /\ snap'[u] = snap[u] /\ base'[u] = base[u]
      BY <1>u, <2>1 DEF Pinned
    <2>3. Seen(snap[u])' = Seen(snap[u])
      BY <1>0, <2>2, SeenStable
    <2>4. \A r \in X : ~Live(Seen(snap[u]), r)
      BY <2>2, DeadForSnapshot
    <2>5. Shown(rows', Seen(snap[u])) = Shown(rows, Seen(snap[u]))
      BY <2>1, <2>4, ShownAfterReclaim
    <2>6. QED
      BY <2>2, <2>3, <2>5 DEF StableInv, Above
  <1>8. CASE CrashAndOpen
    BY <1>8 DEF CrashAndOpen, StableInv, Pinned
  <1>9. QED
    BY <1>1, <1>2, <1>3, <1>4, <1>5, <1>6, <1>7, <1>8, NextCases DEF BeginTransaction, AutoCommit

-----------------------------------------------------------------------------
(* The theorems *)

\* Everything together is inductive.
LEMMA SnapshotAlways == Spec => []SnapshotInv
  <1>1. Init => SnapshotInv
    <2>1. Init => BaseInv
      BY TypeInit, TxInit, StampInit, UpInit DEF BaseInv
    <2>2. QED
      BY <2>1, SnapInit, OutcomeInit, RowInit, HistoryInit, ItemInit, StatementInit, StableInit
         DEF SnapshotInv, CalmInv
  <1>2. SnapshotInv /\ [Next]_vars => SnapshotInv'
    <2> SUFFICES ASSUME SnapshotInv, [Next]_vars PROVE SnapshotInv'
      OBVIOUS
    <2>1. BaseInv /\ SnapInv
      BY DEF SnapshotInv
    <2>2. BaseInv'
      BY <2>1, TypeNext, TxNext, StampNext, UpNext DEF BaseInv
    <2>3. SnapInv'
      BY <2>1, SnapNext
    <2>4. Calm' => Calm
      BY NextCases DEF Calm, Known, Contested
    <2>5. ASSUME Calm PROVE CalmInv'
      <3>1. /\ OutcomeInv /\ RowInv /\ HistoryInv /\ ItemInv /\ StatementInv /\ StableInv
            /\ Known
        BY <2>5 DEF SnapshotInv, CalmInv, Calm
      <3>2. OutcomeInv'
        BY <2>1, <3>1, OutcomeNext
      <3>3. RowInv'
        BY <2>1, <2>5, <3>1, RowNext
      <3>4. HistoryInv'
        BY <2>1, <2>5, <3>1, HistoryNext
      <3>5. ItemInv'
        BY <2>1, <2>5, <3>1, ItemNext
      <3>6. StatementInv'
        BY <2>1, <2>5, <3>1, StatementNext
      <3>7. StableInv'
        BY <2>1, <2>5, <3>1, StableNext
      <3>8. QED
        BY <3>2, <3>3, <3>4, <3>5, <3>6, <3>7 DEF CalmInv
    <2>6. QED
      BY <2>2, <2>3, <2>4, <2>5 DEF SnapshotInv
  <1>3. QED
    BY <1>1, <1>2, PTL DEF Spec

\* Visible for a reader without a transaction, as a set of IDs.
LEMMA VisibleIsLive ==
    ASSUME BaseInv, NEW sn, NEW r \in rows
    PROVE  Visible(sn, 0, r) <=> Live(Seen(sn), r)
  <1>1. r.tx_min \in Tx /\ r.tx_min # 0 /\ (r.tx_max # 0 => r.tx_max \in Tx) /\ 0 \notin Tx
    BY Types
  <1>2. QED
    BY <1>1 DEF Visible, Live, Seen

\* A fresh snapshot shows exactly what the committed transactions left, and one version
\* of each item, after any interleaving of statements, commits, rollbacks, reclaim
\* passes, truncations and restarts that the hypothesis Known leaves, while each item has
\* one writing session (Snapshot::visible, commit_write, reclaim_dead_rows).
THEOREM FreshSnapshotsShowDb == Spec => [](Known => UncontestedViewIsDb)
  <1>1. SnapshotInv => (Known => UncontestedViewIsDb)
    <2> SUFFICES ASSUME SnapshotInv, Calm PROVE FreshViewIsDb /\ OneLiveVersion
      BY DEF UncontestedViewIsDb, Calm
    <2>1. BaseInv /\ HistoryInv /\ ItemInv
      BY DEF SnapshotInv, CalmInv
    <2>2. View(SnapshotNow, 0) = {r \in rows : Live(Done, r)}
      BY <2>1, VisibleIsLive DEF View, Done
    <2>3. FreshViewIsDb
      BY <2>1, <2>2 DEF FreshViewIsDb, HistoryInv, Shown, Ids
    <2>4. OneLiveVersion
      BY <2>1, <2>2 DEF OneLiveVersion, ItemInv, OneLive
    <2>5. QED
      BY <2>3, <2>4
  <1>2. QED
    BY <1>1, SnapshotAlways, PTL

\* A session sees, apart from its own writes, the same rows from the moment it takes its
\* snapshot until it gives it up, unless a reclaim pass has started with a watermark
\* above what the snapshot has to keep.
THEOREM SnapshotsAreStable == Spec => [](Known => SnapshotStableAboveWatermark)
  <1>1. SnapshotInv => (Known => SnapshotStableAboveWatermark)
    <2> SUFFICES ASSUME SnapshotInv, Calm, NEW s \in Pinned, Above(snap[s])
                 PROVE  SeesItsBase(s)
      BY DEF SnapshotStableAboveWatermark, Calm, Above
    <2> DEFINE own == current_tx[s]
               sn  == snap[s]
               Cleared(r) == [r EXCEPT !.tx_max = IF @ = own THEN 0 ELSE @]
               Others == {Cleared(r) : r \in {q \in rows : q.tx_min # own}}
    <2>1. BaseInv /\ SnapInv /\ Shown(rows, Seen(sn)) = base[s] /\ s \in Session
      BY DEF SnapshotInv, CalmInv, StableInv, Above, Pinned
    <2>2. own \notin Seen(sn) /\ 0 \notin Seen(sn)
      <3>1. CASE pc[s] = "reading"
        BY <2>1, <3>1, Types DEF BaseInv, TypeInv, Seen
      <3>2. CASE pc[s] # "reading"
        BY <2>1, <3>2, Types DEF SnapInv, Seen, Covers
      <3>3. QED
        BY <3>1, <3>2
    <2>3. ASSUME NEW r \in rows
          PROVE  /\ Cleared(r).id = r.id
                 /\ r.tx_min # own => (Visible(sn, 0, Cleared(r)) <=> Live(Seen(sn), r))
                 /\ r.tx_min = own => ~Live(Seen(sn), r)
      <3>1. /\ r \in Row /\ r.tx_min \in Tx /\ r.tx_min # 0
            /\ (r.tx_max # 0 => r.tx_max \in Tx) /\ 0 \notin Tx
        BY <2>1, Types
      <3>2. /\ Cleared(r).id = r.id /\ Cleared(r).tx_min = r.tx_min
            /\ Cleared(r).tx_max = IF r.tx_max = own THEN 0 ELSE r.tx_max
        BY <3>1 DEF Row
      <3> HIDE DEF Cleared
      <3>3. \A t \in Tx : t \in Seen(sn) <=> Covers(sn, t)
        BY DEF Seen
      <3>4. QED
        BY <2>2, <3>1, <3>2, <3>3 DEF Visible, Live
    <2> HIDE DEF Cleared
    <2>4. Ids({r \in Others : Visible(sn, 0, r)}) = Shown(rows, Seen(sn))
      BY <2>3 DEF Ids, Shown
    <2>5. QED
      BY <2>1, <2>4 DEF SeesItsBase, Cleared
  <1>2. QED
    BY <1>1, SnapshotAlways, PTL
=============================================================================
