----------------------------- MODULE ClogProofs -----------------------------
(***************************************************************************)
(* Proofs about the commit log, for every set of writers, every number of  *)
(* transactions and every number of I/O errors: its invariants, that what  *)
(* callers are told never changes, and that group commit, crashes and      *)
(* truncation implement the abstract CommitLog.                            *)
(***************************************************************************)
EXTENDS Clog, TLAPS

\* TypeOK is inductive together with: a writer that has left "idle" owns a
\* transaction.
TypeInv == TypeOK /\ \A w \in Writer : pc[w] # "idle" => tx[w] \in Tx

\* The state Clog::open leaves in a new file is well typed.
LEMMA TypeInit == Init => TypeInv
  <1> SUFFICES ASSUME Init PROVE TypeInv
    OBVIOUS
  <1> USE ClogConstants DEF Init
  <1>1. pc \in [Writer -> {"idle", "active", "ok"} \cup Waiting \cup Leading]
    OBVIOUS
  <1>2. tx \in [Writer -> 0..MaxTx] /\ status \in [Writer -> Status]
        /\ lsn \in [Writer -> Nat]
    BY DEF Status
  <1>3. /\ disk_min \in 0..(MaxTx + 1) /\ min_tx_id \in 0..(MaxTx + 1)
        /\ floor \in 0..(MaxTx + 1) /\ next_tx \in 1..(MaxTx + 1)
        /\ io_errors \in 0..MaxIoErrors
    OBVIOUS
  <1>4. \A w \in Writer : pc[w] = "idle"
    OBVIOUS
  <1>5. QED
    BY <1>1, <1>2, <1>3, <1>4 DEF TypeInv, TypeOK

\* Every step of append, truncate_below, a crash and an open keeps the types.
LEMMA TypeNext == TypeInv /\ [Next]_vars => TypeInv'
  <1> SUFFICES ASSUME TypeInv, [Next]_vars PROVE TypeInv'
    OBVIOUS
  <1> USE ClogConstants DEF TypeInv, TypeOK, Tx, Status, Record, Waiting, Leading,
      Truncating, fileVars, stateVars, leaderVars, writerVars, truncVars, txVars
  <1>1. ASSUME NEW w \in Writer, BeginWrite(w) PROVE TypeInv'
    BY <1>1 DEF BeginWrite
  <1>2. ASSUME NEW w \in Writer, NEW s \in Status, Enqueue(w, s) PROVE TypeInv'
    BY <1>2 DEF Enqueue
  <1>3. ASSUME NEW w \in Writer, Covered(w) PROVE TypeInv'
    BY <1>3 DEF Covered, RecordOf
  <1>4. ASSUME NEW w \in Writer, Park(w) PROVE TypeInv'
    BY <1>4 DEF Park
  <1>5. ASSUME NEW w \in Writer, Lead(w) PROVE TypeInv'
    BY <1>5 DEF Lead
  <1>6. ASSUME NEW w \in Writer, WriteNothing(w) PROVE TypeInv'
    BY <1>6 DEF WriteNothing
  <1>7. ASSUME NEW w \in Writer, WritePanics(w) PROVE TypeInv'
    BY <1>7 DEF WritePanics
  <1>8. ASSUME NEW w \in Writer, WriteBatch(w) PROVE TypeInv'
    BY <1>8 DEF WriteBatch, Appended
  <1>9. ASSUME NEW w \in Writer, WriteFails(w) PROVE TypeInv'
    <2>1. limbo' \subseteq Record /\ junk' \in {"none", "tail", "middle"}
      BY <1>9 DEF WriteFails, Appended, Interrupted
    <2>2. QED
      BY <1>9, <2>1 DEF WriteFails, Fail
  <1>10. ASSUME NEW w \in Writer, SyncBatch(w) PROVE TypeInv'
    BY <1>10 DEF SyncBatch
  <1>11. ASSUME NEW w \in Writer, SyncFails(w) PROVE TypeInv'
    BY <1>11 DEF SyncFails, Fail
  <1>12. ASSUME NEW w \in Writer, Publish(w) PROVE TypeInv'
    <2>1. pc' \in [Writer -> {"idle", "active", "ok"} \cup Waiting \cup Leading]
      BY <1>12 DEF Publish, Returned, Woken
    <2>2. \A v \in Writer : pc'[v] # "idle" => pc[v] # "idle"
      BY <1>12 DEF Publish, Returned, Woken
    <2>3. tpc' \in {"idle", "want", "parked"} \cup Truncating
      BY <1>12 DEF Publish, TWoken
    <2>4. map' \subseteq Record /\ durable_lsn' \in Nat /\ acked' \subseteq Record
      BY <1>12 DEF Publish, Landed, Watermark, RecordOf
    <2>5. QED
      BY <1>12, <2>1, <2>2, <2>3, <2>4 DEF Publish
  <1>13. ASSUME NEW w \in Writer, Resolve(w) PROVE TypeInv'
    BY <1>13 DEF Resolve
  <1>14. CASE CaptureFloor
    BY <1>14 DEF CaptureFloor, IsOldestActive
  <1>15. CASE TruncatePark
    BY <1>15 DEF TruncatePark
  <1>16. CASE TruncateNoop
    BY <1>16 DEF TruncateNoop, Woken
  <1>17. CASE TakeSlot
    BY <1>17 DEF TakeSlot, Kept
  <1>18. CASE WriteTmp
    BY <1>18 DEF WriteTmp
  <1>19. CASE WriteTmpFails
    <2>1. io_errors' \in 0..MaxIoErrors
      BY <1>19 DEF WriteTmpFails, Fail
    <2>2. QED
      BY <1>19, <2>1 DEF WriteTmpFails, ReleaseSlot, Woken
  <1>20. CASE SwapFile
    BY <1>20 DEF SwapFile, Renamed
  <1>21. CASE SwapFails
    <2>0. io_errors' \in 0..MaxIoErrors
      BY <1>21 DEF SwapFails, Fail
    <2>1. handle' \in BOOLEAN
      BY <1>21, Zenon DEF SwapFails
    <2>2. /\ disk_min' \in 0..(MaxTx + 1) /\ disk' \subseteq Record
          /\ limbo' \subseteq Record /\ junk' \in {"none", "tail", "middle"}
      BY <1>21 DEF SwapFails, Renamed
    <2>3. QED
      BY <1>21, <2>0, <2>1, <2>2 DEF SwapFails, ReleaseSlot, Woken
  <1>22. CASE FinishTruncate
    BY <1>22 DEF FinishTruncate, Kept, ReleaseSlot, Woken
  <1>23. CASE Crash
    <2>1. disk' \subseteq Record /\ junk' \in {"none", "tail", "middle"}
      BY <1>23 DEF Crash, Interrupted
    <2>2. /\ pc' \in [Writer -> {"idle", "active", "ok"} \cup Waiting \cup Leading]
          /\ \A w \in Writer : pc'[w] = "idle"
      BY <1>23 DEF Crash
    <2>3. tx' \in [Writer -> 0..MaxTx] /\ status' \in [Writer -> Status]
          /\ lsn' \in [Writer -> Nat]
      BY <1>23 DEF Crash
    <2>4. up' \in BOOLEAN /\ flushing' \in BOOLEAN /\ handle' \in BOOLEAN
      BY <1>23, Zenon DEF Crash
    <2>5. /\ limbo' \subseteq Record /\ map' \subseteq Record
          /\ pending' \subseteq Record /\ batch' \subseteq Record
          /\ kept' \subseteq Record /\ in_flight' \subseteq Tx
      BY <1>23 DEF Crash
    <2>6. /\ next_lsn' \in Nat /\ durable_lsn' \in Nat /\ snapshot_lsn' \in Nat
          /\ min_tx_id' \in 0..(MaxTx + 1) /\ floor' \in 0..(MaxTx + 1)
          /\ result' \in {"ok", "err"}
          /\ tpc' \in {"idle", "want", "parked"} \cup Truncating
      BY <1>23 DEF Crash
    <2>7. QED
      BY <1>23, <2>1, <2>2, <2>3, <2>4, <2>5, <2>6 DEF Crash
  <1>24. CASE Open
    BY <1>24 DEF Open, HeaderFloor
  <1>25. CASE UNCHANGED vars
    BY <1>25 DEF vars
  <1>26. QED
    BY <1>1, <1>2, <1>3, <1>4, <1>5, <1>6, <1>7, <1>8, <1>9, <1>10, <1>11,
       <1>12, <1>13, <1>14, <1>15, <1>16, <1>17, <1>18, <1>19, <1>20, <1>21,
       <1>22, <1>23, <1>24, <1>25 DEF Next, WriterStep, TruncateStep

\* Every variable of the commit log keeps its type (TypeOK), for any number of
\* writers, transactions, I/O errors, crashes and truncations.
THEOREM TypeCorrect == Spec => []TypeOK
  <1>1. Spec => []TypeInv
    BY TypeInit, TypeNext, PTL DEF Spec
  <1>2. TypeInv => TypeOK
    BY DEF TypeInv
  <1>3. QED
    BY <1>1, <1>2, PTL

-----------------------------------------------------------------------------
(* The flush slot *)

\* A freshly opened clog has its flush slot free.
LEMMA SlotInit == Init => SlotExclusive
  BY DEF Init, SlotExclusive, Leading, Truncating

\* Taking the slot needs it free, and only its owner releases it.
LEMMA SlotNext == TypeInv /\ SlotExclusive /\ [Next]_vars => SlotExclusive'
  <1> SUFFICES ASSUME TypeInv, SlotExclusive, [Next]_vars PROVE SlotExclusive'
    OBVIOUS
  <1> USE DEF TypeInv, TypeOK, SlotExclusive, Waiting, Leading, Truncating,
      fileVars, stateVars, leaderVars, writerVars, truncVars, txVars
  <1>1. ASSUME NEW w \in Writer, BeginWrite(w) PROVE SlotExclusive'
    BY <1>1 DEF BeginWrite
  <1>2. ASSUME NEW w \in Writer, NEW s \in Status, Enqueue(w, s) PROVE SlotExclusive'
    BY <1>2 DEF Enqueue
  <1>3. ASSUME NEW w \in Writer, Covered(w) PROVE SlotExclusive'
    BY <1>3 DEF Covered
  <1>4. ASSUME NEW w \in Writer, Park(w) PROVE SlotExclusive'
    BY <1>4 DEF Park
  <1>5. ASSUME NEW w \in Writer, Lead(w) PROVE SlotExclusive'
    BY <1>5 DEF Lead, SlotFree
  <1>6. ASSUME NEW w \in Writer, WriteNothing(w) PROVE SlotExclusive'
    BY <1>6 DEF WriteNothing
  <1>7. ASSUME NEW w \in Writer, WritePanics(w) PROVE SlotExclusive'
    BY <1>7 DEF WritePanics
  <1>8. ASSUME NEW w \in Writer, WriteBatch(w) PROVE SlotExclusive'
    BY <1>8 DEF WriteBatch
  <1>9. ASSUME NEW w \in Writer, WriteFails(w) PROVE SlotExclusive'
    BY <1>9 DEF WriteFails
  <1>10. ASSUME NEW w \in Writer, SyncBatch(w) PROVE SlotExclusive'
    BY <1>10 DEF SyncBatch
  <1>11. ASSUME NEW w \in Writer, SyncFails(w) PROVE SlotExclusive'
    BY <1>11 DEF SyncFails
  <1>12. ASSUME NEW w \in Writer, Publish(w) PROVE SlotExclusive'
    BY <1>12 DEF Publish, Returned, Woken, TWoken
  <1>13. ASSUME NEW w \in Writer, Resolve(w) PROVE SlotExclusive'
    BY <1>13 DEF Resolve
  <1>14. CASE CaptureFloor
    BY <1>14 DEF CaptureFloor
  <1>15. CASE TruncatePark
    BY <1>15 DEF TruncatePark
  <1>16. CASE TruncateNoop
    BY <1>16 DEF TruncateNoop, Woken
  <1>17. CASE TakeSlot
    BY <1>17 DEF TakeSlot, SlotFree
  <1>18. CASE WriteTmp
    BY <1>18 DEF WriteTmp
  <1>19. CASE WriteTmpFails
    BY <1>19 DEF WriteTmpFails, ReleaseSlot, Woken
  <1>20. CASE SwapFile
    BY <1>20 DEF SwapFile
  <1>21. CASE SwapFails
    BY <1>21 DEF SwapFails, ReleaseSlot, Woken
  <1>22. CASE FinishTruncate
    BY <1>22 DEF FinishTruncate, ReleaseSlot, Woken
  <1>23. CASE Crash
    BY <1>23 DEF Crash
  <1>24. CASE Open
    BY <1>24 DEF Open
  <1>25. CASE UNCHANGED vars
    BY <1>25 DEF vars
  <1>26. QED
    BY <1>1, <1>2, <1>3, <1>4, <1>5, <1>6, <1>7, <1>8, <1>9, <1>10, <1>11, <1>12, <1>13, <1>14, <1>15, <1>16, <1>17, <1>18, <1>19, <1>20, <1>21, <1>22, <1>23, <1>24, <1>25
       DEF Next, WriterStep, TruncateStep

-----------------------------------------------------------------------------
(* The queue: every record in pending or in a leader's batch belongs to a   *)
(* writer that is still inside append and whose LSN is not durable yet.     *)

LeaderActive == \E w \in Writer : pc[w] \in Leading

QueueInv ==
    /\ durable_lsn <= next_lsn /\ snapshot_lsn <= next_lsn
    /\ LeaderActive => durable_lsn <= snapshot_lsn
    /\ batch # {} => LeaderActive
    /\ \A r \in pending : \E w \in Writer :
          /\ pc[w] \in {"flush", "parked"} /\ r = RecordOf(w)
          /\ lsn[w] > durable_lsn
          /\ LeaderActive => lsn[w] > snapshot_lsn
    /\ \A r \in batch : \E w \in Writer :
          /\ pc[w] \in Waiting \cup {"panicked"} /\ r = RecordOf(w)
          /\ lsn[w] > durable_lsn

\* A freshly opened clog has nothing queued.
LEMMA QueueInit == Init => QueueInv
  BY DEF Init, QueueInv, LeaderActive, Leading

\* A record stays queued only as long as its writer is inside append: the
\* watermark a leader publishes reaches no record queued during its I/O.
LEMMA QueueNext == TypeInv /\ SlotExclusive /\ QueueInv /\ [Next]_vars => QueueInv'
  <1> SUFFICES ASSUME TypeInv, SlotExclusive, QueueInv, [Next]_vars PROVE QueueInv'
    OBVIOUS
  <1> USE DEF TypeInv, TypeOK, SlotExclusive, QueueInv, LeaderActive, RecordOf, Waiting,
      Leading, Truncating, fileVars, stateVars, leaderVars, writerVars, truncVars, txVars
  <1>1. ASSUME NEW w \in Writer, BeginWrite(w) PROVE QueueInv'
    BY <1>1 DEF BeginWrite
  <1>2. ASSUME NEW w \in Writer, NEW s \in Status, Enqueue(w, s) PROVE QueueInv'
    BY <1>2 DEF Enqueue
  <1>3. ASSUME NEW w \in Writer, Covered(w) PROVE QueueInv'
    BY <1>3 DEF Covered
  <1>4. ASSUME NEW w \in Writer, Park(w) PROVE QueueInv'
    BY <1>4 DEF Park
  <1>5. ASSUME NEW w \in Writer, Lead(w) PROVE QueueInv'
    BY <1>5 DEF Lead, SlotFree
  <1>6. ASSUME NEW w \in Writer, WriteNothing(w) PROVE QueueInv'
    BY <1>6 DEF WriteNothing
  <1>7. ASSUME NEW w \in Writer, WritePanics(w) PROVE QueueInv'
    BY <1>7 DEF WritePanics
  <1>8. ASSUME NEW w \in Writer, WriteBatch(w) PROVE QueueInv'
    BY <1>8 DEF WriteBatch
  <1>9. ASSUME NEW w \in Writer, WriteFails(w) PROVE QueueInv'
    BY <1>9 DEF WriteFails
  <1>10. ASSUME NEW w \in Writer, SyncBatch(w) PROVE QueueInv'
    BY <1>10 DEF SyncBatch
  <1>11. ASSUME NEW w \in Writer, SyncFails(w) PROVE QueueInv'
    BY <1>11 DEF SyncFails
  <1>12. ASSUME NEW w \in Writer, Publish(w) PROVE QueueInv'
    BY <1>12 DEF Publish, Returned, Watermark, Woken, TWoken
  <1>13. ASSUME NEW w \in Writer, Resolve(w) PROVE QueueInv'
    BY <1>13 DEF Resolve
  <1>14. CASE CaptureFloor
    BY <1>14 DEF CaptureFloor
  <1>15. CASE TruncatePark
    BY <1>15 DEF TruncatePark
  <1>16. CASE TruncateNoop
    BY <1>16 DEF TruncateNoop, Woken
  <1>17. CASE TakeSlot
    BY <1>17 DEF TakeSlot, SlotFree
  <1>18. CASE WriteTmp
    BY <1>18 DEF WriteTmp
  <1>19. CASE WriteTmpFails
    BY <1>19 DEF WriteTmpFails, ReleaseSlot, Woken
  <1>20. CASE SwapFile
    BY <1>20 DEF SwapFile
  <1>21. CASE SwapFails
    BY <1>21 DEF SwapFails, ReleaseSlot, Woken
  <1>22. CASE FinishTruncate
    BY <1>22 DEF FinishTruncate, ReleaseSlot, Woken
  <1>23. CASE Crash
    BY <1>23 DEF Crash
  <1>24. CASE Open
    BY <1>24 DEF Open
  <1>25. CASE UNCHANGED vars
    BY <1>25 DEF vars
  <1>26. QED
    BY <1>1, <1>2, <1>3, <1>4, <1>5, <1>6, <1>7, <1>8, <1>9, <1>10, <1>11, <1>12, <1>13, <1>14, <1>15, <1>16, <1>17, <1>18, <1>19, <1>20, <1>21, <1>22, <1>23, <1>24, <1>25
       DEF Next, WriterStep, TruncateStep
-----------------------------------------------------------------------------
(* The truncation floor: it never passes a transaction in flight, and the   *)
(* queued records all belong to such transactions.                          *)

FloorInv ==
    /\ disk_min <= next_tx
    /\ \A t \in in_flight : disk_min <= t /\ t < next_tx
    /\ tpc # "idle" => /\ disk_min <= floor /\ floor <= next_tx
                       /\ \A t \in in_flight : floor <= t
    /\ \A w \in Writer : pc[w] # "idle" => tx[w] \in in_flight
    /\ \A v, w \in Writer :
          pc[v] # "idle" /\ pc[w] # "idle" /\ tx[v] = tx[w] => v = w
    /\ \A r \in limbo \cup disk : r.tx >= disk_min
    /\ tpc \in {"tmp", "swap"} => \A r \in kept : r.tx >= floor

\* A new file has floor 0.
LEMMA FloorInit == Init => FloorInv
  BY DEF Init, FloorInv

\* The floor truncate_below installs was captured while every running writer's ID
\* was at or above it, and later IDs are higher.
LEMMA FloorNext == TypeInv /\ SlotExclusive /\ QueueInv /\ FloorInv /\ [Next]_vars => FloorInv'
  <1> SUFFICES ASSUME TypeInv, SlotExclusive, QueueInv, FloorInv, [Next]_vars PROVE FloorInv'
    OBVIOUS
  <1> USE DEF TypeInv, TypeOK, SlotExclusive, QueueInv, FloorInv, RecordOf, Record, Tx, Waiting,
      Leading, Truncating, fileVars, stateVars, leaderVars, writerVars, truncVars, txVars
  <1>1. ASSUME NEW w \in Writer, BeginWrite(w) PROVE FloorInv'
    BY <1>1 DEF BeginWrite
  <1>2. ASSUME NEW w \in Writer, NEW s \in Status, Enqueue(w, s) PROVE FloorInv'
    BY <1>2 DEF Enqueue
  <1>3. ASSUME NEW w \in Writer, Covered(w) PROVE FloorInv'
    BY <1>3 DEF Covered
  <1>4. ASSUME NEW w \in Writer, Park(w) PROVE FloorInv'
    BY <1>4 DEF Park
  <1>5. ASSUME NEW w \in Writer, Lead(w) PROVE FloorInv'
    BY <1>5 DEF Lead
  <1>6. ASSUME NEW w \in Writer, WriteNothing(w) PROVE FloorInv'
    BY <1>6 DEF WriteNothing
  <1>7. ASSUME NEW w \in Writer, WritePanics(w) PROVE FloorInv'
    BY <1>7 DEF WritePanics
  <1>8. ASSUME NEW w \in Writer, WriteBatch(w) PROVE FloorInv'
    BY <1>8 DEF WriteBatch
  <1>9. ASSUME NEW w \in Writer, WriteFails(w) PROVE FloorInv'
    BY <1>9 DEF WriteFails
  <1>10. ASSUME NEW w \in Writer, SyncBatch(w) PROVE FloorInv'
    BY <1>10 DEF SyncBatch
  <1>11. ASSUME NEW w \in Writer, SyncFails(w) PROVE FloorInv'
    BY <1>11 DEF SyncFails
  <1>12. ASSUME NEW w \in Writer, Publish(w) PROVE FloorInv'
    BY <1>12 DEF Publish, Returned, Woken, TWoken
  <1>13. ASSUME NEW w \in Writer, Resolve(w) PROVE FloorInv'
    BY <1>13 DEF Resolve
  <1>14. CASE CaptureFloor
    BY <1>14 DEF CaptureFloor, IsOldestActive
  <1>15. CASE TruncatePark
    BY <1>15 DEF TruncatePark
  <1>16. CASE TruncateNoop
    BY <1>16 DEF TruncateNoop, Woken
  <1>17. CASE TakeSlot
    BY <1>17 DEF TakeSlot, Kept
  <1>18. CASE WriteTmp
    BY <1>18 DEF WriteTmp
  <1>19. CASE WriteTmpFails
    BY <1>19 DEF WriteTmpFails, ReleaseSlot, Woken
  <1>20. CASE SwapFile
    BY <1>20 DEF SwapFile, Renamed
  <1>21. CASE SwapFails
    BY <1>21 DEF SwapFails, ReleaseSlot, Woken, Renamed
  <1>22. CASE FinishTruncate
    BY <1>22 DEF FinishTruncate, ReleaseSlot, Woken
  <1>23. CASE Crash
    BY <1>23 DEF Crash
  <1>24. CASE Open
    BY <1>24 DEF Open
  <1>25. CASE UNCHANGED vars
    BY <1>25 DEF vars
  <1>26. QED
    BY <1>1, <1>2, <1>3, <1>4, <1>5, <1>6, <1>7, <1>8, <1>9, <1>10, <1>11, <1>12, <1>13, <1>14, <1>15, <1>16, <1>17, <1>18, <1>19, <1>20, <1>21, <1>22, <1>23, <1>24, <1>25
       DEF Next, WriterStep, TruncateStep

-----------------------------------------------------------------------------
(* Visibility follows durability.                                           *)

VisibleInv ==
    /\ VisibleIsDurable
    /\ \A w \in Writer : pc[w] = "publish" /\ result = "ok" => batch \subseteq disk
    /\ tpc \in {"tmp", "swap"} => kept = Kept
    /\ tpc = "finish" => disk_min = floor
    /\ ~up => tpc = "idle" /\ \A w \in Writer : pc[w] = "idle"

\* A new clog shows no outcome.
LEMMA VisibleInit == Init => VisibleInv
  BY DEF Init, VisibleInv, VisibleIsDurable

\* flush_until updates the map only after its fsync, and truncate_below's image
\* holds every record the map keeps.
LEMMA VisibleNext == TypeInv /\ SlotExclusive /\ FloorInv /\ VisibleInv /\ [Next]_vars => VisibleInv'
  <1> SUFFICES ASSUME TypeInv, SlotExclusive, FloorInv, VisibleInv, [Next]_vars PROVE VisibleInv'
    OBVIOUS
  <1> USE DEF TypeInv, TypeOK, SlotExclusive, FloorInv, VisibleInv, VisibleIsDurable, Kept,
      Record, Tx, Waiting, Leading, Truncating, fileVars, stateVars, leaderVars, writerVars, truncVars, txVars
  <1>1. ASSUME NEW w \in Writer, BeginWrite(w) PROVE VisibleInv'
    BY <1>1 DEF BeginWrite
  <1>2. ASSUME NEW w \in Writer, NEW s \in Status, Enqueue(w, s) PROVE VisibleInv'
    BY <1>2 DEF Enqueue
  <1>3. ASSUME NEW w \in Writer, Covered(w) PROVE VisibleInv'
    BY <1>3 DEF Covered
  <1>4. ASSUME NEW w \in Writer, Park(w) PROVE VisibleInv'
    BY <1>4 DEF Park
  <1>5. ASSUME NEW w \in Writer, Lead(w) PROVE VisibleInv'
    BY <1>5 DEF Lead, SlotFree
  <1>6. ASSUME NEW w \in Writer, WriteNothing(w) PROVE VisibleInv'
    BY <1>6 DEF WriteNothing
  <1>7. ASSUME NEW w \in Writer, WritePanics(w) PROVE VisibleInv'
    BY <1>7 DEF WritePanics
  <1>8. ASSUME NEW w \in Writer, WriteBatch(w) PROVE VisibleInv'
    BY <1>8 DEF WriteBatch
  <1>9. ASSUME NEW w \in Writer, WriteFails(w) PROVE VisibleInv'
    BY <1>9 DEF WriteFails
  <1>10. ASSUME NEW w \in Writer, SyncBatch(w) PROVE VisibleInv'
    BY <1>10 DEF SyncBatch
  <1>11. ASSUME NEW w \in Writer, SyncFails(w) PROVE VisibleInv'
    BY <1>11 DEF SyncFails
  <1>12. ASSUME NEW w \in Writer, Publish(w) PROVE VisibleInv'
    BY <1>12 DEF Publish, Returned, Landed, Woken, TWoken
  <1>13. ASSUME NEW w \in Writer, Resolve(w) PROVE VisibleInv'
    BY <1>13 DEF Resolve
  <1>14. CASE CaptureFloor
    BY <1>14 DEF CaptureFloor
  <1>15. CASE TruncatePark
    BY <1>15 DEF TruncatePark
  <1>16. CASE TruncateNoop
    BY <1>16 DEF TruncateNoop, Woken
  <1>17. CASE TakeSlot
    BY <1>17 DEF TakeSlot
  <1>18. CASE WriteTmp
    BY <1>18 DEF WriteTmp
  <1>19. CASE WriteTmpFails
    BY <1>19 DEF WriteTmpFails, ReleaseSlot, Woken
  <1>20. CASE SwapFile
    BY <1>20 DEF SwapFile, Renamed
  <1>21. CASE SwapFails
    BY <1>21 DEF SwapFails, ReleaseSlot, Woken, Renamed
  <1>22. CASE FinishTruncate
    BY <1>22 DEF FinishTruncate, ReleaseSlot, Woken
  <1>23. CASE Crash
    BY <1>23 DEF Crash
  <1>24. CASE Open
    BY <1>24 DEF Open
  <1>25. CASE UNCHANGED vars
    BY <1>25 DEF vars
  <1>26. QED
    BY <1>1, <1>2, <1>3, <1>4, <1>5, <1>6, <1>7, <1>8, <1>9, <1>10, <1>11, <1>12, <1>13, <1>14, <1>15, <1>16, <1>17, <1>18, <1>19, <1>20, <1>21, <1>22, <1>23, <1>24, <1>25
       DEF Next, WriterStep, TruncateStep
-----------------------------------------------------------------------------
(* Without I/O errors, Ok means durable.  A waiting writer's record is in   *)
(* exactly the place its LSN says: covered by a flush, queued, or in the    *)
(* batch of the leader whose snapshot_lsn covers it.                        *)

AckInv ==
    /\ result = "ok"
    /\ AckedIsDurable
    /\ up => disk \subseteq map \cup batch
    /\ \A w \in Writer :
          pc[w] \in {"writing", "syncing", "publish"} => RecordOf(w) \in batch
    /\ \A w \in Writer : lsn[w] <= next_lsn
    /\ \A w \in Writer : pc[w] \in {"flush", "parked"} =>
          \/ durable_lsn >= lsn[w] /\ (tx[w] < disk_min \/ RecordOf(w) \in disk)
          \/ /\ RecordOf(w) \in pending /\ lsn[w] > durable_lsn
             /\ LeaderActive => lsn[w] > snapshot_lsn
          \/ /\ RecordOf(w) \in batch
             /\ durable_lsn < lsn[w] /\ lsn[w] <= snapshot_lsn

\* Nothing has been reported by a new clog.
LEMMA AckInit == Init => AckInv
  BY DEF Init, AckInv, AckedIsDurable

\* Without I/O errors a record below the watermark is in the file, so append's
\* fast path reports only durable records.
LEMMA AckNext ==
  ASSUME MaxIoErrors = 0
  PROVE  TypeInv /\ SlotExclusive /\ QueueInv /\ FloorInv /\ VisibleInv
           /\ AckInv /\ [Next]_vars => AckInv'
  <1> SUFFICES ASSUME TypeInv, SlotExclusive, QueueInv, FloorInv, VisibleInv, AckInv, [Next]_vars PROVE AckInv'
    OBVIOUS
  <1> USE MaxIoErrors = 0 DEF TypeInv, TypeOK, SlotExclusive, QueueInv, FloorInv, VisibleInv, Kept,
      AckInv, AckedIsDurable, LeaderActive, RecordOf, Record, Tx, Waiting, Leading,
      Truncating, fileVars, stateVars, leaderVars, writerVars, truncVars, txVars
  <1>1. ASSUME NEW w \in Writer, BeginWrite(w) PROVE AckInv'
    BY <1>1 DEF BeginWrite
  <1>2. ASSUME NEW w \in Writer, NEW s \in Status, Enqueue(w, s) PROVE AckInv'
    BY <1>2 DEF Enqueue
  <1>3. ASSUME NEW w \in Writer, Covered(w) PROVE AckInv'
    BY <1>3 DEF Covered
  <1>4. ASSUME NEW w \in Writer, Park(w) PROVE AckInv'
    BY <1>4 DEF Park
  <1>5. ASSUME NEW w \in Writer, Lead(w) PROVE AckInv'
    BY <1>5 DEF Lead, SlotFree
  <1>6. ASSUME NEW w \in Writer, WriteNothing(w) PROVE AckInv'
    BY <1>6 DEF WriteNothing
  <1>7. ASSUME NEW w \in Writer, WritePanics(w) PROVE AckInv'
    BY <1>7 DEF WritePanics
  <1>8. ASSUME NEW w \in Writer, WriteBatch(w) PROVE AckInv'
    BY <1>8 DEF WriteBatch
  <1>9. ASSUME NEW w \in Writer, WriteFails(w) PROVE AckInv'
    BY <1>9 DEF WriteFails, Fail
  <1>10. ASSUME NEW w \in Writer, SyncBatch(w) PROVE AckInv'
    BY <1>10 DEF SyncBatch
  <1>11. ASSUME NEW w \in Writer, SyncFails(w) PROVE AckInv'
    BY <1>11 DEF SyncFails, Fail
  <1>12. ASSUME NEW w \in Writer, Publish(w) PROVE AckInv'
    BY <1>12 DEF Publish, Returned, Landed, Watermark, Woken, TWoken
  <1>13. ASSUME NEW w \in Writer, Resolve(w) PROVE AckInv'
    BY <1>13 DEF Resolve
  <1>14. CASE CaptureFloor
    BY <1>14 DEF CaptureFloor
  <1>15. CASE TruncatePark
    BY <1>15 DEF TruncatePark
  <1>16. CASE TruncateNoop
    BY <1>16 DEF TruncateNoop, Woken
  <1>17. CASE TakeSlot
    BY <1>17 DEF TakeSlot
  <1>18. CASE WriteTmp
    BY <1>18 DEF WriteTmp
  <1>19. CASE WriteTmpFails
    BY <1>19 DEF WriteTmpFails, ReleaseSlot, Woken, Fail
  <1>20. CASE SwapFile
    BY <1>20 DEF SwapFile, Renamed
  <1>21. CASE SwapFails
    BY <1>21 DEF SwapFails, ReleaseSlot, Woken, Renamed, Fail
  <1>22. CASE FinishTruncate
    BY <1>22 DEF FinishTruncate, ReleaseSlot, Woken
  <1>23. CASE Crash
    BY <1>23 DEF Crash
  <1>24. CASE Open
    BY <1>24 DEF Open
  <1>25. CASE UNCHANGED vars
    BY <1>25 DEF vars
  <1>26. QED
    BY <1>1, <1>2, <1>3, <1>4, <1>5, <1>6, <1>7, <1>8, <1>9, <1>10, <1>11, <1>12, <1>13, <1>14, <1>15, <1>16, <1>17, <1>18, <1>19, <1>20, <1>21, <1>22, <1>23, <1>24, <1>25
       DEF Next, WriterStep, TruncateStep

-----------------------------------------------------------------------------
(* Outcomes: a transaction that has not enqueued has no record anywhere, and  *)
(* one inside append has none but its own.                                   *)

Records == Everywhere \cup kept

Appending == Waiting \cup {"panicked"}

OutcomeInv ==
    /\ \A r \in Records : r.tx < next_tx
    /\ \A r, s \in Records : r.tx = s.tx => r = s
    /\ \A w \in Writer : pc[w] = "active" => \A r \in Records : r.tx # tx[w]
    /\ \A w \in Writer : pc[w] \in Appending =>
          \A r \in Records : r.tx = tx[w] => r = RecordOf(w)

\* No transaction has a record in the state Clog::open leaves in a new file.
LEMMA OutcomeInit == Init => OutcomeInv
  BY DEF Init, OutcomeInv, Records, Everywhere, Appending, Waiting

\* Steps that copy records between the queue, the file and the map, or drop them,
\* and start no transaction and no append.
LEMMA OutcomeCopy ==
  ASSUME OutcomeInv, Records' \subseteq Records,
         UNCHANGED <<tx, status, next_tx>>,
         \A w \in Writer : pc'[w] = "active" => pc[w] = "active",
         \A w \in Writer : pc'[w] \in Appending => pc[w] \in Appending
  PROVE  OutcomeInv'
  BY DEF OutcomeInv, RecordOf

\* Steps that report to a writer inside append.
LEMMA OutcomeReport ==
  ASSUME TypeInv, FloorInv, OutcomeInv, NEW u \in Writer, pc[u] \in Appending,
         Records' \subseteq Records \cup {RecordOf(u)},
         UNCHANGED <<tx, status, next_tx>>,
         \A w \in Writer : pc'[w] = "active" => pc[w] = "active",
         \A w \in Writer : pc'[w] \in Appending => pc[w] \in Appending
  PROVE  OutcomeInv'
  <1>1. RecordOf(u).tx = tx[u] /\ tx[u] < next_tx
    BY DEF RecordOf, FloorInv, TypeInv, TypeOK, Appending, Waiting
  <1>2. \A w \in Writer : w # u /\ pc[w] # "idle" => tx[w] # tx[u]
    BY DEF FloorInv, Appending, Waiting
  <1>3. pc[u] # "active" /\ "active" \notin Appending /\ "idle" \notin Appending
    BY DEF Appending, Waiting
  <1>4. \A w \in Writer : RecordOf(w)' = RecordOf(w)
    BY DEF RecordOf
  <1>5. \A r \in Records' : r.tx < next_tx'
    BY <1>1 DEF OutcomeInv
  <1>6. \A r, s \in Records' : r.tx = s.tx => r = s
    BY <1>1 DEF OutcomeInv
  <1>7. ASSUME NEW w \in Writer, pc'[w] = "active", NEW r \in Records'
        PROVE  r.tx # tx'[w]
    BY <1>1, <1>2, <1>3, <1>7 DEF OutcomeInv
  <1>8. ASSUME NEW w \in Writer, pc'[w] \in Appending, NEW r \in Records',
               r.tx = tx'[w]
        PROVE  r = RecordOf(w)'
    BY <1>1, <1>2, <1>3, <1>4, <1>8 DEF OutcomeInv
  <1>9. QED
    BY <1>5, <1>6, <1>7, <1>8 DEF OutcomeInv

\* begin_write reserves an ID no record carries, append enqueues one record for it,
\* and every other step moves records about.
LEMMA OutcomeNext ==
  TypeInv /\ FloorInv /\ OutcomeInv /\ [Next]_vars => OutcomeInv'
  <1> SUFFICES ASSUME TypeInv, FloorInv, OutcomeInv, [Next]_vars PROVE OutcomeInv'
    OBVIOUS
  <1> USE DEF Records, Everywhere, Appending, Waiting,
      fileVars, stateVars, leaderVars, writerVars, truncVars, txVars
  <1>1. ASSUME NEW w \in Writer, BeginWrite(w) PROVE OutcomeInv'
    <2>1. Records' = Records /\ next_tx' = next_tx + 1 /\ next_tx \in Nat
      BY <1>1 DEF BeginWrite, TypeInv, TypeOK
    <2>2. \A r \in Records : r.tx \in Nat
      BY DEF TypeInv, TypeOK, Record, Tx
    <2>3. \A v \in Writer : v # w => tx'[v] = tx[v] /\ pc'[v] = pc[v]
      BY <1>1 DEF BeginWrite, TypeInv, TypeOK
    <2>4. tx'[w] = next_tx /\ pc'[w] = "active"
      BY <1>1 DEF BeginWrite, TypeInv, TypeOK
    <2>5. \A r \in Records' : r.tx < next_tx'
      BY <2>1, <2>2 DEF OutcomeInv
    <2>6. \A r, s \in Records' : r.tx = s.tx => r = s
      BY <2>1 DEF OutcomeInv
    <2>7. ASSUME NEW v \in Writer, pc'[v] = "active", NEW r \in Records'
          PROVE  r.tx # tx'[v]
      BY <2>1, <2>2, <2>3, <2>4, <2>7 DEF OutcomeInv
    <2>8. ASSUME NEW v \in Writer, pc'[v] \in Appending, NEW r \in Records',
                 r.tx = tx'[v]
          PROVE  r = RecordOf(v)'
      BY <1>1, <2>1, <2>3, <2>4, <2>8 DEF OutcomeInv, RecordOf, BeginWrite
    <2>9. QED
      BY <2>5, <2>6, <2>7, <2>8 DEF OutcomeInv
  <1>2. ASSUME NEW w \in Writer, NEW s \in Status, Enqueue(w, s) PROVE OutcomeInv'
    <2> DEFINE new == [tx |-> tx[w], status |-> s]
    <2>1. Records' = Records \cup {new} /\ next_tx' = next_tx /\ tx' = tx
      BY <1>2 DEF Enqueue
    <2>2. pc[w] = "active" /\ pc'[w] = "flush" /\ RecordOf(w)' = new
      BY <1>2 DEF Enqueue, TypeInv, TypeOK, RecordOf
    <2>3. \A v \in Writer : v # w => pc'[v] = pc[v] /\ RecordOf(v)' = RecordOf(v)
      BY <1>2 DEF Enqueue, TypeInv, TypeOK, RecordOf
    <2>4. new.tx = tx[w] /\ tx[w] < next_tx
      BY <2>2 DEF FloorInv
    <2>5. \A v \in Writer : v # w /\ pc[v] # "idle" => tx[v] # tx[w]
      BY <2>2 DEF FloorInv
    <2>6. \A r \in Records : r.tx # tx[w]
      BY <2>2 DEF OutcomeInv
    <2> HIDE DEF new
    <2>7. \A r \in Records' : r.tx < next_tx'
      BY <2>1, <2>4 DEF OutcomeInv
    <2>8. \A r, q \in Records' : r.tx = q.tx => r = q
      BY <2>1, <2>4, <2>6 DEF OutcomeInv
    <2>9. ASSUME NEW v \in Writer, pc'[v] = "active", NEW r \in Records'
          PROVE  r.tx # tx'[v]
      BY <2>1, <2>2, <2>3, <2>4, <2>5, <2>9 DEF OutcomeInv
    <2>10. ASSUME NEW v \in Writer, pc'[v] \in Appending, NEW r \in Records',
                  r.tx = tx'[v]
           PROVE  r = RecordOf(v)'
      BY <2>1, <2>2, <2>3, <2>4, <2>5, <2>6, <2>10 DEF OutcomeInv
    <2>11. QED
      BY <2>7, <2>8, <2>9, <2>10 DEF OutcomeInv
  <1>3. ASSUME NEW w \in Writer, Covered(w) PROVE OutcomeInv'
    BY <1>3, OutcomeReport DEF Covered, TypeInv, TypeOK
  <1>4. ASSUME NEW w \in Writer, Park(w) PROVE OutcomeInv'
    BY <1>4, OutcomeCopy DEF Park, TypeInv, TypeOK
  <1>5. ASSUME NEW w \in Writer, Lead(w) PROVE OutcomeInv'
    BY <1>5, OutcomeCopy DEF Lead, TypeInv, TypeOK
  <1>6. ASSUME NEW w \in Writer, WriteNothing(w) PROVE OutcomeInv'
    BY <1>6, OutcomeCopy DEF WriteNothing, TypeInv, TypeOK
  <1>7. ASSUME NEW w \in Writer, WritePanics(w) PROVE OutcomeInv'
    BY <1>7, OutcomeCopy DEF WritePanics, TypeInv, TypeOK
  <1>8. ASSUME NEW w \in Writer, WriteBatch(w) PROVE OutcomeInv'
    BY <1>8, OutcomeCopy DEF WriteBatch, TypeInv, TypeOK
  <1>9. ASSUME NEW w \in Writer, WriteFails(w) PROVE OutcomeInv'
    BY <1>9, OutcomeCopy DEF WriteFails, TypeInv, TypeOK
  <1>10. ASSUME NEW w \in Writer, SyncBatch(w) PROVE OutcomeInv'
    BY <1>10, OutcomeCopy DEF SyncBatch, TypeInv, TypeOK
  <1>11. ASSUME NEW w \in Writer, SyncFails(w) PROVE OutcomeInv'
    BY <1>11, OutcomeCopy DEF SyncFails, TypeInv, TypeOK
  <1>12. ASSUME NEW w \in Writer, Publish(w) PROVE OutcomeInv'
    <2>1. Records' \subseteq Records \cup {RecordOf(w)}
      BY <1>12 DEF Publish, Landed
    <2>2. pc[w] \in Appending
      BY <1>12 DEF Publish
    <2>3. UNCHANGED <<tx, status, next_tx>>
      BY <1>12 DEF Publish
    <2>4. \A v \in Writer : pc'[v] = "active" => pc[v] = "active"
      BY <1>12 DEF Publish, Returned, Woken, TypeInv, TypeOK
    <2>5. \A v \in Writer : pc'[v] \in Appending => pc[v] \in Appending
      BY <1>12 DEF Publish, Returned, Woken, TypeInv, TypeOK
    <2>6. QED
      BY <2>1, <2>2, <2>3, <2>4, <2>5, OutcomeReport
  <1>13. ASSUME NEW w \in Writer, Resolve(w) PROVE OutcomeInv'
    BY <1>13, OutcomeCopy DEF Resolve, TypeInv, TypeOK
  <1>14. CASE CaptureFloor
    BY <1>14, OutcomeCopy DEF CaptureFloor
  <1>15. CASE TruncatePark
    BY <1>15, OutcomeCopy DEF TruncatePark
  <1>16. CASE TruncateNoop
    BY <1>16, OutcomeCopy DEF TruncateNoop, Woken
  <1>17. CASE TakeSlot
    BY <1>17, OutcomeCopy DEF TakeSlot, Kept
  <1>18. CASE WriteTmp
    BY <1>18, OutcomeCopy DEF WriteTmp
  <1>19. CASE WriteTmpFails
    BY <1>19, OutcomeCopy DEF WriteTmpFails, ReleaseSlot, Woken
  <1>20. CASE SwapFile
    BY <1>20, OutcomeCopy DEF SwapFile, Renamed
  <1>21. CASE SwapFails
    BY <1>21, OutcomeCopy DEF SwapFails, Renamed, ReleaseSlot, Woken
  <1>22. CASE FinishTruncate
    BY <1>22, OutcomeCopy DEF FinishTruncate, Kept, ReleaseSlot, Woken
  <1>23. CASE Crash
    BY <1>23 DEF Crash, OutcomeInv
  <1>24. CASE Open
    BY <1>24, OutcomeCopy DEF Open
  <1>25. CASE UNCHANGED vars
    BY <1>25, OutcomeCopy DEF vars
  <1>26. QED
    BY <1>1, <1>2, <1>3, <1>4, <1>5, <1>6, <1>7, <1>8, <1>9, <1>10, <1>11, <1>12, <1>13, <1>14, <1>15, <1>16, <1>17, <1>18, <1>19, <1>20, <1>21, <1>22, <1>23, <1>24, <1>25
       DEF Next, WriterStep, TruncateStep

-----------------------------------------------------------------------------
(* Theorems *)

ClogInv ==
    /\ TypeInv /\ SlotExclusive /\ QueueInv /\ FloorInv /\ VisibleInv
    /\ OutcomeInv

\* The inductive invariant of the commit log, whatever fails and whenever the
\* process crashes inside append or truncate_below.
THEOREM ClogInvariant == Spec => []ClogInv
  <1>1. Init => ClogInv
    BY TypeInit, SlotInit, QueueInit, FloorInit, VisibleInit,
       OutcomeInit DEF ClogInv
  <1>2. ClogInv /\ [Next]_vars => ClogInv'
    BY TypeNext, SlotNext, QueueNext, FloorNext, VisibleNext,
       OutcomeNext DEF ClogInv
  <1>3. QED
    BY <1>1, <1>2, PTL DEF Spec

\* The flush slot is a lock: flush_until's leaders and truncate_below never
\* own the file at the same time, and the flag is set exactly while one does.
THEOREM SlotIsExclusive == Spec => []SlotExclusive
  BY ClogInvariant, PTL DEF ClogInv

\* No append introduces a record below the truncation floor, although
\* truncate_below lets writers enqueue during its rewrite.
THEOREM FloorRespected == Spec => []NoRecordBelowFloor
  <1>1. ClogInv => NoRecordBelowFloor
    BY DEF ClogInv, TypeInv, TypeOK, QueueInv, FloorInv, NoRecordBelowFloor,
           RecordOf, Record, Tx, Waiting, Leading
  <1>2. QED
    BY <1>1, ClogInvariant, PTL

\* A reader never sees an outcome that is not durable, whatever fails and
\* whenever the process crashes.
THEOREM VisibilityFollowsDurability == Spec => []VisibleIsDurable
  BY ClogInvariant, PTL DEF ClogInv, VisibleInv

\* append never gives a transaction two outcomes: in the queue, a batch, the file,
\* the map and the reports there is one record per transaction, across crashes and
\* failed writes.
THEOREM OutcomeIsUnique == Spec => []OneOutcome
  <1>1. ClogInv => OneOutcome
    BY DEF ClogInv, OutcomeInv, Records, OneOutcome
  <1>2. QED
    BY <1>1, ClogInvariant, PTL

\* If no file operation fails, a record whose append returned Ok survives
\* every crash and every truncation that keeps it.
THEOREM OkMeansDurable ==
  ASSUME MaxIoErrors = 0
  PROVE  Spec => []AckedIsDurable
  <1>1. Init => ClogInv /\ AckInv
    BY TypeInit, SlotInit, QueueInit, FloorInit, VisibleInit,
       OutcomeInit, AckInit DEF ClogInv
  <1>2. ClogInv /\ AckInv /\ [Next]_vars => (ClogInv /\ AckInv)'
    BY TypeNext, SlotNext, QueueNext, FloorNext, VisibleNext,
       OutcomeNext, AckNext DEF ClogInv
  <1>3. ClogInv /\ AckInv => AckedIsDurable
    BY DEF AckInv
  <1>4. QED
    BY <1>1, <1>2, <1>3, PTL DEF Spec

-----------------------------------------------------------------------------
(* The answers, and the abstract commit log *)

\* At most one record per transaction.
Unique(m) == \A r, s \in m : r.tx = s.tx => r = s

\* Clog::status finds the one record of a transaction.
LEMMA StatusFound ==
    ASSUME NEW m, Unique(m), NEW f, NEW r \in m, ~(r.tx < f)
    PROVE  StatusIn(m, f, r.tx) = r.status
  <1>1. (CHOOSE s \in m : s.tx = r.tx) = r
    BY DEF Unique
  <1>2. QED
    BY <1>1 DEF StatusIn

\* Clog::status of a transaction without a record.
LEMMA StatusAbsent ==
    ASSUME NEW m, NEW f, NEW t, \A r \in m : r.tx # t, ~(t < f)
    PROVE  StatusIn(m, f, t) = "None"
  BY DEF StatusIn

\* An answer that is given by a record comes from the one that carries it.
LEMMA StatusFrom ==
    ASSUME NEW m, Unique(m), NEW f, NEW t, ~(t < f), StatusIn(m, f, t) # "None"
    PROVE  \E r \in m : r.tx = t /\ r.status = StatusIn(m, f, t)
  <1>1. PICK r \in m : r.tx = t
    BY StatusAbsent
  <1>2. QED
    BY <1>1, StatusFound

\* An answer is one of three.
LEMMA StatusType ==
    ASSUME NEW m \in SUBSET Record, Unique(m), NEW f, NEW t
    PROVE  StatusIn(m, f, t) \in Status \cup {"None"}
  <1>1. CASE t < f
    BY <1>1 DEF StatusIn, Status
  <1>2. CASE ~(t < f) /\ StatusIn(m, f, t) # "None"
    BY <1>2, StatusFrom DEF Record
  <1>3. QED
    BY <1>1, <1>2

\* More records answer at least as much, and a given answer the same way.
LEMMA StatusGrows ==
    ASSUME NEW m, NEW n, m \subseteq n, Unique(n), NEW f, NEW t,
           StatusIn(m, f, t) # "None"
    PROVE  StatusIn(n, f, t) = StatusIn(m, f, t)
  <1>1. CASE t < f
    BY <1>1 DEF StatusIn
  <1>2. CASE ~(t < f)
    <2>1. Unique(m)
      BY DEF Unique
    <2>2. PICK r \in m : r.tx = t /\ r.status = StatusIn(m, f, t)
      BY <1>2, <2>1, StatusFrom
    <2>3. QED
      BY <1>2, <2>2, StatusFound
  <1>3. QED
    BY <1>1, <1>2

-----------------------------------------------------------------------------
(* Answers are final *)

\* The floor in memory is never ahead of the file's, and a truncation raises it.
MemoryFloorInv ==
    /\ up => min_tx_id <= disk_min
    /\ tpc \in Truncating => min_tx_id < floor

LEMMA MemoryFloorInit == Init => MemoryFloorInv
  BY DEF Init, MemoryFloorInv, Truncating

\* Only truncate_below moves a floor, the file's first.
LEMMA MemoryFloorNext == ClogInv /\ MemoryFloorInv /\ [Next]_vars => MemoryFloorInv'
  <1> SUFFICES ASSUME ClogInv, MemoryFloorInv, [Next]_vars PROVE MemoryFloorInv'
    OBVIOUS
  <1> USE DEF ClogInv, TypeInv, TypeOK, VisibleInv, MemoryFloorInv, Truncating,
      fileVars, stateVars, leaderVars, writerVars, truncVars, txVars
  <1>1. ASSUME UNCHANGED <<up, min_tx_id, disk_min, floor>>,
               tpc' \in Truncating => tpc \in Truncating
        PROVE  MemoryFloorInv'
    BY <1>1
  <1>2. ASSUME NEW w \in Writer, NEW s \in Status,
               BeginWrite(w) \/ Enqueue(w, s) \/ WriterStep(w)
        PROVE  MemoryFloorInv'
    <2>1. UNCHANGED <<up, min_tx_id, disk_min, floor>>
      BY <1>2 DEF BeginWrite, Enqueue, WriterStep, Covered, Park, Lead, WriteNothing,
         WritePanics, WriteBatch, WriteFails, SyncBatch, SyncFails, Publish, Resolve
    <2>2. tpc' = tpc \/ tpc' = TWoken(tpc)
      BY <1>2 DEF BeginWrite, Enqueue, WriterStep, Covered, Park, Lead, WriteNothing,
         WritePanics, WriteBatch, WriteFails, SyncBatch, SyncFails, Publish, Resolve
    <2>3. QED
      BY <1>1, <2>1, <2>2 DEF TWoken
  <1>3. CASE CaptureFloor
    BY <1>3 DEF CaptureFloor
  <1>4. CASE TruncatePark \/ TruncateNoop \/ WriteTmp \/ WriteTmpFails
    BY <1>1, <1>4 DEF TruncatePark, TruncateNoop, WriteTmp, WriteTmpFails, ReleaseSlot
  <1>5. CASE TakeSlot
    BY <1>5 DEF TakeSlot
  <1>6. CASE SwapFile \/ SwapFails
    BY <1>6 DEF SwapFile, SwapFails, Renamed, ReleaseSlot
  <1>7. CASE FinishTruncate
    BY <1>7 DEF FinishTruncate, ReleaseSlot
  <1>8. CASE Crash
    BY <1>8 DEF Crash
  <1>9. CASE Open
    BY <1>9 DEF Open, HeaderFloor
  <1>10. CASE UNCHANGED vars
    BY <1>10 DEF vars
  <1>11. Status # {}
    BY DEF Status
  <1>12. QED
    BY <1>2, <1>3, <1>4, <1>5, <1>6, <1>7, <1>8, <1>9, <1>10, <1>11 DEF Next, TruncateStep

FinalInv == ClogInv /\ MemoryFloorInv

LEMMA FinalInvariant == Spec => []FinalInv
  <1>1. Init => MemoryFloorInv
    BY MemoryFloorInit
  <1>2. ClogInv /\ MemoryFloorInv /\ [Next]_vars => MemoryFloorInv'
    BY MemoryFloorNext
  <1>3. QED
    BY <1>1, <1>2, ClogInvariant, PTL DEF Spec, FinalInv

\* No transaction has two records in the map, the file or both.
LEMMA RecordsUnique ==
    ASSUME ClogInv PROVE Unique(map) /\ Unique(disk) /\ Unique(disk \cup map)
  BY DEF ClogInv, OutcomeInv, Records, Everywhere, Unique

\* What the code does to the map and its floor: readers see them grow, or a
\* truncation is published, or the process dies or opens the file again.
LEMMA AnswerSteps ==
    ASSUME [Next]_vars
    PROVE  \/ up /\ up' /\ min_tx_id' = min_tx_id /\ map \subseteq map'
           \/ FinishTruncate \/ Crash \/ Open
           \/ UNCHANGED <<up, map, min_tx_id, disk, disk_min>>
  <1> USE DEF fileVars, stateVars, leaderVars, writerVars, truncVars, txVars
  <1>1. ASSUME NEW w \in Writer, NEW s \in Status,
               BeginWrite(w) \/ Enqueue(w, s) \/ WriterStep(w)
        PROVE  up /\ up' /\ min_tx_id' = min_tx_id /\ map \subseteq map'
    BY <1>1 DEF BeginWrite, Enqueue, WriterStep, Covered, Park, Lead, WriteNothing,
       WritePanics, WriteBatch, WriteFails, SyncBatch, SyncFails, Publish, Resolve
  <1>2. CASE CaptureFloor \/ (TruncateStep /\ ~FinishTruncate)
    BY <1>2 DEF CaptureFloor, TruncateStep, TruncatePark, TruncateNoop, TakeSlot,
       WriteTmp, WriteTmpFails, SwapFile, SwapFails, ReleaseSlot
  <1>3. CASE UNCHANGED vars
    BY <1>3 DEF vars
  <1>4. Status # {}
    BY DEF Status
  <1>5. QED
    BY <1>1, <1>2, <1>3, <1>4 DEF Next, TruncateStep

\* One step keeps what Clog::status says of a transaction.
LEMMA AnswerKept ==
    ASSUME FinalInv, FinalInv', [Next]_vars, NEW t \in Tx
    PROVE  /\ Answer(t) = "Committed" => Answer(t)' = "Committed"
           /\ Answer(t) = "RolledBack" =>
                 Answer(t)' = "RolledBack" \/ t < disk_min'
  <1> DEFINE A == Answer(t)
             Final == Answer(t)' = A \/ (t < disk_min' /\ Answer(t)' = "Committed")
  <1> SUFFICES ASSUME A # "None" PROVE Final
    OBVIOUS
  <1> USE DEF FinalInv
  <1>0. /\ t \in Nat /\ min_tx_id \in Nat /\ disk_min \in Nat /\ floor \in Nat
        /\ \A r \in map \cup disk : r.tx \in Nat
    BY DEF ClogInv, TypeInv, TypeOK, Tx, Record
  <1>u. Unique(map') /\ Unique(disk')
    BY DEF ClogInv, OutcomeInv, Records, Everywhere, Unique
  <1>1. CASE up /\ up' /\ min_tx_id' = min_tx_id /\ map \subseteq map'
    <2>1. StatusIn(map', min_tx_id, t) = StatusIn(map, min_tx_id, t)
      BY <1>1, <1>u, StatusGrows DEF Answer, StatusOf
    <2>2. QED
      BY <1>1, <2>1 DEF Answer, StatusOf
  <1>2. CASE FinishTruncate
    <2>1. /\ up /\ up' /\ map' = {r \in map : r.tx >= floor} /\ min_tx_id' = floor
          /\ min_tx_id < floor /\ disk_min' = floor
      BY <1>2 DEF FinishTruncate, Kept, ReleaseSlot, fileVars, MemoryFloorInv,
         Truncating, ClogInv, VisibleInv
    <2>2. CASE t < floor
      BY <2>1, <2>2 DEF Answer, StatusOf, StatusIn
    <2>3. CASE ~(t < floor)
      <3>1. PICK r \in map : r.tx = t /\ r.status = A
        BY <1>0, <2>1, <2>3, RecordsUnique, StatusFrom DEF Answer, StatusOf
      <3>2. r \in map' /\ Unique(map')
        BY <1>0, <1>u, <2>1, <2>3, <3>1
      <3>3. StatusIn(map', floor, t) = A
        BY <2>3, <3>1, <3>2, StatusFound
      <3>4. QED
        BY <2>1, <3>3 DEF Answer, StatusOf
    <2>4. QED
      BY <2>2, <2>3
  <1>3. CASE Crash
    <2>1. /\ up /\ ~up' /\ disk \subseteq disk' /\ disk_min' = disk_min
          /\ min_tx_id <= disk_min
      BY <1>3 DEF Crash, MemoryFloorInv
    <2>2. CASE t < disk_min
      BY <2>1, <2>2 DEF Answer, StatusIn
    <2>3. CASE ~(t < disk_min)
      <3>1. PICK r \in map : r.tx = t /\ r.status = A
        BY <1>0, <2>1, <2>3, RecordsUnique, StatusFrom DEF Answer, StatusOf
      <3>2. r \in disk'
        BY <2>1, <2>3, <3>1 DEF ClogInv, VisibleInv, VisibleIsDurable
      <3>4. StatusIn(disk', disk_min, t) = A
        BY <1>u, <2>3, <3>1, <3>2, StatusFound
      <3>5. QED
        BY <2>1, <3>4 DEF Answer
    <2>4. QED
      BY <2>2, <2>3
  <1>4. CASE Open
    BY <1>4 DEF Open, HeaderFloor, Answer, StatusOf, fileVars
  <1>5. CASE UNCHANGED <<up, map, min_tx_id, disk, disk_min>>
    BY <1>5 DEF Answer, StatusOf
  <1>6. QED
    BY <1>1, <1>2, <1>3, <1>4, <1>5, AnswerSteps

\* What a reader has been told of a transaction is final (AnswerIsFinal), whatever
\* fails in append and truncate_below, whenever the process crashes, and whatever
\* part of an unsynced batch survives: committed stays committed, and rolled back
\* stays so until a truncation passes the transaction.
THEOREM AnswersAreFinal == Spec => AnswerIsFinal
  <1>1. FinalInv /\ FinalInv' /\ [Next]_vars =>
          [\A t \in Tx :
             /\ Answer(t) = "Committed" => Answer(t)' = "Committed"
             /\ Answer(t) = "RolledBack" =>
                   Answer(t)' = "RolledBack" \/ t < disk_min']_vars
    BY AnswerKept
  <1>2. QED
    BY <1>1, FinalInvariant, PTL DEF Spec, AnswerIsFinal

-----------------------------------------------------------------------------
(* Refinement: while no file operation fails, the file's header, its synced  *)
(* records and the reports are the abstract commit log.                      *)

Outcomes == [t \in Tx |-> StatusIn(disk, disk_min, t)]

\* Without I/O errors the floors in memory and in the file differ only between the
\* rename and the publication.
FloorsAgree == up /\ tpc # "finish" => min_tx_id = disk_min

RefineInv == ClogInv /\ AckInv /\ MemoryFloorInv /\ FloorsAgree

LEMMA FloorsAgreeNext ==
    ASSUME MaxIoErrors = 0, ClogInv, FloorsAgree, [Next]_vars
    PROVE  FloorsAgree'
  <1> USE DEF ClogInv, TypeInv, TypeOK, VisibleInv, FloorsAgree,
      fileVars, stateVars, leaderVars, writerVars, truncVars, txVars
  <1>1. ASSUME UNCHANGED <<up, min_tx_id, disk_min>>, tpc = "finish" => tpc' = "finish"
        PROVE  FloorsAgree'
    BY <1>1
  <1>2. ASSUME NEW w \in Writer, NEW s \in Status,
               BeginWrite(w) \/ Enqueue(w, s) \/ WriterStep(w)
        PROVE  FloorsAgree'
    <2>1. UNCHANGED <<up, min_tx_id, disk_min>>
      BY <1>2 DEF BeginWrite, Enqueue, WriterStep, Covered, Park, Lead, WriteNothing,
         WritePanics, WriteBatch, WriteFails, SyncBatch, SyncFails, Publish, Resolve
    <2>2. tpc' = tpc \/ tpc' = TWoken(tpc)
      BY <1>2 DEF BeginWrite, Enqueue, WriterStep, Covered, Park, Lead, WriteNothing,
         WritePanics, WriteBatch, WriteFails, SyncBatch, SyncFails, Publish, Resolve
    <2>3. QED
      BY <1>1, <2>1, <2>2 DEF TWoken
  <1>3. CASE CaptureFloor \/ TruncatePark \/ TruncateNoop \/ TakeSlot \/ WriteTmp
    BY <1>1, <1>3 DEF CaptureFloor, TruncatePark, TruncateNoop, TakeSlot, WriteTmp
  <1>4. CASE WriteTmpFails \/ SwapFails
    BY <1>4, MaxIoErrors = 0 DEF WriteTmpFails, SwapFails, Fail
  <1>5. CASE SwapFile
    BY <1>5 DEF SwapFile
  <1>6. CASE FinishTruncate
    BY <1>6 DEF FinishTruncate, ReleaseSlot
  <1>7. CASE Crash
    BY <1>7 DEF Crash
  <1>8. CASE Open
    BY <1>8 DEF Open, HeaderFloor
  <1>9. CASE UNCHANGED vars
    BY <1>9 DEF vars
  <1>10. Status # {}
    BY DEF Status
  <1>11. QED
    BY <1>2, <1>3, <1>4, <1>5, <1>6, <1>7, <1>8, <1>9, <1>10 DEF Next, TruncateStep

LEMMA RefineInvariant == ASSUME MaxIoErrors = 0 PROVE Spec => []RefineInv
  <1>1. Init => AckInv /\ FloorsAgree
    BY AckInit DEF Init, FloorsAgree
  <1>2. ClogInv /\ AckInv /\ [Next]_vars => AckInv'
    BY AckNext DEF ClogInv
  <1>3. ClogInv /\ FloorsAgree /\ [Next]_vars => FloorsAgree'
    BY FloorsAgreeNext
  <1>4. QED
    BY <1>1, <1>2, <1>3, FinalInvariant, PTL DEF Spec, FinalInv, RefineInv

\* More records in the file decide outcomes and change none.
LEMMA DiskGrowsDecides ==
    ASSUME ClogInv, ClogInv', disk \subseteq disk',
           UNCHANGED <<disk_min, acked>>
    PROVE  Abstract!Next
  <1>1. \A t \in Tx : StatusIn(disk', disk_min, t) \in Status \cup {"None"}
    <2>1. disk' \in SUBSET Record /\ Unique(disk')
      BY DEF ClogInv, TypeInv, TypeOK, OutcomeInv, Records, Everywhere, Unique
    <2>2. QED
      BY <2>1, StatusType
  <1>2. \A t \in Tx : StatusIn(disk, disk_min, t) # "None" =>
           StatusIn(disk', disk_min, t) = StatusIn(disk, disk_min, t)
    <2>1. Unique(disk')
      BY DEF ClogInv, OutcomeInv, Records, Everywhere, Unique
    <2>2. QED
      BY <2>1, StatusGrows
  <1> DEFINE decided == [t \in Tx |-> StatusIn(disk', disk_min, t)]
  <1>3. decided \in [Tx -> Status \cup {"None"}]
    BY <1>1
  <1>4. Abstract!Decide(decided)
    BY <1>1, <1>2 DEF Abstract!Decide, Abstract!Tx, Abstract!Status, Tx, Status
  <1>5. QED
    BY <1>3, <1>4 DEF Abstract!Next, Abstract!Tx, Abstract!Status, Tx, Status

\* A report tells an outcome that the file holds.
LEMMA ReportTells ==
    ASSUME ClogInv, NEW r \in disk, acked' = acked \cup {r},
           UNCHANGED <<disk, disk_min>>
    PROVE  Abstract!Next
  <1>1. r \in Record /\ ~(r.tx < disk_min) /\ r.tx >= disk_min
    BY DEF ClogInv, TypeInv, TypeOK, FloorInv, Record, Tx
  <1>2. StatusIn(disk, disk_min, r.tx) = r.status
    BY <1>1, RecordsUnique, StatusFound
  <1>3. r.tx \in Tx /\ r.status # "None" /\ r = [tx |-> r.tx, status |-> r.status]
    BY <1>1 DEF Record, Status
  <1>4. Abstract!Tell(r.tx)
    BY <1>1, <1>2, <1>3 DEF Abstract!Tell, Abstract!Tx, Tx
  <1>5. QED
    BY <1>3, <1>4 DEF Abstract!Next, Abstract!Tx, Tx

\* The rename forgets the outcomes below the floor and keeps the others.
LEMMA RenameForgets ==
    ASSUME RefineInv, RefineInv', SwapFile
    PROVE  Abstract!Next
  <1> USE DEF RefineInv
  <1>1. /\ tpc = "swap" /\ up /\ disk' = kept /\ disk_min' = floor /\ acked' = acked
    BY DEF SwapFile, Renamed
  <1>2. floor \in 1..(MaxTx + 1) /\ floor > disk_min
    BY <1>1, ClogConstants
       DEF MemoryFloorInv, FloorsAgree, Truncating, ClogInv, TypeInv, TypeOK
  <1>3. disk \subseteq map
    BY <1>1 DEF AckInv, ClogInv, QueueInv, LeaderActive, SlotExclusive, Truncating
  <1>4. kept = {r \in map : r.tx >= floor}
    BY <1>1 DEF ClogInv, VisibleInv, Kept
  <1>5. kept = {r \in disk : r.tx >= floor}
    <2>1. \A r \in map : r.tx >= floor => r \in disk
      <3>1. ASSUME NEW r \in map, r.tx >= floor PROVE r \in disk
        <4>1. r.tx \in Nat /\ disk_min \in Nat /\ floor \in Nat
          BY DEF ClogInv, TypeInv, TypeOK, Record, Tx
        <4>2. ~(r.tx < disk_min)
          BY <1>2, <3>1, <4>1
        <4>3. QED
          BY <4>2 DEF ClogInv, VisibleInv, VisibleIsDurable
      <3>2. QED
        BY <3>1
    <2>2. QED
      BY <1>3, <1>4, <2>1
  <1>6. ASSUME NEW t \in Tx, ~(t < floor)
        PROVE  StatusIn(kept, floor, t) = StatusIn(disk, disk_min, t)
    <2>1. ~(t < disk_min) /\ t \in Nat /\ floor \in Nat
      BY <1>2, <1>6 DEF Tx, ClogInv, TypeInv, TypeOK
    <2>2. CASE \E r \in disk : r.tx = t
      <3>1. PICK r \in disk : r.tx = t
        BY <2>2
      <3>2. r \in kept /\ Unique(kept) /\ Unique(disk)
        BY <1>5, <1>6, <2>1, <3>1, RecordsUnique DEF Unique
      <3>3. StatusIn(kept, floor, t) = r.status
        BY <1>6, <3>1, <3>2, StatusFound
      <3>4. StatusIn(disk, disk_min, t) = r.status
        BY <2>1, <3>1, <3>2, StatusFound
      <3>5. QED
        BY <3>3, <3>4
    <2>3. CASE ~\E r \in disk : r.tx = t
      BY <1>5, <1>6, <2>1, <2>3, StatusAbsent
    <2>4. QED
      BY <2>2, <2>3
  <1>7. \A t \in Tx : t < floor => StatusIn(kept, floor, t) = "Committed"
    BY DEF StatusIn
  <1>8. Outcomes' = [t \in Tx |-> IF t < floor THEN "Committed" ELSE Outcomes[t]]
    BY <1>1, <1>6, <1>7 DEF Outcomes
  <1>9. Abstract!Forget(floor)
    BY <1>1, <1>2, <1>8 DEF Abstract!Forget, Abstract!Tx, Tx, Outcomes
  <1>10. QED
    BY <1>2, <1>9 DEF Abstract!Next

\* Every step of the clog is a step of the abstract commit log or leaves it alone.
LEMMA StepRefines ==
    ASSUME MaxIoErrors = 0, RefineInv, RefineInv', [Next]_vars
    PROVE  [Abstract!Next]_<<Outcomes, disk_min, acked>>
  <1> USE DEF RefineInv, fileVars, stateVars, leaderVars, writerVars, truncVars, txVars
  <1>0. ASSUME UNCHANGED <<disk, disk_min, acked>>
        PROVE  UNCHANGED <<Outcomes, disk_min, acked>>
    BY <1>0 DEF Outcomes
  <1>1. ASSUME NEW w \in Writer, Covered(w) PROVE Abstract!Next
    <2>1. RecordOf(w) \in disk
      BY <1>1 DEF Covered, AckInv, ClogInv, FloorInv, QueueInv, TypeInv, TypeOK, Tx
    <2>2. QED
      BY <1>1, <2>1, ReportTells DEF Covered
  <1>2. ASSUME NEW w \in Writer, Publish(w) PROVE Abstract!Next
    <2>1. RecordOf(w) \in disk /\ result = "ok"
      BY <1>2 DEF Publish, AckInv, ClogInv, VisibleInv
    <2>2. QED
      BY <1>2, <2>1, ReportTells DEF Publish
  <1>3. ASSUME NEW w \in Writer, SyncBatch(w) PROVE Abstract!Next
    BY <1>3, DiskGrowsDecides DEF SyncBatch
  <1>4. ASSUME NEW w \in Writer, WriteFails(w) \/ SyncFails(w) PROVE FALSE
    BY <1>4, MaxIoErrors = 0 DEF WriteFails, SyncFails, Fail, ClogInv, TypeInv, TypeOK
  <1>5. ASSUME NEW w \in Writer, NEW s \in Status,
               \/ BeginWrite(w) \/ Enqueue(w, s) \/ Park(w) \/ Lead(w) \/ WriteNothing(w)
               \/ WritePanics(w) \/ WriteBatch(w) \/ Resolve(w)
        PROVE  UNCHANGED <<disk, disk_min, acked>>
    BY <1>5 DEF BeginWrite, Enqueue, Park, Lead, WriteNothing, WritePanics, WriteBatch,
       Resolve
  <1>6. CASE \/ CaptureFloor \/ TruncatePark \/ TruncateNoop \/ TakeSlot \/ WriteTmp
             \/ FinishTruncate \/ Open
    BY <1>0, <1>6 DEF CaptureFloor, TruncatePark, TruncateNoop, TakeSlot, WriteTmp,
       FinishTruncate, Open
  <1>7. ASSUME WriteTmpFails \/ SwapFails PROVE FALSE
    BY <1>7, MaxIoErrors = 0 DEF WriteTmpFails, SwapFails, Fail, ClogInv, TypeInv, TypeOK
  <1>8. CASE SwapFile
    BY <1>8, RenameForgets
  <1>9. CASE Crash
    BY <1>9, DiskGrowsDecides DEF Crash
  <1>10. CASE UNCHANGED vars
    BY <1>0, <1>10 DEF vars
  <1>11. Status # {}
    BY DEF Status
  <1>12. QED
    BY <1>0, <1>1, <1>2, <1>3, <1>4, <1>5, <1>6, <1>7, <1>8, <1>9, <1>10, <1>11
       DEF Next, WriterStep, TruncateStep

\* If no file operation fails, group commit with its leaders and followers,
\* truncation by rename, crashes and reopens implement the abstract commit log
\* (ImplementsCommitLog): outcomes are decided durably and once, told only after
\* that, and forgotten only below a rising floor.
THEOREM ClogImplementsCommitLog ==
    ASSUME MaxIoErrors = 0 PROVE Spec => ImplementsCommitLog
  <1>1. Init => Abstract!Init
    BY ClogConstants DEF Init, Abstract!Init, Abstract!Tx, Tx, StatusIn
  <1>2. RefineInv /\ RefineInv' /\ [Next]_vars =>
          [Abstract!Next]_<<Outcomes, disk_min, acked>>
    BY StepRefines
  <1>3. QED
    BY <1>1, <1>2, RefineInvariant, PTL
       DEF Spec, ImplementsCommitLog, Abstract!Spec, Outcomes
=============================================================================
