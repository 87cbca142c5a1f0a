-------------------------------- MODULE Clog --------------------------------
(***************************************************************************)
(* The commit log (engine/clog.rs): the append-only file that says how     *)
(* every transaction ended, and its leader/follower group commit.          *)
(*                                                                         *)
(* Writers are session threads.  A writer reserves a transaction ID        *)
(* (TxState::begin_write), enqueues one record for it and stays in         *)
(* Clog::append until the record is durable.  One more thread, the         *)
(* reclaimer, rewrites the file without the records below a floor          *)
(* (Clog::truncate_below).  Each action is one critical section of the     *)
(* `state` mutex or one step of file I/O, so every interleaving the two    *)
(* mutexes and the condition variable allow is a behaviour.                *)
(*                                                                         *)
(* The order of records within one file or batch is abstracted away: a     *)
(* batch is a set, an interrupted write leaves any subset of it, and       *)
(* OneOutcome shows that no transaction has two records whose order would  *)
(* matter.  A record torn in the middle is a fragment, see junk.           *)
(***************************************************************************)
EXTENDS Naturals, FiniteSets

CONSTANTS
    Writer,        \* the session threads
    MaxTx,         \* bound: transaction IDs are 1..MaxTx
    MaxIoErrors,   \* bound: how many file operations may fail
    TornWrites     \* whether an interrupted write can cut a record in two

ASSUME ClogConstants ==
    /\ MaxTx \in Nat
    /\ MaxIoErrors \in Nat
    /\ TornWrites \in BOOLEAN

VARIABLES
    \* the file <db>-clog
    disk_min,      \* min_tx_id of its header
    disk,          \* the records an fsync has covered
    limbo,         \* records written that no successful fsync has covered
    junk,          \* a torn record: "none", at the end ("tail"), or followed
                   \* by whole records that are therefore misaligned ("middle")
    \* ClogState, under the `state` mutex
    up,            \* the process runs and the clog is open
    map, pending, next_lsn, durable_lsn, flushing, min_tx_id,
    \* the file handle and the locals of the thread that holds the flush slot
    handle,        \* the Option<File> is Some
    batch, snapshot_lsn, result,
    \* writers
    pc, tx, status, lsn,
    \* the reclaimer thread inside truncate_below
    tpc, floor, kept,
    \* TxState, as far as the clog's callers use it
    next_tx, in_flight,
    \* history
    acked,         \* records whose append returned Ok
    io_errors      \* failures so far

fileVars   == <<disk_min, disk, limbo, junk>>
stateVars  == <<up, map, pending, next_lsn, durable_lsn, flushing, min_tx_id>>
leaderVars == <<handle, batch, snapshot_lsn, result>>
writerVars == <<tx, status, lsn>>
truncVars  == <<floor, kept>>
txVars     == <<next_tx, in_flight>>
vars == <<fileVars, stateVars, leaderVars, writerVars, pc, truncVars, tpc,
          txVars, acked, io_errors>>

Tx     == 1..MaxTx
Status == {"Committed", "RolledBack"}
Record == [tx : Tx, status : Status]

\* A writer that owns a record the clog has not yet reported on.
Waiting == {"flush", "parked", "writing", "syncing", "publish"}
\* A writer that holds the flush slot.
Leading == {"writing", "syncing", "publish", "panicked"}
\* The reclaimer's program counter while it holds the flush slot.
Truncating == {"tmp", "swap", "finish"}

RecordOf(w) == [tx |-> tx[w], status |-> status[w]]

TypeOK ==
    /\ disk_min \in 0..(MaxTx + 1)
    /\ disk \subseteq Record
    /\ limbo \subseteq Record
    /\ junk \in {"none", "tail", "middle"}
    /\ up \in BOOLEAN
    /\ map \subseteq Record
    /\ pending \subseteq Record
    /\ next_lsn \in Nat
    /\ durable_lsn \in Nat
    /\ flushing \in BOOLEAN
    /\ min_tx_id \in 0..(MaxTx + 1)
    /\ handle \in BOOLEAN
    /\ batch \subseteq Record
    /\ snapshot_lsn \in Nat
    /\ result \in {"ok", "err"}
    /\ pc \in [Writer -> {"idle", "active", "ok"} \cup Waiting \cup Leading]
    /\ tx \in [Writer -> 0..MaxTx]
    /\ status \in [Writer -> Status]
    /\ lsn \in [Writer -> Nat]
    /\ tpc \in {"idle", "want", "parked"} \cup Truncating
    /\ floor \in 0..(MaxTx + 1)
    /\ kept \subseteq Record
    /\ next_tx \in 1..(MaxTx + 1)
    /\ in_flight \subseteq Tx
    /\ acked \subseteq Record
    /\ io_errors \in 0..MaxIoErrors

\* The state after Clog::open created a fresh file.
Init ==
    /\ disk_min = 0 /\ disk = {} /\ limbo = {} /\ junk = "none"
    /\ up = TRUE /\ map = {} /\ pending = {}
    /\ next_lsn = 0 /\ durable_lsn = 0 /\ flushing = FALSE /\ min_tx_id = 0
    /\ handle = TRUE /\ batch = {} /\ snapshot_lsn = 0 /\ result = "ok"
    /\ pc = [w \in Writer |-> "idle"]
    /\ tx = [w \in Writer |-> 0]
    /\ status = [w \in Writer |-> "RolledBack"]
    /\ lsn = [w \in Writer |-> 0]
    /\ tpc = "idle" /\ floor = 0 /\ kept = {}
    /\ next_tx = 1 /\ in_flight = {}
    /\ acked = {} /\ io_errors = 0

-----------------------------------------------------------------------------
(* Lookups *)

\* Clog::status for the in-memory state m with truncation floor f.
StatusIn(m, f, t) ==
    IF t < f THEN "Committed"
    ELSE IF \E r \in m : r.tx = t THEN (CHOOSE r \in m : r.tx = t).status
    ELSE "None"

StatusOf(t) == StatusIn(map, min_tx_id, t)

\* Mutant: the in-flight transactions are ignored.
IsOldestActive_NextTx(f) == f = next_tx

\* TxState::oldest_active_tx_id: f is the smallest in-flight ID, or the next ID
\* when nothing is in flight.
IsOldestActive(f) ==
    IF in_flight = {} THEN f = next_tx
    ELSE f \in in_flight /\ \A t \in in_flight : f <= t

-----------------------------------------------------------------------------
(* Condition variable flush_done: notify_all makes every parked thread      *)
(* re-check its condition.                                                  *)

Woken(p)  == [w \in Writer |-> IF p[w] = "parked" THEN "flush" ELSE p[w]]
TWoken(p) == IF p = "parked" THEN "want" ELSE p

\* Mutant: the slot is taken without looking.
SlotFree_NoCheck == TRUE
\* Nobody holds the flush slot.
SlotFree == ~flushing

\* One more file operation fails.
Fail(n) == io_errors + n <= MaxIoErrors /\ io_errors' = io_errors + n

\* A write onto a file that ends in a fragment is misaligned.
Appended(j) == IF j = "tail" THEN "middle" ELSE j
\* What an interrupted write may leave at the end of the file.
Interrupted(j) == IF TornWrites /\ j = "none" THEN {"none", "tail"} ELSE {j}

-----------------------------------------------------------------------------
(* Writers *)

\* TxState::begin_write: reserve a fresh ID.
BeginWrite(w) ==
    /\ up /\ pc[w] = "idle" /\ next_tx <= MaxTx
    /\ tx' = [tx EXCEPT ![w] = next_tx]
    /\ next_tx' = next_tx + 1
    /\ in_flight' = in_flight \cup {next_tx}
    /\ pc' = [pc EXCEPT ![w] = "active"]
    /\ UNCHANGED <<fileVars, stateVars, leaderVars, status, lsn, truncVars,
                   tpc, acked, io_errors>>

\* Clog::append, stage 1: claim an LSN and push the record onto pending.
Enqueue(w, s) ==
    /\ up /\ pc[w] = "active"
    /\ next_lsn' = next_lsn + 1
    /\ lsn' = [lsn EXCEPT ![w] = next_lsn + 1]
    /\ status' = [status EXCEPT ![w] = s]
    /\ pending' = pending \cup {[tx |-> tx[w], status |-> s]}
    /\ pc' = [pc EXCEPT ![w] = "flush"]
    /\ UNCHANGED <<fileVars, up, map, durable_lsn, flushing, min_tx_id,
                   leaderVars, tx, truncVars, tpc, txVars, acked, io_errors>>

\* flush_until, fast path: an earlier fsync already covered this LSN.
Covered(w) ==
    /\ up /\ pc[w] = "flush" /\ durable_lsn >= lsn[w]
    /\ pc' = [pc EXCEPT ![w] = "ok"]
    /\ acked' = acked \cup {RecordOf(w)}
    /\ UNCHANGED <<fileVars, stateVars, leaderVars, writerVars, truncVars, tpc,
                   txVars, io_errors>>

\* flush_until: another thread holds the slot, wait on flush_done.
Park(w) ==
    /\ up /\ pc[w] = "flush" /\ durable_lsn < lsn[w] /\ flushing
    /\ pc' = [pc EXCEPT ![w] = "parked"]
    /\ UNCHANGED <<fileVars, stateVars, leaderVars, writerVars, truncVars, tpc,
                   txVars, acked, io_errors>>

\* flush_until: take the slot and drain pending.
Lead(w) ==
    /\ up /\ pc[w] = "flush" /\ durable_lsn < lsn[w] /\ SlotFree
    /\ flushing' = TRUE
    /\ batch' = pending
    /\ pending' = {}
    /\ snapshot_lsn' = next_lsn
    /\ pc' = [pc EXCEPT ![w] = "writing"]
    /\ UNCHANGED <<fileVars, up, map, next_lsn, durable_lsn, min_tx_id, handle,
                   result, writerVars, truncVars, tpc, txVars, acked,
                   io_errors>>

\* write_and_fsync with an empty batch: no I/O, Ok.
WriteNothing(w) ==
    /\ up /\ pc[w] = "writing" /\ batch = {}
    /\ result' = "ok"
    /\ pc' = [pc EXCEPT ![w] = "publish"]
    /\ UNCHANGED <<fileVars, stateVars, handle, batch, snapshot_lsn, writerVars,
                   truncVars, tpc, txVars, acked, io_errors>>

\* write_and_fsync: the handle is gone (both reopens of truncate_below failed);
\* the expect() panics and the flush slot is never released.
WritePanics(w) ==
    /\ up /\ pc[w] = "writing" /\ batch # {} /\ ~handle
    /\ pc' = [pc EXCEPT ![w] = "panicked"]
    /\ UNCHANGED <<fileVars, stateVars, leaderVars, writerVars, truncVars, tpc,
                   txVars, acked, io_errors>>

\* write_and_fsync: write_all succeeds.
WriteBatch(w) ==
    /\ up /\ pc[w] = "writing" /\ batch # {} /\ handle
    /\ limbo' = limbo \cup batch
    /\ junk' = Appended(junk)
    /\ pc' = [pc EXCEPT ![w] = "syncing"]
    /\ UNCHANGED <<disk_min, disk, stateVars, leaderVars, writerVars, truncVars,
                   tpc, txVars, acked, io_errors>>

\* write_and_fsync: write_all fails after part of the batch.
WriteFails(w) ==
    /\ up /\ pc[w] = "writing" /\ batch # {} /\ handle
    /\ Fail(1)
    /\ \E part \in SUBSET batch :
          /\ limbo' = limbo \cup part
          /\ junk' \in Interrupted(IF part = {} THEN junk ELSE Appended(junk))
    /\ result' = "err"
    /\ pc' = [pc EXCEPT ![w] = "publish"]
    /\ UNCHANGED <<disk_min, disk, stateVars, handle, batch, snapshot_lsn,
                   writerVars, truncVars, tpc, txVars, acked>>

\* write_and_fsync: sync_all succeeds.
SyncBatch(w) ==
    /\ up /\ pc[w] = "syncing"
    /\ disk' = disk \cup batch
    /\ limbo' = limbo \ batch
    /\ result' = "ok"
    /\ pc' = [pc EXCEPT ![w] = "publish"]
    /\ UNCHANGED <<disk_min, junk, stateVars, handle, batch, snapshot_lsn,
                   writerVars, truncVars, tpc, txVars, acked, io_errors>>

\* write_and_fsync: sync_all fails; the batch may or may not survive a crash.
SyncFails(w) ==
    /\ up /\ pc[w] = "syncing"
    /\ Fail(1)
    /\ result' = "err"
    /\ pc' = [pc EXCEPT ![w] = "publish"]
    /\ UNCHANGED <<fileVars, stateVars, handle, batch, snapshot_lsn, writerVars,
                   truncVars, tpc, txVars, acked>>

\* Mutant: the map is updated whatever the fsync returned.
Landed_IgnoreError == batch
\* The records that become visible.
Landed == IF result = "ok" THEN batch ELSE {}

\* Mutant: the watermark also covers records queued during the I/O.
Watermark_Latest == IF result = "ok" THEN next_lsn ELSE durable_lsn
\* The LSN up to which the leader's fsync covers.
Watermark == IF result = "ok" THEN snapshot_lsn ELSE durable_lsn

\* Mutant: after an error the caller records an outcome for the same ID again.
Returned_Retry == IF result = "ok" THEN "ok" ELSE "active"
\* Where append's caller continues: commit_write and rollback_write return
\* early on an error, and the ID stays in flight.
Returned == IF result = "ok" THEN "ok" ELSE "idle"

\* flush_until: the leader publishes the batch, frees the slot, notifies all
\* and returns.
Publish(w) ==
    /\ up /\ pc[w] = "publish"
    /\ map' = map \cup Landed
    /\ durable_lsn' = Watermark
    /\ acked' = IF result = "ok" THEN acked \cup {RecordOf(w)} ELSE acked
    /\ flushing' = FALSE
    /\ batch' = {}
    /\ pc' = [Woken(pc) EXCEPT ![w] = Returned]
    /\ tpc' = TWoken(tpc)
    /\ UNCHANGED <<fileVars, up, pending, next_lsn, min_tx_id, handle,
                   snapshot_lsn, result, writerVars, truncVars, txVars,
                   io_errors>>

\* commit_write / rollback_write after the clog returned Ok: leave in_flight.
Resolve(w) ==
    /\ up /\ pc[w] = "ok"
    /\ in_flight' = in_flight \ {tx[w]}
    /\ pc' = [pc EXCEPT ![w] = "idle"]
    /\ UNCHANGED <<fileVars, stateVars, leaderVars, writerVars, truncVars, tpc,
                   next_tx, acked, io_errors>>

-----------------------------------------------------------------------------
(* The reclaimer *)

\* Mutant: the floor is one too high.
CaptureFloor_OffByOne ==
    /\ up /\ tpc = "idle"
    /\ \E f \in in_flight \cup {next_tx} : IsOldestActive(f) /\ floor' = f + 1
    /\ tpc' = "want"
    /\ UNCHANGED <<fileVars, stateVars, leaderVars, writerVars, pc, kept,
                   txVars, acked, io_errors>>

\* Database::truncate_clog captures the floor before the reclaim pass.
CaptureFloor ==
    /\ up /\ tpc = "idle"
    /\ \E f \in in_flight \cup {next_tx} : IsOldestActive(f) /\ floor' = f
    /\ tpc' = "want"
    /\ UNCHANGED <<fileVars, stateVars, leaderVars, writerVars, pc, kept,
                   txVars, acked, io_errors>>

\* truncate_below: a leader is mid-fsync.
TruncatePark ==
    /\ up /\ tpc = "want" /\ flushing
    /\ tpc' = "parked"
    /\ UNCHANGED <<fileVars, stateVars, leaderVars, writerVars, pc, truncVars,
                   txVars, acked, io_errors>>

\* truncate_below: the floor does not advance; the slot is taken and released
\* in one critical section.
TruncateNoop ==
    /\ up /\ tpc = "want" /\ SlotFree /\ floor <= min_tx_id
    /\ tpc' = "idle"
    /\ pc' = Woken(pc)
    /\ UNCHANGED <<fileVars, stateVars, leaderVars, writerVars, truncVars,
                   txVars, acked, io_errors>>

\* Mutant: a record at the floor itself is dropped.
Kept_DropFloor == {r \in map : r.tx > floor}
\* The records a truncation keeps.
Kept == {r \in map : r.tx >= floor}

\* truncate_below, step 1: take the slot and copy the records to keep.
TakeSlot ==
    /\ up /\ tpc = "want" /\ SlotFree /\ floor > min_tx_id
    /\ flushing' = TRUE
    /\ kept' = Kept
    /\ tpc' = "tmp"
    /\ UNCHANGED <<fileVars, up, map, pending, next_lsn, durable_lsn, min_tx_id,
                   leaderVars, writerVars, pc, floor, txVars, acked, io_errors>>

\* Mutant: nobody is notified.
ReleaseSlot_Silent == flushing' = FALSE /\ tpc' = "idle" /\ UNCHANGED pc

\* Free the slot and notify all.
ReleaseSlot ==
    /\ flushing' = FALSE
    /\ pc' = Woken(pc)
    /\ tpc' = "idle"

\* truncate_below, step 2: the image of the kept records is in <clog>.tmp.
WriteTmp ==
    /\ up /\ tpc = "tmp"
    /\ tpc' = "swap"
    /\ UNCHANGED <<fileVars, stateVars, leaderVars, writerVars, pc, truncVars,
                   txVars, acked, io_errors>>

\* truncate_below, step 2 fails: the tmp file is removed.
WriteTmpFails ==
    /\ up /\ tpc = "tmp"
    /\ Fail(1)
    /\ ReleaseSlot
    /\ UNCHANGED <<fileVars, up, map, pending, next_lsn, durable_lsn, min_tx_id,
                   leaderVars, writerVars, truncVars, txVars, acked>>

\* The tmp image takes the place of the canonical file.
Renamed ==
    /\ disk_min' = floor
    /\ disk' = kept
    /\ limbo' = {}
    /\ junk' = "none"

\* truncate_below, step 3: rename over the canonical path and reopen.
SwapFile ==
    /\ up /\ tpc = "swap"
    /\ Renamed
    /\ handle' = TRUE
    /\ tpc' = "finish"
    /\ UNCHANGED <<stateVars, batch, snapshot_lsn, result, writerVars, pc,
                   truncVars, txVars, acked, io_errors>>

\* truncate_below, step 3 fails in the rename or in the reopen after it; the
\* recovery open succeeds, or fails too and leaves no handle.
SwapFails ==
    /\ up /\ tpc = "swap"
    /\ \/ UNCHANGED fileVars
       \/ Renamed
    /\ \/ Fail(1) /\ handle' = TRUE
       \/ Fail(2) /\ handle' = FALSE
    /\ ReleaseSlot
    /\ UNCHANGED <<up, map, pending, next_lsn, durable_lsn, min_tx_id, batch,
                   snapshot_lsn, result, writerVars, truncVars, txVars, acked>>

\* truncate_below, step 4: publish the floor.
FinishTruncate ==
    /\ up /\ tpc = "finish"
    /\ map' = Kept
    /\ min_tx_id' = floor
    /\ ReleaseSlot
    /\ UNCHANGED <<fileVars, up, pending, next_lsn, durable_lsn, leaderVars,
                   writerVars, truncVars, txVars, acked, io_errors>>

-----------------------------------------------------------------------------
(* Crash and reopen *)

\* The process dies: memory is lost, and of the records no fsync has covered
\* any subset is found in the file afterwards.  IDs are not reused: the counter in
\* the database header, and what happens when it lags, belong to module Mvcc.
Crash ==
    /\ up
    /\ up' = FALSE
    /\ \E part \in SUBSET limbo : disk' = disk \cup part
    /\ limbo' = {}
    /\ junk' \in IF limbo = {} THEN {junk} ELSE Interrupted(junk)
    /\ map' = {} /\ pending' = {} /\ flushing' = FALSE
    /\ next_lsn' = 0 /\ durable_lsn' = 0 /\ min_tx_id' = 0
    /\ handle' = FALSE /\ batch' = {} /\ snapshot_lsn' = 0 /\ result' = "ok"
    /\ pc' = [w \in Writer |-> "idle"]
    /\ tx' = [w \in Writer |-> 0]
    /\ status' = [w \in Writer |-> "RolledBack"]
    /\ lsn' = [w \in Writer |-> 0]
    /\ tpc' = "idle" /\ floor' = 0 /\ kept' = {}
    /\ in_flight' = {}
    /\ UNCHANGED <<disk_min, next_tx, acked, io_errors>>

\* Mutant: the floor in the header is ignored.
HeaderFloor_Zero == 0
\* read_header: the floor the file was last truncated to.
HeaderFloor == disk_min

\* Clog::open on an existing file: drop <clog>.tmp, read the header and every
\* record.  A fragment at the end is skipped.  Records behind a fragment are read
\* from the wrong offset: what is taken for the status tag is a byte of an ID,
\* for small IDs mostly 0, and open fails, so the action is not enabled.
Open ==
    /\ ~up /\ junk # "middle"
    /\ up' = TRUE
    /\ map' = disk
    /\ min_tx_id' = HeaderFloor
    /\ handle' = TRUE
    /\ UNCHANGED <<fileVars, pending, next_lsn, durable_lsn, flushing, batch,
                   snapshot_lsn, result, writerVars, pc, truncVars, tpc, txVars,
                   acked, io_errors>>

-----------------------------------------------------------------------------

WriterStep(w) ==
    \/ Covered(w) \/ Park(w) \/ Lead(w)
    \/ WriteNothing(w) \/ WritePanics(w) \/ WriteBatch(w) \/ WriteFails(w)
    \/ SyncBatch(w) \/ SyncFails(w) \/ Publish(w) \/ Resolve(w)

TruncateStep ==
    \/ TruncatePark \/ TruncateNoop \/ TakeSlot \/ WriteTmp \/ WriteTmpFails
    \/ SwapFile \/ SwapFails \/ FinishTruncate

Next ==
    \/ \E w \in Writer :
          \/ BeginWrite(w)
          \/ \E s \in Status : Enqueue(w, s)
          \/ WriterStep(w)
    \/ CaptureFloor
    \/ TruncateStep
    \/ Crash
    \/ Open

Spec == Init /\ [][Next]_vars

\* A thread inside append or truncate_below keeps running; nobody is obliged to
\* start a transaction or a truncation, and nothing obliges a crash.
Fairness ==
    /\ \A w \in Writer : WF_vars(WriterStep(w))
    /\ WF_vars(TruncateStep)

FairSpec == Spec /\ Fairness

-----------------------------------------------------------------------------
(* Properties *)

\* "fsynced before return": a record whose append returned Ok is in the file
\* (or was dropped by a truncation), whatever crashed since.
AckedIsDurable == \A r \in acked : r.tx < disk_min \/ r \in disk

\* "a reader can never see a committed status for a TX whose fsync hasn't
\* landed": the in-memory map holds only records that an fsync has covered.
VisibleIsDurable == \A r \in map : r.tx < disk_min \/ r \in disk

\* Every record the clog holds or has reported.
Everywhere == pending \cup batch \cup limbo \cup disk \cup map \cup acked

\* No transaction is recorded both as committed and as rolled back, anywhere
\* between the queue and the file.
OneOutcome == \A r, s \in Everywhere : r.tx = s.tx => r = s

\* truncate_below, "no concurrent append introduces a below-floor record": a
\* record queued, being written or in the file is never below the floor.
NoRecordBelowFloor ==
    \A r \in pending \cup batch \cup limbo \cup disk : r.tx >= disk_min

\* The flushing flag is a lock: it is set exactly while one thread, a leader
\* or the truncating reclaimer, owns the file.
SlotExclusive ==
    /\ flushing <=> (\E w \in Writer : pc[w] \in Leading) \/ tpc \in Truncating
    /\ \A v, w \in Writer : pc[v] \in Leading /\ pc[w] \in Leading => v = w
    /\ \A w \in Writer : ~(pc[w] \in Leading /\ tpc \in Truncating)

\* What a reader is told about a transaction: by the map while the process
\* runs, by the next open when it does not.
Answer(t) == IF up THEN StatusOf(t) ELSE StatusIn(disk, disk_min, t)

\* A transaction once reported committed stays committed, across flushes,
\* truncations, crashes and reopens; one reported rolled back stays so until
\* a truncation forgets it.
AnswerIsFinal ==
    [][\A t \in Tx :
          /\ Answer(t) = "Committed" => Answer(t)' = "Committed"
          /\ Answer(t) = "RolledBack" =>
                Answer(t)' = "RolledBack" \/ t < disk_min']_vars

\* The handle is gone while the process runs.
HandleLost == up /\ ~handle

\* Every call of append returns: no follower sleeps through its notification
\* and no flush slot is left taken, whatever single operation fails.  Only when
\* both reopens of truncate_below failed does the code leave the slot taken.
AppendReturns ==
    \A w \in Writer : pc[w] \in Waiting ~> (pc[w] \notin Waiting \/ HandleLost)

\* The commit log as its callers see it.
Abstract == INSTANCE CommitLog
              WITH outcome <- [t \in Tx |-> StatusIn(disk, disk_min, t)],
                   floor <- disk_min,
                   told <- acked

\* Group commit, crashes and truncation implement the abstract commit log.
ImplementsCommitLog == Abstract!Spec
=============================================================================
