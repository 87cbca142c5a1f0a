-------------------------------- MODULE Pager -------------------------------
(***************************************************************************)
(* The pager, its shared buffer pool and the write-ahead logs:             *)
(* storage/pager.rs and storage/wal.rs.                                    *)
(*                                                                         *)
(* Every connection has a Pager of its own with a WAL file of its own; all *)
(* of them share the database file, the pool of cached pages and the       *)
(* header (SharedMeta).  A statement reads and rewrites pages in the pool, *)
(* allocates and frees pages, and ends with commit or rollback.  A page    *)
(* holds the rows of the statements that wrote to it, or, when it is free, *)
(* the number of the next free page.                                       *)
(*                                                                         *)
(* Actions are the critical sections of the pool's and the header's        *)
(* mutexes and the file operations of a commit.  The process may be killed *)
(* (the files keep what was written) or lose power (an unsynced record is  *)
(* kept, torn or replaced by what was there before) at every step.         *)
(***************************************************************************)
EXTENDS Integers, FiniteSets, Sequences, FiniteSetsExt

CONSTANTS
    Pagers,         \* the connections
    MaxPage,        \* bound: data pages are 1..MaxPage
    FirstFree,      \* pages below it exist from the start
    StoreWorkloads, \* per workload: the pages each pager writes, the size of the
                    \* pool, what may happen, bounds on statements, rows and crashes
    MaxStmt,        \* bound on statements in every workload
    MaxRowNo,       \* bound on rows in every workload
    MaxCrash        \* bound on crashes in every workload

Happenings == {"rollback", "kill", "power", "alloc", "free", "rewrite"}

ASSUME PagerConstants ==
    /\ MaxPage \in Nat /\ FirstFree \in 1..(MaxPage + 1)
    /\ StoreWorkloads \subseteq [writes : [Pagers -> SUBSET (1..MaxPage)],
                                 capacity : Nat \ {0},
                                 events : SUBSET Happenings,
                                 stmts : 0..MaxStmt, rows : 0..MaxRowNo,
                                 crashes : 0..MaxCrash]
    /\ MaxStmt \in Nat /\ MaxRowNo \in Nat /\ MaxCrash \in Nat
    /\ "unlocked" \notin Pagers

VARIABLES
    store_load, \* the workload, chosen once
    \* files
    file,       \* the data pages
    header,     \* page 0
    wal,        \* per pager, the records of its log as the system shows them
    wal_synced, \* per pager, the records an fsync has covered
    \* shared memory
    pool,       \* the cached pages
    meta,       \* SharedMeta: the header in memory
    apply_lock, \* its holder
    \* pagers
    stage,      \* where a pager's statement is
    stmt_no,    \* its number
    cursor,     \* the records of the log that belong to it
    wal_index, dirty_pages, allocated_pages, pending_freelist,
    \* the process
    orphans,    \* logs found by the open that have not been replayed yet
    running,    \* whether the open has finished
    crashes,
    \* history
    next_stmt, next_row,
    wrote,      \* the rows each statement wrote, with their pages
    acked,      \* statements whose commit returned Ok
    undone      \* statements that were rolled back

diskVars    == <<file, header, wal, wal_synced>>
sharedVars  == <<pool, meta, apply_lock>>
localVars   == <<stage, stmt_no, cursor, wal_index, dirty_pages,
                 allocated_pages, pending_freelist>>
processVars == <<orphans, running, crashes>>
storeHist   == <<next_stmt, next_row, wrote, acked, undone>>
storeVars   == <<store_load, diskVars, sharedVars, localVars, processVars,
                 storeHist>>

Page    == 1..MaxPage
StmtId  == 1..MaxStmt
RowNo   == 1..MaxRowNo
Image   == [rows : SUBSET RowNo, next : 0..MaxPage]
ZeroPage == [rows |-> {}, next |-> 0]
Meta    == [page_count : 1..(MaxPage + 1), freelist_head : 0..MaxPage]
Frame   == [image : Image, dirty : BOOLEAN]
Absent  == [image |-> ZeroPage, absent |-> TRUE]
Unlocked == "unlocked"
MaxRecord == 2 * MaxPage + 1

\* Log records: a page image, the commit marker with its record count, and what
\* is left of a record that fails its CRC.
PageRecord(no, image) == [tag |-> "page", no |-> no, image |-> image, count |-> 0]
CommitRecord(n) == [tag |-> "commit", no |-> 0, image |-> ZeroPage, count |-> n]
TornRecord == [tag |-> "torn", no |-> 0, image |-> ZeroPage, count |-> 0]
Record == [tag : {"page", "commit", "torn"}, no : 0..MaxPage, image : Image,
           count : 0..MaxRecord]

StoreTypeOK ==
    /\ store_load \in StoreWorkloads
    /\ file \in [Page -> Image] /\ header \in Meta /\ meta \in Meta
    /\ \A p \in Pagers : /\ \A i \in DOMAIN wal[p] : wal[p][i] \in Record
                         /\ \A i \in DOMAIN wal_synced[p] : wal_synced[p][i] \in Record
    /\ pool \in [Page -> Frame \cup {Absent}]
    /\ apply_lock \in Pagers \cup {Unlocked}
    /\ stage \in [Pagers -> {"idle", "exec", "flush", "seal", "apply", "header",
                             "reset", "clean"}]
    /\ stmt_no \in [Pagers -> 0..MaxStmt]
    /\ \A p \in Pagers : cursor[p] \in 0..Len(wal[p]) /\ Len(wal[p]) <= MaxRecord
    /\ wal_index \in [Pagers -> [Page -> 0..MaxRecord]]
    /\ dirty_pages \in [Pagers -> SUBSET Page]
    /\ allocated_pages \in [Pagers -> SUBSET Page]
    /\ pending_freelist \in [Pagers -> SUBSET Page]
    /\ orphans \subseteq Pagers /\ running \in BOOLEAN /\ crashes \in 0..MaxCrash
    /\ next_stmt \in 1..(MaxStmt + 1) /\ next_row \in 1..(MaxRowNo + 1)
    /\ wrote \in [StmtId -> SUBSET (Page \X RowNo)]
    /\ acked \subseteq StmtId /\ undone \subseteq StmtId

NoIndex == [no \in Page |-> 0]

StoreInit ==
    /\ store_load \in StoreWorkloads
    /\ file = [no \in Page |-> ZeroPage]
    /\ header = [page_count |-> FirstFree, freelist_head |-> 0]
    /\ meta = header
    /\ wal = [p \in Pagers |-> <<>>] /\ wal_synced = wal
    /\ pool = [no \in Page |-> Absent]
    /\ apply_lock = Unlocked
    /\ stage = [p \in Pagers |-> "idle"]
    /\ stmt_no = [p \in Pagers |-> 0]
    /\ cursor = [p \in Pagers |-> 0]
    /\ wal_index = [p \in Pagers |-> NoIndex]
    /\ dirty_pages = [p \in Pagers |-> {}]
    /\ allocated_pages = [p \in Pagers |-> {}]
    /\ pending_freelist = [p \in Pagers |-> {}]
    /\ orphans = {} /\ running = TRUE /\ crashes = 0
    /\ next_stmt = 1 /\ next_row = 1
    /\ wrote = [s \in StmtId |-> {}]
    /\ acked = {} /\ undone = {}

Happens(event) == event \in store_load.events

-----------------------------------------------------------------------------
(* The write-ahead log: wal.rs *)

\* The log after writing record rec behind the first n records.  The records of
\* an abandoned statement stay behind it.
WriteAt(log, n, rec) == [i \in 1..Max({Len(log), n + 1}) |->
                            IF i = n + 1 THEN rec ELSE log[i]]

\* The records in front of the first one that is not a page image.
PageRun(log) == {i \in DOMAIN log : \A j \in 1..i : log[j].tag = "page"}

\* Wal::scan: a run of intact page images closed by a marker with their number.
Scan(log) ==
    LET n == Cardinality(PageRun(log))
    IN  n < Len(log) /\ log[n + 1].tag = "commit" /\ log[n + 1].count = n

\* Wal::apply: the images copied into the pages in log order.
Replay(pages, log) ==
    [no \in Page |->
        LET images == {i \in PageRun(log) : log[i].no = no}
        IN  IF images = {} THEN pages[no] ELSE log[Max(images)].image]

\* What a crash during apply leaves: some of the pages copied.
PartialReplays(pages, log) ==
    {[no \in Page |-> IF no \in done THEN Replay(pages, log)[no] ELSE pages[no]]
        : done \in SUBSET {log[i].no : i \in PageRun(log)}}

-----------------------------------------------------------------------------
(* The buffer pool *)

Resident == {no \in Page : pool[no] # Absent}

\* BufferPool::put: the pool with page no admitted, and the page that left it.
\* The CLOCK hand may stop at any slot; no pin is held between two accesses.
Put(no, image, dirty) ==
    IF no \in Resident
      THEN {[pool |-> [pool EXCEPT ![no] =
                 [image |-> image, dirty |-> pool[no].dirty \/ dirty]],
             evicted |-> 0]}
      ELSE LET admitted == [pool EXCEPT ![no] = [image |-> image, dirty |-> dirty]]
           IN  IF Cardinality(Resident) < store_load.capacity
                 THEN {[pool |-> admitted, evicted |-> 0]}
                 ELSE {[pool |-> [admitted EXCEPT ![v] = Absent], evicted |-> v]
                          : v \in Resident}

\* Pager::admit: a dirty page that leaves the pool goes to this pager's log.
Admit(p, no, image, dirty) ==
    \E put \in Put(no, image, dirty) :
        /\ pool' = put.pool
        /\ IF put.evicted # 0 /\ pool[put.evicted].dirty
             THEN /\ wal' = [wal EXCEPT ![p] = WriteAt(@, cursor[p],
                                PageRecord(put.evicted, pool[put.evicted].image))]
                  /\ cursor' = [cursor EXCEPT ![p] = @ + 1]
                  /\ wal_index' = [wal_index EXCEPT
                                      ![p][put.evicted] = cursor[p] + 1]
             ELSE UNCHANGED <<wal, cursor, wal_index>>

\* Pager::read_page: from the pool, else from this pager's log, else from the file.
ReadPage(p, no) ==
    IF no \in Resident THEN pool[no].image
    ELSE IF wal_index[p][no] # 0 THEN wal[p][wal_index[p][no]].image
    ELSE file[no]

\* Pager::write_page.
WritePage(p, no, image) ==
    /\ Admit(p, no, image, TRUE)
    /\ dirty_pages' = [dirty_pages EXCEPT ![p] = @ \cup {no}]

\* A page as a reader without writes of its own sees it.
Shown(no) == IF no \in Resident THEN pool[no].image ELSE file[no]

\* The pages on the shared free list, following the links from its head.
FreePages ==
    LET reach[n \in 0..MaxPage] ==
            IF n = 0 THEN {meta.freelist_head} \ {0}
            ELSE reach[n - 1] \cup ({Shown(no).next : no \in reach[n - 1]} \ {0})
    IN  reach[MaxPage]

-----------------------------------------------------------------------------
(* Statements *)

\* A statement starts on an idle pager.
BeginStatement(p) ==
    /\ running /\ stage[p] = "idle" /\ next_stmt <= store_load.stmts
    /\ stage' = [stage EXCEPT ![p] = "exec"]
    /\ stmt_no' = [stmt_no EXCEPT ![p] = next_stmt]
    /\ next_stmt' = next_stmt + 1
    /\ UNCHANGED <<store_load, diskVars, sharedVars, cursor, wal_index,
                   dirty_pages, allocated_pages, pending_freelist, processVars,
                   next_row, wrote, acked, undone>>

\* The row that the statement adds to page no.
NoteRow(p, no) ==
    /\ next_row' = next_row + 1
    /\ wrote' = [wrote EXCEPT ![stmt_no[p]] = @ \cup {<<no, next_row>>}]

\* Under the page's latch: read the page, add a row, write it back.
AddRow(p, no) ==
    /\ stage[p] = "exec" /\ next_row <= store_load.rows
    /\ no \in store_load.writes[p] /\ no < meta.page_count
    /\ Happens("rewrite") \/ wal_index[p][no] = 0
    /\ no \notin FreePages /\ no \notin UNION {pending_freelist[q] : q \in Pagers}
    /\ LET image == ReadPage(p, no)
       IN  WritePage(p, no, [image EXCEPT !.rows = @ \cup {next_row}])
    /\ NoteRow(p, no)
    /\ UNCHANGED <<store_load, file, header, wal_synced, meta, apply_lock, stage,
                   stmt_no, allocated_pages, pending_freelist, processVars,
                   next_stmt, acked, undone>>

\* Mutant: the head of the free list is handed out and stays there.
NextPage_KeepsHead(p) ==
    {[no |-> IF meta.freelist_head # 0 THEN meta.freelist_head
                                       ELSE meta.page_count,
      meta |-> [meta EXCEPT !.page_count =
                   IF meta.freelist_head # 0 THEN @ ELSE @ + 1]]}

\* Pager::alloc_page: the next page for p and what the header is then.  A page
\* that p allocated and rolled back comes first, then the free list, then a new one.
NextPage(p) ==
    IF pending_freelist[p] # {}
      THEN {[no |-> no, meta |-> meta] : no \in pending_freelist[p]}
    ELSE IF meta.freelist_head # 0
      THEN {[no |-> meta.freelist_head,
             meta |-> [meta EXCEPT !.freelist_head =
                          ReadPage(p, meta.freelist_head).next]]}
      ELSE {[no |-> meta.page_count,
             meta |-> [meta EXCEPT !.page_count = @ + 1]]}

\* A statement takes a page and puts a row on it, as a split or CREATE does.
AllocPage(p) ==
    /\ stage[p] = "exec" /\ Happens("alloc") /\ next_row <= store_load.rows
    /\ \E new \in NextPage(p) :
          /\ new.no <= MaxPage
          /\ WritePage(p, new.no, [rows |-> {next_row}, next |-> 0])
          /\ meta' = new.meta
          /\ pending_freelist' = [pending_freelist EXCEPT ![p] = @ \ {new.no}]
          /\ allocated_pages' = [allocated_pages EXCEPT ![p] = @ \cup {new.no}]
          /\ NoteRow(p, new.no)
    /\ UNCHANGED <<store_load, file, header, wal_synced, apply_lock, stage, stmt_no,
                   processVars, next_stmt, acked, undone>>

\* Pager::free_page, for a page whose rows the statement has moved away.
FreePage(p, no) ==
    /\ stage[p] = "exec" /\ Happens("free")
    /\ no \in store_load.writes[p] /\ no < meta.page_count
    /\ ReadPage(p, no).rows # {}
    /\ WritePage(p, no, [rows |-> {}, next |-> meta.freelist_head])
    /\ meta' = [meta EXCEPT !.freelist_head = no]
    /\ wrote' = [s \in StmtId |-> {w \in wrote[s] : w[1] # no}]
    /\ UNCHANGED <<store_load, file, header, wal_synced, apply_lock, stage, stmt_no,
                   allocated_pages, pending_freelist, processVars, next_stmt,
                   next_row, acked, undone>>

\* Pager::rollback.  SharedMeta keeps its changes and the log its bytes.
Rollback(p) ==
    /\ stage[p] = "exec" /\ Happens("rollback")
    /\ pool' = [no \in Page |-> IF no \in dirty_pages[p] THEN Absent ELSE pool[no]]
    /\ pending_freelist' = [pending_freelist EXCEPT ![p] = @ \cup allocated_pages[p]]
    /\ allocated_pages' = [allocated_pages EXCEPT ![p] = {}]
    /\ dirty_pages' = [dirty_pages EXCEPT ![p] = {}]
    /\ wal_index' = [wal_index EXCEPT ![p] = NoIndex]
    /\ cursor' = [cursor EXCEPT ![p] = 0]
    /\ stage' = [stage EXCEPT ![p] = "idle"]
    /\ undone' = undone \cup {stmt_no[p]}
    /\ UNCHANGED <<store_load, diskVars, meta, apply_lock, stmt_no, processVars,
                   next_stmt, next_row, wrote, acked>>

-----------------------------------------------------------------------------
(* Pager::commit *)

\* Nothing to write: commit returns at once.
CommitNothing(p) ==
    /\ stage[p] = "exec" /\ dirty_pages[p] = {} /\ wal_index[p] = NoIndex
    /\ stage' = [stage EXCEPT ![p] = "idle"]
    /\ acked' = acked \cup {stmt_no[p]}
    /\ UNCHANGED <<store_load, diskVars, sharedVars, stmt_no, cursor, wal_index,
                   dirty_pages, allocated_pages, pending_freelist, processVars,
                   next_stmt, next_row, wrote, undone>>

\* Mutant: commits do not exclude each other (the race fixed in v0.52).
LockApply_NoLock(p) ==
    /\ stage[p] = "exec" /\ (dirty_pages[p] # {} \/ wal_index[p] # NoIndex)
    /\ stage' = [stage EXCEPT ![p] = "flush"]
    /\ UNCHANGED <<store_load, diskVars, sharedVars, stmt_no, cursor, wal_index,
                   dirty_pages, allocated_pages, pending_freelist, processVars,
                   storeHist>>

\* commit_apply takes the apply lock.
LockApply(p) ==
    /\ stage[p] = "exec" /\ (dirty_pages[p] # {} \/ wal_index[p] # NoIndex)
    /\ apply_lock = Unlocked
    /\ apply_lock' = p
    /\ stage' = [stage EXCEPT ![p] = "flush"]
    /\ UNCHANGED <<store_load, diskVars, pool, meta, stmt_no, cursor, wal_index,
                   dirty_pages, allocated_pages, pending_freelist, processVars,
                   storeHist>>

\* The dirty pages that are not in the log yet: those spilled are, the others get
\* there one by one in an order the hash set decides.
Unflushed(p) ==
    {no \in dirty_pages[p] :
        /\ wal_index[p][no] = 0
        /\ \A i \in 1..cursor[p] : wal[p][i].no # no}

\* Mutant: the data pages are written before the log is sealed.
FlushPage_WritesThrough(p, no) ==
    /\ stage[p] = "flush" /\ no \in Unflushed(p) /\ no \in Resident
    /\ wal' = [wal EXCEPT ![p] = WriteAt(@, cursor[p], PageRecord(no, pool[no].image))]
    /\ file' = [file EXCEPT ![no] = pool[no].image]
    /\ cursor' = [cursor EXCEPT ![p] = @ + 1]
    /\ UNCHANGED <<store_load, header, wal_synced, sharedVars, stage, stmt_no,
                   wal_index, dirty_pages, allocated_pages, pending_freelist,
                   processVars, storeHist>>

\* One page of the flush loop.  Peers go on writing to the pool meanwhile.
FlushPage(p, no) ==
    /\ stage[p] = "flush" /\ no \in Unflushed(p) /\ no \in Resident
    /\ wal' = [wal EXCEPT ![p] = WriteAt(@, cursor[p], PageRecord(no, pool[no].image))]
    /\ cursor' = [cursor EXCEPT ![p] = @ + 1]
    /\ UNCHANGED <<store_load, file, header, wal_synced, sharedVars, stage, stmt_no,
                   wal_index, dirty_pages, allocated_pages, pending_freelist,
                   processVars, storeHist>>

\* Wal::seal: the marker, then fsync.
Seal(p) ==
    /\ stage[p] = "flush" /\ Unflushed(p) = {}
    /\ wal' = [wal EXCEPT ![p] = WriteAt(@, cursor[p], CommitRecord(cursor[p]))]
    /\ wal_synced' = [wal_synced EXCEPT ![p] = wal'[p]]
    /\ cursor' = [cursor EXCEPT ![p] = @ + 1]
    /\ stage' = [stage EXCEPT ![p] = "apply"]
    /\ UNCHANGED <<store_load, file, header, sharedVars, stmt_no, wal_index,
                   dirty_pages, allocated_pages, pending_freelist, processVars,
                   storeHist>>

\* Wal::apply with its fsync; Crash says what an interrupted one leaves.
Apply(p) ==
    /\ stage[p] = "apply"
    /\ file' = Replay(file, wal[p])
    /\ stage' = [stage EXCEPT ![p] = "header"]
    /\ UNCHANGED <<store_load, header, wal, wal_synced, sharedVars, stmt_no, cursor,
                   wal_index, dirty_pages, allocated_pages, pending_freelist,
                   processVars, storeHist>>

\* The header as it is now goes to page 0, outside the log; then the apply lock is
\* released.
WriteHeader(p) ==
    /\ stage[p] = "header"
    /\ header' = meta
    /\ apply_lock' = Unlocked
    /\ stage' = [stage EXCEPT ![p] = "reset"]
    /\ UNCHANGED <<store_load, file, wal, wal_synced, pool, meta, stmt_no, cursor,
                   wal_index, dirty_pages, allocated_pages, pending_freelist,
                   processVars, storeHist>>

\* Mutant: the file is truncated, the write position is not.
ResetWal_KeepsCursor(p) ==
    /\ stage[p] = "reset"
    /\ wal' = [wal EXCEPT ![p] = <<>>]
    /\ wal_synced' = [wal_synced EXCEPT ![p] = <<>>]
    /\ stage' = [stage EXCEPT ![p] = "clean"]
    /\ UNCHANGED <<store_load, file, header, sharedVars, stmt_no, cursor, wal_index,
                   dirty_pages, allocated_pages, pending_freelist, processVars,
                   storeHist>>

\* Wal::reset.
ResetWal(p) ==
    /\ stage[p] = "reset"
    /\ wal' = [wal EXCEPT ![p] = <<>>]
    /\ wal_synced' = [wal_synced EXCEPT ![p] = <<>>]
    /\ cursor' = [cursor EXCEPT ![p] = 0]
    /\ stage' = [stage EXCEPT ![p] = "clean"]
    /\ UNCHANGED <<store_load, file, header, sharedVars, stmt_no, wal_index,
                   dirty_pages, allocated_pages, pending_freelist, processVars,
                   storeHist>>

\* The pages of the statement are marked clean, and commit returns Ok.
MarkClean(p) ==
    /\ stage[p] = "clean"
    /\ pool' = [no \in Page |->
                   IF no \in dirty_pages[p] \cap Resident
                     THEN [pool[no] EXCEPT !.dirty = FALSE] ELSE pool[no]]
    /\ dirty_pages' = [dirty_pages EXCEPT ![p] = {}]
    /\ allocated_pages' = [allocated_pages EXCEPT ![p] = {}]
    /\ wal_index' = [wal_index EXCEPT ![p] = NoIndex]
    /\ stage' = [stage EXCEPT ![p] = "idle"]
    /\ acked' = acked \cup {stmt_no[p]}
    /\ UNCHANGED <<store_load, diskVars, meta, apply_lock, stmt_no, cursor,
                   pending_freelist, processVars, next_stmt, next_row, wrote,
                   undone>>

-----------------------------------------------------------------------------
(* Crash and recovery *)

\* The log of p with what it may be writing: a pager at the end of its flush may
\* have written the marker, one about to reset its log may have truncated it.
LogsInFlight(p) ==
    {wal[p]}
    \cup {log \in {WriteAt(wal[p], cursor[p], CommitRecord(cursor[p]))} :
             stage[p] = "flush" /\ Unflushed(p) = {}}
    \cup {log \in {<<>>} : stage[p] = "reset"}

\* What is left of a record after a power failure.
Remains(p, log, i) ==
    IF i \notin DOMAIN wal_synced[p] THEN {log[i], TornRecord}
    ELSE IF wal_synced[p][i] = log[i] THEN {log[i]}
    ELSE {log[i], wal_synced[p][i], TornRecord}

\* What is left of a log.
SurvivingLogs(p, power) ==
    IF ~power THEN LogsInFlight(p)
    ELSE UNION {{left \in [DOMAIN log -> UNION {Remains(p, log, i) : i \in DOMAIN log}] :
                    \A i \in DOMAIN log : left[i] \in Remains(p, log, i)}
                   : log \in LogsInFlight(p)}

\* The process ends, in the middle of a commit or of a recovery if one is under
\* way.  Memory is lost; an interrupted apply has copied some pages.
Crash(power) ==
    /\ crashes < store_load.crashes /\ Happens(IF power THEN "power" ELSE "kill")
    /\ crashes' = crashes + 1
    /\ wal' \in {logs \in [Pagers -> UNION {SurvivingLogs(p, power) : p \in Pagers}] :
                   \A p \in Pagers : logs[p] \in SurvivingLogs(p, power)}
    /\ wal_synced' = wal'
    /\ LET applying == {p \in Pagers : stage[p] = "apply"}
                         \cup {p \in orphans : Scan(wal[p])}
       IN  file' \in {file} \cup UNION {PartialReplays(file, wal[p]) : p \in applying}
    /\ header' \in {header} \cup {m \in {meta} : \E p \in Pagers : stage[p] = "header"}
    /\ orphans' = Pagers /\ running' = FALSE
    /\ pool' = [no \in Page |-> Absent]
    /\ apply_lock' = Unlocked
    /\ stage' = [p \in Pagers |-> "idle"]
    /\ cursor' = [p \in Pagers |-> 0]
    /\ wal_index' = [p \in Pagers |-> NoIndex]
    /\ dirty_pages' = [p \in Pagers |-> {}]
    /\ allocated_pages' = [p \in Pagers |-> {}]
    /\ pending_freelist' = [p \in Pagers |-> {}]
    /\ UNCHANGED <<store_load, meta, stmt_no, storeHist>>

\* Wal::recover on one log that the directory lists, in any order.
RecoverWal(p) ==
    /\ p \in orphans
    /\ file' = IF Scan(wal[p]) THEN Replay(file, wal[p]) ELSE file
    /\ wal' = [wal EXCEPT ![p] = <<>>]
    /\ wal_synced' = [wal_synced EXCEPT ![p] = <<>>]
    /\ orphans' = orphans \ {p}
    /\ UNCHANGED <<store_load, header, sharedVars, localVars, running, crashes,
                   storeHist>>

\* open_with_pool reads the header and the process is up again.
OpenDone ==
    /\ ~running /\ orphans = {}
    /\ meta' = header
    /\ running' = TRUE
    /\ UNCHANGED <<store_load, diskVars, pool, apply_lock, localVars, orphans,
                   crashes, storeHist>>

StoreNext ==
    \/ \E p \in Pagers :
          \/ BeginStatement(p) \/ AllocPage(p) \/ Rollback(p)
          \/ CommitNothing(p) \/ LockApply(p) \/ Seal(p) \/ Apply(p)
          \/ WriteHeader(p) \/ ResetWal(p) \/ MarkClean(p) \/ RecoverWal(p)
          \/ \E no \in Page : AddRow(p, no) \/ FreePage(p, no) \/ FlushPage(p, no)
    \/ \E power \in BOOLEAN : Crash(power)
    \/ OpenDone

StoreSpec == StoreInit /\ [][StoreNext]_storeVars

-----------------------------------------------------------------------------
(* Properties *)

\* Statements that have not ended.
Executing == {stmt_no[p] : p \in {q \in Pagers : stage[q] # "idle"}}

\* Once Pager::commit has returned Ok, every row of the statement is in the file,
\* on a page the header covers, whatever peers commit, spill or roll back later and
\* wherever the process stops (pager.rs, commit and commit_apply).
AckedRowsInFile ==
    \A s \in acked : \A w \in wrote[s] :
        /\ w[2] \in file[w[1]].rows
        /\ w[1] < header.page_count
        /\ running => w[2] \in Shown(w[1]).rows

\* A statement that has ended, by commit, rollback or crash, is there with all its
\* rows on readable pages or with none; a rolled-back one with none.
StatementAtomic ==
    running => \A s \in StmtId \ Executing :
        LET present == {w \in wrote[s] : /\ w[1] < meta.page_count
                                         /\ w[2] \in Shown(w[1]).rows}
        IN  present = {} \/ (present = wrote[s] /\ s \notin undone)

\* A page that the allocator may hand out, from the shared list or from a pager's
\* own, holds no row and is offered in one place only.
FreePagesHoldNothing ==
    running =>
        /\ \A no \in FreePages \cup UNION {pending_freelist[p] : p \in Pagers} :
              Shown(no).rows = {}
        /\ \A p \in Pagers : pending_freelist[p] \cap FreePages = {}
        /\ \A p, q \in Pagers : p # q => pending_freelist[p] \cap pending_freelist[q] = {}
=============================================================================
