----------------------------- MODULE PagerProofs -----------------------------
(***************************************************************************)
(* Theorems about Pager: what commit has acknowledged is in the file and   *)
(* stays there, and a statement is there whole or not at all, wherever the *)
(* process stops and however often recovery is interrupted.                *)
(***************************************************************************)
EXTENDS Pager, FiniteSetTheorems, SequenceTheorems, TLAPS

-----------------------------------------------------------------------------
(* The workloads the theorems speak of *)

Crashing == Happens("kill") \/ Happens("power")
Risky    == Happens("rollback") \/ Crashing

\* Nothing is evicted: the pool holds every page there can be.  No page is freed.
\* Where statements roll back or the process may stop, connections write pages of their
\* own that exist from the start; where it may stop, no page is allocated.
Sheltered ==
    /\ store_load.capacity >= IF Happens("alloc") THEN MaxPage ELSE FirstFree - 1
    /\ ~Happens("free")
    /\ Risky => /\ \A p \in Pagers : store_load.writes[p] \subseteq 1..(FirstFree - 1)
                /\ \A p, q \in Pagers :
                      p # q => store_load.writes[p] \cap store_load.writes[q] = {}
    /\ Crashing => ~Happens("alloc")

-----------------------------------------------------------------------------
(* The inductive invariant *)

LogRecord == [tag : {"page", "commit", "torn"}, no : 0..MaxPage, image : Image, count : Nat]

TypeInv ==
    /\ store_load \in StoreWorkloads
    /\ file \in [Page -> Image] /\ header \in Meta /\ meta \in Meta
    /\ wal \in [Pagers -> Seq(LogRecord)] /\ wal_synced \in [Pagers -> Seq(LogRecord)]
    /\ pool \in [Page -> Frame \cup {Absent}]
    /\ apply_lock \in Pagers \cup {Unlocked}
    /\ stage \in [Pagers -> {"idle", "exec", "flush", "seal", "apply", "header",
                             "reset", "clean"}]
    /\ stmt_no \in [Pagers -> 0..MaxStmt] /\ cursor \in [Pagers -> Nat]
    /\ wal_index = [p \in Pagers |-> NoIndex]
    /\ dirty_pages \in [Pagers -> SUBSET Page]
    /\ allocated_pages \in [Pagers -> SUBSET Page]
    /\ pending_freelist \in [Pagers -> SUBSET Page]
    /\ orphans \subseteq Pagers /\ running \in BOOLEAN
    /\ next_stmt \in 1..(MaxStmt + 1) /\ next_row \in 1..(MaxRowNo + 1)
    /\ wrote \in [StmtId -> SUBSET (Page \X RowNo)]
    /\ acked \subseteq StmtId /\ undone \subseteq StmtId

\* The first k records are page images, of different pages.
Images(log, k) ==
    /\ \A i \in 1..k : log[i].tag = "page" /\ log[i].no \in Page
    /\ \A i, j \in 1..k : log[i].no = log[j].no => i = j

\* A log that recovery replays: k images and the marker that counts them.
Whole(log) ==
    \E k \in Nat : Len(log) = k + 1 /\ Images(log, k) /\ log[k + 1] = CommitRecord(k)

\* Where a pager's log stands.  Without evictions it is empty until the statement
\* commits, and what reset leaves behind is empty too.
LogInv ==
    /\ \A p \in Pagers :
          /\ running /\ stage[p] \in {"idle", "exec", "clean"} =>
                wal[p] = <<>> /\ wal_synced[p] = <<>>
          /\ stage[p] \in {"idle", "exec", "clean"} => cursor[p] = 0
          /\ stage[p] = "flush" =>
                /\ Len(wal[p]) = cursor[p] /\ Images(wal[p], cursor[p])
                /\ wal_synced[p] = <<>>
          /\ stage[p] \in {"apply", "header", "reset"} =>
                Whole(wal[p]) /\ wal_synced[p] = wal[p]
          /\ stage[p] # "seal"
          /\ ~running =>
                /\ stage[p] = "idle" /\ wal_synced[p] = wal[p]
                /\ Scan(wal[p]) => Whole(wal[p])
                /\ p \notin orphans => wal[p] = <<>>
    /\ running => orphans = {}
    /\ ~running => pool = [no \in Page |-> Absent]
    /\ ~Crashing => running

\* The apply lock is held from the flush to the header.
LockInv ==
    \A p \in Pagers : stage[p] \in {"flush", "apply", "header"} <=> apply_lock = p

\* A log that its pager is writing or that recovery will replay.
Live(p) == running \/ Scan(wal[p])

\* Record i of p's log is the image of page no.
Holds(p, i, no) == i \in DOMAIN wal[p] /\ wal[p][i].tag = "page" /\ wal[p][i].no = no

\* Which pages are in use, and by whom.
PageInv ==
    /\ meta.freelist_head = 0 /\ header.freelist_head = 0
    /\ header.page_count <= meta.page_count
    /\ ~Happens("alloc") => meta.page_count = FirstFree /\ header.page_count = FirstFree
    /\ \A no \in Page : no >= meta.page_count => pool[no] = Absent /\ file[no].rows = {}
    /\ meta.page_count >= FirstFree
    /\ ~Happens("rollback") => \A p \in Pagers : pending_freelist[p] = {}
    /\ \A p \in Pagers :
          /\ stage[p] = "idle" => dirty_pages[p] = {} /\ allocated_pages[p] = {}
          /\ \A no \in dirty_pages[p] : pool[no] # Absent /\ no < meta.page_count
          /\ Risky => dirty_pages[p] \subseteq store_load.writes[p] \cup allocated_pages[p]
          /\ \A no \in allocated_pages[p] \cup pending_freelist[p] :
                no >= FirstFree /\ no < meta.page_count
          /\ allocated_pages[p] \subseteq dirty_pages[p]
          /\ \A no \in pending_freelist[p] : pool[no] = Absent /\ file[no].rows = {}
          /\ Risky /\ stage[p] = "exec" => \A no \in allocated_pages[p] : file[no].rows = {}
    /\ \A p, q \in Pagers : p # q =>
          (allocated_pages[p] \cup pending_freelist[p])
             \cap (allocated_pages[q] \cup pending_freelist[q]) = {}
    /\ ~Happens("alloc") => \A p \in Pagers : allocated_pages[p] = {} /\ pending_freelist[p] = {}

\* What the file has of a page, a log that is being applied has, and what that has, the
\* pool has; records are of pages their pager has written.
ChainInv ==
    /\ \A no \in Page : pool[no] # Absent => file[no].rows \subseteq pool[no].image.rows
    /\ \A p \in Pagers, no \in Page : \A i \in DOMAIN wal[p] : Holds(p, i, no) =>
          /\ running => no \in dirty_pages[p]
          /\ Crashing /\ Live(p) => no \in store_load.writes[p]
          /\ stage[p] \in {"flush", "apply"} =>
                /\ file[no].rows \subseteq wal[p][i].image.rows
                /\ wal[p][i].image.rows \subseteq pool[no].image.rows
          /\ Risky /\ (stage[p] \in {"header", "reset"} \/ (~running /\ Scan(wal[p]))) =>
                file[no].rows \subseteq wal[p][i].image.rows

\* Statements and rows are numbered in the order they come.
NumberInv ==
    /\ \A s \in StmtId : s >= next_stmt => wrote[s] = {} /\ s \notin acked /\ s \notin undone
    /\ \A p \in Pagers : stage[p] # "idle" =>
          /\ stmt_no[p] \in StmtId /\ stmt_no[p] < next_stmt
          /\ stmt_no[p] \notin acked /\ stmt_no[p] \notin undone
    /\ \A p, q \in Pagers : stage[p] # "idle" /\ stage[q] # "idle" /\ p # q =>
          stmt_no[p] # stmt_no[q]
    /\ \A s \in StmtId : \A w \in wrote[s] : w[2] < next_row /\ w[1] < meta.page_count
    /\ \A no \in Page : \A r \in file[no].rows \cup pool[no].image.rows : r < next_row
    /\ \A p \in Pagers : Live(p) => \A i \in DOMAIN wal[p] :
          \A r \in wal[p][i].image.rows : r < next_row

\* A statement on its way: its rows are in the pool, from its flush on in its log, and
\* after its apply in the file.
ExecInv ==
    \A p \in Pagers : stage[p] # "idle" => \A w \in wrote[stmt_no[p]] :
        /\ w[1] \in dirty_pages[p] /\ w[2] \in pool[w[1]].image.rows
        /\ stage[p] \in {"flush", "apply"} =>
              \A i \in DOMAIN wal[p] : Holds(p, i, w[1]) => w[2] \in wal[p][i].image.rows
        /\ stage[p] = "apply" => \E i \in DOMAIN wal[p] : Holds(p, i, w[1])
        /\ stage[p] \in {"header", "reset", "clean"} => w[2] \in file[w[1]].rows
        /\ stage[p] \in {"reset", "clean"} => w[1] < header.page_count
        /\ Risky /\ stage[p] \in {"exec", "flush", "apply"} => w[2] \notin file[w[1]].rows

\* Whether a statement that has ended will be there once recovery is over, or not.
InDisk(s) ==
    \A w \in wrote[s] :
        /\ w[2] \in file[w[1]].rows
             \/ \E p \in Pagers : Scan(wal[p]) /\ \E i \in DOMAIN wal[p] : Holds(p, i, w[1])
        /\ \A p \in Pagers : Scan(wal[p]) => \A i \in DOMAIN wal[p] :
              Holds(p, i, w[1]) => w[2] \in wal[p][i].image.rows
InFile(s) == \A w \in wrote[s] : w[2] \in file[w[1]].rows
Out(s) ==
    \A w \in wrote[s] :
        /\ w[2] \notin file[w[1]].rows /\ w[2] \notin pool[w[1]].image.rows
        /\ \A p \in Pagers : Live(p) => \A i \in DOMAIN wal[p] :
              Holds(p, i, w[1]) => w[2] \notin wal[p][i].image.rows

EndInv ==
    /\ \A s \in acked : \A w \in wrote[s] : w[2] \in file[w[1]].rows /\ w[1] < header.page_count
    /\ Risky => \A s \in StmtId \ Executing :
          /\ (IF running THEN InFile(s) ELSE InDisk(s)) \/ Out(s)
          /\ s \in undone => Out(s)
    /\ ~Risky => undone = {} /\ \A s \in StmtId \ Executing : s \in acked \/ wrote[s] = {}

AllInv ==
    /\ Sheltered
    /\ TypeInv /\ LogInv /\ LockInv /\ PageInv /\ ChainInv /\ NumberInv /\ ExecInv /\ EndInv

PagerInv == Sheltered => AllInv

-----------------------------------------------------------------------------
(* Logs *)

LEMMA FunctionIsLog ==
  ASSUME NEW n \in Nat, NEW f \in [1..n -> LogRecord]
  PROVE  f \in Seq(LogRecord) /\ Len(f) = n /\ DOMAIN f = 1..n
<1>1. f \in Seq(LogRecord)
  BY SeqDef, Zenon
<1>2. DOMAIN f = 1..n
  OBVIOUS
<1>3. DOMAIN f = 1..Len(f) /\ Len(f) \in Nat
  BY <1>1
<1> QED
  BY <1>1, <1>2, <1>3

LEMMA LogShape ==
  ASSUME NEW log \in Seq(LogRecord)
  PROVE  /\ Len(log) \in Nat /\ DOMAIN log = 1..Len(log)
         /\ \A i \in DOMAIN log : log[i] \in LogRecord
  OBVIOUS

LEMMA RecordTypes ==
  /\ \A no \in Page, image \in Image : PageRecord(no, image) \in LogRecord
  /\ \A n \in Nat : CommitRecord(n) \in LogRecord
  /\ TornRecord \in LogRecord /\ ZeroPage \in Image
  BY PagerConstants
     DEF PageRecord, CommitRecord, TornRecord, LogRecord, Image, ZeroPage, Page

LEMMA MaxOfTwo == ASSUME NEW n \in Nat PROVE Max({n, n + 1}) = n + 1
<1>1. \A y \in {n, n + 1} : n + 1 >= y
  OBVIOUS
<1>2. \A x \in {n, n + 1} : (\A y \in {n, n + 1} : x >= y) => x = n + 1
  OBVIOUS
<1> QED
  BY <1>1, <1>2 DEF Max

\* Writing at the end of a log appends.
LEMMA WriteAtEnd ==
  ASSUME NEW log \in Seq(LogRecord), NEW rec \in LogRecord
  PROVE  LET new == WriteAt(log, Len(log), rec)
         IN  /\ new \in Seq(LogRecord) /\ Len(new) = Len(log) + 1
             /\ DOMAIN new = 1..(Len(log) + 1)
             /\ new[Len(log) + 1] = rec
             /\ \A i \in DOMAIN log : i \in DOMAIN new /\ new[i] = log[i]
<1> DEFINE n == Len(log)
           new == WriteAt(log, n, rec)
<1>1. n \in Nat /\ DOMAIN log = 1..n /\ \A i \in 1..n : log[i] \in LogRecord
  BY LogShape
<1>2. new = [i \in 1..(n + 1) |-> IF i = n + 1 THEN rec ELSE log[i]]
  BY <1>1, MaxOfTwo DEF WriteAt
<1> HIDE DEF n
<1>3. new \in [1..(n + 1) -> LogRecord]
  BY <1>1, <1>2
<1>4. new \in Seq(LogRecord) /\ Len(new) = n + 1 /\ DOMAIN new = 1..(n + 1)
  BY <1>1, <1>3, FunctionIsLog
<1>5. new[n + 1] = rec /\ \A i \in 1..n : i \in 1..(n + 1) /\ new[i] = log[i]
  BY <1>1, <1>2
<1> QED
  BY <1>1, <1>4, <1>5 DEF n

LEMMA EmptyScan == ~Scan(<<>>)
<1>1. PageRun(<<>>) = {}
  BY DEF PageRun
<1> QED
  BY <1>1, FS_EmptySet DEF Scan

\* A log of images and nothing else is not replayed.
LEMMA OpenScan ==
  ASSUME NEW log \in Seq(LogRecord), Images(log, Len(log)) PROVE ~Scan(log)
<1>1. Len(log) \in Nat /\ DOMAIN log = 1..Len(log)
  BY LogShape
<1>2. PageRun(log) = 1..Len(log)
  BY <1>1 DEF PageRun, Images
<1>3. Cardinality(PageRun(log)) = Len(log)
  BY <1>1, <1>2, FS_Interval
<1> QED
  BY <1>1, <1>3 DEF Scan

\* A whole log is replayed, up to its marker.
LEMMA WholeRun ==
  ASSUME NEW log \in Seq(LogRecord), NEW k \in Nat, Len(log) = k + 1, Images(log, k),
         log[k + 1] = CommitRecord(k)
  PROVE  PageRun(log) = 1..k /\ Scan(log)
<1>1. DOMAIN log = 1..(k + 1)
  BY LogShape
<1>2. log[k + 1].tag = "commit" /\ log[k + 1].count = k
  BY DEF CommitRecord
<1>3. ASSUME NEW i \in PageRun(log) PROVE i \in 1..k
  BY <1>1, <1>2 DEF PageRun
<1>4. ASSUME NEW i \in 1..k PROVE i \in PageRun(log)
  BY <1>1 DEF PageRun, Images
<1>5. PageRun(log) = 1..k
  BY <1>3, <1>4
<1>6. Cardinality(PageRun(log)) = k
  BY <1>5, FS_Interval
<1> QED
  BY <1>2, <1>5, <1>6 DEF Scan

\* Records that may be torn, with a marker at the end or none: what is replayed is intact.
LEMMA ScanIntact ==
  ASSUME NEW log \in Seq(LogRecord), NEW k \in Nat, Len(log) \in {k, k + 1},
         \A i \in 1..k : log[i].tag # "commit",
         Scan(log)
  PROVE  /\ Len(log) = k + 1 /\ log[k + 1].tag = "commit"
         /\ \A i \in 1..k : log[i].tag = "page"
<1> DEFINE n == Cardinality(PageRun(log))
<1>1. DOMAIN log = 1..Len(log)
  BY LogShape
<1>2. ASSUME NEW i \in PageRun(log)
      PROVE  i \in 1..(k + 1) /\ i \in DOMAIN log /\ log[i].tag = "page"
  <2>1. i \in DOMAIN log /\ \A j \in 1..i : log[j].tag = "page"
    BY DEF PageRun
  <2>2. Len(log) \in Nat /\ Len(log) <= k + 1
    OBVIOUS
  <2>3. i \in 1..Len(log)
    BY <1>1, <2>1
  <2>4. i \in 1..(k + 1) /\ i \in 1..i
    BY <2>2, <2>3
  <2> QED
    BY <2>1, <2>4
<1>3. IsFiniteSet(PageRun(log)) /\ n \in Nat
  <2>1. IsFiniteSet(1..(k + 1))
    BY FS_Interval
  <2>2. PageRun(log) \in SUBSET (1..(k + 1))
    BY <1>2
  <2> QED
    BY <2>1, <2>2, FS_Subset, FS_CardinalityType
<1>4. n < Len(log) /\ log[n + 1].tag = "commit"
  BY DEF Scan
<1> HIDE DEF n
<1>5. n = k /\ Len(log) = k + 1
  BY <1>3, <1>4
<1>6. log[k + 1].tag = "commit"
  BY <1>4, <1>5
<1>7. PageRun(log) \in SUBSET (1..k)
  BY <1>2, <1>6
<1>8. IsFiniteSet(1..k) /\ Cardinality(1..k) = k
  BY FS_Interval
<1>9. PageRun(log) = 1..k
  BY <1>5, <1>7, <1>8, FS_Subset DEF n
<1> QED
  BY <1>2, <1>5, <1>6, <1>9

\* What replaying a whole log does to one page.
LEMMA ReplayWhole ==
  ASSUME NEW log \in Seq(LogRecord), Whole(log), NEW pages, NEW no \in Page
  PROVE  /\ \A i \in DOMAIN log : log[i].tag = "page" /\ log[i].no = no =>
                Replay(pages, log)[no] = log[i].image
         /\ (\A i \in DOMAIN log : ~(log[i].tag = "page" /\ log[i].no = no)) =>
                Replay(pages, log)[no] = pages[no]
<1>1. PICK k \in Nat : Len(log) = k + 1 /\ Images(log, k) /\ log[k + 1] = CommitRecord(k)
  BY DEF Whole
<1>2. PageRun(log) = 1..k
  BY <1>1, WholeRun
<1>3. DOMAIN log = 1..(k + 1) /\ log[k + 1].tag # "page"
  BY <1>1, LogShape DEF CommitRecord
<1> DEFINE images == {i \in PageRun(log) : log[i].no = no}
<1>4. Replay(pages, log)[no] = IF images = {} THEN pages[no] ELSE log[Max(images)].image
  BY DEF Replay
<1>5. CASE images = {}
  <2>1. \A i \in DOMAIN log : ~(log[i].tag = "page" /\ log[i].no = no)
    BY <1>2, <1>3, <1>5
  <2> QED
    BY <1>4, <1>5, <2>1
<1>6. CASE images # {}
  <2>1. PICK i \in 1..k : log[i].no = no
    BY <1>2, <1>6
  <2>2. images = {i}
    BY <1>1, <1>2, <2>1 DEF Images
  <2>3. Max(images) = i
    <3>1. Max({i}) = i
      BY DEF Max
    <3> QED
      BY <2>2, <3>1
  <2>4. log[i].tag = "page" /\ i \in DOMAIN log
    BY <1>1, <1>3 DEF Images
  <2>5. \A j \in DOMAIN log : log[j].tag = "page" /\ log[j].no = no => j = i
    BY <1>2, <1>3, <2>2
  <2> QED
    BY <1>4, <1>6, <2>1, <2>3, <2>4, <2>5
<1> QED
  BY <1>5, <1>6

-----------------------------------------------------------------------------
(* The pool *)

LEMMA FrameIsThere == ASSUME NEW image, NEW dirty
                      PROVE  [image |-> image, dirty |-> dirty] # Absent
  BY DEF Absent

\* The largest page there can be.
LastPage == IF Happens("alloc") THEN MaxPage ELSE FirstFree - 1

LEMMA ResidentFit ==
  ASSUME TypeInv, PageInv
  PROVE  /\ LastPage \in 0..MaxPage /\ meta.page_count - 1 <= LastPage
         /\ Resident \subseteq 1..LastPage /\ IsFiniteSet(Resident)
         /\ Cardinality(Resident) \in Nat
         /\ \A no \in 1..LastPage \ Resident : Cardinality(Resident) < LastPage
<1>1. /\ MaxPage \in Nat /\ FirstFree \in 1..(MaxPage + 1)
      /\ meta.page_count \in 1..(MaxPage + 1)
  BY PagerConstants DEF TypeInv, Meta
<1>2. LastPage \in 0..MaxPage /\ meta.page_count - 1 <= LastPage
  BY <1>1 DEF LastPage, PageInv
<1>3. Resident \subseteq 1..LastPage
  BY <1>1, <1>2 DEF Resident, PageInv, Page
<1>4. IsFiniteSet(1..LastPage) /\ Cardinality(1..LastPage) = LastPage
  BY <1>2, FS_Interval
<1>5. /\ IsFiniteSet(Resident) /\ Cardinality(Resident) <= LastPage
      /\ Cardinality(Resident) = LastPage => Resident = 1..LastPage
  BY <1>3, <1>4, FS_Subset
<1>6. Cardinality(Resident) \in Nat
  BY <1>5, FS_CardinalityType
<1> QED
  BY <1>2, <1>3, <1>5, <1>6

\* Nothing leaves the pool when a page is admitted.
LEMMA PlainAdmit ==
  ASSUME TypeInv, PageInv, Sheltered, NEW p \in Pagers, NEW no \in 1..LastPage, NEW image,
         Admit(p, no, image, TRUE)
  PROVE  /\ pool' = [pool EXCEPT ![no] = [image |-> image, dirty |-> TRUE]]
         /\ UNCHANGED <<wal, cursor, wal_index>>
<1>1. no \in Page
  BY ResidentFit, PagerConstants DEF Page
<1>2. ASSUME NEW P, Put(no, image, TRUE) = {[pool |-> P, evicted |-> 0]}
      PROVE  pool' = P /\ UNCHANGED <<wal, cursor, wal_index>>
  <2>1. PICK put \in Put(no, image, TRUE) :
          /\ pool' = put.pool
          /\ put.evicted = 0 => UNCHANGED <<wal, cursor, wal_index>>
    BY DEF Admit
  <2>2. put = [pool |-> P, evicted |-> 0]
    BY <1>2, <2>1, Zenon
  <2>3. put.pool = P /\ put.evicted = 0
    BY <2>2
  <2> QED
    BY <2>1, <2>3
<1>3. CASE no \in Resident
  <2>1. pool[no].dirty \in BOOLEAN
    BY <1>1, <1>3 DEF TypeInv, Frame, Resident
  <2>2. Put(no, image, TRUE) =
          {[pool |-> [pool EXCEPT ![no] = [image |-> image, dirty |-> TRUE]], evicted |-> 0]}
    BY <1>3, <2>1 DEF Put
  <2> QED
    BY <2>2, <1>2
<1>4. CASE no \notin Resident
  <2>1. Cardinality(Resident) < store_load.capacity
    <3>1. store_load.capacity >= LastPage /\ store_load.capacity \in Nat
      BY PagerConstants DEF Sheltered, LastPage, TypeInv
    <3> QED
      BY <1>4, <3>1, ResidentFit
  <2>2. Put(no, image, TRUE) =
          {[pool |-> [pool EXCEPT ![no] = [image |-> image, dirty |-> TRUE]], evicted |-> 0]}
    BY <1>4, <2>1 DEF Put
  <2> QED
    BY <2>2, <1>2
<1> QED
  BY <1>3, <1>4

\* What AddRow and AllocPage have in common: the statement of p puts a row on page no.
Written(p, no) ==
    /\ stage[p] = "exec" /\ no \in Page /\ no < meta'.page_count
    /\ next_row \in RowNo /\ next_row' = next_row + 1
    /\ pool'[no] \in Frame /\ pool'[no] # Absent
    /\ pool'[no].image.rows = Shown(no).rows \cup {next_row}
    /\ \A m \in Page \ {no} : pool'[m] = pool[m]
    /\ pool' \in [Page -> Frame \cup {Absent}]
    /\ dirty_pages' = [dirty_pages EXCEPT ![p] = @ \cup {no}]
    /\ wrote' = [wrote EXCEPT ![stmt_no[p]] = @ \cup {<<no, next_row>>}]
    /\ meta' \in Meta /\ meta'.page_count >= meta.page_count /\ meta'.freelist_head = 0
    /\ Risky => \A q \in Pagers \ {p} : no \notin dirty_pages[q]
    /\ UNCHANGED <<store_load, file, header, wal, wal_synced, apply_lock, stage, stmt_no,
                   cursor, wal_index, processVars, next_stmt, acked, undone>>

LEMMA AddRowWrites ==
  ASSUME TypeInv, PageInv, Sheltered, NEW p \in Pagers, NEW no \in Page, AddRow(p, no)
  PROVE  /\ Written(p, no) /\ no \in store_load.writes[p]
         /\ UNCHANGED <<meta, allocated_pages, pending_freelist>>
<1> DEFINE image == ReadPage(p, no)
           new == [image EXCEPT !.rows = @ \cup {next_row}]
<1>0. /\ stage[p] = "exec" /\ next_row <= store_load.rows /\ no \in store_load.writes[p]
      /\ no < meta.page_count /\ WritePage(p, no, new) /\ NoteRow(p, no)
      /\ UNCHANGED <<store_load, file, header, wal_synced, meta, apply_lock, stage,
                     stmt_no, allocated_pages, pending_freelist, processVars,
                     next_stmt, acked, undone>>
  BY DEF AddRow
<1>1. next_row \in RowNo
  <2>1. store_load.rows \in 0..MaxRowNo
    BY PagerConstants DEF TypeInv
  <2> QED
    BY <1>0, <2>1, PagerConstants, SMTT(30) DEF TypeInv, RowNo
<1>2. image = Shown(no) /\ image \in Image
  <2>1. wal_index[p][no] = 0
    BY DEF TypeInv, NoIndex
  <2>2. image = Shown(no)
    BY <2>1 DEF ReadPage, Shown
  <2>3. Shown(no) \in Image
    BY DEF Shown, Resident, TypeInv, Frame
  <2> QED
    BY <2>2, <2>3
<1> HIDE DEF image
<1>3. new \in Image /\ new.rows = Shown(no).rows \cup {next_row}
  BY <1>1, <1>2 DEF Image
<1>4. no \in 1..LastPage
  <2>1. meta.page_count \in Nat
    BY PagerConstants DEF TypeInv, Meta
  <2> QED
    BY <1>0, <2>1, ResidentFit, PagerConstants DEF Page
<1>5. /\ pool' = [pool EXCEPT ![no] = [image |-> new, dirty |-> TRUE]]
      /\ UNCHANGED <<wal, cursor, wal_index>>
  BY <1>0, <1>4, PlainAdmit DEF WritePage
<1> HIDE DEF new
<1>6. [image |-> new, dirty |-> TRUE] \in Frame
  BY <1>3 DEF Frame
<1>7. DOMAIN pool = Page
  BY DEF TypeInv
<1>8. /\ pool'[no] = [image |-> new, dirty |-> TRUE]
      /\ \A m \in Page \ {no} : pool'[m] = pool[m]
      /\ pool' \in [Page -> Frame \cup {Absent}]
  BY <1>5, <1>6, <1>7 DEF TypeInv
<1>9. Risky => \A q \in Pagers \ {p} : no \notin dirty_pages[q]
  <2>1. ASSUME Risky, NEW q \in Pagers \ {p}, no \in dirty_pages[q] PROVE FALSE
    <3>1. no \notin store_load.writes[q] /\ no < FirstFree
      BY <1>0, <2>1, PagerConstants DEF Sheltered, Page
    <3>2. no \in allocated_pages[q]
      BY <2>1, <3>1 DEF PageInv
    <3> QED
      BY <3>1, <3>2, PagerConstants DEF PageInv, Page
  <2> QED
    BY <2>1
<1>10. meta \in Meta /\ meta.freelist_head = 0 /\ meta.page_count >= meta.page_count
  BY PagerConstants DEF TypeInv, PageInv, Meta
<1>11. pool'[no] # Absent /\ pool'[no] \in Frame /\ pool'[no].image.rows = new.rows
  BY <1>6, <1>8, FrameIsThere
<1> QED
  BY <1>0, <1>1, <1>3, <1>5, <1>8, <1>9, <1>10, <1>11 DEF Written, WritePage, NoteRow

\* A page that AllocPage takes has not been used, or was rolled back by this pager.
Taken(p, no) ==
    /\ Happens("alloc") /\ pool[no] = Absent /\ file[no].rows = {}
    /\ pending_freelist' = [pending_freelist EXCEPT ![p] = @ \ {no}]
    /\ allocated_pages' = [allocated_pages EXCEPT ![p] = @ \cup {no}]
    /\ \/ no \in pending_freelist[p] /\ meta' = meta
       \/ no = meta.page_count /\ meta' = [meta EXCEPT !.page_count = @ + 1]

LEMMA AllocPageWrites ==
  ASSUME TypeInv, PageInv, Sheltered, NEW p \in Pagers, AllocPage(p)
  PROVE  \E no \in Page : Written(p, no) /\ Taken(p, no)
<1>0. /\ stage[p] = "exec" /\ Happens("alloc") /\ next_row <= store_load.rows
      /\ UNCHANGED <<store_load, file, header, wal_synced, apply_lock, stage, stmt_no,
                     processVars, next_stmt, acked, undone>>
  BY DEF AllocPage
<1>1. PICK new \in NextPage(p) :
          /\ new.no <= MaxPage
          /\ WritePage(p, new.no, [rows |-> {next_row}, next |-> 0])
          /\ meta' = new.meta
          /\ pending_freelist' = [pending_freelist EXCEPT ![p] = @ \ {new.no}]
          /\ allocated_pages' = [allocated_pages EXCEPT ![p] = @ \cup {new.no}]
          /\ NoteRow(p, new.no)
  BY DEF AllocPage
<1>2. meta \in Meta /\ meta.page_count \in 1..(MaxPage + 1) /\ meta.freelist_head = 0
  BY DEF TypeInv, Meta, PageInv
<1>3. \/ new.no \in pending_freelist[p] /\ new.meta = meta
      \/ new.no = meta.page_count /\ new.meta = [meta EXCEPT !.page_count = @ + 1]
  BY <1>2 DEF NextPage
<1> DEFINE no == new.no
           image == [rows |-> {next_row}, next |-> 0]
<1>4. no \in Page
  <2>1. CASE new.no \in pending_freelist[p]
    BY <2>1 DEF TypeInv
  <2>2. CASE new.no = meta.page_count
    BY <1>1, <1>2, <2>2, PagerConstants DEF Page
  <2> QED
    BY <1>3, <2>1, <2>2
<1>5. pool[no] = Absent /\ file[no].rows = {}
  BY <1>2, <1>3, <1>4, PagerConstants DEF PageInv, Page
<1>6. no \in 1..LastPage
  BY <1>0, <1>4 DEF LastPage, Page
<1>7. next_row \in RowNo
  <2>1. store_load.rows \in 0..MaxRowNo
    BY PagerConstants DEF TypeInv
  <2> QED
    BY <1>0, <2>1, PagerConstants DEF TypeInv, RowNo
<1>8. image \in Image /\ image.rows = {next_row}
  BY <1>7, PagerConstants DEF Image
<1>9. Admit(p, no, image, TRUE) /\ dirty_pages' = [dirty_pages EXCEPT ![p] = @ \cup {no}]
  BY <1>1 DEF WritePage
<1> HIDE DEF no, image
<1>10. /\ pool' = [pool EXCEPT ![no] = [image |-> image, dirty |-> TRUE]]
       /\ UNCHANGED <<wal, cursor, wal_index>>
  BY <1>6, <1>9, PlainAdmit
<1>11. [image |-> image, dirty |-> TRUE] \in Frame
  BY <1>8 DEF Frame
<1>12. /\ pool'[no] = [image |-> image, dirty |-> TRUE]
       /\ \A m \in Page \ {no} : pool'[m] = pool[m]
       /\ pool' \in [Page -> Frame \cup {Absent}]
  BY <1>4, <1>10, <1>11 DEF TypeInv
<1>13. Shown(no).rows = {}
  BY <1>5 DEF Shown, Resident
<1>14. pool'[no] # Absent /\ pool'[no] \in Frame
       /\ pool'[no].image.rows = Shown(no).rows \cup {next_row}
  BY <1>8, <1>11, <1>12, <1>13, FrameIsThere
<1>15. \A q \in Pagers \ {p} : no \notin dirty_pages[q]
  BY <1>5 DEF PageInv
<1>16. /\ meta' \in Meta /\ meta'.page_count >= meta.page_count
       /\ meta'.freelist_head = 0 /\ no < meta'.page_count
  <2>1. CASE new.no \in pending_freelist[p] /\ new.meta = meta
    BY <1>1, <1>2, <2>1 DEF PageInv, no
  <2>2. CASE new.no = meta.page_count /\ new.meta = [meta EXCEPT !.page_count = @ + 1]
    BY <1>1, <1>2, <1>4, <2>2, PagerConstants DEF Meta, no, Page
  <2> QED
    BY <1>3, <2>1, <2>2
<1>17. Written(p, no)
  BY <1>0, <1>1, <1>4, <1>7, <1>9, <1>10, <1>12, <1>14, <1>15, <1>16
     DEF Written, NoteRow, no
<1>18. Taken(p, no)
  BY <1>0, <1>1, <1>3, <1>5 DEF Taken, no
<1> QED
  BY <1>4, <1>17, <1>18

-----------------------------------------------------------------------------
(* What a crash leaves of the logs *)

\* The log that the process would leave at this moment if nothing were torn: with the
\* marker if all images are there.
Marked(p) == WriteAt(wal[p], cursor[p], CommitRecord(cursor[p]))

LEMMA MarkedWhole ==
  ASSUME TypeInv, LogInv, NEW p \in Pagers, stage[p] = "flush"
  PROVE  /\ Marked(p) \in Seq(LogRecord) /\ Whole(Marked(p))
         /\ Len(Marked(p)) = cursor[p] + 1
         /\ Marked(p)[cursor[p] + 1] = CommitRecord(cursor[p])
         /\ \A i \in DOMAIN wal[p] : i \in DOMAIN Marked(p) /\ Marked(p)[i] = wal[p][i]
         /\ DOMAIN wal[p] = 1..cursor[p] /\ DOMAIN Marked(p) = 1..(cursor[p] + 1)
<1>1. /\ wal[p] \in Seq(LogRecord) /\ cursor[p] \in Nat /\ Len(wal[p]) = cursor[p]
      /\ Images(wal[p], cursor[p])
  BY DEF TypeInv, LogInv
<1>2. CommitRecord(cursor[p]) \in LogRecord
  BY <1>1, RecordTypes
<1>3. /\ Marked(p) \in Seq(LogRecord) /\ Len(Marked(p)) = cursor[p] + 1
      /\ DOMAIN Marked(p) = 1..(cursor[p] + 1)
      /\ Marked(p)[cursor[p] + 1] = CommitRecord(cursor[p])
      /\ \A i \in DOMAIN wal[p] : i \in DOMAIN Marked(p) /\ Marked(p)[i] = wal[p][i]
  <2>1. /\ WriteAt(wal[p], Len(wal[p]), CommitRecord(cursor[p])) = Marked(p)
        /\ Len(wal[p]) = cursor[p]
    BY <1>1 DEF Marked
  <2> DEFINE rec == CommitRecord(cursor[p])
             new == WriteAt(wal[p], Len(wal[p]), rec)
  <2>2. /\ new \in Seq(LogRecord) /\ Len(new) = Len(wal[p]) + 1
        /\ DOMAIN new = 1..(Len(wal[p]) + 1)
        /\ new[Len(wal[p]) + 1] = rec
        /\ \A i \in DOMAIN wal[p] : i \in DOMAIN new /\ new[i] = wal[p][i]
    BY <1>1, <1>2, WriteAtEnd, Zenon
  <2> QED
    BY <2>1, <2>2
<1>4. DOMAIN wal[p] = 1..cursor[p]
  BY <1>1, LogShape
<1>5. Images(Marked(p), cursor[p])
  BY <1>1, <1>3, <1>4 DEF Images
<1>6. Whole(Marked(p))
  BY <1>1, <1>3, <1>5 DEF Whole
<1> QED
  BY <1>3, <1>4, <1>6

\* The log that is left is one of these with records torn, none if they were synced.
LEMMA Leftovers ==
  ASSUME NEW p \in Pagers, NEW power \in BOOLEAN, NEW log \in SurvivingLogs(p, power)
  PROVE  \E base :
           /\ \/ base = wal[p]
              \/ base = Marked(p) /\ stage[p] = "flush" /\ Unflushed(p) = {}
              \/ base = <<>> /\ stage[p] = "reset"
           /\ \/ log = base
              \/ /\ DOMAIN log = DOMAIN base /\ log = [i \in DOMAIN log |-> log[i]]
                 /\ \A i \in DOMAIN base : log[i] \in Remains(p, base, i)
<1>1. \A base \in LogsInFlight(p) :
          \/ base = wal[p]
          \/ base = Marked(p) /\ stage[p] = "flush" /\ Unflushed(p) = {}
          \/ base = <<>> /\ stage[p] = "reset"
  BY DEF LogsInFlight, Marked
<1>2. CASE ~power
  BY <1>1, <1>2 DEF SurvivingLogs
<1>3. CASE power
  <2>1. PICK base \in LogsInFlight(p) :
           log \in {left \in [DOMAIN base -> UNION {Remains(p, base, i) : i \in DOMAIN base}] :
                      \A i \in DOMAIN base : left[i] \in Remains(p, base, i)}
    BY <1>3, Zenon DEF SurvivingLogs
  <2>2. /\ DOMAIN log = DOMAIN base /\ log = [i \in DOMAIN log |-> log[i]]
        /\ \A i \in DOMAIN base : log[i] \in Remains(p, base, i)
    BY <2>1
  <2> QED
    BY <1>1, <2>1, <2>2
<1> QED
  BY <1>2, <1>3

\* What recovery may find of p's log: nothing to replay, the log as it was if it was
\* sealed, or all images and the marker if the flush was complete.
LEMMA Survivors ==
  ASSUME TypeInv, LogInv, NEW p \in Pagers, NEW power \in BOOLEAN,
         NEW log \in SurvivingLogs(p, power)
  PROVE  /\ log \in Seq(LogRecord)
         /\ Scan(log) =>
              /\ Whole(log)
              /\ \/ log = wal[p] /\ (~running \/ stage[p] \in {"apply", "header", "reset"})
                 \/ log = Marked(p) /\ stage[p] = "flush" /\ Unflushed(p) = {}
         /\ ~running \/ stage[p] \in {"apply", "header"} => log = wal[p]
<1>0. wal[p] \in Seq(LogRecord) /\ wal_synced[p] \in Seq(LogRecord)
  BY DEF TypeInv
<1>1. PICK base :
           /\ \/ base = wal[p]
              \/ base = Marked(p) /\ stage[p] = "flush" /\ Unflushed(p) = {}
              \/ base = <<>> /\ stage[p] = "reset"
           /\ \/ log = base
              \/ /\ DOMAIN log = DOMAIN base /\ log = [i \in DOMAIN log |-> log[i]]
                 /\ \A i \in DOMAIN base : log[i] \in Remains(p, base, i)
  BY Leftovers
<1>2. base \in Seq(LogRecord)
  <2>1. CASE base = Marked(p) /\ stage[p] = "flush"
    BY <2>1, MarkedWhole
  <2>2. CASE base = <<>>
    BY <2>2
  <2> QED
    BY <1>0, <1>1, <2>1, <2>2
<1>3. base = [i \in DOMAIN base |-> base[i]] /\ DOMAIN base = 1..Len(base)
      /\ Len(base) \in Nat /\ \A i \in DOMAIN base : base[i] \in LogRecord
  BY <1>2
\* A synced log is left as it is.
<1>4. ASSUME wal_synced[p] = base PROVE log = base
  <2>1. CASE DOMAIN log = DOMAIN base /\ log = [i \in DOMAIN log |-> log[i]]
              /\ \A i \in DOMAIN base : log[i] \in Remains(p, base, i)
    <3>1. \A i \in DOMAIN base : log[i] = base[i]
      BY <1>4, <2>1 DEF Remains
    <3> QED
      BY <1>3, <2>1, <3>1
  <2> QED
    BY <1>1, <2>1
<1>5. CASE ~running \/ stage[p] \in {"apply", "header", "reset"}
  <2>1. wal_synced[p] = wal[p] /\ (Scan(wal[p]) => Whole(wal[p]))
    BY <1>5 DEF LogInv
  <2>2. CASE base = wal[p]
    BY <1>0, <1>4, <1>5, <2>1, <2>2
  <2>3. CASE base = <<>> /\ stage[p] = "reset"
    <3>1. running
      BY <2>3 DEF LogInv
    <3>2. log = <<>>
      <4>1. CASE DOMAIN log = DOMAIN base /\ log = [i \in DOMAIN log |-> log[i]]
        BY <1>3, <2>3, <4>1
      <4> QED
        BY <1>1, <2>3, <4>1
    <3> QED
      BY <1>2, <2>3, <3>1, <3>2, EmptyScan
  <2>4. stage[p] # "flush"
    BY <1>5 DEF LogInv
  <2> QED
    BY <1>1, <2>2, <2>3, <2>4
<1>6. CASE running /\ stage[p] \in {"idle", "exec", "clean"}
  <2>1. wal[p] = <<>> /\ wal_synced[p] = <<>> /\ base = <<>>
    BY <1>1, <1>6 DEF LogInv
  <2>2. log = <<>>
    BY <1>4, <2>1
  <2> QED
    BY <1>2, <1>6, <2>1, <2>2, EmptyScan
<1>7. CASE running /\ stage[p] = "flush"
  <2> DEFINE k == cursor[p]
  <2>1. /\ k \in Nat /\ Len(wal[p]) = k /\ Images(wal[p], k) /\ wal_synced[p] = <<>>
    BY <1>7 DEF LogInv, TypeInv
  <2>2. /\ DOMAIN wal[p] = 1..k /\ Marked(p) \in Seq(LogRecord) /\ Whole(Marked(p))
        /\ Len(Marked(p)) = k + 1 /\ Marked(p)[k + 1] = CommitRecord(k)
        /\ \A i \in 1..k : Marked(p)[i] = wal[p][i]
    BY <1>7, MarkedWhole
  <2>3. base = wal[p] \/ (base = Marked(p) /\ Unflushed(p) = {})
    BY <1>1, <1>7
  <2> HIDE DEF k
  <2>4. /\ Len(base) \in {k, k + 1} /\ \A i \in 1..k : base[i] = wal[p][i]
        /\ Len(base) = k + 1 => base = Marked(p) /\ Unflushed(p) = {}
    BY <2>1, <2>2, <2>3
  <2>5. \A i \in DOMAIN base : log[i] \in {base[i], TornRecord}
    <3>1. \A i \in DOMAIN base : i \notin DOMAIN wal_synced[p]
      BY <1>3, <2>1
    <3> QED
      BY <1>1, <3>1 DEF Remains
  <2>6. log \in Seq(LogRecord) /\ Len(log) = Len(base) /\ DOMAIN log = DOMAIN base
        /\ log = [i \in DOMAIN log |-> log[i]]
    <3>1. log \in [1..Len(base) -> LogRecord]
      BY <1>1, <1>3, <2>5, RecordTypes
    <3> QED
      BY <1>1, <1>3, <3>1, FunctionIsLog
  <2>7. ASSUME Scan(log)
        PROVE  Whole(log) /\ log = Marked(p) /\ Unflushed(p) = {}
    <3>1. \A i \in 1..k : i \in DOMAIN base /\ log[i].tag # "commit"
      BY <1>3, <2>1, <2>4, <2>5 DEF Images, TornRecord
    <3>2. /\ Len(log) = k + 1 /\ log[k + 1].tag = "commit"
          /\ \A i \in 1..k : log[i].tag = "page"
      BY <2>1, <2>4, <2>6, <2>7, <3>1, ScanIntact
    <3>3. base = Marked(p) /\ Unflushed(p) = {}
      BY <2>4, <2>6, <3>2
    <3>4. DOMAIN base = 1..(k + 1)
      BY <1>3, <2>6, <3>2
    <3>5. \A i \in DOMAIN base : log[i].tag # "torn"
      <4>1. \A i \in 1..(k + 1) : i \in 1..k \/ i = k + 1
        BY <2>1
      <4> QED
        BY <3>2, <3>4, <4>1
    <3>6. \A i \in DOMAIN base : log[i] = base[i]
      BY <2>5, <3>5 DEF TornRecord
    <3>7. log = base
      BY <1>3, <2>6, <3>6
    <3> QED
      BY <2>2, <3>3, <3>7
  <2> QED
    BY <1>7, <2>6, <2>7
<1>8. stage[p] \in {"idle", "exec", "clean", "flush", "apply", "header", "reset"}
  BY DEF TypeInv, LogInv
<1> QED
  BY <1>5, <1>6, <1>7, <1>8

-----------------------------------------------------------------------------
(* One lemma per action *)

LEMMA SameLoad ==
  ASSUME UNCHANGED store_load
  PROVE  (Sheltered' <=> Sheltered) /\ (Risky' <=> Risky) /\ (Crashing' <=> Crashing)
  BY DEF Sheltered, Risky, Crashing, Happens

LEMMA Numbers ==
  ASSUME TypeInv
  PROVE  /\ \A no \in Page : no \in Nat
         /\ \A r \in RowNo : r \in Nat
         /\ \A s \in StmtId : s \in Nat
         /\ meta.page_count \in Nat /\ header.page_count \in Nat
         /\ next_row \in Nat /\ next_stmt \in Nat
         /\ \A s \in StmtId : \A w \in wrote[s] : w[1] \in Page /\ w[2] \in RowNo
         /\ \A no \in Page : file[no].rows \subseteq RowNo
         /\ \A no \in Page : pool[no].image.rows \subseteq RowNo
         /\ \A p \in Pagers : \A i \in DOMAIN wal[p] : wal[p][i].image.rows \subseteq RowNo
<1>1. Page \subseteq Nat /\ RowNo \subseteq Nat /\ StmtId \subseteq Nat
  BY PagerConstants DEF Page, RowNo, StmtId
<1>2. meta.page_count \in 1..(MaxPage + 1) /\ header.page_count \in 1..(MaxPage + 1)
  BY DEF TypeInv, Meta
<1>3. \A s \in StmtId : \A w \in wrote[s] : w[1] \in Page /\ w[2] \in RowNo
  BY DEF TypeInv
<1>4. \A no \in Page : file[no].rows \subseteq RowNo
  BY DEF TypeInv, Image
<1>5. ASSUME NEW no \in Page PROVE pool[no].image.rows \subseteq RowNo
  <2>1. CASE pool[no] \in Frame
    BY <2>1 DEF Frame, Image
  <2>2. CASE pool[no] = Absent
    BY <2>2 DEF Absent, ZeroPage
  <2> QED
    BY <2>1, <2>2 DEF TypeInv
<1>6. ASSUME NEW p \in Pagers, NEW i \in DOMAIN wal[p] PROVE wal[p][i].image.rows \subseteq RowNo
  <2>1. wal[p][i] \in LogRecord
    BY LogShape DEF TypeInv
  <2> QED
    BY <2>1 DEF LogRecord, Image
<1>7. next_row \in Nat /\ next_stmt \in Nat
  BY PagerConstants DEF TypeInv
<1> QED
  BY <1>1, <1>2, <1>3, <1>4, <1>5, <1>6, <1>7, PagerConstants

\* Statements that have ended and whose pages no step touches.
LEMMA EndStays ==
  ASSUME EndInv, UNCHANGED <<store_load, file, header, wal, pool, running, wrote, acked, undone>>,
         \A s \in StmtId : s \notin Executing' => s \notin Executing
  PROVE  EndInv'
<1>1. (Risky' <=> Risky) /\ StmtId' = StmtId
  BY SameLoad DEF StmtId
<1>2. ASSUME NEW s \in StmtId
      PROVE  /\ InFile(s)' <=> InFile(s)
             /\ InDisk(s)' <=> InDisk(s)
             /\ Out(s)' <=> Out(s)
  BY DEF InFile, InDisk, Out, Holds, Live
<1>3. /\ \A s \in acked' : \A w \in wrote'[s] :
            w[2] \in file'[w[1]].rows /\ w[1] < header'.page_count
      /\ ~Risky' => undone' = {}
      /\ ~Risky' => \A s \in StmtId \ Executing' : s \in acked' \/ wrote'[s] = {}
  BY <1>1 DEF EndInv
<1>4. ASSUME Risky', NEW s \in StmtId \ Executing'
      PROVE  /\ (IF running' THEN InFile(s)' ELSE InDisk(s)') \/ Out(s)'
             /\ s \in undone' => Out(s)'
  BY <1>1, <1>2, <1>4 DEF EndInv
<1> QED
  BY <1>3, <1>4 DEF EndInv, StmtId

LEMMA BeginKeeps ==
  ASSUME AllInv, NEW p \in Pagers, BeginStatement(p) PROVE AllInv'
<1>0. Sheltered /\ TypeInv /\ LogInv /\ LockInv /\ PageInv /\ ChainInv /\ NumberInv /\ ExecInv /\ EndInv
  BY DEF AllInv
<1>1. /\ running /\ stage[p] = "idle" /\ next_stmt <= store_load.stmts
      /\ stage' = [stage EXCEPT ![p] = "exec"]
      /\ stmt_no' = [stmt_no EXCEPT ![p] = next_stmt]
      /\ next_stmt' = next_stmt + 1
      /\ UNCHANGED <<store_load, file, header, wal, wal_synced, pool, meta, apply_lock, cursor,
                     wal_index, dirty_pages, allocated_pages, pending_freelist, orphans,
                     running, crashes, next_row, wrote, acked, undone>>
  BY DEF BeginStatement, diskVars, sharedVars, processVars
<1>2. next_stmt \in StmtId /\ next_stmt \in Nat
  <2>1. store_load.stmts \in 0..MaxStmt /\ next_stmt \in 1..(MaxStmt + 1) /\ MaxStmt \in Nat
    BY <1>0, PagerConstants DEF TypeInv
  <2> QED
    BY <1>1, <2>1 DEF StmtId
<1>3. /\ stage'[p] = "exec" /\ stmt_no'[p] = next_stmt
      /\ \A q \in Pagers \ {p} : stage'[q] = stage[q] /\ stmt_no'[q] = stmt_no[q]
  BY <1>0, <1>1 DEF TypeInv
<1>4. (Sheltered' <=> Sheltered) /\ (Risky' <=> Risky) /\ (Crashing' <=> Crashing)
  BY <1>1, SameLoad
<1>5. TypeInv'
  <2>1. next_stmt \in 0..MaxStmt /\ next_stmt + 1 \in 1..(MaxStmt + 1)
    BY <1>2, PagerConstants DEF StmtId
  <2>2. stage' \in [Pagers -> {"idle", "exec", "flush", "seal", "apply", "header",
                              "reset", "clean"}]
    BY <1>0, <1>1 DEF TypeInv
  <2>3. stmt_no' \in [Pagers -> 0..MaxStmt]
    BY <1>0, <1>1, <2>1 DEF TypeInv
  <2>4. next_stmt' \in 1..(MaxStmt + 1)
    BY <1>1, <2>1
  <2> QED
    BY <1>0, <1>1, <2>2, <2>3, <2>4, Zenon DEF TypeInv
<1>6. LogInv'
  BY <1>0, <1>1, <1>3, <1>4 DEF LogInv
<1>7. LockInv'
  BY <1>0, <1>1, <1>3 DEF LockInv
<1>8. PageInv'
  BY <1>0, <1>1, <1>3, <1>4 DEF PageInv, Happens
<1>9. ChainInv'
  BY <1>0, <1>1, <1>3, <1>4 DEF ChainInv, Holds, Live
<1>10. NumberInv'
  BY <1>0, <1>1, <1>2, <1>3 DEF NumberInv, StmtId, Live
<1>11. ExecInv'
  BY <1>0, <1>1, <1>2, <1>3, <1>4 DEF ExecInv, NumberInv, Holds
<1>12. \A s \in StmtId : s \notin Executing' => s \notin Executing
  BY <1>1, <1>3 DEF Executing
<1>13. EndInv'
  BY <1>0, <1>1, <1>12, EndStays
<1> QED
  BY <1>0, <1>4, <1>5, <1>6, <1>7, <1>8, <1>9, <1>10, <1>11, <1>13 DEF AllInv

LEMMA LockApplyKeeps ==
  ASSUME AllInv, NEW p \in Pagers, LockApply(p) PROVE AllInv'
<1>0. Sheltered /\ TypeInv /\ LogInv /\ LockInv /\ PageInv /\ ChainInv /\ NumberInv /\ ExecInv /\ EndInv
  BY DEF AllInv
<1>1. /\ stage[p] = "exec" /\ apply_lock = Unlocked /\ apply_lock' = p
      /\ stage' = [stage EXCEPT ![p] = "flush"]
      /\ UNCHANGED <<store_load, file, header, wal, wal_synced, pool, meta, stmt_no, cursor,
                     wal_index, dirty_pages, allocated_pages, pending_freelist, orphans,
                     running, crashes, next_stmt, next_row, wrote, acked, undone>>
  BY DEF LockApply, diskVars, processVars, storeHist
<1>2. stage'[p] = "flush" /\ \A q \in Pagers \ {p} : stage'[q] = stage[q]
  BY <1>0, <1>1 DEF TypeInv
<1>3. running /\ wal[p] = <<>> /\ wal_synced[p] = <<>> /\ cursor[p] = 0
  BY <1>0, <1>1 DEF LogInv
<1>4. (Sheltered' <=> Sheltered) /\ (Risky' <=> Risky) /\ (Crashing' <=> Crashing)
  BY <1>1, SameLoad
<1>5. TypeInv'
  BY <1>0, <1>1 DEF TypeInv
<1>6. LogInv'
  <2>1. Images(wal[p], 0) /\ Len(wal[p]) = 0
    BY <1>3 DEF Images
  <2> QED
    BY <1>0, <1>1, <1>2, <1>3, <1>4, <2>1 DEF LogInv
<1>7. LockInv'
  BY <1>0, <1>1, <1>2, PagerConstants DEF LockInv, Unlocked
<1>8. PageInv'
  BY <1>0, <1>1, <1>2, <1>4 DEF PageInv, Happens
<1>9. ChainInv'
  BY <1>0, <1>1, <1>2, <1>3, <1>4 DEF ChainInv, Holds, Live
<1>10. NumberInv'
  BY <1>0, <1>1, <1>2 DEF NumberInv, StmtId, Live
<1>11. ExecInv'
  BY <1>0, <1>1, <1>2, <1>3, <1>4 DEF ExecInv, Holds
<1>12. \A s \in StmtId : s \notin Executing' => s \notin Executing
  BY <1>1, <1>2 DEF Executing
<1>13. EndInv'
  BY <1>0, <1>1, <1>12, EndStays
<1> QED
  BY <1>0, <1>4, <1>5, <1>6, <1>7, <1>8, <1>9, <1>10, <1>11, <1>13 DEF AllInv

\* What the steps of a statement before its commit keep, whichever page it writes.
LEMMA WrittenKeeps ==
  ASSUME AllInv, NEW p \in Pagers, NEW no \in Page, Written(p, no)
  PROVE  LogInv' /\ LockInv' /\ ChainInv' /\ NumberInv' /\ ExecInv' /\ EndInv'
<1>0. Sheltered /\ TypeInv /\ LogInv /\ LockInv /\ PageInv /\ ChainInv /\ NumberInv /\ ExecInv /\ EndInv
  BY DEF AllInv
<1>1. /\ stage[p] = "exec" /\ no < meta'.page_count
      /\ next_row \in RowNo /\ next_row' = next_row + 1
      /\ pool'[no] # Absent /\ pool'[no].image.rows = Shown(no).rows \cup {next_row}
      /\ \A m \in Page \ {no} : pool'[m] = pool[m]
      /\ dirty_pages' = [dirty_pages EXCEPT ![p] = @ \cup {no}]
      /\ wrote' = [wrote EXCEPT ![stmt_no[p]] = @ \cup {<<no, next_row>>}]
      /\ meta' \in Meta /\ meta'.page_count >= meta.page_count
      /\ UNCHANGED <<store_load, file, header, wal, wal_synced, apply_lock, stage, stmt_no,
                     cursor, orphans, running, crashes, next_stmt, acked, undone>>
  BY DEF Written, processVars
<1>2. running /\ stmt_no[p] \in StmtId /\ stmt_no[p] \notin acked /\ stmt_no[p] \in Executing
  BY <1>0, <1>1 DEF LogInv, NumberInv, Executing
<1>3. (Sheltered' <=> Sheltered) /\ (Risky' <=> Risky) /\ (Crashing' <=> Crashing)
  BY <1>1, SameLoad
<1>4. /\ dirty_pages'[p] = dirty_pages[p] \cup {no}
      /\ \A q \in Pagers \ {p} : dirty_pages'[q] = dirty_pages[q]
  BY <1>0, <1>1 DEF TypeInv
<1>5. /\ wrote'[stmt_no[p]] = wrote[stmt_no[p]] \cup {<<no, next_row>>}
      /\ \A s \in StmtId \ {stmt_no[p]} : wrote'[s] = wrote[s]
  BY <1>0, <1>1, <1>2 DEF TypeInv
\* Pages only gain the new row.
<1>6. /\ file[no].rows \subseteq pool'[no].image.rows
      /\ \A m \in Page : pool[m] # Absent =>
            pool'[m] # Absent /\ pool[m].image.rows \subseteq pool'[m].image.rows
  <2>1. pool[no] # Absent => Shown(no) = pool[no].image
    BY DEF Shown, Resident
  <2>2. pool[no] = Absent => Shown(no) = file[no]
    BY DEF Shown, Resident
  <2> QED
    BY <1>0, <1>1, <2>1, <2>2 DEF ChainInv
<1>7. \A m \in Page : \A r \in pool'[m].image.rows :
         r \in pool[m].image.rows \/ r \in file[m].rows \/ (m = no /\ r = next_row)
  BY <1>1 DEF Shown
<1>8. next_row \in Nat /\ \A m \in Page : next_row \notin file[m].rows /\ next_row \notin pool[m].image.rows
  BY <1>0, <1>1, PagerConstants DEF NumberInv, RowNo
<1>9. LogInv'
  BY <1>0, <1>1, <1>2, <1>3 DEF LogInv
<1>10. LockInv'
  BY <1>0, <1>1 DEF LockInv
<1>11. ChainInv'
  <2>1. \A m \in Page : pool'[m] # Absent => file'[m].rows \subseteq pool'[m].image.rows
    BY <1>0, <1>1, <1>6 DEF ChainInv
  <2>2. ASSUME NEW q \in Pagers, NEW m \in Page, NEW i \in DOMAIN wal[q], Holds(q, i, m)
        PROVE  /\ m \in dirty_pages'[q] /\ (Crashing => m \in store_load.writes[q])
               /\ stage[q] \in {"flush", "apply"} =>
                    /\ file[m].rows \subseteq wal[q][i].image.rows
                    /\ wal[q][i].image.rows \subseteq pool'[m].image.rows
               /\ Risky /\ stage[q] \in {"header", "reset"} =>
                    file[m].rows \subseteq wal[q][i].image.rows
    <3>1. m \in dirty_pages[q] /\ pool[m] # Absent
      BY <1>0, <1>2, <2>2 DEF ChainInv, PageInv
    <3>2. m \in dirty_pages'[q] /\ pool[m].image.rows \subseteq pool'[m].image.rows
      BY <1>4, <1>6, <3>1
    <3> QED
      BY <1>0, <1>2, <2>2, <3>2 DEF ChainInv, Live
  <2> QED
    BY <1>1, <1>2, <1>3, <2>1, <2>2 DEF ChainInv, Holds, Live
<1>12. NumberInv'
  <2>1. ASSUME NEW s \in StmtId
        PROVE  /\ s >= next_stmt => wrote'[s] = {} /\ s \notin acked /\ s \notin undone
               /\ \A w \in wrote'[s] : w[2] < next_row' /\ w[1] < meta'.page_count
    <3>1. CASE s = stmt_no[p]
      <4>1. s < next_stmt /\ s \in Nat /\ next_stmt \in Nat
        BY <1>0, <1>1, <3>1, PagerConstants DEF NumberInv, TypeInv, StmtId
      <4>2. ASSUME NEW w \in wrote[s] PROVE w[2] < next_row' /\ w[1] < meta'.page_count
        <5>1. w[1] \in Nat /\ w[2] \in Nat /\ meta.page_count \in Nat
          BY <1>0, Numbers
        <5>2. meta'.page_count \in Nat
          BY <1>1, PagerConstants DEF Meta
        <5> QED
          BY <1>0, <1>1, <1>8, <5>1, <5>2 DEF NumberInv
      <4> QED
        BY <1>1, <1>5, <1>8, <3>1, <4>1, <4>2
    <3>2. CASE s # stmt_no[p]
      <4>1. \A w \in wrote[s] : w[1] \in Nat /\ w[2] \in Nat
        BY <1>0, Numbers
      <4>2. meta.page_count \in Nat /\ meta'.page_count \in Nat
        BY <1>0, <1>1, Numbers, PagerConstants DEF Meta
      <4> QED
        BY <1>0, <1>1, <1>5, <1>8, <3>2, <4>1, <4>2 DEF NumberInv
    <3> QED
      BY <3>1, <3>2
  <2>2. \A m \in Page : \A r \in file'[m].rows \cup pool'[m].image.rows : r < next_row'
    <3>1. ASSUME NEW m \in Page, NEW r, r \in file[m].rows \/ r \in pool[m].image.rows
          PROVE  r < next_row + 1
      <4>1. r \in Nat
        BY <1>0, <3>1, Numbers
      <4> QED
        BY <1>0, <1>8, <3>1, <4>1 DEF NumberInv
    <3> QED
      BY <1>1, <1>7, <1>8, <3>1
  <2>3. ASSUME NEW q \in Pagers, NEW i \in DOMAIN wal[q], NEW r \in wal[q][i].image.rows
        PROVE  r < next_row'
    <3>2. r \in Nat
      BY <1>0, Numbers
    <3> QED
      BY <1>0, <1>1, <1>2, <1>8, <3>2 DEF NumberInv, Live
  <2> QED
    BY <1>0, <1>1, <2>1, <2>2, <2>3 DEF NumberInv, StmtId, Live
<1>13. ExecInv'
  <2>1. ASSUME NEW q \in Pagers, stage[q] # "idle", NEW w \in wrote[stmt_no[q]]
        PROVE  /\ w[1] \in dirty_pages'[q] /\ w[2] \in pool'[w[1]].image.rows
               /\ stage[q] \in {"flush", "apply"} =>
                     \A i \in DOMAIN wal[q] : Holds(q, i, w[1]) => w[2] \in wal[q][i].image.rows
               /\ stage[q] = "apply" => \E i \in DOMAIN wal[q] : Holds(q, i, w[1])
               /\ stage[q] \in {"header", "reset", "clean"} => w[2] \in file[w[1]].rows
               /\ stage[q] \in {"reset", "clean"} => w[1] < header.page_count
               /\ Risky /\ stage[q] \in {"exec", "flush", "apply"} => w[2] \notin file[w[1]].rows
    <3>1. w[1] \in dirty_pages[q] /\ w[2] \in pool[w[1]].image.rows
      BY <1>0, <2>1 DEF ExecInv
    <3>2. pool[w[1]] # Absent /\ w[1] \in Page
      BY <1>0, <3>1 DEF PageInv, TypeInv
    <3>3. w[1] \in dirty_pages'[q] /\ w[2] \in pool'[w[1]].image.rows
      BY <1>4, <1>6, <3>1, <3>2
    <3> QED
      BY <1>0, <2>1, <3>3 DEF ExecInv
  <2>2. ASSUME NEW q \in Pagers, stage[q] # "idle", q # p
        PROVE  wrote'[stmt_no[q]] = wrote[stmt_no[q]]
    BY <1>0, <1>1, <1>5, <2>2 DEF NumberInv
  <2>3. /\ no \in dirty_pages'[p] /\ next_row \in pool'[no].image.rows
        /\ next_row \notin file[no].rows
    BY <1>1, <1>4, <1>8
  <2>4. ASSUME NEW w \in wrote'[stmt_no[p]] PROVE w \in wrote[stmt_no[p]] \/ w = <<no, next_row>>
    BY <1>5
  <2>5. ASSUME NEW q \in Pagers, stage'[q] # "idle", NEW w \in wrote'[stmt_no'[q]]
        PROVE  w \in wrote[stmt_no[q]] \/ (q = p /\ w = <<no, next_row>>)
    BY <1>1, <2>2, <2>4, <2>5
  <2> QED
    BY <1>1, <1>3, <2>1, <2>3, <2>5 DEF ExecInv, Holds
<1>14. EndInv'
  <2>1. Executing' = Executing
    BY <1>1 DEF Executing
  <2>2. ASSUME NEW s \in StmtId \ Executing
        PROVE  wrote'[s] = wrote[s] /\ (InFile(s) => InFile(s)') /\ (Out(s) => Out(s)')
    <3>1. wrote'[s] = wrote[s]
      BY <1>2, <1>5
    <3>2. ASSUME Out(s), NEW w \in wrote[s] PROVE w[2] \notin pool'[w[1]].image.rows
      <4>1. w[1] \in Page /\ w[2] # next_row
        BY <1>0, <1>8 DEF TypeInv, NumberInv
      <4> QED
        BY <1>7, <3>2, <4>1 DEF Out
    <3> QED
      BY <1>1, <3>1, <3>2 DEF InFile, Out, Holds, Live
  <2>3. ASSUME NEW s \in acked PROVE wrote'[s] = wrote[s]
    BY <1>0, <1>2, <1>5 DEF TypeInv
  <2>4. ASSUME Risky', NEW s \in StmtId \ Executing'
        PROVE  (InFile(s)' \/ Out(s)') /\ (s \in undone' => Out(s)')
    BY <1>0, <1>1, <1>2, <1>3, <2>1, <2>2, <2>4 DEF EndInv
  <2> QED
    BY <1>0, <1>1, <1>2, <1>3, <2>1, <2>2, <2>3, <2>4 DEF EndInv, StmtId
<1> QED
  BY <1>9, <1>10, <1>11, <1>12, <1>13, <1>14

LEMMA WrittenTypes ==
  ASSUME TypeInv, NumberInv, NEW p \in Pagers, NEW no \in Page, Written(p, no),
         allocated_pages' \in [Pagers -> SUBSET Page],
         pending_freelist' \in [Pagers -> SUBSET Page]
  PROVE  TypeInv'
<1>1. next_row + 1 \in 1..(MaxRowNo + 1)
  BY PagerConstants DEF Written, RowNo
<1>2. stmt_no[p] \in StmtId /\ <<no, next_row>> \in Page \X RowNo
  BY DEF Written, NumberInv
<1>3. wrote' \in [StmtId -> SUBSET (Page \X RowNo)]
  BY <1>2 DEF Written, TypeInv
<1>4. dirty_pages' \in [Pagers -> SUBSET Page]
  BY DEF Written, TypeInv
<1> QED
  BY <1>1, <1>3, <1>4 DEF Written, TypeInv, processVars, Meta, Page, RowNo, StmtId, Image,
     Frame, Absent, ZeroPage, LogRecord, NoIndex

LEMMA AddRowKeeps ==
  ASSUME AllInv, NEW p \in Pagers, NEW no \in Page, AddRow(p, no) PROVE AllInv'
<1>0. Sheltered /\ TypeInv /\ LogInv /\ LockInv /\ PageInv /\ ChainInv /\ NumberInv /\ ExecInv /\ EndInv
  BY DEF AllInv
<1>1. /\ Written(p, no) /\ no \in store_load.writes[p]
      /\ UNCHANGED <<meta, allocated_pages, pending_freelist>>
  BY <1>0, AddRowWrites
<1>2. LogInv' /\ LockInv' /\ ChainInv' /\ NumberInv' /\ ExecInv' /\ EndInv'
  BY <1>1, WrittenKeeps
<1>3. TypeInv'
  BY <1>0, <1>1, WrittenTypes DEF TypeInv
<1>4. /\ \A m \in Page \ {no} : pool'[m] = pool[m]
      /\ pool'[no] # Absent /\ no < meta.page_count
      /\ dirty_pages'[p] = dirty_pages[p] \cup {no}
      /\ \A q \in Pagers \ {p} : dirty_pages'[q] = dirty_pages[q]
      /\ stage[p] = "exec"
      /\ UNCHANGED <<store_load, file, header, stage, meta, allocated_pages, pending_freelist>>
  BY <1>0, <1>1 DEF Written, TypeInv
<1>5. (Sheltered' <=> Sheltered) /\ (Risky' <=> Risky) /\ (Crashing' <=> Crashing)
  BY <1>4, SameLoad
\* The page is not one that a pager keeps for itself after a rollback.
<1>6. \A q \in Pagers : no \notin pending_freelist[q]
  BY DEF AddRow
<1>7. no \in Nat /\ meta.page_count \in Nat
  BY <1>0, Numbers
<1>8. /\ \A m \in Page : m >= meta.page_count => pool'[m] = Absent /\ file[m].rows = {}
      /\ \A q \in Pagers : \A m \in dirty_pages'[q] : pool'[m] # Absent /\ m < meta.page_count
  <2>1. ASSUME NEW m \in Page, m >= meta.page_count PROVE m # no
    BY <1>4, <1>7, <2>1
  <2>2. ASSUME NEW q \in Pagers, NEW m \in dirty_pages'[q]
        PROVE  m = no \/ (m \in dirty_pages[q] /\ m \in Page)
    BY <1>0, <1>4 DEF TypeInv
  <2> QED
    BY <1>0, <1>4, <2>1, <2>2 DEF PageInv
<1>9. \A q \in Pagers : \A m \in pending_freelist[q] : pool'[m] = Absent
  BY <1>0, <1>4, <1>6, SMTT(30) DEF PageInv, TypeInv
<1>10. PageInv'
  BY <1>0, <1>1, <1>4, <1>5, <1>8, <1>9 DEF PageInv, Happens
<1> QED
  BY <1>0, <1>2, <1>3, <1>5, <1>10 DEF AllInv

LEMMA AllocPageKeeps ==
  ASSUME AllInv, NEW p \in Pagers, AllocPage(p) PROVE AllInv'
<1>0. Sheltered /\ TypeInv /\ LogInv /\ LockInv /\ PageInv /\ ChainInv /\ NumberInv /\ ExecInv /\ EndInv
  BY DEF AllInv
<1>1. PICK no \in Page : Written(p, no) /\ Taken(p, no)
  BY <1>0, AllocPageWrites
<1>2. LogInv' /\ LockInv' /\ ChainInv' /\ NumberInv' /\ ExecInv' /\ EndInv'
  BY <1>1, WrittenKeeps
<1>3. TypeInv'
  <2>1. allocated_pages' \in [Pagers -> SUBSET Page] /\ pending_freelist' \in [Pagers -> SUBSET Page]
    BY <1>0, <1>1 DEF TypeInv, Taken
  <2> QED
    BY <1>0, <1>1, <2>1, WrittenTypes
<1>4. /\ \A m \in Page \ {no} : pool'[m] = pool[m]
      /\ pool'[no] # Absent /\ no < meta'.page_count /\ meta'.freelist_head = 0
      /\ meta' \in Meta /\ meta'.page_count >= meta.page_count
      /\ dirty_pages'[p] = dirty_pages[p] \cup {no}
      /\ \A q \in Pagers \ {p} : dirty_pages'[q] = dirty_pages[q]
      /\ stage[p] = "exec"
      /\ UNCHANGED <<store_load, file, header, stage>>
  BY <1>0, <1>1 DEF Written, TypeInv
<1>5. /\ Happens("alloc") /\ pool[no] = Absent /\ file[no].rows = {}
      /\ pending_freelist'[p] = pending_freelist[p] \ {no}
      /\ allocated_pages'[p] = allocated_pages[p] \cup {no}
      /\ \A q \in Pagers \ {p} : /\ pending_freelist'[q] = pending_freelist[q]
                                 /\ allocated_pages'[q] = allocated_pages[q]
      /\ no \in pending_freelist[p] \/ no = meta.page_count
  BY <1>0, <1>1 DEF Taken, TypeInv
<1>6. (Sheltered' <=> Sheltered) /\ (Risky' <=> Risky) /\ (Crashing' <=> Crashing)
      /\ \A e \in Happenings : Happens(e)' <=> Happens(e)
  BY <1>4, SameLoad DEF Happens
<1>7. no \in Nat /\ meta.page_count \in Nat /\ meta'.page_count \in Nat /\ header.page_count \in Nat
      /\ FirstFree \in Nat /\ \A m \in Page : m \in Nat
  BY <1>0, <1>3, <1>4, Numbers, PagerConstants DEF Meta
<1>8. /\ no >= FirstFree
      /\ \A q \in Pagers \ {p} : no \notin allocated_pages[q] \cup pending_freelist[q]
  <2>1. CASE no \in pending_freelist[p]
    BY <1>0, <2>1 DEF PageInv
  <2>2. CASE no = meta.page_count
    BY <1>0, <1>7, <2>2 DEF PageInv
  <2> QED
    BY <1>5, <2>1, <2>2
<1>9. /\ \A m \in Page : m >= meta'.page_count => pool'[m] = Absent /\ file[m].rows = {}
      /\ \A q \in Pagers : \A m \in dirty_pages'[q] : pool'[m] # Absent /\ m < meta'.page_count
      /\ \A q \in Pagers : \A m \in allocated_pages'[q] \cup pending_freelist'[q] :
            m >= FirstFree /\ m < meta'.page_count
  <2>1. ASSUME NEW m \in Page, m >= meta'.page_count PROVE pool'[m] = Absent /\ file[m].rows = {}
    <3>1. m # no /\ m >= meta.page_count
      BY <1>4, <1>7, <2>1
    <3> QED
      BY <1>0, <1>4, <3>1 DEF PageInv
  <2>2. ASSUME NEW q \in Pagers, NEW m \in dirty_pages'[q] PROVE pool'[m] # Absent /\ m < meta'.page_count
    <3>1. CASE m = no
      BY <1>4, <3>1
    <3>2. CASE m # no
      <4>1. m \in dirty_pages[q] /\ m \in Page
        BY <1>0, <1>4, <3>2 DEF TypeInv
      <4> QED
        BY <1>0, <1>4, <1>7, <3>2, <4>1 DEF PageInv
    <3> QED
      BY <3>1, <3>2
  <2>3. ASSUME NEW q \in Pagers, NEW m \in allocated_pages'[q] \cup pending_freelist'[q]
        PROVE  m >= FirstFree /\ m < meta'.page_count
    <3>1. CASE m = no
      BY <1>4, <1>8, <3>1
    <3>2. CASE m # no
      <4>1. m \in allocated_pages[q] \cup pending_freelist[q] /\ m \in Page
        BY <1>0, <1>5, <3>2 DEF TypeInv
      <4> QED
        BY <1>0, <1>4, <1>7, <4>1 DEF PageInv
    <3> QED
      BY <3>1, <3>2
  <2> QED
    BY <2>1, <2>2, <2>3
<1>10. /\ \A q \in Pagers : \A m \in pending_freelist'[q] : pool'[m] = Absent /\ file[m].rows = {}
       /\ \A q \in Pagers : allocated_pages'[q] \subseteq dirty_pages'[q]
       /\ \A q \in Pagers : stage[q] = "idle" => dirty_pages'[q] = {} /\ allocated_pages'[q] = {}
       /\ Risky => \A q \in Pagers : dirty_pages'[q] \subseteq store_load.writes[q] \cup allocated_pages'[q]
       /\ Risky => \A q \in Pagers : stage[q] = "exec" =>
             \A m \in allocated_pages'[q] : file[m].rows = {}
  <2>1. ASSUME NEW q \in Pagers, NEW m \in pending_freelist'[q]
        PROVE  m \in pending_freelist[q] /\ m # no /\ m \in Page
    BY <1>0, <1>5, <1>8 DEF TypeInv
  <2>2. ASSUME NEW q \in Pagers PROVE allocated_pages'[q] \subseteq dirty_pages'[q]
    BY <1>0, <1>4, <1>5 DEF PageInv
  <2>3. ASSUME NEW q \in Pagers, stage[q] = "idle"
        PROVE  dirty_pages'[q] = {} /\ allocated_pages'[q] = {}
    BY <1>0, <1>4, <1>5, <2>3 DEF PageInv
  <2>4. ASSUME Risky, NEW q \in Pagers
        PROVE  dirty_pages'[q] \subseteq store_load.writes[q] \cup allocated_pages'[q]
    BY <1>0, <1>4, <1>5, <2>4 DEF PageInv
  <2>5. ASSUME Risky, NEW q \in Pagers, stage[q] = "exec", NEW m \in allocated_pages'[q]
        PROVE  file[m].rows = {}
    <3>1. m = no \/ m \in allocated_pages[q]
      BY <1>5
    <3> QED
      BY <1>0, <1>5, <2>5, <3>1 DEF PageInv
  <2> QED
    BY <1>0, <1>4, <2>1, <2>2, <2>3, <2>4, <2>5 DEF PageInv
<1>11. \A q, r \in Pagers : q # r =>
          (allocated_pages'[q] \cup pending_freelist'[q])
             \cap (allocated_pages'[r] \cup pending_freelist'[r]) = {}
  <2>1. ASSUME NEW q \in Pagers, NEW m \in allocated_pages'[q] \cup pending_freelist'[q]
        PROVE  m \in allocated_pages[q] \cup pending_freelist[q] \/ (q = p /\ m = no)
    BY <1>5
  <2> QED
    BY <1>0, <1>8, <2>1 DEF PageInv
<1>12. ~Happens("rollback") => \A q \in Pagers : pending_freelist'[q] = {}
  BY <1>0, <1>5 DEF PageInv
<1>13. /\ meta'.freelist_head = 0 /\ header'.freelist_head = 0
       /\ header'.page_count <= meta'.page_count /\ meta'.page_count >= FirstFree
  BY <1>0, <1>4, <1>7 DEF PageInv
<1>14. PageInv'
  BY <1>4, <1>5, <1>6, <1>9, <1>10, <1>11, <1>12, <1>13 DEF PageInv, Happens, Page
<1> QED
  BY <1>0, <1>2, <1>3, <1>6, <1>14 DEF AllInv

\* Where statements may be undone, connections have pages of their own.
LEMMA DirtyApart ==
  ASSUME Sheltered, TypeInv, PageInv, Risky, NEW p \in Pagers, NEW q \in Pagers, p # q,
         NEW no \in dirty_pages[p]
  PROVE  no \notin dirty_pages[q]
<1>1. \A r \in Pagers : \A m \in allocated_pages[r] : m >= FirstFree
  BY DEF PageInv
<1>2. \A r \in Pagers : \A m \in store_load.writes[r] : ~(m >= FirstFree)
  BY PagerConstants DEF Sheltered
<1>3. \A r \in Pagers : dirty_pages[r] \subseteq store_load.writes[r] \cup allocated_pages[r]
  BY DEF PageInv
<1>4. allocated_pages[p] \cap allocated_pages[q] = {}
  BY DEF PageInv
<1>5. store_load.writes[p] \cap store_load.writes[q] = {}
  BY DEF Sheltered
<1> QED
  BY <1>1, <1>2, <1>3, <1>4, <1>5

LEMMA CommitNothingKeeps ==
  ASSUME AllInv, NEW p \in Pagers, CommitNothing(p) PROVE AllInv'
<1>0. Sheltered /\ TypeInv /\ LogInv /\ LockInv /\ PageInv /\ ChainInv /\ NumberInv /\ ExecInv /\ EndInv
  BY DEF AllInv
<1>1. /\ stage[p] = "exec" /\ dirty_pages[p] = {}
      /\ stage' = [stage EXCEPT ![p] = "idle"]
      /\ acked' = acked \cup {stmt_no[p]}
      /\ UNCHANGED <<store_load, file, header, wal, wal_synced, pool, meta, apply_lock, stmt_no,
                     cursor, wal_index, dirty_pages, allocated_pages, pending_freelist, orphans,
                     running, crashes, next_stmt, next_row, wrote, undone>>
  BY DEF CommitNothing, diskVars, sharedVars, processVars
<1>2. stage'[p] = "idle" /\ \A q \in Pagers \ {p} : stage'[q] = stage[q]
  BY <1>0, <1>1 DEF TypeInv
<1>3. (Sheltered' <=> Sheltered) /\ (Risky' <=> Risky) /\ (Crashing' <=> Crashing)
  BY <1>1, SameLoad
<1>4. /\ running /\ stmt_no[p] \in StmtId /\ wrote[stmt_no[p]] = {} /\ allocated_pages[p] = {}
      /\ stmt_no[p] < next_stmt /\ stmt_no[p] \notin undone
  BY <1>0, <1>1 DEF LogInv, NumberInv, ExecInv, PageInv
<1>5. TypeInv'
  BY <1>0, <1>1, <1>4 DEF TypeInv
<1>6. LogInv'
  BY <1>0, <1>1, <1>2, <1>3 DEF LogInv
<1>7. LockInv'
  BY <1>0, <1>1, <1>2 DEF LockInv
<1>8. PageInv'
  BY <1>0, <1>1, <1>2, <1>3, <1>4 DEF PageInv, Happens
<1>9. ChainInv'
  BY <1>0, <1>1, <1>2, <1>3 DEF ChainInv, Holds, Live
<1>10. NumberInv'
  <2>1. \A s \in StmtId : s >= next_stmt => s # stmt_no[p]
    BY <1>0, <1>4, Numbers
  <2>2. \A q \in Pagers \ {p} : stage[q] # "idle" => stmt_no[q] # stmt_no[p]
    BY <1>0, <1>1 DEF NumberInv
  <2> QED
    BY <1>0, <1>1, <1>2, <2>1, <2>2 DEF NumberInv, StmtId, Live
<1>11. ExecInv'
  BY <1>0, <1>1, <1>2, <1>3 DEF ExecInv, Holds
<1>12. \A s \in StmtId : s \notin Executing' => s \notin Executing \/ s = stmt_no[p]
  BY <1>1, <1>2 DEF Executing
<1>13. EndInv'
  <2>1. ASSUME NEW s \in StmtId
        PROVE  (InFile(s)' <=> InFile(s)) /\ (Out(s)' <=> Out(s))
    BY <1>1 DEF InFile, Out, Holds, Live
  <2>2. InFile(stmt_no[p])'
    BY <1>1, <1>4 DEF InFile
  <2>3. ASSUME Risky', NEW s \in StmtId \ Executing'
        PROVE  (InFile(s)' \/ Out(s)') /\ (s \in undone' => Out(s)')
    <3>1. CASE s = stmt_no[p]
      BY <1>1, <1>4, <2>2, <3>1
    <3>2. CASE s \notin Executing
      BY <1>0, <1>1, <1>3, <1>4, <2>1, <2>3, <3>2 DEF EndInv
    <3> QED
      BY <1>12, <3>1, <3>2
  <2>4. \A s \in acked' : \A w \in wrote'[s] :
            w[2] \in file'[w[1]].rows /\ w[1] < header'.page_count
    BY <1>0, <1>1, <1>4 DEF EndInv
  <2> QED
    BY <1>0, <1>1, <1>3, <1>4, <1>12, <2>3, <2>4 DEF EndInv, StmtId
<1> QED
  BY <1>0, <1>3, <1>5, <1>6, <1>7, <1>8, <1>9, <1>10, <1>11, <1>13 DEF AllInv

LEMMA RollbackKeeps ==
  ASSUME AllInv, NEW p \in Pagers, Rollback(p) PROVE AllInv'
<1>0. Sheltered /\ TypeInv /\ LogInv /\ LockInv /\ PageInv /\ ChainInv /\ NumberInv /\ ExecInv /\ EndInv
  BY DEF AllInv
<1>1. /\ stage[p] = "exec" /\ Happens("rollback")
      /\ pool' = [no \in Page |-> IF no \in dirty_pages[p] THEN Absent ELSE pool[no]]
      /\ pending_freelist' = [pending_freelist EXCEPT ![p] = @ \cup allocated_pages[p]]
      /\ allocated_pages' = [allocated_pages EXCEPT ![p] = {}]
      /\ dirty_pages' = [dirty_pages EXCEPT ![p] = {}]
      /\ wal_index' = [wal_index EXCEPT ![p] = NoIndex]
      /\ cursor' = [cursor EXCEPT ![p] = 0]
      /\ stage' = [stage EXCEPT ![p] = "idle"]
      /\ undone' = undone \cup {stmt_no[p]}
      /\ UNCHANGED <<store_load, file, header, wal, wal_synced, meta, apply_lock, stmt_no, orphans,
                     running, crashes, next_stmt, next_row, wrote, acked>>
  BY DEF Rollback, diskVars, processVars
<1>2. /\ stage'[p] = "idle" /\ \A q \in Pagers \ {p} : stage'[q] = stage[q]
      /\ cursor'[p] = 0 /\ \A q \in Pagers \ {p} : cursor'[q] = cursor[q]
      /\ dirty_pages'[p] = {} /\ \A q \in Pagers \ {p} : dirty_pages'[q] = dirty_pages[q]
      /\ allocated_pages'[p] = {} /\ \A q \in Pagers \ {p} : allocated_pages'[q] = allocated_pages[q]
      /\ pending_freelist'[p] = pending_freelist[p] \cup allocated_pages[p]
      /\ \A q \in Pagers \ {p} : pending_freelist'[q] = pending_freelist[q]
  BY <1>0, <1>1 DEF TypeInv
<1>3. (Sheltered' <=> Sheltered) /\ (Risky' <=> Risky) /\ (Crashing' <=> Crashing) /\ Risky
  BY <1>1, SameLoad DEF Risky
<1>4. /\ running /\ stmt_no[p] \in StmtId /\ stmt_no[p] < next_stmt /\ stmt_no[p] \notin acked
      /\ wal[p] = <<>> /\ cursor[p] = 0
  BY <1>0, <1>1 DEF LogInv, NumberInv
\* The pages that leave the pool are no other pager's.
<1>5. /\ \A q \in Pagers \ {p} : \A no \in dirty_pages[q] : pool'[no] = pool[no]
      /\ \A no \in Page : pool'[no] = Absent \/ pool'[no] = pool[no]
      /\ \A no \in dirty_pages[p] : pool'[no] = Absent
  <2>1. \A q \in Pagers \ {p} : \A no \in dirty_pages[q] : no \in Page /\ no \notin dirty_pages[p]
    BY <1>0, <1>3, DirtyApart DEF TypeInv
  <2>2. \A no \in dirty_pages[p] : no \in Page
    BY <1>0 DEF TypeInv
  <2> QED
    BY <1>1, <2>1, <2>2
<1>6. Absent.image.rows = {}
  BY DEF Absent, ZeroPage
<1>7. TypeInv'
  <2>1. pool' \in [Page -> Frame \cup {Absent}]
    BY <1>0, <1>1 DEF TypeInv
  <2>2. wal_index' = [q \in Pagers |-> NoIndex]
    BY <1>0, <1>1 DEF TypeInv
  <2>3. undone' \subseteq StmtId
    BY <1>0, <1>1, <1>4 DEF TypeInv
  <2> QED
    BY <1>0, <1>1, <2>1, <2>2, <2>3 DEF TypeInv
<1>8. LogInv'
  BY <1>0, <1>1, <1>2, <1>3, <1>4 DEF LogInv
<1>9. LockInv'
  BY <1>0, <1>1, <1>2 DEF LockInv
<1>10. PageInv'
  <2>1. \A no \in Page : no >= meta.page_count => pool'[no] = Absent /\ file[no].rows = {}
    BY <1>0, <1>5 DEF PageInv
  <2>2. ASSUME NEW q \in Pagers
        PROVE  /\ \A no \in dirty_pages'[q] : pool'[no] # Absent /\ no < meta.page_count
               /\ dirty_pages'[q] \subseteq store_load.writes[q] \cup allocated_pages'[q]
               /\ allocated_pages'[q] \subseteq dirty_pages'[q]
               /\ stage'[q] = "idle" => dirty_pages'[q] = {} /\ allocated_pages'[q] = {}
               /\ stage'[q] = "exec" => \A no \in allocated_pages'[q] : file[no].rows = {}
               /\ \A no \in allocated_pages'[q] \cup pending_freelist'[q] :
                     no >= FirstFree /\ no < meta.page_count
    <3>1. CASE q = p
      BY <1>0, <1>2, <3>1 DEF PageInv
    <3>2. CASE q # p
      BY <1>0, <1>2, <1>3, <1>5, <3>2 DEF PageInv
    <3> QED
      BY <3>1, <3>2
  <2>3. ASSUME NEW q \in Pagers, NEW no \in pending_freelist'[q]
        PROVE  pool'[no] = Absent /\ file[no].rows = {}
    <3>1. CASE no \in pending_freelist[q]
      BY <1>0, <1>5, <3>1 DEF PageInv, TypeInv
    <3>2. CASE q = p /\ no \in allocated_pages[p]
      BY <1>0, <1>1, <1>3, <1>5, <3>2 DEF PageInv
    <3> QED
      BY <1>2, <3>1, <3>2
  <2>4. \A q, r \in Pagers : q # r =>
          (allocated_pages'[q] \cup pending_freelist'[q])
             \cap (allocated_pages'[r] \cup pending_freelist'[r]) = {}
    <3>1. \A q \in Pagers : allocated_pages'[q] \cup pending_freelist'[q]
                              \subseteq allocated_pages[q] \cup pending_freelist[q]
      BY <1>2
    <3> QED
      BY <1>0, <3>1 DEF PageInv
  <2>5. ~Happens("alloc") => \A q \in Pagers : allocated_pages'[q] = {} /\ pending_freelist'[q] = {}
    BY <1>0, <1>2 DEF PageInv
  <2> QED
    BY <1>0, <1>1, <1>3, <2>1, <2>2, <2>3, <2>4, <2>5 DEF PageInv, Happens
<1>11. ChainInv'
  <2>1. \A no \in Page : pool'[no] # Absent => file[no].rows \subseteq pool'[no].image.rows
    BY <1>0, <1>5 DEF ChainInv
  <2>2. ASSUME NEW q \in Pagers, NEW no \in Page, NEW i \in DOMAIN wal[q], Holds(q, i, no)
        PROVE  q # p /\ no \in dirty_pages'[q] /\ pool'[no] = pool[no]
    <3>1. q # p
      BY <1>4 
    <3> QED
      BY <1>0, <1>2, <1>4, <1>5, <2>2, <3>1 DEF ChainInv
  <2> QED
    BY <1>0, <1>1, <1>2, <1>3, <2>1, <2>2 DEF ChainInv, Holds, Live
<1>12. NumberInv'
  <2>1. \A s \in StmtId : s >= next_stmt => s # stmt_no[p]
    BY <1>0, <1>4, Numbers
  <2>2. \A q \in Pagers \ {p} : stage[q] # "idle" => stmt_no[q] # stmt_no[p]
    BY <1>0, <1>1 DEF NumberInv
  <2>3. \A no \in Page : pool'[no].image.rows \subseteq pool[no].image.rows
    BY <1>5, <1>6
  <2> QED
    BY <1>0, <1>1, <1>2, <2>1, <2>2, <2>3 DEF NumberInv, StmtId, Live
<1>13. ExecInv'
  <2>1. ASSUME NEW q \in Pagers, stage'[q] # "idle", NEW w \in wrote[stmt_no[q]]
        PROVE  q # p /\ w[1] \in dirty_pages'[q] /\ pool'[w[1]] = pool[w[1]]
    BY <1>0, <1>2, <1>5, <2>1 DEF ExecInv
  <2> QED
    BY <1>0, <1>1, <1>2, <1>3, <2>1 DEF ExecInv, Holds
<1>14. \A s \in StmtId : s \notin Executing' => s \notin Executing \/ s = stmt_no[p]
  BY <1>1, <1>2 DEF Executing
<1>15. EndInv'
  <2>1. ASSUME NEW s \in StmtId
        PROVE  (InFile(s) => InFile(s)') /\ (Out(s) => Out(s)')
    <3>1. ASSUME Out(s), NEW w \in wrote[s] PROVE w[2] \notin pool'[w[1]].image.rows
      <4>1. w[1] \in Page
        BY <1>0, Numbers
      <4> QED
        BY <1>5, <1>6, <3>1, <4>1 DEF Out
    <3> QED
      BY <1>1, <3>1 DEF InFile, Out, Holds, Live
  <2>2. ASSUME NEW s \in StmtId, s = stmt_no[p] PROVE Out(s)'
    <3>1. ASSUME NEW w \in wrote[s]
          PROVE  /\ w[2] \notin file[w[1]].rows /\ w[2] \notin pool'[w[1]].image.rows
                 /\ \A q \in Pagers : \A i \in DOMAIN wal[q] : ~Holds(q, i, w[1])
      <4>1. w[1] \in dirty_pages[p] /\ w[2] \notin file[w[1]].rows /\ w[1] \in Page
        BY <1>0, <1>1, <1>3, <1>4, <2>2, Numbers DEF ExecInv
      <4>2. pool'[w[1]].image.rows = {}
        BY <1>5, <1>6, <4>1
      <4>3. ASSUME NEW q \in Pagers, NEW i \in DOMAIN wal[q], Holds(q, i, w[1]) PROVE FALSE
        <5>1. w[1] \in dirty_pages[q]
          BY <1>0, <1>4, <4>1, <4>3 DEF ChainInv
        <5>2. q = p
          BY <1>0, <1>3, <4>1, <5>1, DirtyApart
        <5> QED
          BY <1>4, <5>2
      <4> QED
        BY <4>1, <4>2, <4>3
    <3> QED
      BY <1>1, <3>1 DEF Out, Holds, Live
  <2>3. ASSUME NEW s \in StmtId \ Executing'
        PROVE  (InFile(s)' \/ Out(s)') /\ (s \in undone' => Out(s)')
    <3>1. CASE s = stmt_no[p]
      BY <2>2, <3>1
    <3>2. CASE s \notin Executing /\ s # stmt_no[p]
      BY <1>0, <1>1, <1>3, <1>4, <2>1, <3>2 DEF EndInv
    <3> QED
      BY <1>14, <3>1, <3>2
  <2> QED
    BY <1>0, <1>1, <1>3, <1>4, <2>3 DEF EndInv, StmtId
<1> QED
  BY <1>0, <1>3, <1>7, <1>8, <1>9, <1>10, <1>11, <1>12, <1>13, <1>15 DEF AllInv

LEMMA FlushPageKeeps ==
  ASSUME AllInv, NEW p \in Pagers, NEW no \in Page, FlushPage(p, no) PROVE AllInv'
<1>0. Sheltered /\ TypeInv /\ LogInv /\ LockInv /\ PageInv /\ ChainInv /\ NumberInv /\ ExecInv /\ EndInv
  BY DEF AllInv
<1> DEFINE rec == PageRecord(no, pool[no].image)
           k == cursor[p]
           new == WriteAt(wal[p], Len(wal[p]), rec)
<1>1. /\ stage[p] = "flush" /\ no \in Unflushed(p) /\ no \in Resident
      /\ wal' = [wal EXCEPT ![p] = WriteAt(wal[p], cursor[p], rec)]
      /\ cursor' = [cursor EXCEPT ![p] = cursor[p] + 1]
      /\ UNCHANGED <<store_load, file, header, wal_synced, pool, meta, apply_lock, stage, stmt_no,
                     wal_index, dirty_pages, allocated_pages, pending_freelist, orphans,
                     running, crashes, next_stmt, next_row, wrote, acked, undone>>
  BY DEF FlushPage, sharedVars, processVars, storeHist
<1>2. /\ k \in Nat /\ wal[p] \in Seq(LogRecord) /\ Len(wal[p]) = k /\ Images(wal[p], k)
      /\ wal_synced[p] = <<>> /\ running /\ DOMAIN wal[p] = 1..k
  <2>1. k \in Nat /\ wal[p] \in Seq(LogRecord) /\ Len(wal[p]) = k /\ Images(wal[p], k)
        /\ wal_synced[p] = <<>> /\ running
    BY <1>0, <1>1 DEF TypeInv, LogInv
  <2> QED
    BY <2>1, LogShape
<1>3. /\ no \in dirty_pages[p] /\ \A i \in 1..k : wal[p][i].no # no
      /\ pool[no] # Absent /\ pool[no].image \in Image
  BY <1>0, <1>1 DEF Unflushed, Resident, TypeInv, Frame
<1>4. rec \in LogRecord /\ rec.tag = "page" /\ rec.no = no /\ rec.image = pool[no].image
  BY <1>3, RecordTypes DEF PageRecord
<1> HIDE DEF rec, k
<1>5. /\ new \in Seq(LogRecord) /\ Len(new) = k + 1 /\ DOMAIN new = 1..(k + 1)
      /\ new[k + 1] = rec /\ \A i \in 1..k : new[i] = wal[p][i]
  <2>1. /\ new \in Seq(LogRecord) /\ Len(new) = Len(wal[p]) + 1
        /\ DOMAIN new = 1..(Len(wal[p]) + 1)
        /\ new[Len(wal[p]) + 1] = rec
        /\ \A i \in DOMAIN wal[p] : i \in DOMAIN new /\ new[i] = wal[p][i]
    BY <1>2, <1>4, WriteAtEnd, Zenon
  <2> QED
    BY <1>2, <2>1
<1> HIDE DEF new
<1>6. /\ wal'[p] = new /\ cursor'[p] = k + 1
      /\ \A q \in Pagers \ {p} : wal'[q] = wal[q] /\ cursor'[q] = cursor[q]
  BY <1>0, <1>1, <1>2 DEF TypeInv, new, k
<1>7. (Sheltered' <=> Sheltered) /\ (Risky' <=> Risky) /\ (Crashing' <=> Crashing)
  BY <1>1, SameLoad
\* The records are the old ones and the new one.
<1>8. \A q \in Pagers : \A i \in DOMAIN wal'[q] :
         \/ i \in DOMAIN wal[q] /\ wal'[q][i] = wal[q][i]
         \/ q = p /\ wal'[q][i] = rec
  <2>1. \A i \in 1..(k + 1) : i \in 1..k \/ i = k + 1
    BY <1>2
  <2> QED
    BY <1>2, <1>5, <1>6, <2>1
<1>9. TypeInv'
  <2>1. wal' \in [Pagers -> Seq(LogRecord)]
    BY <1>0, <1>1, <1>2, <1>5 DEF TypeInv, new, k
  <2>2. cursor' \in [Pagers -> Nat]
    BY <1>0, <1>1, <1>2 DEF TypeInv, k
  <2> QED
    BY <1>0, <1>1, <2>1, <2>2 DEF TypeInv
<1>10. LogInv'
  <2>1. Images(new, k + 1)
    <3>1. \A i \in 1..(k + 1) : i \in 1..k \/ i = k + 1
      BY <1>2
    <3>2. \A i \in 1..(k + 1) : new[i].tag = "page" /\ new[i].no \in Page
      BY <1>2, <1>4, <1>5, <3>1 DEF Images
    <3>3. \A i, j \in 1..(k + 1) : new[i].no = new[j].no => i = j
      BY <1>2, <1>3, <1>4, <1>5, <3>1, SMTT(30) DEF Images
    <3> QED
      BY <3>2, <3>3 DEF Images
  <2> QED
    BY <1>0, <1>1, <1>2, <1>5, <1>6, <1>7, <2>1 DEF LogInv
<1>11. LockInv'
  BY <1>0, <1>1 DEF LockInv
<1>12. PageInv'
  BY <1>0, <1>1, <1>7 DEF PageInv, Happens
<1>13. ChainInv'
  <2>1. ASSUME NEW q \in Pagers, NEW m \in Page, NEW i \in DOMAIN wal'[q], Holds(q, i, m)'
        PROVE  /\ m \in dirty_pages[q]
               /\ Crashing => m \in store_load.writes[q]
               /\ stage[q] \in {"flush", "apply"} =>
                     /\ file[m].rows \subseteq wal'[q][i].image.rows
                     /\ wal'[q][i].image.rows \subseteq pool[m].image.rows
               /\ Risky /\ stage[q] \in {"header", "reset"} =>
                     file[m].rows \subseteq wal'[q][i].image.rows
    <3>1. CASE i \in DOMAIN wal[q] /\ wal'[q][i] = wal[q][i]
      BY <1>0, <1>2, <2>1, <3>1 DEF ChainInv, Holds, Live
    <3>2. CASE q = p /\ wal'[q][i] = rec
      <4>1. m = no
        BY <1>4, <2>1, <3>2 DEF Holds
      <4>2. Crashing => m \in store_load.writes[q]
        BY <1>0, <1>3, <3>2, <4>1 DEF PageInv, Sheltered, Risky
      <4> QED
        BY <1>0, <1>1, <1>3, <1>4, <3>2, <4>1, <4>2 DEF ChainInv
    <3> QED
      BY <1>8, <3>1, <3>2
  <2> QED
    BY <1>0, <1>1, <1>2, <1>7, <2>1 DEF ChainInv
<1>14. NumberInv'
  <2>1. ASSUME NEW q \in Pagers, NEW i \in DOMAIN wal'[q], NEW r \in wal'[q][i].image.rows
        PROVE  r < next_row
    BY <1>0, <1>2, <1>4, <1>8 DEF NumberInv, Live
  <2> QED
    BY <1>0, <1>1, <2>1 DEF NumberInv, StmtId
<1>15. ExecInv'
  <2>1. ASSUME NEW q \in Pagers, stage[q] \in {"flush", "apply"}, NEW w \in wrote[stmt_no[q]],
               NEW i \in DOMAIN wal'[q], Holds(q, i, w[1])'
        PROVE  w[2] \in wal'[q][i].image.rows
    <3>1. CASE i \in DOMAIN wal[q] /\ wal'[q][i] = wal[q][i]
      BY <1>0, <2>1, <3>1 DEF ExecInv, Holds
    <3>2. CASE q = p /\ wal'[q][i] = rec
      <4>1. w[1] = no
        BY <1>1, <1>4, <2>1, <3>2 DEF Holds
      <4> QED
        BY <1>0, <1>1, <1>4, <2>1, <3>2, <4>1 DEF ExecInv
    <3> QED
      BY <1>8, <3>1, <3>2
  <2>2. ASSUME NEW q \in Pagers, stage[q] = "apply", NEW w \in wrote[stmt_no[q]]
        PROVE  \E i \in DOMAIN wal'[q] : Holds(q, i, w[1])'
    <3>1. q # p
      BY <1>1, <2>2
    <3>2. PICK i \in DOMAIN wal[q] : Holds(q, i, w[1])
      BY <1>0, <2>2 DEF ExecInv
    <3> QED
      BY <1>1, <1>6, <3>1, <3>2 DEF Holds
  <2> QED
    BY <1>0, <1>1, <1>7, <2>1, <2>2 DEF ExecInv
<1>16. EndInv'
  <2>1. Executing' = Executing
    BY <1>1 DEF Executing
  <2>2. ASSUME NEW s \in StmtId PROVE (InFile(s) => InFile(s)') /\ (Out(s) => Out(s)')
    <3>1. ASSUME Out(s), NEW w \in wrote[s], NEW q \in Pagers, NEW i \in DOMAIN wal'[q],
                 wal'[q][i].tag = "page", wal'[q][i].no = w[1]
          PROVE  w[2] \notin wal'[q][i].image.rows
      <4>1. CASE i \in DOMAIN wal[q] /\ wal'[q][i] = wal[q][i]
        BY <1>2, <3>1, <4>1 DEF Out, Holds, Live
      <4>2. CASE q = p /\ wal'[q][i] = rec
        BY <1>4, <3>1, <4>2 DEF Out
      <4> QED
        BY <1>8, <4>1, <4>2
    <3> QED
      BY <1>1, <3>1 DEF InFile, Out, Holds
  <2>3. ASSUME Risky', NEW s \in StmtId \ Executing'
        PROVE  (InFile(s)' \/ Out(s)') /\ (s \in undone' => Out(s)')
    BY <1>0, <1>1, <1>2, <1>7, <2>1, <2>2, <2>3 DEF EndInv
  <2> QED
    BY <1>0, <1>1, <1>2, <1>7, <2>1, <2>3 DEF EndInv, StmtId
<1> QED
  BY <1>0, <1>7, <1>9, <1>10, <1>11, <1>12, <1>13, <1>14, <1>15, <1>16 DEF AllInv

\* When nothing is left to flush, every page of the statement has a record.
LEMMA AllFlushed ==
  ASSUME TypeInv, LogInv, NEW p \in Pagers, stage[p] = "flush", Unflushed(p) = {},
         NEW no \in dirty_pages[p]
  PROVE  \E i \in DOMAIN wal[p] : Holds(p, i, no)
<1>1. no \in Page /\ wal_index[p][no] = 0
  BY DEF TypeInv, NoIndex
<1>2. PICK i \in 1..cursor[p] : wal[p][i].no = no
  BY <1>1 DEF Unflushed
<1>3. Images(wal[p], cursor[p]) /\ DOMAIN wal[p] = 1..cursor[p]
  BY LogShape DEF LogInv, TypeInv
<1> QED
  BY <1>2, <1>3 DEF Images, Holds

LEMMA SealKeeps ==
  ASSUME AllInv, NEW p \in Pagers, Seal(p) PROVE AllInv'
<1>0. Sheltered /\ TypeInv /\ LogInv /\ LockInv /\ PageInv /\ ChainInv /\ NumberInv /\ ExecInv /\ EndInv
  BY DEF AllInv
<1>1. /\ stage[p] = "flush" /\ Unflushed(p) = {}
      /\ wal' = [wal EXCEPT ![p] = Marked(p)]
      /\ wal_synced' = [wal_synced EXCEPT ![p] = wal'[p]]
      /\ cursor' = [cursor EXCEPT ![p] = cursor[p] + 1]
      /\ stage' = [stage EXCEPT ![p] = "apply"]
      /\ UNCHANGED <<store_load, file, header, pool, meta, apply_lock, stmt_no,
                     wal_index, dirty_pages, allocated_pages, pending_freelist, orphans,
                     running, crashes, next_stmt, next_row, wrote, acked, undone>>
  BY DEF Seal, Marked, sharedVars, processVars, storeHist
<1>2. /\ Marked(p) \in Seq(LogRecord) /\ Whole(Marked(p)) /\ cursor[p] \in Nat
      /\ Marked(p)[cursor[p] + 1] = CommitRecord(cursor[p])
      /\ \A i \in DOMAIN wal[p] : i \in DOMAIN Marked(p) /\ Marked(p)[i] = wal[p][i]
      /\ DOMAIN wal[p] = 1..cursor[p] /\ DOMAIN Marked(p) = 1..(cursor[p] + 1)
  BY <1>0, <1>1, MarkedWhole DEF TypeInv
<1>3. /\ wal'[p] = Marked(p) /\ wal_synced'[p] = Marked(p) /\ stage'[p] = "apply"
      /\ \A q \in Pagers \ {p} : /\ wal'[q] = wal[q] /\ wal_synced'[q] = wal_synced[q]
                                 /\ stage'[q] = stage[q] /\ cursor'[q] = cursor[q]
  BY <1>0, <1>1 DEF TypeInv
<1>4. (Sheltered' <=> Sheltered) /\ (Risky' <=> Risky) /\ (Crashing' <=> Crashing) /\ running
  BY <1>0, <1>1, SameLoad DEF LogInv
\* The records are the old ones and the marker.
<1>5. /\ \A q \in Pagers : \A i \in DOMAIN wal'[q] :
            \/ i \in DOMAIN wal[q] /\ wal'[q][i] = wal[q][i]
            \/ wal'[q][i].tag # "page" /\ wal'[q][i].image.rows = {}
      /\ \A q \in Pagers : \A i \in DOMAIN wal[q] : i \in DOMAIN wal'[q] /\ wal'[q][i] = wal[q][i]
  <2>1. \A i \in 1..(cursor[p] + 1) : i \in 1..cursor[p] \/ i = cursor[p] + 1
    BY <1>2
  <2>2. CommitRecord(cursor[p]).tag # "page" /\ CommitRecord(cursor[p]).image.rows = {}
    BY DEF CommitRecord, ZeroPage
  <2>3. ASSUME NEW i \in DOMAIN wal'[p]
        PROVE  \/ i \in DOMAIN wal[p] /\ wal'[p][i] = wal[p][i]
               \/ wal'[p][i].tag # "page" /\ wal'[p][i].image.rows = {}
    <3>1. i \in 1..cursor[p] \/ i = cursor[p] + 1
      BY <1>2, <1>3, <2>1
    <3> QED
      BY <1>2, <1>3, <2>2, <3>1
  <2>4. \A i \in DOMAIN wal[p] : i \in DOMAIN wal'[p] /\ wal'[p][i] = wal[p][i]
    BY <1>2, <1>3
  <2> QED
    BY <1>3, <2>3, <2>4
<1>6. ASSUME NEW q \in Pagers, NEW i \in DOMAIN wal'[q], NEW no, Holds(q, i, no)'
      PROVE  i \in DOMAIN wal[q] /\ Holds(q, i, no) /\ wal'[q][i] = wal[q][i]
  BY <1>5, <1>6 DEF Holds
<1>7. TypeInv'
  <2>1. wal' \in [Pagers -> Seq(LogRecord)] /\ wal_synced' \in [Pagers -> Seq(LogRecord)]
    BY <1>0, <1>1, <1>2, <1>3 DEF TypeInv
  <2>2. cursor' \in [Pagers -> Nat]
    BY <1>0, <1>1, <1>2 DEF TypeInv
  <2> QED
    BY <1>0, <1>1, <2>1, <2>2 DEF TypeInv
<1>8. LogInv'
  BY <1>0, <1>1, <1>2, <1>3, <1>4 DEF LogInv
<1>9. LockInv'
  BY <1>0, <1>1, <1>3 DEF LockInv
<1>10. PageInv'
  BY <1>0, <1>1, <1>3, <1>4 DEF PageInv, Happens
<1>11. ChainInv'
  <2>1. ASSUME NEW q \in Pagers, NEW m \in Page, NEW i \in DOMAIN wal'[q], Holds(q, i, m)'
        PROVE  /\ m \in dirty_pages[q]
               /\ Crashing => m \in store_load.writes[q]
               /\ stage'[q] \in {"flush", "apply"} =>
                     /\ file[m].rows \subseteq wal'[q][i].image.rows
                     /\ wal'[q][i].image.rows \subseteq pool[m].image.rows
               /\ Risky /\ stage'[q] \in {"header", "reset"} =>
                     file[m].rows \subseteq wal'[q][i].image.rows
    <3>1. i \in DOMAIN wal[q] /\ Holds(q, i, m) /\ wal'[q][i] = wal[q][i]
      BY <1>6, <2>1
    <3> QED
      BY <1>0, <1>1, <1>3, <1>4, <3>1 DEF ChainInv, Live
  <2> QED
    BY <1>0, <1>1, <1>4, <2>1 DEF ChainInv
<1>12. NumberInv'
  <2>1. ASSUME NEW q \in Pagers, NEW i \in DOMAIN wal'[q], NEW r \in wal'[q][i].image.rows
        PROVE  r < next_row
    BY <1>0, <1>4, <1>5 DEF NumberInv, Live
  <2> QED
    BY <1>0, <1>1, <1>3, <2>1 DEF NumberInv, StmtId
<1>13. ExecInv'
  <2>1. ASSUME NEW q \in Pagers, stage'[q] \in {"flush", "apply"}, NEW w \in wrote[stmt_no[q]],
               NEW i \in DOMAIN wal'[q], Holds(q, i, w[1])'
        PROVE  w[2] \in wal'[q][i].image.rows
    <3>1. i \in DOMAIN wal[q] /\ Holds(q, i, w[1]) /\ wal'[q][i] = wal[q][i]
      BY <1>5, <2>1 DEF Holds
    <3> QED
      BY <1>0, <1>1, <1>3, <2>1, <3>1 DEF ExecInv
  <2>2. ASSUME NEW q \in Pagers, stage'[q] = "apply", NEW w \in wrote[stmt_no[q]]
        PROVE  \E i \in DOMAIN wal'[q] : Holds(q, i, w[1])'
    <3>1. PICK i \in DOMAIN wal[q] : Holds(q, i, w[1])
      <4>1. CASE q = p
        BY <1>0, <1>1, <4>1, AllFlushed DEF ExecInv
      <4>2. CASE q # p
        BY <1>0, <1>3, <2>2, <4>2 DEF ExecInv
      <4> QED
        BY <4>1, <4>2
    <3> QED
      BY <1>1, <1>5, <3>1 DEF Holds
  <2> QED
    BY <1>0, <1>1, <1>3, <1>4, <2>1, <2>2 DEF ExecInv
<1>14. EndInv'
  <2>1. Executing' = Executing
    BY <1>1, <1>3 DEF Executing
  <2>2. ASSUME NEW s \in StmtId PROVE (InFile(s) => InFile(s)') /\ (Out(s) => Out(s)')
    <3>1. ASSUME Out(s), NEW w \in wrote[s], NEW q \in Pagers, NEW i \in DOMAIN wal'[q],
                 wal'[q][i].tag = "page", wal'[q][i].no = w[1]
          PROVE  w[2] \notin wal'[q][i].image.rows
      BY <1>4, <1>5, <3>1 DEF Out, Holds, Live
    <3> QED
      BY <1>1, <3>1 DEF InFile, Out, Holds
  <2>3. ASSUME Risky', NEW s \in StmtId \ Executing'
        PROVE  (InFile(s)' \/ Out(s)') /\ (s \in undone' => Out(s)')
    BY <1>0, <1>1, <1>4, <2>1, <2>2, <2>3 DEF EndInv
  <2> QED
    BY <1>0, <1>1, <1>4, <2>1, <2>3 DEF EndInv, StmtId
<1> QED
  BY <1>0, <1>4, <1>7, <1>8, <1>9, <1>10, <1>11, <1>12, <1>13, <1>14 DEF AllInv

LEMMA WriteHeaderKeeps ==
  ASSUME AllInv, NEW p \in Pagers, WriteHeader(p) PROVE AllInv'
<1>0. Sheltered /\ TypeInv /\ LogInv /\ LockInv /\ PageInv /\ ChainInv /\ NumberInv /\ ExecInv /\ EndInv
  BY DEF AllInv
<1>1. /\ stage[p] = "header" /\ header' = meta /\ apply_lock' = Unlocked
      /\ stage' = [stage EXCEPT ![p] = "reset"]
      /\ UNCHANGED <<store_load, file, wal, wal_synced, pool, meta, stmt_no, cursor,
                     wal_index, dirty_pages, allocated_pages, pending_freelist, orphans,
                     running, crashes, next_stmt, next_row, wrote, acked, undone>>
  BY DEF WriteHeader, processVars, storeHist
<1>2. stage'[p] = "reset" /\ \A q \in Pagers \ {p} : stage'[q] = stage[q]
  BY <1>0, <1>1 DEF TypeInv
<1>3. (Sheltered' <=> Sheltered) /\ (Risky' <=> Risky) /\ (Crashing' <=> Crashing) /\ running
  BY <1>0, <1>1, SameLoad DEF LogInv
<1>4. header.page_count <= meta.page_count /\ header.page_count \in Nat /\ meta.page_count \in Nat
  BY <1>0, Numbers DEF PageInv
<1>5. TypeInv'
  BY <1>0, <1>1 DEF TypeInv
<1>6. LogInv'
  BY <1>0, <1>1, <1>2, <1>3 DEF LogInv
<1>7. LockInv'
  BY <1>0, <1>1, <1>2, PagerConstants DEF LockInv, Unlocked
<1>8. PageInv'
  BY <1>0, <1>1, <1>2, <1>3, <1>4 DEF PageInv, Happens
<1>9. ChainInv'
  BY <1>0, <1>1, <1>2, <1>3 DEF ChainInv, Holds, Live
<1>10. NumberInv'
  BY <1>0, <1>1, <1>2 DEF NumberInv, StmtId, Live
<1>11. ExecInv'
  <2>1. ASSUME NEW q \in Pagers, stage'[q] \in {"reset", "clean"}, NEW w \in wrote[stmt_no[q]]
        PROVE  w[1] < meta.page_count
    <3>1. stmt_no[q] \in StmtId
      BY <1>0, <1>1, <1>2, <2>1 DEF NumberInv
    <3> QED
      BY <1>0, <3>1 DEF NumberInv
  <2> QED
    BY <1>0, <1>1, <1>2, <1>3, <2>1 DEF ExecInv, Holds
<1>12. EndInv'
  <2>1. Executing' = Executing
    BY <1>1, <1>2 DEF Executing
  <2>2. ASSUME NEW s \in StmtId
        PROVE  (InFile(s)' <=> InFile(s)) /\ (Out(s)' <=> Out(s))
    BY <1>1 DEF InFile, Out, Holds, Live
  <2>3. ASSUME Risky', NEW s \in StmtId \ Executing'
        PROVE  (InFile(s)' \/ Out(s)') /\ (s \in undone' => Out(s)')
    BY <1>0, <1>1, <1>3, <2>1, <2>2, <2>3 DEF EndInv
  <2>4. ASSUME NEW s \in acked, NEW w \in wrote[s]
        PROVE  w[2] \in file[w[1]].rows /\ w[1] < meta.page_count
    <3>1. w[1] \in Nat
      BY <1>0, Numbers DEF TypeInv
    <3> QED
      BY <1>0, <1>4, <3>1 DEF EndInv
  <2> QED
    BY <1>0, <1>1, <1>3, <2>1, <2>3, <2>4 DEF EndInv, StmtId
<1> QED
  BY <1>0, <1>3, <1>5, <1>6, <1>7, <1>8, <1>9, <1>10, <1>11, <1>12 DEF AllInv

LEMMA ResetWalKeeps ==
  ASSUME AllInv, NEW p \in Pagers, ResetWal(p) PROVE AllInv'
<1>0. Sheltered /\ TypeInv /\ LogInv /\ LockInv /\ PageInv /\ ChainInv /\ NumberInv /\ ExecInv /\ EndInv
  BY DEF AllInv
<1>1. /\ stage[p] = "reset"
      /\ wal' = [wal EXCEPT ![p] = <<>>]
      /\ wal_synced' = [wal_synced EXCEPT ![p] = <<>>]
      /\ cursor' = [cursor EXCEPT ![p] = 0]
      /\ stage' = [stage EXCEPT ![p] = "clean"]
      /\ UNCHANGED <<store_load, file, header, pool, meta, apply_lock, stmt_no,
                     wal_index, dirty_pages, allocated_pages, pending_freelist, orphans,
                     running, crashes, next_stmt, next_row, wrote, acked, undone>>
  BY DEF ResetWal, sharedVars, processVars, storeHist
<1>2. /\ stage'[p] = "clean" /\ wal'[p] = <<>> /\ wal_synced'[p] = <<>> /\ cursor'[p] = 0
      /\ \A q \in Pagers \ {p} : /\ stage'[q] = stage[q] /\ wal'[q] = wal[q]
                                 /\ wal_synced'[q] = wal_synced[q] /\ cursor'[q] = cursor[q]
  BY <1>0, <1>1 DEF TypeInv
<1>3. (Sheltered' <=> Sheltered) /\ (Risky' <=> Risky) /\ (Crashing' <=> Crashing) /\ running
  BY <1>0, <1>1, SameLoad DEF LogInv
<1>4. \A q \in Pagers : \A i \in DOMAIN wal'[q] : q # p /\ i \in DOMAIN wal[q] /\ wal'[q] = wal[q]
  BY <1>2
<1>5. TypeInv'
  <2>1. wal' \in [Pagers -> Seq(LogRecord)] /\ wal_synced' \in [Pagers -> Seq(LogRecord)]
    BY <1>0, <1>1 DEF TypeInv
  <2>2. cursor' \in [Pagers -> Nat] /\ stage' \in
           [Pagers -> {"idle", "exec", "flush", "seal", "apply", "header", "reset", "clean"}]
    BY <1>0, <1>1 DEF TypeInv
  <2> QED
    BY <1>0, <1>1, <2>1, <2>2 DEF TypeInv
<1>6. LogInv'
  BY <1>0, <1>1, <1>2, <1>3 DEF LogInv
<1>7. LockInv'
  BY <1>0, <1>1, <1>2 DEF LockInv
<1>8. PageInv'
  BY <1>0, <1>1, <1>2, <1>3 DEF PageInv, Happens
<1>9. ChainInv'
  <2>1. ASSUME NEW q \in Pagers, NEW m \in Page, NEW i \in DOMAIN wal'[q], Holds(q, i, m)'
        PROVE  i \in DOMAIN wal[q] /\ Holds(q, i, m) /\ wal'[q] = wal[q] /\ stage'[q] = stage[q]
    BY <1>2, <1>4, <2>1 DEF Holds
  <2> QED
    BY <1>0, <1>1, <1>3, <2>1 DEF ChainInv, Live
<1>10. NumberInv'
  <2>1. ASSUME NEW q \in Pagers, NEW i \in DOMAIN wal'[q], NEW r \in wal'[q][i].image.rows
        PROVE  r < next_row
    BY <1>0, <1>3, <1>4 DEF NumberInv, Live
  <2> QED
    BY <1>0, <1>1, <1>2, <2>1 DEF NumberInv, StmtId
<1>11. ExecInv'
  BY <1>0, <1>1, <1>2, <1>3 DEF ExecInv, Holds
<1>12. EndInv'
  <2>1. Executing' = Executing
    BY <1>1, <1>2 DEF Executing
  <2>2. ASSUME NEW s \in StmtId PROVE (InFile(s) => InFile(s)') /\ (Out(s) => Out(s)')
    <3>1. ASSUME Out(s), NEW w \in wrote[s], NEW q \in Pagers, NEW i \in DOMAIN wal'[q],
                 wal'[q][i].tag = "page", wal'[q][i].no = w[1]
          PROVE  w[2] \notin wal'[q][i].image.rows
      BY <1>3, <1>4, <3>1 DEF Out, Holds, Live
    <3> QED
      BY <1>1, <3>1 DEF InFile, Out, Holds
  <2>3. ASSUME Risky', NEW s \in StmtId \ Executing'
        PROVE  (InFile(s)' \/ Out(s)') /\ (s \in undone' => Out(s)')
    BY <1>0, <1>1, <1>3, <2>1, <2>2, <2>3 DEF EndInv
  <2> QED
    BY <1>0, <1>1, <1>3, <2>1, <2>3 DEF EndInv, StmtId
<1> QED
  BY <1>0, <1>3, <1>5, <1>6, <1>7, <1>8, <1>9, <1>10, <1>11, <1>12 DEF AllInv

LEMMA MarkCleanKeeps ==
  ASSUME AllInv, NEW p \in Pagers, MarkClean(p) PROVE AllInv'
<1>0. Sheltered /\ TypeInv /\ LogInv /\ LockInv /\ PageInv /\ ChainInv /\ NumberInv /\ ExecInv /\ EndInv
  BY DEF AllInv
<1>1. /\ stage[p] = "clean"
      /\ pool' = [no \in Page |->
                     IF no \in dirty_pages[p] \cap Resident
                       THEN [pool[no] EXCEPT !.dirty = FALSE] ELSE pool[no]]
      /\ dirty_pages' = [dirty_pages EXCEPT ![p] = {}]
      /\ allocated_pages' = [allocated_pages EXCEPT ![p] = {}]
      /\ wal_index' = [wal_index EXCEPT ![p] = NoIndex]
      /\ stage' = [stage EXCEPT ![p] = "idle"]
      /\ acked' = acked \cup {stmt_no[p]}
      /\ UNCHANGED <<store_load, file, header, wal, wal_synced, meta, apply_lock, stmt_no, cursor,
                     pending_freelist, orphans, running, crashes, next_stmt, next_row, wrote, undone>>
  BY DEF MarkClean, diskVars, processVars
<1>2. /\ stage'[p] = "idle" /\ \A q \in Pagers \ {p} : stage'[q] = stage[q]
      /\ dirty_pages'[p] = {} /\ \A q \in Pagers \ {p} : dirty_pages'[q] = dirty_pages[q]
      /\ allocated_pages'[p] = {} /\ \A q \in Pagers \ {p} : allocated_pages'[q] = allocated_pages[q]
  BY <1>0, <1>1 DEF TypeInv
<1>3. (Sheltered' <=> Sheltered) /\ (Risky' <=> Risky) /\ (Crashing' <=> Crashing)
  BY <1>1, SameLoad
<1>4. /\ running /\ stmt_no[p] \in StmtId /\ stmt_no[p] < next_stmt /\ stmt_no[p] \notin undone
      /\ wal[p] = <<>> /\ \A w \in wrote[stmt_no[p]] :
                             w[2] \in file[w[1]].rows /\ w[1] < header.page_count
  BY <1>0, <1>1 DEF LogInv, NumberInv, ExecInv
\* Only the dirty flags change.
<1>5. /\ pool' \in [Page -> Frame \cup {Absent}]
      /\ \A no \in Page : /\ pool'[no].image = pool[no].image
                          /\ pool'[no] = Absent <=> pool[no] = Absent
  <2>1. ASSUME NEW no \in Page
        PROVE  /\ pool'[no] \in Frame \cup {Absent} /\ pool'[no].image = pool[no].image
               /\ pool'[no] = Absent <=> pool[no] = Absent
    <3>1. CASE no \in dirty_pages[p] \cap Resident
      <4>1. pool[no] \in Frame /\ pool[no] # Absent
        BY <1>0, <3>1 DEF TypeInv, Resident
      <4>2. pool'[no] = [image |-> pool[no].image, dirty |-> FALSE] /\ pool[no].image \in Image
        BY <1>1, <3>1, <4>1 DEF Frame
      <4> QED
        BY <4>1, <4>2, FrameIsThere DEF Frame
    <3>2. CASE no \notin dirty_pages[p] \cap Resident
      BY <1>0, <1>1, <3>2 DEF TypeInv
    <3> QED
      BY <3>1, <3>2
  <2> QED
    BY <1>1, <2>1
<1>6. TypeInv'
  <2>1. wal_index' = [q \in Pagers |-> NoIndex]
    BY <1>0, <1>1 DEF TypeInv
  <2>2. acked' \subseteq StmtId
    BY <1>0, <1>1, <1>4 DEF TypeInv
  <2> QED
    BY <1>0, <1>1, <1>5, <2>1, <2>2 DEF TypeInv
<1>7. LogInv'
  BY <1>0, <1>1, <1>2, <1>3, <1>4 DEF LogInv
<1>8. LockInv'
  BY <1>0, <1>1, <1>2 DEF LockInv
<1>9. PageInv'
  <2>1. \A no \in Page : no >= meta.page_count => pool'[no] = Absent /\ file[no].rows = {}
    BY <1>0, <1>5 DEF PageInv
  <2>2. ASSUME NEW q \in Pagers
        PROVE  /\ \A no \in dirty_pages'[q] : pool'[no] # Absent /\ no < meta.page_count
               /\ Risky => dirty_pages'[q] \subseteq store_load.writes[q] \cup allocated_pages'[q]
               /\ allocated_pages'[q] \subseteq dirty_pages'[q]
               /\ stage'[q] = "idle" => dirty_pages'[q] = {} /\ allocated_pages'[q] = {}
               /\ Risky /\ stage'[q] = "exec" => \A no \in allocated_pages'[q] : file[no].rows = {}
               /\ \A no \in allocated_pages'[q] \cup pending_freelist[q] :
                     no >= FirstFree /\ no < meta.page_count
    <3>1. CASE q = p
      BY <1>0, <1>2, <3>1 DEF PageInv
    <3>2. CASE q # p
      <4>1. \A no \in dirty_pages[q] : no \in Page
        BY <1>0 DEF TypeInv
      <4> QED
        BY <1>0, <1>2, <1>5, <3>2, <4>1 DEF PageInv
    <3> QED
      BY <3>1, <3>2
  <2>3. ASSUME NEW q \in Pagers, NEW no \in pending_freelist[q]
        PROVE  pool'[no] = Absent /\ file[no].rows = {}
    BY <1>0, <1>5 DEF PageInv, TypeInv
  <2>4. \A q \in Pagers : allocated_pages'[q] \subseteq allocated_pages[q]
    BY <1>2
  <2>5. /\ ~Happens("alloc") =>
              \A q \in Pagers : allocated_pages'[q] = {} /\ pending_freelist[q] = {}
        /\ \A q, r \in Pagers : q # r =>
              (allocated_pages'[q] \cup pending_freelist[q])
                 \cap (allocated_pages'[r] \cup pending_freelist[r]) = {}
    BY <1>0, <2>4 DEF PageInv
  <2> QED
    BY <1>0, <1>1, <1>3, <2>1, <2>2, <2>3, <2>5 DEF PageInv, Happens
<1>10. ChainInv'
  <2>1. ASSUME NEW q \in Pagers, NEW no \in Page, NEW i \in DOMAIN wal[q], Holds(q, i, no)
        PROVE  q # p /\ (no \in dirty_pages[q] => no \in dirty_pages'[q])
    BY <1>2, <1>4
  <2> QED
    BY <1>0, <1>1, <1>2, <1>3, <1>5, <2>1 DEF ChainInv, Holds, Live
<1>11. NumberInv'
  <2>1. \A s \in StmtId : s >= next_stmt => s # stmt_no[p]
    BY <1>0, <1>4, Numbers
  <2>2. \A q \in Pagers \ {p} : stage[q] # "idle" => stmt_no[q] # stmt_no[p]
    BY <1>0, <1>1 DEF NumberInv
  <2> QED
    BY <1>0, <1>1, <1>2, <1>5, <2>1, <2>2 DEF NumberInv, StmtId, Live
<1>12. ExecInv'
  <2>1. ASSUME NEW q \in Pagers, stage'[q] # "idle", NEW w \in wrote[stmt_no[q]]
        PROVE  q # p /\ w[1] \in dirty_pages'[q] /\ pool'[w[1]].image = pool[w[1]].image
    <3>1. q # p /\ w[1] \in dirty_pages[q]
      BY <1>0, <1>2, <2>1 DEF ExecInv
    <3> QED
      BY <1>0, <1>2, <1>5, <3>1 DEF TypeInv
  <2> QED
    BY <1>0, <1>1, <1>2, <1>3, <2>1 DEF ExecInv, Holds
<1>13. \A s \in StmtId : s \notin Executing' => s \notin Executing \/ s = stmt_no[p]
  BY <1>1, <1>2 DEF Executing
<1>14. EndInv'
  <2>1. ASSUME NEW s \in StmtId PROVE (InFile(s) => InFile(s)') /\ (Out(s) => Out(s)')
    <3>1. ASSUME Out(s), NEW w \in wrote[s] PROVE w[2] \notin pool'[w[1]].image.rows
      <4>1. w[1] \in Page
        BY <1>0, Numbers
      <4> QED
        BY <1>5, <3>1, <4>1 DEF Out
    <3> QED
      BY <1>1, <3>1 DEF InFile, Out, Holds, Live
  <2>2. ASSUME NEW s \in StmtId, s = stmt_no[p] PROVE InFile(s)'
    BY <1>1, <1>4, <2>2 DEF InFile
  <2>3. ASSUME Risky', NEW s \in StmtId \ Executing'
        PROVE  (InFile(s)' \/ Out(s)') /\ (s \in undone' => Out(s)')
    <3>1. CASE s = stmt_no[p]
      BY <1>1, <1>4, <2>2, <3>1
    <3>2. CASE s \notin Executing
      BY <1>0, <1>1, <1>3, <1>4, <2>1, <2>3, <3>2 DEF EndInv
    <3> QED
      BY <1>13, <3>1, <3>2
  <2>4. \A s \in acked' : \A w \in wrote'[s] :
            w[2] \in file'[w[1]].rows /\ w[1] < header'.page_count
    BY <1>0, <1>1, <1>4 DEF EndInv
  <2> QED
    BY <1>0, <1>1, <1>3, <1>4, <1>13, <2>3, <2>4 DEF EndInv, StmtId
<1> QED
  BY <1>0, <1>3, <1>6, <1>7, <1>8, <1>9, <1>10, <1>11, <1>12, <1>14 DEF AllInv

LEMMA OpenDoneKeeps == ASSUME AllInv, OpenDone PROVE AllInv'
<1>0. Sheltered /\ TypeInv /\ LogInv /\ LockInv /\ PageInv /\ ChainInv /\ NumberInv /\ ExecInv /\ EndInv
  BY DEF AllInv
<1>1. /\ ~running /\ orphans = {} /\ meta' = header /\ running'
      /\ UNCHANGED <<store_load, file, header, wal, wal_synced, pool, apply_lock, stage, stmt_no,
                     cursor, wal_index, dirty_pages, allocated_pages, pending_freelist, orphans,
                     crashes, next_stmt, next_row, wrote, acked, undone>>
  BY DEF OpenDone, diskVars, localVars, storeHist
<1>2. (Sheltered' <=> Sheltered) /\ (Risky' <=> Risky) /\ (Crashing' <=> Crashing)
      /\ Crashing /\ Risky /\ ~Happens("alloc")
  BY <1>0, <1>1, SameLoad DEF LogInv, Sheltered, Risky
<1>3. \A p \in Pagers : /\ stage[p] = "idle" /\ wal[p] = <<>> /\ wal_synced[p] = <<>>
                        /\ ~Scan(wal[p])
  BY <1>0, <1>1, EmptyScan DEF LogInv
<1>4. meta.page_count = FirstFree /\ header.page_count = FirstFree /\ header.freelist_head = 0
  BY <1>0, <1>2 DEF PageInv
<1>5. TypeInv'
  BY <1>0, <1>1 DEF TypeInv
<1>6. LogInv'
  BY <1>0, <1>1, <1>2, <1>3 DEF LogInv
<1>7. LockInv'
  BY <1>0, <1>1 DEF LockInv
<1>8. PageInv'
  BY <1>0, <1>1, <1>2, <1>4, PagerConstants DEF PageInv, Happens
<1>9. ChainInv'
  BY <1>0, <1>1, <1>2, <1>3 DEF ChainInv, Holds
<1>10. NumberInv'
  BY <1>0, <1>1, <1>3, <1>4 DEF NumberInv, StmtId
<1>11. ExecInv'
  BY <1>1, <1>3 DEF ExecInv
<1>12. EndInv'
  <2>1. ASSUME NEW s \in StmtId PROVE (InDisk(s) => InFile(s)') /\ (Out(s) => Out(s)')
    BY <1>1, <1>3 DEF InDisk, InFile, Out, Holds
  <2>2. Executing' = Executing
    BY <1>1 DEF Executing
  <2>3. ASSUME NEW s \in StmtId \ Executing'
        PROVE  (InFile(s)' \/ Out(s)') /\ (s \in undone' => Out(s)')
    BY <1>0, <1>1, <1>2, <2>1, <2>2 DEF EndInv
  <2> QED
    BY <1>0, <1>1, <1>2, <2>3 DEF EndInv, StmtId
<1> QED
  BY <1>0, <1>2, <1>5, <1>6, <1>7, <1>8, <1>9, <1>10, <1>11, <1>12 DEF AllInv

-----------------------------------------------------------------------------
(* Copying a log into the file: in a commit, in recovery, and as far as a crash lets it *)

Applying(p) == stage[p] = "apply" \/ (p \in orphans /\ Scan(wal[p]))

Copied(p) ==
    /\ file' \in [Page -> Image]
    /\ \A no \in Page :
          \/ file'[no] = file[no]
          \/ \E i \in DOMAIN wal[p] : Holds(p, i, no) /\ file'[no] = wal[p][i].image

LEMMA ReplayCopies ==
  ASSUME TypeInv, NEW p \in Pagers, Whole(wal[p]), file' = Replay(file, wal[p])
  PROVE  /\ Copied(p)
         /\ \A no \in Page : \A i \in DOMAIN wal[p] :
               Holds(p, i, no) => file'[no] = wal[p][i].image
<1>1. wal[p] \in Seq(LogRecord) /\ \A i \in DOMAIN wal[p] : wal[p][i].image \in Image
  <2>1. wal[p] \in Seq(LogRecord)
    BY DEF TypeInv
  <2>2. \A i \in DOMAIN wal[p] : wal[p][i] \in LogRecord
    BY <2>1, LogShape
  <2> QED
    BY <2>1, <2>2 DEF LogRecord
<1>2. ASSUME NEW no \in Page
      PROVE  /\ \A i \in DOMAIN wal[p] : Holds(p, i, no) => file'[no] = wal[p][i].image
             /\ (\A i \in DOMAIN wal[p] : ~Holds(p, i, no)) => file'[no] = file[no]
  BY <1>1, ReplayWhole DEF Holds
<1>3. \A no \in Page : file'[no] \in Image
  BY <1>1, <1>2 DEF TypeInv
<1>4. file' \in [Page -> Image]
  BY <1>3 DEF Replay
<1> QED
  BY <1>2, <1>4 DEF Copied

LEMMA PartialCopies ==
  ASSUME TypeInv, NEW p \in Pagers, Whole(wal[p]), file' \in PartialReplays(file, wal[p])
  PROVE  Copied(p)
<1> DEFINE full == Replay(file, wal[p])
<1>1. wal[p] \in Seq(LogRecord) /\ \A i \in DOMAIN wal[p] : wal[p][i].image \in Image
  <2>1. wal[p] \in Seq(LogRecord)
    BY DEF TypeInv
  <2>2. \A i \in DOMAIN wal[p] : wal[p][i] \in LogRecord
    BY <2>1, LogShape
  <2> QED
    BY <2>1, <2>2 DEF LogRecord
<1>2. ASSUME NEW no \in Page
      PROVE  full[no] = file[no] \/ \E i \in DOMAIN wal[p] : Holds(p, i, no) /\ full[no] = wal[p][i].image
  BY <1>1, ReplayWhole DEF Holds
<1> HIDE DEF full
<1>3. PICK done : file' = [no \in Page |-> IF no \in done THEN full[no] ELSE file[no]]
  BY DEF PartialReplays, full
<1>4. \A no \in Page : file'[no] = full[no] \/ file'[no] = file[no]
  BY <1>3
<1>5. \A no \in Page : file'[no] \in Image
  BY <1>1, <1>2, <1>4 DEF TypeInv
<1>6. file' \in [Page -> Image]
  BY <1>3, <1>5
<1> QED
  BY <1>2, <1>4, <1>6 DEF Copied

\* A log has one record of a page.
LEMMA OneRecord ==
  ASSUME TypeInv, NEW p \in Pagers, Whole(wal[p]), NEW no, NEW i \in DOMAIN wal[p],
         NEW j \in DOMAIN wal[p], Holds(p, i, no), Holds(p, j, no)
  PROVE  i = j
<1>1. PICK k \in Nat : Len(wal[p]) = k + 1 /\ Images(wal[p], k) /\ wal[p][k + 1] = CommitRecord(k)
  BY DEF Whole
<1>2. DOMAIN wal[p] = 1..(k + 1)
  BY <1>1, LogShape DEF TypeInv
<1>3. wal[p][k + 1].tag # "page"
  BY <1>1 DEF CommitRecord
<1>4. i \in 1..k /\ j \in 1..k
  BY <1>2, <1>3 DEF Holds
<1> QED
  BY <1>1, <1>4 DEF Images, Holds

\* What copying the log of p does to the pages, whoever looks at them.
LEMMA CopyEffect ==
  ASSUME AllInv, NEW p \in Pagers, Applying(p), Copied(p)
  PROVE  /\ \A no \in Page : file[no].rows \subseteq file'[no].rows
         /\ \A no \in Page : \A r \in file'[no].rows : r < next_row
         /\ \A no \in Page : no >= meta.page_count => file'[no] = file[no]
         /\ \A no \in Page : pool[no] # Absent => file'[no].rows \subseteq pool[no].image.rows
         /\ \A no \in Page : running /\ no \notin dirty_pages[p] => file'[no] = file[no]
         /\ Risky => \A q \in Pagers \ {p} : Live(q) => \A no \in Page : \A i \in DOMAIN wal[q] :
               Holds(q, i, no) => file'[no] = file[no]
         /\ Risky => \A no \in Page : \A i \in DOMAIN wal[p] :
               Holds(p, i, no) => file'[no].rows \subseteq wal[p][i].image.rows
         /\ \A s \in StmtId : Out(s) => \A w \in wrote[s] : w[2] \notin file'[w[1]].rows
<1>0. Sheltered /\ TypeInv /\ LogInv /\ LockInv /\ PageInv /\ ChainInv /\ NumberInv /\ ExecInv /\ EndInv
  BY DEF AllInv
<1>1. /\ Whole(wal[p]) /\ Live(p)
      /\ stage[p] = "apply" <=> running
      /\ ~running => Scan(wal[p]) /\ Crashing /\ Risky /\ pool = [no \in Page |-> Absent]
  BY <1>0 DEF Applying, LogInv, Live, Risky
<1>2. ASSUME NEW no \in Page, NEW i \in DOMAIN wal[p], Holds(p, i, no)
      PROVE  /\ file[no].rows \subseteq wal[p][i].image.rows
             /\ \A r \in wal[p][i].image.rows : r < next_row
             /\ running => no \in dirty_pages[p] /\ wal[p][i].image.rows \subseteq pool[no].image.rows
             /\ Crashing => no \in store_load.writes[p]
             /\ ~(no >= meta.page_count)
  <2>1. /\ file[no].rows \subseteq wal[p][i].image.rows
        /\ running => no \in dirty_pages[p] /\ wal[p][i].image.rows \subseteq pool[no].image.rows
        /\ Crashing => no \in store_load.writes[p]
    BY <1>0, <1>1, <1>2 DEF ChainInv
  <2>2. \A r \in wal[p][i].image.rows : r < next_row
    BY <1>0, <1>1 DEF NumberInv
  <2>3. ~(no >= meta.page_count)
    <3>1. no \in Nat /\ meta.page_count \in Nat /\ FirstFree \in Nat
      BY <1>0, Numbers, PagerConstants
    <3>2. CASE running
      BY <1>0, <2>1, <3>1, <3>2 DEF PageInv
    <3>3. CASE ~running
      <4>1. no < FirstFree
        BY <1>0, <1>1, <2>1, <3>1, <3>3 DEF Sheltered
      <4> QED
        BY <1>0, <3>1, <4>1 DEF PageInv
    <3> QED
      BY <3>2, <3>3
  <2> QED
    BY <2>1, <2>2, <2>3
<1>3. ASSUME NEW no \in Page
      PROVE  \/ file'[no] = file[no]
             \/ \E i \in DOMAIN wal[p] : Holds(p, i, no) /\ file'[no] = wal[p][i].image
  BY DEF Copied
<1>4. \A no \in Page : file[no].rows \subseteq file'[no].rows
  BY <1>2, <1>3
<1>5. \A no \in Page : \A r \in file'[no].rows : r < next_row
  BY <1>0, <1>2, <1>3 DEF NumberInv
<1>6. \A no \in Page : no >= meta.page_count => file'[no] = file[no]
  BY <1>2, <1>3
<1>7. \A no \in Page : pool[no] # Absent => file'[no].rows \subseteq pool[no].image.rows
  <2>1. ASSUME NEW no \in Page, pool[no] # Absent PROVE file'[no].rows \subseteq pool[no].image.rows
    <3>1. running
      BY <1>1, <2>1
    <3> QED
      BY <1>0, <1>2, <1>3, <2>1, <3>1 DEF ChainInv
  <2> QED
    BY <2>1
<1>8. \A no \in Page : running /\ no \notin dirty_pages[p] => file'[no] = file[no]
  BY <1>2, <1>3
<1>9. ASSUME Risky, NEW q \in Pagers \ {p}, Live(q), NEW no \in Page, NEW j \in DOMAIN wal[q],
             Holds(q, j, no)
      PROVE  file'[no] = file[no]
  <2>1. ASSUME NEW i \in DOMAIN wal[p], Holds(p, i, no) PROVE FALSE
    <3>1. CASE running
      <4>1. no \in dirty_pages[p] /\ no \in dirty_pages[q]
        BY <1>0, <1>2, <1>9, <2>1, <3>1 DEF ChainInv
      <4> QED
        BY <1>0, <1>9, <4>1, DirtyApart
    <3>2. CASE ~running
      <4>1. no \in store_load.writes[p] /\ no \in store_load.writes[q]
        BY <1>0, <1>1, <1>2, <1>9, <2>1, <3>2 DEF ChainInv
      <4> QED
        BY <1>0, <1>9, <4>1 DEF Sheltered
    <3> QED
      BY <3>1, <3>2
  <2> QED
    BY <1>3, <2>1
<1>10. ASSUME NEW no \in Page, NEW i \in DOMAIN wal[p], Holds(p, i, no)
       PROVE  file'[no].rows \subseteq wal[p][i].image.rows
  <2>1. CASE file'[no] = file[no]
    BY <1>2, <1>10, <2>1
  <2>2. ASSUME NEW j \in DOMAIN wal[p], Holds(p, j, no), file'[no] = wal[p][j].image
        PROVE  file'[no].rows \subseteq wal[p][i].image.rows
    <3>1. i = j
      BY <1>0, <1>1, <1>10, <2>2, OneRecord
    <3> QED
      BY <2>2, <3>1
  <2> QED
    BY <1>3, <2>1, <2>2
<1>11. ASSUME NEW s \in StmtId, Out(s), NEW w \in wrote[s] PROVE w[2] \notin file'[w[1]].rows
  <2>1. w[1] \in Page
    BY <1>0, Numbers
  <2> QED
    BY <1>1, <1>3, <1>11, <2>1 DEF Out
<1> QED
  BY <1>4, <1>5, <1>6, <1>7, <1>8, <1>9, <1>10, <1>11

LEMMA ApplyKeeps ==
  ASSUME AllInv, NEW p \in Pagers, Apply(p) PROVE AllInv'
<1>0. Sheltered /\ TypeInv /\ LogInv /\ LockInv /\ PageInv /\ ChainInv /\ NumberInv /\ ExecInv /\ EndInv
  BY DEF AllInv
<1>1. /\ stage[p] = "apply" /\ file' = Replay(file, wal[p])
      /\ stage' = [stage EXCEPT ![p] = "header"]
      /\ UNCHANGED <<store_load, header, wal, wal_synced, pool, meta, apply_lock, stmt_no, cursor,
                     wal_index, dirty_pages, allocated_pages, pending_freelist, orphans,
                     running, crashes, next_stmt, next_row, wrote, acked, undone>>
  BY DEF Apply, sharedVars, processVars, storeHist
<1>2. stage'[p] = "header" /\ \A q \in Pagers \ {p} : stage'[q] = stage[q]
  BY <1>0, <1>1 DEF TypeInv
<1>3. (Sheltered' <=> Sheltered) /\ (Risky' <=> Risky) /\ (Crashing' <=> Crashing) /\ running
  BY <1>0, <1>1, SameLoad DEF LogInv
<1>4. /\ Copied(p) /\ Applying(p)
      /\ \A no \in Page : \A i \in DOMAIN wal[p] : Holds(p, i, no) => file'[no] = wal[p][i].image
  <2>1. Whole(wal[p])
    BY <1>0, <1>1 DEF LogInv
  <2> QED
    BY <1>0, <1>1, <2>1, ReplayCopies DEF Applying
<1>5. /\ \A no \in Page : file[no].rows \subseteq file'[no].rows
      /\ \A no \in Page : \A r \in file'[no].rows : r < next_row
      /\ \A no \in Page : no >= meta.page_count => file'[no] = file[no]
      /\ \A no \in Page : pool[no] # Absent => file'[no].rows \subseteq pool[no].image.rows
      /\ \A no \in Page : no \notin dirty_pages[p] => file'[no] = file[no]
      /\ Risky => \A q \in Pagers \ {p} : \A no \in Page : \A i \in DOMAIN wal[q] :
            Holds(q, i, no) => file'[no] = file[no]
      /\ \A s \in StmtId : Out(s) => \A w \in wrote[s] : w[2] \notin file'[w[1]].rows
  BY <1>3, <1>4, CopyEffect DEF Live
<1>6. TypeInv'
  BY <1>0, <1>1, <1>4 DEF TypeInv, Copied
<1>7. LogInv'
  BY <1>0, <1>1, <1>2, <1>3 DEF LogInv
<1>8. LockInv'
  BY <1>0, <1>1, <1>2 DEF LockInv
<1>9. PageInv'
  <2>1. \A no \in Page : no >= meta.page_count => pool[no] = Absent /\ file'[no].rows = {}
    BY <1>0, <1>5 DEF PageInv
  <2>2. ASSUME NEW q \in Pagers, NEW no \in pending_freelist[q] PROVE file'[no].rows = {}
    <3>1. no \in Page /\ pool[no] = Absent /\ file[no].rows = {}
      BY <1>0 DEF PageInv, TypeInv
    <3>2. no \notin dirty_pages[p]
      BY <1>0, <3>1 DEF PageInv
    <3> QED
      BY <1>5, <3>1, <3>2
  <2>3. ASSUME Risky, NEW q \in Pagers, stage'[q] = "exec", NEW no \in allocated_pages[q]
        PROVE  file'[no].rows = {}
    <3>1. q # p /\ no \in dirty_pages[q] /\ no \in Page /\ file[no].rows = {}
      BY <1>0, <1>2, <2>3 DEF PageInv, TypeInv
    <3>2. no \notin dirty_pages[p]
      BY <1>0, <2>3, <3>1, DirtyApart
    <3> QED
      BY <1>5, <3>1, <3>2
  <2> QED
    BY <1>0, <1>1, <1>2, <1>3, <2>1, <2>2, <2>3 DEF PageInv, Happens
<1>10. ChainInv'
  <2>1. ASSUME NEW q \in Pagers, NEW no \in Page, NEW i \in DOMAIN wal[q], Holds(q, i, no)
        PROVE  /\ stage'[q] \notin {"flush", "apply"}
               /\ Risky /\ stage'[q] \in {"header", "reset"} =>
                     file'[no].rows \subseteq wal[q][i].image.rows
    <3>1. CASE q = p
      BY <1>2, <1>4, <2>1, <3>1
    <3>2. CASE q # p
      <4>1. stage[q] \notin {"flush", "apply"}
        BY <1>0, <1>1, <3>2 DEF LockInv
      <4> QED
        BY <1>0, <1>2, <1>5, <2>1, <3>2, <4>1 DEF ChainInv
    <3> QED
      BY <3>1, <3>2
  <2> QED
    BY <1>0, <1>1, <1>3, <1>5, <2>1 DEF ChainInv, Holds, Live
<1>11. NumberInv'
  BY <1>0, <1>1, <1>2, <1>5 DEF NumberInv, StmtId, Live
<1>12. ExecInv'
  <2>1. ASSUME NEW w \in wrote[stmt_no[p]] PROVE w[2] \in file'[w[1]].rows
    <3>1. PICK i \in DOMAIN wal[p] : Holds(p, i, w[1])
      BY <1>0, <1>1 DEF ExecInv
    <3>2. w[2] \in wal[p][i].image.rows /\ w[1] \in Page
      BY <1>0, <1>1, <3>1 DEF ExecInv, TypeInv
    <3> QED
      BY <1>4, <3>1, <3>2
  <2>2. ASSUME NEW q \in Pagers \ {p}, stage[q] # "idle", NEW w \in wrote[stmt_no[q]]
        PROVE  /\ w[2] \in file[w[1]].rows => w[2] \in file'[w[1]].rows
               /\ Risky => file'[w[1]] = file[w[1]]
    <3>1. w[1] \in dirty_pages[q] /\ w[1] \in Page
      BY <1>0, <2>2 DEF ExecInv, TypeInv
    <3>2. Risky => w[1] \notin dirty_pages[p]
      BY <1>0, <3>1, DirtyApart
    <3> QED
      BY <1>5, <3>1, <3>2
  <2> QED
    BY <1>0, <1>1, <1>2, <1>3, <2>1, <2>2 DEF ExecInv, Holds
<1>13. EndInv'
  <2>1. Executing' = Executing
    BY <1>1, <1>2 DEF Executing
  <2>2. \A s \in StmtId : \A w \in wrote[s] : w[2] \in file[w[1]].rows => w[2] \in file'[w[1]].rows
    BY <1>0, <1>5, Numbers
  <2>3. ASSUME NEW s \in StmtId PROVE (InFile(s) => InFile(s)') /\ (Out(s) => Out(s)')
    BY <1>1, <1>5, <2>2 DEF InFile, Out, Holds, Live
  <2>4. ASSUME Risky', NEW s \in StmtId \ Executing'
        PROVE  (InFile(s)' \/ Out(s)') /\ (s \in undone' => Out(s)')
    BY <1>0, <1>1, <1>3, <2>1, <2>3, <2>4 DEF EndInv
  <2>5. acked \subseteq StmtId
    BY <1>0 DEF TypeInv
  <2> QED
    BY <1>0, <1>1, <1>3, <2>1, <2>2, <2>4, <2>5 DEF EndInv, StmtId
<1> QED
  BY <1>0, <1>3, <1>6, <1>7, <1>8, <1>9, <1>10, <1>11, <1>12, <1>13 DEF AllInv

LEMMA RecoverWalKeeps ==
  ASSUME AllInv, NEW p \in Pagers, RecoverWal(p) PROVE AllInv'
<1>0. Sheltered /\ TypeInv /\ LogInv /\ LockInv /\ PageInv /\ ChainInv /\ NumberInv /\ ExecInv /\ EndInv
  BY DEF AllInv
<1>1. /\ p \in orphans /\ file' = IF Scan(wal[p]) THEN Replay(file, wal[p]) ELSE file
      /\ wal' = [wal EXCEPT ![p] = <<>>]
      /\ wal_synced' = [wal_synced EXCEPT ![p] = <<>>]
      /\ orphans' = orphans \ {p}
      /\ UNCHANGED <<store_load, header, pool, meta, apply_lock, stage, stmt_no, cursor,
                     wal_index, dirty_pages, allocated_pages, pending_freelist,
                     running, crashes, next_stmt, next_row, wrote, acked, undone>>
  BY DEF RecoverWal, sharedVars, localVars, storeHist
<1>2. (Sheltered' <=> Sheltered) /\ (Risky' <=> Risky) /\ (Crashing' <=> Crashing)
      /\ ~running /\ Crashing /\ Risky /\ \A q \in Pagers : stage[q] = "idle"
  BY <1>0, <1>1, SameLoad DEF LogInv, Risky
<1>3. /\ wal'[p] = <<>> /\ wal_synced'[p] = <<>>
      /\ \A q \in Pagers \ {p} : wal'[q] = wal[q] /\ wal_synced'[q] = wal_synced[q]
  BY <1>0, <1>1 DEF TypeInv
<1>4. /\ file' \in [Page -> Image]
      /\ \A no \in Page : file[no].rows \subseteq file'[no].rows
      /\ \A no \in Page : \A r \in file'[no].rows : r < next_row
      /\ \A no \in Page : no >= meta.page_count => file'[no] = file[no]
      /\ \A q \in Pagers \ {p} : Scan(wal[q]) => \A no \in Page : \A i \in DOMAIN wal[q] :
            Holds(q, i, no) => file'[no] = file[no]
      /\ \A s \in StmtId : Out(s) => \A w \in wrote[s] : w[2] \notin file'[w[1]].rows
      /\ Scan(wal[p]) => \A no \in Page : \A i \in DOMAIN wal[p] :
            Holds(p, i, no) => file'[no] = wal[p][i].image
  <2>1. CASE Scan(wal[p])
    <3>1. Whole(wal[p]) /\ Applying(p)
      BY <1>0, <1>1, <1>2, <2>1 DEF LogInv, Applying
    <3>2. /\ Copied(p)
          /\ \A no \in Page : \A i \in DOMAIN wal[p] : Holds(p, i, no) => file'[no] = wal[p][i].image
      BY <1>0, <1>1, <2>1, <3>1, ReplayCopies
    <3>3. file' \in [Page -> Image]
      BY <3>2 DEF Copied
    <3> QED
      BY <1>2, <3>1, <3>2, <3>3, CopyEffect DEF Live
  <2>2. CASE ~Scan(wal[p])
    BY <1>0, <1>1, <2>2 DEF TypeInv, NumberInv, Out
  <2> QED
    BY <2>1, <2>2
<1>5. ~Scan(wal'[p])
  BY <1>3, EmptyScan
<1>6. TypeInv'
  <2>1. wal' \in [Pagers -> Seq(LogRecord)] /\ wal_synced' \in [Pagers -> Seq(LogRecord)]
    BY <1>0, <1>1 DEF TypeInv
  <2> QED
    BY <1>0, <1>1, <1>4, <2>1 DEF TypeInv
<1>7. LogInv'
  BY <1>0, <1>1, <1>2, <1>3, <1>5 DEF LogInv
<1>8. LockInv'
  BY <1>0, <1>1 DEF LockInv
<1>9. PageInv'
  <2>1. \A no \in Page : no >= meta.page_count => pool[no] = Absent /\ file'[no].rows = {}
    BY <1>0, <1>4 DEF PageInv
  <2>2. \A q \in Pagers : allocated_pages[q] = {} /\ pending_freelist[q] = {}
    BY <1>0, <1>2 DEF PageInv, Sheltered
  <2> QED
    BY <1>0, <1>1, <1>2, <2>1, <2>2 DEF PageInv, Happens
<1>10. ChainInv'
  <2>1. \A no \in Page : pool[no] = Absent
    BY <1>0, <1>2 DEF LogInv
  <2>2. ASSUME NEW q \in Pagers, NEW no \in Page, NEW i \in DOMAIN wal'[q], Holds(q, i, no)',
               Scan(wal'[q])
        PROVE  no \in store_load.writes[q] /\ file'[no].rows \subseteq wal'[q][i].image.rows
    <3>1. q # p /\ wal'[q] = wal[q]
      BY <1>3, <1>5, <2>2
    <3>2. Holds(q, i, no) /\ Scan(wal[q]) /\ i \in DOMAIN wal[q]
      BY <2>2, <3>1 DEF Holds
    <3> QED
      BY <1>0, <1>2, <1>4, <3>1, <3>2 DEF ChainInv, Live
  <2> QED
    BY <1>0, <1>1, <1>2, <2>1, <2>2 DEF ChainInv, Live
<1>11. NumberInv'
  <2>1. ASSUME NEW q \in Pagers, Live(q)', NEW i \in DOMAIN wal'[q], NEW r \in wal'[q][i].image.rows
        PROVE  r < next_row
    <3>1. q # p /\ wal'[q] = wal[q] /\ Live(q)
      BY <1>1, <1>2, <1>3, <1>5, <2>1 DEF Live
    <3> QED
      BY <1>0, <3>1 DEF NumberInv
  <2> QED
    BY <1>0, <1>1, <1>4, <2>1 DEF NumberInv, StmtId
<1>12. ExecInv'
  BY <1>1, <1>2 DEF ExecInv
<1>13. EndInv'
  <2>1. Executing' = Executing
    BY <1>1 DEF Executing
  <2>2. \A s \in StmtId : \A w \in wrote[s] : w[1] \in Page
    BY <1>0, Numbers
  <2>3. ASSUME NEW s \in StmtId, InDisk(s) PROVE InDisk(s)'
    <3>1. ASSUME NEW w \in wrote[s]
          PROVE  \/ w[2] \in file'[w[1]].rows
                 \/ \E q \in Pagers : Scan(wal'[q]) /\ \E i \in DOMAIN wal'[q] : Holds(q, i, w[1])'
      <4>1. CASE w[2] \in file[w[1]].rows
        BY <1>4, <2>2, <4>1
      <4>2. ASSUME NEW q \in Pagers, Scan(wal[q]), NEW i \in DOMAIN wal[q], Holds(q, i, w[1])
            PROVE  \/ w[2] \in file'[w[1]].rows
                   \/ Scan(wal'[q]) /\ \E j \in DOMAIN wal'[q] : Holds(q, j, w[1])'
        <5>1. CASE q = p
          BY <1>4, <2>2, <2>3, <4>2, <5>1 DEF InDisk
        <5>2. CASE q # p
          <6>1. wal'[q] = wal[q]
            BY <1>3, <5>2
          <6>2. Holds(q, i, w[1])'
            BY <4>2, <6>1 DEF Holds
          <6> QED
            BY <4>2, <6>1, <6>2
        <5> QED
          BY <5>1, <5>2
      <4> QED
        BY <2>3, <4>1, <4>2 DEF InDisk
    <3>2. ASSUME NEW w \in wrote[s], NEW q \in Pagers, Scan(wal'[q]), NEW i \in DOMAIN wal'[q],
                 wal'[q][i].tag = "page", wal'[q][i].no = w[1]
          PROVE  w[2] \in wal'[q][i].image.rows
      <4>1. q # p /\ wal'[q] = wal[q]
        BY <1>3, <1>5, <3>2
      <4> QED
        BY <2>3, <3>2, <4>1 DEF InDisk, Holds
    <3> QED
      BY <1>1, <3>1, <3>2 DEF InDisk, Holds
  <2>4. ASSUME NEW s \in StmtId, Out(s) PROVE Out(s)'
    <3>1. ASSUME NEW w \in wrote[s], NEW q \in Pagers, Scan(wal'[q]), NEW i \in DOMAIN wal'[q],
                 wal'[q][i].tag = "page", wal'[q][i].no = w[1]
          PROVE  w[2] \notin wal'[q][i].image.rows
      <4>1. q # p /\ wal'[q] = wal[q]
        BY <1>3, <1>5, <3>1
      <4> QED
        BY <2>4, <3>1, <4>1 DEF Out, Holds, Live
    <3> QED
      BY <1>1, <1>2, <1>4, <2>4, <3>1 DEF Out, Holds, Live
  <2>5. ASSUME NEW s \in StmtId \ Executing'
        PROVE  (InDisk(s)' \/ Out(s)') /\ (s \in undone' => Out(s)')
    BY <1>0, <1>1, <1>2, <2>1, <2>3, <2>4 DEF EndInv
  <2>6. acked \subseteq StmtId
    BY <1>0 DEF TypeInv
  <2>7. \A s \in acked : \A w \in wrote[s] : w[2] \in file'[w[1]].rows
    BY <1>0, <1>4, <2>2, <2>6 DEF EndInv
  <2> QED
    BY <1>0, <1>1, <1>2, <2>1, <2>5, <2>7 DEF EndInv, StmtId
<1> QED
  BY <1>0, <1>2, <1>6, <1>7, <1>8, <1>9, <1>10, <1>11, <1>12, <1>13 DEF AllInv

LEMMA CrashKeeps ==
  ASSUME AllInv, NEW power \in BOOLEAN, Crash(power) PROVE AllInv'
<1>0. Sheltered /\ TypeInv /\ LogInv /\ LockInv /\ PageInv /\ ChainInv /\ NumberInv /\ ExecInv /\ EndInv
  BY DEF AllInv
<1>1. /\ Happens(IF power THEN "power" ELSE "kill")
      /\ wal' \in {logs \in [Pagers -> UNION {SurvivingLogs(q, power) : q \in Pagers}] :
                     \A q \in Pagers : logs[q] \in SurvivingLogs(q, power)}
      /\ wal_synced' = wal'
      /\ file' \in {file} \cup UNION {PartialReplays(file, wal[q]) : q \in
            {q \in Pagers : stage[q] = "apply"} \cup {q \in orphans : Scan(wal[q])}}
      /\ header' = header \/ header' = meta
      /\ orphans' = Pagers /\ running' = FALSE
      /\ pool' = [no \in Page |-> Absent]
      /\ apply_lock' = Unlocked
      /\ stage' = [q \in Pagers |-> "idle"]
      /\ cursor' = [q \in Pagers |-> 0]
      /\ wal_index' = [q \in Pagers |-> NoIndex]
      /\ dirty_pages' = [q \in Pagers |-> {}]
      /\ allocated_pages' = [q \in Pagers |-> {}]
      /\ pending_freelist' = [q \in Pagers |-> {}]
      /\ UNCHANGED <<store_load, meta, stmt_no, next_stmt, next_row, wrote, acked, undone>>
  BY DEF Crash, storeHist
<1>2. (Sheltered' <=> Sheltered) /\ (Risky' <=> Risky) /\ (Crashing' <=> Crashing)
      /\ Crashing /\ Risky /\ ~Happens("alloc")
  BY <1>0, <1>1, SameLoad DEF Crashing, Risky, Sheltered
\* The logs that are left.
<1>3. ASSUME NEW q \in Pagers
      PROVE  /\ wal'[q] \in Seq(LogRecord)
             /\ Scan(wal'[q]) =>
                  /\ Whole(wal'[q])
                  /\ \/ wal'[q] = wal[q] /\ (~running \/ stage[q] \in {"apply", "header", "reset"})
                     \/ wal'[q] = Marked(q) /\ stage[q] = "flush" /\ Unflushed(q) = {}
             /\ ~running \/ stage[q] \in {"apply", "header"} => wal'[q] = wal[q]
  <2>1. wal'[q] \in SurvivingLogs(q, power)
    BY <1>1
  <2> QED
    BY <1>0, <2>1, Survivors
<1>4. ASSUME NEW q \in Pagers, Scan(wal'[q])
      PROVE  /\ Live(q) /\ running => stage[q] \in {"flush", "apply", "header", "reset"}
             /\ Live(q)
             /\ \A i \in DOMAIN wal'[q] :
                   \/ i \in DOMAIN wal[q] /\ wal'[q][i] = wal[q][i]
                   \/ wal'[q][i].tag # "page" /\ wal'[q][i].image.rows = {}
             /\ \A i \in DOMAIN wal[q] : i \in DOMAIN wal'[q] /\ wal'[q][i] = wal[q][i]
  <2>1. CASE wal'[q] = wal[q] /\ (~running \/ stage[q] \in {"apply", "header", "reset"})
    BY <1>4, <2>1 DEF Live
  <2>2. CASE wal'[q] = Marked(q) /\ stage[q] = "flush"
    <3>1. running
      BY <1>0, <2>2 DEF LogInv
    <3>2. /\ cursor[q] \in Nat /\ Marked(q)[cursor[q] + 1] = CommitRecord(cursor[q])
          /\ \A i \in DOMAIN wal[q] : i \in DOMAIN Marked(q) /\ Marked(q)[i] = wal[q][i]
          /\ DOMAIN wal[q] = 1..cursor[q] /\ DOMAIN Marked(q) = 1..(cursor[q] + 1)
      BY <1>0, <2>2, MarkedWhole DEF TypeInv
    <3>3. CommitRecord(cursor[q]).tag # "page" /\ CommitRecord(cursor[q]).image.rows = {}
      BY DEF CommitRecord, ZeroPage
    <3>4. ASSUME NEW i \in DOMAIN Marked(q)
          PROVE  \/ i \in DOMAIN wal[q] /\ Marked(q)[i] = wal[q][i]
                 \/ Marked(q)[i].tag # "page" /\ Marked(q)[i].image.rows = {}
      <4>1. i \in 1..cursor[q] \/ i = cursor[q] + 1
        BY <3>2
      <4> QED
        BY <3>2, <3>3, <4>1
    <3> QED
      BY <2>2, <3>1, <3>2, <3>4 DEF Live
  <2> QED
    BY <1>3, <1>4, <2>1, <2>2
\* The file.
<1>5. file' = file \/ \E p \in Pagers : Applying(p) /\ Copied(p)
  <2>1. ASSUME NEW q \in {q \in Pagers : stage[q] = "apply"} \cup {q \in orphans : Scan(wal[q])},
               file' \in PartialReplays(file, wal[q])
        PROVE  \E p \in Pagers : Applying(p) /\ Copied(p)
    <3>1. q \in Pagers /\ Applying(q)
      BY <1>0, <2>1 DEF Applying, TypeInv
    <3>2. Whole(wal[q])
      BY <1>0, <3>1 DEF Applying, LogInv
    <3>3. Copied(q)
      BY <1>0, <2>1, <3>1, <3>2, PartialCopies
    <3> QED
      BY <3>1, <3>3
  <2> QED
    BY <1>1, <2>1
<1>6. ASSUME NEW q \in Pagers, Scan(wal'[q]), NEW no \in Page, NEW i \in DOMAIN wal[q],
             Holds(q, i, no)
      PROVE  file[no].rows \subseteq wal[q][i].image.rows /\ no \in store_load.writes[q]
  BY <1>0, <1>2, <1>3, <1>4, <1>6 DEF ChainInv, Live
<1>7. /\ file' \in [Page -> Image]
      /\ \A no \in Page : file[no].rows \subseteq file'[no].rows
      /\ \A no \in Page : \A r \in file'[no].rows : r < next_row
      /\ \A no \in Page : no >= meta.page_count => file'[no] = file[no]
      /\ \A q \in Pagers : Scan(wal'[q]) => \A no \in Page : \A i \in DOMAIN wal[q] :
            Holds(q, i, no) => file'[no].rows \subseteq wal[q][i].image.rows
      /\ \A s \in StmtId : Out(s) => \A w \in wrote[s] : w[2] \notin file'[w[1]].rows
      /\ running => \A q \in Pagers : stage[q] # "apply" =>
            \A no \in dirty_pages[q] : file'[no] = file[no]
  <2>1. CASE file' = file
    BY <1>0, <1>6, <2>1 DEF TypeInv, NumberInv, Out
  <2>2. ASSUME NEW p \in Pagers, Applying(p), Copied(p)
        PROVE  /\ file' \in [Page -> Image]
               /\ \A no \in Page : file[no].rows \subseteq file'[no].rows
               /\ \A no \in Page : \A r \in file'[no].rows : r < next_row
               /\ \A no \in Page : no >= meta.page_count => file'[no] = file[no]
               /\ \A q \in Pagers : Scan(wal'[q]) => \A no \in Page : \A i \in DOMAIN wal[q] :
                     Holds(q, i, no) => file'[no].rows \subseteq wal[q][i].image.rows
               /\ \A s \in StmtId : Out(s) => \A w \in wrote[s] : w[2] \notin file'[w[1]].rows
               /\ running => \A q \in Pagers : stage[q] # "apply" =>
                     \A no \in dirty_pages[q] : file'[no] = file[no]
    <3>1. /\ \A no \in Page : file[no].rows \subseteq file'[no].rows
          /\ \A no \in Page : \A r \in file'[no].rows : r < next_row
          /\ \A no \in Page : no >= meta.page_count => file'[no] = file[no]
          /\ \A no \in Page : running /\ no \notin dirty_pages[p] => file'[no] = file[no]
          /\ \A q \in Pagers \ {p} : Live(q) => \A no \in Page : \A i \in DOMAIN wal[q] :
                Holds(q, i, no) => file'[no] = file[no]
          /\ \A no \in Page : \A i \in DOMAIN wal[p] :
                Holds(p, i, no) => file'[no].rows \subseteq wal[p][i].image.rows
          /\ \A s \in StmtId : Out(s) => \A w \in wrote[s] : w[2] \notin file'[w[1]].rows
      BY <1>2, <2>2, CopyEffect
    <3>2. file' \in [Page -> Image]
      BY <2>2 DEF Copied
    <3>3. ASSUME NEW q \in Pagers, Scan(wal'[q]), NEW no \in Page, NEW i \in DOMAIN wal[q],
                 Holds(q, i, no)
          PROVE  file'[no].rows \subseteq wal[q][i].image.rows
      <4>1. CASE q = p
        BY <3>1, <3>3, <4>1
      <4>2. CASE q # p
        BY <1>4, <1>6, <3>1, <3>3, <4>2
      <4> QED
        BY <4>1, <4>2
    <3>4. ASSUME running, NEW q \in Pagers, stage[q] # "apply", NEW no \in dirty_pages[q]
          PROVE  file'[no] = file[no]
      <4>1. stage[p] = "apply" /\ q # p /\ no \in Page
        BY <1>0, <2>2, <3>4 DEF Applying, LogInv, TypeInv
      <4>2. no \notin dirty_pages[p]
        BY <1>0, <1>2, <4>1, DirtyApart
      <4> QED
        BY <3>1, <3>4, <4>1, <4>2
    <3> QED
      BY <3>1, <3>2, <3>3, <3>4
  <2> QED
    BY <1>5, <2>1, <2>2
<1>8. /\ header'.page_count = FirstFree /\ header.page_count = FirstFree /\ meta.page_count = FirstFree
      /\ header'.freelist_head = 0 /\ header' \in Meta
  BY <1>0, <1>1, <1>2 DEF PageInv, TypeInv
<1>9. TypeInv'
  <2>1. wal' \in [Pagers -> Seq(LogRecord)]
    BY <1>1, <1>3
  <2> QED
    BY <1>0, <1>1, <1>7, <1>8, <2>1 DEF TypeInv
<1>10. LogInv'
  BY <1>1, <1>2, <1>3 DEF LogInv
<1>11. LockInv'
  BY <1>1, PagerConstants DEF LockInv, Unlocked
<1>12. PageInv'
  <2>1. FirstFree \in Nat
    BY PagerConstants
  <2>2. \A no \in Page : no >= meta.page_count => file'[no].rows = {}
    BY <1>0, <1>7 DEF PageInv
  <2> QED
    BY <1>0, <1>1, <1>2, <1>8, <2>1, <2>2 DEF PageInv, Happens
<1>13. ChainInv'
  <2>1. ASSUME NEW q \in Pagers, NEW no \in Page, NEW i \in DOMAIN wal'[q], Holds(q, i, no)',
               Scan(wal'[q])
        PROVE  no \in store_load.writes[q] /\ file'[no].rows \subseteq wal'[q][i].image.rows
    <3>1. i \in DOMAIN wal[q] /\ Holds(q, i, no) /\ wal'[q][i] = wal[q][i]
      BY <1>4, <2>1 DEF Holds
    <3> QED
      BY <1>6, <1>7, <2>1, <3>1
  <2> QED
    BY <1>1, <1>2, <2>1 DEF ChainInv, Live
<1>14. NumberInv'
  <2>1. ASSUME NEW q \in Pagers, Scan(wal'[q]), NEW i \in DOMAIN wal'[q], NEW r \in wal'[q][i].image.rows
        PROVE  r < next_row
    <3>1. i \in DOMAIN wal[q] /\ wal'[q][i] = wal[q][i] /\ Live(q)
      BY <1>4, <2>1
    <3> QED
      BY <1>0, <2>1, <3>1 DEF NumberInv
  <2>2. \A no \in Page : pool'[no].image.rows = {}
    BY <1>1 DEF Absent, ZeroPage
  <2> QED
    BY <1>0, <1>1, <1>7, <2>1, <2>2 DEF NumberInv, StmtId, Live
<1>15. ExecInv'
  BY <1>1 DEF ExecInv
<1>16. \A s \in StmtId : \A w \in wrote[s] : w[1] \in Page
  BY <1>0, Numbers
<1>17. ASSUME NEW s \in StmtId, Out(s) PROVE Out(s)'
  <2>1. ASSUME NEW w \in wrote[s], NEW q \in Pagers, Scan(wal'[q]), NEW i \in DOMAIN wal'[q],
               wal'[q][i].tag = "page", wal'[q][i].no = w[1]
        PROVE  w[2] \notin wal'[q][i].image.rows
    <3>1. i \in DOMAIN wal[q] /\ wal'[q][i] = wal[q][i] /\ Live(q)
      BY <1>4, <2>1
    <3> QED
      BY <1>17, <2>1, <3>1 DEF Out, Holds
  <2>2. \A w \in wrote[s] : w[2] \notin pool'[w[1]].image.rows
    BY <1>1, <1>16 DEF Absent, ZeroPage
  <2> QED
    BY <1>1, <1>7, <1>17, <2>1, <2>2 DEF Out, Holds, Live
\* A statement whose rows are in the file stays whole: what is replayed has them too.
<1>18. ASSUME NEW s \in StmtId, \A w \in wrote[s] : w[2] \in file[w[1]].rows PROVE InDisk(s)'
  <2>1. ASSUME NEW w \in wrote[s], NEW q \in Pagers, Scan(wal'[q]), NEW i \in DOMAIN wal'[q],
               wal'[q][i].tag = "page", wal'[q][i].no = w[1]
        PROVE  w[2] \in wal'[q][i].image.rows
    <3>1. i \in DOMAIN wal[q] /\ wal'[q][i] = wal[q][i] /\ Holds(q, i, w[1]) /\ w[1] \in Page
      BY <1>4, <1>16, <2>1 DEF Holds
    <3>2. file[w[1]].rows \subseteq wal[q][i].image.rows
      BY <1>6, <2>1, <3>1
    <3> QED
      BY <1>18, <3>1, <3>2
  <2>2. \A w \in wrote[s] : w[2] \in file'[w[1]].rows
    BY <1>7, <1>16, <1>18
  <2> QED
    BY <1>1, <2>1, <2>2 DEF InDisk, Holds
<1>19. ASSUME NEW s \in StmtId, ~running, InDisk(s) PROVE InDisk(s)'
  <2>1. \A q \in Pagers : wal'[q] = wal[q]
    BY <1>3, <1>19
  <2>2. \A w \in wrote[s] : w[2] \in file[w[1]].rows => w[2] \in file'[w[1]].rows
    BY <1>7, <1>16
  <2> QED
    BY <1>1, <1>19, <2>1, <2>2 DEF InDisk, Holds
\* The statement of a pager, wherever the crash meets it.
<1>20. ASSUME NEW p \in Pagers, stage[p] # "idle", NEW s \in StmtId, s = stmt_no[p]
       PROVE  InDisk(s)' \/ Out(s)'
  <2>1. running
    BY <1>0, <1>20 DEF LogInv
  <2>2. \A w \in wrote[s] : w[1] \in dirty_pages[p] /\ w[1] \in Page
    BY <1>0, <1>16, <1>20 DEF ExecInv
  <2>3. ASSUME NEW w \in wrote[s], NEW q \in Pagers, Scan(wal'[q]), NEW i \in DOMAIN wal'[q],
               wal'[q][i].tag = "page", wal'[q][i].no = w[1]
        PROVE  q = p /\ i \in DOMAIN wal[p] /\ wal'[p][i] = wal[p][i] /\ Holds(p, i, w[1])
    <3>1. i \in DOMAIN wal[q] /\ wal'[q][i] = wal[q][i] /\ Holds(q, i, w[1])
      BY <1>4, <2>3 DEF Holds
    <3>2. w[1] \in dirty_pages[q]
      BY <1>0, <2>1, <2>2, <3>1 DEF ChainInv
    <3>3. q = p
      BY <1>0, <1>2, <2>2, <3>2, DirtyApart
    <3> QED
      BY <3>1, <3>3
  <2>4. CASE stage[p] \in {"header", "reset", "clean"}
    <3>1. \A w \in wrote[s] : w[2] \in file[w[1]].rows
      BY <1>0, <1>20, <2>4 DEF ExecInv
    <3> QED
      BY <1>18, <3>1
  <2>5. CASE (stage[p] = "apply" \/ stage[p] = "flush") /\ Scan(wal'[p])
    <3>1. ASSUME NEW w \in wrote[s]
          PROVE  \E i \in DOMAIN wal'[p] : wal'[p][i].tag = "page" /\ wal'[p][i].no = w[1]
      <4>1. PICK i \in DOMAIN wal[p] : Holds(p, i, w[1])
        <5>1. CASE stage[p] = "apply"
          BY <1>0, <1>20, <5>1 DEF ExecInv
        <5>2. CASE stage[p] = "flush"
          <6>1. Unflushed(p) = {}
            BY <1>3, <2>1, <2>5, <5>2
          <6> QED
            BY <1>0, <2>2, <5>2, <6>1, AllFlushed
        <5> QED
          BY <2>5, <5>1, <5>2
      <4> QED
        BY <1>4, <2>5, <4>1 DEF Holds
    <3>2. ASSUME NEW w \in wrote[s], NEW q \in Pagers, Scan(wal'[q]), NEW i \in DOMAIN wal'[q],
                 wal'[q][i].tag = "page", wal'[q][i].no = w[1]
          PROVE  w[2] \in wal'[q][i].image.rows
      BY <1>0, <1>20, <2>3, <2>5, <3>2 DEF ExecInv
    <3> QED
      BY <1>1, <2>5, <3>1, <3>2 DEF InDisk, Holds
  <2>6. CASE stage[p] \in {"exec", "flush"} /\ ~Scan(wal'[p])
    <3>1. ASSUME NEW w \in wrote[s]
          PROVE  w[2] \notin file'[w[1]].rows /\ w[2] \notin pool'[w[1]].image.rows
      <4>1. w[2] \notin file[w[1]].rows
        BY <1>0, <1>2, <1>20, <2>6 DEF ExecInv
      <4>2. file'[w[1]] = file[w[1]]
        BY <1>7, <2>1, <2>2, <2>6
      <4>3. pool'[w[1]].image.rows = {}
        BY <1>1, <2>2 DEF Absent, ZeroPage
      <4> QED
        BY <4>1, <4>2, <4>3
    <3>2. ASSUME NEW w \in wrote[s], NEW q \in Pagers, Scan(wal'[q]), NEW i \in DOMAIN wal'[q],
                 wal'[q][i].tag = "page", wal'[q][i].no = w[1]
          PROVE  FALSE
      BY <2>3, <2>6, <3>2
    <3> QED
      BY <1>1, <3>1, <3>2 DEF Out, Holds, Live
  <2>7. /\ stage[p] = "apply" => Scan(wal'[p])
        /\ stage[p] = "exec" => ~Scan(wal'[p])
    <3>1. ASSUME stage[p] = "apply" PROVE Scan(wal'[p])
      <4>1. wal'[p] = wal[p] /\ Whole(wal[p]) /\ wal[p] \in Seq(LogRecord)
        BY <1>0, <1>3, <3>1 DEF LogInv, TypeInv
      <4>2. Scan(wal[p])
        BY <4>1, WholeRun DEF Whole
      <4> QED
        BY <4>1, <4>2
    <3> QED
      BY <1>4, <2>1, <3>1
  <2> QED
    BY <1>0, <1>20, <2>4, <2>5, <2>6, <2>7 DEF TypeInv, LogInv
<1>21. EndInv'
  <2>1. ASSUME NEW s \in StmtId PROVE InDisk(s)' \/ Out(s)'
    <3>1. CASE s \in Executing
      BY <1>20, <3>1 DEF Executing
    <3>2. CASE s \notin Executing
      <4>1. (IF running THEN InFile(s) ELSE InDisk(s)) \/ Out(s)
        BY <1>0, <1>2, <3>2 DEF EndInv
      <4>2. CASE running /\ InFile(s)
        BY <1>18, <4>2 DEF InFile
      <4> QED
        BY <1>17, <1>19, <4>1, <4>2
    <3> QED
      BY <3>1, <3>2
  <2>2. ASSUME NEW s \in StmtId, s \in undone PROVE Out(s)'
    <3>1. s \notin Executing
      BY <1>0, <2>2 DEF NumberInv, Executing
    <3>2. Out(s)
      BY <1>0, <1>2, <2>2, <3>1 DEF EndInv
    <3> QED
      BY <1>17, <3>2
  <2>3. \A s \in acked : \A w \in wrote[s] : w[2] \in file'[w[1]].rows /\ w[1] < header'.page_count
    <3>1. acked \subseteq StmtId
      BY <1>0 DEF TypeInv
    <3> QED
      BY <1>0, <1>7, <1>8, <1>16, <3>1 DEF EndInv
  <2> QED
    BY <1>1, <1>2, <2>1, <2>2, <2>3 DEF EndInv, StmtId
<1> QED
  BY <1>0, <1>2, <1>9, <1>10, <1>11, <1>12, <1>13, <1>14, <1>15, <1>21 DEF AllInv

-----------------------------------------------------------------------------
(* Theorems *)

LEMMA PagerInvInitially == StoreInit => PagerInv
<1> SUFFICES ASSUME StoreInit, Sheltered PROVE AllInv
  BY DEF PagerInv
<1> USE DEF StoreInit
<1>1. /\ MaxPage \in Nat /\ FirstFree \in 1..(MaxPage + 1) /\ MaxStmt \in Nat /\ MaxRowNo \in Nat
      /\ ZeroPage \in Image /\ ZeroPage.rows = {} /\ Absent.image.rows = {}
  BY PagerConstants, RecordTypes DEF ZeroPage, Absent
<1>2. TypeInv
  BY <1>1 DEF TypeInv, Meta
<1>3. LogInv /\ LockInv
  BY PagerConstants DEF LogInv, LockInv, Unlocked
<1>4. PageInv
  BY <1>1 DEF PageInv
<1>5. ChainInv
  BY DEF ChainInv, Holds
<1>6. NumberInv
  BY <1>1 DEF NumberInv, StmtId
<1>7. ExecInv
  BY DEF ExecInv
<1>8. EndInv
  BY DEF EndInv, InFile, Out, StmtId
<1> QED
  BY <1>2, <1>3, <1>4, <1>5, <1>6, <1>7, <1>8 DEF AllInv

LEMMA PagerInvStep == PagerInv /\ [StoreNext]_storeVars => PagerInv'
<1> SUFFICES ASSUME PagerInv, [StoreNext]_storeVars, Sheltered' PROVE AllInv'
  BY DEF PagerInv
<1>1. UNCHANGED store_load
  <2>1. ASSUME NEW p \in Pagers PROVE
          /\ BeginStatement(p) \/ AllocPage(p) \/ Rollback(p) \/ CommitNothing(p)
             \/ LockApply(p) \/ Seal(p) => UNCHANGED store_load
          /\ Apply(p) \/ WriteHeader(p) \/ ResetWal(p) \/ MarkClean(p) \/ RecoverWal(p)
               => UNCHANGED store_load
    BY DEF BeginStatement, AllocPage, Rollback, CommitNothing, LockApply, Seal, Apply,
           WriteHeader, ResetWal, MarkClean, RecoverWal
  <2>2. ASSUME NEW p \in Pagers, NEW no \in Page
        PROVE  AddRow(p, no) \/ FreePage(p, no) \/ FlushPage(p, no) => UNCHANGED store_load
    BY DEF AddRow, FreePage, FlushPage
  <2>3. OpenDone \/ (\E power \in BOOLEAN : Crash(power)) => UNCHANGED store_load
    BY DEF OpenDone, Crash
  <2>4. UNCHANGED storeVars => UNCHANGED store_load
    BY DEF storeVars
  <2> QED
    BY <2>1, <2>2, <2>3, <2>4 DEF StoreNext
<1>2. Sheltered /\ AllInv
  BY <1>1, SameLoad DEF PagerInv
<1>3. ASSUME NEW p \in Pagers, NEW no \in Page, FreePage(p, no) PROVE FALSE
  BY <1>2, <1>3 DEF FreePage, Sheltered
<1>4. CASE StoreNext
  BY <1>2, <1>3, <1>4, BeginKeeps, AllocPageKeeps, RollbackKeeps, CommitNothingKeeps,
     LockApplyKeeps, SealKeeps, ApplyKeeps, WriteHeaderKeeps, ResetWalKeeps, MarkCleanKeeps,
     RecoverWalKeeps, AddRowKeeps, FlushPageKeeps, CrashKeeps, OpenDoneKeeps DEF StoreNext
<1>5. CASE UNCHANGED storeVars
  <2>1. UNCHANGED <<store_load, file, header, wal, wal_synced, pool, meta, apply_lock, stage,
                    stmt_no, cursor, wal_index, dirty_pages, allocated_pages, pending_freelist,
                    orphans, running, crashes, next_stmt, next_row, wrote, acked, undone>>
    BY <1>5 DEF storeVars, diskVars, sharedVars, localVars, processVars, storeHist
  <2>2. (Sheltered' <=> Sheltered) /\ (Risky' <=> Risky) /\ (Crashing' <=> Crashing)
    BY <2>1, SameLoad
  <2>3. TypeInv'
    BY <1>2, <2>1 DEF AllInv, TypeInv
  <2>4. LogInv' /\ LockInv'
    BY <1>2, <2>1, <2>2 DEF AllInv, LogInv, LockInv
  <2>5. PageInv'
    BY <1>2, <2>1, <2>2 DEF AllInv, PageInv, Happens
  <2>6. ChainInv' /\ ExecInv'
    BY <1>2, <2>1, <2>2 DEF AllInv, ChainInv, ExecInv, Holds, Live
  <2>7. NumberInv'
    BY <1>2, <2>1 DEF AllInv, NumberInv, StmtId, Live
  <2>8. EndInv'
    <3>1. Executing' = Executing
      BY <2>1 DEF Executing
    <3> QED
      BY <1>2, <2>1, <3>1, EndStays DEF AllInv
  <2> QED
    BY <1>2, <2>2, <2>3, <2>4, <2>5, <2>6, <2>7, <2>8 DEF AllInv
<1> QED
  BY <1>4, <1>5

LEMMA PagerInvHolds == StoreSpec => []PagerInv
  BY PagerInvInitially, PagerInvStep, PTL DEF StoreSpec

\* What a reader sees of a page is at least what the file has.
LEMMA ShownRows ==
  ASSUME AllInv, NEW no \in Page
  PROVE  /\ file[no].rows \subseteq Shown(no).rows
         /\ \A r \in Shown(no).rows : r \in file[no].rows \/ r \in pool[no].image.rows
<1>1. CASE pool[no] = Absent
  BY <1>1 DEF Shown, Resident
<1>2. CASE pool[no] # Absent
  <2>1. Shown(no) = pool[no].image
    BY <1>2 DEF Shown, Resident
  <2> QED
    BY <1>2, <2>1 DEF AllInv, ChainInv
<1> QED
  BY <1>1, <1>2

\* Pager::commit returns Ok only when every row of the statement is in the file and on a
\* page the header covers, and the row stays there and readable: whatever other
\* connections commit or roll back, wherever the process is killed or loses power, a
\* recovery included, for any number of connections, pages, statements and crashes.
THEOREM AcknowledgedRowsStay == StoreSpec => [](Sheltered => AckedRowsInFile)
<1>1. PagerInv => (Sheltered => AckedRowsInFile)
  <2> SUFFICES ASSUME AllInv, NEW s \in acked, NEW w \in wrote[s]
               PROVE  /\ w[2] \in file[w[1]].rows /\ w[1] < header.page_count
                      /\ running => w[2] \in Shown(w[1]).rows
    BY DEF PagerInv, AckedRowsInFile
  <2>1. w[2] \in file[w[1]].rows /\ w[1] < header.page_count
    BY DEF AllInv, EndInv
  <2>2. w[1] \in Page
    BY Numbers DEF AllInv, TypeInv
  <2> QED
    BY <2>1, <2>2, ShownRows
<1> QED
  BY <1>1, PagerInvHolds, PTL

\* A statement that has ended is there with all its rows or with none, and with none after
\* Pager::rollback: a crash between any two of the file operations of commit_apply leaves
\* a log that Wal::recover either replays whole or skips whole.
THEOREM StatementsAreAtomic == StoreSpec => [](Sheltered => StatementAtomic)
<1>1. PagerInv => (Sheltered => StatementAtomic)
  <2> SUFFICES ASSUME AllInv, running, NEW s \in StmtId \ Executing
               PROVE  LET present == {w \in wrote[s] : /\ w[1] < meta.page_count
                                                       /\ w[2] \in Shown(w[1]).rows}
                      IN  present = {} \/ (present = wrote[s] /\ s \notin undone)
    BY DEF PagerInv, StatementAtomic
  <2> DEFINE present == {w \in wrote[s] : w[1] < meta.page_count /\ w[2] \in Shown(w[1]).rows}
  <2>1. \A w \in wrote[s] : w[1] \in Page /\ w[1] < meta.page_count
    BY Numbers DEF AllInv, NumberInv
  <2>2. ASSUME \A w \in wrote[s] : w[2] \in file[w[1]].rows PROVE present = wrote[s]
    BY <2>1, <2>2, ShownRows
  <2>3. ASSUME Out(s) PROVE present = {}
    BY <2>1, <2>3, ShownRows DEF Out
  <2>4. CASE Risky
    <3>1. (InFile(s) \/ Out(s)) /\ (s \in undone => Out(s))
      BY <2>4 DEF AllInv, EndInv
    <3>2. InFile(s) => present = wrote[s]
      BY <2>2 DEF InFile
    <3> QED
      BY <2>3, <3>1, <3>2
  <2>5. CASE ~Risky
    <3>1. undone = {} /\ (s \in acked \/ wrote[s] = {})
      BY <2>5 DEF AllInv, EndInv
    <3>2. s \in acked => present = wrote[s]
      BY <2>2 DEF AllInv, EndInv
    <3> QED
      BY <3>1, <3>2
  <2> QED
    BY <2>4, <2>5
<1> QED
  BY <1>1, PagerInvHolds, PTL

=============================================================================
