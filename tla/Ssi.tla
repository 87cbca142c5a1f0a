--------------------------------- MODULE Ssi ---------------------------------
(***************************************************************************)
(* Serializable snapshot isolation: the read sets and conflict flags of    *)
(* engine/transaction.rs (SsiTxState), fed by the scans and row writes of  *)
(* engine/executor.rs and consulted at commit.                             *)
(*                                                                         *)
(* One table with an index, whose keys are divided into one range for each *)
(* item: the range the item's key lies in at first.  An UPDATE keeps the   *)
(* key in its range ("update") or moves it to another one ("move").  Every *)
(* transaction runs once, and each item has at most one writer, so that    *)
(* rw-conflicts are the only conflicts; module Mvcc has the write-write    *)
(* ones.  An action is one                                                 *)
(* critical section of the ssi mutex or one access to the B+tree, so a     *)
(* reader and a writer of one row interleave between fetching the row and  *)
(* noting the read, and between stamping the row and noting the write.     *)
(***************************************************************************)
EXTENDS Naturals, FiniteSets

CONSTANTS
    Txn,        \* transactions, each run once
    Item,       \* logical rows
    Loaded,     \* the items that exist from the start
    Reads,      \* [Txn -> SUBSET Item], what a transaction may SELECT
    Writes,     \* [Txn -> SUBSET Item], what it may write
    Workloads,  \* the statements clients send: [ops, path] records
    None        \* no transaction, no key

ASSUME SsiConstants ==
    /\ Item # {} /\ Loaded \subseteq Item
    /\ Reads \in [Txn -> SUBSET Item]
    /\ Writes \in [Txn -> SUBSET Item]
    /\ \A t, u \in Txn : t # u => Writes[t] \cap Writes[u] = {}
    /\ Workloads \subseteq [ops : SUBSET {"insert", "update", "move", "delete"},
                            path : {"table", "index"}]
    /\ None \notin Txn \cup Item

VARIABLES
    \* the kinds of write statement in use and the access path of every scan
    workload,
    \* the table: who wrote each item, and the range its newest version's key is in
    writer, key,
    \* the ssi map: its keys, and per key the read set and the two flags
    entries, read_set, in_conflict, out_conflict,
    \* transactions
    pc,
    op, item,    \* the statement being executed
    peer,        \* tx_max of the row just fetched
    seen,        \* the transactions its snapshot covers
    reads,       \* history: the items it has read,
    early,       \* the items nobody had written when it took a lock, with the lock,
    overtaken    \* and those whose writer looked for readers between fetch and note

ssiVars == <<entries, read_set, in_conflict, out_conflict>>
historyVars == <<reads, early, overtaken>>
vars == <<workload, writer, key, ssiVars, pc, op, item, peer, seen, historyVars>>

ReadLock == [kind : {"Relation"}] \cup [kind : {"Tuple", "IndexRange"}, of : Item]
Relation      == [kind |-> "Relation"]
Tuple(i)      == [kind |-> "Tuple", of |-> i]
IndexRange(i) == [kind |-> "IndexRange", of |-> i]

Updates == {"update", "move"}
Statement == {"none", "select", "insert", "delete"} \cup Updates
Ended     == {"committed", "rolledback"}

TypeOK ==
    /\ workload \in Workloads
    /\ writer \in [Item -> Txn \cup {None}]
    /\ key \in [Item -> Item \cup {None}]
    /\ entries \subseteq Txn
    /\ read_set \in [Txn -> SUBSET ReadLock]
    /\ in_conflict \subseteq entries
    /\ out_conflict \subseteq entries
    /\ pc \in [Txn -> {"idle", "active", "fetch", "note", "write", "mark",
                       "index", "phantom", "checked", "doomed"}
                      \cup Ended]
    /\ op \in [Txn -> Statement]
    /\ item \in [Txn -> Item]
    /\ peer \in [Txn -> Txn \cup {None}]
    /\ seen \in [Txn -> SUBSET Txn]
    /\ reads \in [Txn -> SUBSET Item]
    /\ early \in [Txn -> SUBSET (ReadLock \X Item)]
    /\ overtaken \in [Txn -> SUBSET Item]

Init ==
    /\ workload \in Workloads
    /\ writer = [i \in Item |-> None]
    /\ key = [i \in Item |-> i]
    /\ entries = {} /\ in_conflict = {} /\ out_conflict = {}
    /\ read_set = [t \in Txn |-> {}]
    /\ pc = [t \in Txn |-> "idle"]
    /\ op = [t \in Txn |-> "none"]
    /\ item = [t \in Txn |-> CHOOSE i \in Item : TRUE]
    /\ peer = [t \in Txn |-> None]
    /\ seen = [t \in Txn |-> {}]
    /\ reads = [t \in Txn |-> {}]
    /\ early = [t \in Txn |-> {}]
    /\ overtaken = [t \in Txn |-> {}]

-----------------------------------------------------------------------------
(* rw-edges *)

\* The flags after the edges from readers to w have been marked.
MarkEdges(readers, w) ==
    /\ in_conflict' = IF readers = {} THEN in_conflict ELSE in_conflict \cup {w}
    /\ out_conflict' = out_conflict \cup readers

\* The other transactions that hold one of these locks.
Holders(t, locks) ==
    {r \in entries \ {t} : read_set[r] \cap locks # {}}

\* Mutant: the reader's side of the edge is not marked.
EdgeTo_WriterOnly(t, w) ==
    /\ in_conflict' = in_conflict \cup ({w} \cap entries)
    /\ UNCHANGED out_conflict

\* record_read, second half: the row read is being deleted by w.
EdgeTo(t, w) ==
    MarkEdges(IF w # t /\ w \in entries THEN {t} ELSE {}, w)

\* Transaction t continues with the next step of its statement.
Goto(t, l) == pc' = [pc EXCEPT ![t] = l]

-----------------------------------------------------------------------------
(* Statements *)

\* begin_write and the snapshot: whoever has left the in-flight set is covered.
Begin(t) ==
    /\ pc[t] = "idle"
    /\ entries' = entries \cup {t}
    /\ seen' = [seen EXCEPT ![t] = {u \in Txn : pc[u] = "committed"}]
    /\ Goto(t, "active")
    /\ UNCHANGED <<workload, writer, key, read_set, in_conflict, out_conflict, op,
                   item, peer, historyVars>>

\* The lock a scan takes before it looks at any row: record_relation_read
\* (TableScan, collect_candidates) or record_index_range_read.
ScanLock(i) == IF workload.path = "table" THEN Relation ELSE IndexRange(i)

\* The items nobody has written.
Unwritten == {i \in Item : writer[i] = None}

\* A SELECT, or the scan of an UPDATE or DELETE, starts.
StartScan(t, o, i) ==
    /\ pc[t] = "active"
    /\ op' = [op EXCEPT ![t] = o]
    /\ item' = [item EXCEPT ![t] = i]
    /\ read_set' = [read_set EXCEPT ![t] = @ \cup {ScanLock(i)}]
    /\ early' = [early EXCEPT ![t] = @ \cup ({ScanLock(i)} \X Unwritten)]
    /\ Goto(t, "fetch")
    /\ UNCHANGED <<workload, writer, key, entries, in_conflict, out_conflict, peer,
                   seen, reads, overtaken>>

\* Whether t's snapshot shows the version of item i that was loaded, tombstoned
\* or not.
SeesLoaded(t, i) ==
    /\ i \in Loaded
    /\ writer[i] = None \/ writer[i] \notin seen[t] \cup {t}

\* Where a scan goes on once the row is there: back to the client, or to the
\* write if it found a row to change.
AfterScan(t) ==
    IF op[t] # "select" /\ SeesLoaded(t, item[t]) THEN "write" ELSE "active"

\* The scan reads the row.  A table scan is done; an index scan goes on to
\* record a visible row.
Fetch(t) ==
    /\ pc[t] = "fetch"
    /\ reads' = [reads EXCEPT ![t] = @ \cup {item[t]}]
    /\ IF workload.path = "index" /\ SeesLoaded(t, item[t])
       THEN /\ peer' = [peer EXCEPT ![t] = writer[item[t]]]
            /\ Goto(t, "note")
       ELSE /\ Goto(t, AfterScan(t))
            /\ UNCHANGED peer
    /\ UNCHANGED <<workload, writer, key, ssiVars, op, item, seen, early, overtaken>>

\* Since t fetched the row its writer has stamped it and looked for its readers.
Overtaken(t) ==
    LET w == writer[item[t]]
    IN w # peer[t] /\ ~(pc[w] = "mark" /\ item[w] = item[t])

\* record_read: the tuple lock, and the edge to the transaction whose tombstone
\* the fetched row carried.
RecordRead(t) ==
    /\ pc[t] = "note"
    /\ read_set' = [read_set EXCEPT ![t] = @ \cup {Tuple(item[t])}]
    /\ EdgeTo(t, peer[t])
    /\ peer' = [peer EXCEPT ![t] = None]
    /\ overtaken' = [overtaken EXCEPT ![t] = @ \cup (IF Overtaken(t) THEN {item[t]} ELSE {})]
    /\ Goto(t, IF op[t] = "select" THEN "active" ELSE "write")
    /\ UNCHANGED <<workload, writer, key, entries, op, item, seen, reads, early>>

\* Where an UPDATE or DELETE leaves the key of its row.
NewKeys(o, i) ==
    CASE o = "update" -> {i} [] o = "move" -> Item \ {i} [] OTHER -> {None}

\* update and delete: the row is rewritten with tx_max set.
Tombstone(t) ==
    /\ pc[t] = "write" /\ op[t] # "insert"
    /\ writer' = [writer EXCEPT ![item[t]] = t]
    /\ \E k \in NewKeys(op[t], item[t]) : key' = [key EXCEPT ![item[t]] = k]
    /\ Goto(t, "mark")
    /\ UNCHANGED <<workload, ssiVars, op, item, peer, seen, historyVars>>

\* Mutant: only tuple locks are looked for.
RecordWrite_TuplesOnly(t) ==
    /\ pc[t] = "mark"
    /\ MarkEdges(Holders(t, {Tuple(item[t])}), t)
    /\ Goto(t, IF op[t] \in Updates THEN "index" ELSE "active")
    /\ UNCHANGED <<workload, writer, key, entries, read_set, op, item, peer, seen, historyVars>>

\* record_write; an UPDATE then writes its new version and index entries.
RecordWrite(t) ==
    /\ pc[t] = "mark"
    /\ MarkEdges(Holders(t, {Tuple(item[t]), Relation}), t)
    /\ Goto(t, IF op[t] \in Updates THEN "index" ELSE "active")
    /\ UNCHANGED <<workload, writer, key, entries, read_set, op, item, peer, seen, historyVars>>

\* insert: a row and its index entry under a fresh rowid.
InsertRow(t, i) ==
    /\ pc[t] = "active"
    /\ op' = [op EXCEPT ![t] = "insert"]
    /\ item' = [item EXCEPT ![t] = i]
    /\ writer' = [writer EXCEPT ![i] = t]
    /\ Goto(t, "index")
    /\ UNCHANGED <<workload, key, ssiVars, peer, seen, historyVars>>

\* The peers that have scanned the index range the new key falls into.  The range
\* the old key was in is not looked up.
IndexReaders(t) == Holders(t, {IndexRange(key[item[t]])})

\* record_index_write for the new version's key.
RecordIndexWrite(t) ==
    /\ pc[t] = "index"
    /\ MarkEdges(IndexReaders(t), t)
    /\ Goto(t, IF op[t] = "insert" THEN "phantom" ELSE "active")
    /\ UNCHANGED <<workload, writer, key, entries, read_set, op, item, peer, seen, historyVars>>

\* record_insert: whoever scanned the whole table.
RecordInsert(t) ==
    /\ pc[t] = "phantom"
    /\ MarkEdges(Holders(t, {Relation}), t)
    /\ Goto(t, "active")
    /\ UNCHANGED <<workload, writer, key, entries, read_set, op, item, peer, seen, historyVars>>

-----------------------------------------------------------------------------
(* The end of a transaction *)

\* Mutant: a transaction that nobody has read from is never a pivot.
Pivot_InOnly(t) == t \in in_conflict /\ t \notin out_conflict
\* ssi_check_commit: both flags are set.
Pivot(t) == t \in in_conflict /\ t \in out_conflict

\* COMMIT: the check, and on failure rollback_write.
CheckCommit(t) ==
    /\ pc[t] = "active"
    /\ Goto(t, IF Pivot(t) THEN "doomed" ELSE "checked")
    /\ UNCHANGED <<workload, writer, key, ssiVars, op, item, peer, seen, historyVars>>

\* ROLLBACK or a failed statement.
Rollback(t) ==
    /\ pc[t] = "active"
    /\ Goto(t, "doomed")
    /\ UNCHANGED <<workload, writer, key, ssiVars, op, item, peer, seen, historyVars>>

\* commit_write and rollback_write: the outcome is recorded and the ID leaves
\* the in-flight set.
Resolve(t) ==
    /\ pc[t] \in {"checked", "doomed"}
    /\ Goto(t, IF pc[t] = "checked" THEN "committed" ELSE "rolledback")
    /\ UNCHANGED <<workload, writer, key, ssiVars, op, item, peer, seen, historyVars>>

\* Mutant: the flags outlive the entry.
DropEntry_KeepFlags(t) ==
    /\ pc[t] \in Ended /\ t \in entries
    /\ entries' = entries \ {t}
    /\ read_set' = [read_set EXCEPT ![t] = {}]
    /\ UNCHANGED <<workload, writer, key, in_conflict, out_conflict, pc, op, item, peer, seen,
                   historyVars>>

\* commit_write and rollback_write, last step: the ssi entry is dropped.
DropEntry(t) ==
    /\ pc[t] \in Ended /\ t \in entries
    /\ entries' = entries \ {t}
    /\ in_conflict' = in_conflict \ {t}
    /\ out_conflict' = out_conflict \ {t}
    /\ read_set' = [read_set EXCEPT ![t] = {}]
    /\ UNCHANGED <<workload, writer, key, pc, op, item, peer, seen, historyVars>>

-----------------------------------------------------------------------------

\* What a client sends next: each item is read at most once and written at most
\* once.
Select(t) == \E i \in Reads[t] \ reads[t] : StartScan(t, "select", i)

Change(t) ==
    \E i \in Writes[t] \cap Loaded : \E o \in workload.ops \ {"insert"} :
        writer[i] = None /\ StartScan(t, o, i)

Insert(t) ==
    \E i \in Writes[t] \ Loaded :
        "insert" \in workload.ops /\ writer[i] = None /\ InsertRow(t, i)

Next ==
    \E t \in Txn :
      \/ Begin(t) \/ Select(t) \/ Change(t) \/ Insert(t)
      \/ Fetch(t) \/ RecordRead(t)
      \/ Tombstone(t) \/ RecordWrite(t) \/ RecordIndexWrite(t) \/ RecordInsert(t)
      \/ CheckCommit(t) \/ Rollback(t) \/ Resolve(t) \/ DropEntry(t)

Spec == Init /\ [][Next]_vars

-----------------------------------------------------------------------------
(* Properties *)

\* t has a transaction open and no statement of it is being executed.
BetweenStatements(t) == pc[t] \in {"active", "checked"} /\ t \in entries

\* t noted item i after its writer had looked for readers of the row, and the new
\* key is not in the range the row was found in: neither half of the tracking sees
\* the other.
Missed(t, i) == i \in overtaken[t] /\ key[i] # i

\* u wrote item i, and t's snapshot does not cover u.
WrittenBeside(t, u, i) == writer[i] = u /\ u # t /\ u \notin seen[t]

\* t must come before u because of a row that t has fetched and noted.
PrecedesByTuple(t, u) ==
    \E i \in Item : Tuple(i) \in read_set[t] /\ WrittenBeside(t, u, i) /\ ~Missed(t, i)

\* A lock on the table, on the range item i was in, or on the range it is in now.
Covers(lock, i) == lock \in {Relation, IndexRange(i), IndexRange(key[i])}

\* t must come before u because of an item in what t has locked for reading.
PrecedesByLock(t, u) ==
    \E e \in early[t] :
      Covers(e[1], e[2]) /\ WrittenBeside(t, u, e[2]) /\ ~Missed(t, e[2])

Edge(t, u) == t \in out_conflict /\ u \in in_conflict

\* Every rw-dependency on a row that record_read has noted is known, whichever of
\* reader and writer came first and however their steps interleaved: record_read
\* sees the tombstone or record_write sees the lock, or record_index_write finds
\* the range locked though the row was fetched before the write and noted after it.
\* The one exception is that last order when the write leaves no key in the range:
\* an UPDATE that moves the row out of it, or a DELETE (Missed).
EdgeMarked ==
    \A t, u \in Txn :
      BetweenStatements(t) /\ BetweenStatements(u) /\ PrecedesByTuple(t, u) => Edge(t, u)

\* "a concurrent INSERT into the table marks an rw-edge even though the new row was
\* never in our read_set": a scan of a table or of an index range has an edge to
\* whoever, after it took its lock, inserts, updates or deletes an item of the table
\* or the range, or moves one into the range or out of it, even if the scan comes to
\* the row later; with the exception named above.
LockCatchesWriter ==
    \A t, u \in Txn :
      BetweenStatements(t) /\ BetweenStatements(u) /\ PrecedesByLock(t, u) => Edge(t, u)

\* "any concurrent insert/update/delete that touches a key in that range marks an
\* rw-edge, exactly the way the Relation lock does": the same with no exception.
LocksCatchAlike ==
    \A t, u \in Txn : \A e \in early[t] :
      /\ BetweenStatements(t) /\ BetweenStatements(u)
      /\ Covers(e[1], e[2]) /\ WrittenBeside(t, u, e[2])
      => Edge(t, u)

\* A transaction does not pass ssi_check_commit while it and another running
\* transaction each must come before the other, be it for rows they have noted or
\* for what they had locked when the other wrote.
PairIsBroken ==
    [][\A t, u \in Txn :
          (pc[t] = "active" /\ pc'[t] = "checked" /\ BetweenStatements(u)) =>
             ~(/\ PrecedesByTuple(t, u) \/ PrecedesByLock(t, u)
               /\ PrecedesByTuple(u, t) \/ PrecedesByLock(u, t))]_vars

Committed == {t \in Txn : pc[t] = "committed"}

\* u changed what a SELECT of item i returns: its row, or one that has moved there.
Touched(u, i) == writer[i] = u \/ \E j \in Item : writer[j] = u /\ key[j] = i

\* t comes before u in any serial order that explains what both have read: t read
\* an item u changed and its snapshot does not cover u, or u read what t changed.
Before(t, u) ==
    \/ \E i \in reads[t] : Touched(u, i) /\ u # t /\ u \notin seen[t]
    \/ \E i \in reads[u] : Touched(t, i) /\ t \in seen[u]

\* "The canonical write-skew anomaly [...] is caught": the committed transactions
\* have a serial order.
Serializable ==
    \E place \in [Committed -> 1..Cardinality(Committed)] :
      \A t, u \in Committed : Before(t, u) => place[t] < place[u]
=============================================================================
