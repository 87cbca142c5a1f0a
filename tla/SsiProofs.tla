------------------------------ MODULE SsiProofs ------------------------------
(***************************************************************************)
(* Proofs about the conflict tracking of serializable snapshot isolation,  *)
(* for every set of transactions, every set of items, and every assignment *)
(* of reads and writes in which an item has at most one writer.            *)
(***************************************************************************)
EXTENDS Ssi, TLAPS

\* A transaction that runs has its entry in the ssi map.
TypeInv ==
    /\ TypeOK
    /\ \A t \in Txn : pc[t] \notin {"idle"} \cup Ended => t \in entries


\* No transaction has begun.
LEMMA TypeInit == Init => TypeInv
  <1> SUFFICES ASSUME Init PROVE TypeInv
    OBVIOUS
  <1>1. (CHOOSE i \in Item : TRUE) \in Item
    BY SsiConstants
  <1>2. QED
    BY <1>1, SsiConstants DEF Init, TypeInv, TypeOK, Statement, Updates

\* The steps of Next, one name for each action.
LEMMA NextCases ==
    ASSUME [Next]_vars
    PROVE  \/ \E t \in Txn : Begin(t)
           \/ \E t \in Txn : \E i \in Reads[t] : StartScan(t, "select", i)
           \/ \E t \in Txn : \E i \in Writes[t] \cap Loaded :
                \E o \in workload.ops \ {"insert"} :
                  writer[i] = None /\ StartScan(t, o, i)
           \/ \E t \in Txn : \E i \in Writes[t] \ Loaded :
                writer[i] = None /\ "insert" \in workload.ops /\ InsertRow(t, i)
           \/ \E t \in Txn : Fetch(t)
           \/ \E t \in Txn : RecordRead(t)
           \/ \E t \in Txn : Tombstone(t)
           \/ \E t \in Txn : RecordWrite(t)
           \/ \E t \in Txn : RecordIndexWrite(t)
           \/ \E t \in Txn : RecordInsert(t)
           \/ \E t \in Txn : CheckCommit(t) \/ Rollback(t) \/ Resolve(t)
           \/ \E t \in Txn : DropEntry(t)
           \/ UNCHANGED vars
  BY Zenon DEF Next, Select, Change, Insert

\* Marking edges only flags transactions that have an entry.
LEMMA MarkEdgesType ==
    ASSUME TypeInv, NEW t \in entries, NEW locks, entries' = entries,
           MarkEdges(Holders(t, locks), t)
    PROVE  in_conflict' \subseteq entries' /\ out_conflict' \subseteq entries'
  BY DEF TypeInv, TypeOK, MarkEdges, Holders

\* Every step of a statement, a commit and a rollback keeps the types.
LEMMA TypeNext == TypeInv /\ [Next]_vars => TypeInv'
  <1> SUFFICES ASSUME TypeInv, [Next]_vars PROVE TypeInv'
    OBVIOUS
  <1> USE SsiConstants DEF TypeInv, TypeOK, Statement, Updates, Ended, Goto, ssiVars, historyVars
  <1>1. ASSUME NEW t \in Txn, Begin(t) PROVE TypeInv'
    BY <1>1 DEF Begin
  <1>2. ASSUME NEW t \in Txn, NEW i \in Item, NEW o \in Statement, StartScan(t, o, i)
        PROVE  TypeInv'
    <2>1. ScanLock(i) \in ReadLock /\ Unwritten \subseteq Item
      BY DEF ReadLock, ScanLock, Relation, IndexRange, Unwritten
    <2>2. {ScanLock(i)} \X Unwritten \subseteq ReadLock \X Item
      BY <2>1
    <2>3. early' \in [Txn -> SUBSET (ReadLock \X Item)]
      <3>1. early \in [Txn -> SUBSET (ReadLock \X Item)]
        OBVIOUS
      <3>2. early' = [early EXCEPT ![t] = @ \cup ({ScanLock(i)} \X Unwritten)]
        BY <1>2 DEF StartScan
      <3>3. QED
        BY <2>2, <3>1, <3>2
    <2>4. read_set' \in [Txn -> SUBSET ReadLock]
      BY <1>2, <2>1 DEF StartScan
    <2>5. QED
      BY <1>2, <2>3, <2>4 DEF StartScan
  <1>3. ASSUME NEW t \in Txn, NEW i \in Item, InsertRow(t, i) PROVE TypeInv'
    BY <1>3 DEF InsertRow
  <1>4. ASSUME NEW t \in Txn, Fetch(t) PROVE TypeInv'
    <2>1. /\ pc[t] = "fetch"
          /\ \/ pc' = [pc EXCEPT ![t] = "note"] /\ peer' = [peer EXCEPT ![t] = writer[item[t]]]
             \/ pc' = [pc EXCEPT ![t] = "write"] /\ peer' = peer
             \/ pc' = [pc EXCEPT ![t] = "active"] /\ peer' = peer
      BY <1>4 DEF Fetch, AfterScan
    <2>2. /\ UNCHANGED <<workload, writer, key, ssiVars, op, item, seen, early, overtaken>>
          /\ reads' = [reads EXCEPT ![t] = @ \cup {item[t]}]
      BY <1>4 DEF Fetch
    <2>3. pc' \in [Txn -> {"idle", "active", "fetch", "note", "write", "mark",
                          "index", "phantom", "checked", "doomed"} \cup Ended]
          /\ peer' \in [Txn -> Txn \cup {None}]
      BY <2>1
    <2>4. \A u \in Txn : pc'[u] \notin {"idle"} \cup Ended => u \in entries'
      BY <2>1, <2>2
    <2>5. reads' \in [Txn -> SUBSET Item]
      BY <2>2
    <2> HIDE DEF Ended, Statement
    <2>6. QED
      BY <2>2, <2>3, <2>4, <2>5
  <1>5. ASSUME NEW t \in Txn, RecordRead(t) PROVE TypeInv'
    <2>1. in_conflict' \subseteq entries' /\ out_conflict' \subseteq entries'
      BY <1>5 DEF RecordRead, EdgeTo, MarkEdges
    <2>2. QED
      BY <1>5, <2>1 DEF RecordRead, Tuple, ReadLock
  <1>6. ASSUME NEW t \in Txn, Tombstone(t) PROVE TypeInv'
    <2>1. NewKeys(op[t], item[t]) \subseteq Item \cup {None}
      BY DEF NewKeys
    <2>2. QED
      BY <1>6, <2>1 DEF Tombstone
  <1>7. ASSUME NEW t \in Txn, RecordWrite(t) PROVE TypeInv'
    <2>1. in_conflict' \subseteq entries' /\ out_conflict' \subseteq entries'
      BY <1>7, MarkEdgesType DEF RecordWrite
    <2>2. QED
      BY <1>7, <2>1 DEF RecordWrite
  <1>8. ASSUME NEW t \in Txn, RecordIndexWrite(t) PROVE TypeInv'
    <2>1. in_conflict' \subseteq entries' /\ out_conflict' \subseteq entries'
      BY <1>8, MarkEdgesType DEF RecordIndexWrite, IndexReaders
    <2>2. QED
      BY <1>8, <2>1 DEF RecordIndexWrite
  <1>9. ASSUME NEW t \in Txn, RecordInsert(t) PROVE TypeInv'
    <2>1. in_conflict' \subseteq entries' /\ out_conflict' \subseteq entries'
      BY <1>9, MarkEdgesType DEF RecordInsert
    <2>2. QED
      BY <1>9, <2>1 DEF RecordInsert
  <1>10. ASSUME NEW t \in Txn, CheckCommit(t) \/ Rollback(t) \/ Resolve(t)
         PROVE  TypeInv'
    <2>1. CASE CheckCommit(t)
      BY <2>1 DEF CheckCommit
    <2>2. CASE Rollback(t)
      BY <2>2 DEF Rollback
    <2>3. CASE Resolve(t)
      BY <2>3 DEF Resolve
    <2>4. QED
      BY <1>10, <2>1, <2>2, <2>3
  <1>11. ASSUME NEW t \in Txn, DropEntry(t) PROVE TypeInv'
    BY <1>11 DEF DropEntry
  <1>12. CASE UNCHANGED vars
    BY <1>12 DEF vars
  <1>13. \A t \in Txn : Reads[t] \subseteq Item /\ Writes[t] \subseteq Item
    OBVIOUS
  <1>14. workload.ops \subseteq Statement /\ "select" \in Statement
    OBVIOUS
  <1> HIDE DEF TypeInv, TypeOK, Statement
  <1>15. QED
    BY <1>1, <1>2, <1>3, <1>4, <1>5, <1>6, <1>7, <1>8, <1>9, <1>10, <1>11, <1>12,
       <1>13, <1>14, NextCases, SMTT(30)

\* Every variable of the conflict tracking keeps its type (TypeOK): in particular
\* no flag is ever set for a transaction that has no entry in the ssi map.
THEOREM TypeCorrect == Spec => []TypeOK
  <1>1. Spec => []TypeInv
    BY TypeInit, TypeNext, PTL DEF Spec
  <1>2. TypeInv => TypeOK
    BY DEF TypeInv
  <1>3. QED
    BY <1>1, <1>2, PTL

-----------------------------------------------------------------------------
(* Statements: which statement leads to which step, and who may have written *)
(* what.                                                                     *)

Scanning == {"fetch", "note", "write"}

StatementInv ==
    /\ \A t \in Txn : pc[t] = "idle" => read_set[t] = {} /\ t \notin entries
    /\ \A t \in Txn : pc[t] = "note" => workload.path = "index" /\ item[t] \in Loaded
    /\ \A t \in Txn : pc[t] \in {"write", "mark"} => op[t] \in Updates \cup {"delete"}
    /\ \A t \in Txn : pc[t] = "index" => op[t] \in Updates \cup {"insert"}
    /\ \A t \in Txn : pc[t] = "phantom" => op[t] = "insert"
    /\ \A t \in Txn : pc[t] \in Scanning =>
          op[t] \in {"select"} \cup (workload.ops \ {"insert"})
    /\ \A t \in Txn : pc[t] = "mark" /\ op[t] = "delete" => key[item[t]] = None
    /\ \A i \in Item \ Loaded : key[i] = i
    /\ \A t \in Txn : \A u \in seen[t] : pc[u] = "committed"
    /\ \A t \in Txn : pc[t] \in Scanning /\ op[t] # "select" =>
          item[t] \in Writes[t] \cap Loaded /\ writer[item[t]] = None
    /\ \A t \in Txn : pc[t] \in {"mark", "index", "phantom"} => writer[item[t]] = t
    /\ \A i \in Item : writer[i] # None =>
          i \in Writes[writer[i]] /\ pc[writer[i]] # "idle"


\* Nothing is executed before the first BEGIN.
LEMMA StatementInit == Init => StatementInv
  BY SsiConstants DEF Init, StatementInv, Scanning

\* A statement goes through its steps in order and only writes its own items.
LEMMA StatementNext == TypeInv /\ StatementInv /\ [Next]_vars => StatementInv'
  <1> SUFFICES ASSUME TypeInv, StatementInv, [Next]_vars PROVE StatementInv'
    OBVIOUS
  <1> USE SsiConstants DEF StatementInv, Scanning, TypeInv, TypeOK, Statement, Updates, Ended, Goto, ssiVars, historyVars
  <1>1. ASSUME NEW t \in Txn, Begin(t) PROVE StatementInv'
    BY <1>1 DEF Begin
  <1>2. ASSUME NEW t \in Txn, NEW i \in Reads[t], StartScan(t, "select", i) PROVE StatementInv'
    BY <1>2 DEF StartScan, ScanLock, Unwritten
  <1>3. ASSUME NEW t \in Txn, NEW i \in Writes[t] \cap Loaded,
               NEW o \in workload.ops \ {"insert"}, writer[i] = None, StartScan(t, o, i)
        PROVE  StatementInv'
    BY <1>3 DEF StartScan, ScanLock, Unwritten
  <1>4. ASSUME NEW t \in Txn, NEW i \in Writes[t] \ Loaded, writer[i] = None,
               "insert" \in workload.ops, InsertRow(t, i)
        PROVE  StatementInv'
    BY <1>4 DEF InsertRow
  <1>5. ASSUME NEW t \in Txn, Fetch(t) PROVE StatementInv'
    <2>1. \/ /\ workload.path = "index" /\ item[t] \in Loaded
             /\ pc' = [pc EXCEPT ![t] = "note"]
          \/ op[t] # "select" /\ pc' = [pc EXCEPT ![t] = "write"]
          \/ pc' = [pc EXCEPT ![t] = "active"]
      BY <1>5 DEF Fetch, AfterScan, SeesLoaded
    <2>2. UNCHANGED <<workload, writer, key, ssiVars, op, item, seen, early>> /\ pc[t] = "fetch"
      BY <1>5 DEF Fetch
    <2>3. QED
      BY <2>1, <2>2
  <1>6. ASSUME NEW t \in Txn, RecordRead(t) PROVE StatementInv'
    BY <1>6 DEF RecordRead
  <1>7. ASSUME NEW t \in Txn, Tombstone(t) PROVE StatementInv'
    BY <1>7, SMTT(30) DEF Tombstone, NewKeys
  <1>8. ASSUME NEW t \in Txn, RecordWrite(t) PROVE StatementInv'
    BY <1>8 DEF RecordWrite
  <1>9. ASSUME NEW t \in Txn, RecordIndexWrite(t) PROVE StatementInv'
    BY <1>9 DEF RecordIndexWrite
  <1>10. ASSUME NEW t \in Txn, RecordInsert(t) PROVE StatementInv'
    BY <1>10 DEF RecordInsert
  <1>11. ASSUME NEW t \in Txn, CheckCommit(t) \/ Rollback(t) \/ Resolve(t) PROVE StatementInv'
    BY <1>11 DEF CheckCommit, Rollback, Resolve
  <1>12. ASSUME NEW t \in Txn, DropEntry(t) PROVE StatementInv'
    BY <1>12 DEF DropEntry
  <1>13. CASE UNCHANGED vars
    BY <1>13 DEF vars
  <1>14. QED
    BY <1>1, <1>2, <1>3, <1>4, <1>5, <1>6, <1>7, <1>8, <1>9, <1>10, <1>11, <1>12,
       <1>13, NextCases

-----------------------------------------------------------------------------
(* Locks: what a scan has locked before it fetches and notes rows.           *)

LockInv ==
    /\ \A t \in Txn, i \in Item : Tuple(i) \in read_set[t] =>
          workload.path = "index" /\ i \in Loaded /\ IndexRange(i) \in read_set[t]
    /\ \A t \in Txn : pc[t] \in {"fetch", "note"} => ScanLock(item[t]) \in read_set[t]
    /\ \A t \in Txn : t \in entries => \A e \in early[t] : e[1] \in read_set[t]
    /\ \A t \in Txn : pc[t] = "idle" => early[t] = {}


\* No lock is held before the first scan.
LEMMA LockInit == Init => LockInv
  BY SsiConstants DEF Init, LockInv

\* A scan holds its lock from its first row to the end of its transaction.
LEMMA LockNext == TypeInv /\ StatementInv /\ LockInv /\ [Next]_vars => LockInv'
  <1> SUFFICES ASSUME TypeInv, StatementInv, LockInv, [Next]_vars PROVE LockInv'
    OBVIOUS
  <1> USE SsiConstants DEF LockInv, StatementInv, Scanning, TypeInv, TypeOK, Ended, ScanLock, Tuple, IndexRange, Relation, Goto, ssiVars, historyVars
  <1>1. ASSUME NEW t \in Txn, Begin(t) PROVE LockInv'
    BY <1>1 DEF Begin
  <1>2. ASSUME NEW t \in Txn, NEW i \in Item, NEW o, StartScan(t, o, i) PROVE LockInv'
    <2>1. /\ pc[t] = "active" /\ pc'[t] = "fetch" /\ item'[t] = i
          /\ read_set'[t] = read_set[t] \cup {ScanLock(i)}
          /\ early'[t] = early[t] \cup ({ScanLock(i)} \X Unwritten)
          /\ UNCHANGED <<workload, entries>>
          /\ \A u \in Txn \ {t} : UNCHANGED <<pc[u], item[u], read_set[u], early[u]>>
      BY <1>2 DEF StartScan
    <2>2. \A u \in Txn, j \in Item : Tuple(j) \in read_set'[u] => Tuple(j) \in read_set[u]
      BY <2>1
    <2>3. \A u \in Txn : u \in entries => \A e \in early'[u] : e[1] \in read_set'[u]
      <3>1. \A e \in {ScanLock(i)} \X Unwritten : e[1] = ScanLock(i)
        OBVIOUS
      <3>2. ASSUME NEW u \in Txn, u \in entries, NEW e \in early'[u] PROVE e[1] \in read_set'[u]
        <4>1. CASE u = t
          <5>1. CASE e \in early[t]
            BY <2>1, <3>2, <4>1, <5>1
          <5>2. CASE e \in {ScanLock(i)} \X Unwritten
            BY <2>1, <3>1, <4>1, <5>2
          <5>3. QED
            BY <2>1, <3>2, <4>1, <5>1, <5>2
        <4>2. CASE u # t
          BY <2>1, <3>2, <4>2
        <4>3. QED
          BY <4>1, <4>2
      <3>3. QED
        BY <3>2
    <2>4. \A u \in Txn : pc'[u] \in {"fetch", "note"} => ScanLock(item[u])' \in read_set'[u]
      BY <2>1
    <2>5. QED
      BY <2>1, <2>2, <2>3, <2>4
  <1>4. ASSUME NEW t \in Txn, NEW i \in Writes[t] \ Loaded, writer[i] = None,
               "insert" \in workload.ops, InsertRow(t, i)
        PROVE  LockInv'
    BY <1>4 DEF InsertRow
  <1>5. ASSUME NEW t \in Txn, Fetch(t) PROVE LockInv'
    <2>1. \/ /\ workload.path = "index" /\ item[t] \in Loaded
             /\ pc' = [pc EXCEPT ![t] = "note"]
          \/ op[t] # "select" /\ pc' = [pc EXCEPT ![t] = "write"]
          \/ pc' = [pc EXCEPT ![t] = "active"]
      BY <1>5 DEF Fetch, AfterScan, SeesLoaded
    <2>2. UNCHANGED <<workload, writer, key, ssiVars, op, item, seen, early>> /\ pc[t] = "fetch"
      BY <1>5 DEF Fetch
    <2>3. QED
      BY <2>1, <2>2
  <1>6. ASSUME NEW t \in Txn, RecordRead(t) PROVE LockInv'
    BY <1>6 DEF RecordRead
  <1>7. ASSUME NEW t \in Txn, Tombstone(t) PROVE LockInv'
    BY <1>7 DEF Tombstone
  <1>8. ASSUME NEW t \in Txn, RecordWrite(t) PROVE LockInv'
    BY <1>8 DEF RecordWrite
  <1>9. ASSUME NEW t \in Txn, RecordIndexWrite(t) PROVE LockInv'
    BY <1>9 DEF RecordIndexWrite
  <1>10. ASSUME NEW t \in Txn, RecordInsert(t) PROVE LockInv'
    BY <1>10 DEF RecordInsert
  <1>11. ASSUME NEW t \in Txn, CheckCommit(t) \/ Rollback(t) \/ Resolve(t) PROVE LockInv'
    <2>1. PICK l \in {"doomed", "checked"} \cup Ended : pc' = [pc EXCEPT ![t] = l]
      BY <1>11 DEF CheckCommit, Rollback, Resolve
    <2>2. UNCHANGED <<workload, writer, ssiVars, op, item, early>>
      BY <1>11 DEF CheckCommit, Rollback, Resolve
    <2>3. QED
      BY <2>1, <2>2
  <1>12. ASSUME NEW t \in Txn, DropEntry(t) PROVE LockInv'
    <2>1. /\ read_set'[t] = {} /\ t \notin entries' /\ pc[t] \in Ended
          /\ \A u \in Txn \ {t} : read_set'[u] = read_set[u]
          /\ entries' \subseteq entries
      BY <1>12 DEF DropEntry
    <2>2. UNCHANGED <<workload, pc, item, early>>
      BY <1>12 DEF DropEntry
    <2>3. \A u \in Txn : pc'[u] \in {"fetch", "note"} => u # t
      BY <2>1, <2>2
    <2>4. ASSUME NEW u \in Txn, NEW i \in Item, Tuple(i) \in read_set'[u]
          PROVE  workload'.path = "index" /\ i \in Loaded /\ IndexRange(i) \in read_set'[u]
      <3>1. u # t
        BY <2>1, <2>4
      <3>2. QED
        BY <2>1, <2>2, <2>4, <3>1
    <2>5. ASSUME NEW u \in Txn, pc'[u] \in {"fetch", "note"}
          PROVE  ScanLock(item[u])' \in read_set'[u]
      BY <2>1, <2>2, <2>3, <2>5
    <2>6. ASSUME NEW u \in Txn, u \in entries', NEW e \in early'[u]
          PROVE  e[1] \in read_set'[u]
      BY <2>1, <2>2, <2>6
    <2>7. QED
      BY <2>2, <2>4, <2>5, <2>6
  <1>3. \A t \in Txn : Reads[t] \subseteq Item /\ Writes[t] \subseteq Item
    OBVIOUS
  <1>13. CASE UNCHANGED vars
    BY <1>13 DEF vars
  <1> HIDE DEF LockInv, StatementInv, TypeInv, TypeOK
  <1>14. QED
    BY <1>1, <1>2, <1>4, <1>5, <1>6, <1>7, <1>8, <1>9, <1>10, <1>11, <1>12,
       <1>3, <1>13, NextCases

-----------------------------------------------------------------------------
(* Ranges: a row in a range that was locked before anybody wrote it is noted *)
(* by the scan that took the lock.                                           *)

EarlyRange(t, i) == <<IndexRange(i), i>> \in early[t]

RangeInv ==
    \A t \in Txn, i \in Item : EarlyRange(t, i) =>
      /\ workload.path = "index" /\ writer[i] \notin seen[t]
      /\ t \in entries /\ i \in Loaded =>
            \/ Tuple(i) \in read_set[t] \/ writer[i] = t
            \/ item[t] = i /\ pc[t] \in {"fetch", "note"}

\* Nothing is locked.
LEMMA RangeInit == Init => RangeInv
  BY SsiConstants DEF Init, RangeInv, EarlyRange

\* The lock on a range is not the lock on another range, nor on the table.
LEMMA RangeLocks ==
    ASSUME NEW i, NEW j
    PROVE  /\ IndexRange(i) = IndexRange(j) => i = j
           /\ IndexRange(i) # Relation /\ IndexRange(i) # Tuple(j) /\ Tuple(i) # Relation
  <1>1. IndexRange(i).of = i /\ IndexRange(j).of = j
    BY DEF IndexRange
  <1>2. IndexRange(i).kind = "IndexRange" /\ Tuple(j).kind = "Tuple"
        /\ Tuple(i).kind = "Tuple" /\ Relation.kind = "Relation"
    BY DEF IndexRange, Tuple, Relation
  <1>3. QED
    BY <1>1, <1>2

\* A scan of one range is early for no other range.
LEMMA NewPairs ==
    ASSUME NEW i, NEW j, NEW S, NEW U, workload.path \in {"table", "index"},
           <<IndexRange(i), i>> \in S \cup ({ScanLock(j)} \X U)
    PROVE  \/ <<IndexRange(i), i>> \in S
           \/ i = j /\ i \in U /\ workload.path = "index"
  <1>1. CASE <<IndexRange(i), i>> \in {ScanLock(j)} \X U
    <2>1. IndexRange(i) = ScanLock(j) /\ i \in U
      BY <1>1
    <2>2. QED
      BY <2>1, RangeLocks DEF ScanLock
  <1>2. QED
    BY <1>1

\* The row a scan has locked the range of is visible to it when it fetches it, unless
\* it has changed the row itself, and is then noted.
LEMMA RangeNext == TypeInv /\ StatementInv /\ LockInv /\ RangeInv /\ [Next]_vars => RangeInv'
  <1> SUFFICES ASSUME TypeInv, StatementInv, LockInv, RangeInv, [Next]_vars,
                      NEW r \in Txn, NEW i \in Item, EarlyRange(r, i)'
               PROVE  /\ workload'.path = "index" /\ writer'[i] \notin seen'[r]
                      /\ r \in entries' /\ i \in Loaded =>
                            \/ Tuple(i) \in read_set'[r] \/ writer'[i] = r
                            \/ item'[r] = i /\ pc'[r] \in {"fetch", "note"}
    BY DEF RangeInv
  <1> DEFINE Goal == /\ workload'.path = "index" /\ writer'[i] \notin seen'[r]
                     /\ r \in entries' /\ i \in Loaded =>
                           \/ Tuple(i) \in read_set'[r] \/ writer'[i] = r
                           \/ item'[r] = i /\ pc'[r] \in {"fetch", "note"}
  <1> USE SsiConstants DEF TypeInv, TypeOK, Ended, Goto, ssiVars, historyVars
  <1>0. EarlyRange(r, i) =>
          /\ workload.path = "index" /\ writer[i] \notin seen[r]
          /\ r \in entries /\ i \in Loaded =>
                \/ Tuple(i) \in read_set[r] \/ writer[i] = r
                \/ item[r] = i /\ pc[r] \in {"fetch", "note"}
    BY DEF RangeInv
  <1>1. ASSUME NEW t \in Txn, Begin(t) PROVE Goal
    <2>1. EarlyRange(r, i) /\ r # t
      BY <1>1 DEF Begin, EarlyRange, LockInv
    <2>2. QED
      BY <1>0, <1>1, <2>1 DEF Begin
  <1>2. ASSUME NEW t \in Txn, NEW j \in Item, NEW o, StartScan(t, o, j) PROVE Goal
    <2>1. CASE EarlyRange(r, i)
      BY <1>0, <1>2, <2>1 DEF StartScan
    <2>2. CASE ~EarlyRange(r, i)
      <3>1. r = t /\ early'[r] = early[r] \cup ({ScanLock(j)} \X Unwritten)
        BY <1>2, <2>2 DEF StartScan, EarlyRange
      <3>2. i = j /\ i \in Unwritten /\ workload.path = "index"
        BY <2>2, <3>1, NewPairs DEF EarlyRange
      <3>3. None \notin seen[r]
        OBVIOUS
      <3>4. QED
        BY <1>2, <3>1, <3>2, <3>3 DEF StartScan, Unwritten
    <2>3. QED
      BY <2>1, <2>2
  <1>3. ASSUME NEW t \in Txn, NEW j \in Item \ Loaded, InsertRow(t, j) PROVE Goal
    BY <1>0, <1>3 DEF InsertRow, EarlyRange, StatementInv
  <1>4. ASSUME NEW t \in Txn, Fetch(t) PROVE Goal
    <2>1. EarlyRange(r, i) /\ UNCHANGED <<workload, writer, seen, entries, item, read_set>>
      BY <1>4 DEF Fetch, EarlyRange
    <2>2. r # t => pc'[r] = pc[r]
      BY <1>4 DEF Fetch
    <2>3. r = t /\ item[r] = i /\ i \in Loaded /\ writer[i] # r => pc'[r] = "note"
      BY <1>0, <1>4, <2>1 DEF Fetch, SeesLoaded
    <2>4. pc[t] = "fetch"
      BY <1>4 DEF Fetch
    <2>5. QED
      BY <1>0, <2>1, <2>2, <2>3, <2>4
  <1>5. ASSUME NEW t \in Txn, RecordRead(t) PROVE Goal
    BY <1>0, <1>5 DEF RecordRead, EarlyRange
  <1>6. ASSUME NEW t \in Txn, Tombstone(t) PROVE Goal
    <2>1. EarlyRange(r, i) /\ UNCHANGED <<workload, seen, entries, item, read_set>>
      BY <1>6 DEF Tombstone, EarlyRange
    <2>2. pc[t] = "write" /\ \A u \in Txn \ {t} : pc'[u] = pc[u]
      BY <1>6 DEF Tombstone
    <2>3. t \notin seen[r]
      BY <2>2 DEF StatementInv
    <2>4. writer' = [writer EXCEPT ![item[t]] = t] /\ writer[item[t]] = None
      <3>1. op[t] # "select"
        BY <2>2 DEF StatementInv, Updates
      <3>2. QED
        BY <1>6, <2>2, <3>1 DEF Tombstone, StatementInv, Scanning
    <2>5. writer'[i] = writer[i] \/ (writer'[i] = t /\ writer[i] = None /\ item[t] = i)
      BY <2>4
    <2>6. QED
      BY <1>0, <2>1, <2>2, <2>3, <2>5
  <1>7. ASSUME NEW t \in Txn, RecordWrite(t) PROVE Goal
    BY <1>0, <1>7 DEF RecordWrite, EarlyRange
  <1>8. ASSUME NEW t \in Txn, RecordIndexWrite(t) PROVE Goal
    BY <1>0, <1>8 DEF RecordIndexWrite, EarlyRange
  <1>9. ASSUME NEW t \in Txn, RecordInsert(t) PROVE Goal
    BY <1>0, <1>9 DEF RecordInsert, EarlyRange
  <1>10. ASSUME NEW t \in Txn, CheckCommit(t) \/ Rollback(t) \/ Resolve(t) PROVE Goal
    BY <1>0, <1>10 DEF CheckCommit, Rollback, Resolve, EarlyRange
  <1>11. ASSUME NEW t \in Txn, DropEntry(t) PROVE Goal
    BY <1>0, <1>11 DEF DropEntry, EarlyRange
  <1>12. CASE UNCHANGED vars
    BY <1>0, <1>12 DEF vars, EarlyRange
  <1>13. \A t \in Txn : Reads[t] \subseteq Item /\ Writes[t] \subseteq Item
    OBVIOUS
  <1>14. QED
    BY <1>1, <1>2, <1>3, <1>4, <1>5, <1>6, <1>7, <1>8, <1>9, <1>10, <1>11, <1>12,
       <1>13, NextCases

-----------------------------------------------------------------------------
(* Edges: between the write of a row and its last record_* call the edge may *)
(* be missing, and at no other time, but for a row a scan has Missed.        *)

\* Writer u of item i has still to look for readers of the row, or for readers of
\* the range the row was found in.
WillMark(u, i) == item[u] = i /\ (pc[u] = "mark" \/ (pc[u] = "index" /\ key[i] = i))

\* It has still to look for scans of the table, and of the range its new key is in.
WillCatchScan(u, i) ==
    item[u] = i /\ (pc[u] \in {"mark", "phantom"} \/ (pc[u] = "index" /\ op[u] = "insert"))
WillCatchRange(u, i) == item[u] = i /\ pc[u] \in {"mark", "index"}

\* The promises of EdgeInv for a reader r and the writer w of item i.
EdgeAt(r, w, i) ==
    /\ Tuple(i) \in read_set[r] => Edge(r, w) \/ WillMark(w, i) \/ Missed(r, i)
    /\ pc[r] = "note" /\ item[r] = i =>
          \/ peer[r] = w \/ key[i] # i
          \/ Edge(r, w) \/ WillMark(w, i)
    /\ <<Relation, i>> \in early[r] => Edge(r, w) \/ WillCatchScan(w, i)
    /\ <<IndexRange(key[i]), i>> \in early[r] => Edge(r, w) \/ WillCatchRange(w, i)

EdgeInv ==
    \A t, u \in Txn, i \in Item :
      t # u /\ t \in entries /\ u \in entries /\ writer[i] = u => EdgeAt(t, u, i)

\* Nothing has been written.
LEMMA EdgeInit == Init => EdgeInv
  BY SsiConstants DEF Init, EdgeInv

\* A record_* call marks the edge from every other holder of the locks it looks for.
LEMMA HoldersMarked ==
    ASSUME NEW w, NEW locks, NEW r \in entries \ {w}, read_set[r] \cap locks # {},
           MarkEdges(Holders(w, locks), w)
    PROVE  Edge(r, w)'
  BY DEF MarkEdges, Holders, Edge

\* A tuple lock names its row.
LEMMA TupleInjective ==
    ASSUME NEW i, NEW j, NEW S, Tuple(i) \in S \cup {Tuple(j)}
    PROVE  Tuple(i) \in S \/ j = i
  <1>1. Tuple(i).of = i /\ Tuple(j).of = j
    BY DEF Tuple
  <1>2. QED
    BY <1>1, Zenon

\* Marking edges clears no flag.
LEMMA MarkEdgesKeeps ==
    ASSUME NEW w, NEW readers, MarkEdges(readers, w), NEW r, NEW u, Edge(r, u)
    PROVE  Edge(r, u)'
  BY DEF MarkEdges, Edge

\* What the steps that write no row keep of EdgeAt.
LEMMA EdgeKept ==
    ASSUME NEW r, NEW w, NEW i, EdgeAt(r, w, i), Edge(r, w) => Edge(r, w)',
           key'[i] = key[i], overtaken[r] \subseteq overtaken'[r],
           Tuple(i) \in read_set'[r] => Tuple(i) \in read_set[r],
           pc'[r] = "note" => pc[r] = "note" /\ UNCHANGED <<item[r], peer[r]>>,
           \A lock : <<lock, i>> \in early'[r] => <<lock, i>> \in early[r],
           pc[w] \in {"mark", "index", "phantom"} => UNCHANGED <<pc[w], item[w], op[w]>>
    PROVE  EdgeAt(r, w, i)'
  <1>1. WillMark(w, i) => WillMark(w, i)'
    BY DEF WillMark
  <1>2. /\ WillCatchScan(w, i) => WillCatchScan(w, i)'
        /\ WillCatchRange(w, i) => WillCatchRange(w, i)'
    BY DEF WillCatchScan, WillCatchRange
  <1>3. Missed(r, i) => Missed(r, i)'
    BY DEF Missed
  <1>4. QED
    BY <1>1, <1>2, <1>3 DEF EdgeAt

\* Every step keeps the promises: a record_* call keeps those for the locks it looks
\* for and leaves the others to the calls that follow.
LEMMA EdgeNext ==
    ASSUME TypeInv, StatementInv, LockInv, EdgeInv, [Next]_vars
    PROVE  EdgeInv'
  <1> SUFFICES ASSUME NEW r \in Txn, NEW w \in Txn, NEW i \in Item, r # w,
                      r \in entries', w \in entries', writer'[i] = w
               PROVE  EdgeAt(r, w, i)'
    BY Zenon DEF EdgeInv
  <1> USE SsiConstants DEF TypeInv, TypeOK, Goto, ssiVars, historyVars
  <1>0. r \in entries /\ w \in entries /\ writer[i] = w => EdgeAt(r, w, i)
    BY Zenon DEF EdgeInv
  <1>1. ASSUME NEW t \in Txn, Begin(t) PROVE EdgeAt(r, w, i)'
    <2>1. w # t /\ writer[i] = w
      BY <1>1 DEF Begin, StatementInv
    <2>2. CASE r = t
      BY <1>1, <2>2 DEF Begin, StatementInv, LockInv, EdgeAt
    <2>3. CASE r # t
      <3>1. EdgeAt(r, w, i)
        BY <1>0, <1>1, <2>1, <2>3 DEF Begin
      <3>2. QED
        BY <1>1, <2>1, <2>3, <3>1, EdgeKept DEF Begin, Edge
    <2>4. QED
      BY <2>2, <2>3
  <1>2. ASSUME NEW t \in Txn, NEW j \in Item, NEW o, StartScan(t, o, j)
        PROVE  EdgeAt(r, w, i)'
    <2>1. EdgeAt(r, w, i) /\ i \notin Unwritten
      BY <1>0, <1>2 DEF StartScan, Unwritten
    <2>2. Tuple(i) \in read_set'[r] => Tuple(i) \in read_set[r]
      BY <1>2 DEF StartScan, ScanLock, Tuple, IndexRange, Relation
    <2>3. \A lock : <<lock, i>> \in early'[r] => <<lock, i>> \in early[r]
      <3>1. early'[r] \subseteq early[r] \cup ({ScanLock(j)} \X Unwritten)
        BY <1>2 DEF StartScan
      <3>2. QED
        BY <2>1, <3>1
    <2>4. Edge(r, w) => Edge(r, w)'
      BY <1>2 DEF StartScan, Edge
    <2>5. pc'[r] = "note" => pc[r] = "note" /\ UNCHANGED <<item[r], peer[r]>>
      BY <1>2 DEF StartScan
    <2>6. /\ key' = key /\ overtaken' = overtaken
          /\ pc[w] \in {"mark", "index", "phantom"} => UNCHANGED <<pc[w], item[w], op[w]>>
      BY <1>2 DEF StartScan
    <2>7. QED
      BY <2>1, <2>2, <2>3, <2>4, <2>5, <2>6, EdgeKept
  <1>3. ASSUME NEW t \in Txn, NEW j \in Item, j \notin Loaded, InsertRow(t, j)
        PROVE  EdgeAt(r, w, i)'
    <2>1. CASE i = j
      BY <1>3, <2>1 DEF InsertRow, StatementInv, EdgeAt, WillMark, WillCatchScan, WillCatchRange
    <2>2. CASE i # j
      <3>1. EdgeAt(r, w, i)
        BY <1>0, <1>3, <2>2 DEF InsertRow
      <3>2. QED
        BY <1>3, <2>2, <3>1, EdgeKept DEF InsertRow, Edge
    <2>3. QED
      BY <2>1, <2>2
  <1>4. ASSUME NEW t \in Txn, Fetch(t) PROVE EdgeAt(r, w, i)'
    <2>1. EdgeAt(r, w, i)
      BY <1>0, <1>4 DEF Fetch
    <2>2. /\ UNCHANGED <<workload, writer, key, ssiVars, op, item, early, overtaken>>
          /\ pc[t] = "fetch" /\ \A u \in Txn \ {t} : UNCHANGED <<pc[u], peer[u]>>
          /\ pc'[t] \in {"note", "write", "active"}
      BY <1>4 DEF Fetch, AfterScan
    <2>3. pc'[t] = "note" => peer'[t] = writer[item[t]]
      BY <1>4 DEF Fetch, AfterScan
    <2>4. Edge(r, w) => Edge(r, w)'
      BY <2>2 DEF Edge
    <2>5. CASE r # t
      BY <2>1, <2>2, <2>4, <2>5, EdgeKept
    <2>6. CASE r = t
      <3>1. /\ WillMark(w, i) => WillMark(w, i)'
            /\ WillCatchScan(w, i) => WillCatchScan(w, i)'
            /\ WillCatchRange(w, i) => WillCatchRange(w, i)'
            /\ Missed(r, i) => Missed(r, i)'
        BY <2>2, <2>6 DEF WillMark, WillCatchScan, WillCatchRange, Missed
      <3>2. QED
        BY <2>1, <2>2, <2>3, <2>4, <2>6, <3>1 DEF EdgeAt
    <2>7. QED
      BY <2>5, <2>6
  <1>5. ASSUME NEW t \in Txn, RecordRead(t) PROVE EdgeAt(r, w, i)'
    <2>1. EdgeAt(r, w, i)
      BY <1>0, <1>5 DEF RecordRead
    <2>2. Edge(r, w) => Edge(r, w)'
      BY <1>5 DEF RecordRead, EdgeTo, MarkEdges, Edge
    <2>3. r = t /\ peer[t] = w => Edge(r, w)'
      BY <1>5 DEF RecordRead, EdgeTo, MarkEdges, Edge
    <2>4. /\ WillMark(w, i) => WillMark(w, i)'
          /\ WillCatchScan(w, i) => WillCatchScan(w, i)'
          /\ WillCatchRange(w, i) => WillCatchRange(w, i)'
          /\ Missed(r, i) => Missed(r, i)'
      BY <1>5 DEF RecordRead, WillMark, WillCatchScan, WillCatchRange, Missed
    <2>5. Tuple(i) \in read_set'[r] =>
             Tuple(i) \in read_set[r] \/ (r = t /\ item[t] = i)
      <3>1. \/ read_set'[r] = read_set[r]
            \/ r = t /\ read_set'[r] = read_set[r] \cup {Tuple(item[t])}
        BY <1>5 DEF RecordRead
      <3>2. QED
        BY <3>1, TupleInjective
    <2>6. /\ pc'[r] = "note" => r # t /\ pc[r] = "note"
          /\ r # t => peer'[r] = peer[r]
          /\ pc[t] = "note" /\ UNCHANGED <<key, item, early, writer>>
      BY <1>5 DEF RecordRead
    <2>7. r = t /\ item[t] = i /\ key[i] # i /\ peer[r] # w /\ ~WillMark(w, i)
             => Missed(r, i)'
      <3>1. r = t /\ item[t] = i /\ peer[r] # w /\ ~WillMark(w, i) => Overtaken(t)
        BY <2>6 DEF Overtaken, WillMark
      <3>2. r = t /\ item[t] = i /\ Overtaken(t) => i \in overtaken'[r]
        BY <1>5 DEF RecordRead
      <3>3. QED
        BY <2>6, <3>1, <3>2 DEF Missed
    <2>8. (Tuple(i) \in read_set[r] => Edge(r, w) \/ WillMark(w, i) \/ Missed(r, i))
          /\ (pc[r] = "note" /\ item[r] = i =>
                \/ peer[r] = w \/ key[i] # i \/ Edge(r, w) \/ WillMark(w, i))
      BY <2>1 DEF EdgeAt
    <2>9. Tuple(i) \in read_set'[r] => Edge(r, w)' \/ WillMark(w, i)' \/ Missed(r, i)'
      BY <2>2, <2>3, <2>4, <2>5, <2>6, <2>7, <2>8
    <2>10. QED
      BY <2>1, <2>2, <2>4, <2>6, <2>9 DEF EdgeAt
  <1>6. ASSUME NEW t \in Txn, Tombstone(t) PROVE EdgeAt(r, w, i)'
    <2>1. CASE i = item[t]
      BY <1>6, <2>1 DEF Tombstone, EdgeAt, WillMark, WillCatchScan, WillCatchRange
    <2>2. CASE i # item[t]
      <3>1. EdgeAt(r, w, i)
        BY <1>0, <1>6, <2>2 DEF Tombstone
      <3>2. key'[i] = key[i] /\ pc'[t] = "mark" /\ pc[t] = "write"
            /\ UNCHANGED <<ssiVars, op, item, peer, historyVars>>
            /\ \A u \in Txn \ {t} : pc'[u] = pc[u]
        BY <1>6, <2>2 DEF Tombstone
      <3>3. QED
        BY <3>1, <3>2, EdgeKept DEF Edge
    <2>3. QED
      BY <2>1, <2>2
  <1>7. ASSUME NEW t \in Txn, RecordWrite(t) PROVE EdgeAt(r, w, i)'
    <2>1. EdgeAt(r, w, i) /\ r \in entries
      BY <1>0, <1>7 DEF RecordWrite
    <2>2. Edge(r, w) => Edge(r, w)'
      BY <1>7, MarkEdgesKeeps DEF RecordWrite
    <2>3. UNCHANGED <<key, read_set, op, item, peer, historyVars>> /\ pc[t] = "mark"
      BY <1>7 DEF RecordWrite
    <2>4. pc' = [pc EXCEPT ![t] = IF op[t] \in Updates THEN "index" ELSE "active"]
      BY <1>7 DEF RecordWrite
    <2>5. CASE w # t
      BY <2>1, <2>2, <2>3, <2>4, <2>5, EdgeKept
    <2>6. CASE w = t /\ i # item[t]
      BY <2>1, <2>2, <2>3, <2>4, <2>6
         DEF EdgeAt, WillMark, WillCatchScan, WillCatchRange, Missed
    <2>7. CASE w = t /\ i = item[t]
      <3>1. read_set[r] \cap {Tuple(item[t]), Relation} # {} => Edge(r, w)'
        <4>1. MarkEdges(Holders(t, {Tuple(item[t]), Relation}), t)
          BY <1>7 DEF RecordWrite
        <4>2. QED
          BY <2>1, <2>7, <4>1, HoldersMarked
      <3>2. Tuple(i) \in read_set'[r] => Edge(r, w)'
        BY <2>3, <2>7, <3>1
      <3>3. <<Relation, i>> \in early'[r] => Edge(r, w)'
        <4>1. <<Relation, i>> \in early[r] => Relation \in read_set[r]
          <5>1. \A e \in early[r] : e[1] \in read_set[r]
            BY <2>1 DEF LockInv
          <5>2. QED
            BY <5>1
        <4>2. QED
          BY <2>3, <3>1, <4>1
      <3>4. op[t] \in Updates => pc'[t] = "index"
        BY <2>3, <2>4
      <3>5. op[t] \notin Updates => key[i] = None
        BY <2>3, <2>7 DEF StatementInv
      <3>6. pc'[r] = "note" /\ item'[r] = i => key'[i] # i \/ WillMark(w, i)'
        BY <2>3, <2>7, <3>4, <3>5 DEF WillMark
      <3>7. <<IndexRange(key[i]), i>> \in early'[r] => WillCatchRange(w, i)'
        <4>1. <<IndexRange(None), i>> \notin early[r]
          <5>1. early[r] \subseteq ReadLock \X Item
            OBVIOUS
          <5>2. IndexRange(None) \notin ReadLock
            BY DEF IndexRange, ReadLock
          <5>3. QED
            BY <5>1, <5>2
        <4>2. QED
          BY <2>3, <2>7, <3>4, <3>5, <4>1 DEF WillCatchRange
      <3>8. QED
        BY <2>3, <3>2, <3>3, <3>6, <3>7 DEF EdgeAt
    <2>8. QED
      BY <2>5, <2>6, <2>7
  <1>8. ASSUME NEW t \in Txn, RecordIndexWrite(t) PROVE EdgeAt(r, w, i)'
    <2>1. EdgeAt(r, w, i) /\ r \in entries
      BY <1>0, <1>8 DEF RecordIndexWrite
    <2>2. Edge(r, w) => Edge(r, w)'
      BY <1>8, MarkEdgesKeeps DEF RecordIndexWrite
    <2>3. UNCHANGED <<key, read_set, op, item, peer, historyVars>> /\ pc[t] = "index"
      BY <1>8 DEF RecordIndexWrite
    <2>4. pc' = [pc EXCEPT ![t] = IF op[t] = "insert" THEN "phantom" ELSE "active"]
      BY <1>8 DEF RecordIndexWrite
    <2>5. CASE w # t
      BY <2>1, <2>2, <2>3, <2>4, <2>5, EdgeKept
    <2>6. CASE w = t /\ i # item[t]
      BY <2>1, <2>2, <2>3, <2>4, <2>6
         DEF EdgeAt, WillMark, WillCatchScan, WillCatchRange, Missed
    <2>7. CASE w = t /\ i = item[t]
      <3>1. IndexRange(key[i]) \in read_set[r] => Edge(r, w)'
        <4>1. MarkEdges(Holders(t, {IndexRange(key[item[t]])}), t)
          BY <1>8 DEF RecordIndexWrite, IndexReaders
        <4>2. QED
          BY <2>1, <2>7, <4>1, HoldersMarked
      <3>2. Tuple(i) \in read_set'[r] => Edge(r, w)' \/ Missed(r, i)'
        <4>1. CASE key[i] = i
          <5>1. Tuple(i) \in read_set[r] => IndexRange(i) \in read_set[r]
            BY DEF LockInv
          <5>2. IndexRange(key[i]) = IndexRange(i)
            BY <4>1
          <5>3. QED
            BY <2>3, <3>1, <5>1, <5>2
        <4>2. CASE key[i] # i
          BY <2>1, <2>2, <2>3, <2>7, <4>2 DEF EdgeAt, WillMark, Missed
        <4>3. QED
          BY <4>1, <4>2
      <3>3. pc'[r] = "note" /\ item'[r] = i => key'[i] # i \/ Edge(r, w)'
        BY <2>3, <2>4, <2>7, <3>1 DEF LockInv, StatementInv, ScanLock
      <3>4. <<IndexRange(key[i]), i>> \in early'[r] => Edge(r, w)'
        <4>1. \A e \in early[r] : e[1] \in read_set[r]
          BY <2>1 DEF LockInv
        <4>2. QED
          BY <2>3, <3>1, <4>1
      <3>5. <<Relation, i>> \in early'[r] => Edge(r, w)' \/ WillCatchScan(w, i)'
        BY <2>1, <2>2, <2>3, <2>4, <2>7 DEF EdgeAt, WillCatchScan
      <3>6. QED
        BY <2>3, <3>2, <3>3, <3>4, <3>5 DEF EdgeAt
    <2>8. QED
      BY <2>5, <2>6, <2>7
  <1>9. ASSUME NEW t \in Txn, RecordInsert(t) PROVE EdgeAt(r, w, i)'
    <2>1. EdgeAt(r, w, i) /\ r \in entries
      BY <1>0, <1>9 DEF RecordInsert
    <2>2. Edge(r, w) => Edge(r, w)'
      BY <1>9, MarkEdgesKeeps DEF RecordInsert
    <2>3. UNCHANGED <<key, read_set, op, item, peer, historyVars>> /\ pc[t] = "phantom"
      BY <1>9 DEF RecordInsert
    <2>4. pc' = [pc EXCEPT ![t] = "active"]
      BY <1>9 DEF RecordInsert
    <2>5. w = t /\ <<Relation, i>> \in early[r] => Edge(r, w)'
      <3>1. \A e \in early[r] : e[1] \in read_set[r]
        BY <2>1 DEF LockInv
      <3>2. <<Relation, i>> \in early[r] => read_set[r] \cap {Relation} # {}
        BY <3>1
      <3>3. MarkEdges(Holders(t, {Relation}), t)
        BY <1>9 DEF RecordInsert
      <3>4. QED
        BY <2>1, <3>2, <3>3, HoldersMarked
    <2>6. CASE w # t
      BY <2>1, <2>2, <2>3, <2>4, <2>6, EdgeKept
    <2>7. CASE w = t
      BY <2>1, <2>2, <2>3, <2>4, <2>5, <2>7
         DEF EdgeAt, WillMark, WillCatchScan, WillCatchRange, Missed
    <2>8. QED
      BY <2>6, <2>7
  <1>10. ASSUME NEW t \in Txn, CheckCommit(t) \/ Rollback(t) \/ Resolve(t)
         PROVE  EdgeAt(r, w, i)'
    <2>1. UNCHANGED <<workload, writer, key, ssiVars, op, item, peer, historyVars>>
      BY <1>10 DEF CheckCommit, Rollback, Resolve
    <2>2. /\ pc[t] \notin {"note", "mark", "index", "phantom"} /\ pc'[t] # "note"
          /\ \A u \in Txn \ {t} : pc'[u] = pc[u]
      BY <1>10 DEF CheckCommit, Rollback, Resolve, Ended
    <2>3. EdgeAt(r, w, i)
      BY <1>0, <2>1
    <2>4. QED
      BY <2>1, <2>2, <2>3, EdgeKept DEF Edge
  <1>11. ASSUME NEW t \in Txn, DropEntry(t) PROVE EdgeAt(r, w, i)'
    <2>1. r # t /\ w # t /\ EdgeAt(r, w, i)
      BY <1>0, <1>11 DEF DropEntry
    <2>2. UNCHANGED <<key, pc, op, item, peer, historyVars, read_set[r]>>
      BY <1>11, <2>1 DEF DropEntry
    <2>3. Edge(r, w) => Edge(r, w)'
      BY <1>11, <2>1 DEF DropEntry, Edge
    <2>4. QED
      BY <2>1, <2>2, <2>3, EdgeKept
  <1>12. CASE UNCHANGED vars
    <2>1. EdgeAt(r, w, i)
      BY <1>0, <1>12 DEF vars
    <2>2. QED
      BY <1>12, <2>1, EdgeKept DEF vars, Edge
  <1>13. \A t \in Txn : Reads[t] \subseteq Item /\ Writes[t] \subseteq Item
    OBVIOUS
  <1>14. QED
    BY <1>1, <1>2, <1>3, <1>4, <1>5, <1>6, <1>7, <1>8, <1>9, <1>10, <1>11, <1>12,
       <1>13, NextCases

SsiInv == TypeInv /\ StatementInv /\ LockInv /\ RangeInv /\ EdgeInv

LEMMA SsiInvInit == Init => SsiInv
  BY TypeInit, StatementInit, LockInit, RangeInit, EdgeInit DEF SsiInv

LEMMA SsiInvNext == SsiInv /\ [Next]_vars => SsiInv'
  BY TypeNext, StatementNext, LockNext, RangeNext, EdgeNext DEF SsiInv

LEMMA SsiInvHolds == Spec => []SsiInv
  BY SsiInvInit, SsiInvNext, PTL DEF Spec

-----------------------------------------------------------------------------
(* What the flags and locks are for *)

\* What u has written is marked, when t noted it or had locked it beforehand and
\* neither has a statement under way.
LEMMA EdgesComplete ==
    ASSUME SsiInv, NEW t \in Txn, NEW u \in Txn, BetweenStatements(t), BetweenStatements(u),
           PrecedesByTuple(t, u) \/ PrecedesByLock(t, u)
    PROVE  Edge(t, u)
  <1> USE DEF SsiInv, TypeInv, TypeOK
  <1>1. ASSUME NEW i \in Item, WrittenBeside(t, u, i), ~Missed(t, i)
        PROVE  /\ Tuple(i) \in read_set[t] => Edge(t, u)
               /\ <<Relation, i>> \in early[t] => Edge(t, u)
               /\ <<IndexRange(key[i]), i>> \in early[t] => Edge(t, u)
    <2>1. EdgeAt(t, u, i)
      BY <1>1 DEF EdgeInv, BetweenStatements, WrittenBeside
    <2>2. ~WillMark(u, i) /\ ~WillCatchScan(u, i) /\ ~WillCatchRange(u, i)
      BY DEF BetweenStatements, WillMark, WillCatchScan, WillCatchRange
    <2>3. QED
      BY <1>1, <2>1, <2>2 DEF EdgeAt
  <1>2. CASE PrecedesByTuple(t, u)
    BY <1>1, <1>2 DEF PrecedesByTuple
  <1>3. CASE PrecedesByLock(t, u)
    <2>1. PICK e \in early[t] :
            Covers(e[1], e[2]) /\ WrittenBeside(t, u, e[2]) /\ ~Missed(t, e[2])
      BY <1>3 DEF PrecedesByLock
    <2> DEFINE i == e[2]
    <2>2. i \in Item /\ e = <<e[1], i>>
      BY <2>1
    <2>3. CASE e[1] = IndexRange(i) /\ key[i] # i
      <3>1. EarlyRange(t, i)
        BY <2>2, <2>3 DEF EarlyRange
      <3>2. key[i] # i => i \in Loaded
        BY <2>2 DEF StatementInv
      <3>3. t \in entries /\ pc[t] \notin {"fetch", "note"}
        BY DEF BetweenStatements
      <3>4. writer[i] # t
        BY <2>1 DEF WrittenBeside
      <3>5. Tuple(i) \in read_set[t]
        BY <2>2, <2>3, <3>1, <3>2, <3>3, <3>4 DEF RangeInv
      <3>6. QED
        BY <1>1, <2>1, <2>2, <3>5
    <2>4. CASE e[1] \in {Relation, IndexRange(key[i])}
      BY <1>1, <2>1, <2>2, <2>4
    <2>5. QED
      BY <2>1, <2>3, <2>4 DEF Covers
  <1>4. QED
    BY <1>2, <1>3

\* Every rw-dependency on a row that record_read has noted is flagged on both sides
\* (EdgeMarked) once neither transaction is inside a statement, for any number of
\* readers and writers and however fetch, record_read, the row's tombstone and
\* record_write interleave, unless the row left the range between fetch and note.
THEOREM EveryEdgeMarked == Spec => []EdgeMarked
  <1>1. SsiInv => EdgeMarked
    BY EdgesComplete DEF EdgeMarked
  <1>2. QED
    BY <1>1, SsiInvHolds, PTL

\* A relation or index-range lock taken before the item was written gives an edge to
\* its writer (LockCatchesWriter): record_insert, record_write, record_read and
\* record_index_write between them relate every earlier scan to whoever inserts,
\* changes or deletes a row of its range or moves one into it or out of it, with the
\* same exception.
THEOREM EveryLockCatches == Spec => []LockCatchesWriter
  <1>1. SsiInv => LockCatchesWriter
    BY EdgesComplete DEF LockCatchesWriter
  <1>2. QED
    BY <1>1, SsiInvHolds, PTL

\* ssi_check_commit lets no transaction through that forms a pair of opposite
\* rw-dependencies with a running one (PairIsBroken), by rows noted or by locks: the
\* write-skew pair is broken at the first of the two commits.
THEOREM EveryPairBroken == Spec => PairIsBroken
  <1> DEFINE Pair(t, u) ==
        (pc[t] = "active" /\ pc'[t] = "checked" /\ BetweenStatements(u)) =>
           ~(/\ PrecedesByTuple(t, u) \/ PrecedesByLock(t, u)
             /\ PrecedesByTuple(u, t) \/ PrecedesByLock(u, t))
  <1>1. ASSUME SsiInv, [Next]_vars, NEW t \in Txn, NEW u \in Txn PROVE Pair(t, u)
    <2> SUFFICES ASSUME pc[t] = "active", pc'[t] = "checked", BetweenStatements(u),
                        PrecedesByTuple(t, u) \/ PrecedesByLock(t, u),
                        PrecedesByTuple(u, t) \/ PrecedesByLock(u, t)
                 PROVE  FALSE
      OBVIOUS
    <2> USE DEF SsiInv, TypeInv, TypeOK, Goto, ssiVars
    <2>1. BetweenStatements(t)
      BY <1>1 DEF BetweenStatements, Ended
    <2>2. t \in out_conflict /\ t \in in_conflict
      BY <1>1, <2>1, EdgesComplete, Zenon DEF Edge
    <2>3. CheckCommit(t)
      <3>1. ASSUME NEW v \in Txn, NEW l, Goto(v, l) PROVE v = t /\ l = "checked"
        BY <1>1, <3>1
      <3>2. ASSUME pc' = pc PROVE FALSE
        BY <3>2
      <3>3. ASSUME NEW v \in Txn, CheckCommit(v) \/ Rollback(v) \/ Resolve(v)
            PROVE  CheckCommit(t)
        BY <3>1, <3>3 DEF CheckCommit, Rollback, Resolve
      <3>4. ASSUME NEW v \in Txn, Fetch(v) PROVE FALSE
        BY <3>1, <3>4 DEF Fetch, AfterScan
      <3>5. ASSUME NEW v \in Txn,
                   \/ Begin(v) \/ RecordRead(v) \/ Tombstone(v) \/ RecordWrite(v)
                   \/ RecordIndexWrite(v) \/ RecordInsert(v)
                   \/ \E i, o : StartScan(v, o, i)
                   \/ \E i : InsertRow(v, i)
            PROVE  FALSE
        BY <3>1, <3>5 DEF Begin, StartScan, InsertRow, RecordRead, Tombstone,
                          RecordWrite, RecordIndexWrite, RecordInsert
      <3>6. ASSUME NEW v \in Txn, DropEntry(v) PROVE FALSE
        BY <3>2, <3>6 DEF DropEntry
      <3>7. UNCHANGED vars => FALSE
        BY <3>2 DEF vars
      <3>8. QED
        BY <1>1, <3>3, <3>4, <3>5, <3>6, <3>7, NextCases
    <2>4. QED
      BY <2>2, <2>3 DEF CheckCommit, Pivot
  <1>2. SsiInv /\ [Next]_vars => [\A t, u \in Txn : Pair(t, u)]_vars
    BY <1>1
  <1>3. QED
    BY <1>2, SsiInvHolds, PTL DEF Spec, PairIsBroken
=============================================================================
