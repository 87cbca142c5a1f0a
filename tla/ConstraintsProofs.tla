-------------------------- MODULE ConstraintsProofs --------------------------
(***************************************************************************)
(* Proofs about Constraints: whatever statements, transactions, reclaim    *)
(* passes and table changes follow each other, every index has the entries *)
(* of the stored versions; where the rows of an updated table are modified *)
(* over one connection, no transaction sees a primary key twice; and where *)
(* statements run alone, no row that refers to another loses it.           *)
(***************************************************************************)
EXTENDS Constraints, FiniteSetTheorems, WellFoundedInduction, TLAPS

-----------------------------------------------------------------------------
(* Induction along a statement's rows *)

\* The library's induction principles take an operator; this one takes a set.
LEMMA SetInduction ==
  ASSUME NEW S, 0 \in S, \A n \in Nat : n \in S => n + 1 \in S
  PROVE  Nat \subseteq S
<1> SUFFICES ASSUME Nat \ S # {} PROVE FALSE
  OBVIOUS
<1>1. IsWellFoundedOn({p \in Nat \X Nat : p[1] < p[2]}, Nat)
  BY NatLessThanWellFounded, Zenon DEF OpToRel
<1>2. PICK n \in Nat \ S : \A k \in Nat \ S : ~(<<k, n>> \in {p \in Nat \X Nat : p[1] < p[2]})
  BY <1>1, WFMin, Zenon
<1>3. n # 0 /\ n \in Nat /\ n \notin S
  BY <1>2
<1>4. n - 1 \in Nat /\ n - 1 < n
  BY <1>3
<1>5. n - 1 \in S
  <2>1. <<n - 1, n>> \in {p \in Nat \X Nat : p[1] < p[2]}
    BY <1>3, <1>4
  <2> QED
    BY <1>2, <1>4, <2>1
<1>6. (n - 1) + 1 \in S
  BY <1>4, <1>5
<1> QED
  BY <1>3, <1>6

IsFold(g, m, a, F) == g = [i \in 0..m |-> IF i = 0 THEN a ELSE F[i][g[i - 1]]]

\* A recursive function over 0..m has a fixpoint.
LEMMA FoldExists ==
  ASSUME NEW m \in Nat, NEW a, NEW F
  PROVE  \E g : IsFold(g, m, a, F)
<1> DEFINE Fix(g, n) == g = [i \in 0..n |-> IF i = 0 THEN a ELSE F[i][g[i - 1]]]
           S == {n \in Nat : \E g : Fix(g, n)}
<1>1. 0 \in S
  <2> DEFINE g == [i \in 0..0 |-> a]
  <2>1. \A i \in 0..0 : i = 0
    OBVIOUS
  <2>2. Fix(g, 0)
    BY <2>1, Zenon
  <2> QED
    BY <2>2, Zenon
<1>2. ASSUME NEW n \in Nat, n \in S PROVE n + 1 \in S
  <2>1. PICK g : Fix(g, n)
    BY <1>2, Zenon
  <2> DEFINE h == [i \in 0..(n + 1) |-> IF i = n + 1 THEN F[n + 1][g[n]] ELSE g[i]]
  <2>2. \A i \in 0..(n + 1) : /\ i = n + 1 => i # 0 /\ i - 1 = n /\ i - 1 # n + 1
                              /\ i # n + 1 => i \in 0..n
                              /\ i # n + 1 /\ i # 0 => i - 1 # n + 1 /\ i - 1 \in 0..n
                              /\ i # 0 => i - 1 \in 0..(n + 1)
    OBVIOUS
  <2>3. ASSUME NEW i \in 0..(n + 1) PROVE h[i] = IF i = 0 THEN a ELSE F[i][h[i - 1]]
    <3>1. CASE i = n + 1
      <4>1. h[i - 1] = g[n]
        BY <2>2, <3>1, Zenon
      <4>2. h[i] = F[i][g[n]] /\ i # 0
        BY <2>2, <3>1, Zenon
      <4> QED
        BY <4>1, <4>2, Zenon
    <3>2. CASE i # n + 1
      <4>1. h[i] = g[i] /\ g[i] = IF i = 0 THEN a ELSE F[i][g[i - 1]]
        <5>1. i \in 0..n
          BY <2>2, <3>2, Zenon
        <5> QED
          BY <5>1, <2>1, <3>2, Zenon
      <4>2. i # 0 => h[i - 1] = g[i - 1]
        BY <2>2, <3>2, Zenon
      <4> QED
        BY <4>1, <4>2, Zenon
    <3> QED
      BY <3>1, <3>2, Zenon
  <2>4. Fix(h, n + 1)
    <3>1. h = [i \in 0..(n + 1) |-> h[i]]
      BY Zenon
    <3> HIDE DEF h
    <3> QED
      BY <2>3, <3>1, Zenon
  <2>5. n + 1 \in Nat
    OBVIOUS
  <2> QED
    BY <2>4, <2>5, Zenon
<1>3. m \in S
  <2> HIDE DEF S
  <2> QED
    BY <1>1, <1>2, SetInduction, Zenon
<1> QED
  BY <1>3, Zenon DEF IsFold

\* What each step keeps holds of every prefix.
LEMMA FoldHolds ==
  ASSUME NEW m \in Nat, NEW g, NEW T, g[0] \in T[0],
         \A i \in 1..m : g[i - 1] \in T[i - 1] => g[i] \in T[i]
  PROVE  \A i \in 0..m : g[i] \in T[i]
<1> DEFINE S == {n \in Nat : n <= m => g[n] \in T[n]}
<1>1. 0 \in S
  BY Zenon
<1>2. ASSUME NEW n \in Nat, n \in S PROVE n + 1 \in S
  <2>1. n + 1 <= m => n + 1 \in 1..m /\ n <= m
    OBVIOUS
  <2>2. (n + 1) - 1 = n /\ n + 1 \in Nat
    OBVIOUS
  <2>3. n + 1 <= m => g[(n + 1) - 1] \in T[(n + 1) - 1]
    BY <1>2, <2>1, <2>2, Zenon
  <2>4. n + 1 <= m => g[n + 1] \in T[n + 1]
    BY <2>1, <2>3, Zenon
  <2> QED
    BY <2>2, <2>4, Zenon
<1>3. Nat \subseteq S
  <2> HIDE DEF S
  <2> QED
    BY <1>1, <1>2, SetInduction, Zenon
<1>4. \A i \in 0..m : i \in Nat /\ i <= m
  OBVIOUS
<1> QED
  BY <1>3, <1>4, Zenon

LEMMA FoldIn ==
  ASSUME NEW m \in Nat, NEW a, NEW F, NEW T, a \in T[0],
         \A i \in 1..m : \A x \in T[i - 1] : F[i][x] \in T[i]
  PROVE  \E g : IsFold(g, m, a, F) /\ \A i \in 0..m : g[i] \in T[i]
<1>1. PICK g : IsFold(g, m, a, F)
  BY FoldExists, Zenon
<1>2. /\ 0 \in 0..m
      /\ \A i \in 1..m : i \in 0..m /\ i # 0
  OBVIOUS
<1>3. g[0] \in T[0]
  BY <1>1, <1>2, Zenon DEF IsFold
<1>4. \A i \in 1..m : g[i] = F[i][g[i - 1]]
  BY <1>1, <1>2, Zenon DEF IsFold
<1>5. \A i \in 1..m : g[i - 1] \in T[i - 1] => g[i] \in T[i]
  BY <1>4, Zenon
<1>6. \A i \in 0..m : g[i] \in T[i]
  BY <1>3, <1>5, FoldHolds, Zenon
<1> QED
  BY <1>1, <1>6, Zenon

-----------------------------------------------------------------------------
(* What the operations on one row keep *)

\* In the middle of a statement row IDs may be past the bound: Run refuses the result.
AnyVersion == [id : Nat \ {0}, key : KeyValues, ref : KeyValues \cup {Null},
               tx_min : TxIds, tx_max : 0..MaxTxId]
AnyRows == {rows \in SUBSET AnyVersion : IsFiniteSet(rows)}
AnyDb == [tables : SUBSET Tables, rows : [Tables -> AnyRows],
          pk : [Tables -> SUBSET (KeyValues \X (Nat \ {0}))],
          fk : [Tables -> SUBSET ((KeyValues \cup {Null}) \X (Nat \ {0}))],
          row_count : [Tables -> Nat]]
AnyResult == [ok : BOOLEAN, db : AnyDb, next : Nat \ {0}]

Keyed(rows) == {<<v.key, v.id>> : v \in rows}
Referring(t, rows) == IF Indexed(t) THEN {<<v.ref, v.id>> : v \in rows} ELSE {}
Entries(d) ==
    \A t \in Tables : /\ d.pk[t] = Keyed(d.rows[t])
                      /\ d.fk[t] = Referring(t, d.rows[t])
Ids(d, n) ==
    \A t \in Tables : \A v \in d.rows[t] :
        v.id < n /\ \A w \in d.rows[t] : v.id = w.id => v = w
Stamps(d, view) ==
    \A t \in Tables : \A v \in d.rows[t] :
        /\ v.tx_min < next_txid \/ v.tx_min = view.tx
        /\ v.tx_max < next_txid \/ v.tx_max = view.tx

\* What holds of the database before and after each row of a statement of this view.
Good(d, n, view) ==
    /\ d \in AnyDb /\ n \in Nat \ {0} /\ 0 < next_txid
    /\ Entries(d) /\ Ids(d, n) /\ Stamps(d, view)

LEMMA Numbers ==
  /\ KeyValues \subseteq Nat \ {0} /\ MaxRowId \in Nat /\ MaxTxId \in Nat
  /\ TxIds \subseteq Nat \ {0} /\ TxIds \subseteq 0..MaxTxId /\ 0 \in 0..MaxTxId
  BY ConstraintConstants DEF TxIds

LEMMA DbParts ==
  ASSUME NEW d \in AnyDb, NEW t \in Tables
  PROVE  /\ d.rows[t] \subseteq AnyVersion /\ IsFiniteSet(d.rows[t])
         /\ d.pk[t] \subseteq KeyValues \X (Nat \ {0})
         /\ d.fk[t] \subseteq (KeyValues \cup {Null}) \X (Nat \ {0})
         /\ d.row_count[t] \in Nat /\ d.tables \subseteq Tables
  BY DEF AnyDb, AnyRows

\* Replacing the rows of a table, and its entries.
LEMMA SetRows ==
  ASSUME NEW d \in AnyDb, NEW t \in Tables, NEW rows \in AnyRows
  PROVE  /\ [d EXCEPT !.rows[t] = rows] \in AnyDb
         /\ [d EXCEPT !.rows[t] = rows].tables = d.tables
         /\ [d EXCEPT !.rows[t] = rows].pk = d.pk
         /\ [d EXCEPT !.rows[t] = rows].fk = d.fk
         /\ [d EXCEPT !.rows[t] = rows].row_count = d.row_count
         /\ [d EXCEPT !.rows[t] = rows].rows[t] = rows
         /\ \A u \in Tables : u # t => [d EXCEPT !.rows[t] = rows].rows[u] = d.rows[u]
  BY DEF AnyDb

Marked(v, view) == [v EXCEPT !.tx_max = view.tx]

LEMMA MarkedVersion ==
  ASSUME NEW v \in AnyVersion, NEW view, view.tx \in TxIds
  PROVE  /\ Marked(v, view) \in AnyVersion
         /\ Marked(v, view).id = v.id /\ Marked(v, view).key = v.key
         /\ Marked(v, view).ref = v.ref /\ Marked(v, view).tx_min = v.tx_min
         /\ Marked(v, view).tx_max = view.tx
  BY Numbers DEF AnyVersion, Marked

LEMMA TombstoneParts ==
  ASSUME NEW d \in AnyDb, NEW t \in Tables, NEW v \in d.rows[t], NEW view, view.tx \in TxIds
  PROVE  /\ Tombstone(d, t, v, view) \in AnyDb
         /\ Tombstone(d, t, v, view).tables = d.tables
         /\ Tombstone(d, t, v, view).pk = d.pk
         /\ Tombstone(d, t, v, view).fk = d.fk
         /\ Tombstone(d, t, v, view).rows[t] = (d.rows[t] \ {v}) \cup {Marked(v, view)}
         /\ \A u \in Tables : u # t => Tombstone(d, t, v, view).rows[u] = d.rows[u]
<1> DEFINE rows == (d.rows[t] \ {v}) \cup {Marked(v, view)}
<1>1. v \in AnyVersion /\ d.rows[t] \subseteq AnyVersion /\ IsFiniteSet(d.rows[t])
  BY DbParts, Zenon
<1>2. Marked(v, view) \in AnyVersion
  BY <1>1, MarkedVersion, Zenon
<1>3. IsFiniteSet(rows)
  BY <1>1, FS_RemoveElement, FS_AddElement, Zenon
<1>4. rows \in AnyRows
  BY <1>1, <1>2, <1>3, Zenon DEF AnyRows
<1>5. Tombstone(d, t, v, view) = [d EXCEPT !.rows[t] = rows]
  BY DEF Tombstone, Marked
<1> HIDE DEF rows
<1>6. /\ [d EXCEPT !.rows[t] = rows] \in AnyDb
      /\ [d EXCEPT !.rows[t] = rows].tables = d.tables
      /\ [d EXCEPT !.rows[t] = rows].pk = d.pk
      /\ [d EXCEPT !.rows[t] = rows].fk = d.fk
      /\ [d EXCEPT !.rows[t] = rows].rows[t] = rows
      /\ \A u \in Tables : u # t => [d EXCEPT !.rows[t] = rows].rows[u] = d.rows[u]
  BY <1>4, SetRows
<1> QED
  BY <1>5, <1>6, Zenon DEF rows

LEMMA TombstoneGood ==
  ASSUME NEW d, NEW n, NEW t \in Tables, NEW v, NEW view, view.tx \in TxIds,
         Good(d, n, view), v \in d.rows[t]
  PROVE  Good(Tombstone(d, t, v, view), n, view)
<1> DEFINE e == Tombstone(d, t, v, view)
<1>1. d \in AnyDb /\ n \in Nat \ {0} /\ 0 < next_txid /\ Entries(d) /\ Ids(d, n) /\ Stamps(d, view)
  BY DEF Good
<1>2. /\ e \in AnyDb /\ e.pk = d.pk /\ e.fk = d.fk
      /\ e.rows[t] = (d.rows[t] \ {v}) \cup {Marked(v, view)}
      /\ \A u \in Tables : u # t => e.rows[u] = d.rows[u]
  BY <1>1, TombstoneParts
<1> HIDE DEF e
<1>3. v \in AnyVersion /\ d.rows[t] \subseteq AnyVersion
  BY <1>1, DbParts, Zenon
<1>4. /\ Marked(v, view).id = v.id /\ Marked(v, view).key = v.key
      /\ Marked(v, view).ref = v.ref /\ Marked(v, view).tx_min = v.tx_min
      /\ Marked(v, view).tx_max = view.tx
  BY <1>3, MarkedVersion, Zenon
<1>5. Keyed(e.rows[t]) = Keyed(d.rows[t]) /\ Referring(t, e.rows[t]) = Referring(t, d.rows[t])
  <2>1. Keyed(e.rows[t]) = Keyed(d.rows[t])
    BY <1>2, <1>4 DEF Keyed
  <2>2. {<<w.ref, w.id>> : w \in e.rows[t]} = {<<w.ref, w.id>> : w \in d.rows[t]}
    BY <1>2, <1>4
  <2> QED
    BY <2>1, <2>2, Zenon DEF Referring
<1>6. Entries(e)
  BY <1>1, <1>2, <1>5, Zenon DEF Entries
<1>7. Ids(e, n)
  <2> SUFFICES ASSUME NEW u \in Tables, NEW x \in e.rows[u]
               PROVE  x.id < n /\ \A y \in e.rows[u] : x.id = y.id => x = y
    BY DEF Ids
  <2>1. CASE u # t
    BY <2>1, <1>1, <1>2, Zenon DEF Ids
  <2>2. CASE u = t
    <3>1. \A y \in e.rows[t] : \E w \in d.rows[t] : w.id = y.id
      BY <1>2, <1>4, Zenon
    <3>2. \A y, z \in d.rows[t] : y.id < n /\ (y.id = z.id => y = z)
      BY <1>1, Zenon DEF Ids
    <3>3. \A y \in e.rows[t] : y = Marked(v, view) \/ (y \in d.rows[t] /\ y # v)
      BY <1>2, Zenon
    <3> QED
      BY <2>2, <1>4, <3>1, <3>2, <3>3
  <2> QED
    BY <2>1, <2>2
<1>8. Stamps(e, view)
  <2> SUFFICES ASSUME NEW u \in Tables, NEW x \in e.rows[u]
               PROVE  /\ x.tx_min < next_txid \/ x.tx_min = view.tx
                      /\ x.tx_max < next_txid \/ x.tx_max = view.tx
    BY DEF Stamps
  <2> QED
    BY <1>1, <1>2, <1>4, Zenon DEF Stamps
<1> QED
  BY <1>1, <1>2, <1>6, <1>7, <1>8 DEF Good, e

NewVersion(n, key, ref, view) ==
    [id |-> n, key |-> key, ref |-> ref, tx_min |-> view.tx, tx_max |-> 0]

LEMMA NewIsVersion ==
  ASSUME NEW n \in Nat \ {0}, NEW key \in KeyValues, NEW ref \in KeyValues \cup {Null},
         NEW view, view.tx \in TxIds
  PROVE  NewVersion(n, key, ref, view) \in AnyVersion
  BY Numbers DEF NewVersion, AnyVersion

\* A row with its entries.
FkEntries(entries, t, v) ==
    IF Indexed(t) THEN entries \cup {<<v.ref, v.id>>} ELSE entries
WithEntries(d, t, v) ==
    [d EXCEPT !.pk[t] = @ \cup {<<v.key, v.id>>}, !.fk[t] = FkEntries(@, t, v)]

LEMMA SetEntries ==
  ASSUME NEW d \in AnyDb, NEW t \in Tables, NEW v \in AnyVersion
  PROVE  /\ WithEntries(d, t, v) \in AnyDb
         /\ WithEntries(d, t, v).tables = d.tables
         /\ WithEntries(d, t, v).rows = d.rows
         /\ WithEntries(d, t, v).pk[t] = d.pk[t] \cup {<<v.key, v.id>>}
         /\ WithEntries(d, t, v).fk[t] = FkEntries(d.fk[t], t, v)
         /\ \A u \in Tables : u # t => /\ WithEntries(d, t, v).pk[u] = d.pk[u]
                                       /\ WithEntries(d, t, v).fk[u] = d.fk[u]
<1> DEFINE e == WithEntries(d, t, v)
<1>1. /\ d.pk \in [Tables -> SUBSET (KeyValues \X (Nat \ {0}))]
      /\ d.fk \in [Tables -> SUBSET ((KeyValues \cup {Null}) \X (Nat \ {0}))]
  BY DEF AnyDb
<1>2. /\ <<v.key, v.id>> \in KeyValues \X (Nat \ {0})
      /\ <<v.ref, v.id>> \in (KeyValues \cup {Null}) \X (Nat \ {0})
  BY DEF AnyVersion
<1>3. /\ e.tables = d.tables /\ e.rows = d.rows /\ e.row_count = d.row_count
      /\ e.pk = [d.pk EXCEPT ![t] = @ \cup {<<v.key, v.id>>}]
      /\ e.fk = [d.fk EXCEPT ![t] = FkEntries(@, t, v)]
  BY DEF AnyDb, WithEntries
<1>4. e.pk \in [Tables -> SUBSET (KeyValues \X (Nat \ {0}))]
  BY <1>1, <1>2, <1>3
<1>5. e.fk \in [Tables -> SUBSET ((KeyValues \cup {Null}) \X (Nat \ {0}))]
  <2>1. FkEntries(d.fk[t], t, v) \in SUBSET ((KeyValues \cup {Null}) \X (Nat \ {0}))
    BY <1>1, <1>2 DEF FkEntries
  <2> QED
    BY <1>1, <1>3, <2>1
<1>6. ASSUME NEW p \in [Tables -> SUBSET (KeyValues \X (Nat \ {0}))],
             NEW q \in [Tables -> SUBSET ((KeyValues \cup {Null}) \X (Nat \ {0}))]
      PROVE  [d EXCEPT !.pk = p, !.fk = q] \in AnyDb
  BY <1>6 DEF AnyDb
<1>7. e \in AnyDb
  <2>1. e = [d EXCEPT !.pk = e.pk, !.fk = e.fk]
    BY <1>3 DEF AnyDb, WithEntries
  <2> HIDE DEF e
  <2>2. [d EXCEPT !.pk = e.pk, !.fk = e.fk] \in AnyDb
    BY <1>4, <1>5, <1>6, Zenon
  <2> QED
    BY <2>1, <2>2, Zenon
<1> HIDE DEF e
<1>8. /\ e.pk[t] = d.pk[t] \cup {<<v.key, v.id>>}
      /\ e.fk[t] = FkEntries(d.fk[t], t, v)
      /\ \A u \in Tables : u # t => e.pk[u] = d.pk[u] /\ e.fk[u] = d.fk[u]
  BY <1>1, <1>3
<1> QED
  BY <1>3, <1>7, <1>8, Zenon DEF e

LEMMA ResultParts ==
  ASSUME NEW d, NEW n
  PROVE  /\ ~Fails(d, n).ok /\ Fails(d, n).db = d /\ Fails(d, n).next = n
         /\ Yields(d, n).ok /\ Yields(d, n).db = d /\ Yields(d, n).next = n
  BY DEF Fails, Yields

LEMMA ResultTypes ==
  ASSUME NEW d \in AnyDb, NEW n \in Nat \ {0}
  PROVE  Fails(d, n) \in AnyResult /\ Yields(d, n) \in AnyResult
  BY DEF Fails, Yields, AnyResult

\* The two outcomes of storing a row.
LEMMA StoreCases ==
  ASSUME NEW d, NEW n, NEW t, NEW key, NEW ref, NEW view, NEW old
  PROVE  LET v == NewVersion(n, key, ref, view)
             e == [d EXCEPT !.rows[t] = @ \cup {v}]
         IN  \/ StoreRow(d, n, t, key, ref, view, old) = Fails(d, n)
             \/ StoreRow(d, n, t, key, ref, view, old) = Fails(e, n + 1)
             \/ /\ StoreRow(d, n, t, key, ref, view, old) = Yields(WithEntries(e, t, v), n + 1)
                /\ key = old \/ ~IndexHasValue(e.pk[t], key)
  BY DEF StoreRow, IndexInsertRow, NewVersion, WithEntries, FkEntries

LEMMA StoreParts ==
  ASSUME NEW d \in AnyDb, NEW n \in Nat \ {0}, NEW t \in Tables, NEW key \in KeyValues,
         NEW ref \in KeyValues \cup {Null}, NEW view, view.tx \in TxIds, NEW old,
         NEW r, r = StoreRow(d, n, t, key, ref, view, old)
  PROVE  /\ r \in AnyResult /\ n <= r.next
         /\ r.ok => /\ r.next = n + 1 /\ r.db.tables = d.tables
                    /\ r.db.rows[t] = d.rows[t] \cup {NewVersion(n, key, ref, view)}
                    /\ r.db.pk[t] = d.pk[t] \cup {<<key, n>>}
                    /\ r.db.fk[t] = FkEntries(d.fk[t], t, NewVersion(n, key, ref, view))
                    /\ \A u \in Tables : u # t => /\ r.db.rows[u] = d.rows[u]
                                                  /\ r.db.pk[u] = d.pk[u]
                                                  /\ r.db.fk[u] = d.fk[u]
                    /\ key = old \/ ~IndexHasValue(d.pk[t], key)
<1> DEFINE v == NewVersion(n, key, ref, view)
           rows == d.rows[t] \cup {v}
           e == [d EXCEPT !.rows[t] = rows]
           f == WithEntries(e, t, v)
<1>1. v \in AnyVersion /\ v.key = key /\ v.id = n /\ v.ref = ref
  <2>1. v.key = key /\ v.id = n /\ v.ref = ref
    BY DEF NewVersion
  <2> QED
    BY <2>1, NewIsVersion, Zenon
<1>2. rows \in AnyRows
  <2>1. d.rows[t] \subseteq AnyVersion /\ IsFiniteSet(d.rows[t])
    BY DbParts, Zenon
  <2>2. IsFiniteSet(rows)
    BY <2>1, FS_AddElement, Zenon
  <2> QED
    BY <1>1, <2>1, <2>2, Zenon DEF AnyRows
<1> HIDE DEF v, rows
<1>3. /\ e \in AnyDb /\ e.tables = d.tables /\ e.pk = d.pk /\ e.fk = d.fk
      /\ e.rows[t] = rows /\ \A u \in Tables : u # t => e.rows[u] = d.rows[u]
  BY <1>2, SetRows
<1> HIDE DEF e
<1>4. /\ f \in AnyDb /\ f.tables = e.tables /\ f.rows = e.rows
      /\ f.pk[t] = e.pk[t] \cup {<<v.key, v.id>>}
      /\ f.fk[t] = FkEntries(e.fk[t], t, v)
      /\ \A u \in Tables : u # t => f.pk[u] = e.pk[u] /\ f.fk[u] = e.fk[u]
  <2>1. e \in AnyDb /\ v \in AnyVersion
    BY <1>1, <1>3, Zenon
  <2> QED
    BY <2>1, SetEntries
<1> HIDE DEF f
<1>5. \/ r = Fails(d, n) \/ r = Fails(e, n + 1)
      \/ r = Yields(f, n + 1) /\ (key = old \/ ~IndexHasValue(e.pk[t], key))
  BY StoreCases DEF v, rows, e, f
<1>6. n + 1 \in Nat \ {0} /\ n <= n + 1 /\ n <= n
  OBVIOUS
<1>7. CASE r = Fails(d, n)
  BY <1>6, <1>7, ResultParts, ResultTypes
<1>8. CASE r = Fails(e, n + 1)
  BY <1>3, <1>6, <1>8, ResultParts, ResultTypes
<1>9. CASE r = Yields(f, n + 1) /\ (key = old \/ ~IndexHasValue(e.pk[t], key))
  <2>1. r.ok /\ r.db = f /\ r.next = n + 1 /\ r \in AnyResult
    BY <1>4, <1>6, <1>9, ResultParts, ResultTypes
  <2> QED
    BY <1>1, <1>3, <1>4, <1>6, <1>9, <2>1 DEF rows, v
<1> QED
  BY <1>5, <1>7, <1>8, <1>9, Zenon

LEMMA StoreGood ==
  ASSUME NEW d, NEW n, NEW t \in Tables, NEW key \in KeyValues,
         NEW ref \in KeyValues \cup {Null}, NEW view, view.tx \in TxIds, NEW old,
         Good(d, n, view), NEW r, r = StoreRow(d, n, t, key, ref, view, old), r.ok
  PROVE  Good(r.db, r.next, view)
<1> DEFINE v == NewVersion(n, key, ref, view)
           e == r.db
<1>1. d \in AnyDb /\ n \in Nat \ {0} /\ 0 < next_txid /\ Entries(d) /\ Ids(d, n) /\ Stamps(d, view)
  BY DEF Good
<1>2. /\ r \in AnyResult /\ r.next = n + 1
      /\ e.rows[t] = d.rows[t] \cup {v} /\ e.pk[t] = d.pk[t] \cup {<<key, n>>}
      /\ e.fk[t] = FkEntries(d.fk[t], t, v)
      /\ \A u \in Tables : u # t => /\ e.rows[u] = d.rows[u]
                                    /\ e.pk[u] = d.pk[u] /\ e.fk[u] = d.fk[u]
  <2>1. d \in AnyDb /\ n \in Nat \ {0}
    BY <1>1
  <2> QED
    BY <2>1, StoreParts, SMTT(30)
<1>3. e \in AnyDb /\ n + 1 \in Nat \ {0}
  BY <1>1, <1>2 DEF AnyResult
<1> HIDE DEF e
<1>4. /\ v.id = n /\ v.key = key /\ v.ref = ref /\ v.tx_min = view.tx /\ v.tx_max = 0
  BY DEF NewVersion
<1> HIDE DEF v
<1>5. Entries(e)
  <2>1. Keyed(d.rows[t] \cup {v}) = Keyed(d.rows[t]) \cup {<<key, n>>}
    BY <1>4 DEF Keyed
  <2>2. Referring(t, d.rows[t] \cup {v}) = FkEntries(Referring(t, d.rows[t]), t, v)
    BY <1>4 DEF Referring, FkEntries
  <2>3. e.pk[t] = Keyed(e.rows[t])
    BY <1>1, <1>2, <2>1, Zenon DEF Entries
  <2>4. e.fk[t] = Referring(t, e.rows[t])
    BY <1>1, <1>2, <2>2, Zenon DEF Entries
  <2>5. ASSUME NEW u \in Tables, u # t
        PROVE  e.pk[u] = Keyed(e.rows[u]) /\ e.fk[u] = Referring(u, e.rows[u])
    BY <1>1, <1>2, <2>5, Zenon DEF Entries
  <2> QED
    BY <2>3, <2>4, <2>5, Zenon DEF Entries
<1>6. Ids(e, n + 1)
  <2> SUFFICES ASSUME NEW u \in Tables, NEW x \in e.rows[u]
               PROVE  x.id < n + 1 /\ \A y \in e.rows[u] : x.id = y.id => x = y
    BY DEF Ids
  <2>1. \A y, z \in d.rows[u] : y.id < n /\ (y.id = z.id => y = z)
    BY <1>1, Zenon DEF Ids
  <2>2. \A y \in d.rows[u] : y.id \in Nat
    <3>1. d.rows[u] \subseteq AnyVersion
      BY <1>1, DbParts, Zenon
    <3> QED
      BY <3>1 DEF AnyVersion
  <2>3. CASE u # t
    <3>1. e.rows[u] = d.rows[u]
      BY <1>2, <2>3, Zenon
    <3> QED
      BY <1>1, <2>1, <2>2, <3>1
  <2>4. CASE u = t
    <3>1. \A y \in e.rows[u] : y = v \/ y \in d.rows[u]
      BY <1>2, <2>4, Zenon
    <3> QED
      BY <1>1, <1>4, <2>1, <2>2, <3>1
  <2> QED
    BY <2>3, <2>4
<1>7. Stamps(e, view)
  <2> SUFFICES ASSUME NEW u \in Tables, NEW x \in e.rows[u]
               PROVE  /\ x.tx_min < next_txid \/ x.tx_min = view.tx
                      /\ x.tx_max < next_txid \/ x.tx_max = view.tx
    BY DEF Stamps
  <2>1. CASE x \in d.rows[u]
    BY <1>1, <2>1, Zenon DEF Stamps
  <2>2. CASE x \notin d.rows[u]
    <3>1. x = v
      BY <1>2, <2>2, Zenon
    <3> QED
      BY <1>1, <1>4, <3>1
  <2> QED
    BY <2>1, <2>2
<1> QED
  BY <1>1, <1>2, <1>3, <1>5, <1>6, <1>7, Zenon DEF Good, e

\* A version that the checks of UPDATE have let through.
Admitted(d, t, v, key, view) ==
    NoConflict(v, view) /\ (key = v.key \/ \A w \in d.rows[t] : w.key # key)

\* A row with its new version.
Replaced(e, d, n, t, v, key, ref, view) ==
    /\ e.tables = d.tables /\ \A u \in Tables : u # t => e.rows[u] = d.rows[u]
    /\ e.rows[t] = (d.rows[t] \ {v}) \cup {Marked(v, view), NewVersion(n, key, ref, view)}
    /\ Admitted(d, t, v, key, view)

LEMMA UpdateRowParts ==
  ASSUME NEW d, NEW n, NEW t \in Tables, NEW v, NEW key \in KeyValues,
         NEW ref \in KeyValues \cup {Null}, NEW view, view.tx \in TxIds,
         Good(d, n, view), v \in d.rows[t],
         NEW r, r = UpdateRow(d, n, t, v, key, ref, view)
  PROVE  /\ r \in AnyResult /\ n <= r.next
         /\ r.ok => Good(r.db, r.next, view) /\ Replaced(r.db, d, n, t, v, key, ref, view)
<1> DEFINE e == Tombstone(d, t, v, view)
<1>1. d \in AnyDb /\ n \in Nat \ {0} /\ n <= n
  BY DEF Good
<1>2. \/ r = Fails(d, n)
      \/ NoConflict(v, view) /\ r = StoreRow(e, n, t, key, ref, view, v.key)
  BY DEF UpdateRow
<1>3. CASE r = Fails(d, n)
  BY <1>1, <1>3, ResultParts, ResultTypes
<1>4. CASE NoConflict(v, view) /\ r = StoreRow(e, n, t, key, ref, view, v.key)
  <2>1. Good(e, n, view)
    BY TombstoneGood, Zenon
  <2>2. /\ e \in AnyDb /\ e.tables = d.tables /\ e.pk = d.pk
        /\ e.rows[t] = (d.rows[t] \ {v}) \cup {Marked(v, view)}
        /\ \A u \in Tables : u # t => e.rows[u] = d.rows[u]
    BY <1>1, TombstoneParts
  <2> HIDE DEF e
  <2>3. /\ r \in AnyResult /\ n <= r.next
        /\ r.ok => /\ r.db.tables = e.tables
                   /\ r.db.rows[t] = e.rows[t] \cup {NewVersion(n, key, ref, view)}
                   /\ \A u \in Tables : u # t => r.db.rows[u] = e.rows[u]
                   /\ key = v.key \/ ~IndexHasValue(e.pk[t], key)
    BY <1>1, <1>4, <2>2, StoreParts
  <2>4. r.ok => Good(r.db, r.next, view)
    BY <1>4, <2>1, StoreGood, Zenon
  <2>5. ~IndexHasValue(e.pk[t], key) => \A w \in d.rows[t] : w.key # key
    <3>1. e.pk[t] = Keyed(d.rows[t])
      BY <2>2, Zenon DEF Good, Entries
    <3>2. ASSUME NEW w \in d.rows[t] PROVE <<w.key, w.id>> \in e.pk[t]
      BY <3>1 DEF Keyed
    <3>3. ASSUME NEW w \in d.rows[t], w.key = key PROVE IndexHasValue(e.pk[t], key)
      BY <3>2, <3>3 DEF IndexHasValue
    <3> QED
      BY <3>3, Zenon
  <2> QED
    BY <1>4, <2>2, <2>3, <2>4, <2>5 DEF Admitted, Replaced
<1> QED
  BY <1>2, <1>3, <1>4

-----------------------------------------------------------------------------
(* Versions that share a key *)

Deletes(c, t) == <<t, "delete">> \in constraint_load.writes[c]

\* The connection's statements mark rows of t: UPDATE, DELETE, or the actions of a DELETE.
Modifies(c, t) ==
    \/ <<t, "update">> \in constraint_load.writes[c] \/ Deletes(c, t)
    \/ t \in Children /\ Deletes(c, ParentOf[t])
    \/ t = "grand" /\ Deletes(c, "parent")

\* Some of them give t a new version of a row.
Updated(t) ==
    \E c \in Clients :
       \/ <<t, "update">> \in constraint_load.writes[c]
       \/ Modifies(c, t) /\ t \in Children /\ constraint_load.on_delete[t] = "set_null"

\* A table with new versions of rows is modified over one connection, whatever the others
\* insert into it.  Two transactions that update a row one after the other, the second
\* with a snapshot older than the first's commit, leave two versions that both count.
OneModifier ==
    \A t \in Tables : Updated(t) =>
        \A b, c \in Clients : Modifies(b, t) /\ Modifies(c, t) => b = c

Stale(v) == status[v.tx_min] = "rolled_back"

\* Whoever sees v's insert sees w deleted.
Follows(views, w, v) ==
    /\ w.tx_max # 0
    /\ \A view \in views : Committed(view, v.tx_min) => Committed(view, w.tx_max)
Apart(views, v, w) ==
    Stale(v) \/ Stale(w) \/ Follows(views, v, w) \/ Follows(views, w, v)
KeysApart(d, views) ==
    \A t \in Tables : \A v, w \in d.rows[t] :
        v # w /\ v.key = w.key => Updated(t) /\ Apart(views, v, w)

\* A tombstone is the view's own, or its transaction had ended when the view was taken.
Owned(rows, view) ==
    \A v \in rows : v.tx_max # 0 =>
        v.tx_max = view.tx \/ (v.tx_max < view.high /\ v.tx_max \notin view.others)
Owners(d) ==
    \A t \in Tables, b \in Clients : Updated(t) /\ Modifies(b, t) => Owned(d.rows[t], View(b))

\* The view of a running statement among the views of all transactions.
Sole(view, views) ==
    /\ status \in [TxIds -> {"none", "committed", "rolled_back"}]
    /\ view.tx \in TxIds /\ view \in views
    /\ \A other \in views : /\ Committed(other, view.tx) => other = view
                            /\ other.tx \in TxIds => status[other.tx] = "none"
    /\ \A x \in TxIds : (x < next_txid \/ x = view.tx) /\ status[x] # "rolled_back"
                           => \E other \in views : Committed(other, x)

\* A row that a statement may modify is the last of its key.
LEMMA LastOfKey ==
  ASSUME NEW d, NEW n, NEW view, NEW views, NEW t \in Tables, NEW v, NEW w,
         Good(d, n, view), Sole(view, views), KeysApart(d, views),
         v \in d.rows[t], Visible(view, v), NoConflict(v, view),
         Updated(t) => Owned(d.rows[t], view),
         w \in d.rows[t], w # v, w.key = v.key
  PROVE  Updated(t) /\ (Stale(w) \/ Follows(views, w, v))
<1>1. Updated(t) /\ Apart(views, v, w)
  BY Zenon DEF KeysApart
<1>2. /\ v.tx_min \in TxIds /\ w.tx_min \in TxIds /\ v.tx_max \in 0..MaxTxId
      /\ w.tx_min < next_txid \/ w.tx_min = view.tx
  <2>1. d \in AnyDb /\ Stamps(d, view)
    BY DEF Good
  <2>2. v \in AnyVersion /\ w \in AnyVersion
    BY <2>1, DbParts, Zenon
  <2>3. w.tx_min < next_txid \/ w.tx_min = view.tx
    BY <2>1, Zenon DEF Stamps
  <2> QED
    BY <2>2, <2>3 DEF AnyVersion
<1>3. ~Stale(v)
  <2>1. Committed(view, v.tx_min)
    BY DEF Visible
  <2>2. status[view.tx] = "none"
    BY Zenon DEF Sole
  <2> QED
    BY <2>1, <2>2 DEF Committed, Stale
<1>4. ASSUME v.tx_max # 0 PROVE \A other \in views : ~Committed(other, v.tx_max)
  <2>1. ~Committed(view, v.tx_max)
    BY <1>4, Zenon DEF Visible
  <2>2. v.tx_max # view.tx
    BY <2>1, Zenon DEF Committed
  <2>3. v.tx_max < view.high /\ v.tx_max \notin view.others
    BY <1>1, <1>4, <2>2, Zenon DEF Owned
  <2>4. status[v.tx_max] # "committed"
    BY <2>1, <2>3, Zenon DEF Committed
  <2>5. status[v.tx_max] # "none"
    BY <1>4, <2>2, Zenon DEF NoConflict
  <2>6. v.tx_max \in TxIds
    BY <1>2, <1>4, Numbers DEF TxIds
  <2>7. ASSUME NEW other \in views, Committed(other, v.tx_max) PROVE FALSE
    <3>1. v.tx_max = other.tx
      BY <2>4, <2>7, Zenon DEF Committed
    <3>2. status[other.tx] = "none"
      BY <2>6, <3>1, Zenon DEF Sole
    <3> QED
      BY <2>5, <3>1, <3>2, Zenon
  <2> QED
    BY <2>7, Zenon
<1>5. CASE Follows(views, v, w)
  <2>1. \A other \in views : ~Committed(other, w.tx_min)
    BY <1>4, <1>5, Zenon DEF Follows
  <2>2. status[w.tx_min] = "rolled_back"
    BY <1>2, <2>1, Zenon DEF Sole
  <2> QED
    BY <1>1, <2>2, Zenon DEF Stale
<1> QED
  BY <1>1, <1>3, <1>5, Zenon DEF Apart

LEMMA MarkKeys ==
  ASSUME NEW d, NEW n, NEW view, NEW views, NEW t \in Tables, NEW v, NEW e,
         Good(d, n, view), Sole(view, views), KeysApart(d, views),
         v \in d.rows[t], Visible(view, v), NoConflict(v, view),
         Updated(t) => Owned(d.rows[t], view),
         e.rows[t] = (d.rows[t] \ {v}) \cup {Marked(v, view)},
         \A u \in Tables : u # t => e.rows[u] = d.rows[u]
  PROVE  KeysApart(e, views)
<1>1. v \in AnyVersion /\ view.tx \in TxIds
  <2>1. d \in AnyDb
    BY DEF Good
  <2> QED
    BY <2>1, DbParts, Zenon DEF Sole
<1>2. Marked(v, view).key = v.key /\ Marked(v, view).tx_min = v.tx_min
  BY <1>1, MarkedVersion, Zenon
<1>3. ASSUME NEW w \in d.rows[t] \ {v}, w.key = v.key
      PROVE  Updated(t) /\ (Stale(w) \/ Follows(views, w, Marked(v, view)))
  <2>1. Updated(t) /\ (Stale(w) \/ Follows(views, w, v))
    BY <1>3, LastOfKey, Zenon
  <2>2. Follows(views, w, v) => Follows(views, w, Marked(v, view))
    BY <1>2, Zenon DEF Follows
  <2> QED
    BY <2>1, <2>2, Zenon
<1> SUFFICES ASSUME NEW u \in Tables, NEW x \in e.rows[u], NEW y \in e.rows[u],
                    x # y, x.key = y.key
             PROVE  Updated(u) /\ Apart(views, x, y)
  BY Zenon DEF KeysApart
<1>4. CASE x \in d.rows[u] /\ y \in d.rows[u]
  BY <1>4, Zenon DEF KeysApart
<1>5. CASE x \notin d.rows[u] \/ y \notin d.rows[u]
  <2>1. u = t
    BY <1>5, Zenon
  <2>2. \/ x = Marked(v, view) /\ y \in d.rows[t] \ {v}
        \/ y = Marked(v, view) /\ x \in d.rows[t] \ {v}
    BY <1>5, <2>1, Zenon
  <2>3. CASE x = Marked(v, view) /\ y \in d.rows[t] \ {v}
    BY <1>2, <1>3, <2>1, <2>3, Zenon DEF Apart
  <2>4. CASE y = Marked(v, view) /\ x \in d.rows[t] \ {v}
    BY <1>2, <1>3, <2>1, <2>4, Zenon DEF Apart
  <2> QED
    BY <2>2, <2>3, <2>4
<1> QED
  BY <1>4, <1>5, Zenon

\* The new version of an UPDATE comes after all others of its key.
LEMMA UpdateKeys ==
  ASSUME NEW d, NEW n, NEW view, NEW views, NEW t \in Tables, NEW v, NEW e,
         NEW key \in KeyValues, NEW ref,
         Good(d, n, view), Sole(view, views), KeysApart(d, views),
         v \in d.rows[t], Visible(view, v), Admitted(d, t, v, key, view),
         Updated(t), Owned(d.rows[t], view),
         e.rows[t] = (d.rows[t] \ {v}) \cup {Marked(v, view), NewVersion(n, key, ref, view)},
         \A u \in Tables : u # t => e.rows[u] = d.rows[u]
  PROVE  KeysApart(e, views)
<1> DEFINE old == Marked(v, view)
           new == NewVersion(n, key, ref, view)
<1>1. v \in AnyVersion /\ view.tx \in TxIds
  <2>1. d \in AnyDb
    BY DEF Good
  <2> QED
    BY <2>1, DbParts, Zenon DEF Sole
<1>2. old.key = v.key /\ old.tx_min = v.tx_min /\ old.tx_max = view.tx
  BY <1>1, MarkedVersion, Zenon
<1>3. new.key = key /\ new.tx_min = view.tx
  BY DEF NewVersion
<1> HIDE DEF old, new
<1>4. NoConflict(v, view) /\ (key = v.key \/ \A w \in d.rows[t] : w.key # key)
  BY Zenon DEF Admitted
<1>5. ASSUME NEW w \in d.rows[t] \ {v}, w.key = v.key
      PROVE  Stale(w) \/ Follows(views, w, v)
  BY <1>4, <1>5, LastOfKey, Zenon
<1>6. ASSUME NEW w \in d.rows[t] \ {v}, w.key = v.key PROVE Stale(w) \/ Follows(views, w, old)
  BY <1>2, <1>5, <1>6, Zenon DEF Follows
<1>7. ASSUME NEW w \in d.rows[t] \ {v}, w.key = new.key PROVE Stale(w) \/ Follows(views, w, new)
  <2>1. w.key = v.key
    BY <1>3, <1>4, <1>7, Zenon
  <2>2. CASE Follows(views, w, v)
    <3>1. w.tx_max # 0 /\ \A other \in views : Committed(other, v.tx_min) => Committed(other, w.tx_max)
      BY <2>2, Zenon DEF Follows
    <3>2. Committed(view, v.tx_min)
      BY Zenon DEF Visible
    <3>3. \A other \in views : Committed(other, view.tx) => other = view
      BY Zenon DEF Sole
    <3>4. \A other \in views : Committed(other, view.tx) => Committed(other, w.tx_max)
      BY <3>1, <3>2, <3>3, Zenon
    <3> QED
      BY <1>3, <3>1, <3>4, Zenon DEF Follows
  <2> QED
    BY <1>5, <2>1, <2>2, Zenon
<1>8. Follows(views, old, new)
  <2>1. view.tx # 0
    BY <1>1, Numbers
  <2> QED
    BY <1>2, <1>3, <2>1, Zenon DEF Follows
<1> SUFFICES ASSUME NEW u \in Tables, NEW x \in e.rows[u], NEW y \in e.rows[u],
                    x # y, x.key = y.key
             PROVE  Updated(u) /\ Apart(views, x, y)
  BY Zenon DEF KeysApart
<1>9. CASE x \in d.rows[u] /\ y \in d.rows[u]
  BY <1>9, Zenon DEF KeysApart
<1>10. CASE x \notin d.rows[u] \/ y \notin d.rows[u]
  <2>1. u = t
    BY <1>10, Zenon
  <2>2. /\ x \in d.rows[t] \ {v} \/ x = old \/ x = new
        /\ y \in d.rows[t] \ {v} \/ y = old \/ y = new
    BY <2>1, Zenon DEF old, new
  <2>3. CASE x \in d.rows[t] \ {v}
    <3>1. y = old \/ y = new
      BY <1>10, <2>1, <2>2, <2>3, Zenon
    <3> QED
      BY <1>2, <1>6, <1>7, <2>1, <2>3, <3>1, Zenon DEF Apart
  <2>4. CASE y \in d.rows[t] \ {v}
    <3>1. x = old \/ x = new
      BY <1>10, <2>1, <2>2, <2>4, Zenon
    <3> QED
      BY <1>2, <1>6, <1>7, <2>1, <2>4, <3>1, Zenon DEF Apart
  <2>5. CASE (x = old /\ y = new) \/ (x = new /\ y = old)
    BY <1>8, <2>1, <2>5, Zenon DEF Apart
  <2> QED
    BY <2>2, <2>3, <2>4, <2>5
<1> QED
  BY <1>9, <1>10, Zenon

LEMMA MarkOwners ==
  ASSUME NEW d \in AnyDb, NEW c \in Clients, NEW view, view = View(c), view.tx \in TxIds,
         NEW t \in Tables, NEW v, NEW e, NEW new,
         OneModifier, Modifies(c, t), Owners(d), v \in d.rows[t], new.tx_max = 0,
         e.rows[t] \subseteq d.rows[t] \cup {Marked(v, view), new},
         \A u \in Tables : u # t => e.rows[u] = d.rows[u]
  PROVE  Owners(e)
<1>1. v \in AnyVersion
  BY DbParts, Zenon
<1>2. Marked(v, view).tx_max = view.tx
  BY <1>1, MarkedVersion, Zenon
<1> SUFFICES ASSUME NEW u \in Tables, NEW b \in Clients, Updated(u), Modifies(b, u),
                    NEW x \in e.rows[u], x.tx_max # 0
             PROVE  \/ x.tx_max = View(b).tx
                    \/ x.tx_max < View(b).high /\ x.tx_max \notin View(b).others
  BY Zenon DEF Owners, Owned
<1>3. CASE x \in d.rows[u]
  BY <1>3, Zenon DEF Owners, Owned
<1>4. CASE x \notin d.rows[u]
  <2>1. u = t
    BY <1>4, Zenon
  <2>2. x = Marked(v, view)
    BY <1>4, <2>1, Zenon
  <2>3. b = c
    BY <2>1, Zenon DEF OneModifier
  <2> QED
    BY <1>2, <2>2, <2>3, Zenon
<1> QED
  BY <1>3, <1>4, Zenon

-----------------------------------------------------------------------------
(* What statements keep *)

\* The database in the middle of a statement.
Fits(view, views, d, n) ==
    Good(d, n, view) /\ (OneModifier => KeysApart(d, views) /\ Owners(d))

\* The results of a statement that leaves all but some tables alone.
Outcome(view, views, d, n, moved) ==
    {x \in AnyResult :
        /\ n <= x.next
        /\ x.ok => /\ Fits(view, views, x.db, x.next) /\ x.db.tables = d.tables
                   /\ \A u \in Tables \ moved : x.db.rows[u] = d.rows[u]}

\* The same with the statement's rows after the i-th still as they were.
Progress(view, views, d, n, moved, t, rows, i) ==
    {x \in Outcome(view, views, d, n, moved) :
        x.ok => \A v \in rows : v.id > i => v \in x.db.rows[t]}

LEMMA MarkFits ==
  ASSUME NEW c \in Clients, NEW view, view = View(c), NEW views, Sole(view, views),
         NEW d, NEW n, Fits(view, views, d, n), NEW t \in Tables, Modifies(c, t),
         NEW v, v \in d.rows[t], Visible(view, v), NoConflict(v, view)
  PROVE  Fits(view, views, Tombstone(d, t, v, view), n)
<1> DEFINE e == Tombstone(d, t, v, view)
<1>1. Good(d, n, view) /\ view.tx \in TxIds
  BY Zenon DEF Fits, Sole
<1>2. Good(e, n, view)
  BY <1>1, TombstoneGood, Zenon
<1>3. d \in AnyDb
  BY <1>1 DEF Good
<1>4. /\ e.rows[t] = (d.rows[t] \ {v}) \cup {Marked(v, view)}
      /\ \A u \in Tables : u # t => e.rows[u] = d.rows[u]
  BY <1>1, <1>3, TombstoneParts
<1> HIDE DEF e
<1>5. ASSUME OneModifier PROVE KeysApart(e, views) /\ Owners(e)
  <2>1. KeysApart(d, views) /\ Owners(d)
    BY <1>5, Zenon DEF Fits
  <2>2. Updated(t) => Owned(d.rows[t], view)
    BY <2>1, Zenon DEF Owners
  <2>3. KeysApart(e, views)
    BY <1>1, <1>4, <2>1, <2>2, MarkKeys, Zenon
  <2> DEFINE new == [tx_max |-> 0]
  <2>4. new.tx_max = 0
    OBVIOUS
  <2> HIDE DEF new
  <2>5. e.rows[t] \subseteq d.rows[t] \cup {Marked(v, view), new}
    BY <1>4, Zenon
  <2>6. Owners(e)
    BY <1>1, <1>3, <1>4, <1>5, <2>1, <2>4, <2>5, MarkOwners, Zenon
  <2> QED
    BY <2>3, <2>6, Zenon
<1> QED
  BY <1>2, <1>5, Zenon DEF Fits, e

LEMMA UpdateFits ==
  ASSUME NEW c \in Clients, NEW view, view = View(c), NEW views, Sole(view, views),
         NEW d, NEW n, Fits(view, views, d, n), NEW t \in Tables, Modifies(c, t), Updated(t),
         NEW v, v \in d.rows[t], Visible(view, v),
         NEW key \in KeyValues, NEW ref \in KeyValues \cup {Null},
         NEW r, r = UpdateRow(d, n, t, v, key, ref, view)
  PROVE  /\ r \in Outcome(view, views, d, n, {t})
         /\ r.ok => \A w \in d.rows[t] : w.id # v.id => w \in r.db.rows[t]
<1>1. Good(d, n, view) /\ view.tx \in TxIds
  BY Zenon DEF Fits, Sole
<1>2. /\ r \in AnyResult /\ n <= r.next
      /\ r.ok => Good(r.db, r.next, view) /\ Replaced(r.db, d, n, t, v, key, ref, view)
  BY <1>1, UpdateRowParts, Zenon
<1>3. ASSUME r.ok, OneModifier PROVE KeysApart(r.db, views) /\ Owners(r.db)
  <2> DEFINE e == r.db
             new == NewVersion(n, key, ref, view)
  <2>1. /\ Admitted(d, t, v, key, view)
        /\ e.rows[t] = (d.rows[t] \ {v}) \cup {Marked(v, view), new}
        /\ \A u \in Tables : u # t => e.rows[u] = d.rows[u]
    BY <1>2, <1>3, Zenon DEF Replaced
  <2> HIDE DEF e
  <2>2. KeysApart(d, views) /\ Owners(d)
    BY <1>3, Zenon DEF Fits
  <2>3. Owned(d.rows[t], view)
    BY <2>2, Zenon DEF Owners
  <2>4. KeysApart(e, views)
    BY <1>1, <2>1, <2>2, <2>3, UpdateKeys, Zenon
  <2>5. new.tx_max = 0
    BY DEF NewVersion
  <2> HIDE DEF new
  <2>6. e.rows[t] \subseteq d.rows[t] \cup {Marked(v, view), new}
    BY <2>1, Zenon
  <2>7. d \in AnyDb
    BY <1>1 DEF Good
  <2>8. Owners(e)
    BY <1>1, <1>3, <2>1, <2>2, <2>5, <2>6, <2>7, MarkOwners, ZenonT(60)
  <2> QED
    BY <2>4, <2>8, Zenon DEF e
<1>4. r.ok => Fits(view, views, r.db, r.next)
  BY <1>2, <1>3, Zenon DEF Fits
<1>5. r \in Outcome(view, views, d, n, {t})
  BY <1>2, <1>4, Zenon DEF Outcome, Replaced
<1>6. r.ok => \A w \in d.rows[t] : w.id # v.id => w \in r.db.rows[t]
  BY <1>2, Zenon DEF Replaced
<1> QED
  BY <1>5, <1>6

\* One step after another.
LEMMA OutcomeTrans ==
  ASSUME NEW view, NEW views, NEW d, NEW n \in Nat, NEW moved, NEW further,
         NEW x \in Outcome(view, views, d, n, moved), x.ok,
         NEW y \in Outcome(view, views, x.db, x.next, further)
  PROVE  y \in Outcome(view, views, d, n, moved \cup further)
<1>1. /\ n <= x.next /\ x.next \in Nat /\ x.db.tables = d.tables
      /\ \A u \in Tables \ moved : x.db.rows[u] = d.rows[u]
  BY DEF Outcome, AnyResult
<1>2. /\ y \in AnyResult /\ x.next <= y.next /\ y.next \in Nat
      /\ y.ok => /\ Fits(view, views, y.db, y.next) /\ y.db.tables = x.db.tables
                 /\ \A u \in Tables \ further : y.db.rows[u] = x.db.rows[u]
  BY DEF Outcome, AnyResult
<1>3. n <= y.next
  BY <1>1, <1>2
<1>4. y.ok => /\ Fits(view, views, y.db, y.next) /\ y.db.tables = d.tables
              /\ \A u \in Tables \ (moved \cup further) : y.db.rows[u] = d.rows[u]
  BY <1>1, <1>2, Zenon
<1> QED
  BY <1>2, <1>3, <1>4, Zenon DEF Outcome

LEMMA ProgressBegins ==
  ASSUME NEW view, NEW views, NEW d, NEW n, Fits(view, views, d, n), NEW moved,
         NEW t \in Tables, NEW rows, rows \subseteq d.rows[t]
  PROVE  Yields(d, n) \in Progress(view, views, d, n, moved, t, rows, 0)
<1>1. d \in AnyDb /\ n \in Nat \ {0}
  BY DEF Fits, Good
<1>2. Yields(d, n) \in AnyResult /\ n <= n
  BY <1>1, ResultTypes
<1> DEFINE y == Yields(d, n)
<1>3. y \in AnyResult /\ y.next = n /\ y.db = d
  BY <1>2, ResultParts
<1> HIDE DEF y
<1>4. n <= y.next /\ Fits(view, views, y.db, y.next) /\ y.db.tables = d.tables
  BY <1>2, <1>3, Zenon
<1>5. y \in Outcome(view, views, d, n, moved)
  BY <1>3, <1>4, Zenon DEF Outcome
<1> QED
  BY <1>3, <1>5, Zenon DEF Progress, y

\* The step of a statement at the ID i, y what it makes of x.
LEMMA ProgressStep ==
  ASSUME NEW view, NEW views, NEW d, NEW n \in Nat, NEW moved, NEW t \in Tables,
         NEW rows, rows \subseteq AnyVersion,
         NEW i \in Nat \ {0}, NEW x \in Progress(view, views, d, n, moved, t, rows, i - 1),
         NEW y,
         \/ y = x /\ (x.ok => \A v \in rows : v.id # i)
         \/ /\ x.ok /\ y \in Outcome(view, views, x.db, x.next, moved)
            /\ y.ok => \A w \in x.db.rows[t] : w.id # i => w \in y.db.rows[t]
  PROVE  y \in Progress(view, views, d, n, moved, t, rows, i)
<1>1. \A v \in rows : v.id > i => v.id > i - 1 /\ v.id # i
  BY DEF AnyVersion
<1>3. /\ x \in Outcome(view, views, d, n, moved)
      /\ x.ok => \A v \in rows : v.id > i - 1 => v \in x.db.rows[t]
  BY Zenon DEF Progress
<1>4. CASE y = x
  BY <1>1, <1>3, <1>4, Zenon DEF Progress
<1>5. CASE /\ x.ok /\ y \in Outcome(view, views, x.db, x.next, moved)
           /\ y.ok => \A w \in x.db.rows[t] : w.id # i => w \in y.db.rows[t]
  <2>1. y \in Outcome(view, views, d, n, moved \cup moved)
    BY <1>3, <1>5, OutcomeTrans, Zenon
  <2>2. y \in Outcome(view, views, d, n, moved)
    <3>1. moved \cup moved = moved
      BY Zenon
    <3> QED
      BY <2>1, <3>1, Zenon
  <2>3. y.ok => \A v \in rows : v.id > i => v \in y.db.rows[t]
    BY <1>1, <1>3, <1>5, Zenon
  <2> QED
    BY <2>2, <2>3, Zenon DEF Progress
<1> QED
  BY <1>4, <1>5

\* The row of a statement at the ID i, and UPDATE for it.
Nth(rows, i) == CHOOSE v \in rows : v.id = i
UpdateAt(x, t, rows, i, key, ref, view) ==
    IF x.ok /\ \E v \in rows : v.id = i
    THEN UpdateRow(x.db, x.next, t, Nth(rows, i),
                   IF key = Same THEN Nth(rows, i).key ELSE key, ref, view)
    ELSE x

\* The results of UPDATE row by row, up to that of the statement.
UpdateRan(run, views, d, n, t, rows, key, ref, view) ==
    /\ run[0] = Yields(d, n)
    /\ \A i \in 1..MaxRowId : run[i] = UpdateAt(run[i - 1], t, rows, i, key, ref, view)
    /\ \A i \in 0..MaxRowId : run[i] \in Progress(view, views, d, n, {t}, t, rows, i)
    /\ UpdateRows(d, n, t, rows, key, ref, view) = run[MaxRowId]

LEMMA UpdateRuns ==
  ASSUME NEW c \in Clients, NEW view, view = View(c), NEW views, Sole(view, views),
         NEW d, NEW n, Fits(view, views, d, n), NEW t \in Tables, Modifies(c, t), Updated(t),
         NEW rows, rows \subseteq d.rows[t], \A v \in rows : Visible(view, v),
         NEW key \in KeyValues \cup {Same}, NEW ref \in KeyValues \cup {Null}
  PROVE  \E run : UpdateRan(run, views, d, n, t, rows, key, ref, view)
<1> DEFINE Key(v) == IF key = Same THEN v.key ELSE key
           Step(i, x) == UpdateAt(x, t, rows, i, key, ref, view)
           Is(g) == g = [i \in 0..MaxRowId |-> IF i = 0 THEN Yields(d, n) ELSE Step(i, g[i - 1])]
           T == [i \in 0..MaxRowId |-> Progress(view, views, d, n, {t}, t, rows, i)]
           F == [i \in 1..MaxRowId |-> [x \in AnyResult |-> Step(i, x)]]
<1>1. UpdateRows(d, n, t, rows, key, ref, view) = (CHOOSE g : Is(g))[MaxRowId]
  BY DEF UpdateRows, ForEach, UpdateAt, Nth
<1>2. d \in AnyDb /\ n \in Nat /\ MaxRowId \in Nat /\ rows \subseteq AnyVersion
  <2>1. d \in AnyDb /\ n \in Nat
    BY DEF Fits, Good
  <2> QED
    BY <2>1, Numbers, DbParts, Zenon
<1>3. /\ 0 \in 0..MaxRowId /\ MaxRowId \in 0..MaxRowId
      /\ \A i \in 1..MaxRowId : /\ i \in 0..MaxRowId /\ i - 1 \in 0..MaxRowId
                                /\ i # 0 /\ i \in Nat \ {0}
      /\ \A i \in 0..MaxRowId : i # 0 => i \in 1..MaxRowId
  BY <1>2
<1>4. ASSUME NEW i \in 1..MaxRowId,
             NEW x \in Progress(view, views, d, n, {t}, t, rows, i - 1)
      PROVE  Step(i, x) \in Progress(view, views, d, n, {t}, t, rows, i)
  <2> DEFINE y == Step(i, x)
  <2>1. CASE ~(x.ok /\ \E v \in rows : v.id = i)
    <3>1. y = x /\ (x.ok => \A v \in rows : v.id # i)
      BY <2>1, Zenon DEF UpdateAt
    <3> HIDE DEF y
    <3> QED
      BY <1>2, <1>3, <3>1, ProgressStep, Zenon DEF y
  <2>2. CASE x.ok /\ \E v \in rows : v.id = i
    <3> DEFINE v == Nth(rows, i)
    <3>1. v \in rows /\ v.id = i
      BY <2>2, Zenon DEF Nth
    <3>2. y = UpdateRow(x.db, x.next, t, v, Key(v), ref, view)
      BY <2>2, Zenon DEF UpdateAt
    <3> HIDE DEF v
    <3>3. Fits(view, views, x.db, x.next) /\ x.next \in Nat
      BY <2>2 DEF Progress, Outcome, AnyResult
    <3>4. v \in x.db.rows[t]
      <4>1. i > i - 1
        BY <1>3
      <4>2. \A w \in rows : w.id > i - 1 => w \in x.db.rows[t]
        BY <2>2, Zenon DEF Progress
      <4> QED
        BY <3>1, <4>1, <4>2, Zenon
    <3>5. Key(v) \in KeyValues
      BY <1>2, <3>1 DEF AnyVersion
    <3> HIDE DEF y, Key
    <3>6. Visible(view, v)
      BY <3>1, Zenon
    <3>7. /\ y \in Outcome(view, views, x.db, x.next, {t})
          /\ y.ok => \A w \in x.db.rows[t] : w.id # v.id => w \in y.db.rows[t]
      <4> DEFINE e == x.db
                 k == x.next
                 new == Key(v)
      <4> HIDE DEF e, k, new
      <4>1. y = UpdateRow(e, k, t, v, new, ref, view)
        BY <3>2, Zenon DEF e, k, new
      <4>2. Fits(view, views, e, k) /\ v \in e.rows[t] /\ new \in KeyValues
        BY <3>3, <3>4, <3>5, Zenon DEF e, k, new
      <4>3. /\ y \in Outcome(view, views, e, k, {t})
            /\ y.ok => \A w \in e.rows[t] : w.id # v.id => w \in y.db.rows[t]
        BY <4>1, <4>2, <3>6, UpdateFits, Zenon
      <4> QED
        BY <4>3, Zenon DEF e, k
    <3>8. y.ok => \A w \in x.db.rows[t] : w.id # i => w \in y.db.rows[t]
      BY <3>1, <3>7, Zenon
    <3> QED
      BY <1>2, <1>3, <2>2, <3>7, <3>8, ProgressStep, Zenon DEF y
  <2> QED
    BY <2>1, <2>2, Zenon
<1> HIDE DEF Step
<1>5. Yields(d, n) \in T[0]
  BY <1>3, ProgressBegins, Zenon
<1>6. \A i \in 0..MaxRowId : T[i] \subseteq AnyResult
  BY Zenon DEF Progress, Outcome
<1>7. \A i \in 1..MaxRowId : \A x \in T[i - 1] : Step(i, x) \in T[i]
  BY <1>3, <1>4, Zenon
<1>8. \A i \in 1..MaxRowId : \A x \in T[i - 1] : F[i][x] = Step(i, x)
  BY <1>3, <1>6, Zenon
<1> HIDE DEF T, F
<1>9. \A i \in 1..MaxRowId : \A x \in T[i - 1] : F[i][x] \in T[i]
  BY <1>7, <1>8, Zenon
<1>10. PICK g : /\ IsFold(g, MaxRowId, Yields(d, n), F)
                /\ \A i \in 0..MaxRowId : g[i] \in T[i]
  BY <1>2, <1>5, <1>9, FoldIn, Zenon
<1>11. Is(g)
  <2>1. ASSUME NEW i \in 0..MaxRowId
        PROVE  (IF i = 0 THEN Yields(d, n) ELSE F[i][g[i - 1]])
                  = (IF i = 0 THEN Yields(d, n) ELSE Step(i, g[i - 1]))
    BY <1>3, <1>8, <1>10, Zenon
  <2> QED
    BY <1>10, <2>1, Zenon DEF IsFold
<1>12. Is(CHOOSE h : Is(h))
  BY <1>11, Zenon
<1> DEFINE run == CHOOSE h : Is(h)
<1>13. run[0] = Yields(d, n) /\ \A i \in 1..MaxRowId : run[i] = Step(i, run[i - 1])
  <2>1. run = [i \in 0..MaxRowId |-> IF i = 0 THEN Yields(d, n) ELSE Step(i, run[i - 1])]
    BY <1>12, Zenon
  <2> HIDE DEF run
  <2> QED
    BY <1>3, <2>1, Zenon
<1>14. UpdateRows(d, n, t, rows, key, ref, view) = run[MaxRowId]
  BY <1>1, Zenon
<1> HIDE DEF run, Is
<1>15. \A i \in 0..MaxRowId : run[i] \in T[i]
  <2>1. run[0] \in T[0]
    BY <1>5, <1>13, Zenon
  <2>2. \A i \in 1..MaxRowId : run[i - 1] \in T[i - 1] => run[i] \in T[i]
    BY <1>7, <1>13, Zenon
  <2> QED
    BY <1>2, <2>1, <2>2, FoldHolds, Zenon
<1>16. \A i \in 0..MaxRowId : run[i] \in Progress(view, views, d, n, {t}, t, rows, i)
  BY <1>3, <1>15, Zenon DEF T
<1>17. \A i \in 1..MaxRowId : run[i] = UpdateAt(run[i - 1], t, rows, i, key, ref, view)
  BY <1>13, Zenon DEF Step
<1>18. UpdateRan(run, views, d, n, t, rows, key, ref, view)
  BY <1>13, <1>14, <1>16, <1>17, Zenon DEF UpdateRan
<1> QED
  BY <1>18, Zenon

LEMMA UpdateRowsFit ==
  ASSUME NEW c \in Clients, NEW view, view = View(c), NEW views, Sole(view, views),
         NEW d, NEW n, Fits(view, views, d, n), NEW t \in Tables, Modifies(c, t), Updated(t),
         NEW rows, rows \subseteq d.rows[t], \A v \in rows : Visible(view, v),
         NEW key \in KeyValues \cup {Same}, NEW ref \in KeyValues \cup {Null}
  PROVE  UpdateRows(d, n, t, rows, key, ref, view) \in Outcome(view, views, d, n, {t})
<1>1. MaxRowId \in 0..MaxRowId
  BY Numbers
<1>2. PICK run : UpdateRan(run, views, d, n, t, rows, key, ref, view)
  BY UpdateRuns, Zenon
<1> QED
  BY <1>1, <1>2, Zenon DEF UpdateRan, Progress

\* DELETE, for one row with the result of the actions on its children.
Finished(d, n, t, v, view, acted) ==
    IF ~NoConflict(v, view) THEN Fails(d, n)
    ELSE IF acted.ok THEN Yields(Tombstone(acted.db, t, v, view), acted.next)
    ELSE acted

LEMMA FinishFits ==
  ASSUME NEW c \in Clients, NEW view, view = View(c), NEW views, Sole(view, views),
         NEW d, NEW n, Fits(view, views, d, n), NEW t \in Tables, Modifies(c, t),
         NEW v, v \in d.rows[t], Visible(view, v),
         NEW below, t \notin below, NEW acted \in Outcome(view, views, d, n, below),
         NEW r, r = Finished(d, n, t, v, view, acted)
  PROVE  /\ r \in Outcome(view, views, d, n, below \cup {t})
         /\ r.ok => \A w \in d.rows[t] : w.id # v.id => w \in r.db.rows[t]
<1>1. d \in AnyDb /\ n \in Nat \ {0} /\ n <= n
  BY DEF Fits, Good
<1>2. CASE ~NoConflict(v, view)
  <2>1. r = Fails(d, n)
    BY <1>2, Zenon DEF Finished
  <2>2. r \in AnyResult /\ ~r.ok /\ n <= r.next
    BY <1>1, <2>1, ResultParts, ResultTypes
  <2> QED
    BY <2>2, Zenon DEF Outcome
<1>3. CASE NoConflict(v, view) /\ ~acted.ok
  <2>1. r = acted
    BY <1>3, Zenon DEF Finished
  <2> QED
    BY <1>3, <2>1, Zenon DEF Outcome
<1>4. CASE NoConflict(v, view) /\ acted.ok
  <2> DEFINE a == acted.db
             k == acted.next
             e == Tombstone(a, t, v, view)
  <2>1. r = Yields(e, k)
    BY <1>4, Zenon DEF Finished
  <2>2. /\ n <= k /\ Fits(view, views, a, k) /\ a.tables = d.tables
        /\ \A u \in Tables \ below : a.rows[u] = d.rows[u]
    BY <1>4, Zenon DEF Outcome
  <2> HIDE DEF a, k
  <2>3. a.rows[t] = d.rows[t] /\ v \in a.rows[t]
    BY <2>2, Zenon
  <2>4. Fits(view, views, e, k)
    BY <1>4, <2>2, <2>3, MarkFits, Zenon
  <2>5. a \in AnyDb /\ k \in Nat \ {0} /\ view.tx \in TxIds
    BY <2>2 DEF Fits, Good, Sole
  <2>6. /\ e \in AnyDb /\ e.tables = a.tables
        /\ e.rows[t] = (a.rows[t] \ {v}) \cup {Marked(v, view)}
        /\ \A u \in Tables : u # t => e.rows[u] = a.rows[u]
    BY <2>3, <2>5, TombstoneParts
  <2> HIDE DEF e
  <2>7. r \in AnyResult /\ r.db = e /\ r.next = k
    BY <2>1, <2>5, <2>6, ResultParts, ResultTypes
  <2>8. \A u \in Tables \ (below \cup {t}) : e.rows[u] = d.rows[u]
    BY <2>2, <2>6, Zenon
  <2>9. e.tables = d.tables
    BY <2>2, <2>6, Zenon
  <2>10. r \in Outcome(view, views, d, n, below \cup {t})
    BY <2>2, <2>4, <2>7, <2>8, <2>9, Zenon DEF Outcome
  <2>11. \A w \in d.rows[t] : w.id # v.id => w \in e.rows[t]
    BY <2>3, <2>6, Zenon
  <2> QED
    BY <2>7, <2>10, <2>11, Zenon
<1> QED
  BY <1>2, <1>3, <1>4, Zenon

\* DELETE, for the row at the ID i.
DeleteAt(x, t, rows, i, view, acted) ==
    IF x.ok /\ \E v \in rows : v.id = i
    THEN Finished(x.db, x.next, t, Nth(rows, i), view, acted) ELSE x

LEMMA DeleteStep ==
  ASSUME NEW c \in Clients, NEW view, view = View(c), NEW views, Sole(view, views),
         NEW d, NEW n \in Nat, NEW t \in Tables, Modifies(c, t),
         NEW rows, rows \subseteq AnyVersion, \A v \in rows : Visible(view, v),
         NEW below, t \notin below, NEW i \in Nat \ {0},
         NEW x \in Progress(view, views, d, n, below \cup {t}, t, rows, i - 1), NEW acted,
         x.ok /\ (\E v \in rows : v.id = i) => acted \in Outcome(view, views, x.db, x.next, below),
         NEW y, y = DeleteAt(x, t, rows, i, view, acted)
  PROVE  y \in Progress(view, views, d, n, below \cup {t}, t, rows, i)
<1>1. CASE ~(x.ok /\ \E v \in rows : v.id = i)
  <2>1. y = x /\ (x.ok => \A v \in rows : v.id # i)
    BY <1>1, Zenon DEF DeleteAt
  <2> QED
    BY <2>1, ProgressStep, Zenon
<1>2. CASE x.ok /\ \E v \in rows : v.id = i
  <2> DEFINE v == Nth(rows, i)
             e == x.db
             k == x.next
  <2>1. v \in rows /\ v.id = i
    BY <1>2, Zenon DEF Nth
  <2>2. y = Finished(e, k, t, v, view, acted) /\ acted \in Outcome(view, views, e, k, below)
    BY <1>2, Zenon DEF DeleteAt
  <2>3. Fits(view, views, e, k)
    BY <1>2, Zenon DEF Progress, Outcome
  <2>4. v \in e.rows[t]
    <3>1. i > i - 1
      OBVIOUS
    <3>2. \A w \in rows : w.id > i - 1 => w \in x.db.rows[t]
      BY <1>2, Zenon DEF Progress
    <3> QED
      BY <2>1, <3>1, <3>2, Zenon
  <2> HIDE DEF v, e, k
  <2>5. Visible(view, v)
    BY <2>1, Zenon
  <2>6. /\ y \in Outcome(view, views, e, k, below \cup {t})
        /\ y.ok => \A w \in e.rows[t] : w.id # v.id => w \in y.db.rows[t]
    BY <2>2, <2>3, <2>4, <2>5, FinishFits, SMTT(30)
  <2>7. /\ x.ok /\ y \in Outcome(view, views, x.db, x.next, below \cup {t})
        /\ y.ok => \A w \in x.db.rows[t] : w.id # i => w \in y.db.rows[t]
    BY <1>2, <2>1, <2>6, Zenon DEF e, k
  <2> QED
    BY <2>7, ProgressStep, Zenon
<1> QED
  BY <1>1, <1>2, Zenon

\* The count of a table changes nothing else.
LEMMA CountNat == ASSUME NEW a \in Nat, NEW b \in Nat PROVE Max({0, a - b}) \in Nat
<1> DEFINE S == {0, a - b}
           m == IF a - b >= 0 THEN a - b ELSE 0
<1>1. m \in S /\ \A y \in S : m >= y
  OBVIOUS
<1>2. PICK x : x = Max(S) /\ x \in S /\ \A y \in S : x >= y
  BY <1>1, Zenon DEF Max
<1> QED
  BY <1>2

LEMMA CountFits ==
  ASSUME NEW view, NEW views, NEW d, NEW n, NEW moved, NEW t \in Tables, NEW k \in Nat,
         NEW x \in Outcome(view, views, d, n, moved), x.ok
  PROVE  [x EXCEPT !.db.row_count[t] = k] \in Outcome(view, views, d, n, moved)
<1> DEFINE y == [x EXCEPT !.db.row_count[t] = k]
           e == x.db
           f == [e EXCEPT !.row_count[t] = k]
<1>1. x \in AnyResult /\ n <= x.next
  BY Zenon DEF Outcome
<1>2. y.ok /\ y.next = x.next /\ y.db = f
  BY <1>1 DEF AnyResult
<1>3. /\ e \in AnyDb /\ f \in AnyDb /\ f.tables = e.tables /\ f.rows = e.rows
      /\ f.pk = e.pk /\ f.fk = e.fk
  BY <1>1 DEF AnyResult, AnyDb
<1>4. y \in AnyResult
  <2>1. ASSUME NEW g \in AnyDb PROVE [x EXCEPT !.db = g] \in AnyResult
    BY <1>1 DEF AnyResult
  <2>2. y = [x EXCEPT !.db = f]
    BY <1>1 DEF AnyResult
  <2> HIDE DEF f
  <2> QED
    BY <1>3, <2>1, <2>2, Zenon
<1> HIDE DEF y, f
<1>5. Fits(view, views, e, x.next) /\ e.tables = d.tables
      /\ \A u \in Tables \ moved : e.rows[u] = d.rows[u]
  BY Zenon DEF Outcome
<1> HIDE DEF e
<1>6. Fits(view, views, f, x.next)
  <2>1. Good(f, x.next, view)
    <3>1. Good(e, x.next, view)
      BY <1>5, Zenon DEF Fits
    <3>2. Entries(f)
      BY <1>3, <3>1, Zenon DEF Good, Entries
    <3>3. Ids(f, x.next) /\ Stamps(f, view)
      BY <1>3, <3>1, Zenon DEF Good, Ids, Stamps
    <3> QED
      BY <1>3, <3>1, <3>2, <3>3, Zenon DEF Good
  <2>2. OneModifier => KeysApart(f, views)
    BY <1>3, <1>5, Zenon DEF Fits, KeysApart
  <2>3. OneModifier => Owners(f)
    BY <1>3, <1>5, Zenon DEF Fits, Owners
  <2> QED
    BY <2>1, <2>2, <2>3, Zenon DEF Fits
<1>7. y \in Outcome(view, views, d, n, moved)
  BY <1>1, <1>2, <1>3, <1>4, <1>5, <1>6, Zenon DEF Outcome
<1> QED
  BY <1>7 DEF y

LEMMA YieldsFits ==
  ASSUME NEW view, NEW views, NEW d, NEW n, Fits(view, views, d, n), NEW moved
  PROVE  /\ Yields(d, n) \in Outcome(view, views, d, n, moved)
         /\ Fails(d, n) \in Outcome(view, views, d, n, moved)
<1>1. d \in AnyDb /\ n \in Nat \ {0} /\ n <= n
  BY DEF Fits, Good
<1>2. ASSUME NEW y \in AnyResult, y.next = n, y.db = d
      PROVE  y \in Outcome(view, views, d, n, moved)
  BY <1>1, <1>2, Zenon DEF Outcome
<1>3. Yields(d, n) \in AnyResult /\ Fails(d, n) \in AnyResult
  BY <1>1, ResultTypes, Zenon
<1> QED
  BY <1>2, <1>3, ResultParts

\* A statement leaves a table's count in step.
Counted(x, t, rows) ==
    IF x.ok THEN [x EXCEPT !.db.row_count[t] = Max({0, @ - Cardinality(rows)})] ELSE x

LEMMA CountedFits ==
  ASSUME NEW view, NEW views, NEW d, NEW n, NEW moved, NEW t \in Tables,
         NEW rows, IsFiniteSet(rows), NEW x \in Outcome(view, views, d, n, moved)
  PROVE  Counted(x, t, rows) \in Outcome(view, views, d, n, moved)
<1>1. CASE ~x.ok
  BY <1>1, Zenon DEF Counted
<1>2. CASE x.ok
  <2> DEFINE k == Max({0, x.db.row_count[t] - Cardinality(rows)})
  <2>1. x.db \in AnyDb
    BY DEF Outcome, AnyResult
  <2>2. x.db.row_count[t] \in Nat /\ Cardinality(rows) \in Nat
    BY <2>1, DbParts, FS_CardinalityType, Zenon
  <2>3. k \in Nat
    BY <2>2, CountNat, Zenon
  <2>4. Counted(x, t, rows) = [x EXCEPT !.db.row_count[t] = k]
    BY <1>2 DEF Counted
  <2> HIDE DEF k
  <2>5. [x EXCEPT !.db.row_count[t] = k] \in Outcome(view, views, d, n, moved)
    BY <1>2, <2>3, CountFits
  <2> QED
    BY <2>4, <2>5, Zenon
<1> QED
  BY <1>1, <1>2, Zenon

\* The actions on the children of a grandchild, of which there are none.
GrandActs(x, key, view) == Yields(x.db, x.next)

GrandRan(run, views, d, n, rows, view) ==
    /\ run[0] = Yields(d, n)
    /\ \A i \in 1..MaxRowId :
          run[i] = DeleteAt(run[i - 1], "grand", rows, i, view,
                            GrandActs(run[i - 1], Nth(rows, i).key, view))
    /\ \A i \in 0..MaxRowId :
          run[i] \in Progress(view, views, d, n, {"grand"}, "grand", rows, i)
    /\ DeleteGrand(d, n, rows, view) = Counted(run[MaxRowId], "grand", rows)

LEMMA DeleteGrandRuns ==
  ASSUME NEW c \in Clients, NEW view, view = View(c), NEW views, Sole(view, views),
         NEW d, NEW n, Fits(view, views, d, n), Modifies(c, "grand"),
         NEW rows, rows \subseteq d.rows["grand"], \A v \in rows : Visible(view, v)
  PROVE  \E run : GrandRan(run, views, d, n, rows, view)
<1> DEFINE t == "grand"
           below == {}
           Act(x, key) == GrandActs(x, key, view)
           Step(i, x) == DeleteAt(x, t, rows, i, view, Act(x, Nth(rows, i).key))
           Is(g) == g = [i \in 0..MaxRowId |-> IF i = 0 THEN Yields(d, n) ELSE Step(i, g[i - 1])]
           T == [i \in 0..MaxRowId |-> Progress(view, views, d, n, below \cup {t}, t, rows, i)]
           F == [i \in 1..MaxRowId |-> [x \in AnyResult |-> Step(i, x)]]
<1>1. DeleteGrand(d, n, rows, view) = Counted((CHOOSE g : Is(g))[MaxRowId], t, rows)
  BY DEF DeleteGrand, DeleteRows, DeleteRow, ForEach, Counted, DeleteAt, Finished, Nth, GrandActs
<1> HIDE DEF Act
<1>2. /\ d \in AnyDb /\ n \in Nat /\ MaxRowId \in Nat /\ rows \subseteq AnyVersion
      /\ IsFiniteSet(rows) /\ t \in Tables /\ t \notin below
  <2>1. d \in AnyDb /\ n \in Nat /\ t \in Tables /\ t \notin below
    BY DEF Fits, Good, Tables
  <2>2. d.rows[t] \subseteq AnyVersion /\ IsFiniteSet(d.rows[t])
    BY <2>1, DbParts, Zenon
  <2> QED
    BY <2>1, <2>2, Numbers, FS_Subset, Zenon
<1>3. /\ 0 \in 0..MaxRowId /\ MaxRowId \in 0..MaxRowId
      /\ \A i \in 1..MaxRowId : /\ i \in 0..MaxRowId /\ i - 1 \in 0..MaxRowId
                                /\ i # 0 /\ i \in Nat \ {0}
      /\ \A i \in 0..MaxRowId : i # 0 => i \in 1..MaxRowId
  BY <1>2
<1>4. ASSUME NEW i \in 1..MaxRowId,
             NEW x \in Progress(view, views, d, n, below \cup {t}, t, rows, i - 1)
      PROVE  Step(i, x) \in Progress(view, views, d, n, below \cup {t}, t, rows, i)
  <2> DEFINE acted == Act(x, Nth(rows, i).key)
  <2>1. ASSUME x.ok, \E v \in rows : v.id = i
        PROVE  acted \in Outcome(view, views, x.db, x.next, below)
    <3>1. Fits(view, views, x.db, x.next)
      BY <2>1, Zenon DEF Progress, Outcome
    <3>2. Act(x, Nth(rows, i).key) = Yields(x.db, x.next)
      BY Zenon DEF Act, GrandActs
    <3> QED
      BY <3>1, <3>2, YieldsFits, Zenon
  <2> DEFINE y == DeleteAt(x, t, rows, i, view, acted)
  <2>2. Modifies(c, t)
    BY Zenon
  <2> HIDE DEF acted, t, below
  <2>3. x.ok /\ (\E v \in rows : v.id = i) => acted \in Outcome(view, views, x.db, x.next, below)
    BY <2>1, Zenon
  <2>4. y = DeleteAt(x, t, rows, i, view, acted)
    BY Zenon
  <2>5. i \in Nat \ {0}
    BY <1>3, Zenon
  <2> HIDE DEF y
  <2>6. y \in Progress(view, views, d, n, below \cup {t}, t, rows, i)
    BY <1>2, <2>2, <2>3, <2>4, <2>5, DeleteStep
  <2> QED
    BY <2>6, Zenon DEF y, acted
<1> HIDE DEF Step, t, below
<1>5. Yields(d, n) \in T[0]
  <2>1. rows \subseteq d.rows[t]
    BY Zenon DEF t
  <2> QED
    BY <1>2, <1>3, <2>1, ProgressBegins, Zenon
<1>6. \A i \in 0..MaxRowId : T[i] \subseteq AnyResult
  BY Zenon DEF Progress, Outcome
<1>7. \A i \in 1..MaxRowId : \A x \in T[i - 1] : Step(i, x) \in T[i]
  BY <1>3, <1>4, Zenon
<1>8. \A i \in 1..MaxRowId : \A x \in T[i - 1] : F[i][x] = Step(i, x)
  BY <1>3, <1>6, Zenon
<1> HIDE DEF T, F
<1>9. \A i \in 1..MaxRowId : \A x \in T[i - 1] : F[i][x] \in T[i]
  BY <1>7, <1>8, Zenon
<1>10. PICK g : /\ IsFold(g, MaxRowId, Yields(d, n), F)
                /\ \A i \in 0..MaxRowId : g[i] \in T[i]
  BY <1>2, <1>5, <1>9, FoldIn, Zenon
<1>11. Is(g)
  <2>1. ASSUME NEW i \in 0..MaxRowId
        PROVE  (IF i = 0 THEN Yields(d, n) ELSE F[i][g[i - 1]])
                  = (IF i = 0 THEN Yields(d, n) ELSE Step(i, g[i - 1]))
    BY <1>3, <1>8, <1>10, Zenon
  <2> QED
    BY <1>10, <2>1, Zenon DEF IsFold
<1>12. Is(CHOOSE h : Is(h))
  BY <1>11, Zenon
<1> DEFINE run == CHOOSE h : Is(h)
<1>13. run[0] = Yields(d, n) /\ \A i \in 1..MaxRowId : run[i] = Step(i, run[i - 1])
  <2>1. run = [i \in 0..MaxRowId |-> IF i = 0 THEN Yields(d, n) ELSE Step(i, run[i - 1])]
    BY <1>12, Zenon
  <2> HIDE DEF run
  <2> QED
    BY <1>3, <2>1, Zenon
<1>14. DeleteGrand(d, n, rows, view) = Counted(run[MaxRowId], t, rows)
  BY <1>1, Zenon
<1> HIDE DEF run, Is
<1>15. \A i \in 0..MaxRowId : run[i] \in T[i]
  <2>1. run[0] \in T[0]
    BY <1>5, <1>13, Zenon
  <2>2. \A i \in 1..MaxRowId : run[i - 1] \in T[i - 1] => run[i] \in T[i]
    BY <1>7, <1>13, Zenon
  <2> QED
    BY <1>2, <2>1, <2>2, FoldHolds, Zenon
<1>16. below \cup {t} = {"grand"}
  BY DEF t, below
<1>17. \A i \in 0..MaxRowId : run[i] \in Progress(view, views, d, n, {"grand"}, t, rows, i)
  BY <1>15, <1>16, Zenon DEF T
<1>18. \A i \in 1..MaxRowId :
          run[i] = DeleteAt(run[i - 1], t, rows, i, view,
                            GrandActs(run[i - 1], Nth(rows, i).key, view))
  BY <1>13, Zenon DEF Step, Act
<1>19. GrandRan(run, views, d, n, rows, view)
  BY <1>13, <1>14, <1>17, <1>18, Zenon DEF t, GrandRan
<1> QED
  BY <1>19, Zenon

LEMMA DeleteGrandFits ==
  ASSUME NEW c \in Clients, NEW view, view = View(c), NEW views, Sole(view, views),
         NEW d, NEW n, Fits(view, views, d, n), Modifies(c, "grand"),
         NEW rows, rows \subseteq d.rows["grand"], \A v \in rows : Visible(view, v)
  PROVE  DeleteGrand(d, n, rows, view) \in Outcome(view, views, d, n, {"grand"})
<1>1. MaxRowId \in 0..MaxRowId
  BY Numbers
<1>2. PICK run : GrandRan(run, views, d, n, rows, view)
  BY DeleteGrandRuns, Zenon
<1>3. run[MaxRowId] \in Outcome(view, views, d, n, {"grand"})
  BY <1>1, <1>2, Zenon DEF GrandRan, Progress
<1>4. "grand" \in Tables /\ IsFiniteSet(rows)
  <2>1. "grand" \in Tables /\ d \in AnyDb
    BY DEF Fits, Good, Tables
  <2>2. IsFiniteSet(d.rows["grand"])
    BY <2>1, DbParts, Zenon
  <2> QED
    BY <2>1, <2>2, FS_Subset, Zenon
<1> QED
  BY <1>2, <1>3, <1>4, CountedFits, Zenon DEF GrandRan

\* The rows that refer to a key, and the actions on them.
Referrers(d, u, key, view) == {w \in SeenRows(d, u, view) : w.ref = key}
Acted(d, n, u, key, view, cascaded) ==
    IF u \notin d.tables THEN Yields(d, n)
    ELSE CASE constraint_load.on_delete[u] = "cascade" -> cascaded
           [] constraint_load.on_delete[u] = "set_null" /\ ~NotNull(u) ->
                 UpdateRows(d, n, u, Referrers(d, u, key, view), Same, Null, view)
           [] OTHER -> IF ScanChildForFkValue(d, u, key) THEN Fails(d, n) ELSE Yields(d, n)

LEMMA ActedFits ==
  ASSUME NEW c \in Clients, NEW view, view = View(c), NEW views, Sole(view, views),
         NEW d, NEW n, Fits(view, views, d, n), NEW u \in Children, Modifies(c, u), NEW key,
         NEW moved, u \in moved, NEW cascaded \in Outcome(view, views, d, n, moved),
         Referrers(d, u, key, view) \subseteq d.rows[u],
         \A w \in Referrers(d, u, key, view) : Visible(view, w)
  PROVE  Acted(d, n, u, key, view, cascaded) \in Outcome(view, views, d, n, moved)
<1> DEFINE refer == Referrers(d, u, key, view)
           updated == UpdateRows(d, n, u, refer, Same, Null, view)
           a == Acted(d, n, u, key, view, cascaded)
<1>1. \/ a = cascaded \/ a = Yields(d, n) \/ a = Fails(d, n)
      \/ constraint_load.on_delete[u] = "set_null" /\ a = updated
  BY DEF Acted
<1> HIDE DEF a
<1>2. CASE a = cascaded
  BY <1>2, Zenon DEF a
<1>3. CASE a = Yields(d, n) \/ a = Fails(d, n)
  BY <1>3, YieldsFits, Zenon DEF a
<1>4. CASE constraint_load.on_delete[u] = "set_null" /\ a = updated
  <2>1. Updated(u)
    BY <1>4, Zenon DEF Updated
  <2>2. u \in Tables /\ Same \in KeyValues \cup {Same} /\ Null \in KeyValues \cup {Null}
    BY DEF Children, Tables
  <2> HIDE DEF refer
  <2>3. refer \subseteq d.rows[u] /\ \A w \in refer : Visible(view, w)
    BY Zenon DEF refer
  <2>4. updated \in Outcome(view, views, d, n, {u})
    BY <2>1, <2>2, <2>3, UpdateRowsFit, Zenon
  <2> HIDE DEF updated
  <2>5. updated \in Outcome(view, views, d, n, moved)
    BY <2>4, Zenon DEF Outcome
  <2> QED
    BY <1>4, <2>5, Zenon DEF a
<1> QED
  BY <1>1, <1>2, <1>3, <1>4, Zenon

ChildActs(x, key, view) ==
    Acted(x.db, x.next, "grand", key, view,
          DeleteGrand(x.db, x.next, Referrers(x.db, "grand", key, view), view))

LEMMA ChildActsFit ==
  ASSUME NEW c \in Clients, NEW view, view = View(c), NEW views, Sole(view, views),
         NEW x, Fits(view, views, x.db, x.next), Modifies(c, "grand"), NEW key
  PROVE  ChildActs(x, key, view) \in Outcome(view, views, x.db, x.next, {"grand"})
<1> DEFINE e == x.db
           k == x.next
           refer == Referrers(e, "grand", key, view)
           below == {"grand"}
<1>1. ChildActs(x, key, view) = Acted(e, k, "grand", key, view, DeleteGrand(e, k, refer, view))
  BY Zenon DEF ChildActs
<1>2. Fits(view, views, e, k)
  OBVIOUS
<1> HIDE DEF e, k
<1>3. refer \subseteq e.rows["grand"] /\ \A w \in refer : Visible(view, w)
  BY Zenon DEF Referrers, SeenRows
<1> HIDE DEF refer
<1>4. DeleteGrand(e, k, refer, view) \in Outcome(view, views, e, k, below)
  BY <1>2, <1>3, DeleteGrandFits, Zenon
<1>5. "grand" \in Children /\ "grand" \in below /\ Modifies(c, "grand")
  BY DEF Children
<1> HIDE DEF below
<1>6. Acted(e, k, "grand", key, view, DeleteGrand(e, k, refer, view))
         \in Outcome(view, views, e, k, below)
  BY <1>2, <1>3, <1>4, <1>5, ActedFits, Zenon DEF refer
<1> QED
  BY <1>1, <1>6, Zenon DEF e, k, below

ChildRan(run, views, d, n, rows, view) ==
    /\ run[0] = Yields(d, n)
    /\ \A i \in 1..MaxRowId :
          run[i] = DeleteAt(run[i - 1], "child", rows, i, view,
                            ChildActs(run[i - 1], Nth(rows, i).key, view))
    /\ \A i \in 0..MaxRowId :
          run[i] \in Progress(view, views, d, n, {"child", "grand"}, "child", rows, i)
    /\ DeleteChild(d, n, rows, view) = Counted(run[MaxRowId], "child", rows)

LEMMA DeleteChildRuns ==
  ASSUME NEW c \in Clients, NEW view, view = View(c), NEW views, Sole(view, views),
         NEW d, NEW n, Fits(view, views, d, n), Modifies(c, "child"), Modifies(c, "grand"),
         NEW rows, rows \subseteq d.rows["child"], \A v \in rows : Visible(view, v)
  PROVE  \E run : ChildRan(run, views, d, n, rows, view)
<1> DEFINE t == "child"
           below == {"grand"}
           Act(x, key) == ChildActs(x, key, view)
           Step(i, x) == DeleteAt(x, t, rows, i, view, Act(x, Nth(rows, i).key))
           Is(g) == g = [i \in 0..MaxRowId |-> IF i = 0 THEN Yields(d, n) ELSE Step(i, g[i - 1])]
           T == [i \in 0..MaxRowId |-> Progress(view, views, d, n, below \cup {t}, t, rows, i)]
           F == [i \in 1..MaxRowId |-> [x \in AnyResult |-> Step(i, x)]]
<1>1. DeleteChild(d, n, rows, view) = Counted((CHOOSE g : Is(g))[MaxRowId], t, rows)
  BY DEF DeleteChild, DeleteRows, DeleteRow, ForEach, Counted, DeleteAt, Finished, Nth, DeleteActions,
         Acted, Referrers, ChildActs
<1> HIDE DEF Act
<1>2. /\ d \in AnyDb /\ n \in Nat /\ MaxRowId \in Nat /\ rows \subseteq AnyVersion
      /\ IsFiniteSet(rows) /\ t \in Tables /\ t \notin below
  <2>1. d \in AnyDb /\ n \in Nat /\ t \in Tables /\ t \notin below
    BY DEF Fits, Good, Tables
  <2>2. d.rows[t] \subseteq AnyVersion /\ IsFiniteSet(d.rows[t])
    BY <2>1, DbParts, Zenon
  <2> QED
    BY <2>1, <2>2, Numbers, FS_Subset, Zenon
<1>3. /\ 0 \in 0..MaxRowId /\ MaxRowId \in 0..MaxRowId
      /\ \A i \in 1..MaxRowId : /\ i \in 0..MaxRowId /\ i - 1 \in 0..MaxRowId
                                /\ i # 0 /\ i \in Nat \ {0}
      /\ \A i \in 0..MaxRowId : i # 0 => i \in 1..MaxRowId
  BY <1>2
<1>4. ASSUME NEW i \in 1..MaxRowId,
             NEW x \in Progress(view, views, d, n, below \cup {t}, t, rows, i - 1)
      PROVE  Step(i, x) \in Progress(view, views, d, n, below \cup {t}, t, rows, i)
  <2> DEFINE acted == Act(x, Nth(rows, i).key)
  <2>1. ASSUME x.ok, \E v \in rows : v.id = i
        PROVE  acted \in Outcome(view, views, x.db, x.next, below)
    <3>1. Fits(view, views, x.db, x.next)
      BY <2>1, Zenon DEF Progress, Outcome
    <3> QED
      BY <3>1, ChildActsFit, Zenon DEF Act
  <2> DEFINE y == DeleteAt(x, t, rows, i, view, acted)
  <2>2. Modifies(c, t)
    BY Zenon
  <2> HIDE DEF acted, t, below
  <2>3. x.ok /\ (\E v \in rows : v.id = i) => acted \in Outcome(view, views, x.db, x.next, below)
    BY <2>1, Zenon
  <2>4. y = DeleteAt(x, t, rows, i, view, acted)
    BY Zenon
  <2>5. i \in Nat \ {0}
    BY <1>3, Zenon
  <2> HIDE DEF y
  <2>6. y \in Progress(view, views, d, n, below \cup {t}, t, rows, i)
    BY <1>2, <2>2, <2>3, <2>4, <2>5, DeleteStep
  <2> QED
    BY <2>6, Zenon DEF y, acted
<1> HIDE DEF Step, t, below
<1>5. Yields(d, n) \in T[0]
  <2>1. rows \subseteq d.rows[t]
    BY Zenon DEF t
  <2> QED
    BY <1>2, <1>3, <2>1, ProgressBegins, Zenon
<1>6. \A i \in 0..MaxRowId : T[i] \subseteq AnyResult
  BY Zenon DEF Progress, Outcome
<1>7. \A i \in 1..MaxRowId : \A x \in T[i - 1] : Step(i, x) \in T[i]
  BY <1>3, <1>4, Zenon
<1>8. \A i \in 1..MaxRowId : \A x \in T[i - 1] : F[i][x] = Step(i, x)
  BY <1>3, <1>6, Zenon
<1> HIDE DEF T, F
<1>9. \A i \in 1..MaxRowId : \A x \in T[i - 1] : F[i][x] \in T[i]
  BY <1>7, <1>8, Zenon
<1>10. PICK g : /\ IsFold(g, MaxRowId, Yields(d, n), F)
                /\ \A i \in 0..MaxRowId : g[i] \in T[i]
  BY <1>2, <1>5, <1>9, FoldIn, Zenon
<1>11. Is(g)
  <2>1. ASSUME NEW i \in 0..MaxRowId
        PROVE  (IF i = 0 THEN Yields(d, n) ELSE F[i][g[i - 1]])
                  = (IF i = 0 THEN Yields(d, n) ELSE Step(i, g[i - 1]))
    BY <1>3, <1>8, <1>10, Zenon
  <2> QED
    BY <1>10, <2>1, Zenon DEF IsFold
<1>12. Is(CHOOSE h : Is(h))
  BY <1>11, Zenon
<1> DEFINE run == CHOOSE h : Is(h)
<1>13. run[0] = Yields(d, n) /\ \A i \in 1..MaxRowId : run[i] = Step(i, run[i - 1])
  <2>1. run = [i \in 0..MaxRowId |-> IF i = 0 THEN Yields(d, n) ELSE Step(i, run[i - 1])]
    BY <1>12, Zenon
  <2> HIDE DEF run
  <2> QED
    BY <1>3, <2>1, Zenon
<1>14. DeleteChild(d, n, rows, view) = Counted(run[MaxRowId], t, rows)
  BY <1>1, Zenon
<1> HIDE DEF run, Is
<1>15. \A i \in 0..MaxRowId : run[i] \in T[i]
  <2>1. run[0] \in T[0]
    BY <1>5, <1>13, Zenon
  <2>2. \A i \in 1..MaxRowId : run[i - 1] \in T[i - 1] => run[i] \in T[i]
    BY <1>7, <1>13, Zenon
  <2> QED
    BY <1>2, <2>1, <2>2, FoldHolds, Zenon
<1>16. below \cup {t} = {"child", "grand"}
  BY DEF t, below
<1>17. \A i \in 0..MaxRowId : run[i] \in Progress(view, views, d, n, {"child", "grand"}, t, rows, i)
  BY <1>15, <1>16, Zenon DEF T
<1>18. \A i \in 1..MaxRowId :
          run[i] = DeleteAt(run[i - 1], t, rows, i, view,
                            ChildActs(run[i - 1], Nth(rows, i).key, view))
  BY <1>13, Zenon DEF Step, Act
<1>19. ChildRan(run, views, d, n, rows, view)
  BY <1>13, <1>14, <1>17, <1>18, Zenon DEF t, ChildRan
<1> QED
  BY <1>19, Zenon

LEMMA DeleteChildFits ==
  ASSUME NEW c \in Clients, NEW view, view = View(c), NEW views, Sole(view, views),
         NEW d, NEW n, Fits(view, views, d, n), Modifies(c, "child"), Modifies(c, "grand"),
         NEW rows, rows \subseteq d.rows["child"], \A v \in rows : Visible(view, v)
  PROVE  DeleteChild(d, n, rows, view) \in Outcome(view, views, d, n, {"child", "grand"})
<1>1. MaxRowId \in 0..MaxRowId
  BY Numbers
<1>2. PICK run : ChildRan(run, views, d, n, rows, view)
  BY DeleteChildRuns, Zenon
<1>3. run[MaxRowId] \in Outcome(view, views, d, n, {"child", "grand"})
  BY <1>1, <1>2, Zenon DEF ChildRan, Progress
<1>4. "child" \in Tables /\ IsFiniteSet(rows)
  <2>1. "child" \in Tables /\ d \in AnyDb
    BY DEF Fits, Good, Tables
  <2>2. IsFiniteSet(d.rows["child"])
    BY <2>1, DbParts, Zenon
  <2> QED
    BY <2>1, <2>2, FS_Subset, Zenon
<1> QED
  BY <1>2, <1>3, <1>4, CountedFits, Zenon DEF ChildRan

ParentActs(x, key, view) ==
    Acted(x.db, x.next, "child", key, view,
          DeleteChild(x.db, x.next, Referrers(x.db, "child", key, view), view))

LEMMA ParentActsFit ==
  ASSUME NEW c \in Clients, NEW view, view = View(c), NEW views, Sole(view, views),
         NEW x, Fits(view, views, x.db, x.next), Modifies(c, "child"), Modifies(c, "grand"), NEW key
  PROVE  ParentActs(x, key, view) \in Outcome(view, views, x.db, x.next, {"child", "grand"})
<1> DEFINE e == x.db
           k == x.next
           refer == Referrers(e, "child", key, view)
           below == {"child", "grand"}
<1>1. ParentActs(x, key, view) = Acted(e, k, "child", key, view, DeleteChild(e, k, refer, view))
  BY Zenon DEF ParentActs
<1>2. Fits(view, views, e, k)
  OBVIOUS
<1> HIDE DEF e, k
<1>3. refer \subseteq e.rows["child"] /\ \A w \in refer : Visible(view, w)
  BY Zenon DEF Referrers, SeenRows
<1> HIDE DEF refer
<1>4. DeleteChild(e, k, refer, view) \in Outcome(view, views, e, k, below)
  BY <1>2, <1>3, DeleteChildFits, Zenon
<1>5. "child" \in Children /\ "child" \in below /\ Modifies(c, "child")
  BY DEF Children
<1> HIDE DEF below
<1>6. Acted(e, k, "child", key, view, DeleteChild(e, k, refer, view))
         \in Outcome(view, views, e, k, below)
  BY <1>2, <1>3, <1>4, <1>5, ActedFits, Zenon DEF refer
<1> QED
  BY <1>1, <1>6, Zenon DEF e, k, below

ParentRan(run, views, d, n, rows, view) ==
    /\ run[0] = Yields(d, n)
    /\ \A i \in 1..MaxRowId :
          run[i] = DeleteAt(run[i - 1], "parent", rows, i, view,
                            ParentActs(run[i - 1], Nth(rows, i).key, view))
    /\ \A i \in 0..MaxRowId :
          run[i] \in Progress(view, views, d, n, Tables, "parent", rows, i)
    /\ DeleteParent(d, n, rows, view) = Counted(run[MaxRowId], "parent", rows)

LEMMA DeleteParentRuns ==
  ASSUME NEW c \in Clients, NEW view, view = View(c), NEW views, Sole(view, views),
         NEW d, NEW n, Fits(view, views, d, n), Modifies(c, "parent"), Modifies(c, "child"),
         Modifies(c, "grand"),
         NEW rows, rows \subseteq d.rows["parent"], \A v \in rows : Visible(view, v)
  PROVE  \E run : ParentRan(run, views, d, n, rows, view)
<1> DEFINE t == "parent"
           below == {"child", "grand"}
           Act(x, key) == ParentActs(x, key, view)
           Step(i, x) == DeleteAt(x, t, rows, i, view, Act(x, Nth(rows, i).key))
           Is(g) == g = [i \in 0..MaxRowId |-> IF i = 0 THEN Yields(d, n) ELSE Step(i, g[i - 1])]
           T == [i \in 0..MaxRowId |-> Progress(view, views, d, n, below \cup {t}, t, rows, i)]
           F == [i \in 1..MaxRowId |-> [x \in AnyResult |-> Step(i, x)]]
<1>1. DeleteParent(d, n, rows, view) = Counted((CHOOSE g : Is(g))[MaxRowId], t, rows)
  BY DEF DeleteParent, DeleteRows, DeleteRow, ForEach, Counted, DeleteAt, Finished, Nth, DeleteActions,
         Acted, Referrers, ParentActs
<1> HIDE DEF Act
<1>2. /\ d \in AnyDb /\ n \in Nat /\ MaxRowId \in Nat /\ rows \subseteq AnyVersion
      /\ IsFiniteSet(rows) /\ t \in Tables /\ t \notin below
  <2>1. d \in AnyDb /\ n \in Nat /\ t \in Tables /\ t \notin below
    BY DEF Fits, Good, Tables
  <2>2. d.rows[t] \subseteq AnyVersion /\ IsFiniteSet(d.rows[t])
    BY <2>1, DbParts, Zenon
  <2> QED
    BY <2>1, <2>2, Numbers, FS_Subset, Zenon
<1>3. /\ 0 \in 0..MaxRowId /\ MaxRowId \in 0..MaxRowId
      /\ \A i \in 1..MaxRowId : /\ i \in 0..MaxRowId /\ i - 1 \in 0..MaxRowId
                                /\ i # 0 /\ i \in Nat \ {0}
      /\ \A i \in 0..MaxRowId : i # 0 => i \in 1..MaxRowId
  BY <1>2
<1>4. ASSUME NEW i \in 1..MaxRowId,
             NEW x \in Progress(view, views, d, n, below \cup {t}, t, rows, i - 1)
      PROVE  Step(i, x) \in Progress(view, views, d, n, below \cup {t}, t, rows, i)
  <2> DEFINE acted == Act(x, Nth(rows, i).key)
  <2>1. ASSUME x.ok, \E v \in rows : v.id = i
        PROVE  acted \in Outcome(view, views, x.db, x.next, below)
    <3>1. Fits(view, views, x.db, x.next)
      BY <2>1, Zenon DEF Progress, Outcome
    <3> QED
      BY <3>1, ParentActsFit, Zenon DEF Act
  <2> DEFINE y == DeleteAt(x, t, rows, i, view, acted)
  <2>2. Modifies(c, t)
    BY Zenon
  <2> HIDE DEF acted, t, below
  <2>3. x.ok /\ (\E v \in rows : v.id = i) => acted \in Outcome(view, views, x.db, x.next, below)
    BY <2>1, Zenon
  <2>4. y = DeleteAt(x, t, rows, i, view, acted)
    BY Zenon
  <2>5. i \in Nat \ {0}
    BY <1>3, Zenon
  <2> HIDE DEF y
  <2>6. y \in Progress(view, views, d, n, below \cup {t}, t, rows, i)
    BY <1>2, <2>2, <2>3, <2>4, <2>5, DeleteStep
  <2> QED
    BY <2>6, Zenon DEF y, acted
<1> HIDE DEF Step, t, below
<1>5. Yields(d, n) \in T[0]
  <2>1. rows \subseteq d.rows[t]
    BY Zenon DEF t
  <2> QED
    BY <1>2, <1>3, <2>1, ProgressBegins, Zenon
<1>6. \A i \in 0..MaxRowId : T[i] \subseteq AnyResult
  BY Zenon DEF Progress, Outcome
<1>7. \A i \in 1..MaxRowId : \A x \in T[i - 1] : Step(i, x) \in T[i]
  BY <1>3, <1>4, Zenon
<1>8. \A i \in 1..MaxRowId : \A x \in T[i - 1] : F[i][x] = Step(i, x)
  BY <1>3, <1>6, Zenon
<1> HIDE DEF T, F
<1>9. \A i \in 1..MaxRowId : \A x \in T[i - 1] : F[i][x] \in T[i]
  BY <1>7, <1>8, Zenon
<1>10. PICK g : /\ IsFold(g, MaxRowId, Yields(d, n), F)
                /\ \A i \in 0..MaxRowId : g[i] \in T[i]
  BY <1>2, <1>5, <1>9, FoldIn, Zenon
<1>11. Is(g)
  <2>1. ASSUME NEW i \in 0..MaxRowId
        PROVE  (IF i = 0 THEN Yields(d, n) ELSE F[i][g[i - 1]])
                  = (IF i = 0 THEN Yields(d, n) ELSE Step(i, g[i - 1]))
    BY <1>3, <1>8, <1>10, Zenon
  <2> QED
    BY <1>10, <2>1, Zenon DEF IsFold
<1>12. Is(CHOOSE h : Is(h))
  BY <1>11, Zenon
<1> DEFINE run == CHOOSE h : Is(h)
<1>13. run[0] = Yields(d, n) /\ \A i \in 1..MaxRowId : run[i] = Step(i, run[i - 1])
  <2>1. run = [i \in 0..MaxRowId |-> IF i = 0 THEN Yields(d, n) ELSE Step(i, run[i - 1])]
    BY <1>12, Zenon
  <2> HIDE DEF run
  <2> QED
    BY <1>3, <2>1, Zenon
<1>14. DeleteParent(d, n, rows, view) = Counted(run[MaxRowId], t, rows)
  BY <1>1, Zenon
<1> HIDE DEF run, Is
<1>15. \A i \in 0..MaxRowId : run[i] \in T[i]
  <2>1. run[0] \in T[0]
    BY <1>5, <1>13, Zenon
  <2>2. \A i \in 1..MaxRowId : run[i - 1] \in T[i - 1] => run[i] \in T[i]
    BY <1>7, <1>13, Zenon
  <2> QED
    BY <1>2, <2>1, <2>2, FoldHolds, Zenon
<1>16. below \cup {t} = Tables
  BY DEF t, below, Tables
<1>17. \A i \in 0..MaxRowId : run[i] \in Progress(view, views, d, n, Tables, t, rows, i)
  BY <1>15, <1>16, Zenon DEF T
<1>18. \A i \in 1..MaxRowId :
          run[i] = DeleteAt(run[i - 1], t, rows, i, view,
                            ParentActs(run[i - 1], Nth(rows, i).key, view))
  BY <1>13, Zenon DEF Step, Act
<1>19. ParentRan(run, views, d, n, rows, view)
  BY <1>13, <1>14, <1>17, <1>18, Zenon DEF t, ParentRan
<1> QED
  BY <1>19, Zenon

LEMMA DeleteParentFits ==
  ASSUME NEW c \in Clients, NEW view, view = View(c), NEW views, Sole(view, views),
         NEW d, NEW n, Fits(view, views, d, n), Modifies(c, "parent"), Modifies(c, "child"),
         Modifies(c, "grand"),
         NEW rows, rows \subseteq d.rows["parent"], \A v \in rows : Visible(view, v)
  PROVE  DeleteParent(d, n, rows, view) \in Outcome(view, views, d, n, Tables)
<1>1. MaxRowId \in 0..MaxRowId
  BY Numbers
<1>2. PICK run : ParentRan(run, views, d, n, rows, view)
  BY DeleteParentRuns, Zenon
<1>3. run[MaxRowId] \in Outcome(view, views, d, n, Tables)
  BY <1>1, <1>2, Zenon DEF ParentRan, Progress
<1>4. "parent" \in Tables /\ IsFiniteSet(rows)
  <2>1. "parent" \in Tables /\ d \in AnyDb
    BY DEF Fits, Good, Tables
  <2>2. IsFiniteSet(d.rows["parent"])
    BY <2>1, DbParts, Zenon
  <2> QED
    BY <2>1, <2>2, FS_Subset, Zenon
<1> QED
  BY <1>2, <1>3, <1>4, CountedFits, Zenon DEF ParentRan

LEMMA InsertFits ==
  ASSUME NEW view, NEW views, Sole(view, views), NEW d, NEW n, Fits(view, views, d, n),
         NEW t \in Tables, NEW key \in KeyValues, NEW ref \in KeyValues \cup {Null}
  PROVE  Insert(d, n, t, key, ref, view) \in Outcome(view, views, d, n, {t})
<1> DEFINE r == StoreRow(d, n, t, key, ref, view, Null)
           new == NewVersion(n, key, ref, view)
           e == r.db
<1>1. /\ d \in AnyDb /\ n \in Nat \ {0} /\ view.tx \in TxIds /\ Good(d, n, view)
      /\ Entries(d)
  BY DEF Fits, Good, Sole
<1>2. /\ r \in AnyResult /\ n <= r.next
      /\ r.ok => /\ e.tables = d.tables /\ e.rows[t] = d.rows[t] \cup {new}
                 /\ \A u \in Tables : u # t => e.rows[u] = d.rows[u]
                 /\ key = Null \/ ~IndexHasValue(d.pk[t], key)
  <2>1. d \in AnyDb /\ n \in Nat \ {0} /\ view.tx \in TxIds
    BY <1>1
  <2> QED
    BY <2>1, StoreParts
<1>3. new.key = key /\ new.tx_max = 0
  BY DEF NewVersion
<1>4. r.ok => Good(e, r.next, view)
  BY <1>1, StoreGood, Zenon
<1> HIDE DEF r, new, e
<1>5. ASSUME r.ok PROVE \A w \in d.rows[t] : w.key # key
  <2>1. key # Null
    BY Numbers DEF Null
  <2>2. ~IndexHasValue(d.pk[t], key)
    BY <1>2, <1>5, <2>1, Zenon
  <2>3. d.pk[t] = Keyed(d.rows[t])
    BY <1>1, Zenon DEF Entries
  <2>4. ASSUME NEW w \in d.rows[t] PROVE <<w.key, w.id>> \in d.pk[t]
    BY <2>3 DEF Keyed
  <2>5. ASSUME NEW w \in d.rows[t], w.key = key PROVE FALSE
    BY <2>2, <2>4, <2>5 DEF IndexHasValue
  <2> QED
    BY <2>5, Zenon
<1>6. ASSUME r.ok, KeysApart(d, views) PROVE KeysApart(e, views)
  <2> SUFFICES ASSUME NEW u \in Tables, NEW x \in e.rows[u], NEW y \in e.rows[u],
                      x # y, x.key = y.key
               PROVE  Updated(u) /\ Apart(views, x, y)
    BY Zenon DEF KeysApart
  <2>1. x \in d.rows[u] /\ y \in d.rows[u]
    <3>1. CASE u # t
      BY <1>2, <1>6, <3>1, Zenon
    <3>2. CASE u = t
      <4>1. (x \in d.rows[t] \/ x = new) /\ (y \in d.rows[t] \/ y = new)
        BY <1>2, <1>6, <3>2, Zenon
      <4>2. \A w \in d.rows[t] : w.key # new.key
        BY <1>3, <1>5, <1>6, Zenon
      <4> QED
        BY <3>2, <4>1, <4>2, Zenon
    <3> QED
      BY <3>1, <3>2, Zenon
  <2> QED
    BY <1>6, <2>1, Zenon DEF KeysApart
<1>7. ASSUME r.ok, Owners(d) PROVE Owners(e)
  <2> SUFFICES ASSUME NEW u \in Tables, NEW b \in Clients, Updated(u), Modifies(b, u),
                      NEW x \in e.rows[u], x.tx_max # 0
               PROVE  \/ x.tx_max = View(b).tx
                      \/ x.tx_max < View(b).high /\ x.tx_max \notin View(b).others
    BY Zenon DEF Owners, Owned
  <2>1. x \in d.rows[u]
    BY <1>2, <1>3, <1>7, Zenon
  <2> QED
    BY <1>7, <2>1, Zenon DEF Owners, Owned
<1>8. r.ok => Fits(view, views, e, r.next)
  BY <1>4, <1>6, <1>7, Zenon DEF Fits
<1>9. r \in Outcome(view, views, d, n, {t})
  BY <1>2, <1>8, Zenon DEF Outcome, e
<1>10. CASE ~r.ok
  BY <1>9, <1>10, Zenon DEF Insert, r
<1>11. CASE r.ok
  <2> DEFINE k == e.row_count[t] + 1
  <2>1. e.row_count[t] \in Nat
    <3>1. e \in AnyDb
      BY <1>2 DEF AnyResult, e
    <3> QED
      BY <3>1, DbParts, Zenon
  <2>2. k \in Nat
    BY <2>1
  <2>3. Insert(d, n, t, key, ref, view) = [r EXCEPT !.db.row_count[t] = k]
    BY <1>11 DEF Insert, r, e
  <2> HIDE DEF k
  <2>4. [r EXCEPT !.db.row_count[t] = k] \in Outcome(view, views, d, n, {t})
    BY <1>9, <1>11, <2>2, CountFits
  <2> QED
    BY <2>3, <2>4, Zenon
<1> QED
  BY <1>10, <1>11, Zenon

-----------------------------------------------------------------------------
(* The inductive invariant *)

TypeInv ==
    /\ constraint_load \in ConstraintWorkloads
    /\ next_id \in 1..(MaxRowId + 1) /\ next_txid \in 1..(MaxTxId + 1)
    /\ active \subseteq TxIds /\ status \in [TxIds -> {"none", "committed", "rolled_back"}]
    /\ client \in [Clients -> [txn : {"none", "open", "aborted"}, tx : 0..MaxTxId,
                               high : 0..MaxTxId, others : SUBSET TxIds]]

Open(c) == client[c].txn = "open"

\* Transactions: who is in flight, and what a snapshot has noted of them.
TxInv ==
    /\ \A x \in TxIds : x \in active <=> \E c \in Clients : Open(c) /\ client[c].tx = x
    /\ \A x \in TxIds : status[x] = "none" <=> (x \in active \/ x >= next_txid)
    /\ \A b, c \in Clients : Open(b) /\ Open(c) /\ client[b].tx = client[c].tx => b = c
    /\ \A c \in Clients :
          /\ client[c].txn # "none" => client[c].tx \in TxIds /\ client[c].tx < next_txid
          /\ client[c].txn = "aborted" => status[client[c].tx] = "rolled_back"
          /\ Open(c) => /\ client[c].high = client[c].tx
                        /\ \A x \in active : x < client[c].high => x \in client[c].others

\* Rows, entries and stamps.
StoreInv ==
    /\ db \in AnyDb /\ Entries(db) /\ Ids(db, next_id)
    /\ \A t \in Tables : \A v \in db.rows[t] : v.tx_min < next_txid /\ v.tx_max < next_txid

KeyInv == OneModifier => KeysApart(db, Views) /\ Owners(db)

ConstraintInv == TypeInv /\ TxInv /\ StoreInv /\ KeyInv

LEMMA TypeMeets ==
  ASSUME TypeInv, StoreInv
  PROVE  ConstraintTypeOK
<1>1. db \in AnyDb /\ Entries(db) /\ Ids(db, next_id) /\ next_id \in 1..(MaxRowId + 1)
  BY DEF StoreInv, TypeInv
<1>2. MaxRowId \in Nat
  BY Numbers
<1>3. ASSUME NEW t \in Tables
      PROVE  /\ db.rows[t] \in SUBSET Version
             /\ db.pk[t] \in SUBSET (KeyValues \X RowIds)
             /\ db.fk[t] \in SUBSET ((KeyValues \cup {Null}) \X RowIds)
  <2>1. db.rows[t] \subseteq AnyVersion
    BY <1>1, DbParts, Zenon
  <2>2. ASSUME NEW v \in db.rows[t] PROVE v \in Version
    <3>1. v.id < next_id
      BY <1>1, Zenon DEF Ids
    <3>2. v.id \in RowIds
      BY <1>1, <1>2, <2>1, <3>1 DEF AnyVersion, RowIds
    <3> QED
      BY <2>1, <3>2 DEF AnyVersion, Version
  <2>3. ASSUME NEW v \in db.rows[t]
        PROVE  /\ <<v.key, v.id>> \in KeyValues \X RowIds
               /\ <<v.ref, v.id>> \in (KeyValues \cup {Null}) \X RowIds
    BY <2>2 DEF Version
  <2>4. Keyed(db.rows[t]) \subseteq KeyValues \X RowIds
    BY <2>3, Zenon DEF Keyed
  <2>5. Referring(t, db.rows[t]) \subseteq (KeyValues \cup {Null}) \X RowIds
    BY <2>3, Zenon DEF Referring
  <2> QED
    BY <1>1, <2>2, <2>4, <2>5, Zenon DEF Entries
<1>4. \A t \in Tables : \A v, w \in db.rows[t] : v.id = w.id => v = w
  BY <1>1, Zenon DEF Ids
<1>5. db \in [tables : SUBSET Tables, rows : [Tables -> SUBSET Version],
              pk : [Tables -> SUBSET (KeyValues \X RowIds)],
              fk : [Tables -> SUBSET ((KeyValues \cup {Null}) \X RowIds)],
              row_count : [Tables -> Nat]]
  <2>1. /\ db.rows \in [Tables -> SUBSET Version]
        /\ db.pk \in [Tables -> SUBSET (KeyValues \X RowIds)]
        /\ db.fk \in [Tables -> SUBSET ((KeyValues \cup {Null}) \X RowIds)]
    BY <1>1, <1>3 DEF AnyDb
  <2> QED
    BY <1>1, <2>1 DEF AnyDb
<1> QED
  BY <1>4, <1>5, Zenon DEF ConstraintTypeOK, TypeInv

LEMMA EntriesMeet == ASSUME StoreInv PROVE EntriesMatchRows
  BY Zenon DEF StoreInv, Entries, EntriesMatchRows, Keyed, Referring

\* Two versions of one key are never seen together.
LEMMA KeysMeet ==
  ASSUME TypeInv, TxInv, StoreInv, KeyInv, OneModifier
  PROVE  UniqueKeys
<1> SUFFICES ASSUME NEW view \in Views, NEW t \in Tables,
                    NEW v \in db.rows[t], NEW w \in db.rows[t],
                    Visible(view, v), Visible(view, w), v.key = w.key, v # w
             PROVE  FALSE
  BY Zenon DEF UniqueKeys, SeenRows
<1>1. Apart(Views, v, w)
  BY Zenon DEF KeyInv, KeysApart
<1>2. Committed(view, v.tx_min) /\ Committed(view, w.tx_min)
  BY Zenon DEF Visible
<1>3. /\ ~(v.tx_max # 0 /\ Committed(view, v.tx_max))
      /\ ~(w.tx_max # 0 /\ Committed(view, w.tx_max))
  BY Zenon DEF Visible
<1>4. v.tx_min \in TxIds /\ w.tx_min \in TxIds
  <2>1. v \in AnyVersion /\ w \in AnyVersion
    BY DbParts, Zenon DEF StoreInv
  <2> QED
    BY <2>1 DEF AnyVersion
<1>5. ASSUME NEW x \in TxIds, Committed(view, x) PROVE status[x] # "rolled_back"
  <2>1. CASE view = FreshView
    <3>1. x # 0
      BY Numbers
    <3> QED
      BY <1>5, <2>1, <3>1 DEF Committed, FreshView
  <2>2. CASE \E c \in Clients : Open(c) /\ view = client[c]
    <3>1. PICK c \in Clients : Open(c) /\ view = client[c]
      BY <2>2
    <3>2. client[c].tx = x => status[x] = "none"
      BY <3>1, Zenon DEF TxInv
    <3> QED
      BY <1>5, <3>1, <3>2 DEF Committed
  <2> QED
    BY <2>1, <2>2, Zenon DEF Views, Open
<1>6. ~Stale(v) /\ ~Stale(w)
  BY <1>2, <1>4, <1>5, Zenon DEF Stale
<1> QED
  BY <1>1, <1>2, <1>3, <1>6, Zenon DEF Apart, Follows

-----------------------------------------------------------------------------
(* A statement among the transactions *)

LEMMA ViewParts ==
  ASSUME NEW c \in Clients
  PROVE  /\ Open(c) => View(c) = client[c]
         /\ ~Open(c) => /\ View(c).tx = next_txid /\ View(c).high = next_txid
                        /\ View(c).others = active
         /\ FreshView.tx = 0 /\ FreshView.high = next_txid /\ FreshView.others = active
  BY DEF View, FreshView, Open

LEMMA ViewsAre ==
  ASSUME NEW view
  PROVE  view \in Views <=> view = FreshView \/ \E b \in Clients : Open(b) /\ view = client[b]
  BY Zenon DEF Views, Open

\* What the view of a client in flight takes as committed.
LEMMA OpenSees ==
  ASSUME TypeInv, TxInv, NEW c \in Clients, Open(c)
  PROVE  /\ client[c].tx \in active /\ client[c].tx \in TxIds /\ client[c].tx < next_txid
         /\ status[client[c].tx] = "none" /\ client[c].high = client[c].tx
  BY Zenon DEF TxInv, Open

\* A new transaction sees what has committed.
LEMMA FreshSees ==
  ASSUME TypeInv, TxInv, NEW x \in TxIds
  PROVE  Committed(FreshView, x) <=> x < next_txid /\ status[x] = "committed"
<1>1. x # 0
  BY Numbers
<1>2. status[x] = "committed" => x \notin active
  BY Zenon DEF TxInv
<1> QED
  BY <1>1, <1>2, ViewParts DEF Committed, FreshView

LEMMA StatementTx ==
  ASSUME TypeInv, TxInv, NEW c \in Clients, Open(c) \/ next_txid <= MaxTxId
  PROVE  /\ View(c).tx \in TxIds /\ status[View(c).tx] = "none"
         /\ View(c).tx \in Nat /\ next_txid \in Nat
<1>1. next_txid \in Nat \ {0} /\ MaxTxId \in Nat
  BY Numbers DEF TypeInv
<1>2. CASE Open(c)
  BY <1>1, <1>2, ViewParts, OpenSees, Numbers
<1>3. CASE ~Open(c)
  <2>1. View(c).tx = next_txid /\ next_txid \in TxIds
    BY <1>1, <1>3, ViewParts DEF TxIds
  <2>2. next_txid >= next_txid
    BY <1>1
  <2>3. status[next_txid] = "none"
    BY <2>1, <2>2, Zenon DEF TxInv
  <2> QED
    BY <1>1, <2>1, <2>3, Zenon
<1> QED
  BY <1>2, <1>3

LEMMA StatementSole ==
  ASSUME TypeInv, TxInv, NEW c \in Clients, Open(c) \/ next_txid <= MaxTxId
  PROVE  Sole(View(c), Views \cup {View(c)})
<1> DEFINE view == View(c)
           views == Views \cup {view}
<1>1. /\ view.tx \in TxIds /\ status[view.tx] = "none"
      /\ view.tx \in Nat /\ next_txid \in Nat
  BY StatementTx, Zenon
<1>2. view.tx # 0
  BY <1>1, Numbers
<1>3. Open(c) => view = client[c]
  BY ViewParts, Zenon
<1>4. ~Open(c) => view.tx = next_txid
  BY ViewParts, Zenon
<1> HIDE DEF view
<1>5. ASSUME NEW other \in views
      PROVE  /\ other = view \/ other.tx # view.tx
             /\ other.tx \in TxIds => status[other.tx] = "none"
  <2>1. CASE other = view
    BY <1>1, <2>1, Zenon
  <2>2. CASE other = FreshView
    <3>1. other.tx = 0
      BY <2>2, ViewParts, Zenon
    <3> QED
      BY <1>2, <3>1, Numbers
  <2>3. CASE \E b \in Clients : Open(b) /\ other = client[b]
    <3>1. PICK b \in Clients : Open(b) /\ other = client[b]
      BY <2>3
    <3>2. status[other.tx] = "none" /\ client[b].tx \in TxIds /\ client[b].tx < next_txid
      BY <3>1, OpenSees, Zenon
    <3>3. CASE Open(c)
      <4>1. client[b].tx = client[c].tx => b = c
        BY <3>1, <3>3, Zenon DEF TxInv
      <4> QED
        BY <1>3, <3>1, <3>2, <3>3, <4>1, Zenon
    <3>4. CASE ~Open(c)
      <4>1. client[b].tx # next_txid
        BY <1>1, <3>2, Numbers
      <4> QED
        BY <1>4, <3>1, <3>2, <3>4, <4>1, Zenon
    <3> QED
      BY <3>3, <3>4
  <2> QED
    BY <2>1, <2>2, <2>3, ViewsAre, Zenon
<1>6. ASSUME NEW other \in views, Committed(other, view.tx) PROVE other = view
  BY <1>1, <1>5, <1>6 DEF Committed
<1>7. ASSUME NEW x \in TxIds, x < next_txid \/ x = view.tx, status[x] # "rolled_back"
      PROVE  \E other \in views : Committed(other, x)
  <2>1. CASE x = view.tx
    BY <2>1, Zenon DEF Committed
  <2>2. CASE x < next_txid /\ status[x] = "none"
    <3>1. ~(x >= next_txid)
      BY <1>1, <2>2, Numbers
    <3>2. x \in active
      BY <2>2, <3>1, Zenon DEF TxInv
    <3>3. PICK b \in Clients : Open(b) /\ client[b].tx = x
      BY <3>2, Zenon DEF TxInv
    <3>4. client[b] \in views /\ Committed(client[b], x)
      BY <3>3, ViewsAre, Zenon DEF Committed
    <3> QED
      BY <3>4, Zenon
  <2>3. CASE x < next_txid /\ status[x] = "committed"
    <3>1. Committed(FreshView, x)
      BY <2>3, FreshSees, Zenon
    <3>2. FreshView \in views
      BY ViewsAre, Zenon
    <3> QED
      BY <3>1, <3>2, Zenon
  <2>4. status[x] \in {"none", "committed", "rolled_back"}
    BY Zenon DEF TypeInv
  <2> QED
    BY <1>7, <2>1, <2>2, <2>3, <2>4, Zenon
<1>8. status \in [TxIds -> {"none", "committed", "rolled_back"}]
  BY Zenon DEF TypeInv
<1>9. Sole(view, views)
  BY <1>1, <1>5, <1>6, <1>7, <1>8, Zenon DEF Sole
<1> QED
  BY <1>9 DEF view

\* The view of a statement outside a transaction adds nothing to the views there are.
LEMMA StatementFits ==
  ASSUME TypeInv, TxInv, StoreInv, KeyInv, NEW c \in Clients
  PROVE  Fits(View(c), Views \cup {View(c)}, db, next_id)
<1> DEFINE view == View(c)
           views == Views \cup {view}
<1>1. /\ next_txid \in Nat \ {0} /\ 0 < next_txid /\ next_id \in Nat \ {0}
      /\ TxIds \subseteq Nat \ {0}
  BY Numbers DEF TypeInv
<1>2. Good(db, next_id, view)
  BY <1>1, Zenon DEF StoreInv, Good, Stamps
<1>3. ASSUME NEW x \in TxIds, x < next_txid, ~Open(c)
      PROVE  Committed(view, x) <=> Committed(FreshView, x)
  <2>1. /\ view.tx = next_txid /\ view.high = next_txid /\ view.others = active
        /\ FreshView.tx = 0 /\ FreshView.high = next_txid /\ FreshView.others = active
    BY <1>3, ViewParts, Zenon
  <2>2. x # next_txid /\ x # 0
    BY <1>1, <1>3
  <2> QED
    BY <2>1, <2>2, Zenon DEF Committed
<1>4. ASSUME NEW v, NEW w, v.tx_min \in TxIds, v.tx_min < next_txid,
             w.tx_max \in 0..MaxTxId, w.tx_max < next_txid, Follows(Views, w, v)
      PROVE  Follows(views, w, v)
  <2>1. w.tx_max # 0 /\ w.tx_max \in TxIds
    BY <1>4, Numbers DEF Follows, TxIds
  <2>2. ASSUME NEW other \in views, Committed(other, v.tx_min)
        PROVE  Committed(other, w.tx_max)
    <3>1. CASE other \in Views
      BY <1>4, <2>2, <3>1, Zenon DEF Follows
    <3>2. CASE other = view /\ Open(c)
      <4>1. other \in Views
        BY <3>2, ViewParts, ViewsAre, Zenon
      <4> QED
        BY <1>4, <2>2, <4>1, Zenon DEF Follows
    <3>3. CASE other = view /\ ~Open(c)
      <4>1. FreshView \in Views
        BY ViewsAre, Zenon
      <4>2. Committed(FreshView, v.tx_min)
        BY <1>3, <1>4, <2>2, <3>3, Zenon
      <4>3. Committed(FreshView, w.tx_max)
        BY <1>4, <4>1, <4>2, Zenon DEF Follows
      <4> QED
        BY <1>3, <1>4, <2>1, <3>3, <4>3, Zenon
    <3> QED
      BY <2>2, <3>1, <3>2, <3>3, Zenon
  <2> QED
    BY <2>1, <2>2, Zenon DEF Follows
<1> HIDE DEF view, views
<1>5. ASSUME OneModifier PROVE KeysApart(db, views) /\ Owners(db)
  <2>1. KeysApart(db, Views) /\ Owners(db)
    BY <1>5, Zenon DEF KeyInv
  <2>2. ASSUME NEW t \in Tables, NEW v \in db.rows[t]
        PROVE  /\ v.tx_min \in TxIds /\ v.tx_min < next_txid
               /\ v.tx_max \in 0..MaxTxId /\ v.tx_max < next_txid
    <3>1. db \in AnyDb /\ v.tx_min < next_txid /\ v.tx_max < next_txid
      BY Zenon DEF StoreInv
    <3>2. v \in AnyVersion
      BY <3>1, DbParts, Zenon
    <3> QED
      BY <3>1, <3>2 DEF AnyVersion
  <2>3. ASSUME NEW t \in Tables, NEW v \in db.rows[t], NEW w \in db.rows[t], Apart(Views, v, w)
        PROVE  Apart(views, v, w)
    <3>1. Follows(Views, v, w) => Follows(views, v, w)
      BY <1>4, <2>2, Zenon
    <3>2. Follows(Views, w, v) => Follows(views, w, v)
      BY <1>4, <2>2, Zenon
    <3> QED
      BY <2>3, <3>1, <3>2, Zenon DEF Apart
  <2> QED
    BY <2>1, <2>3, Zenon DEF KeysApart
<1> QED
  BY <1>2, <1>5, Zenon DEF Fits, view, views

\* The results of the three statements.
Result(c, r) ==
    \E moved \in SUBSET Tables :
        r \in Outcome(View(c), Views \cup {View(c)}, db, next_id, moved)

LEMMA StatementResults ==
  ASSUME TypeInv, TxInv, StoreInv, KeyInv, NEW c \in Clients, NEW t \in Tables,
         Open(c) \/ next_txid <= MaxTxId
  PROVE  /\ \A key \in KeyValues, ref \in KeyValues \cup {Null} :
               Result(c, Insert(db, next_id, t, key, ref, View(c)))
         /\ <<t, "update">> \in constraint_load.writes[c] =>
               \A which \in KeyValues, key \in KeyValues, ref \in KeyValues \cup {Null} :
                  Result(c, UpdateRows(db, next_id, t,
                              {v \in SeenRows(db, t, View(c)) : v.key = which},
                              key, ref, View(c)))
         /\ <<t, "delete">> \in constraint_load.writes[c] =>
               \A which \in KeyValues :
                  Result(c, Delete(db, next_id, t,
                              {v \in SeenRows(db, t, View(c)) : v.key = which}, View(c)))
<1> DEFINE view == View(c)
           views == Views \cup {view}
           Rows(which) == {v \in SeenRows(db, t, view) : v.key = which}
<1>1. Sole(view, views) /\ Fits(view, views, db, next_id)
  BY StatementSole, StatementFits, Zenon
<1>2. \A which : /\ Rows(which) \subseteq db.rows[t]
                 /\ \A v \in Rows(which) : Visible(view, v)
  BY Zenon DEF SeenRows
<1>3. view = View(c)
  BY Zenon
<1>4. \A r : \A moved \in SUBSET Tables :
         r \in Outcome(view, views, db, next_id, moved) => Result(c, r)
  BY Zenon DEF Result
<1> HIDE DEF view, views, Rows, Result
<1>5. ASSUME NEW key \in KeyValues, NEW ref \in KeyValues \cup {Null}
      PROVE  Result(c, Insert(db, next_id, t, key, ref, view))
  <2>1. Insert(db, next_id, t, key, ref, view) \in Outcome(view, views, db, next_id, {t})
    BY <1>1, InsertFits, Zenon
  <2>2. {t} \in SUBSET Tables
    BY Zenon
  <2> QED
    BY <1>4, <2>1, <2>2, Zenon
<1>6. ASSUME <<t, "update">> \in constraint_load.writes[c], NEW which \in KeyValues,
             NEW key \in KeyValues, NEW ref \in KeyValues \cup {Null}
      PROVE  Result(c, UpdateRows(db, next_id, t, Rows(which), key, ref, view))
  <2>1. Modifies(c, t) /\ Updated(t)
    BY <1>6, Zenon DEF Modifies, Updated
  <2>2. key \in KeyValues \cup {Same}
    BY Zenon
  <2>3. UpdateRows(db, next_id, t, Rows(which), key, ref, view)
           \in Outcome(view, views, db, next_id, {t})
    BY <1>1, <1>2, <1>3, <2>1, <2>2, UpdateRowsFit, Zenon
  <2>4. {t} \in SUBSET Tables
    BY Zenon
  <2> QED
    BY <1>4, <2>3, <2>4, Zenon
<1>7. ASSUME <<t, "delete">> \in constraint_load.writes[c], NEW which \in KeyValues
      PROVE  Result(c, Delete(db, next_id, t, Rows(which), view))
  <2> DEFINE rows == Rows(which)
  <2>1. rows \subseteq db.rows[t] /\ \A v \in rows : Visible(view, v)
    BY <1>2, Zenon
  <2> HIDE DEF rows
  <2>2. CASE t = "grand"
    <3>1. Modifies(c, "grand") /\ {"grand"} \in SUBSET Tables
      BY <1>7, <2>2 DEF Modifies, Deletes, Tables
    <3>2. DeleteGrand(db, next_id, rows, view) \in Outcome(view, views, db, next_id, {"grand"})
      BY <1>1, <1>3, <2>1, <2>2, <3>1, DeleteGrandFits, Zenon
    <3>3. Delete(db, next_id, t, rows, view) = DeleteGrand(db, next_id, rows, view)
      BY <2>2 DEF Delete
    <3> QED
      BY <1>4, <3>1, <3>2, <3>3, Zenon DEF rows
  <2>3. CASE t = "child"
    <3>1. /\ Modifies(c, "child") /\ Modifies(c, "grand")
          /\ {"child", "grand"} \in SUBSET Tables
      BY <1>7, <2>3 DEF Modifies, Deletes, Tables, Children, ParentOf
    <3>2. DeleteChild(db, next_id, rows, view)
             \in Outcome(view, views, db, next_id, {"child", "grand"})
      BY <1>1, <1>3, <2>1, <2>3, <3>1, DeleteChildFits, Zenon
    <3>3. Delete(db, next_id, t, rows, view) = DeleteChild(db, next_id, rows, view)
      BY <2>3 DEF Delete
    <3> QED
      BY <1>4, <3>1, <3>2, <3>3, Zenon DEF rows
  <2>4. CASE t = "parent"
    <3>1. Modifies(c, "parent") /\ Modifies(c, "child") /\ Modifies(c, "grand")
      BY <1>7, <2>4 DEF Modifies, Deletes, Children, ParentOf
    <3>2. DeleteParent(db, next_id, rows, view) \in Outcome(view, views, db, next_id, Tables)
      BY <1>1, <1>3, <2>1, <2>4, <3>1, DeleteParentFits, Zenon
    <3>3. Delete(db, next_id, t, rows, view) = DeleteParent(db, next_id, rows, view)
      BY <2>4 DEF Delete
    <3> QED
      BY <1>4, <3>2, <3>3, Zenon DEF rows
  <2> QED
    BY <2>2, <2>3, <2>4 DEF Tables
<1> QED
  BY <1>5, <1>6, <1>7, Zenon DEF view, Rows

-----------------------------------------------------------------------------
(* Transactions come and go *)

Sees(st, view, x) ==
    x = view.tx \/ (x < view.high /\ x \notin view.others /\ st[x] = "committed")

LEMMA SeesIs ==
  /\ \A view, x : Committed(view, x) = Sees(status, view, x)
  /\ \A view, x : Committed(view, x)' = Sees(status', view, x)
  BY DEF Committed, Sees

LEMMA SameWorkload ==
  ASSUME constraint_load' = constraint_load
  PROVE  /\ \A t : Updated(t)' <=> Updated(t)
         /\ \A b, t : Modifies(b, t)' <=> Modifies(b, t)
         /\ OneModifier' <=> OneModifier
         /\ \A t : Indexed(t)' <=> Indexed(t)
<1>1. \A b, t : Modifies(b, t)' <=> Modifies(b, t)
  BY DEF Modifies, Deletes
<1>2. \A t : Updated(t)' <=> Updated(t)
  BY DEF Updated, Modifies, Deletes
<1>3. OneModifier' <=> OneModifier
  BY DEF OneModifier, Updated, Modifies, Deletes
<1>4. \A t : Indexed(t)' <=> Indexed(t)
  BY DEF Indexed
<1> QED
  BY <1>1, <1>2, <1>3, <1>4, Zenon

\* Versions stay apart as long as no view learns of the later one without the earlier
\* one's end.  stamps are those of the new database.
LEMMA KeysKept ==
  ASSUME NEW views, NEW stamps, constraint_load' = constraint_load, KeysApart(db', views),
         \A t \in Tables : \A v \in db'.rows[t] :
            v.tx_min \in stamps /\ (v.tx_max # 0 => v.tx_max \in stamps),
         \A x \in stamps : status[x] = "rolled_back" => status'[x] = "rolled_back",
         \A view \in Views', x \in stamps, y \in stamps :
            (\A o \in views : Sees(status, o, x) => Sees(status, o, y)) /\ Sees(status', view, x)
               => Sees(status', view, y)
  PROVE  KeysApart(db, Views)'
<1>1. ASSUME NEW v, NEW w, v.tx_min \in stamps, w.tx_max # 0 => w.tx_max \in stamps,
             Follows(views, w, v)
      PROVE  Follows(Views, w, v)'
  <2>1. w.tx_max # 0 /\ \A o \in views : Sees(status, o, v.tx_min) => Sees(status, o, w.tx_max)
    BY <1>1, SeesIs, Zenon DEF Follows
  <2>2. \A view \in Views' : Sees(status', view, v.tx_min) => Sees(status', view, w.tx_max)
    BY <1>1, <2>1, Zenon
  <2> QED
    BY <2>1, <2>2, SeesIs, Zenon DEF Follows
<1>2. ASSUME NEW v, v.tx_min \in stamps, Stale(v) PROVE Stale(v)'
  BY <1>2, Zenon DEF Stale
<1>3. ASSUME NEW t \in Tables, NEW v \in db'.rows[t], NEW w \in db'.rows[t], Apart(views, v, w)
      PROVE  Apart(Views, v, w)'
  BY <1>1, <1>2, <1>3, Zenon DEF Apart
<1>4. \A t : Updated(t)' <=> Updated(t)
  BY SameWorkload, Zenon
<1>5. ASSUME NEW t \in Tables, NEW v \in db'.rows[t], NEW w \in db'.rows[t],
             v # w, v.key = w.key
      PROVE  Updated(t)' /\ Apart(Views, v, w)'
  BY <1>3, <1>4, <1>5, Zenon DEF KeysApart
<1> QED
  BY <1>5, Zenon DEF KeysApart

Knows(view, x) == x = view.tx \/ (x < view.high /\ x \notin view.others)

LEMMA OwnersKept ==
  ASSUME NEW stamps, constraint_load' = constraint_load, Owners(db'),
         \A t \in Tables : \A v \in db'.rows[t] : v.tx_max # 0 => v.tx_max \in stamps,
         \A b \in Clients, x \in stamps : Knows(View(b), x) => Knows(View(b)', x)
  PROVE  Owners(db)'
<1>1. \A b, t : (Modifies(b, t)' <=> Modifies(b, t)) /\ (Updated(t)' <=> Updated(t))
  BY SameWorkload, Zenon
<1>2. ASSUME NEW t \in Tables, NEW b \in Clients, Updated(t)', Modifies(b, t)',
             NEW v \in db'.rows[t], v.tx_max # 0
      PROVE  \/ v.tx_max = View(b)'.tx
             \/ v.tx_max < View(b)'.high /\ v.tx_max \notin View(b)'.others
  <2>1. Owned(db'.rows[t], View(b))
    BY <1>1, <1>2, Zenon DEF Owners
  <2>2. Knows(View(b), v.tx_max)
    BY <1>2, <2>1, Zenon DEF Owned, Knows
  <2>3. Knows(View(b)', v.tx_max)
    BY <1>2, <2>2, Zenon
  <2> QED
    BY <2>3, Zenon DEF Knows
<1>3. ASSUME NEW t \in Tables, NEW b \in Clients, Updated(t)', Modifies(b, t)'
      PROVE  Owned(db'.rows[t], View(b)')
  BY <1>2, <1>3, Zenon DEF Owned
<1> QED
  BY <1>3, Zenon DEF Owners

\* The transactions stay as they are.
LEMMA SameViewsKeep ==
  ASSUME NEW more, constraint_load' = constraint_load, status' = status, Views' = Views,
         \A b \in Clients : View(b)' = View(b), db' \in AnyDb,
         OneModifier => KeysApart(db', Views \cup more) /\ Owners(db')
  PROVE  KeyInv'
<1>1. ASSUME OneModifier PROVE KeysApart(db, Views)'
  <2>1. \A t \in Tables : \A v \in db'.rows[t] :
           v.tx_min \in TxIds /\ (v.tx_max # 0 => v.tx_max \in TxIds)
    <3>1. \A t \in Tables : db'.rows[t] \subseteq AnyVersion
      BY DbParts, Zenon
    <3> QED
      BY <3>1, Numbers DEF AnyVersion, TxIds
  <2>2. \A view \in Views', x \in TxIds, y \in TxIds :
           (\A o \in Views \cup more : Sees(status, o, x) => Sees(status, o, y))
              /\ Sees(status', view, x) => Sees(status', view, y)
    BY Zenon
  <2>3. KeysApart(db', Views \cup more)
    BY <1>1, Zenon
  <2>4. \A x \in TxIds : status[x] = "rolled_back" => status'[x] = "rolled_back"
    BY Zenon
  <2> DEFINE views == Views \cup more
  <2> HIDE DEF views
  <2>5. /\ KeysApart(db', views)
        /\ \A view \in Views', x \in TxIds, y \in TxIds :
           (\A o \in views : Sees(status, o, x) => Sees(status, o, y))
              /\ Sees(status', view, x) => Sees(status', view, y)
    BY <2>2, <2>3, Zenon DEF views
  <2> QED
    BY <2>1, <2>4, <2>5, KeysKept, Zenon
<1>2. ASSUME OneModifier PROVE Owners(db)'
  <2>1. Owners(db')
    BY <1>2, Zenon
  <2>2. \A t \in Tables : \A v \in db'.rows[t] : v.tx_max # 0 => v.tx_max \in TxIds
    <3>1. \A t \in Tables : db'.rows[t] \subseteq AnyVersion
      BY DbParts, Zenon
    <3> QED
      BY <3>1, Numbers DEF AnyVersion, TxIds
  <2>3. \A b \in Clients, x \in TxIds : Knows(View(b), x) => Knows(View(b)', x)
    BY Zenon
  <2> QED
    BY <2>1, <2>2, <2>3, OwnersKept, Zenon
<1>3. OneModifier' <=> OneModifier
  BY SameWorkload, Zenon
<1> QED
  BY <1>1, <1>2, <1>3, Zenon DEF KeyInv

\* A transaction gets its outcome: COMMIT, ROLLBACK, a statement that fails, and the end
\* of a statement outside a transaction.
Ends(c, verdict) ==
    /\ verdict \in {"committed", "rolled_back"} /\ client[c].txn # "aborted"
    /\ Open(c) \/ next_txid <= MaxTxId
    /\ status' = [status EXCEPT ![View(c).tx] = verdict]
    /\ active' = active \ {View(c).tx}
    /\ Open(c) => next_txid' = next_txid
    /\ ~Open(c) => next_txid' = next_txid + 1
    /\ \A b \in Clients : b # c => client'[b] = client[b]
    /\ \/ client'[c].txn = "none"
       \/ /\ client'[c].txn = "aborted" /\ client'[c].tx = View(c).tx
          /\ verdict = "rolled_back"
    /\ constraint_load' = constraint_load

LEMMA EndFacts ==
  ASSUME TypeInv, TxInv, NEW c \in Clients, NEW verdict, Ends(c, verdict)
  PROVE  /\ View(c).tx \in TxIds /\ status[View(c).tx] = "none" /\ status'[View(c).tx] = verdict
         /\ \A x \in TxIds : x # View(c).tx => status'[x] = status[x]
         /\ next_txid \in Nat /\ next_txid' \in Nat /\ next_txid <= next_txid'
         /\ View(c).tx < next_txid'
         /\ \A x \in TxIds : x < next_txid \/ x = View(c).tx <=> x < next_txid'
         /\ ~Open(c)' /\ \A b \in Clients : Open(b)' <=> Open(b) /\ b # c
         /\ \A b \in Clients : Open(b) /\ b # c => client[b].tx # View(c).tx
<1>1. /\ View(c).tx \in TxIds /\ status[View(c).tx] = "none"
      /\ View(c).tx \in Nat /\ next_txid \in Nat
  BY StatementTx, Zenon DEF Ends
<1>2. /\ status'[View(c).tx] = verdict
      /\ \A x \in TxIds : x # View(c).tx => status'[x] = status[x]
  <2>1. status \in [TxIds -> {"none", "committed", "rolled_back"}]
    BY DEF TypeInv
  <2>2. status' = [status EXCEPT ![View(c).tx] = verdict]
    BY DEF Ends
  <2> QED
    BY <1>1, <2>1, <2>2
<1>5. /\ next_txid' \in Nat /\ next_txid <= next_txid' /\ View(c).tx < next_txid'
      /\ \A x \in TxIds : x < next_txid \/ x = View(c).tx <=> x < next_txid'
  <2>1. CASE Open(c)
    <3>1. View(c).tx < next_txid /\ next_txid' = next_txid
      BY <2>1, OpenSees, ViewParts, Zenon DEF Ends
    <3> QED
      BY <1>1, <3>1
  <2>2. CASE ~Open(c)
    <3>1. View(c).tx = next_txid /\ next_txid' = next_txid + 1
      BY <2>2, ViewParts, Zenon DEF Ends
    <3>2. TxIds \subseteq Nat
      BY Numbers
    <3> QED
      BY <1>1, <3>1, <3>2
  <2> QED
    BY <2>1, <2>2
<1>6. ~Open(c)' /\ \A b \in Clients : Open(b)' <=> Open(b) /\ b # c
  <2>1. ~Open(c)'
    BY DEF Ends, Open
  <2>2. \A b \in Clients : b # c => client'[b] = client[b]
    BY Zenon DEF Ends
  <2> QED
    BY <2>1, <2>2, Zenon DEF Open
<1>7. ASSUME NEW b \in Clients, Open(b), b # c PROVE client[b].tx # View(c).tx
  <2>1. CASE Open(c)
    BY <1>7, <2>1, ViewParts, Zenon DEF TxInv
  <2>2. CASE ~Open(c)
    <3>1. client[b].tx \in TxIds /\ client[b].tx < next_txid
      BY <1>7, OpenSees, Zenon
    <3>2. View(c).tx = next_txid
      BY <2>2, ViewParts, Zenon
    <3> QED
      BY <1>1, <3>1, <3>2, Numbers
  <2> QED
    BY <2>1, <2>2
<1> QED
  BY <1>1, <1>2, <1>5, <1>6, <1>7, Zenon

LEMMA EndKeepsTx ==
  ASSUME TypeInv, TxInv, NEW c \in Clients, NEW verdict, Ends(c, verdict)
  PROVE  TxInv'
<1> DEFINE tx == View(c).tx
<1>1. /\ tx \in TxIds /\ status[tx] = "none" /\ status'[tx] = verdict
      /\ \A x \in TxIds : x # tx => status'[x] = status[x]
      /\ next_txid \in Nat /\ next_txid' \in Nat /\ next_txid <= next_txid'
      /\ \A x \in TxIds : x < next_txid \/ x = tx <=> x < next_txid'
      /\ tx < next_txid'
  BY EndFacts, Zenon
<1>2. /\ ~Open(c)' /\ \A b \in Clients : Open(b)' <=> Open(b) /\ b # c
      /\ \A b \in Clients : Open(b) /\ b # c => client[b].tx # tx
  BY EndFacts, Zenon
<1>3. /\ active' = active \ {tx} /\ \A b \in Clients : b # c => client'[b] = client[b]
      /\ \/ client'[c].txn = "none"
         \/ /\ client'[c].txn = "aborted" /\ client'[c].tx = tx /\ verdict = "rolled_back"
      /\ verdict \in {"committed", "rolled_back"}
  BY Zenon DEF Ends
<1>4. Open(c) => client[c].tx = tx
  BY ViewParts, Zenon
<1> HIDE DEF tx
<1>5. ASSUME NEW x \in TxIds
      PROVE  x \in active' <=> \E b \in Clients : Open(b)' /\ client'[b].tx = x
  <2>1. x \in active <=> \E b \in Clients : Open(b) /\ client[b].tx = x
    BY Zenon DEF TxInv
  <2>2. ASSUME x \in active' PROVE \E b \in Clients : Open(b)' /\ client'[b].tx = x
    <3>1. x \in active /\ x # tx
      BY <1>3, <2>2, Zenon
    <3>2. PICK b \in Clients : Open(b) /\ client[b].tx = x
      BY <2>1, <3>1, Zenon
    <3>3. b # c
      BY <1>4, <3>1, <3>2, Zenon
    <3> QED
      BY <1>2, <1>3, <3>2, <3>3, Zenon
  <2>3. ASSUME NEW b \in Clients, Open(b)', client'[b].tx = x PROVE x \in active'
    <3>1. Open(b) /\ b # c /\ client[b].tx = x
      BY <1>2, <1>3, <2>3, Zenon
    <3> QED
      BY <1>2, <1>3, <2>1, <3>1, Zenon
  <2> QED
    BY <2>2, <2>3, Zenon
<1>6. ASSUME NEW x \in TxIds PROVE status'[x] = "none" <=> (x \in active' \/ x >= next_txid')
  <2>1. status[x] = "none" <=> (x \in active \/ x >= next_txid)
    BY Zenon DEF TxInv
  <2>2. x \in Nat
    BY Numbers
  <2>3. (x >= next_txid <=> ~(x < next_txid)) /\ (x >= next_txid' <=> ~(x < next_txid'))
    BY <1>1, <2>2
  <2>4. CASE x = tx
    <3>1. status'[x] # "none"
      BY <1>1, <1>3, <2>4
    <3> QED
      BY <1>1, <1>3, <2>3, <2>4, <3>1, Zenon
  <2>5. CASE x # tx
    <3>1. x \in active' <=> x \in active
      BY <1>3, <2>5, Zenon
    <3>2. x < next_txid <=> x < next_txid'
      BY <1>1, <2>5, Zenon
    <3> QED
      BY <1>1, <2>1, <2>3, <2>5, <3>1, <3>2, Zenon
  <2> QED
    BY <2>4, <2>5
<1>7. ASSUME NEW a \in Clients, NEW b \in Clients, Open(a)', Open(b)',
             client'[a].tx = client'[b].tx
      PROVE  a = b
  <2>1. Open(a) /\ Open(b) /\ client[a].tx = client[b].tx
    BY <1>2, <1>3, <1>7, Zenon
  <2> QED
    BY <2>1, Zenon DEF TxInv
<1>8. ASSUME NEW b \in Clients
      PROVE  /\ client'[b].txn # "none" => client'[b].tx \in TxIds /\ client'[b].tx < next_txid'
             /\ client'[b].txn = "aborted" => status'[client'[b].tx] = "rolled_back"
             /\ Open(b)' => /\ client'[b].high = client'[b].tx
                            /\ \A x \in active' : x < client'[b].high => x \in client'[b].others
  <2>1. CASE b = c
    <3>1. client'[b].txn # "none" => client'[b].tx = tx /\ verdict = "rolled_back"
      BY <1>3, <2>1, Zenon
    <3>2. client'[b].txn # "none" => client'[b].tx \in TxIds /\ client'[b].tx < next_txid'
      BY <1>1, <3>1, Zenon
    <3>3. client'[b].txn = "aborted" => client'[b].txn # "none"
      OBVIOUS
    <3>4. client'[b].txn = "aborted" => status'[client'[b].tx] = "rolled_back"
      BY <1>1, <3>1, <3>3, Zenon
    <3> QED
      BY <1>2, <2>1, <3>2, <3>4, Zenon
  <2>2. CASE b # c
    <3>1. client'[b] = client[b]
      BY <1>3, <2>2, Zenon
    <3>2. /\ client[b].txn # "none" => client[b].tx \in TxIds /\ client[b].tx < next_txid
          /\ client[b].txn = "aborted" => status[client[b].tx] = "rolled_back"
          /\ Open(b) => /\ client[b].high = client[b].tx
                        /\ \A x \in active : x < client[b].high => x \in client[b].others
      BY Zenon DEF TxInv
    <3>3. client[b].txn # "none" => client[b].tx < next_txid'
      BY <1>1, <3>2, Zenon
    <3>4. ASSUME client[b].txn = "aborted" PROVE status'[client[b].tx] = "rolled_back"
      <4>1. client[b].tx \in TxIds /\ status[client[b].tx] = "rolled_back"
        BY <3>2, <3>4
      <4>2. client[b].tx # tx
        BY <1>1, <4>1
      <4> QED
        BY <1>1, <4>1, <4>2, Zenon
    <3>5. ASSUME Open(b)'
          PROVE  /\ client[b].high = client[b].tx
                 /\ \A x \in active' : x < client[b].high => x \in client[b].others
      BY <1>2, <1>3, <3>2, <3>5, Zenon
    <3> QED
      BY <3>1, <3>2, <3>3, <3>4, <3>5, Zenon
  <2> QED
    BY <2>1, <2>2
<1> QED
  BY <1>5, <1>6, <1>7, <1>8, Zenon DEF TxInv

LEMMA ViewPartsNext ==
  ASSUME NEW c \in Clients
  PROVE  /\ Open(c)' => View(c)' = client'[c]
         /\ ~Open(c)' => /\ View(c)'.tx = next_txid' /\ View(c)'.high = next_txid'
                         /\ View(c)'.others = active'
         /\ FreshView'.tx = 0 /\ FreshView'.high = next_txid' /\ FreshView'.others = active'
  BY DEF View, FreshView, Open

LEMMA ViewsAreNext ==
  ASSUME NEW view
  PROVE  view \in Views' <=> view = FreshView' \/ \E b \in Clients : Open(b)' /\ view = client'[b]
  BY Zenon DEF Views, Open

\* Other views do not notice the end of a transaction.
LEMMA EndUnseen ==
  ASSUME TypeInv, TxInv, NEW c \in Clients, NEW verdict, Ends(c, verdict),
         NEW b \in Clients, Open(b), b # c, NEW x \in TxIds
  PROVE  Sees(status', client[b], x) <=> Sees(status, client[b], x)
<1> DEFINE tx == View(c).tx
           view == client[b]
<1>1. /\ tx \in TxIds /\ status[tx] = "none" /\ next_txid \in Nat
      /\ \A y \in TxIds : y # tx => status'[y] = status[y]
  BY EndFacts, Zenon
<1>2. view.tx # tx
  BY EndFacts, Zenon
<1>3. /\ view.high = view.tx /\ view.tx \in TxIds /\ view.tx < next_txid
      /\ \A y \in active : y < view.high => y \in view.others
  BY OpenSees, Zenon DEF TxInv
<1>4. ~(tx < view.high /\ tx \notin view.others)
  <2>1. CASE Open(c)
    <3>1. tx \in active
      BY <2>1, OpenSees, ViewParts, Zenon
    <3> QED
      BY <1>3, <3>1, Zenon
  <2>2. CASE ~Open(c)
    <3>1. tx = next_txid
      BY <2>2, ViewParts, Zenon
    <3>2. view.high \in TxIds /\ view.high < next_txid
      BY <1>3, Zenon
    <3>3. \A y \in TxIds : y < next_txid => ~(next_txid < y)
      BY <1>1, Numbers
    <3> QED
      BY <3>1, <3>2, <3>3, Zenon
  <2> QED
    BY <2>1, <2>2
<1>5. CASE x = tx
  BY <1>2, <1>4, <1>5, Zenon DEF Sees
<1>6. CASE x # tx
  BY <1>1, <1>6, Zenon DEF Sees
<1> QED
  BY <1>5, <1>6

LEMMA EndKeepsKeys ==
  ASSUME TypeInv, TxInv, NEW c \in Clients, NEW verdict, Ends(c, verdict), db' \in AnyDb,
         \A t \in Tables : \A v \in db'.rows[t] :
             /\ v.tx_min < next_txid \/ v.tx_min = View(c).tx
             /\ v.tx_max < next_txid \/ v.tx_max = View(c).tx,
         OneModifier => KeysApart(db', Views \cup {View(c)}) /\ Owners(db')
  PROVE  KeyInv'
<1> DEFINE view == View(c)
           tx == view.tx
           views == Views \cup {view}
           stamps == {x \in TxIds : x < next_txid \/ x = tx}
<1>1. /\ tx \in TxIds /\ status[tx] = "none" /\ status'[tx] = verdict
      /\ \A x \in TxIds : x # tx => status'[x] = status[x]
      /\ next_txid \in Nat /\ next_txid' \in Nat /\ next_txid <= next_txid'
      /\ \A x \in TxIds : x < next_txid \/ x = tx <=> x < next_txid'
  BY EndFacts, Zenon
<1>2. TxInv'
  BY EndKeepsTx, Zenon
<1>3. \A b \in Clients : Open(b)' <=> Open(b) /\ b # c
  BY EndFacts, Zenon
<1>4. active' = active \ {tx} /\ \A b \in Clients : b # c => client'[b] = client[b]
  BY Zenon DEF Ends
<1>0. constraint_load' = constraint_load
  BY Zenon DEF Ends
<1>14. \A z \in TxIds : Committed(FreshView, z) <=> z < next_txid /\ status[z] = "committed"
  BY FreshSees
<1>5. \A t \in Tables : \A v \in db'.rows[t] :
         v.tx_min \in stamps /\ (v.tx_max # 0 => v.tx_max \in stamps)
  <2>1. ASSUME NEW t \in Tables, NEW v \in db'.rows[t]
        PROVE  v.tx_min \in TxIds /\ (v.tx_max # 0 => v.tx_max \in TxIds)
    <3>1. v \in AnyVersion
      BY DbParts, Zenon
    <3> QED
      BY <3>1, Numbers DEF AnyVersion, TxIds
  <2> QED
    BY <2>1, Zenon
<1>6. \A x \in stamps : x \in TxIds /\ x < next_txid'
  BY <1>1, Zenon
<1>7. \A x \in stamps : status[x] = "rolled_back" => status'[x] = "rolled_back"
  <2>1. ASSUME NEW x \in stamps, status[x] = "rolled_back" PROVE status'[x] = "rolled_back"
    <3>1. x # tx
      BY <1>1, <2>1
    <3> QED
      BY <1>1, <1>6, <2>1, <3>1, Zenon
  <2> QED
    BY <2>1, Zenon
<1>8. ASSUME NEW o \in Views', NEW x \in stamps, NEW y \in stamps,
             \A p \in views : Sees(status, p, x) => Sees(status, p, y),
             Sees(status', o, x)
      PROVE  Sees(status', o, y)
  <2>1. CASE o = FreshView'
    <3>1. o.tx = 0 /\ o.high = next_txid' /\ o.others = active'
      BY <2>1, ViewPartsNext, Zenon
    <3>2. \A z \in stamps : z # 0
      BY <1>6, Numbers
    <3>3. status'[x] = "committed"
      BY <1>8, <3>1, <3>2, Zenon DEF Sees
    <3>4. status[y] = "committed" \/ (y = tx /\ verdict = "committed")
      <4>1. CASE x = tx
        <5>1. Sees(status, view, x)
          BY <4>1, Zenon DEF Sees
        <5>2. Sees(status, view, y)
          BY <1>8, <5>1, Zenon
        <5> QED
          BY <1>1, <3>3, <4>1, <5>2, Zenon DEF Sees
      <4>2. CASE x # tx
        <5>1. status[x] = "committed" /\ x < next_txid
          BY <1>1, <1>6, <3>3, <4>2, Zenon
        <5>2. Sees(status, FreshView, x) /\ FreshView \in views
          BY <1>6, <5>1, FreshSees, SeesIs, ViewsAre, Zenon
        <5>3. Sees(status, FreshView, y)
          BY <1>8, <5>2, Zenon
        <5>4. Committed(FreshView, y)
          BY <5>3, SeesIs, Zenon
        <5>5. y \in TxIds
          BY <1>6, Zenon
        <5>6. Committed(FreshView, y) <=> y < next_txid /\ status[y] = "committed"
          BY <1>14, <5>5, Zenon
        <5> QED
          BY <5>4, <5>6, Zenon
      <4> QED
        BY <4>1, <4>2
    <3>5. status'[y] = "committed"
      <4>1. CASE y = tx /\ verdict = "committed"
        BY <1>1, <4>1, Zenon
      <4>2. CASE status[y] = "committed"
        <5>1. y # tx
          BY <1>1, <4>2
        <5> QED
          BY <1>1, <1>6, <4>2, <5>1, Zenon
      <4> QED
        BY <3>4, <4>1, <4>2
    <3>6. y \notin active'
      <4>1. status'[y] # "none"
        BY <3>5
      <4> QED
        BY <1>2, <1>6, <4>1, Zenon DEF TxInv
    <3> QED
      BY <1>6, <3>1, <3>5, <3>6, Zenon DEF Sees
  <2>2. CASE \E b \in Clients : Open(b)' /\ o = client'[b]
    <3>1. PICK b \in Clients : Open(b) /\ b # c /\ o = client[b]
      BY <1>3, <1>4, <2>2, Zenon
    <3>2. Sees(status, o, x)
      BY <1>6, <1>8, <3>1, EndUnseen, Zenon
    <3>3. o \in views
      BY <3>1, ViewsAre, Zenon
    <3>4. Sees(status, o, y)
      BY <1>8, <3>2, <3>3, Zenon
    <3> QED
      BY <1>6, <3>1, <3>4, EndUnseen, Zenon
  <2> QED
    BY <1>8, <2>1, <2>2, ViewsAreNext, Zenon
<1>9. ASSUME NEW b \in Clients, NEW x \in stamps, Knows(View(b), x) PROVE Knows(View(b)', x)
  <2>1. CASE Open(b) /\ b # c
    <3>1. View(b) = client[b] /\ View(b)' = client[b]
      BY <1>3, <1>4, <2>1, ViewParts, ViewPartsNext, Zenon
    <3> QED
      BY <1>9, <3>1, Zenon
  <2>2. CASE ~(Open(b) /\ b # c)
    <3>1. View(b)'.high = next_txid' /\ View(b)'.others = active'
      BY <1>3, <2>2, ViewPartsNext, Zenon
    <3>2. x \notin active'
      <4>1. CASE Open(b)
        <5>1. b = c /\ View(b) = client[b] /\ client[b].tx = tx
          BY <2>2, <4>1, ViewParts, Zenon
        <5>2. \A z \in active : z < client[b].high => z \in client[b].others
          BY <4>1, Zenon DEF TxInv
        <5> QED
          BY <1>4, <1>9, <5>1, <5>2, Zenon DEF Knows
      <4>2. CASE ~Open(b)
        <5>1. /\ View(b).tx = next_txid /\ View(b).others = active
          BY <4>2, ViewParts, Zenon
        <5>2. x \notin active \/ x = next_txid
          BY <1>9, <5>1, Zenon DEF Knows
        <5>3. ASSUME x \in active PROVE x # next_txid
          <6>1. PICK a \in Clients : Open(a) /\ client[a].tx = x
            BY <1>6, <5>3, Zenon DEF TxInv
          <6>2. x < next_txid /\ x \in TxIds
            BY <6>1, OpenSees, Zenon
          <6> QED
            BY <1>1, <6>2, Numbers
        <5> QED
          BY <1>4, <5>2, <5>3, Zenon
      <4> QED
        BY <4>1, <4>2
    <3> QED
      BY <1>6, <3>1, <3>2, Zenon DEF Knows
  <2> QED
    BY <2>1, <2>2
<1> HIDE DEF views, stamps
<1>10. ASSUME OneModifier PROVE KeysApart(db, Views)'
  <2>1. KeysApart(db', views)
    BY <1>10, Zenon DEF views
  <2> QED
    BY <1>0, <1>5, <1>7, <1>8, <2>1, KeysKept, Zenon
<1>11. ASSUME OneModifier PROVE Owners(db)'
  <2>1. Owners(db')
    BY <1>11, Zenon
  <2>2. \A t \in Tables : \A v \in db'.rows[t] : v.tx_max # 0 => v.tx_max \in stamps
    BY <1>5, Zenon
  <2> QED
    BY <1>0, <1>9, <2>1, <2>2, OwnersKept, Zenon
<1>12. OneModifier' <=> OneModifier
  BY <1>0, SameWorkload, Zenon
<1> QED
  BY <1>10, <1>11, <1>12, Zenon DEF KeyInv

\* BEGIN.
LEMMA BeginFacts ==
  ASSUME TypeInv, TxInv, NEW c \in Clients, BeginTxn(c)
  PROVE  /\ next_txid \in TxIds /\ next_txid \in Nat /\ next_txid' = next_txid + 1
         /\ active' = active \cup {next_txid} /\ status' = status /\ ~Open(c)
         /\ client'[c].txn = "open" /\ client'[c].tx = next_txid
         /\ client'[c].high = next_txid /\ client'[c].others = active
         /\ \A b \in Clients : b # c => client'[b] = client[b]
         /\ \A b \in Clients : Open(b)' <=> Open(b) \/ b = c
         /\ constraint_load' = constraint_load /\ db' = db /\ next_id' = next_id
         /\ next_txid' \in 1..(MaxTxId + 1) /\ active' \subseteq TxIds
<1>1. /\ next_txid \in 1..(MaxTxId + 1) /\ active \subseteq TxIds
      /\ client \in [Clients -> [txn : {"none", "open", "aborted"}, tx : 0..MaxTxId,
                                 high : 0..MaxTxId, others : SUBSET TxIds]]
  BY DEF TypeInv
<1>2. constraint_load.txs \in 0..MaxTxId /\ MaxTxId \in Nat
  BY ConstraintConstants DEF TypeInv
<1>3. next_txid <= constraint_load.txs
  BY DEF BeginTxn
<1>4. next_txid \in TxIds /\ next_txid \in Nat /\ next_txid + 1 \in 1..(MaxTxId + 1)
  BY <1>1, <1>2, <1>3 DEF TxIds
<1>5. /\ next_txid' = next_txid + 1 /\ active' = active \cup {next_txid} /\ status' = status
      /\ constraint_load' = constraint_load /\ db' = db /\ next_id' = next_id
  BY DEF BeginTxn
<1>6. /\ client'[c].txn = "open" /\ client'[c].tx = next_txid
      /\ client'[c].high = next_txid /\ client'[c].others = active
      /\ \A b \in Clients : b # c => client'[b] = client[b]
  BY <1>1 DEF BeginTxn
<1>7. ~Open(c)
  BY DEF BeginTxn, Open
<1>8. \A b \in Clients : Open(b)' <=> Open(b) \/ b = c
  BY <1>6, Zenon DEF Open
<1>9. active' \subseteq TxIds
  BY <1>1, <1>4, <1>5, Zenon
<1> QED
  BY <1>4, <1>5, <1>6, <1>7, <1>8, <1>9, Zenon

LEMMA BeginKeepsTypes ==
  ASSUME TypeInv, TxInv, NEW c \in Clients, BeginTxn(c)
  PROVE  TypeInv'
<1>1. /\ constraint_load' = constraint_load /\ next_id' = next_id /\ status' = status
      /\ next_txid' \in 1..(MaxTxId + 1) /\ active' \subseteq TxIds
      /\ next_txid \in TxIds
  BY BeginFacts, Zenon
<1>2. /\ constraint_load \in ConstraintWorkloads /\ next_id \in 1..(MaxRowId + 1)
      /\ status \in [TxIds -> {"none", "committed", "rolled_back"}]
      /\ active \subseteq TxIds
      /\ client \in [Clients -> [txn : {"none", "open", "aborted"}, tx : 0..MaxTxId,
                                 high : 0..MaxTxId, others : SUBSET TxIds]]
  BY DEF TypeInv
<1>3. [txn |-> "open", tx |-> next_txid, high |-> next_txid, others |-> active]
         \in [txn : {"none", "open", "aborted"}, tx : 0..MaxTxId,
              high : 0..MaxTxId, others : SUBSET TxIds]
  BY <1>1, <1>2, Numbers
<1>4. client' \in [Clients -> [txn : {"none", "open", "aborted"}, tx : 0..MaxTxId,
                               high : 0..MaxTxId, others : SUBSET TxIds]]
  BY <1>2, <1>3 DEF BeginTxn
<1> QED
  BY <1>1, <1>2, <1>4, Zenon DEF TypeInv

LEMMA BeginKeepsTx ==
  ASSUME TypeInv, TxInv, NEW c \in Clients, BeginTxn(c)
  PROVE  TxInv'
<1>1. /\ next_txid \in TxIds /\ next_txid \in Nat /\ next_txid' = next_txid + 1
      /\ active' = active \cup {next_txid} /\ status' = status /\ ~Open(c)
      /\ client'[c].txn = "open" /\ client'[c].tx = next_txid
      /\ client'[c].high = next_txid /\ client'[c].others = active
      /\ \A b \in Clients : b # c => client'[b] = client[b]
      /\ \A b \in Clients : Open(b)' <=> Open(b) \/ b = c
  BY BeginFacts, Zenon
<1>2. \A x \in TxIds : /\ x < next_txid => x < next_txid' /\ x # next_txid
                       /\ x >= next_txid <=> x = next_txid \/ x >= next_txid'
                       /\ ~(x < x) /\ (x < next_txid => ~(next_txid < x))
  BY <1>1, Numbers
<1>3. /\ \A x \in TxIds : x \in active <=> \E b \in Clients : Open(b) /\ client[b].tx = x
      /\ \A x \in TxIds : status[x] = "none" <=> (x \in active \/ x >= next_txid)
  BY Zenon DEF TxInv
<1>4. \A b \in Clients : Open(b) => client[b].tx \in TxIds /\ client[b].tx < next_txid
  BY OpenSees, Zenon
<1>5. ASSUME NEW x \in TxIds
      PROVE  x \in active' <=> \E b \in Clients : Open(b)' /\ client'[b].tx = x
  <2>1. ASSUME x \in active' PROVE \E b \in Clients : Open(b)' /\ client'[b].tx = x
    <3>1. CASE x = next_txid
      BY <1>1, <3>1, Zenon
    <3>2. CASE x \in active
      <4>1. PICK b \in Clients : Open(b) /\ client[b].tx = x
        BY <1>3, <3>2, Zenon
      <4> QED
        BY <1>1, <4>1, Zenon
    <3> QED
      BY <1>1, <2>1, <3>1, <3>2, Zenon
  <2>2. ASSUME NEW b \in Clients, Open(b)', client'[b].tx = x PROVE x \in active'
    <3>1. CASE b = c
      BY <1>1, <2>2, <3>1, Zenon
    <3>2. CASE b # c
      <4>1. Open(b) /\ client[b].tx = x
        BY <1>1, <2>2, <3>2, Zenon
      <4> QED
        BY <1>1, <1>3, <4>1, Zenon
    <3> QED
      BY <3>1, <3>2
  <2> QED
    BY <2>1, <2>2, Zenon
<1>6. ASSUME NEW x \in TxIds PROVE status'[x] = "none" <=> (x \in active' \/ x >= next_txid')
  <2>1. x \in active' <=> x \in active \/ x = next_txid
    BY <1>1, Zenon
  <2>2. status'[x] = "none" <=> status[x] = "none"
    BY <1>1, Zenon
  <2> QED
    BY <1>2, <1>3, <2>1, <2>2, Zenon
<1>7. ASSUME NEW a \in Clients, NEW b \in Clients, Open(a)', Open(b)',
             client'[a].tx = client'[b].tx
      PROVE  a = b
  <2>1. \A d \in Clients : Open(d) => client[d].tx # next_txid
    BY <1>2, <1>4, Zenon
  <2>2. CASE a # c /\ b # c
    <3>1. Open(a) /\ Open(b) /\ client[a].tx = client[b].tx
      BY <1>1, <1>7, <2>2, Zenon
    <3> QED
      BY <3>1, Zenon DEF TxInv
  <2>3. CASE a = c /\ b # c
    <3>1. Open(b) /\ client[b].tx = next_txid
      BY <1>1, <1>7, <2>3, Zenon
    <3> QED
      BY <2>1, <3>1, Zenon
  <2>4. CASE a # c /\ b = c
    <3>1. Open(a) /\ client[a].tx = next_txid
      BY <1>1, <1>7, <2>4, Zenon
    <3> QED
      BY <2>1, <3>1, Zenon
  <2> QED
    BY <2>2, <2>3, <2>4
<1>8. ASSUME NEW b \in Clients
      PROVE  /\ client'[b].txn # "none" => client'[b].tx \in TxIds /\ client'[b].tx < next_txid'
             /\ client'[b].txn = "aborted" => status'[client'[b].tx] = "rolled_back"
             /\ Open(b)' => /\ client'[b].high = client'[b].tx
                            /\ \A x \in active' : x < client'[b].high => x \in client'[b].others
  <2>1. CASE b = c
    <3>1. next_txid < next_txid'
      BY <1>1
    <3>2. client'[b].txn # "aborted"
      BY <1>1, <2>1
    <3>3. ASSUME NEW x \in active', x < client'[b].high PROVE x \in client'[b].others
      <4>1. x # next_txid
        BY <1>1, <1>2, <2>1, <3>3, Zenon
      <4> QED
        BY <1>1, <2>1, <3>3, <4>1, Zenon
    <3> QED
      BY <1>1, <2>1, <3>1, <3>2, <3>3, Zenon
  <2>2. CASE b # c
    <3>1. client'[b] = client[b] /\ (Open(b)' <=> Open(b))
      BY <1>1, <2>2, Zenon
    <3>2. /\ client[b].txn # "none" => client[b].tx \in TxIds /\ client[b].tx < next_txid
          /\ client[b].txn = "aborted" => status[client[b].tx] = "rolled_back"
          /\ Open(b) => /\ client[b].high = client[b].tx
                        /\ \A x \in active : x < client[b].high => x \in client[b].others
      BY Zenon DEF TxInv
    <3>3. ASSUME Open(b), NEW x \in active', x < client[b].high PROVE x \in client[b].others
      <4>1. client[b].high < next_txid
        BY <1>4, <3>2, <3>3, Zenon
      <4>2. client[b].high \in TxIds
        BY <1>4, <3>2, <3>3, Zenon
      <4>3. x # next_txid
        BY <1>2, <3>3, <4>1, <4>2, Zenon
      <4> QED
        BY <1>1, <3>2, <3>3, <4>3, Zenon
    <3>4. client[b].txn # "none" => client[b].tx < next_txid'
      BY <1>2, <3>2, Zenon
    <3>5. client[b].txn = "aborted" => status'[client[b].tx] = "rolled_back"
      BY <1>1, <3>2, Zenon
    <3>6. Open(b) => client[b].high = client[b].tx
      BY <3>2, Zenon
    <3> QED
      BY <3>1, <3>2, <3>3, <3>4, <3>5, <3>6, Zenon
  <2> QED
    BY <2>1, <2>2
<1> QED
  BY <1>5, <1>6, <1>7, <1>8, Zenon DEF TxInv

\* A snapshot sees and knows of what was there exactly what the views before BEGIN did.
LEMMA BeginKeepsKeys ==
  ASSUME TypeInv, TxInv, StoreInv, KeyInv, NEW c \in Clients, BeginTxn(c)
  PROVE  KeyInv'
<1> DEFINE view == View(c)
           views == Views \cup {view}
           stamps == {x \in TxIds : x < next_txid}
<1>1. /\ next_txid \in TxIds /\ next_txid \in Nat /\ next_txid' = next_txid + 1
      /\ active' = active \cup {next_txid} /\ status' = status /\ ~Open(c)
      /\ client'[c].tx = next_txid
      /\ client'[c].high = next_txid /\ client'[c].others = active
      /\ \A b \in Clients : b # c => client'[b] = client[b]
      /\ \A b \in Clients : Open(b)' <=> Open(b) \/ b = c
      /\ constraint_load' = constraint_load /\ db' = db
  BY BeginFacts, Zenon
<1>0. constraint_load' = constraint_load
  BY <1>1, Zenon
<1>2. \A x \in TxIds : x < next_txid => /\ x # next_txid /\ x < next_txid' /\ x # next_txid'
  BY <1>1, Numbers
<1>3. /\ view.tx = next_txid /\ view.high = next_txid /\ view.others = active
      /\ view = View(c)
  BY <1>1, ViewParts, Zenon
<1>4. Fits(view, views, db, next_id)
  BY StatementFits, Zenon
<1> HIDE DEF view
<1>5. \A t \in Tables : \A v \in db'.rows[t] :
         v.tx_min \in stamps /\ (v.tx_max # 0 => v.tx_max \in stamps)
  <2>1. ASSUME NEW t \in Tables, NEW v \in db.rows[t]
        PROVE  v.tx_min \in TxIds /\ (v.tx_max # 0 => v.tx_max \in TxIds)
    <3>1. v \in AnyVersion
      BY DbParts, Zenon DEF StoreInv
    <3> QED
      BY <3>1, Numbers DEF AnyVersion, TxIds
  <2>2. \A t \in Tables : \A v \in db.rows[t] : v.tx_min < next_txid /\ v.tx_max < next_txid
    BY Zenon DEF StoreInv
  <2> QED
    BY <1>1, <2>1, <2>2, Zenon
<1>6. ASSUME NEW o \in Views', NEW x \in stamps, NEW y \in stamps,
             \A p \in views : Sees(status, p, x) => Sees(status, p, y),
             Sees(status', o, x)
      PROVE  Sees(status', o, y)
  <2>1. CASE o = FreshView'
    <3>1. o.tx = 0 /\ o.high = next_txid' /\ o.others = active \cup {next_txid}
      BY <1>1, <2>1, ViewPartsNext, Zenon
    <3>2. FreshView.tx = 0 /\ FreshView.high = next_txid /\ FreshView.others = active
      BY ViewParts, Zenon
    <3>3. \A z \in stamps : Sees(status', o, z) <=> Sees(status, FreshView, z)
      BY <1>1, <1>2, <3>1, <3>2, Zenon DEF Sees
    <3>4. FreshView \in views
      BY ViewsAre, Zenon
    <3>5. Sees(status, FreshView, x)
      BY <1>6, <3>3, Zenon
    <3>6. Sees(status, FreshView, y)
      BY <1>6, <3>4, <3>5, Zenon
    <3> QED
      BY <3>3, <3>6, Zenon
  <2>2. CASE o = client'[c]
    <3>1. \A z \in stamps : Sees(status', o, z) <=> Sees(status, view, z)
      BY <1>1, <1>3, <2>2, Zenon DEF Sees
    <3>2. view \in views
      BY Zenon
    <3>3. Sees(status, view, x)
      BY <1>6, <3>1, Zenon
    <3>4. Sees(status, view, y)
      BY <1>6, <3>2, <3>3, Zenon
    <3> QED
      BY <3>1, <3>4, Zenon
  <2>3. CASE \E b \in Clients : Open(b)' /\ b # c /\ o = client'[b]
    <3>1. PICK b \in Clients : Open(b) /\ o = client[b]
      BY <1>1, <2>3, Zenon
    <3>2. o \in views
      BY <3>1, ViewsAre, Zenon
    <3> QED
      BY <1>1, <1>6, <3>2, Zenon
  <2> QED
    BY <1>6, <2>1, <2>2, <2>3, ViewsAreNext, Zenon
<1>7. ASSUME NEW b \in Clients, NEW x \in stamps, Knows(View(b), x) PROVE Knows(View(b)', x)
  <2>1. CASE b = c
    <3>1. Open(b)'
      BY <1>1, <2>1, Zenon
    <3>2. View(b)' = client'[c]
      BY <2>1, <3>1, ViewPartsNext, Zenon
    <3> QED
      BY <1>1, <1>3, <1>7, <2>1, <3>2, Zenon DEF Knows
  <2>2. CASE b # c /\ Open(b)
    <3>1. View(b) = client[b] /\ View(b)' = client[b]
      BY <1>1, <2>2, ViewParts, ViewPartsNext, Zenon
    <3> QED
      BY <1>7, <3>1, Zenon
  <2>3. CASE b # c /\ ~Open(b)
    <3>1. View(b).tx = next_txid /\ View(b).high = next_txid /\ View(b).others = active
      BY <2>3, ViewParts, Zenon
    <3>2. ~Open(b)'
      BY <1>1, <2>3, Zenon
    <3>3. View(b)'.high = next_txid' /\ View(b)'.others = active \cup {next_txid}
      BY <1>1, <3>2, ViewPartsNext, Zenon
    <3> QED
      BY <1>2, <1>7, <3>1, <3>3, Zenon DEF Knows
  <2> QED
    BY <2>1, <2>2, <2>3
<1> HIDE DEF views, stamps
<1>8. ASSUME OneModifier PROVE KeysApart(db, Views)'
  <2>1. KeysApart(db', views)
    BY <1>1, <1>4, <1>8, Zenon DEF Fits
  <2>2. \A x \in stamps : status[x] = "rolled_back" => status'[x] = "rolled_back"
    BY <1>1, Zenon
  <2> QED
    BY <1>0, <1>5, <1>6, <2>1, <2>2, KeysKept, Zenon
<1>9. ASSUME OneModifier PROVE Owners(db)'
  <2>1. Owners(db')
    BY <1>1, <1>9, Zenon DEF KeyInv
  <2>2. \A t \in Tables : \A v \in db'.rows[t] : v.tx_max # 0 => v.tx_max \in stamps
    BY <1>5, Zenon
  <2> QED
    BY <1>0, <1>7, <2>1, <2>2, OwnersKept, Zenon
<1>10. OneModifier' <=> OneModifier
  BY <1>0, SameWorkload, Zenon
<1> QED
  BY <1>8, <1>9, <1>10, Zenon DEF KeyInv

LEMMA StoreNext ==
  ASSUME constraint_load' = constraint_load, db' \in AnyDb, Entries(db'), Ids(db', next_id'),
         \A t \in Tables : \A v \in db'.rows[t] :
            v.tx_min < next_txid' /\ v.tx_max < next_txid'
  PROVE  StoreInv'
<1>1. \A t : Indexed(t)' <=> Indexed(t)
  BY SameWorkload, Zenon
<1>2. ASSUME NEW t \in Tables PROVE db'.fk[t] = Referring(t, db.rows[t])'
  <2>1. db'.fk[t] = Referring(t, db'.rows[t])
    BY Zenon DEF Entries
  <2>2. CASE Indexed(t)
    BY <1>1, <2>1, <2>2 DEF Referring
  <2>3. CASE ~Indexed(t)
    BY <1>1, <2>1, <2>3 DEF Referring
  <2> QED
    BY <2>2, <2>3
<1>3. \A t \in Tables : db'.pk[t] = Keyed(db.rows[t])'
  BY Zenon DEF Entries, Keyed
<1>4. Entries(db)'
  BY <1>2, <1>3, Zenon DEF Entries
<1>5. Ids(db, next_id)'
  BY Zenon DEF Ids
<1> QED
  BY <1>4, <1>5, Zenon DEF StoreInv

LEMMA IdsGrow ==
  ASSUME NEW d \in AnyDb, NEW n \in Nat, NEW m \in Nat, n <= m, Ids(d, n)
  PROVE  Ids(d, m)
<1> SUFFICES ASSUME NEW t \in Tables, NEW v \in d.rows[t]
             PROVE  v.id < m /\ \A w \in d.rows[t] : v.id = w.id => v = w
  BY Zenon DEF Ids
<1>1. v \in AnyVersion
  BY DbParts, Zenon
<1>2. v.id \in Nat
  BY <1>1 DEF AnyVersion
<1>3. v.id < n /\ \A w \in d.rows[t] : v.id = w.id => v = w
  BY Zenon DEF Ids
<1> QED
  BY <1>2, <1>3

\* The database a step leaves alone.
LEMMA StoreKept ==
  ASSUME TypeInv, StoreInv, constraint_load' = constraint_load, db' = db,
         next_id' \in Nat, next_id <= next_id', next_txid' \in Nat, next_txid <= next_txid'
  PROVE  StoreInv'
<1>1. next_id \in Nat /\ next_txid \in Nat
  BY Numbers DEF TypeInv
<1>2. db \in AnyDb /\ Entries(db) /\ Ids(db, next_id)
  BY Zenon DEF StoreInv
<1>3. Ids(db, next_id')
  BY <1>1, <1>2, IdsGrow, Zenon
<1>4. Entries(db')
  <2>1. ASSUME NEW t \in Tables
        PROVE  db'.pk[t] = Keyed(db'.rows[t]) /\ db'.fk[t] = Referring(t, db'.rows[t])
    BY <1>2, Zenon DEF Entries
  <2> QED
    BY <2>1, Zenon DEF Entries
<1>5. Ids(db', next_id')
  BY <1>3, Zenon
<1>6. ASSUME NEW t \in Tables, NEW v \in db'.rows[t]
      PROVE  v.tx_min < next_txid' /\ v.tx_max < next_txid'
  <2>1. v \in AnyVersion /\ v.tx_min < next_txid /\ v.tx_max < next_txid
    <3>1. v \in db.rows[t]
      BY <1>6
    <3>2. v \in AnyVersion
      BY <1>2, <3>1, DbParts, Zenon
    <3> QED
      BY <3>1, <3>2, Zenon DEF StoreInv
  <2>2. v.tx_min \in TxIds /\ v.tx_max \in 0..MaxTxId
    BY <2>1 DEF AnyVersion
  <2>4. TxIds \subseteq Nat /\ 0..MaxTxId \subseteq Nat
    BY Numbers
  <2>3. v.tx_min \in Nat /\ v.tx_max \in Nat
    BY <2>2, <2>4, Zenon
  <2> QED
    BY <1>1, <2>1, <2>3
<1>7. db' \in AnyDb
  BY <1>2, Zenon
<1> QED
  BY <1>4, <1>5, <1>6, <1>7, StoreNext, Zenon

LEMMA BeginKeeps ==
  ASSUME ConstraintInv, NEW c \in Clients, BeginTxn(c)
  PROVE  ConstraintInv'
<1>1. TypeInv /\ TxInv /\ StoreInv /\ KeyInv
  BY Zenon DEF ConstraintInv
<1>2. TypeInv' /\ TxInv' /\ KeyInv'
  BY <1>1, BeginKeepsTypes, BeginKeepsTx, BeginKeepsKeys, Zenon
<1>3. /\ next_txid \in Nat /\ next_txid' = next_txid + 1
      /\ constraint_load' = constraint_load /\ db' = db /\ next_id' = next_id
  BY <1>1, BeginFacts, Zenon
<1>4. next_id \in Nat /\ next_id <= next_id' /\ next_txid' \in Nat /\ next_txid <= next_txid'
  BY <1>1, <1>3 DEF TypeInv
<1>5. StoreInv'
  BY <1>1, <1>3, <1>4, StoreKept, Zenon
<1> QED
  BY <1>2, <1>5, Zenon DEF ConstraintInv

\* COMMIT and ROLLBACK.
LEMMA EndTypes ==
  ASSUME TypeInv, TxInv, NEW c \in Clients, NEW verdict, Ends(c, verdict),
         client' \in [Clients -> [txn : {"none", "open", "aborted"}, tx : 0..MaxTxId,
                                  high : 0..MaxTxId, others : SUBSET TxIds]],
         next_id' \in 1..(MaxRowId + 1)
  PROVE  TypeInv'
<1>1. /\ constraint_load \in ConstraintWorkloads /\ next_txid \in 1..(MaxTxId + 1)
      /\ active \subseteq TxIds /\ status \in [TxIds -> {"none", "committed", "rolled_back"}]
  BY DEF TypeInv
<1>2. status' \in [TxIds -> {"none", "committed", "rolled_back"}]
  BY <1>1 DEF Ends
<1>3. active' \subseteq TxIds
  BY <1>1 DEF Ends
<1>4. next_txid' \in 1..(MaxTxId + 1)
  <2>1. CASE Open(c)
    BY <1>1, <2>1 DEF Ends
  <2>2. CASE ~Open(c)
    BY <1>1, <2>2, Numbers DEF Ends
  <2> QED
    BY <2>1, <2>2
<1>5. constraint_load' = constraint_load
  BY Zenon DEF Ends
<1> QED
  BY <1>1, <1>2, <1>3, <1>4, <1>5, Zenon DEF TypeInv

\* The rollback of an aborted transaction, which has its outcome already.
LEMMA AbortedEnds ==
  ASSUME ConstraintInv, NEW c \in Clients, NEW verdict \in {"committed", "rolled_back"},
         client[c].txn = "aborted", EndTxn(c, verdict)
  PROVE  ConstraintInv'
<1> DEFINE tx == client[c].tx
<1>1. TypeInv /\ TxInv /\ StoreInv /\ KeyInv
  BY Zenon DEF ConstraintInv
<1>2. tx \in TxIds /\ tx < next_txid /\ status[tx] = "rolled_back"
  <2>1. client[c].txn # "none"
    OBVIOUS
  <2> QED
    BY <1>1, <2>1, Zenon DEF TxInv
<1>3. tx \notin active
  <2>1. status[tx] # "none"
    BY <1>2
  <2> QED
    BY <1>1, <1>2, <2>1, Zenon DEF TxInv
<1>4. verdict = "rolled_back"
  BY DEF EndTxn
<1>5. /\ constraint_load' = constraint_load /\ db' = db /\ next_id' = next_id
      /\ next_txid' = next_txid
      /\ client' = [client EXCEPT ![c] = NoTransaction]
  BY DEF EndTxn
<1>6. active' = active
  BY <1>3 DEF EndTxn
<1>7. status' = status
  BY <1>1, <1>2, <1>4 DEF EndTxn, TypeInv
<1>8. client \in [Clients -> [txn : {"none", "open", "aborted"}, tx : 0..MaxTxId,
                              high : 0..MaxTxId, others : SUBSET TxIds]]
  BY <1>1 DEF TypeInv
<1>9. client'[c].txn = "none" /\ \A b \in Clients : b # c => client'[b] = client[b]
  BY <1>5, <1>8 DEF NoTransaction
<1>10. \A b \in Clients : Open(b)' <=> Open(b)
  <2>1. ~Open(c) /\ ~Open(c)'
    BY <1>9 DEF Open
  <2> QED
    BY <1>9, <2>1, Zenon DEF Open
<1>11. \A b \in Clients : Open(b) => client'[b] = client[b]
  <2>1. ~Open(c)
    BY DEF Open
  <2> QED
    BY <1>9, <2>1, Zenon
<1>12. TypeInv'
  <2>1. NoTransaction \in [txn : {"none", "open", "aborted"}, tx : 0..MaxTxId,
                           high : 0..MaxTxId, others : SUBSET TxIds]
    BY Numbers DEF NoTransaction
  <2>2. client' \in [Clients -> [txn : {"none", "open", "aborted"}, tx : 0..MaxTxId,
                                 high : 0..MaxTxId, others : SUBSET TxIds]]
    BY <1>5, <1>8, <2>1
  <2> QED
    BY <1>1, <1>5, <1>6, <1>7, <2>2, Zenon DEF TypeInv
<1>13. TxInv'
  <2>1. \A x \in TxIds : x \in active' <=> \E b \in Clients : Open(b)' /\ client'[b].tx = x
    <3>1. \A x \in TxIds : x \in active <=> \E b \in Clients : Open(b) /\ client[b].tx = x
      BY <1>1, Zenon DEF TxInv
    <3>2. \A b \in Clients : Open(b) => client'[b].tx = client[b].tx
      BY <1>11, Zenon
    <3> QED
      BY <1>6, <1>10, <3>1, <3>2, Zenon
  <2>2. \A x \in TxIds : status'[x] = "none" <=> (x \in active' \/ x >= next_txid')
    BY <1>1, <1>5, <1>6, <1>7, Zenon DEF TxInv
  <2>3. \A a, b \in Clients : Open(a)' /\ Open(b)' /\ client'[a].tx = client'[b].tx => a = b
    BY <1>1, <1>10, <1>11, Zenon DEF TxInv
  <2>4. ASSUME NEW b \in Clients
        PROVE  /\ client'[b].txn # "none" => client'[b].tx \in TxIds /\ client'[b].tx < next_txid'
               /\ client'[b].txn = "aborted" => status'[client'[b].tx] = "rolled_back"
               /\ Open(b)' => /\ client'[b].high = client'[b].tx
                              /\ \A x \in active' : x < client'[b].high => x \in client'[b].others
    <3>1. CASE b = c
      <4>1. client'[b].txn # "aborted" /\ client'[b].txn = "none" /\ ~Open(b)'
        BY <1>9, <3>1 DEF Open
      <4> QED
        BY <4>1
    <3>2. CASE b # c
      <4>1. client'[b] = client[b]
        BY <1>9, <3>2, Zenon
      <4>2. /\ client[b].txn # "none" => client[b].tx \in TxIds /\ client[b].tx < next_txid
            /\ client[b].txn = "aborted" => status[client[b].tx] = "rolled_back"
            /\ Open(b) => /\ client[b].high = client[b].tx
                          /\ \A x \in active : x < client[b].high => x \in client[b].others
        BY <1>1, Zenon DEF TxInv
      <4>3. Open(b)' <=> Open(b)
        BY <1>10
      <4> QED
        BY <1>5, <1>6, <1>7, <4>1, <4>2, <4>3
    <3> QED
      BY <3>1, <3>2
  <2> QED
    BY <2>1, <2>2, <2>3, <2>4, Zenon DEF TxInv
<1>14. StoreInv'
  <2>1. next_id \in Nat /\ next_txid \in Nat /\ next_id <= next_id' /\ next_txid <= next_txid'
    BY <1>1, <1>5 DEF TypeInv
  <2> QED
    BY <1>1, <1>5, <2>1, StoreKept, Zenon
<1>15. FreshView' = FreshView
  BY <1>5, <1>6 DEF FreshView
<1>16. Views' = Views
  <2>1. ASSUME NEW view PROVE view \in Views' <=> view \in Views
    <3>1. (\E b \in Clients : Open(b)' /\ view = client'[b])
             <=> (\E b \in Clients : Open(b) /\ view = client[b])
      BY <1>10, <1>11, Zenon
    <3>2. view \in Views <=> view = FreshView \/ \E b \in Clients : Open(b) /\ view = client[b]
      BY ViewsAre
    <3>3. view \in Views' <=> view = FreshView' \/ \E b \in Clients : Open(b)' /\ view = client'[b]
      BY ViewsAreNext
    <3> QED
      BY <1>15, <3>1, <3>2, <3>3, Zenon
  <2> QED
    BY <2>1
<1>17. \A b \in Clients : View(b)' = View(b)
  <2>1. ASSUME NEW b \in Clients PROVE View(b)' = View(b)
    <3>1. CASE Open(b)
      <4>1. Open(b)'
        BY <1>10, <3>1, Zenon
      <4> QED
        BY <1>11, <3>1, <4>1, ViewParts, ViewPartsNext, Zenon
    <3>2. CASE ~Open(b)
      <4>1. ~Open(b)'
        BY <1>10, <3>2, Zenon
      <4> QED
        BY <1>5, <1>15, <3>2, <4>1 DEF View, Open
    <3> QED
      BY <3>1, <3>2
  <2> QED
    BY <2>1, Zenon
<1>18. KeyInv'
  <2>1. db' \in AnyDb
    BY <1>1, <1>5, Zenon DEF StoreInv
  <2>3. OneModifier => KeysApart(db', Views \cup {}) /\ Owners(db')
    <3>1. Views \cup {} = Views
      OBVIOUS
    <3>2. OneModifier => KeysApart(db', Views) /\ Owners(db')
      BY <1>1, <1>5, Zenon DEF KeyInv
    <3> QED
      BY <3>1, <3>2, Zenon
  <2> QED
    BY <1>5, <1>7, <1>16, <1>17, <2>1, <2>3, SameViewsKeep, Zenon
<1> QED
  BY <1>12, <1>13, <1>14, <1>18, Zenon DEF ConstraintInv

LEMMA EndKeeps ==
  ASSUME ConstraintInv, NEW c \in Clients, NEW verdict \in {"committed", "rolled_back"},
         EndTxn(c, verdict)
  PROVE  ConstraintInv'
<1>1. TypeInv /\ TxInv /\ StoreInv /\ KeyInv
  BY Zenon DEF ConstraintInv
<1>2. client \in [Clients -> [txn : {"none", "open", "aborted"}, tx : 0..MaxTxId,
                              high : 0..MaxTxId, others : SUBSET TxIds]]
  BY <1>1 DEF TypeInv
<1>3. CASE client[c].txn = "aborted"
  BY <1>3, AbortedEnds, Zenon
<1>4. CASE client[c].txn = "open"
  <2>1. Open(c) /\ View(c) = client[c]
    BY <1>4, ViewParts, Zenon DEF Open
  <2>2. /\ constraint_load' = constraint_load /\ db' = db /\ next_id' = next_id
        /\ next_txid' = next_txid
        /\ active' = active \ {client[c].tx}
        /\ status' = [status EXCEPT ![client[c].tx] = verdict]
        /\ client' = [client EXCEPT ![c] = NoTransaction]
    BY DEF EndTxn
  <2>3. /\ client'[c].txn = "none" /\ \A b \in Clients : b # c => client'[b] = client[b]
        /\ client' \in [Clients -> [txn : {"none", "open", "aborted"}, tx : 0..MaxTxId,
                                    high : 0..MaxTxId, others : SUBSET TxIds]]
    <3>1. NoTransaction \in [txn : {"none", "open", "aborted"}, tx : 0..MaxTxId,
                             high : 0..MaxTxId, others : SUBSET TxIds]
      BY Numbers DEF NoTransaction
    <3>2. NoTransaction.txn = "none"
      BY DEF NoTransaction
    <3> QED
      BY <1>2, <2>2, <3>1, <3>2
  <2>4. client[c].txn # "aborted"
    BY <1>4
  <2>5. Ends(c, verdict)
    BY <2>1, <2>2, <2>3, <2>4, Zenon DEF Ends
  <2>6. /\ next_id \in Nat /\ next_txid \in Nat /\ next_id <= next_id' /\ next_txid <= next_txid'
        /\ next_id' \in 1..(MaxRowId + 1)
    BY <1>1, <2>2 DEF TypeInv
  <2>7. TypeInv'
    BY <1>1, <2>3, <2>5, <2>6, EndTypes, Zenon
  <2>8. TxInv'
    BY <1>1, <2>5, EndKeepsTx, Zenon
  <2>9. StoreInv'
    BY <1>1, <2>2, <2>6, StoreKept, Zenon
  <2>10. KeyInv'
    <3>1. db' \in AnyDb
      BY <1>1, <2>2, Zenon DEF StoreInv
    <3>2. \A t \in Tables : \A v \in db'.rows[t] : v.tx_min < next_txid /\ v.tx_max < next_txid
      BY <1>1, <2>2, Zenon DEF StoreInv
    <3>3. OneModifier => KeysApart(db, Views \cup {View(c)}) /\ Owners(db)
      BY <1>1, StatementFits, Zenon DEF Fits
    <3>4. OneModifier => KeysApart(db', Views \cup {View(c)}) /\ Owners(db')
      BY <2>2, <3>3, Zenon
    <3>5. \A t \in Tables : \A v \in db'.rows[t] :
             /\ v.tx_min < next_txid \/ v.tx_min = View(c).tx
             /\ v.tx_max < next_txid \/ v.tx_max = View(c).tx
      BY <3>2, Zenon
    <3> QED
      BY <1>1, <2>5, <3>1, <3>4, <3>5, EndKeepsKeys, Zenon
  <2> QED
    BY <2>7, <2>8, <2>9, <2>10, Zenon DEF ConstraintInv
<1>5. client[c].txn \in {"none", "open", "aborted"} /\ client[c].txn # "none"
  BY <1>2 DEF EndTxn
<1> QED
  BY <1>3, <1>4, <1>5

-----------------------------------------------------------------------------
(* Statements *)

\* A statement in a transaction that goes well leaves the transactions alone; any other
\* is also the end of one.
Quiet == UNCHANGED <<constraint_load, active, status, client, next_txid>>

LEMMA RunCases ==
  ASSUME TypeInv, TxInv, NEW c \in Clients, NEW r, r.next \in Nat, next_id <= r.next,
         client[c].txn # "aborted", Run(c, r)
  PROVE  /\ next_id' = r.next /\ constraint_load' = constraint_load
         /\ next_id' \in 1..(MaxRowId + 1)
         /\ Open(c) \/ next_txid <= MaxTxId
         /\ r.ok => db' = r.db
         /\ ~r.ok => db' = db
         /\ (r.ok /\ Open(c) /\ Quiet) \/ \E verdict : Ends(c, verdict)
         /\ client' \in [Clients -> [txn : {"none", "open", "aborted"}, tx : 0..MaxTxId,
                                     high : 0..MaxTxId, others : SUBSET TxIds]]
<1>1. /\ next_id \in 1..(MaxRowId + 1) /\ next_txid \in 1..(MaxTxId + 1)
      /\ active \subseteq TxIds
      /\ client \in [Clients -> [txn : {"none", "open", "aborted"}, tx : 0..MaxTxId,
                                 high : 0..MaxTxId, others : SUBSET TxIds]]
  BY DEF TypeInv
<1>2. constraint_load.txs \in 0..MaxTxId /\ constraint_load.ids \in 0..MaxRowId
  BY ConstraintConstants DEF TypeInv
<1>3. next_id' = r.next /\ constraint_load' = constraint_load /\ r.next <= constraint_load.ids + 1
  BY DEF Run
<1>4. (r.ok => db' = r.db) /\ (~r.ok => db' = db)
  BY DEF Run
<1>5. next_id' \in 1..(MaxRowId + 1)
  BY <1>1, <1>2, <1>3, Numbers
<1>6. CASE Open(c) /\ r.ok
  <2>1. Quiet
    BY <1>3, <1>6 DEF Run, Quiet, Open
  <2>2. client' = client
    BY <2>1 DEF Quiet
  <2> QED
    BY <1>1, <1>3, <1>4, <1>5, <1>6, <2>1, <2>2, Zenon
<1>7. CASE Open(c) /\ ~r.ok
  <2>1. /\ active' = active \ {client[c].tx}
        /\ status' = [status EXCEPT ![client[c].tx] = "rolled_back"]
        /\ client' = [client EXCEPT ![c].txn = "aborted"]
        /\ next_txid' = next_txid
    BY <1>7 DEF Run, Open
  <2>2. View(c) = client[c]
    BY <1>7, ViewParts, Zenon
  <2>3. /\ client'[c].txn = "aborted" /\ client'[c].tx = client[c].tx
        /\ \A b \in Clients : b # c => client'[b] = client[b]
        /\ client' \in [Clients -> [txn : {"none", "open", "aborted"}, tx : 0..MaxTxId,
                                    high : 0..MaxTxId, others : SUBSET TxIds]]
    BY <1>1, <2>1
  <2>4. "rolled_back" \in {"committed", "rolled_back"} /\ "rolled_back" = "rolled_back"
    OBVIOUS
  <2>5. Ends(c, "rolled_back")
    BY <1>3, <1>7, <2>1, <2>2, <2>3, <2>4, Zenon DEF Ends
  <2> QED
    BY <1>3, <1>4, <1>5, <1>7, <2>3, <2>5, Zenon
<1>8. CASE ~Open(c)
  <2> DEFINE verdict == IF r.ok THEN "committed" ELSE "rolled_back"
  <2>1. /\ active' = active /\ client' = client
        /\ status' = [status EXCEPT ![next_txid] = verdict]
        /\ next_txid' = next_txid + 1 /\ next_txid <= constraint_load.txs
    BY <1>8 DEF Run, Open
  <2>2. View(c).tx = next_txid
    BY <1>8, ViewParts, Zenon
  <2>3. verdict \in {"committed", "rolled_back"}
    OBVIOUS
  <2> HIDE DEF verdict
  <2>4. client[c].txn = "none"
    <3>1. client[c].txn \in {"none", "open", "aborted"}
      BY <1>1
    <3> QED
      BY <1>8, <3>1 DEF Open
  <2>5. next_txid <= MaxTxId
    BY <1>1, <1>2, <2>1, Numbers
  <2>6. next_txid \notin active
    <3>1. ASSUME next_txid \in active PROVE FALSE
      <4>1. PICK b \in Clients : Open(b) /\ client[b].tx = next_txid
        BY <1>1, <3>1, Zenon DEF TxInv
      <4>2. client[b].tx < next_txid
        BY <4>1, OpenSees, Zenon
      <4> QED
        BY <1>1, <4>1, <4>2
    <3> QED
      BY <3>1
  <2>7. active' = active \ {View(c).tx}
    BY <2>1, <2>2, <2>6
  <2>8. client'[c].txn = "none" /\ \A b \in Clients : b # c => client'[b] = client[b]
    BY <2>1, <2>4
  <2>9. Ends(c, verdict)
    BY <1>3, <1>8, <2>1, <2>2, <2>3, <2>5, <2>7, <2>8, Zenon DEF Ends
  <2> QED
    BY <1>1, <1>3, <1>4, <1>5, <2>1, <2>5, <2>9, Zenon
<1> QED
  BY <1>6, <1>7, <1>8

LEMMA QuietKeeps ==
  ASSUME TypeInv, TxInv, Quiet, next_id' \in 1..(MaxRowId + 1)
  PROVE  /\ TypeInv' /\ TxInv' /\ Views' = Views
         /\ \A b \in Clients : View(b)' = View(b)
         /\ constraint_load' = constraint_load /\ status' = status /\ next_txid' = next_txid
<1>1. /\ constraint_load' = constraint_load /\ active' = active /\ status' = status
      /\ client' = client /\ next_txid' = next_txid
  BY DEF Quiet
<1>2. TypeInv'
  BY <1>1 DEF TypeInv
<1>3. TxInv'
  BY <1>1 DEF TxInv, Open
<1>4. Views' = Views
  BY <1>1 DEF Views, FreshView
<1>5. \A b \in Clients : View(b)' = View(b)
  BY <1>1 DEF View, FreshView
<1> QED
  BY <1>1, <1>2, <1>3, <1>4, <1>5, Zenon

LEMMA RunKeeps ==
  ASSUME ConstraintInv, NEW c \in Clients, NEW r, client[c].txn # "aborted",
         Result(c, r), Run(c, r)
  PROVE  ConstraintInv'
<1> DEFINE tx == View(c).tx
           views == Views \cup {View(c)}
<1>1. TypeInv /\ TxInv /\ StoreInv /\ KeyInv
  BY Zenon DEF ConstraintInv
<1>2. next_id \in Nat /\ next_txid \in Nat
  BY <1>1, Numbers DEF TypeInv
<1>3. PICK moved \in SUBSET Tables : r \in Outcome(View(c), views, db, next_id, moved)
  BY Zenon DEF Result
<1>4. /\ r \in AnyResult /\ next_id <= r.next
      /\ r.ok => Fits(View(c), views, r.db, r.next)
  BY <1>3, Zenon DEF Outcome
<1>5. r.next \in Nat
  BY <1>4 DEF AnyResult
<1>6. /\ next_id' = r.next /\ constraint_load' = constraint_load
      /\ next_id' \in 1..(MaxRowId + 1)
      /\ Open(c) \/ next_txid <= MaxTxId
      /\ r.ok => db' = r.db
      /\ ~r.ok => db' = db
      /\ (r.ok /\ Open(c) /\ Quiet) \/ \E verdict : Ends(c, verdict)
      /\ client' \in [Clients -> [txn : {"none", "open", "aborted"}, tx : 0..MaxTxId,
                                  high : 0..MaxTxId, others : SUBSET TxIds]]
  BY <1>1, <1>4, <1>5, RunCases, Zenon
<1>7. next_id' \in Nat /\ next_id <= next_id'
  BY <1>4, <1>5, <1>6, Zenon
\* The transactions.
<1>8. /\ TypeInv' /\ TxInv'
      /\ next_txid' \in Nat /\ next_txid <= next_txid' /\ tx < next_txid'
  <2>1. CASE Open(c) /\ Quiet
    <3>1. TypeInv' /\ TxInv' /\ next_txid' = next_txid
      BY <1>1, <1>6, <2>1, QuietKeeps, Zenon
    <3>2. tx < next_txid
      BY <1>1, <2>1, OpenSees, ViewParts, Zenon
    <3> QED
      BY <1>2, <3>1, <3>2
  <2>2. CASE \E verdict : Ends(c, verdict)
    <3>1. PICK verdict : Ends(c, verdict)
      BY <2>2
    <3>2. TypeInv'
      BY <1>1, <1>6, <3>1, EndTypes, Zenon
    <3>3. TxInv'
      BY <1>1, <3>1, EndKeepsTx, Zenon
    <3>4. next_txid' \in Nat /\ next_txid <= next_txid' /\ tx < next_txid'
      BY <1>1, <3>1, EndFacts, Zenon
    <3> QED
      BY <3>2, <3>3, <3>4, Zenon
  <2> QED
    BY <1>6, <2>1, <2>2, Zenon
\* The rows: those of the statement, or those from before it.
<1>9. db' \in AnyDb
  <2>1. CASE r.ok
    BY <1>4, <1>6, <2>1, Zenon DEF Fits, Good
  <2>2. CASE ~r.ok
    BY <1>1, <1>6, <2>2, Zenon DEF StoreInv
  <2> QED
    BY <2>1, <2>2
<1>10. \A t \in Tables : \A v \in db'.rows[t] :
          /\ v.tx_min < next_txid \/ v.tx_min = tx
          /\ v.tx_max < next_txid \/ v.tx_max = tx
  <2>1. CASE r.ok
    <3>1. Stamps(r.db, View(c))
      BY <1>4, <2>1, Zenon DEF Fits, Good
    <3> QED
      BY <1>6, <2>1, <3>1, Zenon DEF Stamps
  <2>2. CASE ~r.ok
    <3>1. \A t \in Tables : \A v \in db.rows[t] : v.tx_min < next_txid /\ v.tx_max < next_txid
      BY <1>1, Zenon DEF StoreInv
    <3> QED
      BY <1>6, <2>2, <3>1, Zenon
  <2> QED
    BY <2>1, <2>2
<1>11. OneModifier => KeysApart(db', views) /\ Owners(db')
  <2>1. CASE r.ok
    <3>1. OneModifier => KeysApart(r.db, views) /\ Owners(r.db)
      BY <1>4, <2>1, Zenon DEF Fits
    <3> QED
      BY <1>6, <2>1, <3>1, Zenon
  <2>2. CASE ~r.ok
    <3>1. OneModifier => KeysApart(db, views) /\ Owners(db)
      BY <1>1, StatementFits, Zenon DEF Fits
    <3> QED
      BY <1>6, <2>2, <3>1, Zenon
  <2> QED
    BY <2>1, <2>2
<1>12. StoreInv'
  <2>1. CASE ~r.ok
    BY <1>1, <1>6, <1>7, <1>8, <2>1, StoreKept, Zenon
  <2>2. CASE r.ok
    <3>1. db' = r.db /\ Entries(r.db) /\ Ids(r.db, r.next)
      BY <1>4, <1>6, <2>2, Zenon DEF Fits, Good
    <3>2. Entries(db')
      BY <3>1, Zenon
    <3>3. Ids(db', next_id')
      BY <1>6, <3>1, Zenon
    <3>4. ASSUME NEW t \in Tables, NEW v \in db'.rows[t]
          PROVE  v.tx_min < next_txid' /\ v.tx_max < next_txid'
      <4>1. v \in AnyVersion
        BY <1>9, <3>4, DbParts, Zenon
      <4>2. v.tx_min \in TxIds /\ v.tx_max \in 0..MaxTxId
        BY <4>1 DEF AnyVersion
      <4>3. TxIds \subseteq Nat /\ 0..MaxTxId \subseteq Nat
        BY Numbers
      <4>4. v.tx_min \in Nat /\ v.tx_max \in Nat
        BY <4>2, <4>3, Zenon
      <4>5. /\ v.tx_min < next_txid \/ v.tx_min = tx
            /\ v.tx_max < next_txid \/ v.tx_max = tx
        BY <1>10, <3>4, Zenon
      <4> HIDE DEF tx
      <4> QED
        BY <1>2, <1>8, <4>4, <4>5
    <3> QED
      BY <1>6, <1>9, <3>2, <3>3, <3>4, StoreNext, Zenon
  <2> QED
    BY <2>1, <2>2
<1>13. KeyInv'
  <2>1. CASE Quiet
    <3>1. /\ constraint_load' = constraint_load /\ status' = status /\ Views' = Views
          /\ \A b \in Clients : View(b)' = View(b)
      BY <1>1, <1>6, <2>1, QuietKeeps, Zenon
    <3> QED
      BY <1>9, <1>11, <3>1, SameViewsKeep, Zenon
  <2>2. CASE \E verdict : Ends(c, verdict)
    <3>1. PICK verdict : Ends(c, verdict)
      BY <2>2
    <3> QED
      BY <1>1, <1>9, <1>10, <1>11, <3>1, EndKeepsKeys, Zenon
  <2> QED
    BY <1>6, <2>1, <2>2, Zenon
<1> QED
  BY <1>8, <1>12, <1>13, Zenon DEF ConstraintInv

LEMMA StatementKeeps ==
  ASSUME ConstraintInv, NEW c \in Clients, NEW t \in Tables
  PROVE  /\ \A key \in KeyValues, ref \in KeyValues \cup {Null} :
               InsertStmt(c, t, key, ref) => ConstraintInv'
         /\ \A which \in KeyValues, key \in KeyValues, ref \in KeyValues \cup {Null} :
               UpdateStmt(c, t, which, key, ref) => ConstraintInv'
         /\ \A which \in KeyValues : DeleteStmt(c, t, which) => ConstraintInv'
<1> DEFINE Rows(which) == {v \in SeenRows(db, t, View(c)) : v.key = which}
<1>1. TypeInv /\ TxInv /\ StoreInv /\ KeyInv
  BY Zenon DEF ConstraintInv
<1>2. ASSUME NEW r, Run(c, r) PROVE Open(c) \/ next_txid <= MaxTxId
  <2>1. constraint_load.txs \in 0..MaxTxId /\ next_txid \in 1..(MaxTxId + 1)
    BY <1>1, ConstraintConstants DEF TypeInv
  <2>2. Open(c) \/ next_txid <= constraint_load.txs
    BY <1>2 DEF Run, Open
  <2> QED
    BY <2>1, <2>2, Numbers
<1>3. ASSUME NEW key \in KeyValues, NEW ref \in KeyValues \cup {Null}, InsertStmt(c, t, key, ref)
      PROVE  ConstraintInv'
  <2> DEFINE r == Insert(db, next_id, t, key, ref, View(c))
  <2>1. Run(c, r) /\ client[c].txn # "aborted"
    BY <1>3, Zenon DEF InsertStmt, Writes
  <2>2. Open(c) \/ next_txid <= MaxTxId
    BY <1>2, <2>1, Zenon
  <2>3. Result(c, r)
    BY <1>1, <2>2, StatementResults, Zenon
  <2> QED
    BY <2>1, <2>3, RunKeeps, Zenon
<1>4. ASSUME NEW which \in KeyValues, NEW key \in KeyValues, NEW ref \in KeyValues \cup {Null},
             UpdateStmt(c, t, which, key, ref)
      PROVE  ConstraintInv'
  <2> DEFINE r == UpdateRows(db, next_id, t, Rows(which), key, ref, View(c))
  <2>1. Run(c, r) /\ client[c].txn # "aborted" /\ <<t, "update">> \in constraint_load.writes[c]
    BY <1>4, Zenon DEF UpdateStmt, Writes
  <2>2. Open(c) \/ next_txid <= MaxTxId
    BY <1>2, <2>1, Zenon
  <2>3. Result(c, r)
    BY <1>1, <2>1, <2>2, StatementResults, Zenon
  <2> QED
    BY <2>1, <2>3, RunKeeps, Zenon
<1>5. ASSUME NEW which \in KeyValues, DeleteStmt(c, t, which) PROVE ConstraintInv'
  <2> DEFINE r == Delete(db, next_id, t, Rows(which), View(c))
  <2>1. Run(c, r) /\ client[c].txn # "aborted" /\ <<t, "delete">> \in constraint_load.writes[c]
    BY <1>5, Zenon DEF DeleteStmt, Writes
  <2>2. Open(c) \/ next_txid <= MaxTxId
    BY <1>2, <2>1, Zenon
  <2>3. Result(c, r)
    BY <1>1, <2>1, <2>2, StatementResults, Zenon
  <2> QED
    BY <2>1, <2>3, RunKeeps, Zenon
<1> QED
  BY <1>3, <1>4, <1>5, Zenon

-----------------------------------------------------------------------------
(* Reclaiming, VACUUM, tables *)

\* A step that takes rows away with their entries.
LEMMA FewerRows ==
  ASSUME ConstraintInv, Quiet, next_id' = next_id, db' \in AnyDb, Entries(db'),
         \A t \in Tables : db'.rows[t] \subseteq db.rows[t]
  PROVE  ConstraintInv'
<1>1. TypeInv /\ TxInv /\ StoreInv /\ KeyInv
  BY Zenon DEF ConstraintInv
<1>2. next_id \in 1..(MaxRowId + 1) /\ next_id' \in 1..(MaxRowId + 1)
  BY <1>1 DEF TypeInv
<1>3. /\ TypeInv' /\ TxInv' /\ Views' = Views
      /\ \A b \in Clients : View(b)' = View(b)
      /\ constraint_load' = constraint_load /\ status' = status /\ next_txid' = next_txid
  BY <1>1, <1>2, QuietKeeps, Zenon
<1>4. Ids(db', next_id')
  <2>1. Ids(db, next_id)
    BY <1>1, Zenon DEF StoreInv
  <2>2. ASSUME NEW t \in Tables, NEW v \in db'.rows[t]
        PROVE  v.id < next_id' /\ \A w \in db'.rows[t] : v.id = w.id => v = w
    <3>1. v \in db.rows[t] /\ \A w \in db'.rows[t] : w \in db.rows[t]
      BY <2>2, Zenon
    <3> QED
      BY <2>1, <3>1, Zenon DEF Ids
  <2> QED
    BY <2>2, Zenon DEF Ids
<1>5. StoreInv'
  <2>1. \A t \in Tables : \A v \in db'.rows[t] : v.tx_min < next_txid' /\ v.tx_max < next_txid'
    BY <1>1, <1>3, Zenon DEF StoreInv
  <2> QED
    BY <1>3, <1>4, <2>1, StoreNext, Zenon
<1>6. ASSUME OneModifier PROVE KeysApart(db', Views) /\ Owners(db')
  <2>1. KeysApart(db, Views) /\ Owners(db)
    BY <1>1, <1>6, Zenon DEF KeyInv
  <2>2. KeysApart(db', Views)
    BY <2>1, Zenon DEF KeysApart
  <2>3. Owners(db')
    BY <2>1, Zenon DEF Owners, Owned
  <2> QED
    BY <2>2, <2>3
<1>7. OneModifier => KeysApart(db', Views \cup {}) /\ Owners(db')
  <2>1. Views \cup {} = Views
    OBVIOUS
  <2> QED
    BY <1>6, <2>1, Zenon
<1>8. KeyInv'
  BY <1>3, <1>7, SameViewsKeep, Zenon
<1> QED
  BY <1>3, <1>5, <1>8, Zenon DEF ConstraintInv

\* Row IDs are unique, so an entry goes exactly when its row does.
LEMMA RemoveRowsParts ==
  ASSUME NEW d \in AnyDb, NEW n, Entries(d), Ids(d, n), NEW t \in Tables,
         NEW gone, gone \subseteq d.rows[t]
  PROVE  /\ RemoveRows(d, t, gone) \in AnyDb
         /\ Entries(RemoveRows(d, t, gone)) /\ Ids(RemoveRows(d, t, gone), n)
         /\ RemoveRows(d, t, gone).rows[t] = d.rows[t] \ gone
         /\ RemoveRows(d, t, gone).row_count = d.row_count
         /\ \A u \in Tables : u # t => RemoveRows(d, t, gone).rows[u] = d.rows[u]
         /\ \A u \in Tables : RemoveRows(d, t, gone).rows[u] \subseteq d.rows[u]
<1> DEFINE e == RemoveRows(d, t, gone)
           ids == {v.id : v \in gone}
           rows == d.rows[t] \ gone
           pk == {x \in d.pk[t] : x[2] \notin ids}
           fk == {x \in d.fk[t] : x[2] \notin ids}
<1>1. /\ d.tables \subseteq Tables /\ d.rows \in [Tables -> AnyRows]
      /\ d.pk \in [Tables -> SUBSET (KeyValues \X (Nat \ {0}))]
      /\ d.fk \in [Tables -> SUBSET ((KeyValues \cup {Null}) \X (Nat \ {0}))]
      /\ d.row_count \in [Tables -> Nat]
  BY DEF AnyDb
<1>2. rows \in AnyRows
  <2>1. d.rows[t] \subseteq AnyVersion /\ IsFiniteSet(d.rows[t])
    BY DbParts, Zenon
  <2>2. IsFiniteSet(rows)
    BY <2>1, FS_Difference, Zenon
  <2> QED
    BY <2>1, <2>2, Zenon DEF AnyRows
<1>3. e = [d EXCEPT !.rows[t] = rows, !.pk[t] = pk, !.fk[t] = fk]
  BY DEF RemoveRows
<1>4. pk \subseteq d.pk[t] /\ fk \subseteq d.fk[t]
  BY Zenon
<1>5. \A v \in d.rows[t] : v.id \in ids <=> v \in gone
  <2>1. \A v, w \in d.rows[t] : v.id = w.id => v = w
    BY Zenon DEF Ids
  <2> QED
    BY <2>1, Zenon
<1>6. pk = Keyed(rows)
  <2>1. d.pk[t] = {<<v.key, v.id>> : v \in d.rows[t]}
    BY Zenon DEF Entries, Keyed
  <2>2. Keyed(rows) = {<<v.key, v.id>> : v \in rows}
    BY DEF Keyed
  <2>3. ASSUME NEW x \in pk PROVE x \in Keyed(rows)
    <3>1. PICK v \in d.rows[t] : x = <<v.key, v.id>>
      BY <2>1, <2>3, Zenon
    <3>2. v.id \notin ids
      BY <2>3, <3>1
    <3> QED
      BY <1>5, <2>2, <3>1, <3>2, Zenon
  <2>4. ASSUME NEW x \in Keyed(rows) PROVE x \in pk
    <3>1. PICK v \in rows : x = <<v.key, v.id>>
      BY <2>2, <2>4, Zenon
    <3>2. v.id \notin ids /\ v \in d.rows[t]
      BY <1>5, <3>1, Zenon
    <3>3. x[2] = v.id
      BY <3>1
    <3>4. x \in d.pk[t]
      BY <2>1, <3>1, <3>2, Zenon
    <3> QED
      BY <3>2, <3>3, <3>4, Zenon
  <2> QED
    BY <2>3, <2>4, Zenon
<1>7. fk = Referring(t, rows)
  <2>1. CASE ~Indexed(t)
    <3>1. d.fk[t] = {}
      BY <2>1, Zenon DEF Entries, Referring
    <3>2. Referring(t, rows) = {}
      BY <2>1, Zenon DEF Referring
    <3> QED
      BY <3>1, <3>2, Zenon
  <2>2. CASE Indexed(t)
    <3>1. d.fk[t] = {<<v.ref, v.id>> : v \in d.rows[t]}
      BY <2>2, Zenon DEF Entries, Referring
    <3>2. Referring(t, rows) = {<<v.ref, v.id>> : v \in rows}
      BY <2>2, Zenon DEF Referring
    <3>3. ASSUME NEW x \in fk PROVE x \in Referring(t, rows)
      <4>1. PICK v \in d.rows[t] : x = <<v.ref, v.id>>
        BY <3>1, <3>3, Zenon
      <4>2. v.id \notin ids
        BY <3>3, <4>1
      <4> QED
        BY <1>5, <3>2, <4>1, <4>2, Zenon
    <3>4. ASSUME NEW x \in Referring(t, rows) PROVE x \in fk
      <4>1. PICK v \in rows : x = <<v.ref, v.id>>
        BY <3>2, <3>4, Zenon
      <4>2. v.id \notin ids /\ v \in d.rows[t]
        BY <1>5, <4>1, Zenon
      <4>3. x[2] = v.id
        BY <4>1
      <4>4. x \in d.fk[t]
        BY <3>1, <4>1, <4>2, Zenon
      <4> QED
        BY <4>2, <4>3, <4>4, Zenon
    <3> QED
      BY <3>3, <3>4, Zenon
  <2> QED
    BY <2>1, <2>2
<1> HIDE DEF e, rows, pk, fk
<1>8. /\ e.tables = d.tables /\ e.row_count = d.row_count
      /\ e.rows = [d.rows EXCEPT ![t] = rows]
      /\ e.pk = [d.pk EXCEPT ![t] = pk]
      /\ e.fk = [d.fk EXCEPT ![t] = fk]
      /\ e = [tables |-> e.tables, rows |-> e.rows, pk |-> e.pk, fk |-> e.fk,
              row_count |-> e.row_count]
  BY <1>3 DEF AnyDb
<1>9. /\ e.rows[t] = rows /\ e.pk[t] = pk /\ e.fk[t] = fk
      /\ \A u \in Tables : u # t => e.rows[u] = d.rows[u] /\ e.pk[u] = d.pk[u] /\ e.fk[u] = d.fk[u]
  BY <1>1, <1>8
<1>10. e \in AnyDb
  <2>1. e.rows \in [Tables -> AnyRows]
    BY <1>1, <1>2, <1>8
  <2>2. e.pk \in [Tables -> SUBSET (KeyValues \X (Nat \ {0}))]
    BY <1>1, <1>4, <1>8
  <2>3. e.fk \in [Tables -> SUBSET ((KeyValues \cup {Null}) \X (Nat \ {0}))]
    BY <1>1, <1>4, <1>8
  <2> QED
    BY <1>1, <1>8, <2>1, <2>2, <2>3 DEF AnyDb
<1>11. Entries(e)
  <2>1. ASSUME NEW u \in Tables
        PROVE  e.pk[u] = Keyed(e.rows[u]) /\ e.fk[u] = Referring(u, e.rows[u])
    <3>1. CASE u = t
      BY <1>6, <1>7, <1>9, <3>1, Zenon
    <3>2. CASE u # t
      BY <1>9, <3>2, Zenon DEF Entries
    <3> QED
      BY <3>1, <3>2
  <2> QED
    BY <2>1, Zenon DEF Entries
<1>12. ASSUME NEW u \in Tables PROVE e.rows[u] \subseteq d.rows[u]
  <2>1. CASE u = t
    BY <1>9, <2>1, Zenon DEF rows
  <2>2. CASE u # t
    BY <1>9, <2>2, Zenon
  <2> QED
    BY <2>1, <2>2
<1>13. Ids(e, n)
  BY <1>12, Zenon DEF Ids
<1> QED
  BY <1>8, <1>9, <1>10, <1>11, <1>12, <1>13, Zenon DEF e, rows

\* Nothing but the count.
LEMMA RecountParts ==
  ASSUME NEW d \in AnyDb, NEW t \in Tables, NEW k \in Nat, Entries(d)
  PROVE  /\ [d EXCEPT !.row_count[t] = k] \in AnyDb
         /\ Entries([d EXCEPT !.row_count[t] = k])
         /\ [d EXCEPT !.row_count[t] = k].rows = d.rows
<1> DEFINE e == [d EXCEPT !.row_count[t] = k]
<1>1. e \in AnyDb /\ e.rows = d.rows /\ e.pk = d.pk /\ e.fk = d.fk
  BY DEF AnyDb
<1> HIDE DEF e
<1>2. Entries(e)
  BY <1>1, Zenon DEF Entries
<1> QED
  BY <1>1, <1>2, Zenon DEF e

LEMMA ReclaimKeeps ==
  ASSUME ConstraintInv, NEW t \in Tables, ReclaimTable(t)
  PROVE  ConstraintInv'
<1> DEFINE rolled_back == {v \in db.rows[t] : v.tx_min < OldestActive /\ RolledBackInsert(v)}
           tombstones  == {v \in db.rows[t] : v.tx_max < OldestActive /\ CommittedTombstone(v)}
           gone == rolled_back \cup tombstones
           d == RemoveRows(db, t, gone)
           k == Max({0, d.row_count[t] - Cardinality(rolled_back \ tombstones)})
<1>1. db \in AnyDb /\ Entries(db) /\ Ids(db, next_id)
  BY Zenon DEF ConstraintInv, StoreInv
<1>2. gone \subseteq db.rows[t] /\ (rolled_back \ tombstones) \subseteq db.rows[t]
  BY Zenon
<1>3. db' = [d EXCEPT !.row_count[t] = k] /\ next_id' = next_id /\ Quiet
  BY DEF ReclaimTable, Quiet
<1>4. Cardinality(rolled_back \ tombstones) \in Nat
  <2>1. IsFiniteSet(db.rows[t])
    BY <1>1, DbParts, Zenon
  <2>2. IsFiniteSet(rolled_back \ tombstones)
    BY <1>2, <2>1, FS_Subset, Zenon
  <2> QED
    BY <2>2, FS_CardinalityType, Zenon
<1> HIDE DEF rolled_back, tombstones
<1>5. /\ d \in AnyDb /\ Entries(d)
      /\ \A u \in Tables : d.rows[u] \subseteq db.rows[u]
  BY <1>1, <1>2, RemoveRowsParts, Zenon
<1> HIDE DEF gone, d
<1>6. k \in Nat
  <2>1. d.row_count[t] \in Nat
    BY <1>5, DbParts, Zenon
  <2> QED
    BY <1>4, <2>1, CountNat, Zenon
<1> HIDE DEF k
<1>7. db' \in AnyDb /\ Entries(db') /\ db'.rows = d.rows
  <2>1. /\ [d EXCEPT !.row_count[t] = k] \in AnyDb /\ Entries([d EXCEPT !.row_count[t] = k])
        /\ [d EXCEPT !.row_count[t] = k].rows = d.rows
    BY <1>5, <1>6, RecountParts, Zenon
  <2> DEFINE e == [d EXCEPT !.row_count[t] = k]
  <2>2. e \in AnyDb /\ Entries(e) /\ e.rows = d.rows /\ db' = e
    BY <1>3, <2>1, Zenon
  <2> HIDE DEF e
  <2>3. Entries(db')
    <3>1. \A u \in Tables : e.pk[u] = Keyed(e.rows[u]) /\ e.fk[u] = Referring(u, e.rows[u])
      BY <2>2, Zenon DEF Entries
    <3>2. \A u \in Tables : db'.pk[u] = Keyed(db'.rows[u]) /\ db'.fk[u] = Referring(u, db'.rows[u])
      BY <2>2, <3>1, Zenon
    <3> QED
      BY <3>2, Zenon DEF Entries
  <2> QED
    BY <2>2, <2>3, Zenon
<1>8. \A u \in Tables : db'.rows[u] \subseteq db.rows[u]
  BY <1>5, <1>7, Zenon
<1> QED
  BY <1>3, <1>7, <1>8, FewerRows, Zenon

LEMMA VacuumKeeps ==
  ASSUME ConstraintInv, Vacuum
  PROVE  ConstraintInv'
<1> DEFINE Dead(t) == {v \in db.rows[t] : RolledBackInsert(v) \/ CommittedTombstone(v)}
           d == RemoveRows(db, "parent", Dead("parent"))
           e == RemoveRows(d, "child", Dead("child"))
           f == RemoveRows(e, "grand", Dead("grand"))
<1>1. db \in AnyDb /\ Entries(db) /\ Ids(db, next_id)
  BY Zenon DEF ConstraintInv, StoreInv
<1>2. \A t : Dead(t) \subseteq db.rows[t]
  BY Zenon
<1>3. db' = f /\ next_id' = next_id /\ Quiet
  BY DEF Vacuum, Quiet
<1>4. "parent" \in Tables /\ "child" \in Tables /\ "grand" \in Tables
      /\ "child" # "parent" /\ "grand" # "parent" /\ "grand" # "child"
  BY DEF Tables
<1> HIDE DEF Dead
<1>5. /\ d \in AnyDb /\ Entries(d) /\ Ids(d, next_id)
      /\ \A u \in Tables : d.rows[u] \subseteq db.rows[u]
      /\ \A u \in Tables : u # "parent" => d.rows[u] = db.rows[u]
  <2>1. "parent" \in Tables /\ Dead("parent") \subseteq db.rows["parent"]
    BY <1>2, <1>4, Zenon
  <2> QED
    BY <1>1, <2>1, RemoveRowsParts
<1> HIDE DEF d
<1>6. Dead("child") \subseteq d.rows["child"] /\ Dead("grand") \subseteq d.rows["grand"]
  <2>1. d.rows["child"] = db.rows["child"] /\ d.rows["grand"] = db.rows["grand"]
    BY <1>4, <1>5, Zenon
  <2> QED
    BY <1>2, <2>1, Zenon
<1>7. /\ e \in AnyDb /\ Entries(e) /\ Ids(e, next_id)
      /\ \A u \in Tables : e.rows[u] \subseteq d.rows[u]
      /\ \A u \in Tables : u # "child" => e.rows[u] = d.rows[u]
  <2>1. "child" \in Tables
    BY <1>4, Zenon
  <2> QED
    BY <1>5, <1>6, <2>1, RemoveRowsParts
<1> HIDE DEF e
<1>8. Dead("grand") \subseteq e.rows["grand"]
  <2>1. e.rows["grand"] = d.rows["grand"]
    BY <1>4, <1>7, Zenon
  <2> QED
    BY <1>6, <2>1, Zenon
<1>9. /\ f \in AnyDb /\ Entries(f)
      /\ \A u \in Tables : f.rows[u] \subseteq e.rows[u]
  BY <1>4, <1>7, <1>8, RemoveRowsParts, Zenon
<1> HIDE DEF f
<1>10. db' \in AnyDb /\ \A u \in Tables : db'.rows[u] \subseteq db.rows[u]
  BY <1>3, <1>5, <1>7, <1>9, Zenon
<1>11. Entries(db')
  <2>1. \A u \in Tables : f.pk[u] = Keyed(f.rows[u]) /\ f.fk[u] = Referring(u, f.rows[u])
    BY <1>9, Zenon DEF Entries
  <2>2. \A u \in Tables : db'.pk[u] = Keyed(db'.rows[u]) /\ db'.fk[u] = Referring(u, db'.rows[u])
    BY <1>3, <2>1, Zenon
  <2> QED
    BY <2>2, Zenon DEF Entries
<1> QED
  BY <1>3, <1>10, <1>11, FewerRows, Zenon

LEMMA CreateKeeps ==
  ASSUME ConstraintInv, NEW t \in Tables, CreateTable(t)
  PROVE  ConstraintInv'
<1>1. db \in AnyDb /\ Entries(db)
  BY Zenon DEF ConstraintInv, StoreInv
<1>2. db' = [db EXCEPT !.tables = @ \cup {t}] /\ next_id' = next_id /\ Quiet
  BY DEF CreateTable, Quiet
<1>3. db' \in AnyDb /\ db'.rows = db.rows /\ db'.pk = db.pk /\ db'.fk = db.fk
  BY <1>1, <1>2 DEF AnyDb
<1>4. Entries(db')
  <2>1. \A u \in Tables : db.pk[u] = Keyed(db.rows[u]) /\ db.fk[u] = Referring(u, db.rows[u])
    BY <1>1, Zenon DEF Entries
  <2>2. \A u \in Tables : db'.pk[u] = Keyed(db'.rows[u]) /\ db'.fk[u] = Referring(u, db'.rows[u])
    BY <1>3, <2>1, Zenon
  <2> QED
    BY <2>2, Zenon DEF Entries
<1>5. \A u \in Tables : db'.rows[u] \subseteq db.rows[u]
  BY <1>3, Zenon
<1> QED
  BY <1>2, <1>3, <1>4, <1>5, FewerRows, Zenon

LEMMA DropKeeps ==
  ASSUME ConstraintInv, NEW t \in Tables, DropTable(t)
  PROVE  ConstraintInv'
<1>1. db \in AnyDb /\ Entries(db)
  BY Zenon DEF ConstraintInv, StoreInv
<1>2. /\ db' = [db EXCEPT !.tables = @ \ {t}, !.rows[t] = {}, !.pk[t] = {}, !.fk[t] = {},
                          !.row_count[t] = 0]
      /\ next_id' = next_id /\ Quiet
  BY DEF DropTable, Quiet
<1>3. {} \in AnyRows
  BY FS_EmptySet, Zenon DEF AnyRows
<1>4. /\ db'.rows = [db.rows EXCEPT ![t] = {}] /\ db'.pk = [db.pk EXCEPT ![t] = {}]
      /\ db'.fk = [db.fk EXCEPT ![t] = {}]
      /\ db'.row_count = [db.row_count EXCEPT ![t] = 0]
      /\ db'.tables = db.tables \ {t}
      /\ db' = [tables |-> db'.tables, rows |-> db'.rows, pk |-> db'.pk, fk |-> db'.fk,
                row_count |-> db'.row_count]
  BY <1>1, <1>2 DEF AnyDb
<1>5. db' \in AnyDb
  <2>1. /\ db'.rows \in [Tables -> AnyRows] /\ db'.tables \in SUBSET Tables
        /\ db'.row_count \in [Tables -> Nat]
    BY <1>1, <1>3, <1>4 DEF AnyDb
  <2>2. /\ db'.pk \in [Tables -> SUBSET (KeyValues \X (Nat \ {0}))]
        /\ db'.fk \in [Tables -> SUBSET ((KeyValues \cup {Null}) \X (Nat \ {0}))]
    BY <1>1, <1>4 DEF AnyDb
  <2> QED
    BY <1>4, <2>1, <2>2 DEF AnyDb
<1>6. /\ db'.rows[t] = {} /\ db'.pk[t] = {} /\ db'.fk[t] = {}
      /\ \A u \in Tables : u # t => /\ db'.rows[u] = db.rows[u] /\ db'.pk[u] = db.pk[u]
                                    /\ db'.fk[u] = db.fk[u]
  BY <1>1, <1>4 DEF AnyDb
<1>7. Entries(db')
  <2>1. ASSUME NEW u \in Tables
        PROVE  db'.pk[u] = Keyed(db'.rows[u]) /\ db'.fk[u] = Referring(u, db'.rows[u])
    <3>1. CASE u = t
      <4>1. Keyed({}) = {} /\ Referring(u, {}) = {}
        BY DEF Keyed, Referring
      <4> QED
        BY <1>6, <3>1, <4>1, Zenon
    <3>2. CASE u # t
      BY <1>1, <1>6, <3>2, Zenon DEF Entries
    <3> QED
      BY <3>1, <3>2
  <2> QED
    BY <2>1, Zenon DEF Entries
<1>8. \A u \in Tables : db'.rows[u] \subseteq db.rows[u]
  BY <1>6, Zenon
<1> QED
  BY <1>2, <1>5, <1>7, <1>8, FewerRows, Zenon

-----------------------------------------------------------------------------
(* The theorems *)

LEMMA InitMeets == ASSUME ConstraintInit PROVE ConstraintInv
<1>1. /\ constraint_load \in ConstraintWorkloads /\ next_id = 1 /\ next_txid = 1
      /\ active = {} /\ status = [x \in TxIds |-> "none"]
      /\ client = [c \in Clients |-> NoTransaction]
  BY DEF ConstraintInit
<1>2. NoTransaction \in [txn : {"none", "open", "aborted"}, tx : 0..MaxTxId,
                         high : 0..MaxTxId, others : SUBSET TxIds]
  BY Numbers DEF NoTransaction
<1>3. TypeInv
  BY <1>1, <1>2, Numbers DEF TypeInv
<1>4. \A c \in Clients : client[c].txn = "none" /\ ~Open(c)
  BY <1>1 DEF NoTransaction, Open
<1>5. TxInv
  <2>1. \A x \in TxIds : x >= next_txid /\ x \notin active /\ status[x] = "none"
    BY <1>1, Numbers
  <2>2. \A c \in Clients : client[c].txn # "aborted" /\ ~(client[c].txn # "none") /\ ~Open(c)
    BY <1>4
  <2> QED
    BY <2>1, <2>2, Zenon DEF TxInv
<1>6. \A t \in Tables : db.rows[t] = {} /\ db.pk[t] = {} /\ db.fk[t] = {}
  BY DEF ConstraintInit
<1>7. db \in AnyDb
  <2>1. {} \in AnyRows
    BY FS_EmptySet, Zenon DEF AnyRows
  <2> QED
    BY <2>1 DEF ConstraintInit, AnyDb
<1>8. Entries(db)
  <2>1. ASSUME NEW t \in Tables
        PROVE  db.pk[t] = Keyed(db.rows[t]) /\ db.fk[t] = Referring(t, db.rows[t])
    <3>1. Keyed({}) = {} /\ Referring(t, {}) = {}
      BY DEF Keyed, Referring
    <3> QED
      BY <1>6, <3>1, Zenon
  <2> QED
    BY <2>1, Zenon DEF Entries
<1>9. StoreInv
  BY <1>6, <1>7, <1>8, Zenon DEF StoreInv, Ids
<1>10. KeyInv
  BY <1>6, Zenon DEF KeyInv, KeysApart, Owners, Owned
<1> QED
  BY <1>3, <1>5, <1>9, <1>10, Zenon DEF ConstraintInv

LEMMA StutterKeeps ==
  ASSUME ConstraintInv, UNCHANGED constraintVars
  PROVE  ConstraintInv'
<1>1. Quiet /\ next_id' = next_id /\ db' = db
  BY DEF constraintVars, Quiet
<1>2. db \in AnyDb /\ Entries(db)
  BY Zenon DEF ConstraintInv, StoreInv
<1>3. Entries(db')
  <2>1. \A u \in Tables : db'.pk[u] = Keyed(db'.rows[u]) /\ db'.fk[u] = Referring(u, db'.rows[u])
    BY <1>1, <1>2, Zenon DEF Entries
  <2> QED
    BY <2>1, Zenon DEF Entries
<1>4. db' \in AnyDb /\ \A u \in Tables : db'.rows[u] \subseteq db.rows[u]
  BY <1>1, <1>2, Zenon
<1> QED
  BY <1>1, <1>3, <1>4, FewerRows, Zenon

LEMMA StepKeeps ==
  ASSUME ConstraintInv, [ConstraintNext]_constraintVars
  PROVE  ConstraintInv'
<1>1. ASSUME NEW c \in Clients, BeginTxn(c) PROVE ConstraintInv'
  BY <1>1, BeginKeeps, Zenon
<1>2. ASSUME NEW c \in Clients, NEW verdict \in {"committed", "rolled_back"}, EndTxn(c, verdict)
      PROVE  ConstraintInv'
  BY <1>2, EndKeeps, Zenon
<1>3. ASSUME NEW c \in Clients, NEW t \in Tables, NEW key \in KeyValues,
             NEW ref \in KeyValues \cup {Null}, InsertStmt(c, t, key, ref)
      PROVE  ConstraintInv'
  BY <1>3, StatementKeeps, Zenon
<1>4. ASSUME NEW c \in Clients, NEW t \in Tables, NEW key \in KeyValues,
             NEW ref \in KeyValues \cup {Null}, NEW which \in KeyValues,
             UpdateStmt(c, t, which, key, ref)
      PROVE  ConstraintInv'
  BY <1>4, StatementKeeps, Zenon
<1>5. ASSUME NEW c \in Clients, NEW t \in Tables, NEW which \in KeyValues,
             DeleteStmt(c, t, which)
      PROVE  ConstraintInv'
  BY <1>5, StatementKeeps, Zenon
<1>6. ASSUME NEW t \in Tables, ReclaimTable(t) PROVE ConstraintInv'
  BY <1>6, ReclaimKeeps, Zenon
<1>7. ASSUME NEW t \in Tables, CreateTable(t) PROVE ConstraintInv'
  BY <1>7, CreateKeeps, Zenon
<1>8. ASSUME NEW t \in Tables, DropTable(t) PROVE ConstraintInv'
  BY <1>8, DropKeeps, Zenon
<1>9. CASE Vacuum
  BY <1>9, VacuumKeeps, Zenon
<1>10. CASE UNCHANGED constraintVars
  BY <1>10, StutterKeeps, Zenon
<1> QED
  BY <1>1, <1>2, <1>3, <1>4, <1>5, <1>6, <1>7, <1>8, <1>9, <1>10, Zenon DEF ConstraintNext

LEMMA Invariance == ConstraintSpec => []ConstraintInv
<1>1. ConstraintInit => ConstraintInv
  BY InitMeets, Zenon
<1>2. ConstraintInv /\ [ConstraintNext]_constraintVars => ConstraintInv'
  BY StepKeeps, Zenon
<1> QED
  BY <1>1, <1>2, PTL DEF ConstraintSpec

\* Type correctness of the tables, their indexes and the connections; row IDs are unique
\* in a table, whatever fails half-way (executor.rs and database.rs).
THEOREM ConstraintTypeCorrect == ConstraintSpec => []ConstraintTypeOK
<1>1. ConstraintInv => ConstraintTypeOK
  BY TypeMeets, Zenon DEF ConstraintInv
<1> QED
  BY <1>1, Invariance, PTL

\* Every stored version has its entry in every index and every entry its version, through
\* INSERT, UPDATE and DELETE with CASCADE and SET NULL, failed statements, reclaim_dead_rows,
\* VACUUM and DROP TABLE: an index scan never meets an entry without its row.
THEOREM IndexesMatchRows == ConstraintSpec => []EntriesMatchRows
<1>1. ConstraintInv => EntriesMatchRows
  BY EntriesMeet, Zenon DEF ConstraintInv
<1> QED
  BY <1>1, Invariance, PTL

\* If one connection alone updates and deletes in each table that is ever updated, no
\* transaction sees two rows with one primary key, although the UNIQUE check
\* (index_insert_row_with_old) looks at entries of all versions and skips a key that stays.
THEOREM KeysStayUnique == ConstraintSpec => [](OneModifier => UniqueKeys)
<1>1. ConstraintInv => (OneModifier => UniqueKeys)
  BY KeysMeet, Zenon DEF ConstraintInv
<1> QED
  BY <1>1, Invariance, PTL

-----------------------------------------------------------------------------
(* References: what the rows of a statement leave of them *)

HasKey(view, d, t, key) == \E v \in SeenRows(d, t, view) : v.key = key

\* The keys of t that rows refer to are still there.
KeysStay(view, d, e, t) ==
    \A u \in ChildrenOf(t) : \A w \in SeenRows(d, u, view) :
        HasKey(view, d, t, w.ref) => HasKey(view, e, t, w.ref)

\* No reference is new, and none has lost its parent.
Kept(view, d, e) ==
    \A u \in Children : \A w \in SeenRows(e, u, view) :
        w.ref # Null =>
            /\ w \in SeenRows(d, u, view)
            /\ HasKey(view, d, ParentOf[u], w.ref) => HasKey(view, e, ParentOf[u], w.ref)

\* A reference is in a table that exists and in a row the statement can reach.
Sound(view, d) ==
    \A u \in Children : \A w \in SeenRows(d, u, view) :
        w.ref # Null => w.id <= MaxRowId /\ u \in d.tables

\* The children of t whose rows refer to it exist.
Placed(view, d, t) ==
    \A u \in ChildrenOf(t) : \A w \in SeenRows(d, u, view) : w.ref # Null => u \in d.tables

\* The rows up to the ID i are gone.
Cleared(view, e, t, rows, i) == \A v \in rows : v.id <= i => v \notin SeenRows(e, t, view)

Unreferred(view, d, u, key) == \A w \in SeenRows(d, u, view) : w.ref # key

LEMMA Family ==
  /\ Tables = {"parent", "child", "grand"} /\ Children = {"child", "grand"}
  /\ Children \subseteq Tables
  /\ ParentOf["child"] = "parent" /\ ParentOf["grand"] = "child"
  /\ \A u \in Children : ParentOf[u] \in Tables /\ ParentOf[u] # u
  /\ \A t : \A u \in ChildrenOf(t) : u \in Children /\ ParentOf[u] = t /\ u # t
  /\ \A t : \A u \in Children : ParentOf[u] = t => u \in ChildrenOf(t)
  BY DEF Tables, Children, ParentOf, ChildrenOf

LEMMA SameSeen ==
  ASSUME NEW view, NEW d, NEW e, NEW t, e.rows[t] = d.rows[t]
  PROVE  /\ SeenRows(e, t, view) = SeenRows(d, t, view)
         /\ \A key : HasKey(view, e, t, key) <=> HasKey(view, d, t, key)
  BY DEF SeenRows, HasKey

LEMMA KeptSame ==
  ASSUME NEW view, NEW d, NEW e, \A t \in Tables : e.rows[t] = d.rows[t]
  PROVE  Kept(view, d, e)
<1> SUFFICES ASSUME NEW u \in Children, NEW w \in SeenRows(e, u, view)
             PROVE  /\ w \in SeenRows(d, u, view)
                    /\ HasKey(view, d, ParentOf[u], w.ref) => HasKey(view, e, ParentOf[u], w.ref)
  BY Zenon DEF Kept
<1>1. u \in Tables /\ ParentOf[u] \in Tables
  BY Family, Zenon
<1> QED
  BY <1>1, SameSeen, Zenon

LEMMA KeptTrans ==
  ASSUME NEW view, NEW d, NEW e, NEW f, Kept(view, d, e), Kept(view, e, f)
  PROVE  Kept(view, d, f)
  BY Zenon DEF Kept

LEMMA SoundKept ==
  ASSUME NEW view, NEW d, NEW e, Kept(view, d, e), Sound(view, d), e.tables = d.tables
  PROVE  Sound(view, e)
  BY Zenon DEF Kept, Sound

\* The rows that are seen after one is marked, and after it is replaced.
LEMMA SeenMarked ==
  ASSUME NEW d \in AnyDb, NEW t \in Tables, NEW v \in d.rows[t], NEW view, view.tx \in TxIds,
         NEW e, e.rows[t] = (d.rows[t] \ {v}) \cup {Marked(v, view)}
  PROVE  SeenRows(e, t, view) = SeenRows(d, t, view) \ {v}
<1>1. v \in AnyVersion
  BY DbParts, Zenon
<1>2. Marked(v, view).tx_max = view.tx /\ view.tx # 0
  BY <1>1, MarkedVersion, Numbers
<1>3. ~Visible(view, Marked(v, view))
  BY <1>2, Zenon DEF Visible, Committed
<1> QED
  BY <1>3, Zenon DEF SeenRows

LEMMA SeenReplaced ==
  ASSUME NEW d \in AnyDb, NEW t \in Tables, NEW v \in d.rows[t], NEW view, view.tx \in TxIds,
         NEW n, NEW key, NEW ref,
         NEW e, e.rows[t] = (d.rows[t] \ {v}) \cup {Marked(v, view), NewVersion(n, key, ref, view)}
  PROVE  /\ \A w \in SeenRows(e, t, view) :
               w = NewVersion(n, key, ref, view) \/ (w \in SeenRows(d, t, view) /\ w # v)
         /\ \A w \in SeenRows(d, t, view) : w # v => w \in SeenRows(e, t, view)
         /\ NewVersion(n, key, ref, view) \in SeenRows(e, t, view)
<1> DEFINE new == NewVersion(n, key, ref, view)
<1>1. v \in AnyVersion
  BY DbParts, Zenon
<1>2. Marked(v, view).tx_max = view.tx /\ view.tx # 0
  BY <1>1, MarkedVersion, Numbers
<1>3. ~Visible(view, Marked(v, view))
  BY <1>2, Zenon DEF Visible, Committed
<1>4. new.tx_min = view.tx /\ new.tx_max = 0
  BY DEF NewVersion
<1>5. Visible(view, new)
  BY <1>4, Zenon DEF Visible, Committed
<1> HIDE DEF new
<1> QED
  BY <1>3, <1>5, Zenon DEF SeenRows, new

\* The scan for references to a key finds every one, whichever way it takes.
LEMMA ScanFinds ==
  ASSUME NEW d, Entries(d), NEW u \in Tables, NEW value, ~ScanChildForFkValue(d, u, value),
         NEW view
  PROVE  Unreferred(view, d, u, value)
<1> SUFFICES ASSUME NEW w \in d.rows[u], w.ref = value PROVE FALSE
  BY Zenon DEF Unreferred, SeenRows
<1>1. CASE ~Indexed(u)
  BY <1>1, Zenon DEF ScanChildForFkValue
<1>2. CASE Indexed(u)
  <2>1. d.fk[u] = {<<v.ref, v.id>> : v \in d.rows[u]}
    BY <1>2, Zenon DEF Entries, Referring
  <2>2. <<w.ref, w.id>> \in d.fk[u] /\ <<w.ref, w.id>>[1] = value
    BY <2>1
  <2>3. IndexHasValue(d.fk[u], value)
    BY <2>2, Zenon DEF IndexHasValue
  <2> QED
    BY <1>2, <2>3, Zenon DEF ScanChildForFkValue
<1> QED
  BY <1>1, <1>2

\* UPDATE refuses to change a key that rows refer to.
RowRenewed(view, d, e, t, v, new) ==
    /\ KeysStay(view, d, e, t)
    /\ \A w \in SeenRows(e, t, view) : w = new \/ (w \in SeenRows(d, t, view) /\ w # v)

LEMMA UpdateRowStays ==
  ASSUME NEW d, NEW n, NEW t \in Tables, NEW v, NEW key \in KeyValues,
         NEW ref \in KeyValues \cup {Null}, NEW view, view.tx \in TxIds,
         Good(d, n, view), v \in d.rows[t], Placed(view, d, t),
         NEW r, r = UpdateRow(d, n, t, v, key, ref, view), r.ok
  PROVE  RowRenewed(view, d, r.db, t, v, NewVersion(n, key, ref, view))
<1> DEFINE e == r.db
           new == NewVersion(n, key, ref, view)
<1>1. /\ \A u \in Tables : u # t => e.rows[u] = d.rows[u]
      /\ e.rows[t] = (d.rows[t] \ {v}) \cup {Marked(v, view), new}
  <2>1. Replaced(r.db, d, n, t, v, key, ref, view)
    BY UpdateRowParts, Zenon
  <2> QED
    BY <2>1, Zenon DEF Replaced
<1>2. d \in AnyDb /\ Entries(d)
  BY DEF Good
<1>3. key = v.key \/ CheckNoChildReferences(d, t, v.key)
  <2>1. ~Fails(d, n).ok
    BY ResultParts, Zenon
  <2> QED
    BY <2>1 DEF UpdateRow
<1>4. new.key = key
  BY DEF NewVersion
<1> HIDE DEF e, new
<1>5. /\ \A w \in SeenRows(e, t, view) : w = new \/ (w \in SeenRows(d, t, view) /\ w # v)
      /\ \A w \in SeenRows(d, t, view) : w # v => w \in SeenRows(e, t, view)
      /\ new \in SeenRows(e, t, view)
  BY <1>1, <1>2, SeenReplaced, Zenon DEF new
<1>6. ASSUME NEW u \in ChildrenOf(t), CheckNoChildReferences(d, t, v.key)
      PROVE  Unreferred(view, d, u, v.key)
  <2>1. v.key # Null
    <3>1. v \in AnyVersion
      BY <1>2, DbParts, Zenon
    <3> QED
      BY <3>1, Numbers DEF AnyVersion, Null
  <2>2. u \in Children
    BY Family, Zenon
  <2> SUFFICES ASSUME NEW w \in SeenRows(d, u, view), w.ref = v.key PROVE FALSE
    BY Zenon DEF Unreferred
  <2>3. u \in d.tables
    BY <2>1, Zenon DEF Placed
  <2>4. ~ScanChildForFkValue(d, u, v.key)
    BY <1>6, <2>3, Zenon DEF CheckNoChildReferences
  <2>5. u \in Tables
    BY <2>2, Family, Zenon
  <2>6. Unreferred(view, d, u, v.key)
    BY <1>2, <2>4, <2>5, ScanFinds, Zenon
  <2> QED
    BY <2>6, Zenon DEF Unreferred
<1>7. KeysStay(view, d, e, t)
  <2> SUFFICES ASSUME NEW u \in ChildrenOf(t), NEW w \in SeenRows(d, u, view),
                      NEW x \in SeenRows(d, t, view), x.key = w.ref
               PROVE  HasKey(view, e, t, w.ref)
    BY Zenon DEF KeysStay, HasKey
  <2>1. CASE x # v
    BY <1>5, <2>1, Zenon DEF HasKey
  <2>2. CASE x = v /\ key = v.key
    BY <1>4, <1>5, <2>2, Zenon DEF HasKey
  <2>3. CASE x = v /\ CheckNoChildReferences(d, t, v.key)
    BY <1>6, <2>3, Zenon DEF Unreferred
  <2> QED
    BY <1>3, <2>1, <2>2, <2>3, Zenon
<1> QED
  BY <1>5, <1>7, Zenon DEF RowRenewed, e, new

\* After the rows of an UPDATE up to the ID i.
Renewed(view, d, e, t, rows, ref, i) ==
    /\ KeysStay(view, d, e, t)
    /\ \A w \in SeenRows(e, t, view) : w \in SeenRows(d, t, view) \/ w.ref = ref
    /\ (\A v \in rows : v.ref # ref) => Cleared(view, e, t, rows, i)

LEMMA RenewedStep ==
  ASSUME NEW view, view.tx \in TxIds, NEW views, NEW d, NEW n, Good(d, n, view),
         NEW t \in Tables, NEW rows, rows \subseteq d.rows[t], Placed(view, d, t),
         NEW key \in KeyValues \cup {Same}, NEW ref \in KeyValues \cup {Null},
         NEW i \in 1..MaxRowId, NEW x \in Progress(view, views, d, n, {t}, t, rows, i - 1),
         x.ok => Renewed(view, d, x.db, t, rows, ref, i - 1),
         NEW y, y = UpdateAt(x, t, rows, i, key, ref, view), y.ok
  PROVE  Renewed(view, d, y.db, t, rows, ref, i)
<1>1. rows \subseteq AnyVersion /\ \A v, w \in rows : v.id = w.id => v = w
  <2>1. d \in AnyDb /\ Ids(d, n)
    BY DEF Good
  <2>2. d.rows[t] \subseteq AnyVersion
    BY <2>1, DbParts, Zenon
  <2>3. \A v, w \in d.rows[t] : v.id = w.id => v = w
    BY <2>1, Zenon DEF Ids
  <2> QED
    BY <2>2, <2>3, Zenon
<1>2. \A v \in rows : v.id <= i => v.id = i \/ v.id <= i - 1
  BY <1>1, Numbers DEF AnyVersion
<1>3. CASE ~(x.ok /\ \E v \in rows : v.id = i)
  <2>1. y = x
    BY <1>3, Zenon DEF UpdateAt
  <2>2. Renewed(view, d, x.db, t, rows, ref, i - 1) /\ \A v \in rows : v.id # i
    BY <1>3, <2>1, Zenon
  <2> QED
    BY <1>2, <2>1, <2>2, Zenon DEF Renewed, Cleared
<1>4. CASE x.ok /\ \E v \in rows : v.id = i
  <2> DEFINE v == Nth(rows, i)
             e == x.db
             k == x.next
             f == y.db
             fresh == IF key = Same THEN v.key ELSE key
             new == NewVersion(k, fresh, ref, view)
  <2>1. v \in rows /\ v.id = i /\ \A w \in rows : w.id = i => w = v
    <3>1. v \in rows /\ v.id = i
      BY <1>4, Zenon DEF Nth
    <3> QED
      BY <1>1, <3>1, Zenon
  <2>2. y = UpdateRow(e, k, t, v, fresh, ref, view)
    BY <1>4, Zenon DEF UpdateAt
  <2>3. /\ Good(e, k, view) /\ e.tables = d.tables
        /\ \A u \in Tables : u # t => e.rows[u] = d.rows[u]
    <3>1. /\ Fits(view, views, x.db, x.next) /\ x.db.tables = d.tables
          /\ \A u \in Tables \ {t} : x.db.rows[u] = d.rows[u]
      BY <1>4, Zenon DEF Progress, Outcome
    <3> QED
      BY <3>1, Zenon DEF Fits
  <2>4. v \in e.rows[t]
    <3>1. i > i - 1
      BY Numbers
    <3>2. \A w \in rows : w.id > i - 1 => w \in x.db.rows[t]
      BY <1>4, Zenon DEF Progress
    <3> QED
      BY <2>1, <3>1, <3>2, Zenon
  <2>5. fresh \in KeyValues
    BY <1>1, <2>1 DEF AnyVersion
  <2>6. Renewed(view, d, e, t, rows, ref, i - 1)
    BY <1>4, Zenon
  <2>7. new.ref = ref
    BY DEF NewVersion
  <2>8. y.db = f
    OBVIOUS
  <2> HIDE DEF v, e, k, f, fresh
  <2>9. ASSUME NEW u \in ChildrenOf(t) PROVE SeenRows(e, u, view) = SeenRows(d, u, view)
    <3>1. u \in Tables /\ u # t
      BY Family, Zenon
    <3>2. e.rows[u] = d.rows[u]
      BY <2>3, <3>1, Zenon
    <3> QED
      BY <3>2, Zenon DEF SeenRows
  <2>10. Placed(view, e, t)
    BY <2>3, <2>9, Zenon DEF Placed
  <2>11. /\ KeysStay(view, e, f, t)
         /\ \A w \in SeenRows(f, t, view) : w = new \/ (w \in SeenRows(e, t, view) /\ w # v)
    <3>1. Good(e, k, view)
      BY <2>3, Zenon
    <3>2. RowRenewed(view, e, y.db, t, v, NewVersion(k, fresh, ref, view))
      BY <2>2, <2>4, <2>5, <2>10, <3>1, UpdateRowStays, Zenon
    <3> QED
      BY <2>8, <3>2, Zenon DEF RowRenewed
  <2> HIDE DEF new
  <2>12. KeysStay(view, d, f, t)
    BY <2>6, <2>9, <2>11, Zenon DEF KeysStay, Renewed
  <2>13. \A w \in SeenRows(f, t, view) : w \in SeenRows(d, t, view) \/ w.ref = ref
    BY <2>6, <2>7, <2>11, Zenon DEF Renewed
  <2>14. ASSUME \A w \in rows : w.ref # ref
         PROVE  Cleared(view, f, t, rows, i)
    <3>1. Cleared(view, e, t, rows, i - 1)
      BY <2>6, <2>14, Zenon DEF Renewed
    <3> SUFFICES ASSUME NEW w \in rows, w.id <= i, w \in SeenRows(f, t, view) PROVE FALSE
      BY Zenon DEF Cleared
    <3>2. w # new
      BY <2>7, <2>14, Zenon
    <3>3. w \in SeenRows(e, t, view) /\ w # v
      BY <2>11, <3>2, Zenon
    <3>4. w.id <= i - 1
      BY <1>2, <2>1, <3>3, Zenon
    <3> QED
      BY <3>1, <3>3, <3>4, Zenon DEF Cleared
  <2> QED
    BY <2>8, <2>12, <2>13, <2>14, Zenon DEF Renewed
<1> QED
  BY <1>3, <1>4, Zenon

LEMMA UpdateRowsStay ==
  ASSUME NEW c \in Clients, NEW view, view = View(c), NEW views, Sole(view, views),
         NEW d, NEW n, Fits(view, views, d, n), NEW t \in Tables, Modifies(c, t), Updated(t),
         NEW rows, rows \subseteq d.rows[t], \A v \in rows : Visible(view, v),
         NEW key \in KeyValues \cup {Same}, NEW ref \in KeyValues \cup {Null},
         Placed(view, d, t),
         NEW r, r = UpdateRows(d, n, t, rows, key, ref, view), r.ok
  PROVE  Renewed(view, d, r.db, t, rows, ref, MaxRowId)
<1>1. PICK run : UpdateRan(run, views, d, n, t, rows, key, ref, view)
  BY UpdateRuns, Zenon
<1>2. /\ run[0] = Yields(d, n)
      /\ \A i \in 1..MaxRowId : run[i] = UpdateAt(run[i - 1], t, rows, i, key, ref, view)
      /\ \A i \in 0..MaxRowId : run[i] \in Progress(view, views, d, n, {t}, t, rows, i)
      /\ r = run[MaxRowId]
  BY <1>1, Zenon DEF UpdateRan
<1>3. Good(d, n, view) /\ view.tx \in TxIds
  BY Zenon DEF Fits, Sole
<1> DEFINE T == [i \in 0..MaxRowId |-> {x \in Progress(view, views, d, n, {t}, t, rows, i) :
                                          x.ok => Renewed(view, d, x.db, t, rows, ref, i)}]
<1>4. /\ 0 \in 0..MaxRowId /\ MaxRowId \in 0..MaxRowId /\ MaxRowId \in Nat
      /\ \A i \in 1..MaxRowId : i \in 0..MaxRowId /\ i - 1 \in 0..MaxRowId
  BY Numbers
<1>5. run[0] \in T[0]
  <2>1. Renewed(view, d, d, t, rows, ref, 0)
    <3>1. \A v \in rows : ~(v.id <= 0)
      <4>1. d \in AnyDb
        BY <1>3 DEF Good
      <4>2. d.rows[t] \subseteq AnyVersion
        BY <4>1, DbParts, Zenon
      <4> QED
        BY <4>2 DEF AnyVersion
    <3>2. KeysStay(view, d, d, t)
      BY Zenon DEF KeysStay
    <3>3. Cleared(view, d, t, rows, 0)
      BY <3>1 DEF Cleared
    <3> QED
      BY <3>2, <3>3 DEF Renewed
  <2>2. run[0].db = d
    <3>1. run[0] = Yields(d, n)
      BY <1>2, Zenon
    <3> QED
      BY <3>1, ResultParts
  <2> QED
    BY <1>2, <1>4, <2>1, <2>2, Zenon
<1>6. ASSUME NEW i \in 1..MaxRowId, run[i - 1] \in T[i - 1] PROVE run[i] \in T[i]
  <2> DEFINE x == run[i - 1]
             y == run[i]
  <2>1. /\ x \in Progress(view, views, d, n, {t}, t, rows, i - 1)
        /\ x.ok => Renewed(view, d, x.db, t, rows, ref, i - 1)
    BY <1>4, <1>6, Zenon
  <2>2. /\ y = UpdateAt(x, t, rows, i, key, ref, view)
        /\ y \in Progress(view, views, d, n, {t}, t, rows, i)
    BY <1>2, <1>4, Zenon
  <2> HIDE DEF x, y
  <2>3. y.ok => Renewed(view, d, y.db, t, rows, ref, i)
    BY <1>3, <2>1, <2>2, RenewedStep, Zenon
  <2> QED
    BY <1>4, <2>2, <2>3, Zenon DEF y
<1> HIDE DEF T
<1>7. \A i \in 0..MaxRowId : run[i] \in T[i]
  BY <1>4, <1>5, <1>6, FoldHolds, Zenon
<1> QED
  BY <1>2, <1>4, <1>7, Zenon DEF T

\* After the rows of a DELETE on t up to the ID i.
Swept(view, d, e, t, rows, i) == Kept(view, d, e) /\ Cleared(view, e, t, rows, i)

\* With the rows that referred to a key gone and no reference new, nothing refers to it.
LEMMA SweptUnreferred ==
  ASSUME NEW view, NEW d, NEW e, NEW u \in Children, NEW key \in KeyValues, Sound(view, d),
         Swept(view, d, e, u, Referrers(d, u, key, view), MaxRowId)
  PROVE  Unreferred(view, e, u, key)
<1>1. key # Null
  BY Numbers DEF Null
<1> SUFFICES ASSUME NEW w \in SeenRows(e, u, view), w.ref = key PROVE FALSE
  BY Zenon DEF Unreferred
<1>2. w \in SeenRows(d, u, view)
  BY <1>1, Zenon DEF Swept, Kept
<1>3. w \in Referrers(d, u, key, view)
  BY <1>2, Zenon DEF Referrers
<1>4. w.id <= MaxRowId
  BY <1>1, <1>2, Zenon DEF Sound
<1> QED
  BY <1>3, <1>4, Zenon DEF Swept, Cleared

\* SET NULL: the references of the rows are gone, their keys are not.
LEMMA SetNullSweeps ==
  ASSUME NEW view, NEW d, NEW e, NEW u \in Children, NEW rows, \A v \in rows : v.ref # Null,
         Renewed(view, d, e, u, rows, Null, MaxRowId),
         \A t \in Tables : t # u => e.rows[t] = d.rows[t]
  PROVE  Swept(view, d, e, u, rows, MaxRowId)
<1>1. Cleared(view, e, u, rows, MaxRowId)
  BY Zenon DEF Renewed
<1>2. ASSUME NEW x \in Children, NEW w \in SeenRows(e, x, view), w.ref # Null
      PROVE  /\ w \in SeenRows(d, x, view)
             /\ HasKey(view, d, ParentOf[x], w.ref) => HasKey(view, e, ParentOf[x], w.ref)
  <2>1. x \in Tables /\ u \in Tables /\ ParentOf[x] \in Tables /\ ParentOf[x] # x
    BY Family, Zenon
  <2>2. CASE x = u
    <3>1. w \in SeenRows(d, x, view)
      BY <1>2, <2>2, Zenon DEF Renewed
    <3>2. e.rows[ParentOf[x]] = d.rows[ParentOf[x]]
      BY <2>1, <2>2, Zenon
    <3> QED
      BY <3>1, <3>2, SameSeen, Zenon
  <2>3. CASE x # u /\ ParentOf[x] = u
    <3>1. SeenRows(e, x, view) = SeenRows(d, x, view)
      BY <2>1, <2>3, SameSeen, Zenon
    <3>2. x \in ChildrenOf(u)
      BY <2>3, Family, Zenon
    <3> QED
      BY <2>3, <3>1, <3>2, Zenon DEF Renewed, KeysStay
  <2>4. CASE x # u /\ ParentOf[x] # u
    <3>1. e.rows[x] = d.rows[x] /\ e.rows[ParentOf[x]] = d.rows[ParentOf[x]]
      BY <2>1, <2>4, Zenon
    <3> QED
      BY <3>1, SameSeen, Zenon
  <2> QED
    BY <2>2, <2>3, <2>4, Zenon
<1> QED
  BY <1>1, <1>2, Zenon DEF Swept, Kept

\* The actions on the children u of a row with this key.
LEMMA ActedKeeps ==
  ASSUME NEW c \in Clients, NEW view, view = View(c), NEW views, Sole(view, views),
         NEW d, NEW n, Fits(view, views, d, n), NEW u \in Children, Modifies(c, u),
         NEW key \in KeyValues, Sound(view, d), NEW cascaded,
         cascaded.ok => Swept(view, d, cascaded.db, u, Referrers(d, u, key, view), MaxRowId),
         NEW r, r = Acted(d, n, u, key, view, cascaded), r.ok
  PROVE  Kept(view, d, r.db) /\ Unreferred(view, r.db, u, key)
<1> DEFINE refer == Referrers(d, u, key, view)
           updated == UpdateRows(d, n, u, refer, Same, Null, view)
<1>1. key # Null /\ u \in Tables
  BY Numbers, Family DEF Null
<1>2. ~Fails(d, n).ok /\ Yields(d, n).db = d
  BY ResultParts, Zenon
<1>3. \/ r = cascaded
      \/ r = Yields(d, n) /\ u \notin d.tables
      \/ r = Yields(d, n) /\ ~ScanChildForFkValue(d, u, key)
      \/ constraint_load.on_delete[u] = "set_null" /\ r = updated
  BY <1>2 DEF Acted
<1>4. refer \subseteq d.rows[u] /\ \A w \in refer : Visible(view, w) /\ w.ref = key
  BY Zenon DEF Referrers, SeenRows
<1> HIDE DEF refer
<1>5. CASE r = cascaded
  BY <1>5, SweptUnreferred, Zenon DEF Swept
<1>6. Kept(view, d, d)
  BY KeptSame, Zenon
<1>7. CASE r = Yields(d, n) /\ u \notin d.tables
  <2>1. Unreferred(view, d, u, key)
    BY <1>1, <1>7, Zenon DEF Unreferred, Sound
  <2> QED
    BY <1>2, <1>6, <1>7, <2>1, Zenon
<1>8. CASE r = Yields(d, n) /\ ~ScanChildForFkValue(d, u, key)
  <2>1. Entries(d)
    BY Zenon DEF Fits, Good
  <2>2. Unreferred(view, d, u, key)
    BY <1>1, <1>8, <2>1, ScanFinds, Zenon
  <2> QED
    BY <1>2, <1>6, <1>8, <2>2, Zenon
<1>9. CASE constraint_load.on_delete[u] = "set_null" /\ r = updated
  <2>1. Updated(u) /\ Same \in KeyValues \cup {Same} /\ Null \in KeyValues \cup {Null}
    BY <1>1, <1>9, Zenon DEF Updated
  <2>2. Placed(view, d, u)
    BY Family, Zenon DEF Placed, Sound
  <2>3. r = UpdateRows(d, n, u, refer, Same, Null, view)
    BY <1>9, Zenon
  <2>4. \A w \in refer : Visible(view, w)
    BY <1>4, Zenon
  <2>5. Renewed(view, d, r.db, u, refer, Null, MaxRowId)
    BY <1>1, <1>4, <2>1, <2>2, <2>3, <2>4, UpdateRowsStay, Zenon
  <2>6. r \in Outcome(view, views, d, n, {u})
    <3>1. UpdateRows(d, n, u, refer, Same, Null, view) \in Outcome(view, views, d, n, {u})
      BY <1>1, <1>4, <2>1, <2>4, UpdateRowsFit, Zenon
    <3> QED
      BY <2>3, <3>1, Zenon
  <2>7. \A t \in Tables : t # u => r.db.rows[t] = d.rows[t]
    BY <2>6, Zenon DEF Outcome
  <2>8. \A w \in refer : w.ref # Null
    BY <1>1, <1>4, Zenon
  <2>9. Swept(view, d, r.db, u, refer, MaxRowId)
    BY <2>5, <2>7, <2>8, SetNullSweeps, Zenon
  <2> QED
    BY <2>9, SweptUnreferred, Zenon DEF Swept, refer
<1> QED
  BY <1>3, <1>5, <1>7, <1>8, <1>9, Zenon

\* A row is marked when nothing refers to its key any more.
RowSwept(view, d, e, t, v) ==
    Kept(view, d, e) /\ SeenRows(e, t, view) = SeenRows(d, t, view) \ {v}
Settled(view, d, acted, t, key) ==
    acted.ok => /\ Kept(view, d, acted.db)
                /\ \A u \in ChildrenOf(t) : Unreferred(view, acted.db, u, key)

LEMMA FinishKeeps ==
  ASSUME NEW view, view.tx \in TxIds, NEW views, NEW d, NEW n, d \in AnyDb, NEW t \in Tables,
         NEW v, v \in d.rows[t], NEW below, t \notin below,
         NEW acted \in Outcome(view, views, d, n, below),
         Settled(view, d, acted, t, v.key),
         NEW r, r = Finished(d, n, t, v, view, acted), r.ok
  PROVE  RowSwept(view, d, r.db, t, v)
<1> DEFINE a == acted.db
           e == Tombstone(a, t, v, view)
<1>1. acted.ok /\ r.db = e
  <2>1. ~Fails(d, n).ok /\ Yields(e, acted.next).db = e
    BY ResultParts, Zenon
  <2> QED
    BY <2>1, Zenon DEF Finished
<1>2. /\ a \in AnyDb /\ \A u \in Tables \ below : a.rows[u] = d.rows[u]
      /\ Kept(view, d, a) /\ \A u \in ChildrenOf(t) : Unreferred(view, a, u, v.key)
  <2>1. acted \in AnyResult /\ \A u \in Tables \ below : a.rows[u] = d.rows[u]
    BY <1>1, Zenon DEF Outcome
  <2>2. a \in AnyDb
    BY <2>1 DEF AnyResult
  <2> QED
    BY <1>1, <2>1, <2>2, Zenon DEF Settled
<1> HIDE DEF a
<1>3. a.rows[t] = d.rows[t] /\ v \in a.rows[t]
  BY <1>2, Zenon
<1>4. /\ e.rows[t] = (a.rows[t] \ {v}) \cup {Marked(v, view)}
      /\ \A u \in Tables : u # t => e.rows[u] = a.rows[u]
  <2>1. a \in AnyDb /\ v \in a.rows[t]
    BY <1>2, <1>3, Zenon
  <2> QED
    BY <2>1, TombstoneParts
<1> HIDE DEF e
<1>5. SeenRows(e, t, view) = SeenRows(a, t, view) \ {v}
  <2>1. a \in AnyDb
    BY <1>2, Zenon
  <2>2. v \in a.rows[t]
    BY <1>3, Zenon
  <2>3. e.rows[t] = (a.rows[t] \ {v}) \cup {Marked(v, view)}
    BY <1>4, Zenon
  <2> QED
    BY <2>1, <2>2, <2>3, SeenMarked
<1>6. SeenRows(a, t, view) = SeenRows(d, t, view)
  BY <1>3, SameSeen, Zenon
<1>7. ASSUME NEW u \in Children, NEW w \in SeenRows(e, u, view), w.ref # Null
      PROVE  /\ w \in SeenRows(a, u, view)
             /\ HasKey(view, a, ParentOf[u], w.ref) => HasKey(view, e, ParentOf[u], w.ref)
  <2>1. u \in Tables /\ ParentOf[u] \in Tables
    BY Family, Zenon
  <2>2. w \in SeenRows(a, u, view)
    <3>1. CASE u = t
      BY <1>5, <1>7, <3>1, Zenon
    <3>2. CASE u # t
      BY <1>4, <1>7, <2>1, <3>2, SameSeen, Zenon
    <3> QED
      BY <3>1, <3>2
  <2>3. CASE ParentOf[u] # t
    <3>1. e.rows[ParentOf[u]] = a.rows[ParentOf[u]]
      BY <1>4, <2>1, <2>3, Zenon
    <3> QED
      BY <2>2, <3>1, SameSeen, Zenon
  <2>4. CASE ParentOf[u] = t
    <3>1. u \in ChildrenOf(t)
      BY <2>4, Family, Zenon
    <3>2. w.ref # v.key
      BY <1>2, <2>2, <3>1, Zenon DEF Unreferred
    <3> QED
      BY <1>5, <2>2, <2>4, <3>2, Zenon DEF HasKey
  <2> QED
    BY <2>3, <2>4
<1>8. Kept(view, a, e)
  BY <1>7, Zenon DEF Kept
<1>9. Kept(view, d, e)
  BY <1>2, <1>8, KeptTrans, Zenon
<1> QED
  BY <1>1, <1>5, <1>6, <1>9, Zenon DEF RowSwept

LEMMA DeleteStepSweeps ==
  ASSUME NEW view, view.tx \in TxIds, NEW views, NEW d, NEW n, Good(d, n, view),
         NEW t \in Tables, NEW rows, rows \subseteq d.rows[t],
         NEW below, t \notin below, NEW moved,
         NEW i \in 1..MaxRowId, NEW x \in Progress(view, views, d, n, moved, t, rows, i - 1),
         x.ok => Swept(view, d, x.db, t, rows, i - 1), NEW acted,
         x.ok /\ (\E v \in rows : v.id = i) =>
            /\ acted \in Outcome(view, views, x.db, x.next, below)
            /\ Settled(view, x.db, acted, t, Nth(rows, i).key),
         NEW y, y = DeleteAt(x, t, rows, i, view, acted), y.ok
  PROVE  Swept(view, d, y.db, t, rows, i)
<1>1. rows \subseteq AnyVersion /\ \A v, w \in rows : v.id = w.id => v = w
  <2>1. d \in AnyDb /\ Ids(d, n)
    BY DEF Good
  <2>2. d.rows[t] \subseteq AnyVersion
    BY <2>1, DbParts, Zenon
  <2>3. \A v, w \in d.rows[t] : v.id = w.id => v = w
    BY <2>1, Zenon DEF Ids
  <2> QED
    BY <2>2, <2>3, Zenon
<1>2. \A v \in rows : v.id <= i => v.id = i \/ v.id <= i - 1
  BY <1>1, Numbers DEF AnyVersion
<1>3. CASE ~(x.ok /\ \E v \in rows : v.id = i)
  <2>1. y = x
    BY <1>3, Zenon DEF DeleteAt
  <2>2. Swept(view, d, x.db, t, rows, i - 1) /\ \A v \in rows : v.id # i
    BY <1>3, <2>1, Zenon
  <2> QED
    BY <1>2, <2>1, <2>2, Zenon DEF Swept, Cleared
<1>4. CASE x.ok /\ \E v \in rows : v.id = i
  <2> DEFINE v == Nth(rows, i)
             e == x.db
             k == x.next
  <2>1. v \in rows /\ v.id = i /\ \A w \in rows : w.id = i => w = v
    <3>1. v \in rows /\ v.id = i
      BY <1>4, Zenon DEF Nth
    <3> QED
      BY <1>1, <3>1, Zenon
  <2>2. y = Finished(e, k, t, v, view, acted)
    BY <1>4, Zenon DEF DeleteAt
  <2>3. e \in AnyDb
    <3>1. Good(x.db, x.next, view)
      BY <1>4, Zenon DEF Progress, Outcome, Fits
    <3> QED
      BY <3>1 DEF Good
  <2>4. v \in e.rows[t]
    <3>1. i > i - 1
      BY Numbers
    <3>2. \A w \in rows : w.id > i - 1 => w \in x.db.rows[t]
      BY <1>4, Zenon DEF Progress
    <3> QED
      BY <2>1, <3>1, <3>2, Zenon
  <2>5. acted \in Outcome(view, views, e, k, below) /\ Settled(view, e, acted, t, v.key)
    BY <1>4, Zenon
  <2>6. Swept(view, d, e, t, rows, i - 1)
    BY <1>4, Zenon
  <2> HIDE DEF v, e, k
  <2>7. /\ Kept(view, e, y.db)
        /\ SeenRows(y.db, t, view) = SeenRows(e, t, view) \ {v}
    <3>1. RowSwept(view, e, y.db, t, v)
      BY <2>2, <2>3, <2>4, <2>5, FinishKeeps, Zenon
    <3> QED
      BY <3>1, Zenon DEF RowSwept
  <2>8. Kept(view, d, y.db)
    BY <2>6, <2>7, KeptTrans, Zenon DEF Swept
  <2>9. Cleared(view, y.db, t, rows, i)
    <3> SUFFICES ASSUME NEW w \in rows, w.id <= i, w \in SeenRows(y.db, t, view) PROVE FALSE
      BY Zenon DEF Cleared
    <3>1. w \in SeenRows(e, t, view) /\ w # v
      BY <2>7, Zenon
    <3>2. w.id <= i - 1
      BY <1>2, <2>1, <3>1, Zenon
    <3> QED
      BY <2>6, <3>1, <3>2, Zenon DEF Swept, Cleared
  <2> QED
    BY <2>8, <2>9, Zenon DEF Swept
<1> QED
  BY <1>3, <1>4, Zenon

LEMMA SweepBegins ==
  ASSUME NEW view, NEW d, NEW n, Good(d, n, view), NEW t \in Tables,
         NEW rows, rows \subseteq d.rows[t]
  PROVE  Yields(d, n).ok => Swept(view, d, Yields(d, n).db, t, rows, 0)
<1>1. Kept(view, d, d)
  BY KeptSame, Zenon
<1>2. Cleared(view, d, t, rows, 0)
  <2>1. d \in AnyDb
    BY DEF Good
  <2>2. d.rows[t] \subseteq AnyVersion
    BY <2>1, DbParts, Zenon
  <2>3. \A v \in rows : ~(v.id <= 0)
    BY <2>2 DEF AnyVersion
  <2> QED
    BY <2>3 DEF Cleared
<1>3. Yields(d, n).db = d
  BY ResultParts
<1> QED
  BY <1>1, <1>2, <1>3, Zenon DEF Swept

LEMMA CountedSweeps ==
  ASSUME NEW view, NEW d, NEW t \in Tables, NEW rows, NEW x \in AnyResult,
         x.ok => Swept(view, d, x.db, t, rows, MaxRowId),
         NEW r, r = Counted(x, t, rows), r.ok
  PROVE  Swept(view, d, r.db, t, rows, MaxRowId)
<1> DEFINE k == Max({0, x.db.row_count[t] - Cardinality(rows)})
           e == x.db
           f == r.db
<1>1. x.ok /\ r = [x EXCEPT !.db.row_count[t] = k]
  BY DEF Counted
<1>2. Swept(view, d, e, t, rows, MaxRowId)
  BY <1>1, Zenon
<1> HIDE DEF k
<1>3. f.rows = e.rows
  BY <1>1 DEF AnyResult, AnyDb
<1> HIDE DEF e, f
<1>4. /\ \A u : SeenRows(f, u, view) = SeenRows(e, u, view)
      /\ \A u, key : HasKey(view, f, u, key) <=> HasKey(view, e, u, key)
  BY <1>3, Zenon DEF SeenRows, HasKey
<1>5. Kept(view, d, f)
  BY <1>2, <1>4, Zenon DEF Swept, Kept
<1>6. Cleared(view, f, t, rows, MaxRowId)
  BY <1>2, <1>4, Zenon DEF Swept, Cleared
<1> QED
  BY <1>5, <1>6, Zenon DEF Swept, f

\* DELETE goes through its rows, with the results of the actions on each row's children.
Looped(run, acts, view, views, d, n, below, moved, t, rows) ==
    /\ run[0] = Yields(d, n)
    /\ \A i \in 1..MaxRowId : run[i] = DeleteAt(run[i - 1], t, rows, i, view, acts[i])
    /\ \A i \in 0..MaxRowId : run[i] \in Progress(view, views, d, n, moved, t, rows, i)
    /\ \A i \in 1..MaxRowId :
          run[i - 1].ok /\ (\E v \in rows : v.id = i) /\ Kept(view, d, run[i - 1].db) =>
             /\ acts[i] \in Outcome(view, views, run[i - 1].db, run[i - 1].next, below)
             /\ Settled(view, run[i - 1].db, acts[i], t, Nth(rows, i).key)

LEMMA LoopSweeps ==
  ASSUME NEW view, view.tx \in TxIds, NEW views, NEW d, NEW n, Good(d, n, view),
         NEW t \in Tables, NEW rows, rows \subseteq d.rows[t],
         NEW below, t \notin below, NEW moved, NEW run, NEW acts,
         Looped(run, acts, view, views, d, n, below, moved, t, rows),
         NEW r, r = Counted(run[MaxRowId], t, rows), r.ok
  PROVE  Swept(view, d, r.db, t, rows, MaxRowId)
<1> DEFINE T == [i \in 0..MaxRowId |-> {x \in Progress(view, views, d, n, moved, t, rows, i) :
                                          x.ok => Swept(view, d, x.db, t, rows, i)}]
<1>1. /\ 0 \in 0..MaxRowId /\ MaxRowId \in 0..MaxRowId /\ MaxRowId \in Nat
      /\ \A i \in 1..MaxRowId : i \in 0..MaxRowId /\ i - 1 \in 0..MaxRowId
  BY Numbers
<1>0. /\ run[0] = Yields(d, n)
      /\ \A i \in 1..MaxRowId : run[i] = DeleteAt(run[i - 1], t, rows, i, view, acts[i])
      /\ \A i \in 0..MaxRowId : run[i] \in Progress(view, views, d, n, moved, t, rows, i)
      /\ \A i \in 1..MaxRowId :
            run[i - 1].ok /\ (\E v \in rows : v.id = i) /\ Kept(view, d, run[i - 1].db) =>
               /\ acts[i] \in Outcome(view, views, run[i - 1].db, run[i - 1].next, below)
               /\ Settled(view, run[i - 1].db, acts[i], t, Nth(rows, i).key)
  BY Zenon DEF Looped
<1>2. run[0] \in T[0]
  <2>1. Yields(d, n).ok => Swept(view, d, Yields(d, n).db, t, rows, 0)
    BY SweepBegins, Zenon
  <2> QED
    BY <1>0, <1>1, <2>1, Zenon
<1>3. ASSUME NEW i \in 1..MaxRowId, run[i - 1] \in T[i - 1] PROVE run[i] \in T[i]
  <2> DEFINE x == run[i - 1]
             y == run[i]
             acted == acts[i]
  <2>1. /\ x \in Progress(view, views, d, n, moved, t, rows, i - 1)
        /\ x.ok => Swept(view, d, x.db, t, rows, i - 1)
    BY <1>1, <1>3, Zenon
  <2>2. /\ y = DeleteAt(x, t, rows, i, view, acted)
        /\ y \in Progress(view, views, d, n, moved, t, rows, i)
    BY <1>0, <1>1, Zenon
  <2>3. x.ok /\ (\E v \in rows : v.id = i) =>
           /\ acted \in Outcome(view, views, x.db, x.next, below)
           /\ Settled(view, x.db, acted, t, Nth(rows, i).key)
    BY <1>0, <2>1, Zenon DEF Swept
  <2> HIDE DEF x, y, acted
  <2>4. y.ok => Swept(view, d, y.db, t, rows, i)
    BY <2>1, <2>2, <2>3, DeleteStepSweeps, Zenon
  <2> QED
    BY <1>1, <2>2, <2>4, Zenon DEF y
<1> HIDE DEF T
<1>4. \A i \in 0..MaxRowId : run[i] \in T[i]
  BY <1>1, <1>2, <1>3, FoldHolds, Zenon
<1> DEFINE last == run[MaxRowId]
<1>5. /\ last \in Progress(view, views, d, n, moved, t, rows, MaxRowId)
      /\ last.ok => Swept(view, d, last.db, t, rows, MaxRowId)
  BY <1>1, <1>4, Zenon DEF T
<1>6. last \in AnyResult /\ r = Counted(last, t, rows)
  BY <1>5, Zenon DEF Progress, Outcome
<1> HIDE DEF last
<1> QED
  BY <1>5, <1>6, CountedSweeps, Zenon

LEMMA DeleteGrandSweeps ==
  ASSUME NEW c \in Clients, NEW view, view = View(c), NEW views, Sole(view, views),
         NEW d, NEW n, Fits(view, views, d, n), Modifies(c, "grand"),
         NEW rows, rows \subseteq d.rows["grand"], \A v \in rows : Visible(view, v),
         NEW r, r = DeleteGrand(d, n, rows, view), r.ok
  PROVE  Swept(view, d, r.db, "grand", rows, MaxRowId)
<1>1. PICK run : GrandRan(run, views, d, n, rows, view)
  BY DeleteGrandRuns, Zenon
<1> DEFINE acts == [i \in 1..MaxRowId |-> GrandActs(run[i - 1], Nth(rows, i).key, view)]
<1>2. /\ run[0] = Yields(d, n)
      /\ \A i \in 1..MaxRowId : run[i] = DeleteAt(run[i - 1], "grand", rows, i, view, acts[i])
      /\ \A i \in 0..MaxRowId :
            run[i] \in Progress(view, views, d, n, {"grand"}, "grand", rows, i)
      /\ r = Counted(run[MaxRowId], "grand", rows)
  BY <1>1, Zenon DEF GrandRan
<1>3. Good(d, n, view) /\ view.tx \in TxIds
  BY Zenon DEF Fits, Sole
<1>4. "grand" \in Tables /\ "grand" \notin {}
  BY DEF Tables
<1>5. ASSUME NEW i \in 1..MaxRowId, run[i - 1].ok
      PROVE  /\ acts[i] \in Outcome(view, views, run[i - 1].db, run[i - 1].next, {})
             /\ Settled(view, run[i - 1].db, acts[i], "grand", Nth(rows, i).key)
  <2> DEFINE x == run[i - 1]
  <2>1. acts[i] = Yields(x.db, x.next)
    BY Zenon DEF GrandActs
  <2>2. i - 1 \in 0..MaxRowId
    BY Numbers
  <2>3. Fits(view, views, x.db, x.next)
    BY <1>2, <1>5, <2>2, Zenon DEF Progress, Outcome
  <2>4. Yields(x.db, x.next) \in Outcome(view, views, x.db, x.next, {})
    BY <2>3, YieldsFits, Zenon
  <2>5. Yields(x.db, x.next).db = x.db
    BY ResultParts, Zenon
  <2>6. Kept(view, x.db, x.db)
    BY KeptSame, Zenon
  <2>7. ChildrenOf("grand") = {}
    BY DEF ChildrenOf, Children, ParentOf
  <2> HIDE DEF acts, x
  <2> QED
    BY <2>1, <2>4, <2>5, <2>6, <2>7 DEF Settled, x
<1> HIDE DEF acts
<1>7. Looped(run, acts, view, views, d, n, {}, {"grand"}, "grand", rows)
  BY <1>2, <1>5, Zenon DEF Looped
<1> QED
  BY <1>2, <1>3, <1>4, <1>7, LoopSweeps, Zenon

LEMMA ChildActsSettle ==
  ASSUME NEW c \in Clients, NEW view, view = View(c), NEW views, Sole(view, views),
         NEW x, Fits(view, views, x.db, x.next), Modifies(c, "grand"),
         NEW key \in KeyValues, Sound(view, x.db)
  PROVE  Settled(view, x.db, ChildActs(x, key, view), "child", key)
<1> DEFINE e == x.db
           k == x.next
           refer == Referrers(e, "grand", key, view)
           cascaded == DeleteGrand(e, k, refer, view)
           acted == ChildActs(x, key, view)
<1>1. acted = Acted(e, k, "grand", key, view, cascaded)
  BY Zenon DEF ChildActs
<1>2. Fits(view, views, e, k) /\ Sound(view, e)
  OBVIOUS
<1> HIDE DEF e, k, acted
<1>3. refer \subseteq e.rows["grand"] /\ \A w \in refer : Visible(view, w)
  BY Zenon DEF Referrers, SeenRows
<1>4. cascaded.ok => Swept(view, e, cascaded.db, "grand", Referrers(e, "grand", key, view), MaxRowId)
  <2>1. cascaded = DeleteGrand(e, k, Referrers(e, "grand", key, view), view)
    BY Zenon
  <2> HIDE DEF cascaded
  <2> QED
    BY <1>2, <1>3, <2>1, DeleteGrandSweeps, Zenon
<1> HIDE DEF cascaded
<1>5. "grand" \in Children /\ \A w \in ChildrenOf("child") : w = "grand"
  BY DEF Children, ChildrenOf, ParentOf
<1>6. acted.ok => Kept(view, e, acted.db) /\ Unreferred(view, acted.db, "grand", key)
  BY <1>1, <1>2, <1>4, <1>5, ActedKeeps, Zenon
<1> QED
  BY <1>5, <1>6, Zenon DEF Settled, e, acted

LEMMA DeleteChildSweeps ==
  ASSUME NEW c \in Clients, NEW view, view = View(c), NEW views, Sole(view, views),
         NEW d, NEW n, Fits(view, views, d, n), Sound(view, d), Modifies(c, "child"),
         Modifies(c, "grand"),
         NEW rows, rows \subseteq d.rows["child"], \A v \in rows : Visible(view, v),
         NEW r, r = DeleteChild(d, n, rows, view), r.ok
  PROVE  Swept(view, d, r.db, "child", rows, MaxRowId)
<1>1. PICK run : ChildRan(run, views, d, n, rows, view)
  BY DeleteChildRuns, Zenon
<1> DEFINE acts == [i \in 1..MaxRowId |-> ChildActs(run[i - 1], Nth(rows, i).key, view)]
           below == {"grand"}
<1>2. /\ run[0] = Yields(d, n)
      /\ \A i \in 1..MaxRowId : run[i] = DeleteAt(run[i - 1], "child", rows, i, view, acts[i])
      /\ \A i \in 0..MaxRowId :
            run[i] \in Progress(view, views, d, n, {"child", "grand"}, "child", rows, i)
      /\ r = Counted(run[MaxRowId], "child", rows)
  BY <1>1, Zenon DEF ChildRan
<1>3. Good(d, n, view) /\ view.tx \in TxIds
  BY Zenon DEF Fits, Sole
<1>4. "child" \in Tables /\ "child" \notin below
  BY DEF Tables
<1>5. rows \subseteq AnyVersion
  <2>1. d \in AnyDb
    BY <1>3 DEF Good
  <2> QED
    BY <1>4, <2>1, DbParts, Zenon
<1>6. ASSUME NEW i \in 1..MaxRowId, run[i - 1].ok, \E v \in rows : v.id = i,
             Kept(view, d, run[i - 1].db)
      PROVE  /\ acts[i] \in Outcome(view, views, run[i - 1].db, run[i - 1].next, below)
             /\ Settled(view, run[i - 1].db, acts[i], "child", Nth(rows, i).key)
  <2> DEFINE x == run[i - 1]
             key == Nth(rows, i).key
  <2>1. acts[i] = ChildActs(x, key, view)
    BY Zenon
  <2>2. key \in KeyValues
    <3>1. Nth(rows, i) \in rows
      BY <1>6, Zenon DEF Nth
    <3> QED
      BY <1>5, <3>1 DEF AnyVersion
  <2>3. i - 1 \in 0..MaxRowId
    BY Numbers
  <2>4. Fits(view, views, x.db, x.next) /\ x.db.tables = d.tables
    BY <1>2, <1>6, <2>3, Zenon DEF Progress, Outcome
  <2>5. Sound(view, x.db)
    BY <1>6, <2>4, SoundKept, Zenon
  <2> HIDE DEF acts, x, key
  <2>6. ChildActs(x, key, view) \in Outcome(view, views, x.db, x.next, below)
    BY <2>4, ChildActsFit, Zenon
  <2>7. Settled(view, x.db, ChildActs(x, key, view), "child", key)
    BY <2>2, <2>4, <2>5, ChildActsSettle, Zenon
  <2> QED
    BY <2>1, <2>6, <2>7, Zenon DEF x, key
<1> HIDE DEF acts, below
<1>7. Looped(run, acts, view, views, d, n, below, {"child", "grand"}, "child", rows)
  BY <1>2, <1>6, Zenon DEF Looped
<1> QED
  BY <1>2, <1>3, <1>4, <1>7, LoopSweeps, Zenon

LEMMA ParentActsSettle ==
  ASSUME NEW c \in Clients, NEW view, view = View(c), NEW views, Sole(view, views),
         NEW x, Fits(view, views, x.db, x.next), Modifies(c, "child"),
         Modifies(c, "grand"),
         NEW key \in KeyValues, Sound(view, x.db)
  PROVE  Settled(view, x.db, ParentActs(x, key, view), "parent", key)
<1> DEFINE e == x.db
           k == x.next
           refer == Referrers(e, "child", key, view)
           cascaded == DeleteChild(e, k, refer, view)
           acted == ParentActs(x, key, view)
<1>1. acted = Acted(e, k, "child", key, view, cascaded)
  BY Zenon DEF ParentActs
<1>2. Fits(view, views, e, k) /\ Sound(view, e)
  OBVIOUS
<1> HIDE DEF e, k, acted
<1>3. refer \subseteq e.rows["child"] /\ \A w \in refer : Visible(view, w)
  BY Zenon DEF Referrers, SeenRows
<1>4. cascaded.ok => Swept(view, e, cascaded.db, "child", Referrers(e, "child", key, view), MaxRowId)
  <2>1. cascaded = DeleteChild(e, k, Referrers(e, "child", key, view), view)
    BY Zenon
  <2> HIDE DEF cascaded
  <2> QED
    BY <1>2, <1>3, <2>1, DeleteChildSweeps, Zenon
<1> HIDE DEF cascaded
<1>5. "child" \in Children /\ \A w \in ChildrenOf("parent") : w = "child"
  BY DEF Children, ChildrenOf, ParentOf
<1>6. acted.ok => Kept(view, e, acted.db) /\ Unreferred(view, acted.db, "child", key)
  BY <1>1, <1>2, <1>4, <1>5, ActedKeeps, Zenon
<1> QED
  BY <1>5, <1>6, Zenon DEF Settled, e, acted

LEMMA DeleteParentSweeps ==
  ASSUME NEW c \in Clients, NEW view, view = View(c), NEW views, Sole(view, views),
         NEW d, NEW n, Fits(view, views, d, n), Sound(view, d), Modifies(c, "parent"),
         Modifies(c, "child"), Modifies(c, "grand"),
         NEW rows, rows \subseteq d.rows["parent"], \A v \in rows : Visible(view, v),
         NEW r, r = DeleteParent(d, n, rows, view), r.ok
  PROVE  Swept(view, d, r.db, "parent", rows, MaxRowId)
<1>1. PICK run : ParentRan(run, views, d, n, rows, view)
  BY DeleteParentRuns, Zenon
<1> DEFINE acts == [i \in 1..MaxRowId |-> ParentActs(run[i - 1], Nth(rows, i).key, view)]
           below == {"child", "grand"}
<1>2. /\ run[0] = Yields(d, n)
      /\ \A i \in 1..MaxRowId : run[i] = DeleteAt(run[i - 1], "parent", rows, i, view, acts[i])
      /\ \A i \in 0..MaxRowId :
            run[i] \in Progress(view, views, d, n, Tables, "parent", rows, i)
      /\ r = Counted(run[MaxRowId], "parent", rows)
  BY <1>1, Zenon DEF ParentRan
<1>3. Good(d, n, view) /\ view.tx \in TxIds
  BY Zenon DEF Fits, Sole
<1>4. "parent" \in Tables /\ "parent" \notin below
  BY DEF Tables
<1>5. rows \subseteq AnyVersion
  <2>1. d \in AnyDb
    BY <1>3 DEF Good
  <2> QED
    BY <1>4, <2>1, DbParts, Zenon
<1>6. ASSUME NEW i \in 1..MaxRowId, run[i - 1].ok, \E v \in rows : v.id = i,
             Kept(view, d, run[i - 1].db)
      PROVE  /\ acts[i] \in Outcome(view, views, run[i - 1].db, run[i - 1].next, below)
             /\ Settled(view, run[i - 1].db, acts[i], "parent", Nth(rows, i).key)
  <2> DEFINE x == run[i - 1]
             key == Nth(rows, i).key
  <2>1. acts[i] = ParentActs(x, key, view)
    BY Zenon
  <2>2. key \in KeyValues
    <3>1. Nth(rows, i) \in rows
      BY <1>6, Zenon DEF Nth
    <3> QED
      BY <1>5, <3>1 DEF AnyVersion
  <2>3. i - 1 \in 0..MaxRowId
    BY Numbers
  <2>4. Fits(view, views, x.db, x.next) /\ x.db.tables = d.tables
    BY <1>2, <1>6, <2>3, Zenon DEF Progress, Outcome
  <2>5. Sound(view, x.db)
    BY <1>6, <2>4, SoundKept, Zenon
  <2> HIDE DEF acts, x, key
  <2>6. ParentActs(x, key, view) \in Outcome(view, views, x.db, x.next, below)
    BY <2>4, ParentActsFit, Zenon
  <2>7. Settled(view, x.db, ParentActs(x, key, view), "parent", key)
    BY <2>2, <2>4, <2>5, ParentActsSettle, Zenon
  <2> QED
    BY <2>1, <2>6, <2>7, Zenon DEF x, key
<1> HIDE DEF acts, below
<1>7. Looped(run, acts, view, views, d, n, below, Tables, "parent", rows)
  BY <1>2, <1>6, Zenon DEF Looped
<1> QED
  BY <1>2, <1>3, <1>4, <1>7, LoopSweeps, Zenon

\* A row that refers to a parent there was refers to one that is still there.
Linked(view, d, e) ==
    \A u \in Children : \A w \in SeenRows(e, u, view) :
        HasKey(view, d, ParentOf[u], w.ref) => w.ref = Null \/ HasKey(view, e, ParentOf[u], w.ref)

LEMMA InsertLinks ==
  ASSUME NEW view, view.tx \in TxIds, NEW d \in AnyDb, NEW n \in Nat \ {0},
         NEW t \in Tables, NEW key \in KeyValues, NEW ref \in KeyValues \cup {Null},
         NEW r, r = Insert(d, n, t, key, ref, view), r.ok
  PROVE  Linked(view, d, r.db)
<1> DEFINE put == StoreRow(d, n, t, key, ref, view, Null)
           k == put.db.row_count[t] + 1
           e == put.db
           f == r.db
<1>0. put = StoreRow(d, n, t, key, ref, view, Null)
  BY Zenon
<1>1. put.ok => /\ e.rows[t] = d.rows[t] \cup {NewVersion(n, key, ref, view)}
                /\ \A u \in Tables : u # t => e.rows[u] = d.rows[u]
  <2> HIDE DEF put
  <2> QED
    BY <1>0, StoreParts
<1>2. put \in AnyResult
  <2> HIDE DEF put
  <2> QED
    BY <1>0, StoreParts
<1>3. put.ok /\ r = [put EXCEPT !.db.row_count[t] = k]
  BY DEF Insert
<1> HIDE DEF put, k
<1>4. f.rows = e.rows
  BY <1>2, <1>3 DEF AnyResult, AnyDb
<1> HIDE DEF e, f
<1>5. \A u \in Tables : d.rows[u] \subseteq f.rows[u]
  BY <1>1, <1>2, <1>3, <1>4, Zenon
<1>6. \A u \in Children : ParentOf[u] \in Tables
  BY Family, Zenon
<1> QED
  BY <1>5, <1>6, Zenon DEF Linked, HasKey, SeenRows, f

LEMMA UpdateLinks ==
  ASSUME NEW c \in Clients, NEW view, view = View(c), NEW views, Sole(view, views),
         NEW d, NEW n, Fits(view, views, d, n), Sound(view, d),
         NEW t \in Tables, Modifies(c, t), Updated(t),
         NEW rows, rows \subseteq d.rows[t], \A v \in rows : Visible(view, v),
         NEW key \in KeyValues \cup {Same}, NEW ref \in KeyValues \cup {Null},
         NEW r, r = UpdateRows(d, n, t, rows, key, ref, view), r.ok
  PROVE  Linked(view, d, r.db)
<1> DEFINE e == r.db
<1>1. Placed(view, d, t)
  BY Family, Zenon DEF Placed, Sound
<1>2. Renewed(view, d, e, t, rows, ref, MaxRowId)
  BY <1>1, UpdateRowsStay, Zenon
<1>3. \A u \in Tables : u # t => e.rows[u] = d.rows[u]
  <2>1. UpdateRows(d, n, t, rows, key, ref, view) \in Outcome(view, views, d, n, {t})
    BY UpdateRowsFit, Zenon
  <2>2. r \in Outcome(view, views, d, n, {t})
    BY <2>1, Zenon
  <2> QED
    BY <2>2, Zenon DEF Outcome
<1> HIDE DEF e
<1> SUFFICES ASSUME NEW u \in Children, NEW w \in SeenRows(e, u, view),
                    HasKey(view, d, ParentOf[u], w.ref)
             PROVE  HasKey(view, e, ParentOf[u], w.ref)
  BY Zenon DEF Linked, e
<1>4. u \in Tables /\ ParentOf[u] \in Tables /\ ParentOf[u] # u
  BY Family, Zenon
<1>5. CASE ParentOf[u] # t
  <2>1. e.rows[ParentOf[u]] = d.rows[ParentOf[u]]
    BY <1>3, <1>4, <1>5, Zenon
  <2> QED
    BY <2>1, SameSeen, Zenon
<1>6. CASE ParentOf[u] = t
  <2>1. e.rows[u] = d.rows[u]
    BY <1>3, <1>4, <1>6, Zenon
  <2>2. w \in SeenRows(d, u, view)
    BY <2>1, SameSeen, Zenon
  <2>3. u \in ChildrenOf(t)
    BY <1>6, Family, Zenon
  <2> QED
    BY <1>2, <1>6, <2>2, <2>3, Zenon DEF Renewed, KeysStay
<1> QED
  BY <1>5, <1>6

LEMMA DeleteKept ==
  ASSUME NEW c \in Clients, NEW view, view = View(c), NEW views, Sole(view, views),
         NEW d, NEW n, Fits(view, views, d, n), Sound(view, d),
         NEW t \in Tables, Deletes(c, t),
         NEW rows, rows \subseteq d.rows[t], \A v \in rows : Visible(view, v),
         NEW r, r = Delete(d, n, t, rows, view), r.ok
  PROVE  Kept(view, d, r.db)
<1>1. CASE t = "grand"
  <2>1. Modifies(c, "grand")
    BY <1>1, Zenon DEF Modifies
  <2>2. r = DeleteGrand(d, n, rows, view)
    BY <1>1 DEF Delete
  <2>3. Swept(view, d, r.db, "grand", rows, MaxRowId)
    BY <1>1, <2>1, <2>2, DeleteGrandSweeps, Zenon
  <2> QED
    BY <2>3, Zenon DEF Swept
<1>2. CASE t = "child"
  <2>1. Modifies(c, "child") /\ Modifies(c, "grand")
    BY <1>2 DEF Modifies, Children, ParentOf
  <2>2. r = DeleteChild(d, n, rows, view)
    BY <1>2 DEF Delete
  <2>3. Swept(view, d, r.db, "child", rows, MaxRowId)
    BY <1>2, <2>1, <2>2, DeleteChildSweeps, Zenon
  <2> QED
    BY <2>3, Zenon DEF Swept
<1>3. CASE t = "parent"
  <2>1. Modifies(c, "parent") /\ Modifies(c, "child") /\ Modifies(c, "grand")
    BY <1>3 DEF Modifies, Children, ParentOf
  <2>2. r = DeleteParent(d, n, rows, view)
    BY <1>3 DEF Delete
  <2>3. Swept(view, d, r.db, "parent", rows, MaxRowId)
    BY <1>3, <2>1, <2>2, DeleteParentSweeps, Zenon
  <2> QED
    BY <2>3, Zenon DEF Swept
<1> QED
  BY <1>1, <1>2, <1>3 DEF Tables

-----------------------------------------------------------------------------
(* References: what a step leaves of them *)

\* Latest, of any database and verdicts.
Took(st, high, others, x) == x = 0 \/ (x < high /\ x \notin others /\ st[x] = "committed")
Shows(st, high, others, v) ==
    Took(st, high, others, v.tx_min) /\ ~(v.tx_max # 0 /\ Took(st, high, others, v.tx_max))
Sight(d, st, high, others, t) == {v \in d.rows[t] : Shows(st, high, others, v)}

LEMMA LatestIs ==
  /\ \A t : Latest(t) = Sight(db, status, next_txid, active, t)
  /\ \A t : Latest(t)' = Sight(db', status', next_txid', active', t)
  BY DEF Latest, SeenRows, Visible, Committed, FreshView, Sight, Shows, Took

\* Where snapshots agree on the stamps, they show the same.
Stamped(rows, stamps) ==
    \A v \in rows : v.tx_min \in stamps /\ (v.tx_max # 0 => v.tx_max \in stamps)
Agree(stamps, st, high, others, view) ==
    \A x \in stamps : Took(st, high, others, x) <=> Committed(view, x)

LEMMA SightSeen ==
  ASSUME NEW d, NEW t, NEW stamps, Stamped(d.rows[t], stamps),
         NEW st, NEW high, NEW others, NEW view, Agree(stamps, st, high, others, view)
  PROVE  Sight(d, st, high, others, t) = SeenRows(d, t, view)
<1>1. ASSUME NEW v \in d.rows[t] PROVE Shows(st, high, others, v) <=> Visible(view, v)
  <2>1. v.tx_min \in stamps /\ (v.tx_max # 0 => v.tx_max \in stamps)
    BY Zenon DEF Stamped
  <2>2. \A x \in stamps : Took(st, high, others, x) <=> Committed(view, x)
    BY Zenon DEF Agree
  <2> QED
    BY <2>1, <2>2, Zenon DEF Shows, Visible
<1> QED
  BY <1>1, Zenon DEF Sight, SeenRows

\* Without transactions a statement sees what has committed, and what it leaves is what
\* is committed next.
LEMMA StatementSight ==
  ASSUME ConstraintInv, NEW c \in Clients, client[c].txn = "none", NEW r,
         Result(c, r), Run(c, r)
  PROVE  /\ \A t \in Tables :
               Sight(db, status, next_txid, active, t) = SeenRows(db, t, View(c))
         /\ r.ok => \A t \in Tables :
               Sight(db', status', next_txid', active', t) = SeenRows(r.db, t, View(c))
         /\ ~r.ok => \A t \in Tables :
               Sight(db', status', next_txid', active', t)
                  = Sight(db, status, next_txid, active, t)
<1> DEFINE view == View(c)
           old == {x \in TxIds : x < next_txid}
           now == {x \in TxIds : x < next_txid \/ x = next_txid}
           verdict == IF r.ok THEN "committed" ELSE "rolled_back"
<1>1. TypeInv /\ TxInv /\ StoreInv /\ db \in AnyDb
  BY Zenon DEF ConstraintInv, StoreInv
<1>2. /\ next_txid \in 1..(MaxTxId + 1) /\ MaxTxId \in Nat /\ TxIds \subseteq Nat \ {0}
      /\ status \in [TxIds -> {"none", "committed", "rolled_back"}]
  BY <1>1, Numbers DEF TypeInv
<1>3. view.tx = next_txid /\ view.high = next_txid /\ view.others = active /\ ~Open(c)
  <2>1. ~Open(c)
    BY DEF Open
  <2> QED
    BY <2>1, ViewParts, Zenon
<1>4. /\ next_txid' = next_txid + 1 /\ active' = active
      /\ status' = [status EXCEPT ![next_txid] = verdict]
      /\ r.ok => db' = r.db
      /\ ~r.ok => db' = db
  BY DEF Run
<1>5. next_txid \in TxIds
  <2>1. constraint_load.txs \in 0..MaxTxId /\ next_txid <= constraint_load.txs
    BY <1>1, ConstraintConstants DEF TypeInv, Run
  <2> QED
    BY <1>2, <2>1 DEF TxIds
<1>6. next_txid \notin active
  <2> SUFFICES ASSUME next_txid \in active PROVE FALSE
    OBVIOUS
  <2>1. PICK b \in Clients : Open(b) /\ client[b].tx = next_txid
    BY <1>1, <1>5, Zenon DEF TxInv
  <2>2. client[b].tx < next_txid
    BY <1>1, <2>1, OpenSees, Zenon
  <2> QED
    BY <1>2, <2>1, <2>2
<1> HIDE DEF view
<1>7. ASSUME NEW x \in old PROVE Took(status, next_txid, active, x) <=> Committed(view, x)
  BY <1>2, <1>3 DEF Took, Committed
<1>8. ASSUME NEW t \in Tables, NEW v \in db.rows[t]
      PROVE  v.tx_min \in old /\ (v.tx_max # 0 => v.tx_max \in old)
  <2>1. v \in AnyVersion
    BY <1>1, DbParts, Zenon
  <2>2. v.tx_min < next_txid /\ v.tx_max < next_txid
    BY <1>1, Zenon DEF StoreInv
  <2> QED
    BY <1>2, <2>1, <2>2 DEF AnyVersion, TxIds
<1>9. ASSUME NEW x \in now
      PROVE  Took(status', next_txid', active', x) <=>
                \/ x < next_txid /\ Took(status, next_txid, active, x)
                \/ x = next_txid /\ r.ok
  <2>1. x # 0 /\ (verdict = "committed" <=> r.ok) /\ x \in Nat /\ x \in TxIds
    BY <1>2
  <2>2. x < next_txid \/ x = next_txid
    OBVIOUS
  <2> HIDE DEF verdict, now
  <2>3. CASE x < next_txid
    <3>1. status'[x] = status[x] /\ x < next_txid' /\ x # next_txid
      BY <1>2, <1>4, <2>1, <2>3
    <3>2. Took(status', next_txid', active', x) <=> x \notin active /\ status[x] = "committed"
      BY <1>4, <2>1, <3>1 DEF Took
    <3>3. Took(status, next_txid, active, x) <=> x \notin active /\ status[x] = "committed"
      BY <2>1, <2>3 DEF Took
    <3> QED
      BY <2>3, <3>1, <3>2, <3>3
  <2>4. CASE x = next_txid
    <3>1. status'[x] = verdict /\ x < next_txid' /\ ~(x < next_txid)
      BY <1>2, <1>4, <2>1, <2>4
    <3> QED
      BY <1>4, <1>6, <2>1, <2>4, <3>1, Zenon DEF Took
  <2> QED
    BY <2>2, <2>3, <2>4
<1> HIDE DEF verdict
<1>13. /\ \A x \in old : x \in now /\ x < next_txid /\ x # next_txid
       /\ \A x \in now : x # next_txid => x \in old /\ x < next_txid
  BY <1>2
<1>10. \A t \in Tables : Sight(db, status, next_txid, active, t) = SeenRows(db, t, view)
  <2> HIDE DEF old
  <2>1. Agree(old, status, next_txid, active, view)
    BY <1>7, Zenon DEF Agree
  <2>2. \A t \in Tables : Stamped(db.rows[t], old)
    BY <1>8, Zenon DEF Stamped
  <2> QED
    BY <2>1, <2>2, SightSeen, Zenon
<1>11. ASSUME r.ok, NEW t \in Tables
       PROVE  Sight(db', status', next_txid', active', t) = SeenRows(r.db, t, view)
  <2>1. r \in AnyResult /\ Good(r.db, r.next, view)
    BY <1>11, Zenon DEF Result, Outcome, Fits, view
  <2>2. r.db \in AnyDb /\ Stamps(r.db, view)
    BY <2>1 DEF Good
  <2>3. ASSUME NEW v \in r.db.rows[t]
        PROVE  v.tx_min \in now /\ (v.tx_max # 0 => v.tx_max \in now)
    <3>1. v \in AnyVersion
      BY <2>2, DbParts, Zenon
    <3>2. /\ v.tx_min < next_txid \/ v.tx_min = next_txid
          /\ v.tx_max < next_txid \/ v.tx_max = next_txid
      BY <1>3, <2>2, Zenon DEF Stamps
    <3> QED
      BY <1>2, <3>1, <3>2 DEF AnyVersion, TxIds
  <2>4. ASSUME NEW x \in now PROVE Took(status', next_txid', active', x) <=> Committed(view, x)
    <3>1. CASE x = next_txid
      BY <1>3, <1>9, <1>11, <3>1, Zenon DEF Committed
    <3>2. CASE x # next_txid
      <4>1. x \in old /\ x < next_txid
        BY <1>13, <3>2, Zenon
      <4> HIDE DEF old, now
      <4> QED
        BY <1>7, <1>9, <3>2, <4>1
    <3> QED
      BY <3>1, <3>2
  <2> HIDE DEF now
  <2>5. Sight(r.db, status', next_txid', active', t) = SeenRows(r.db, t, view)
    <3>1. Agree(now, status', next_txid', active', view)
      BY <2>4, Zenon DEF Agree
    <3> DEFINE e == r.db
    <3>2. Stamped(e.rows[t], now)
      BY <2>3, Zenon DEF Stamped
    <3> HIDE DEF e
    <3>3. Sight(e, status', next_txid', active', t) = SeenRows(e, t, view)
      BY <3>1, <3>2, SightSeen, Zenon
    <3> QED
      BY <3>3, Zenon DEF e
  <2> QED
    BY <1>4, <1>11, <2>5, Zenon
<1>12. ASSUME ~r.ok, NEW t \in Tables
       PROVE  Sight(db', status', next_txid', active', t) = SeenRows(db, t, view)
  <2>1. ASSUME NEW x \in old PROVE Took(status', next_txid', active', x) <=> Committed(view, x)
    <3>1. x \in now /\ x < next_txid /\ x # next_txid
      BY <1>13, Zenon
    <3> HIDE DEF old, now
    <3> QED
      BY <1>7, <1>9, <1>12, <3>1
  <2> HIDE DEF old
  <2>2. Sight(db, status', next_txid', active', t) = SeenRows(db, t, view)
    <3>1. Agree(old, status', next_txid', active', view)
      BY <2>1, Zenon DEF Agree
    <3>2. Stamped(db.rows[t], old)
      BY <1>8, Zenon DEF Stamped
    <3> QED
      BY <3>1, <3>2, SightSeen, Zenon
  <2> QED
    BY <1>4, <1>12, <2>2, Zenon
<1> QED
  BY <1>10, <1>11, <1>12, Zenon DEF view

\* No transaction is in flight, and references are in tables that exist.
Alone == \A c \in Clients : client[c].txn = "none"
Housed(d, st, high, others) ==
    \A u \in Children : \A w \in Sight(d, st, high, others, u) : w.ref # Null => u \in d.tables
RefInv == ~Does("transactions") => Alone /\ Housed(db, status, next_txid, active)

\* What DeleteKeepsReferences says of a step.
ReferencesLast(d, st, high, others, e, st2, high2, others2) ==
    \A u \in Children : \A w \in Sight(e, st2, high2, others2, u) :
        (\E v \in Sight(d, st, high, others, ParentOf[u]) : v.key = w.ref)
           => \/ w.ref = Null
              \/ \E v \in Sight(e, st2, high2, others2, ParentOf[u]) : v.key = w.ref

\* The state after a step without transactions.
Lasts ==
    /\ ReferencesLast(db, status, next_txid, active, db', status', next_txid', active')
    /\ Alone' /\ Housed(db', status', next_txid', active')

LEMMA StatementSound ==
  ASSUME ConstraintInv, Alone, Housed(db, status, next_txid, active), NEW c \in Clients,
         NEW r, Result(c, r), Run(c, r)
  PROVE  Sound(View(c), db)
<1>1. next_id \in 1..(MaxRowId + 1) /\ db \in AnyDb /\ Ids(db, next_id)
  BY DEF ConstraintInv, StoreInv, TypeInv
<1> SUFFICES ASSUME NEW u \in Children, NEW w \in SeenRows(db, u, View(c)), w.ref # Null
             PROVE  w.id <= MaxRowId /\ u \in db.tables
  BY Zenon DEF Sound
<1>2. u \in Tables /\ client[c].txn = "none"
  BY Family, Zenon DEF Alone
<1>3. Sight(db, status, next_txid, active, u) = SeenRows(db, u, View(c))
  BY <1>2, StatementSight, Zenon
<1>4. u \in db.tables
  BY <1>3, Zenon DEF Housed
<1>5. w \in db.rows[u]
  BY Zenon DEF SeenRows
<1>6. w.id < next_id
  BY <1>1, <1>2, <1>5, Zenon DEF Ids
<1>7. w \in AnyVersion
  BY <1>1, <1>2, <1>5, DbParts, Zenon
<1>8. w.id <= MaxRowId
  BY <1>1, <1>6, <1>7, Numbers DEF AnyVersion
<1> QED
  BY <1>4, <1>8

LEMMA SameLasts ==
  ASSUME Alone, Housed(db, status, next_txid, active), client' = client,
         db.tables \subseteq db'.tables,
         \A t \in Tables : Sight(db', status', next_txid', active', t)
                              = Sight(db, status, next_txid, active, t)
  PROVE  Lasts
<1>1. \A u \in Children : u \in Tables /\ ParentOf[u] \in Tables
  BY Family, Zenon
<1>2. ReferencesLast(db, status, next_txid, active, db', status', next_txid', active')
  BY <1>1, Zenon DEF ReferencesLast
<1>3. Housed(db', status', next_txid', active')
  BY <1>1, Zenon DEF Housed
<1>4. Alone'
  BY DEF Alone
<1> QED
  BY <1>2, <1>3, <1>4, Zenon DEF Lasts

\* What a statement of a connection has to leave.
Links(view, d, e) ==
    /\ Linked(view, d, e)
    /\ \A u \in Children : \A w \in SeenRows(e, u, view) : w.ref # Null => u \in e.tables

LEMMA StatementLasts ==
  ASSUME ConstraintInv, Alone, Housed(db, status, next_txid, active), NEW c \in Clients,
         NEW r, Result(c, r), Run(c, r), r.ok => Links(View(c), db, r.db)
  PROVE  Lasts
<1> DEFINE view == View(c)
<1>1. client[c].txn = "none"
  BY Zenon DEF Alone
<1>2. client' = client /\ (r.ok => db' = r.db) /\ (~r.ok => db' = db)
  BY <1>1 DEF Run
<1>3. /\ \A t \in Tables :
            Sight(db, status, next_txid, active, t) = SeenRows(db, t, view)
      /\ r.ok => \A t \in Tables :
            Sight(db', status', next_txid', active', t) = SeenRows(r.db, t, view)
      /\ ~r.ok => \A t \in Tables :
            Sight(db', status', next_txid', active', t) = Sight(db, status, next_txid, active, t)
  BY <1>1, StatementSight, Zenon
<1>4. CASE ~r.ok
  <2>1. db.tables \subseteq db'.tables
    BY <1>2, <1>4
  <2> QED
    BY <1>2, <1>3, <1>4, <2>1, SameLasts, Zenon
<1>5. CASE r.ok
  <2> DEFINE e == r.db
  <2>1. /\ Linked(view, db, e)
        /\ \A u \in Children : \A w \in SeenRows(e, u, view) : w.ref # Null => u \in e.tables
    BY <1>5, Zenon DEF Links
  <2> HIDE DEF view
  <2>2. \A u \in Children : u \in Tables /\ ParentOf[u] \in Tables
    BY Family, Zenon
  <2>3. /\ \A t \in Tables : Sight(db, status, next_txid, active, t) = SeenRows(db, t, view)
        /\ \A t \in Tables : Sight(db', status', next_txid', active', t) = SeenRows(e, t, view)
    BY <1>3, <1>5, Zenon
  <2> HIDE DEF e
  <2>4. ReferencesLast(db, status, next_txid, active, db', status', next_txid', active')
    BY <2>1, <2>2, <2>3, Zenon DEF ReferencesLast, Linked, HasKey
  <2>5. Housed(db', status', next_txid', active')
    BY <1>2, <1>5, <2>1, <2>2, <2>3, Zenon DEF Housed, e
  <2>6. Alone'
    BY <1>2 DEF Alone
  <2> QED
    BY <2>4, <2>5, <2>6, Zenon DEF Lasts
<1> QED
  BY <1>4, <1>5

\* INSERT and UPDATE write to a table that exists.
LEMMA LinkedLinks ==
  ASSUME NEW view, NEW views, NEW d, NEW n, NEW t \in d.tables, Sound(view, d),
         NEW r, r \in Outcome(view, views, d, n, {t}), r.ok, Linked(view, d, r.db)
  PROVE  Links(view, d, r.db)
<1> DEFINE e == r.db
<1>1. e.tables = d.tables /\ \A u \in Tables : u # t => e.rows[u] = d.rows[u]
  BY Zenon DEF Outcome
<1> HIDE DEF e
<1> SUFFICES ASSUME NEW u \in Children, NEW w \in SeenRows(e, u, view), w.ref # Null
             PROVE  u \in e.tables
  BY Zenon DEF Links, e
<1>2. CASE u = t
  BY <1>1, <1>2, Zenon
<1>3. CASE u # t
  <2>1. u \in Tables
    BY Family, Zenon
  <2>2. w \in SeenRows(d, u, view)
    BY <1>1, <1>3, <2>1, SameSeen, Zenon
  <2> QED
    BY <1>1, <2>2, Zenon DEF Sound
<1> QED
  BY <1>2, <1>3

LEMMA StatementsLast ==
  ASSUME ConstraintInv, Alone, Housed(db, status, next_txid, active),
         NEW c \in Clients, NEW t \in Tables
  PROVE  /\ \A key \in KeyValues, ref \in KeyValues \cup {Null} :
               InsertStmt(c, t, key, ref) => Lasts
         /\ \A which \in KeyValues, key \in KeyValues, ref \in KeyValues \cup {Null} :
               UpdateStmt(c, t, which, key, ref) => Lasts
         /\ \A which \in KeyValues : DeleteStmt(c, t, which) => Lasts
<1> DEFINE view == View(c)
           views == Views \cup {view}
           Rows(which) == {v \in SeenRows(db, t, view) : v.key = which}
<1>1. TypeInv /\ TxInv /\ StoreInv /\ KeyInv
  BY Zenon DEF ConstraintInv
<1>2. ~Open(c)
  BY DEF Alone, Open
<1>3. ASSUME NEW r, Run(c, r) PROVE next_txid <= MaxTxId
  <2>1. constraint_load.txs \in 0..MaxTxId /\ next_txid \in 1..(MaxTxId + 1)
    BY <1>1, ConstraintConstants DEF TypeInv
  <2>2. next_txid <= constraint_load.txs
    BY <1>2, <1>3 DEF Run, Open
  <2> QED
    BY <2>1, <2>2, Numbers
<1>4. ASSUME next_txid <= MaxTxId PROVE Sole(view, views) /\ Fits(view, views, db, next_id)
  BY <1>1, <1>4, StatementSole, StatementFits, Zenon
<1>5. \A which : /\ Rows(which) \subseteq db.rows[t]
                 /\ \A v \in Rows(which) : Visible(view, v)
  BY Zenon DEF SeenRows
<1>6. view = View(c)
  BY Zenon
<1>7. ASSUME NEW key \in KeyValues, NEW ref \in KeyValues \cup {Null}, InsertStmt(c, t, key, ref)
      PROVE  Lasts
  <2> DEFINE r == Insert(db, next_id, t, key, ref, view)
  <2>1. Run(c, r) /\ t \in db.tables
    BY <1>7, Zenon DEF InsertStmt, Writes
  <2>2. next_txid <= MaxTxId
    BY <1>3, <2>1, Zenon
  <2>3. Result(c, r)
    BY <1>1, <2>2, StatementResults, Zenon
  <2>4. Sound(view, db)
    BY <2>1, <2>3, StatementSound, Zenon
  <2>5. Sole(view, views) /\ Fits(view, views, db, next_id)
    BY <1>4, <2>2, Zenon
  <2>6. view.tx \in TxIds /\ db \in AnyDb /\ next_id \in Nat \ {0}
    BY <2>5, Zenon DEF Sole, Fits, Good
  <2>7. r = Insert(db, next_id, t, key, ref, view)
    BY Zenon
  <2> HIDE DEF view, views, r
  <2>8. r.ok => Linked(view, db, r.db)
    BY <2>6, <2>7, InsertLinks, Zenon
  <2>9. r \in Outcome(view, views, db, next_id, {t})
    <3>1. Insert(db, next_id, t, key, ref, view) \in Outcome(view, views, db, next_id, {t})
      BY <2>5, InsertFits, Zenon
    <3> QED
      BY <2>7, <3>1, Zenon
  <2>10. r.ok => Links(view, db, r.db)
    BY <2>1, <2>4, <2>8, <2>9, LinkedLinks, Zenon
  <2>11. r.ok => Links(View(c), db, r.db)
    BY <1>6, <2>10, Zenon
  <2> QED
    BY <2>1, <2>3, <2>11, StatementLasts, Zenon
<1>8. ASSUME NEW which \in KeyValues, NEW key \in KeyValues, NEW ref \in KeyValues \cup {Null},
             UpdateStmt(c, t, which, key, ref)
      PROVE  Lasts
  <2> DEFINE rows == Rows(which)
             r == UpdateRows(db, next_id, t, rows, key, ref, view)
  <2>1. Run(c, r) /\ t \in db.tables /\ <<t, "update">> \in constraint_load.writes[c]
    BY <1>8, Zenon DEF UpdateStmt, Writes
  <2>2. next_txid <= MaxTxId
    BY <1>3, <2>1, Zenon
  <2>3. Result(c, r)
    BY <1>1, <2>1, <2>2, StatementResults, Zenon
  <2>4. Sound(view, db)
    BY <2>1, <2>3, StatementSound, Zenon
  <2>5. Sole(view, views) /\ Fits(view, views, db, next_id)
    BY <1>4, <2>2, Zenon
  <2>6. rows \subseteq db.rows[t] /\ \A v \in rows : Visible(view, v)
    BY <1>5, Zenon
  <2>7. Modifies(c, t) /\ Updated(t) /\ key \in KeyValues \cup {Same}
    BY <2>1, Zenon DEF Modifies, Updated
  <2>8. r = UpdateRows(db, next_id, t, rows, key, ref, view)
    BY Zenon
  <2> HIDE DEF view, views, rows, r
  <2>9. r.ok => Linked(view, db, r.db)
    BY <1>6, <2>4, <2>5, <2>6, <2>7, <2>8, UpdateLinks, Zenon
  <2>10. r \in Outcome(view, views, db, next_id, {t})
    <3>1. UpdateRows(db, next_id, t, rows, key, ref, view)
             \in Outcome(view, views, db, next_id, {t})
      BY <1>6, <2>5, <2>6, <2>7, UpdateRowsFit, Zenon
    <3> QED
      BY <2>8, <3>1, Zenon
  <2>11. r.ok => Links(view, db, r.db)
    BY <2>1, <2>4, <2>9, <2>10, LinkedLinks, Zenon
  <2>12. r.ok => Links(View(c), db, r.db)
    BY <1>6, <2>11, Zenon
  <2> QED
    BY <2>1, <2>3, <2>12, StatementLasts, Zenon
<1>9. ASSUME NEW which \in KeyValues, DeleteStmt(c, t, which) PROVE Lasts
  <2> DEFINE rows == Rows(which)
             r == Delete(db, next_id, t, rows, view)
  <2>1. Run(c, r) /\ t \in db.tables /\ <<t, "delete">> \in constraint_load.writes[c]
    BY <1>9, Zenon DEF DeleteStmt, Writes
  <2>2. next_txid <= MaxTxId
    BY <1>3, <2>1, Zenon
  <2>3. Result(c, r)
    BY <1>1, <2>1, <2>2, StatementResults, Zenon
  <2>4. Sound(view, db)
    BY <2>1, <2>3, StatementSound, Zenon
  <2>5. Sole(view, views) /\ Fits(view, views, db, next_id)
    BY <1>4, <2>2, Zenon
  <2>6. rows \subseteq db.rows[t] /\ \A v \in rows : Visible(view, v)
    BY <1>5, Zenon
  <2>7. Deletes(c, t)
    BY <2>1, Zenon DEF Deletes
  <2>8. r = Delete(db, next_id, t, rows, view)
    BY Zenon
  <2>9. r.ok => r.db.tables = db.tables
    BY <2>3, Zenon DEF Result, Outcome
  <2> HIDE DEF view, views, rows, r
  <2>10. r.ok => Kept(view, db, r.db)
    BY <1>6, <2>4, <2>5, <2>6, <2>7, <2>8, DeleteKept, Zenon
  <2>11. r.ok => Links(view, db, r.db)
    BY <2>4, <2>9, <2>10, Zenon DEF Kept, Sound, Links, Linked
  <2>12. r.ok => Links(View(c), db, r.db)
    BY <1>6, <2>11, Zenon
  <2> QED
    BY <2>1, <2>3, <2>12, StatementLasts, Zenon
<1> QED
  BY <1>7, <1>8, <1>9, Zenon

\* The rows that leave the tables were not seen.
LEMMA DeadUnseen ==
  ASSUME ConstraintInv, NEW t \in Tables, NEW v \in db.rows[t],
         RolledBackInsert(v) \/ CommittedTombstone(v)
  PROVE  ~Shows(status, next_txid, active, v)
<1>1. TypeInv /\ TxInv /\ db \in AnyDb /\ v.tx_max < next_txid
  BY Zenon DEF ConstraintInv, StoreInv
<1>2. v \in AnyVersion
  BY <1>1, DbParts, Zenon
<1>3. v.tx_min # 0 /\ v.tx_max \in 0..MaxTxId
  BY <1>2, Numbers DEF AnyVersion
<1>4. CASE RolledBackInsert(v)
  BY <1>3, <1>4 DEF RolledBackInsert, Shows, Took
<1>5. CASE CommittedTombstone(v)
  <2>1. v.tx_max # 0 /\ status[v.tx_max] = "committed" /\ v.tx_max \in TxIds
    BY <1>3, <1>5, Numbers DEF CommittedTombstone, TxIds
  <2>2. v.tx_max \notin active
    BY <1>1, <2>1, Zenon DEF TxInv
  <2> QED
    BY <1>1, <2>1, <2>2, Zenon DEF Shows, Took
<1> QED
  BY <1>4, <1>5

LEMMA FewerLast ==
  ASSUME Alone, Housed(db, status, next_txid, active), Quiet, db'.tables = db.tables,
         \A t \in Tables : db'.rows[t] \subseteq db.rows[t],
         \A t \in Tables : \A v \in db.rows[t] :
            v \in db'.rows[t] \/ ~Shows(status, next_txid, active, v)
  PROVE  Lasts
<1>1. status' = status /\ next_txid' = next_txid /\ active' = active /\ client' = client
  BY DEF Quiet
<1>2. ASSUME NEW t \in Tables
      PROVE  Sight(db', status', next_txid', active', t) = Sight(db, status, next_txid, active, t)
  <2>1. Sight(db', status, next_txid, active, t) = Sight(db, status, next_txid, active, t)
    BY DEF Sight
  <2> QED
    BY <1>1, <2>1, Zenon
<1> QED
  BY <1>1, <1>2, SameLasts, Zenon

LEMMA ReclaimLasts ==
  ASSUME ConstraintInv, Alone, Housed(db, status, next_txid, active),
         NEW t \in Tables, ReclaimTable(t)
  PROVE  Lasts
<1> DEFINE rolled_back == {v \in db.rows[t] : v.tx_min < OldestActive /\ RolledBackInsert(v)}
           tombstones  == {v \in db.rows[t] : v.tx_max < OldestActive /\ CommittedTombstone(v)}
           gone == rolled_back \cup tombstones
           d == RemoveRows(db, t, gone)
           k == Max({0, d.row_count[t] - Cardinality(rolled_back \ tombstones)})
<1>1. db \in AnyDb
  BY Zenon DEF ConstraintInv, StoreInv
<1>2. db' = [d EXCEPT !.row_count[t] = k] /\ Quiet
  BY DEF ReclaimTable, Quiet
<1>3. \A v \in gone : v \in db.rows[t] /\ (RolledBackInsert(v) \/ CommittedTombstone(v))
  BY Zenon
<1> HIDE DEF k, gone
<1>4. db'.tables = db.tables /\ db'.rows = [db.rows EXCEPT ![t] = @ \ gone]
  BY <1>1, <1>2 DEF RemoveRows, AnyDb
<1>5. /\ db'.rows[t] = db.rows[t] \ gone
      /\ \A u \in Tables : u # t => db'.rows[u] = db.rows[u]
  BY <1>1, <1>4 DEF AnyDb
<1>6. \A v \in gone : ~Shows(status, next_txid, active, v)
  BY <1>3, DeadUnseen, Zenon
<1> QED
  BY <1>2, <1>4, <1>5, <1>6, FewerLast, Zenon

LEMMA VacuumLasts ==
  ASSUME ConstraintInv, Alone, Housed(db, status, next_txid, active), Vacuum
  PROVE  Lasts
<1> DEFINE Dead(t) == {v \in db.rows[t] : RolledBackInsert(v) \/ CommittedTombstone(v)}
<1>1. db \in AnyDb
  BY Zenon DEF ConstraintInv, StoreInv
<1>2. /\ db' = RemoveRows(RemoveRows(RemoveRows(db, "parent", Dead("parent")),
                             "child", Dead("child")), "grand", Dead("grand"))
      /\ Quiet
  BY DEF Vacuum, Quiet
<1>3. \A t : \A v \in Dead(t) : v \in db.rows[t] /\ (RolledBackInsert(v) \/ CommittedTombstone(v))
  BY Zenon
<1> HIDE DEF Dead
<1>4. /\ db'.tables = db.tables
      /\ db'.rows = [[[db.rows EXCEPT !["parent"] = @ \ Dead("parent")]
                               EXCEPT !["child"] = @ \ Dead("child")]
                               EXCEPT !["grand"] = @ \ Dead("grand")]
  BY <1>1, <1>2 DEF RemoveRows, AnyDb
<1>5. \A t \in Tables : db'.rows[t] = db.rows[t] \ Dead(t)
  BY <1>1, <1>4 DEF AnyDb, Tables
<1>6. \A t \in Tables : \A v \in Dead(t) : ~Shows(status, next_txid, active, v)
  BY <1>3, DeadUnseen, Zenon
<1> QED
  BY <1>2, <1>4, <1>5, <1>6, FewerLast, Zenon

LEMMA RefInit == ASSUME ConstraintInit PROVE RefInv
<1>1. \A c \in Clients : client[c].txn = "none"
  BY DEF ConstraintInit, NoTransaction
<1>2. \A t \in Tables : db.rows[t] = {}
  BY DEF ConstraintInit
<1>3. Children \subseteq Tables
  BY Family, Zenon
<1> QED
  BY <1>1, <1>2, <1>3, Zenon DEF RefInv, Alone, Housed, Sight

LEMMA RefStep ==
  ASSUME ConstraintInv, RefInv, [ConstraintNext]_constraintVars
  PROVE  /\ RefInv'
         /\ ~Does("transactions") /\ db'.tables = db.tables =>
               ReferencesLast(db, status, next_txid, active, db', status', next_txid', active')
<1>0. ConstraintNext \/ UNCHANGED constraintVars
  OBVIOUS
<1>1. constraint_load' = constraint_load
  <2>1. ASSUME NEW c, NEW r, Run(c, r) PROVE constraint_load' = constraint_load
    BY <2>1, Zenon DEF Run
  <2>2. ASSUME NEW c PROVE BeginTxn(c) => constraint_load' = constraint_load
    BY DEF BeginTxn
  <2>3. ASSUME NEW c, NEW verdict PROVE EndTxn(c, verdict) => constraint_load' = constraint_load
    BY DEF EndTxn
  <2>4. ASSUME NEW c, NEW t, NEW key, NEW ref, NEW which
        PROVE  InsertStmt(c, t, key, ref) \/ UpdateStmt(c, t, which, key, ref)
                  \/ DeleteStmt(c, t, which) => constraint_load' = constraint_load
    BY <2>1, Zenon DEF InsertStmt, UpdateStmt, DeleteStmt
  <2>5. ASSUME NEW t
        PROVE  ReclaimTable(t) \/ CreateTable(t) \/ DropTable(t)
                  => constraint_load' = constraint_load
    BY DEF ReclaimTable, CreateTable, DropTable
  <2>6. Vacuum \/ UNCHANGED constraintVars => constraint_load' = constraint_load
    BY DEF Vacuum, constraintVars
  <2> QED
    BY <1>0, <2>2, <2>3, <2>4, <2>5, <2>6, Zenon DEF ConstraintNext
<1>2. Does("transactions")' <=> Does("transactions")
  BY <1>1 DEF Does
<1>3. CASE Does("transactions")
  BY <1>2, <1>3 DEF RefInv
<1>4. CASE ~Does("transactions")
  <2>1. Alone /\ Housed(db, status, next_txid, active)
    BY <1>4, Zenon DEF RefInv
  <2>2. db \in AnyDb
    BY Zenon DEF ConstraintInv, StoreInv
  <2> DEFINE Met == /\ Alone' /\ Housed(db', status', next_txid', active')
                    /\ db'.tables = db.tables =>
                          ReferencesLast(db, status, next_txid, active,
                                         db', status', next_txid', active')
  <2>3. Lasts => Met
    BY Zenon DEF Lasts
  <2>4. ASSUME NEW c \in Clients, BeginTxn(c) PROVE Met
    BY <1>4, <2>4, Zenon DEF BeginTxn
  <2>5. ASSUME NEW c \in Clients, NEW verdict, EndTxn(c, verdict) PROVE Met
    BY <2>1, <2>5, Zenon DEF EndTxn, Alone
  <2>6. ASSUME NEW c \in Clients, NEW t \in Tables, NEW key \in KeyValues,
               NEW ref \in KeyValues \cup {Null}, InsertStmt(c, t, key, ref)
        PROVE  Met
    BY <2>1, <2>3, <2>6, StatementsLast, Zenon
  <2>7. ASSUME NEW c \in Clients, NEW t \in Tables, NEW key \in KeyValues,
               NEW ref \in KeyValues \cup {Null}, NEW which \in KeyValues,
               UpdateStmt(c, t, which, key, ref)
        PROVE  Met
    BY <2>1, <2>3, <2>7, StatementsLast, Zenon
  <2>8. ASSUME NEW c \in Clients, NEW t \in Tables, NEW which \in KeyValues,
               DeleteStmt(c, t, which)
        PROVE  Met
    BY <2>1, <2>3, <2>8, StatementsLast, Zenon
  <2>9. ASSUME NEW t \in Tables, ReclaimTable(t) PROVE Met
    BY <2>1, <2>3, <2>9, ReclaimLasts, Zenon
  <2>10. ASSUME Vacuum PROVE Met
    <3>1. Lasts
      BY <2>1, <2>10, VacuumLasts
    <3> QED
      BY <2>3, <3>1, Zenon
  <2>11. ASSUME NEW t \in Tables, CreateTable(t) PROVE Met
    <3>1. db' = [db EXCEPT !.tables = @ \cup {t}] /\ t \notin db.tables /\ Quiet
      BY <2>11 DEF CreateTable, Quiet
    <3>2. db'.tables = db.tables \cup {t} /\ db'.rows = db.rows
      BY <2>2, <3>1 DEF AnyDb
    <3>3. status' = status /\ next_txid' = next_txid /\ active' = active /\ client' = client
      BY <3>1 DEF Quiet
    <3>4. \A u : Sight(db', status', next_txid', active', u) = Sight(db, status, next_txid, active, u)
      BY <3>2, <3>3, Zenon DEF Sight
    <3>5. db.tables \subseteq db'.tables
      BY <3>2, Zenon
    <3> QED
      BY <2>1, <2>3, <3>3, <3>4, <3>5, SameLasts, Zenon
  <2>12. ASSUME NEW t \in Tables, DropTable(t) PROVE Met
    <3>1. /\ db' = [db EXCEPT !.tables = @ \ {t}, !.rows[t] = {}, !.pk[t] = {}, !.fk[t] = {},
                              !.row_count[t] = 0]
          /\ t \in db.tables /\ Quiet
      BY <2>12 DEF DropTable, Quiet
    <3>2. db'.tables = db.tables \ {t} /\ db'.rows = [db.rows EXCEPT ![t] = {}]
      BY <2>2, <3>1 DEF AnyDb
    <3>3. /\ db'.rows[t] = {} /\ t \notin db'.tables
          /\ \A u \in Tables : u # t => db'.rows[u] = db.rows[u]
      BY <2>2, <3>2 DEF AnyDb
    <3>4. status' = status /\ next_txid' = next_txid /\ active' = active /\ client' = client
      BY <3>1 DEF Quiet
    <3>5. Housed(db', status', next_txid', active')
      <4> SUFFICES ASSUME NEW u \in Children,
                          NEW w \in Sight(db', status', next_txid', active', u), w.ref # Null
                   PROVE  u \in db'.tables
        BY Zenon DEF Housed
      <4>1. u # t
        BY <3>3, Zenon DEF Sight
      <4>2. w \in Sight(db, status, next_txid, active, u)
        BY <3>3, <3>4, <4>1, Family, Zenon DEF Sight
      <4>3. u \in db.tables
        BY <2>1, <4>2, Zenon DEF Housed
      <4> QED
        BY <3>2, <4>1, <4>3, Zenon
    <3>6. Alone'
      BY <2>1, <3>4 DEF Alone
    <3>7. db'.tables # db.tables
      BY <3>1, <3>3, Zenon
    <3> QED
      BY <3>5, <3>6, <3>7, Zenon
  <2>13. ASSUME UNCHANGED constraintVars PROVE Met
    <3>1. /\ status' = status /\ next_txid' = next_txid /\ active' = active /\ client' = client
          /\ db' = db
      BY <2>13 DEF constraintVars
    <3>2. \A u \in Tables : Sight(db', status', next_txid', active', u)
                                = Sight(db, status, next_txid, active, u)
      BY <3>1, Zenon
    <3>3. db.tables \subseteq db'.tables
      BY <3>1, Zenon
    <3> QED
      <4>1. Lasts
        BY <2>1, <3>1, <3>2, <3>3, SameLasts
      <4> QED
        BY <2>3, <4>1, Zenon
  <2> HIDE DEF Met
  <2>14. Met
    BY <1>0, <2>4, <2>5, <2>6, <2>7, <2>8, <2>9, <2>10, <2>11, <2>12, <2>13, Zenon
       DEF ConstraintNext
  <2>15. Alone' /\ Housed(db', status', next_txid', active')
    BY <2>14, Zenon DEF Met
  <2>16. RefInv'
    BY <2>15 DEF RefInv
  <2> QED
    BY <2>14, <2>16, Zenon DEF Met
<1> QED
  BY <1>3, <1>4

\* Over statements that run alone, no row that keeps its reference ever loses the parent it
\* refers to: UPDATE refuses the key (check_no_child_references), and before DELETE marks a
\* row, RESTRICT, CASCADE and SET NULL have left nothing that refers to it
\* (apply_parent_delete_actions), down to the grandchildren and whichever way the scan for
\* children goes.
THEOREM ReferencesSurvive == ConstraintSpec => DeleteKeepsReferences
<1>1. ConstraintInv /\ RefInv /\ [ConstraintNext]_constraintVars =>
         (~Does("transactions") /\ db'.tables = db.tables =>
             ReferencesLast(db, status, next_txid, active, db', status', next_txid', active'))
  BY RefStep, Zenon
<1>2. ReferencesLast(db, status, next_txid, active, db', status', next_txid', active') =>
         \A u \in Children : \A w \in Latest(u)' :
            (\E v \in Latest(ParentOf[u]) : v.key = w.ref)
               => w.ref = Null \/ (\E v \in Latest(ParentOf[u])' : v.key = w.ref)
  BY LatestIs DEF ReferencesLast
<1>3. ConstraintInit => RefInv
  BY RefInit, Zenon
<1>4. ConstraintInv /\ RefInv /\ [ConstraintNext]_constraintVars => RefInv'
  BY RefStep, Zenon
<1> QED
  BY <1>1, <1>2, <1>3, <1>4, Invariance, PTL DEF ConstraintSpec, DeleteKeepsReferences
=============================================================================
