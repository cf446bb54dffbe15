---------------------------- MODULE MemoryProofs ----------------------------
(***************************************************************************)
(* Proofs about the in-memory backend: its index agrees with its slice,    *)
(* its answers are what they should be whatever was stored and purged      *)
(* before, and it implements the contract of the store.                    *)
(***************************************************************************)
EXTENDS Memory, PeriodTextProofs, FiniteSetTheorems

-----------------------------------------------------------------------------
\* A strict total order on X, given by what comes below each member.
Orders(X, below) ==
    /\ below \in [X -> SUBSET X]
    /\ \A x \in X : x \notin below[x]
    /\ \A x, y \in X : x \in below[y] => below[x] \subseteq below[y]
    /\ \A x, y \in X : x = y \/ x \in below[y] \/ y \in below[x]

\* In a finite set each member has a place of its own, the number of members
\* below it, and every place is taken.
LEMMA Places ==
    ASSUME NEW X, IsFiniteSet(X), NEW below, Orders(X, below)
    PROVE  /\ Cardinality(X) \in Nat
           /\ \A x \in X : Cardinality(below[x]) \in Nat
           /\ \A x, y \in X : x \in below[y] <=> Cardinality(below[x]) < Cardinality(below[y])
           /\ \A k \in 1..Cardinality(X) : \E x \in X : Cardinality(below[x]) = k - 1
  <1> DEFINE n == Cardinality(X)
             place == [x \in X |-> Cardinality(below[x]) + 1]
  <1>1. n \in Nat
    BY FS_CardinalityType
  <1>2. ASSUME NEW x \in X
        PROVE  IsFiniteSet(below[x]) /\ Cardinality(below[x]) \in Nat
    BY <1>2, FS_Subset, FS_CardinalityType DEF Orders
  <1>3. ASSUME NEW x \in X, NEW y \in X, x \in below[y]
        PROVE  Cardinality(below[x]) < Cardinality(below[y])
    <2>1. below[x] \in SUBSET below[y] /\ below[x] # below[y]
      BY <1>3 DEF Orders
    <2>2. Cardinality(below[x]) <= Cardinality(below[y])
      BY <1>2, <2>1, FS_Subset
    <2>3. Cardinality(below[x]) # Cardinality(below[y])
      BY <1>2, <2>1, FS_Subset
    <2>4. QED
      BY <1>2, <2>2, <2>3
  <1>4. \A x, y \in X : x \in below[y] <=> Cardinality(below[x]) < Cardinality(below[y])
    <2> SUFFICES ASSUME NEW x \in X, NEW y \in X, Cardinality(below[x]) < Cardinality(below[y])
                 PROVE  x \in below[y]
      BY <1>3
    <2>1. x # y /\ y \notin below[x]
      BY <1>2, <1>3
    <2>2. QED
      BY <2>1 DEF Orders
  <1>5. place \in Injection(X, 1..n)
    <2>1. ASSUME NEW x \in X
          PROVE  Cardinality(below[x]) + 1 \in 1..n
      <3>1. below[x] \in SUBSET X /\ below[x] # X
        BY DEF Orders
      <3>2. Cardinality(below[x]) <= n /\ Cardinality(below[x]) # n
        BY <3>1, FS_Subset
      <3>3. QED
        BY <1>1, <1>2, <3>2
    <2>2. ASSUME NEW x \in X, NEW y \in X, place[x] = place[y]
          PROVE  x = y
      <3>1. Cardinality(below[x]) = Cardinality(below[y])
        BY <1>2, <2>2
      <3>2. x \notin below[y] /\ y \notin below[x]
        BY <1>2, <1>3, <3>1
      <3>3. QED
        BY <3>2 DEF Orders
    <2>3. place \in [X -> 1..n]
      BY <2>1
    <2>4. QED
      BY <2>2, <2>3 DEF Injection, IsInjective
  <1>6. place \in Surjection(X, 1..n)
    <2>1. IsFiniteSet(1..n) /\ Cardinality(1..n) = n
      BY <1>1, FS_Interval
    <2>2. QED
      BY <1>5, <2>1, FS_Injection
  <1>7. \A k \in 1..n : \E x \in X : Cardinality(below[x]) = k - 1
    <2> SUFFICES ASSUME NEW k \in 1..n
                 PROVE  \E x \in X : Cardinality(below[x]) = k - 1
      OBVIOUS
    <2>1. PICK x \in X : place[x] = k
      BY <1>6 DEF Surjection
    <2>2. QED
      BY <1>1, <1>2, <2>1
  <1>8. QED
    BY <1>1, <1>2, <1>4, <1>7

\* The list f is the set X in this order, each member once.
InOrder(f, X, below) ==
    /\ f \in Seq(X) /\ Len(f) = Cardinality(X) /\ DOMAIN f = 1..Len(f)
    /\ Range(f) = X
    /\ \A x \in X : \E k \in DOMAIN f : f[k] = x
    /\ \A k, l \in DOMAIN f : k < l <=> f[k] \in below[f[l]]
    /\ \A k, l \in DOMAIN f : f[k] = f[l] => k = l

\* Sorting puts each member where it belongs.
LEMMA Arranges ==
    ASSUME NEW X, IsFiniteSet(X), NEW below, Orders(X, below)
    PROVE  InOrder(Arranged(X, below), X, below)
  <1> DEFINE n == Cardinality(X)
             f == Arranged(X, below)
  <1>1. n \in Nat
    BY Places
  <1>2. ASSUME NEW k \in 1..n
        PROVE  f[k] \in X /\ Cardinality(below[f[k]]) = k - 1
    <2>1. \E x \in X : Cardinality(below[x]) = k - 1
      BY Places
    <2>2. f[k] = CHOOSE x \in X : Cardinality(below[x]) = k - 1
      BY DEF Arranged
    <2>3. QED
      BY <2>1, <2>2
  <1>3. f \in [1..n -> X]
    BY <1>2 DEF Arranged
  <1> HIDE DEF f
  <1>4. f \in Seq(X) /\ Len(f) = n /\ DOMAIN f = 1..n
    BY <1>1, <1>3
  <1>5. ASSUME NEW x \in X PROVE \E k \in 1..n : f[k] = x
    <2> DEFINE k == Cardinality(below[x]) + 1
    <2>1. Cardinality(below[x]) \in Nat /\ Cardinality(below[x]) < n
      <3>1. below[x] \in SUBSET X /\ below[x] # X
        BY DEF Orders
      <3>2. Cardinality(below[x]) <= n /\ Cardinality(below[x]) # n
        BY <3>1, FS_Subset
      <3>3. QED
        BY <1>1, <3>2, Places
    <2>2. k \in 1..n /\ f[k] \in X /\ Cardinality(below[f[k]]) = Cardinality(below[x])
      BY <1>1, <1>2, <2>1
    <2>3. f[k] \notin below[x] /\ x \notin below[f[k]]
      BY <2>1, <2>2, Places
    <2>4. f[k] = x
      BY <2>2, <2>3 DEF Orders
    <2>5. QED
      BY <2>2, <2>4
  <1>6. \A k, l \in 1..n : k < l <=> f[k] \in below[f[l]]
    BY <1>1, <1>2, Places
  <1>7. \A k, l \in 1..n : f[k] = f[l] => k = l
    BY <1>1, <1>2
  <1>8. Range(f) = X
    BY <1>3, <1>4, <1>5 DEF Range
  <1>9. QED
    BY <1>4, <1>5, <1>6, <1>7, <1>8 DEF InOrder, f

\* Below a number of X are the lesser ones.
LessIn(X) == [x \in X |-> {y \in X : Less(y, x)}]

\* Sorting a set of numbers.
LEMMA SortedNumbers ==
    ASSUME NEW X, IsFiniteSet(X), X \subseteq Nat
    PROVE  InOrder(Sorted(X, Less), X, LessIn(X))
  <1>1. Orders(X, LessIn(X))
    <2>1. LessIn(X) \in [X -> SUBSET X]
      BY DEF LessIn
    <2>2. \A x, y \in X : x \in LessIn(X)[y] <=> x < y
      BY DEF LessIn, Less
    <2>3. \A x \in X : x \notin LessIn(X)[x]
      BY <2>2
    <2>4. ASSUME NEW x \in X, NEW y \in X, x \in LessIn(X)[y]
          PROVE  LessIn(X)[x] \subseteq LessIn(X)[y]
      <3>1. ASSUME NEW z \in LessIn(X)[x]
            PROVE  z \in LessIn(X)[y]
        <4>1. z \in X
          BY <2>1
        <4>2. z < x /\ x < y
          BY <2>2, <2>4, <3>1, <4>1
        <4>3. z \in Nat /\ x \in Nat /\ y \in Nat
          BY <4>1
        <4>4. z < y
          BY <4>2, <4>3
        <4>5. QED
          BY <2>2, <4>1, <4>4
      <3>2. QED
        BY <3>1
    <2>5. \A x, y \in X : x = y \/ x \in LessIn(X)[y] \/ y \in LessIn(X)[x]
      BY <2>2
    <2>6. QED
      BY <2>1, <2>3, <2>4, <2>5 DEF Orders
  <1>2. Sorted(X, Less) = Arranged(X, LessIn(X))
    BY DEF Sorted, LessIn
  <1>3. QED
    BY <1>1, <1>2, Arranges

\* Text order is the order of the months: years have four digits.
LEMMA BeforeIsLess ==
    /\ \A p, q \in Periods : Before(p, q) <=> p < q
    /\ Periods \subseteq Nat
  <1>1. Periods \subseteq FourDigitMonths
    BY MemoryAssumption
  <1>2. FourDigitMonths \subseteq Nat
    BY DEF FourDigitMonths
  <1>3. QED
    BY <1>1, <1>2, TextOrderIsMonthOrder DEF Before

\* Sorting periods as text sorts them as months.
LEMMA SortedPeriods ==
    ASSUME NEW X, IsFiniteSet(X), X \subseteq Periods
    PROVE  InOrder(Sorted(X, Before), X, LessIn(X))
  <1>1. [x \in X |-> {y \in X : Before(y, x)}] = LessIn(X)
    BY BeforeIsLess DEF LessIn, Less
  <1>2. Sorted(X, Before) = Sorted(X, Less)
    BY <1>1 DEF Sorted, LessIn
  <1>3. X \subseteq Nat
    BY BeforeIsLess
  <1>4. QED
    BY <1>2, <1>3, SortedNumbers

-----------------------------------------------------------------------------
\* The rows of the slice, whoever put them there: well formed, numbered by
\* the ULIDs drawn, and no two of the same event.
Seals == {Seal(e) : e \in EnvelopeType}

RecordType == [row_id : Nat, seq : Nat, env : EnvelopeType, seal : Seals]

SliceOK ==
    /\ made \in Nat
    /\ records \in Seq(RecordType)
    /\ \A i \in DOMAIN records : records[i].row_id <= made
    /\ \A i, j \in DOMAIN records :
         records[i].env.event_id = records[j].env.event_id => i = j

IndexOK == DOMAIN index = EventIDs /\ IndexAgrees

\* A place in the slice is a number, and there are finitely many.
LEMMA SliceDomain ==
    ASSUME SliceOK
    PROVE  /\ Len(records) \in Nat /\ DOMAIN records = 1..Len(records)
           /\ IsFiniteSet(DOMAIN records)
           /\ Cardinality(DOMAIN records) = Len(records)
           /\ \A i \in DOMAIN records :
                /\ records[i] \in RecordType /\ records[i].env \in EnvelopeType
                /\ PeriodAt(i) \in Periods
           /\ Range(records) \subseteq RecordType
           /\ \A r \in Range(records) : \E i \in DOMAIN records : r = records[i]
  <1>1. Len(records) \in Nat /\ DOMAIN records = 1..Len(records)
    BY DEF SliceOK
  <1>2. IsFiniteSet(DOMAIN records) /\ Cardinality(DOMAIN records) = Len(records)
    <2>1. \A n \in Nat : IsFiniteSet(1..n) /\ Cardinality(1..n) = n
      BY FS_Interval
    <2>2. QED
      BY <1>1, <2>1
  <1>3. ASSUME NEW i \in DOMAIN records
        PROVE  records[i] \in RecordType /\ records[i].env \in EnvelopeType
    <2>1. records[i] \in RecordType
      BY <1>1 DEF SliceOK
    <2>2. QED
      BY <2>1 DEF RecordType
  <1>4. ASSUME NEW i \in DOMAIN records
        PROVE  PeriodAt(i) \in Periods
    BY <1>3 DEF PeriodAt, Period, Periods, EnvelopeType
  <1>5. QED
    BY <1>1, <1>2, <1>3, <1>4 DEF Range

\* What a purge leaves: the rows to keep, in the order they had.
LEMMA PurgeLeaves ==
    ASSUME SliceOK, NEW cutoff, PurgeExpired(cutoff)
    PROVE  LET keep == {i \in DOMAIN records : Kept(records[i], cutoff)}
               kept == Sorted(keep, Less)
           IN /\ InOrder(kept, keep, LessIn(keep))
              /\ Len(records') = Cardinality(keep)
              /\ DOMAIN records' = DOMAIN kept
              /\ \A k \in DOMAIN kept : kept[k] \in keep /\ records'[k] = records[kept[k]]
              /\ records' \in Seq(RecordType)
              /\ Range(records') = {r \in Range(records) : Kept(r, cutoff)}
  <1> DEFINE keep == {i \in DOMAIN records : Kept(records[i], cutoff)}
             kept == Sorted(keep, Less)
  <1>1. IsFiniteSet(keep) /\ keep \subseteq Nat
    <2>1. keep \subseteq DOMAIN records
      OBVIOUS
    <2>2. QED
      BY <2>1, SliceDomain, FS_Subset
  <1>2. InOrder(kept, keep, LessIn(keep))
    BY <1>1, SortedNumbers
  <1>3. records' = [k \in DOMAIN kept |-> records[kept[k]]]
    BY DEF PurgeExpired
  <1> HIDE DEF kept
  <1>4. kept \in Seq(keep) /\ DOMAIN kept = 1..Len(kept) /\ Len(kept) \in Nat
    BY <1>2 DEF InOrder
  <1>5. \A k \in DOMAIN kept : kept[k] \in keep /\ records'[k] = records[kept[k]]
    BY <1>3, <1>4
  <1>6. DOMAIN records' = DOMAIN kept
    BY <1>3
  <1>7. records' \in Seq(RecordType) /\ Len(records') = Len(kept)
    <2>1. records' \in [1..Len(kept) -> RecordType]
      BY <1>3, <1>4, <1>5, SliceDomain
    <2>2. QED
      BY <1>4, <2>1
  <1>8. Range(records') = {r \in Range(records) : Kept(r, cutoff)}
    <2>1. ASSUME NEW r \in Range(records') PROVE r \in Range(records) /\ Kept(r, cutoff)
      <3>1. PICK k \in DOMAIN kept : r = records'[k]
        BY <1>6 DEF Range
      <3>2. r = records[kept[k]] /\ kept[k] \in keep
        BY <1>5, <3>1
      <3>3. QED
        BY <3>2 DEF Range
    <2>2. ASSUME NEW r \in Range(records), Kept(r, cutoff) PROVE r \in Range(records')
      <3>1. PICK i \in DOMAIN records : r = records[i]
        BY DEF Range
      <3>2. i \in keep
        BY <2>2, <3>1
      <3>3. PICK k \in DOMAIN kept : kept[k] = i
        BY <1>2, <3>2 DEF InOrder
      <3>4. QED
        BY <1>5, <1>6, <3>1, <3>3 DEF Range
    <2>3. QED
      BY <2>1, <2>2
  <1>9. QED
    BY <1>2, <1>5, <1>6, <1>7, <1>8 DEF InOrder, kept

\* A purge keeps the slice well formed and its index in step.
LEMMA PurgeKeeps ==
    ASSUME SliceOK, IndexOK, NEW cutoff, PurgeExpired(cutoff)
    PROVE  SliceOK' /\ IndexOK'
  <1> DEFINE keep == {i \in DOMAIN records : Kept(records[i], cutoff)}
             kept == Sorted(keep, Less)
  <1>1. InOrder(kept, keep, LessIn(keep)) /\ DOMAIN records' = DOMAIN kept
    BY PurgeLeaves
  <1>2. \A k \in DOMAIN kept : kept[k] \in DOMAIN records /\ records'[k] = records[kept[k]]
    BY PurgeLeaves
  <1>3. records' \in Seq(RecordType)
    BY PurgeLeaves
  <1>4. /\ made' = made
        /\ index' = [id \in EventIDs |->
                       IF \E i \in DOMAIN records : /\ ~Kept(records[i], cutoff)
                                                  /\ records[i].env.event_id = id
                       THEN {}
                       ELSE index[id]]
    BY DEF PurgeExpired
  <1>5. Range(records') = {r \in Range(records) : Kept(r, cutoff)}
    BY PurgeLeaves
  <1> HIDE DEF kept
  <1>6. \A k, l \in DOMAIN kept : kept[k] = kept[l] => k = l
    BY <1>1 DEF InOrder
  <1>7. \A k \in DOMAIN records' : records'[k].row_id <= made'
    BY <1>1, <1>2, <1>4 DEF SliceOK
  <1>8. \A k, l \in DOMAIN records' :
          records'[k].env.event_id = records'[l].env.event_id => k = l
    BY <1>1, <1>2, <1>6 DEF SliceOK
  <1>9. SliceOK'
    BY <1>3, <1>4, <1>7, <1>8 DEF SliceOK
  <1>10. ASSUME NEW id \in EventIDs
         PROVE  index'[id] = {r \in Range(records') : r.env.event_id = id}
    <2>1. index[id] = {r \in Range(records) : r.env.event_id = id}
      BY DEF IndexOK, IndexAgrees
    <2>2. \A r, q \in Range(records) : r.env.event_id = q.env.event_id => r = q
      BY DEF SliceOK, Range
    <2>3. CASE \E i \in DOMAIN records : /\ ~Kept(records[i], cutoff)
                                        /\ records[i].env.event_id = id
      <3>1. PICK q \in Range(records) : ~Kept(q, cutoff) /\ q.env.event_id = id
        BY <2>3 DEF Range
      <3>2. \A r \in Range(records') : r.env.event_id # id
        BY <1>5, <2>2, <3>1
      <3>3. QED
        BY <1>4, <2>3, <3>2
    <2>4. CASE ~\E i \in DOMAIN records : /\ ~Kept(records[i], cutoff)
                                         /\ records[i].env.event_id = id
      <3>1. \A r \in Range(records) : r.env.event_id = id => Kept(r, cutoff)
        BY <2>4 DEF Range
      <3>2. index'[id] = index[id]
        BY <1>4, <2>4
      <3>3. QED
        BY <1>5, <2>1, <3>1, <3>2
    <2>5. QED
      BY <2>3, <2>4
  <1>11. DOMAIN index' = EventIDs
    BY <1>4
  <1>12. QED
    BY <1>9, <1>10, <1>11 DEF IndexOK, IndexAgrees

\* The row that appending e adds.
NewRow(e) == [row_id |-> made + 1, seq |-> Len(records) + 1, env |-> e, seal |-> Seal(e)]

\* What an append does: nothing, when the event is on record; otherwise its row
\* goes to the end.
LEMMA AppendStores ==
    ASSUME SliceOK, IndexOK, NEW e \in EnvelopeType, AppendRecord(e)
    PROVE  \/ /\ \E r \in Range(records) : r.env.event_id = e.event_id
              /\ UNCHANGED <<records, index, made>>
           \/ /\ \A r \in Range(records) : r.env.event_id # e.event_id
              /\ records' = Append(records, NewRow(e)) /\ NewRow(e) \in RecordType
              /\ Range(records') = Range(records) \cup {NewRow(e)}
              /\ index' = [index EXCEPT ![e.event_id] = {NewRow(e)}]
              /\ made' = made + 1
  <1>1. index[e.event_id] = {r \in Range(records) : r.env.event_id = e.event_id}
    BY DEF IndexOK, IndexAgrees, EnvelopeType
  <1>2. CASE index[e.event_id] # {}
    BY <1>1, <1>2 DEF AppendRecord
  <1>3. CASE index[e.event_id] = {}
    <2>1. /\ records' = Append(records, NewRow(e))
          /\ index' = [index EXCEPT ![e.event_id] = {NewRow(e)}]
          /\ made' = made + 1
      BY <1>3 DEF AppendRecord, NewRow
    <2>2. NewRow(e) \in RecordType
      <3>1. Len(records) \in Nat /\ made \in Nat
        BY SliceDomain DEF SliceOK
      <3>2. Seal(e) \in Seals
        BY DEF Seals
      <3>3. QED
        BY <3>1, <3>2 DEF NewRow, RecordType
    <2>3. Range(records') = Range(records) \cup {NewRow(e)}
      <3> DEFINE x == NewRow(e)
      <3> HIDE DEF x
      <3>1. records \in Seq(RecordType) /\ x \in RecordType /\ records' = Append(records, x)
        BY <2>1, <2>2 DEF SliceOK, x
      <3>2. /\ DOMAIN records' = 1..(Len(records) + 1)
            /\ DOMAIN records = 1..Len(records) /\ Len(records) \in Nat
            /\ records'[Len(records) + 1] = x
            /\ \A i \in 1..Len(records) : records'[i] = records[i]
        BY <3>1
      <3>3. Range(records') = Range(records) \cup {x}
        BY <3>2 DEF Range
      <3>4. QED
        BY <3>3 DEF x
    <2>4. QED
      BY <1>1, <1>3, <2>1, <2>2, <2>3
  <1>4. QED
    BY <1>2, <1>3

\* An append keeps the slice well formed and its index in step.
LEMMA AppendKeeps ==
    ASSUME SliceOK, IndexOK, NEW e \in EnvelopeType, AppendRecord(e)
    PROVE  SliceOK' /\ IndexOK'
  <1>1. CASE UNCHANGED <<records, index, made>>
    BY <1>1 DEF SliceOK, IndexOK, IndexAgrees
  <1>2. CASE /\ \A r \in Range(records) : r.env.event_id # e.event_id
             /\ records' = Append(records, NewRow(e)) /\ NewRow(e) \in RecordType
             /\ Range(records') = Range(records) \cup {NewRow(e)}
             /\ index' = [index EXCEPT ![e.event_id] = {NewRow(e)}]
             /\ made' = made + 1
    <2> DEFINE x == NewRow(e)
    <2>1. x.env = e /\ x.row_id = made + 1
      BY DEF NewRow
    <2> HIDE DEF x
    <2>2. records \in Seq(RecordType) /\ x \in RecordType /\ records' = Append(records, x)
      BY <1>2 DEF SliceOK, x
    <2>3. /\ DOMAIN records' = 1..(Len(records) + 1)
          /\ DOMAIN records = 1..Len(records) /\ Len(records) \in Nat
          /\ records'[Len(records) + 1] = x
          /\ \A i \in 1..Len(records) : records'[i] = records[i]
          /\ records' \in Seq(RecordType)
      BY <2>2
    <2>4. made \in Nat /\ made' = made + 1
      BY <1>2 DEF SliceOK
    <2>5. \A i \in DOMAIN records' : records'[i].row_id <= made'
      <3> SUFFICES ASSUME NEW i \in DOMAIN records' PROVE records'[i].row_id <= made'
        OBVIOUS
      <3>1. CASE i \in DOMAIN records
        <4>1. records[i].row_id \in Nat /\ records[i].row_id <= made
          BY <3>1, SliceDomain DEF SliceOK, RecordType
        <4>2. QED
          BY <2>3, <2>4, <3>1, <4>1
      <3>2. CASE i = Len(records) + 1
        BY <2>1, <2>3, <2>4, <3>2
      <3>3. QED
        BY <2>3, <3>1, <3>2
    <2>6. \A i \in DOMAIN records : records[i].env.event_id # e.event_id
      BY <1>2 DEF Range
    <2>7. \A i, j \in DOMAIN records' :
            records'[i].env.event_id = records'[j].env.event_id => i = j
      <3> SUFFICES ASSUME NEW i \in DOMAIN records', NEW j \in DOMAIN records',
                          records'[i].env.event_id = records'[j].env.event_id
                   PROVE  i = j
        OBVIOUS
      <3>1. CASE i \in DOMAIN records /\ j \in DOMAIN records
        BY <2>3, <3>1 DEF SliceOK
      <3>2. CASE i = Len(records) + 1 \/ j = Len(records) + 1
        BY <2>1, <2>3, <2>6, <3>2
      <3>3. QED
        BY <2>3, <3>1, <3>2
    <2>8. SliceOK'
      BY <2>3, <2>4, <2>5, <2>7 DEF SliceOK
    <2>9. e.event_id \in EventIDs
      BY DEF EnvelopeType
    <2>10. DOMAIN index' = EventIDs /\ index'[e.event_id] = {x}
      BY <1>2, <2>9 DEF IndexOK, x
    <2>11. \A id \in EventIDs : id # e.event_id => index'[id] = index[id]
      BY <1>2, <2>9 DEF IndexOK
    <2>12. ASSUME NEW id \in EventIDs
           PROVE  index'[id] = {r \in Range(records') : r.env.event_id = id}
      <3>1. Range(records') = Range(records) \cup {x}
        BY <1>2 DEF x
      <3>2. index[id] = {r \in Range(records) : r.env.event_id = id}
        BY DEF IndexOK, IndexAgrees
      <3>3. CASE id = e.event_id
        BY <1>2, <2>1, <2>10, <3>1, <3>3
      <3>4. CASE id # e.event_id
        BY <2>1, <2>11, <3>1, <3>2, <3>4
      <3>5. QED
        BY <3>3, <3>4
    <2>13. IndexOK'
      BY <2>10, <2>12 DEF IndexOK, IndexAgrees
    <2>14. QED
      BY <2>8, <2>13
  <1>3. QED
    BY <1>1, <1>2, AppendStores

-----------------------------------------------------------------------------
\* Below a row are those of the period, or of any set of rows, with a lesser
\* event id.
EventIn(P) == [i \in P |-> {j \in P : ByEventID(j, i)}]

\* Sorting rows by event id, which is unique.
LEMMA SortedByEvent ==
    ASSUME SliceOK, NEW P \in SUBSET (DOMAIN records)
    PROVE  InOrder(Sorted(P, ByEventID), P, EventIn(P))
  <1> DEFINE at(i) == records[i].env.event_id
  <1>1. \A i \in P : at(i) \in Nat
    BY SliceDomain, MemoryAssumption DEF EnvelopeType
  <1>2. \A i, j \in P : at(i) = at(j) => i = j
    BY DEF SliceOK
  <1>3. EventIn(P) \in [P -> SUBSET P]
    BY DEF EventIn
  <1>4. \A i, j \in P : j \in EventIn(P)[i] <=> at(j) < at(i)
    BY DEF EventIn, ByEventID
  <1> HIDE DEF at
  <1>5. \A i \in P : i \notin EventIn(P)[i]
    BY <1>1, <1>4
  <1>6. ASSUME NEW i \in P, NEW j \in P, i \in EventIn(P)[j]
        PROVE  EventIn(P)[i] \subseteq EventIn(P)[j]
    <2>1. ASSUME NEW k \in EventIn(P)[i]
          PROVE  k \in EventIn(P)[j]
      <3>1. k \in P
        BY <1>3
      <3>2. at(k) < at(i) /\ at(i) < at(j)
        BY <1>4, <1>6, <2>1, <3>1
      <3>3. at(k) < at(j)
        BY <1>1, <3>1, <3>2
      <3>4. QED
        BY <1>4, <3>1, <3>3
    <2>2. QED
      BY <2>1
  <1>7. \A i, j \in P : i = j \/ i \in EventIn(P)[j] \/ j \in EventIn(P)[i]
    BY <1>1, <1>2, <1>4
  <1>8. Orders(P, EventIn(P))
    BY <1>3, <1>5, <1>6, <1>7 DEF Orders
  <1>9. IsFiniteSet(P)
    BY SliceDomain, FS_Subset
  <1>10. Sorted(P, ByEventID) = Arranged(P, EventIn(P))
    BY DEF Sorted, EventIn
  <1>11. QED
    BY <1>8, <1>9, <1>10, Arranges

\* No row is there twice: places and rows are equally many.
LEMMA RowsCounted ==
    ASSUME SliceOK, NEW P \in SUBSET (DOMAIN records)
    PROVE  /\ IsFiniteSet(P) /\ IsFiniteSet({records[i] : i \in P})
           /\ Cardinality({records[i] : i \in P}) = Cardinality(P)
  <1> DEFINE R == {records[i] : i \in P}
             f == [i \in P |-> records[i]]
  <1>1. IsFiniteSet(P)
    BY SliceDomain, FS_Subset
  <1>2. f \in Bijection(P, R)
    <2>1. \A i, j \in P : f[i] = f[j] => i = j
      BY DEF SliceOK
    <2>2. f \in [P -> R] /\ \A r \in R : \E i \in P : f[i] = r
      OBVIOUS
    <2>3. QED
      BY <2>1, <2>2 DEF Bijection, Injection, IsInjective, Surjection
  <1> HIDE DEF R, f
  <1>3. IsFiniteSet(R) /\ Cardinality(P) = Cardinality(R)
    <2>1. ExistsBijection(P, R)
      BY <1>2 DEF ExistsBijection
    <2>2. QED
      BY <1>1, <2>1, FS_Bijection
  <1>4. QED
    BY <1>1, <1>3 DEF R

\* The places of the rows of a period.
PlacesOf(p) == {i \in DOMAIN records : PeriodAt(i) = p}

\* The list of a period's seals: each row's, by event id.
LEMMA SealsListed ==
    ASSUME SliceOK, NEW p
    PROVE  LET seals == SealsForPeriod(p)
               sorted == Sorted(PlacesOf(p), ByEventID)
           IN /\ seals \in Seq(Seals)
              /\ Len(seals) = Cardinality(PlacesOf(p)) /\ Len(seals) \in Nat
              /\ DOMAIN seals = DOMAIN sorted
              /\ \A k \in DOMAIN seals :
                   sorted[k] \in PlacesOf(p) /\ seals[k] = records[sorted[k]].seal
              /\ Range(seals) = {records[i].seal : i \in PlacesOf(p)}
              /\ \A k, l \in DOMAIN seals :
                   k < l => records[sorted[k]].env.event_id < records[sorted[l]].env.event_id
  <1> DEFINE at == PlacesOf(p)
             sorted == Sorted(at, ByEventID)
             seals == SealsForPeriod(p)
  <1>1. at \in SUBSET (DOMAIN records)
    BY DEF PlacesOf
  <1>2. InOrder(sorted, at, EventIn(at))
    BY <1>1, SortedByEvent
  <1>3. seals = [k \in DOMAIN sorted |-> records[sorted[k]].seal]
    BY DEF SealsForPeriod, PlacesOf
  <1> HIDE DEF at, sorted, seals
  <1>4. /\ sorted \in Seq(at) /\ DOMAIN sorted = 1..Len(sorted) /\ Len(sorted) \in Nat
        /\ Len(sorted) = Cardinality(at)
    BY <1>2 DEF InOrder
  <1>5. \A k \in DOMAIN sorted : sorted[k] \in at /\ seals[k] = records[sorted[k]].seal
    BY <1>3, <1>4
  <1>6. \A i \in at : records[i].seal \in Seals
    BY <1>1, SliceDomain DEF RecordType
  <1>7. seals \in Seq(Seals) /\ Len(seals) = Len(sorted) /\ DOMAIN seals = DOMAIN sorted
    <2>1. seals \in [1..Len(sorted) -> Seals]
      BY <1>3, <1>4, <1>5, <1>6
    <2>2. QED
      BY <1>4, <2>1
  <1>8. Range(seals) = {records[i].seal : i \in at}
    <2>1. ASSUME NEW x \in Range(seals) PROVE x \in {records[i].seal : i \in at}
      BY <1>5, <1>7 DEF Range
    <2>2. ASSUME NEW i \in at PROVE records[i].seal \in Range(seals)
      <3>1. PICK k \in DOMAIN sorted : sorted[k] = i
        BY <1>2 DEF InOrder
      <3>2. QED
        BY <1>5, <1>7, <3>1 DEF Range
    <2>3. QED
      BY <2>1, <2>2
  <1>9. ASSUME NEW k \in DOMAIN sorted, NEW l \in DOMAIN sorted, k < l
        PROVE  records[sorted[k]].env.event_id < records[sorted[l]].env.event_id
    <2>1. sorted[k] \in EventIn(at)[sorted[l]]
      BY <1>2, <1>9 DEF InOrder
    <2>2. QED
      BY <1>5, <2>1 DEF EventIn, ByEventID
  <1>10. QED
    BY <1>4, <1>5, <1>7, <1>8, <1>9 DEF seals, sorted, at

\* The rows of a period are those at its places.
LEMMA RowsOfPeriod ==
    ASSUME SliceOK, NEW p
    PROVE  LET ofPeriod == {r \in Range(records) : Period(r.env.occurred_at) = p}
           IN /\ ofPeriod = {records[i] : i \in PlacesOf(p)}
              /\ IsFiniteSet(ofPeriod)
              /\ Cardinality(ofPeriod) = Len(SealsForPeriod(p))
              /\ {r.seal : r \in ofPeriod} = Range(SealsForPeriod(p))
  <1> DEFINE ofPeriod == {r \in Range(records) : Period(r.env.occurred_at) = p}
  <1>1. ofPeriod = {records[i] : i \in PlacesOf(p)}
    BY DEF PlacesOf, PeriodAt, Range
  <1>2. PlacesOf(p) \in SUBSET (DOMAIN records)
    BY DEF PlacesOf
  <1>3. IsFiniteSet(ofPeriod) /\ Cardinality(ofPeriod) = Cardinality(PlacesOf(p))
    BY <1>1, <1>2, RowsCounted
  <1>4. {r.seal : r \in ofPeriod} = {records[i].seal : i \in PlacesOf(p)}
    BY <1>1
  <1>5. QED
    BY <1>1, <1>3, <1>4, SealsListed

\* Rows sealed as they were stored: the list of seals is in the order of the
\* event ids the seals cover.
LEMMA SealsReproduce ==
    ASSUME SliceOK, \A i \in DOMAIN records : records[i].seal = Seal(records[i].env)
    PROVE  SealsReproducible
  <1> SUFFICES ASSUME NEW p \in Periods
               PROVE  LET seals == SealsForPeriod(p)
                          ofPeriod == {r \in Range(records) : Period(r.env.occurred_at) = p}
                      IN /\ Range(seals) = {r.seal : r \in ofPeriod}
                         /\ Len(seals) = Cardinality(ofPeriod)
                         /\ \A k \in DOMAIN seals, l \in DOMAIN seals :
                              k < l => seals[k].hmac[1] < seals[l].hmac[1]
    BY DEF SealsReproducible
  <1> DEFINE seals == SealsForPeriod(p)
             sorted == Sorted(PlacesOf(p), ByEventID)
  <1>1. /\ DOMAIN seals = DOMAIN sorted
        /\ \A k \in DOMAIN seals :
             sorted[k] \in PlacesOf(p) /\ seals[k] = records[sorted[k]].seal
        /\ \A k, l \in DOMAIN seals :
             k < l => records[sorted[k]].env.event_id < records[sorted[l]].env.event_id
    BY SealsListed
  <1> HIDE DEF seals, sorted
  <1>2. ASSUME NEW k \in DOMAIN seals
        PROVE  seals[k].hmac[1] = records[sorted[k]].env.event_id
    <2>1. seals[k] = Seal(records[sorted[k]].env)
      BY <1>1 DEF PlacesOf
    <2>2. QED
      BY <2>1 DEF Seal, canonical
  <1>3. \A k \in DOMAIN seals, l \in DOMAIN seals :
          k < l => seals[k].hmac[1] < seals[l].hmac[1]
    BY <1>1, <1>2
  <1>4. QED
    BY <1>3, RowsOfPeriod DEF seals

-----------------------------------------------------------------------------
\* Below a row, in the order of an answer, are the earlier ones.
DsarIn(P) == [i \in P |-> {j \in P : DsarBefore(j, i)}]

\* Sorting rows for an answer.
LEMMA SortedForDsar ==
    ASSUME SliceOK, NEW P \in SUBSET (DOMAIN records)
    PROVE  InOrder(Sorted(P, DsarBefore), P, DsarIn(P))
  <1> DEFINE t(i) == records[i].env.occurred_at
             n(i) == records[i].seq
             Lex(i, j) == \/ t(i) < t(j)
                          \/ t(i) = t(j) /\ n(i) < n(j)
                          \/ t(i) = t(j) /\ n(i) = n(j) /\ i < j
  <1>1. \A i \in P : i \in Nat /\ n(i) \in Nat
    BY SliceDomain DEF RecordType
  <1>2. \A i \in P : t(i) \in Int
    BY SliceDomain, CalendarAssumption DEF EnvelopeType, Time
  <1>3. DsarIn(P) \in [P -> SUBSET P]
    BY DEF DsarIn
  <1>4. \A i, j \in P : j \in DsarIn(P)[i] <=> Lex(j, i)
    BY DEF DsarIn, DsarBefore
  <1> HIDE DEF t, n
  <1>5. \A i \in P : i \notin DsarIn(P)[i]
    BY <1>1, <1>2, <1>4
  <1>6. ASSUME NEW i \in P, NEW j \in P, i \in DsarIn(P)[j]
        PROVE  DsarIn(P)[i] \subseteq DsarIn(P)[j]
    <2>1. ASSUME NEW k \in DsarIn(P)[i]
          PROVE  k \in DsarIn(P)[j]
      <3>1. k \in P
        BY <1>3
      <3>2. Lex(k, i) /\ Lex(i, j)
        BY <1>4, <1>6, <2>1, <3>1
      <3>3. Lex(k, j)
        BY <1>1, <1>2, <3>1, <3>2
      <3>4. QED
        BY <1>4, <3>1, <3>3
    <2>2. QED
      BY <2>1
  <1>7. \A i, j \in P : i = j \/ i \in DsarIn(P)[j] \/ j \in DsarIn(P)[i]
    BY <1>1, <1>2, <1>4
  <1>8. Orders(P, DsarIn(P))
    BY <1>3, <1>5, <1>6, <1>7 DEF Orders
  <1>9. IsFiniteSet(P)
    BY SliceDomain, FS_Subset
  <1>10. Sorted(P, DsarBefore) = Arranged(P, DsarIn(P))
    BY DEF Sorted, DsarIn
  <1>11. QED
    BY <1>8, <1>9, <1>10, Arranges

\* The places and the rows a query is about.
PlacesAbout(subject, from, to) ==
    {i \in DOMAIN records : /\ subject \in records[i].env.data_subjects
                            /\ records[i].env.occurred_at \in from..to}

Matching(subject, from, to) ==
    {r \in Range(records) : subject \in r.env.data_subjects /\ r.env.occurred_at \in from..to}

\* An answer to a query: the first rows in the order of the answer, as many as
\* the limit allows.
LEMMA FirstRows ==
    ASSUME SliceOK, NEW subject, NEW from, NEW to, NEW limit \in Nat
    PROVE  LET at == PlacesAbout(subject, from, to)
               out == Sorted(at, DsarBefore)
               cap == IF limit = 0 THEN DefaultLimit ELSE limit
               m == IF Len(out) > cap THEN cap ELSE Len(out)
           IN BySubject(subject, from, to, limit) = [k \in 1..m |-> records[out[k]]]
  <1> DEFINE at == PlacesAbout(subject, from, to)
             out == Sorted(at, DsarBefore)
             cap == IF limit = 0 THEN DefaultLimit ELSE limit
             cut == IF Len(out) > cap THEN SubSeq(out, 1, cap) ELSE out
             m == IF Len(out) > cap THEN cap ELSE Len(out)
  <1>1. at \in SUBSET (DOMAIN records)
    BY DEF PlacesAbout
  <1>2. InOrder(out, at, DsarIn(at))
    BY <1>1, SortedForDsar
  <1>3. limit <= 0 <=> limit = 0
    OBVIOUS
  <1>4. BySubject(subject, from, to, limit) = [k \in DOMAIN cut |-> records[cut[k]]]
    BY <1>3 DEF BySubject, PlacesAbout
  <1>5. cap \in Nat
    BY MemoryAssumption
  <1> HIDE DEF out, at, cap
  <1>6. out \in Seq(at) /\ DOMAIN out = 1..Len(out) /\ Len(out) \in Nat
    BY <1>2 DEF InOrder
  <1>7. DOMAIN cut = 1..m /\ \A k \in 1..m : cut[k] = out[k]
    <2>1. CASE Len(out) > cap
      <3>1. DOMAIN SubSeq(out, 1, cap) = 1..cap
        BY <1>5, <1>6, <2>1
      <3>2. \A k \in 1..cap : SubSeq(out, 1, cap)[k] = out[k]
        BY <1>5, <1>6, <2>1
      <3>3. QED
        BY <2>1, <3>1, <3>2
    <2>2. CASE ~(Len(out) > cap)
      BY <1>6, <2>2
    <2>3. QED
      BY <2>1, <2>2
  <1>8. BySubject(subject, from, to, limit) = [k \in 1..m |-> records[out[k]]]
    BY <1>4, <1>7
  <1>9. QED
    BY <1>8 DEF out, at, cap

\* What such an answer is worth.
LEMMA AnswerIsEarliest ==
    ASSUME SliceOK, NEW subject, NEW from, NEW to, NEW limit \in Nat
    PROVE  LET matching == Matching(subject, from, to)
               cap == IF limit = 0 THEN DefaultLimit ELSE limit
               answer == BySubject(subject, from, to, limit)
               returned == Range(answer)
           IN /\ Len(answer) \in Nat /\ DOMAIN answer = 1..Len(answer)
              /\ answer \in Seq(RecordType)
              /\ returned \subseteq matching
              /\ Cardinality(returned) = Len(answer)
              /\ \/ Len(answer) = cap
                 \/ Len(answer) < cap /\ returned = matching
              /\ \A k, l \in DOMAIN answer :
                   k < l => answer[k].env.occurred_at <= answer[l].env.occurred_at
              /\ \A r \in returned, q \in matching \ returned :
                   r.env.occurred_at <= q.env.occurred_at
  <1> DEFINE at == PlacesAbout(subject, from, to)
             out == Sorted(at, DsarBefore)
             cap == IF limit = 0 THEN DefaultLimit ELSE limit
             m == IF Len(out) > cap THEN cap ELSE Len(out)
             answer == BySubject(subject, from, to, limit)
             matching == Matching(subject, from, to)
             returned == Range(answer)
  <1>1. at \in SUBSET (DOMAIN records)
    BY DEF PlacesAbout
  <1>2. InOrder(out, at, DsarIn(at))
    BY <1>1, SortedForDsar
  <1>3. answer = [k \in 1..m |-> records[out[k]]]
    BY FirstRows
  <1>4. cap \in Nat
    BY MemoryAssumption
  <1>5. matching = {records[i] : i \in at}
    BY DEF Matching, PlacesAbout, Range
  <1> HIDE DEF out, at, cap, answer, matching
  <1>6. out \in Seq(at) /\ DOMAIN out = 1..Len(out) /\ Len(out) \in Nat
    BY <1>2 DEF InOrder
  <1>7. m \in Nat /\ m <= Len(out) /\ m <= cap
    BY <1>4, <1>6
  <1>8. \A k \in 1..Len(out) : out[k] \in at /\ out[k] \in DOMAIN records
    BY <1>1, <1>6
  <1>9. \A k, l \in 1..Len(out) : records[out[k]] = records[out[l]] => k = l
    <2> SUFFICES ASSUME NEW k \in 1..Len(out), NEW l \in 1..Len(out),
                        records[out[k]] = records[out[l]]
                 PROVE  k = l
      OBVIOUS
    <2>1. out[k] = out[l]
      BY <1>8 DEF SliceOK
    <2>2. QED
      BY <1>2, <1>6, <2>1 DEF InOrder
  <1>10. ASSUME NEW k \in 1..Len(out), NEW l \in 1..Len(out), k < l
         PROVE  records[out[k]].env.occurred_at <= records[out[l]].env.occurred_at
    <2>1. out[k] \in DsarIn(at)[out[l]]
      BY <1>2, <1>6, <1>10 DEF InOrder
    <2>2. DsarBefore(out[k], out[l])
      BY <1>8, <2>1 DEF DsarIn
    <2>3. \A i \in DOMAIN records : records[i].env.occurred_at \in Int
      BY SliceDomain, CalendarAssumption DEF EnvelopeType, Time
    <2>4. QED
      BY <1>8, <2>2, <2>3 DEF DsarBefore
  <1>11. \A r \in matching : \E k \in 1..Len(out) : r = records[out[k]]
    BY <1>2, <1>5, <1>6 DEF InOrder
  <1> HIDE DEF m
  <1>12. answer \in Seq(RecordType) /\ Len(answer) = m /\ DOMAIN answer = 1..m
    <2>1. answer \in [1..m -> RecordType]
      BY <1>3, <1>6, <1>7, <1>8, SliceDomain
    <2>2. QED
      BY <1>7, <2>1
  <1>13. \A k \in 1..m : k \in 1..Len(out) /\ answer[k] = records[out[k]]
    BY <1>3, <1>6, <1>7
  <1>14. \A r : r \in returned <=> \E k \in 1..m : r = records[out[k]]
    BY <1>12, <1>13 DEF Range
  <1>15. returned \subseteq matching
    BY <1>5, <1>8, <1>13, <1>14
  <1>16. Cardinality(returned) = m
    <2>1. answer \in Bijection(1..m, returned)
      <3>1. answer \in [1..m -> returned]
        BY <1>12, <1>13, <1>14
      <3>2. \A k, l \in 1..m : answer[k] = answer[l] => k = l
        BY <1>9, <1>13
      <3>3. \A r \in returned : \E k \in 1..m : answer[k] = r
        BY <1>13, <1>14
      <3>4. QED
        BY <3>1, <3>2, <3>3 DEF Bijection, Injection, IsInjective, Surjection
    <2>2. ExistsBijection(1..m, returned)
      BY <2>1 DEF ExistsBijection
    <2> HIDE DEF returned
    <2>3. QED
      BY <1>7, <2>2, FS_CountingElements
  <1>17. m = cap \/ (m < cap /\ returned = matching)
    <2>1. CASE Len(out) > cap
      BY <2>1 DEF m
    <2>2. CASE ~(Len(out) > cap)
      <3>1. m = Len(out)
        BY <2>2 DEF m
      <3>2. returned = matching
        BY <1>11, <1>14, <1>15, <3>1
      <3>3. QED
        BY <1>4, <1>7, <3>2
    <2>3. QED
      BY <2>1, <2>2
  <1>18. \A k, l \in 1..m :
           k < l => answer[k].env.occurred_at <= answer[l].env.occurred_at
    BY <1>10, <1>13
  <1>19. ASSUME NEW r \in returned, NEW q \in matching \ returned
         PROVE  r.env.occurred_at <= q.env.occurred_at
    <2>1. PICK k \in 1..m : r = records[out[k]]
      BY <1>14
    <2>2. PICK l \in 1..Len(out) : q = records[out[l]]
      BY <1>11
    <2>3. l \notin 1..m
      BY <1>14, <2>2
    <2>4. k < l /\ k \in 1..Len(out)
      BY <1>6, <1>7, <2>3
    <2>5. QED
      BY <1>10, <2>1, <2>2, <2>4
  <1> HIDE DEF returned
  <1>20. /\ Len(answer) \in Nat /\ DOMAIN answer = 1..Len(answer)
         /\ Cardinality(returned) = Len(answer)
         /\ Len(answer) = cap \/ (Len(answer) < cap /\ returned = matching)
         /\ \A k, l \in DOMAIN answer :
              k < l => answer[k].env.occurred_at <= answer[l].env.occurred_at
    BY <1>7, <1>12, <1>16, <1>17, <1>18
  <1>21. QED
    BY <1>12, <1>15, <1>19, <1>20 DEF returned, answer, matching, cap

\* The periods a sweep is given.
LEMMA PendingListed ==
    ASSUME SliceOK, NEW before \in Periods
    PROVE  LET pending == PendingCheckpointPeriods(before)
               seen == {p \in {PeriodAt(i) : i \in DOMAIN records} :
                          p < before /\ points[p] = {}}
           IN /\ Range(pending) = seen
              /\ \A k, l \in DOMAIN pending : k < l => pending[k] < pending[l]
  <1> DEFINE pending == PendingCheckpointPeriods(before)
             seen == {p \in {PeriodAt(i) : i \in DOMAIN records} :
                        p < before /\ points[p] = {}}
             open == {PeriodAt(i) : i \in {j \in DOMAIN records :
                        Before(PeriodAt(j), before) /\ points[PeriodAt(j)] = {}}}
  <1>1. open = seen
    BY SliceDomain, BeforeIsLess
  <1>2. seen \subseteq Periods
    BY SliceDomain
  <1>3. IsFiniteSet(seen)
    <2> DEFINE at == {i \in DOMAIN records : PeriodAt(i) \in seen}
               f == [i \in at |-> PeriodAt(i)]
    <2>1. IsFiniteSet(at)
      BY SliceDomain, FS_Subset
    <2>2. f \in Surjection(at, seen)
      BY DEF Surjection
    <2> HIDE DEF f, at, seen
    <2>3. QED
      BY <2>1, <2>2, FS_Surjection
  <1>4. pending = Sorted(seen, Before)
    BY <1>1 DEF PendingCheckpointPeriods
  <1> HIDE DEF seen, pending
  <1>5. InOrder(Sorted(seen, Before), seen, LessIn(seen))
    BY <1>2, <1>3, SortedPeriods
  <1>6. InOrder(pending, seen, LessIn(seen))
    BY <1>4, <1>5
  <1>7. ASSUME NEW k \in DOMAIN pending, NEW l \in DOMAIN pending, k < l
        PROVE  pending[k] < pending[l]
    <2>1. pending[k] \in LessIn(seen)[pending[l]] /\ pending[l] \in seen
      BY <1>6, <1>7 DEF InOrder
    <2>2. QED
      BY <2>1 DEF LessIn, Less
  <1>8. QED
    BY <1>6, <1>7 DEF InOrder, seen, pending

-----------------------------------------------------------------------------
\* Sanitising an envelope leaves one of the same access.
LEMMA SanitizeKeepsType ==
    ASSUME NEW e \in EnvelopeType
    PROVE  /\ Sanitize(e) \in EnvelopeType
           /\ Sanitize(e).event_id = e.event_id
           /\ Sanitize(e).data_subjects = e.data_subjects
  <1>1. \A a \in Attributes : Truncate(a) \in Attributes
    BY DEF Attributes, Truncate
  <1>2. {Truncate(a) : a \in {b \in e.attributes : b.key \notin ForbiddenKeys}}
          \in SUBSET Attributes
    BY <1>1 DEF EnvelopeType
  <1>3. QED
    BY <1>2 DEF EnvelopeType, Sanitize

LEMMA EnvelopesAreTyped == Envelopes \subseteq EnvelopeType
  BY EnvelopeAssumption

\* The inductive invariant: besides the slice and its index, that no step
\* touches a stored row, so that each is under the seal it was given.
MemoryInv ==
    /\ SliceOK
    /\ IndexOK
    /\ DOMAIN points = Periods
    /\ \A i \in DOMAIN records : records[i].seal = Seal(records[i].env)

LEMMA MemoryInit == NewMemory => MemoryInv
  <1> SUFFICES ASSUME NewMemory PROVE MemoryInv
    OBVIOUS
  <1>1. records = <<>> /\ made = 0
    BY DEF NewMemory
  <1>2. SliceOK
    BY <1>1 DEF SliceOK
  <1>3. Range(records) = {}
    BY <1>1 DEF Range
  <1>4. IndexOK
    BY <1>3 DEF IndexOK, IndexAgrees, NewMemory
  <1>5. QED
    BY <1>1, <1>2, <1>4 DEF MemoryInv, NewMemory

LEMMA MemoryStep == MemoryInv /\ [MemoryNext]_memoryVars => MemoryInv'
  <1> SUFFICES ASSUME MemoryInv, [MemoryNext]_memoryVars PROVE MemoryInv'
    OBVIOUS
  <1> USE DEF MemoryInv
  <1>1. ASSUME NEW e \in Envelopes, AppendRecord(Sanitize(e)) PROVE MemoryInv'
    <2> DEFINE x == NewRow(Sanitize(e))
    <2>1. Sanitize(e) \in EnvelopeType
      BY SanitizeKeepsType, EnvelopesAreTyped
    <2>2. SliceOK' /\ IndexOK'
      BY <1>1, <2>1, AppendKeeps
    <2>3. DOMAIN points' = Periods
      BY <1>1 DEF AppendRecord
    <2>4. x.seal = Seal(x.env)
      BY DEF NewRow
    <2>5. \A r \in Range(records) : r.seal = Seal(r.env)
      BY SliceDomain
    <2>6. UNCHANGED records \/ Range(records') = Range(records) \cup {x}
      BY <1>1, <2>1, AppendStores
    <2> HIDE DEF x
    <2>7. \A r \in Range(records') : r.seal = Seal(r.env)
      BY <2>4, <2>5, <2>6
    <2>8. QED
      BY <2>2, <2>3, <2>7 DEF Range
  <1>2. ASSUME NEW p \in Periods, NEW cp, SaveCheckpoint(p, cp) PROVE MemoryInv'
    BY <1>2 DEF SaveCheckpoint, SliceOK, IndexOK, IndexAgrees
  <1>3. ASSUME NEW p \in Periods, PurgeExpired(p) PROVE MemoryInv'
    <2>1. SliceOK' /\ IndexOK'
      BY <1>3, PurgeKeeps
    <2>2. DOMAIN points' = Periods
      BY <1>3 DEF PurgeExpired
    <2>3. Range(records') \subseteq Range(records)
      <3>1. Range(records') = {r \in Range(records) : Kept(r, p)}
        BY <1>3, PurgeLeaves
      <3>2. QED
        BY <3>1
    <2>4. QED
      BY <2>1, <2>2, <2>3 DEF Range
  <1>4. ASSUME NEW s \in Subjects, NEW hold \in BOOLEAN, SetLegalHold(s, hold)
        PROVE  MemoryInv'
    BY <1>4 DEF SetLegalHold, SliceOK, IndexOK, IndexAgrees
  <1>5. CASE UNCHANGED memoryVars
    BY <1>5 DEF memoryVars, SliceOK, IndexOK, IndexAgrees
  <1>6. QED
    BY <1>1, <1>2, <1>3, <1>4, <1>5 DEF MemoryNext

LEMMA MemoryHolds == MemorySpec => []MemoryInv
  BY MemoryInit, MemoryStep, PTL DEF MemorySpec

\* The byEventID map and the slice hold the same records after any appends and
\* purges: Append's look-up answers for what is stored, and for nothing else.
THEOREM IndexInStep == MemorySpec => []IndexAgrees
  <1>1. MemoryInv => IndexAgrees
    BY DEF MemoryInv, IndexOK
  <1>2. QED
    BY <1>1, MemoryHolds, PTL

\* The list SealsForPeriod returns depends on which rows are stored, not on
\* how they came: each row's seal once, by event id.
THEOREM SealsDetermined == MemorySpec => []SealsReproducible
  <1>1. MemoryInv => SealsReproducible
    BY SealsReproduce DEF MemoryInv
  <1>2. QED
    BY <1>1, MemoryHolds, PTL

\* A BySubject answer cut by its limit is the oldest of what matches, in
\* chronological order, although Seq is no such order once a purge has run.
THEOREM AnswersEarliest == MemorySpec => []BySubjectAnswers
  <1>1. MemoryInv => BySubjectAnswers
    <2> SUFFICES ASSUME MemoryInv PROVE BySubjectAnswers
      OBVIOUS
    <2>1. 0..MaxAppends \subseteq Nat
      BY MemoryAssumption
    <2>2. SliceOK
      BY DEF MemoryInv
    <2>3. QED
      BY <2>1, <2>2, AnswerIsEarliest DEF BySubjectAnswers, Matching
  <1>2. QED
    BY <1>1, MemoryHolds, PTL

\* PendingCheckpointPeriods names the closed periods without a checkpoint,
\* oldest first, though it compares and sorts their texts.
THEOREM PendingInOrder == MemorySpec => []PendingOldestFirst
  <1>1. MemoryInv => PendingOldestFirst
    <2> SUFFICES ASSUME MemoryInv, NEW before \in Periods
                 PROVE  LET pending == PendingCheckpointPeriods(before) IN
                        /\ Range(pending) = S!PendingCheckpointPeriods(before)
                        /\ \A k, l \in DOMAIN pending : k < l => pending[k] < pending[l]
      BY DEF PendingOldestFirst
    <2> DEFINE rows == {[row_id |-> r.row_id, env |-> r.env, seal |-> r.seal]
                          : r \in Range(records)}
    <2>1. {S!PeriodOf(r) : r \in rows} = {PeriodAt(i) : i \in DOMAIN records}
      <3>1. ASSUME NEW i \in DOMAIN records PROVE \E r \in rows : S!PeriodOf(r) = PeriodAt(i)
        <4>1. records[i] \in Range(records)
          BY DEF Range
        <4> DEFINE x == [row_id |-> records[i].row_id, env |-> records[i].env,
                         seal |-> records[i].seal]
        <4>2. x \in rows
          BY <4>1
        <4>3. S!PeriodOf(x) = PeriodAt(i)
          BY DEF S!PeriodOf, S!Period, PeriodAt, Period
        <4>4. QED
          BY <4>2, <4>3
      <3>2. ASSUME NEW r \in rows PROVE \E i \in DOMAIN records : S!PeriodOf(r) = PeriodAt(i)
        BY DEF S!PeriodOf, S!Period, PeriodAt, Period, Range
      <3>3. QED
        BY <3>1, <3>2
    <2>2. S!PendingCheckpointPeriods(before)
            = {p \in {PeriodAt(i) : i \in DOMAIN records} : p < before /\ points[p] = {}}
      BY <2>1 DEF S!PendingCheckpointPeriods
    <2>3. QED
      BY <2>2, PendingListed DEF MemoryInv
  <1>2. QED
    BY <1>1, MemoryHolds, PTL

-----------------------------------------------------------------------------
\* The slice as the contract sees it: without the sequence numbers.
AsRow(r) == [row_id |-> r.row_id, env |-> r.env, seal |-> r.seal]

StoreRows == {AsRow(r) : r \in Range(records)}

\* An append is the contract's append.
LEMMA AppendRefines ==
    ASSUME MemoryInv, NEW e \in Envelopes, AppendRecord(Sanitize(e))
    PROVE  S!StoreNext
  <1> DEFINE x == Sanitize(e)
             new == [row_id |-> made + 1, env |-> x, seal |-> Seal(x)]
  <1>1. x \in EnvelopeType
    BY SanitizeKeepsType, EnvelopesAreTyped
  <1>2. UNCHANGED <<points, held>>
    BY DEF AppendRecord
  <1>3. S!byEventID(x.event_id) = {r \in StoreRows : r.env.event_id = x.event_id}
    BY DEF S!byEventID, StoreRows, AsRow
  <1>4. AsRow(NewRow(x)) = new
    BY DEF AsRow, NewRow
  <1> HIDE DEF x, new
  <1>5. S!Append(x, Seal(x))
    <2>1. CASE /\ \E r \in Range(records) : r.env.event_id = x.event_id
               /\ UNCHANGED <<records, index, made>>
      <3>1. \A r \in Range(records) : AsRow(r).env = r.env
        BY DEF AsRow
      <3>2. S!byEventID(x.event_id) # {}
        BY <1>3, <2>1, <3>1 DEF StoreRows
      <3>3. QED
        BY <1>2, <2>1, <3>2 DEF S!Append
    <2>2. CASE /\ \A r \in Range(records) : r.env.event_id # x.event_id
               /\ Range(records') = Range(records) \cup {NewRow(x)}
               /\ made' = made + 1
      <3>1. \A r \in Range(records) : AsRow(r).env = r.env
        BY DEF AsRow
      <3>2. S!byEventID(x.event_id) = {}
        BY <1>3, <2>2, <3>1 DEF StoreRows
      <3>3. StoreRows' = StoreRows \cup {new}
        BY <1>4, <2>2 DEF StoreRows
      <3>4. QED
        BY <1>2, <2>2, <3>2, <3>3 DEF S!Append, StoreRows, AsRow, new
    <2>3. QED
      BY <1>1, <2>1, <2>2, AppendStores DEF MemoryInv, x
  <1>6. x \in S!StoredEnvelopes
    BY DEF S!StoredEnvelopes, S!Sanitize, S!Truncate, Sanitize, Truncate, x
  <1>7. S!Seal(x) = Seal(x)
    BY DEF S!Seal, Seal, S!canonical, canonical
  <1>8. QED
    BY <1>5, <1>6, <1>7 DEF S!StoreNext

\* Text order being month order, a purge deletes what the contract says.
LEMMA PurgeRefines ==
    ASSUME MemoryInv, NEW p \in Periods, PurgeExpired(p)
    PROVE  S!PurgeExpired(p)
  <1>1. Range(records') = {r \in Range(records) : Kept(r, p)}
    BY PurgeLeaves DEF MemoryInv
  <1>2. UNCHANGED <<made, points, held>>
    BY DEF PurgeExpired
  <1>3. ASSUME NEW r \in Range(records)
        PROVE  Kept(r, p) <=> AsRow(r) \notin S!Expired(p)
    <2>1. Period(r.env.occurred_at) \in Periods
      BY SliceDomain DEF PeriodAt, MemoryInv
    <2>2. Kept(r, p) <=> \/ ~(Period(r.env.occurred_at) < p)
                         \/ \E s \in r.env.data_subjects : s \in held
      BY <2>1, BeforeIsLess DEF Kept, heldLocked
    <2>3. AsRow(r) \in S!Expired(p) <=> /\ Period(r.env.occurred_at) < p
                                         /\ r.env.data_subjects \cap held = {}
      <3>1. AsRow(r) \in StoreRows /\ AsRow(r).env = r.env
        BY DEF StoreRows, AsRow
      <3>2. S!Expired(p) = {q \in StoreRows : /\ Period(q.env.occurred_at) < p
                                              /\ q.env.data_subjects \cap held = {}}
        BY DEF S!Expired, StoreRows, AsRow, S!PeriodOf, S!Period, Period, S!heldLocked
      <3>3. QED
        BY <3>1, <3>2
    <2>4. QED
      BY <2>2, <2>3
  <1>4. StoreRows' = StoreRows \ S!Expired(p)
    BY <1>1, <1>3 DEF StoreRows
  <1>5. QED
    BY <1>2, <1>4 DEF S!PurgeExpired, StoreRows, AsRow

\* The in-memory backend implements the contract of the store, for any
\* subjects, events, periods and number of appends: every step of it, whatever
\* came before, is a step of AccessStore on the rows of its slice.
THEOREM MemoryImplementsStore == MemorySpec => ImplementsStore
  <1>1. NewMemory => S!StoreInit
    <2> SUFFICES ASSUME NewMemory PROVE S!StoreInit
      OBVIOUS
    <2>1. Range(records) = {}
      BY DEF NewMemory, Range
    <2>2. S!Periods = Periods
      BY DEF S!Periods, Periods, S!Time, Time
    <2>3. QED
      BY <2>1, <2>2 DEF NewMemory, S!StoreInit
  <1>2. MemoryInv /\ [MemoryNext]_memoryVars => [S!StoreNext]_(S!storeVars)
    <2> SUFFICES ASSUME MemoryInv, [MemoryNext]_memoryVars
                 PROVE  S!StoreNext \/ UNCHANGED S!storeVars
      OBVIOUS
    <2>1. S!Periods = Periods
      BY DEF S!Periods, Periods, S!Time, Time
    <2>2. ASSUME NEW e \in Envelopes, AppendRecord(Sanitize(e)) PROVE S!StoreNext
      BY <2>2, AppendRefines
    <2>3. ASSUME NEW p \in Periods, NEW cp, SaveCheckpoint(p, cp)
          PROVE  S!StoreNext
      <3>1. points'[p] = IF points[p] = {} THEN {cp} ELSE points[p]
        BY <2>3 DEF SaveCheckpoint, MemoryInv
      <3>2. PICK c \in points'[p] : points[p] = {} => c = cp
        BY <3>1
      <3>3. S!SaveCheckpoint(p, c)
        BY <2>3, <3>2 DEF SaveCheckpoint, S!SaveCheckpoint
      <3>4. QED
        BY <2>1, <3>2, <3>3 DEF S!StoreNext
    <2>4. ASSUME NEW p \in Periods, PurgeExpired(p) PROVE S!StoreNext
      <3>1. S!PurgeExpired(p)
        BY <2>4, PurgeRefines
      <3>2. QED
        BY <2>1, <3>1 DEF S!StoreNext
    <2>5. ASSUME NEW s \in Subjects, NEW hold \in BOOLEAN, SetLegalHold(s, hold)
          PROVE  S!StoreNext
      <3>1. S!SetLegalHold(s, hold)
        BY <2>5 DEF SetLegalHold, S!SetLegalHold
      <3>2. QED
        BY <3>1 DEF S!StoreNext
    <2>6. CASE UNCHANGED memoryVars
      BY <2>6 DEF memoryVars, S!storeVars
    <2>7. QED
      BY <2>2, <2>3, <2>4, <2>5, <2>6 DEF MemoryNext
  <1>3. QED
    BY <1>1, <1>2, MemoryHolds, PTL DEF MemorySpec, ImplementsStore, S!StoreSpecification
=============================================================================
