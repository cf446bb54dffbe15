-------------------------- MODULE InspectionProofs --------------------------
(***************************************************************************)
(* Proofs about the PostgreSQL backend under calls that time out and run   *)
(* late, and about what the verdicts of the two verifications are worth    *)
(* when rows may have been altered behind the service's back.              *)
(***************************************************************************)
EXTENDS Inspection, MemoryProofs

-----------------------------------------------------------------------------
\* The statements the service sends, and the data they are answered with.
RowEnvelopes == {e \in EnvelopeType : e.data_subjects # {}}

\* A checkpoint over a list of seals records their number, which it also seals.
OverSeals(s) == [row_count |-> Len(s), seal |-> Checkpoint(s, Len(s))]

SealedPoints == {OverSeals(s) : s \in Seq(Seals)}

AppendStmts == [proc : {"append_record"}, env : RowEnvelopes]
SealsStmts == [proc : {"seals_for_period"}, period : Periods]
SaveStmts == [proc : {"save_checkpoint"}, period : Periods, cp : SealedPoints]
PurgeStmts == [proc : {"purge_expired"}, cutoff : Periods]

Stmts == AppendStmts \cup SealsStmts \cup SaveStmts \cup PurgeStmts

Replies == [flag : BOOLEAN, count : Nat, seals : Seq(Seals)]

Calls == [pc : {"idle", "sent", "ok", "error"}, id : Nat,
          stmt : Stmts \cup {NoStmt}, reply : Replies]

\* The tables: whatever ran or was altered, rows have subjects and checkpoints
\* are over lists of seals.
TablesOK ==
    /\ SliceOK
    /\ IndexOK
    /\ \A i \in DOMAIN records : records[i].env \in RowEnvelopes
    /\ points \in [Periods -> SUBSET SealedPoints]

\* The calls: a statement under way is one the service sends, and the answer
\* to seals_for_period counts what it lists.
CallsOK ==
    /\ calls \in [Callers -> Calls]
    /\ sent \in Nat
    /\ late \subseteq Stmts
    /\ \A c \in Callers : calls[c].pc \in {"sent", "ok"} => calls[c].stmt \in Stmts
    /\ \A c \in Callers : Answered(c, "seals_for_period")
                            => calls[c].reply.count = Len(calls[c].reply.seals)

\* The procedure of a statement tells what it carries.
LEMMA StmtKinds ==
    ASSUME NEW stmt \in Stmts
    PROVE  /\ stmt.proc = "append_record" => stmt \in AppendStmts /\ stmt.env \in RowEnvelopes
           /\ stmt.proc = "seals_for_period" => stmt \in SealsStmts /\ stmt.period \in Periods
           /\ stmt.proc = "save_checkpoint" =>
                stmt \in SaveStmts /\ stmt.period \in Periods /\ stmt.cp \in SealedPoints
           /\ stmt.proc = "purge_expired" => stmt \in PurgeStmts /\ stmt.cutoff \in Periods
           /\ stmt.proc \in {"append_record", "seals_for_period", "save_checkpoint",
                              "purge_expired"}
  BY DEF Stmts, AppendStmts, SealsStmts, SaveStmts, PurgeStmts

\* Running a statement keeps the tables in order.
LEMMA RunKeepsTables ==
    ASSUME TablesOK, NEW stmt \in Stmts, Executes(stmt)
    PROVE  TablesOK'
  <1> USE DEF TablesOK
  <1>1. CASE stmt.proc = "append_record" /\ AppendRecord(stmt.env)
    <2> DEFINE e == stmt.env
    <2>1. e \in RowEnvelopes /\ e \in EnvelopeType
      BY <1>1, StmtKinds DEF RowEnvelopes
    <2> HIDE DEF e
    <2>2. AppendRecord(e)
      BY <1>1 DEF e
    <2>3. SliceOK' /\ IndexOK'
      BY <2>1, <2>2, AppendKeeps
    <2>4. UNCHANGED points
      BY <2>2 DEF AppendRecord
    <2>5. \/ UNCHANGED records
          \/ Range(records') = Range(records) \cup {NewRow(e)}
      BY <2>1, <2>2, AppendStores
    <2>6. NewRow(e).env = e
      BY DEF NewRow
    <2>7. \A r \in Range(records') : r.env \in RowEnvelopes
      BY <2>1, <2>5, <2>6, SliceDomain
    <2>8. QED
      BY <2>3, <2>4, <2>7 DEF Range
  <1>2. CASE UNCHANGED memoryVars
    BY <1>2 DEF memoryVars, SliceOK, IndexOK, IndexAgrees
  <1>3. CASE stmt.proc = "save_checkpoint" /\ SaveCheckpoint(stmt.period, stmt.cp)
    <2> DEFINE p == stmt.period
               cp == stmt.cp
    <2>1. p \in Periods /\ cp \in SealedPoints
      BY <1>3, StmtKinds
    <2> HIDE DEF p, cp
    <2>2. points' = [points EXCEPT ![p] = IF @ = {} THEN {cp} ELSE @]
      BY <1>3 DEF SaveCheckpoint, p, cp
    <2>3. points' \in [Periods -> SUBSET SealedPoints]
      BY <2>1, <2>2
    <2>4. UNCHANGED <<records, index, made>>
      BY <1>3 DEF SaveCheckpoint
    <2>5. QED
      BY <2>3, <2>4 DEF SliceOK, IndexOK, IndexAgrees
  <1>4. CASE stmt.proc = "purge_expired" /\ PurgeExpired(stmt.cutoff)
    <2> DEFINE cutoff == stmt.cutoff
    <2> HIDE DEF cutoff
    <2>1. PurgeExpired(cutoff)
      BY <1>4 DEF cutoff
    <2>2. SliceOK' /\ IndexOK'
      BY <2>1, PurgeKeeps
    <2>3. UNCHANGED points
      BY <2>1 DEF PurgeExpired
    <2>4. Range(records') = {r \in Range(records) : Kept(r, cutoff)}
      BY <2>1, PurgeLeaves
    <2>5. \A r \in Range(records') : r.env \in RowEnvelopes
      BY <2>4, SliceDomain
    <2>6. QED
      BY <2>2, <2>3, <2>5 DEF Range
  <1>5. QED
    BY <1>1, <1>2, <1>3, <1>4 DEF Executes

-----------------------------------------------------------------------------
\* A slice without one of its rows.
LEMMA RowRemoved ==
    ASSUME SliceOK, NEW i \in DOMAIN records
    PROVE  LET rows == RemoveAt(records, i) IN
           /\ rows \in Seq(RecordType) /\ Len(rows) = Len(records) - 1
           /\ \A k \in DOMAIN rows :
                /\ k < i => k \in DOMAIN records /\ rows[k] = records[k]
                /\ ~(k < i) => k + 1 \in DOMAIN records /\ rows[k] = records[k + 1]
  <1> DEFINE n == Len(records)
             a == SubSeq(records, 1, i - 1)
             b == SubSeq(records, i + 1, n)
  <1>1. n \in Nat /\ DOMAIN records = 1..n /\ i \in 1..n /\ records \in Seq(RecordType)
    BY SliceDomain DEF SliceOK
  <1>2. a \in Seq(RecordType) /\ Len(a) = i - 1 /\ \A k \in 1..(i - 1) : a[k] = records[k]
    BY <1>1
  <1>3. b \in Seq(RecordType) /\ Len(b) = n - i /\ \A k \in 1..(n - i) : b[k] = records[i + k]
    BY <1>1
  <1>4. RemoveAt(records, i) = a \o b
    BY DEF RemoveAt
  <1> HIDE DEF a, b, n
  <1>5. a \o b \in Seq(RecordType) /\ Len(a \o b) = n - 1 /\ DOMAIN (a \o b) = 1..(n - 1)
    <2>1. a \o b \in Seq(RecordType) /\ Len(a \o b) = Len(a) + Len(b)
      BY <1>2, <1>3
    <2>2. Len(a) + Len(b) = n - 1
      BY <1>1, <1>2, <1>3
    <2>3. DOMAIN (a \o b) = 1..Len(a \o b)
      BY <2>1
    <2>4. QED
      BY <2>1, <2>2, <2>3
  <1>6. ASSUME NEW k \in 1..(n - 1), k < i PROVE (a \o b)[k] = records[k]
    BY <1>1, <1>2, <1>3, <1>6
  <1>7. ASSUME NEW k \in 1..(n - 1), ~(k < i) PROVE (a \o b)[k] = records[k + 1]
    <2>1. k - (i - 1) \in 1..(n - i) /\ i + (k - (i - 1)) = k + 1
      BY <1>1, <1>7
    <2>2. (a \o b)[k] = b[k - (i - 1)]
      BY <1>1, <1>2, <1>3, <1>7
    <2>3. QED
      BY <1>3, <2>1, <2>2
  <1>8. \A k \in 1..(n - 1) : (k < i => k \in 1..n) /\ k + 1 \in 1..n
    BY <1>1
  <1>9. QED
    BY <1>1, <1>4, <1>5, <1>6, <1>7, <1>8 DEF n

\* The rows an alteration may leave.
Altered(rows) ==
    /\ rows \in Seq(RecordType)
    /\ Len(rows) <= Len(records)
    /\ \A k \in DOMAIN rows : rows[k].row_id <= made /\ rows[k].env \in RowEnvelopes
    /\ \A k, l \in DOMAIN rows : rows[k].env.event_id = rows[l].env.event_id => k = l
    /\ \A k \in DOMAIN rows : \E i \in DOMAIN records : rows[k].seal = records[i].seal

\* Every alteration leaves such rows: fewer, or with other contents or seals,
\* but no seal that was not there.
LEMMA AlterationLeaves ==
    ASSUME TablesOK, Alteration
    PROVE  \E rows : Altered(rows) /\ Alter(rows)
  <1> USE DEF TablesOK
  <1>1. PICK i \in DOMAIN records :
          \/ Alter(RemoveAt(records, i))
          \/ \E e \in Alterations :
               /\ \A j \in DOMAIN records \ {i} : records[j].env.event_id # e.event_id
               /\ Alter([records EXCEPT ![i].env = e])
          \/ \E j \in DOMAIN records \ {i} : Alter([records EXCEPT ![i].seal = records[j].seal])
    BY DEF Alteration
  <1>2. /\ Len(records) \in Nat /\ DOMAIN records = 1..Len(records)
        /\ records \in Seq(RecordType) /\ i \in 1..Len(records)
    BY SliceDomain DEF SliceOK
  <1>3. Altered(RemoveAt(records, i))
    <2> DEFINE rows == RemoveAt(records, i)
    <2>1. /\ rows \in Seq(RecordType) /\ Len(rows) = Len(records) - 1
          /\ \A k \in DOMAIN rows :
               /\ k < i => k \in DOMAIN records /\ rows[k] = records[k]
               /\ ~(k < i) => k + 1 \in DOMAIN records /\ rows[k] = records[k + 1]
      BY RowRemoved
    <2> HIDE DEF rows
    <2> DEFINE from(k) == IF k < i THEN k ELSE k + 1
    <2>2. \A k \in DOMAIN rows : from(k) \in DOMAIN records /\ rows[k] = records[from(k)]
      BY <2>1
    <2>3. \A k, l \in DOMAIN rows : from(k) = from(l) => k = l
      BY <1>2, <2>1
    <2> HIDE DEF from
    <2>4. Len(rows) <= Len(records)
      BY <1>2, <2>1
    <2>5. \A k \in DOMAIN rows :
            /\ rows[k].row_id <= made /\ rows[k].env \in RowEnvelopes
            /\ \E j \in DOMAIN records : rows[k].seal = records[j].seal
      BY <2>2 DEF SliceOK
    <2>6. \A k, l \in DOMAIN rows : rows[k].env.event_id = rows[l].env.event_id => k = l
      BY <2>2, <2>3 DEF SliceOK
    <2>7. QED
      BY <2>1, <2>4, <2>5, <2>6 DEF Altered, rows
  <1>4. ASSUME NEW e \in Alterations,
               \A j \in DOMAIN records \ {i} : records[j].env.event_id # e.event_id
        PROVE  Altered([records EXCEPT ![i].env = e])
    <2> DEFINE rows == [records EXCEPT ![i].env = e]
               x == [records[i] EXCEPT !.env = e]
    <2>1. e \in EnvelopeType /\ e \in RowEnvelopes
      BY InspectionAssumption DEF RowEnvelopes
    <2>2. records[i] \in RecordType
      BY SliceDomain
    <2>3. /\ x \in RecordType /\ x.env = e /\ x.row_id = records[i].row_id
          /\ x.seal = records[i].seal
      BY <2>1, <2>2 DEF RecordType
    <2>4. /\ rows \in Seq(RecordType) /\ Len(rows) = Len(records)
          /\ DOMAIN rows = DOMAIN records /\ rows[i] = x
          /\ \A k \in DOMAIN records : k # i => rows[k] = records[k]
      BY <1>2, <2>3
    <2> HIDE DEF rows, x
    <2>5. \A k \in DOMAIN rows :
            /\ rows[k].row_id <= made /\ rows[k].env \in RowEnvelopes
            /\ \E j \in DOMAIN records : rows[k].seal = records[j].seal
      BY <2>1, <2>3, <2>4 DEF SliceOK
    <2>6. \A k, l \in DOMAIN rows : rows[k].env.event_id = rows[l].env.event_id => k = l
      BY <1>4, <2>3, <2>4 DEF SliceOK
    <2>7. Len(rows) <= Len(records)
      BY <1>2, <2>4
    <2>8. QED
      BY <2>4, <2>5, <2>6, <2>7 DEF Altered, rows
  <1>5. ASSUME NEW j \in DOMAIN records \ {i}
        PROVE  Altered([records EXCEPT ![i].seal = records[j].seal])
    <2> DEFINE rows == [records EXCEPT ![i].seal = records[j].seal]
               x == [records[i] EXCEPT !.seal = records[j].seal]
    <2>1. records[i] \in RecordType /\ records[j] \in RecordType
      BY SliceDomain
    <2>2. /\ x \in RecordType /\ x.env = records[i].env /\ x.row_id = records[i].row_id
          /\ x.seal = records[j].seal
      BY <2>1 DEF RecordType
    <2>3. /\ rows \in Seq(RecordType) /\ Len(rows) = Len(records)
          /\ DOMAIN rows = DOMAIN records /\ rows[i] = x
          /\ \A k \in DOMAIN records : k # i => rows[k] = records[k]
      BY <1>2, <2>2
    <2> HIDE DEF rows, x
    <2>4. \A k \in DOMAIN rows :
            rows[k].row_id = records[k].row_id /\ rows[k].env = records[k].env
      BY <2>2, <2>3
    <2>5. \A k \in DOMAIN rows : \E l \in DOMAIN records : rows[k].seal = records[l].seal
      BY <2>2, <2>3
    <2>6. Len(rows) <= Len(records)
      BY <1>2, <2>3
    <2>7. \A k \in DOMAIN rows : rows[k].row_id <= made /\ rows[k].env \in RowEnvelopes
      BY <2>3, <2>4 DEF SliceOK
    <2>8. \A k, l \in DOMAIN rows : rows[k].env.event_id = rows[l].env.event_id => k = l
      BY <2>3, <2>4 DEF SliceOK
    <2>9. QED
      BY <2>3, <2>5, <2>6, <2>7, <2>8 DEF Altered, rows
  <1>6. QED
    BY <1>1, <1>3, <1>4, <1>5

\* An alteration keeps the tables in order: the database's index is unique.
LEMMA AlterKeepsTables ==
    ASSUME TablesOK, NEW rows, Altered(rows), Alter(rows)
    PROVE  TablesOK'
  <1>1. /\ records' = rows /\ UNCHANGED <<points, made>>
        /\ index' = [id \in EventIDs |-> {r \in Range(rows) : r.env.event_id = id}]
    BY DEF Alter
  <1>2. SliceOK'
    BY <1>1 DEF Altered, SliceOK, TablesOK
  <1>3. IndexOK'
    BY <1>1 DEF IndexOK, IndexAgrees
  <1>4. QED
    BY <1>1, <1>2, <1>3 DEF TablesOK, Altered

-----------------------------------------------------------------------------
\* The data a statement answers with, by its procedure.
LEMMA DataReplied ==
    ASSUME TablesOK, NEW stmt \in Stmts
    PROVE  /\ Data(stmt) \in Replies
           /\ stmt.proc = "seals_for_period" => Data(stmt).count = Len(Data(stmt).seals)
           /\ stmt.proc = "save_checkpoint" => (Data(stmt).flag <=> points[stmt.period] = {})
           /\ stmt.proc = "purge_expired" =>
                Data(stmt).count = Cardinality({i \in DOMAIN records : ~Kept(records[i], stmt.cutoff)})
  <1>1. CASE stmt.proc = "append_record"
    <2>1. Data(stmt) = NoData
      BY <1>1 DEF Data
    <2>2. QED
      BY <1>1, <2>1 DEF NoData, Replies
  <1>2. CASE stmt.proc = "seals_for_period"
    <2> DEFINE seals == SealsForPeriod(stmt.period)
    <2>1. seals \in Seq(Seals) /\ Len(seals) \in Nat
      BY SealsListed DEF TablesOK
    <2> HIDE DEF seals
    <2>2. Data(stmt) = [flag |-> FALSE, count |-> Len(seals), seals |-> seals]
      BY <1>2 DEF Data, SealsData, NoData, seals
    <2>3. QED
      BY <1>2, <2>1, <2>2 DEF Replies
  <1>3. CASE stmt.proc = "save_checkpoint"
    <2> DEFINE new == (points[stmt.period] = {})
    <2>1. new \in BOOLEAN
      OBVIOUS
    <2>2. Data(stmt) = [NoData EXCEPT !.flag = new]
      BY <1>3 DEF Data, CreatedData
    <2> HIDE DEF new
    <2>3. Data(stmt) = [flag |-> new, count |-> 0, seals |-> <<>>]
      BY <2>2 DEF NoData
    <2>4. Data(stmt) \in Replies /\ Data(stmt).flag = new
      BY <2>1, <2>3 DEF Replies
    <2>5. Data(stmt).flag <=> points[stmt.period] = {}
      BY <2>4 DEF new
    <2>6. QED
      BY <1>3, <2>4, <2>5
  <1>4. CASE stmt.proc = "purge_expired"
    <2> DEFINE gone == {i \in DOMAIN records : Before(PeriodAt(i), stmt.cutoff)
                                              /\ ~heldLocked(records[i].env.data_subjects)}
    <2>1. gone = {i \in DOMAIN records : ~Kept(records[i], stmt.cutoff)}
      BY DEF Kept, PeriodAt
    <2>2. Cardinality(gone) \in Nat
      BY SliceDomain, FS_Subset, FS_CardinalityType DEF TablesOK
    <2>3. Data(stmt) = [NoData EXCEPT !.count = Cardinality(gone)]
      BY <1>4 DEF Data, PurgedData
    <2> HIDE DEF gone
    <2>4. Data(stmt) = [flag |-> FALSE, count |-> Cardinality(gone), seals |-> <<>>]
      BY <2>3 DEF NoData
    <2>5. QED
      BY <1>4, <2>1, <2>2, <2>4 DEF Replies
  <1>5. QED
    BY <1>1, <1>2, <1>3, <1>4, StmtKinds

\* The calls stay in order under every step of the service.
LEMMA StepKeepsCalls ==
    ASSUME TablesOK, CallsOK, CallStep
    PROVE  CallsOK'
  <1> USE DEF CallsOK
  <1>1. NoData \in Replies /\ IdleCall \in Calls /\ IdleCall.pc = "idle"
    BY DEF NoData, Replies, IdleCall, Calls
  <1>2. ASSUME NEW c \in Callers, CallRuns(c) PROVE CallsOK'
    <2> DEFINE stmt == calls[c].stmt
               new == [calls[c] EXCEPT !.pc = "ok", !.reply = Data(stmt)]
    <2>1. stmt \in Stmts
      BY <1>2 DEF CallRuns
    <2>2. Data(stmt) \in Replies
      BY <2>1, DataReplied
    <2>3. stmt.proc = "seals_for_period" => Data(stmt).count = Len(Data(stmt).seals)
      BY <2>1, DataReplied
    <2>4. /\ new \in Calls /\ new.stmt = stmt /\ new.reply = Data(stmt) /\ new.pc = "ok"
      BY <2>2 DEF Calls
    <2>5. calls' = [calls EXCEPT ![c] = new]
      BY <1>2 DEF CallRuns
    <2> HIDE DEF new, stmt
    <2>6. calls' \in [Callers -> Calls] /\ calls'[c] = new
          /\ \A d \in Callers : d # c => calls'[d] = calls[d]
      BY <2>4, <2>5
    <2>7. UNCHANGED <<late, sent>>
      BY <1>2 DEF CallRuns
    <2>8. QED
      BY <2>1, <2>3, <2>4, <2>6, <2>7 DEF Answered
  <1>3. ASSUME NEW c \in Callers, NEW stmt \in Stmts, call(c, stmt), UNCHANGED late
        PROVE  CallsOK'
    <2> DEFINE new == [pc |-> "sent", id |-> sent + 1, stmt |-> stmt, reply |-> NoData]
    <2>1. new \in Calls /\ new.stmt = stmt /\ new.pc = "sent"
      BY <1>1 DEF Calls
    <2>2. calls' = [calls EXCEPT ![c] = new] /\ sent' = sent + 1
      BY <1>3 DEF call
    <2> HIDE DEF new
    <2>3. calls' \in [Callers -> Calls] /\ calls'[c] = new
          /\ \A d \in Callers : d # c => calls'[d] = calls[d]
      BY <2>1, <2>2
    <2>4. QED
      BY <1>3, <2>1, <2>2, <2>3 DEF Answered
  <1>4. ASSUME NEW c \in Callers, NEW new \in Calls, new.pc \in {"idle", "error"},
               calls' = [calls EXCEPT ![c] = new], late' \subseteq Stmts, UNCHANGED sent
        PROVE  CallsOK'
    <2>1. calls' \in [Callers -> Calls] /\ calls'[c] = new
          /\ \A d \in Callers : d # c => calls'[d] = calls[d]
      BY <1>4
    <2>2. QED
      BY <1>4, <2>1 DEF Answered
  <1>5. ASSUME NEW c \in Callers, CallFails(c) PROVE CallsOK'
    <2> DEFINE new == [calls[c] EXCEPT !.pc = "error", !.reply = NoData]
    <2>1. new \in Calls /\ new.pc = "error"
      BY <1>1 DEF Calls
    <2>2. calls' = [calls EXCEPT ![c] = new] /\ UNCHANGED <<late, sent>>
      BY <1>5 DEF CallFails
    <2> HIDE DEF new
    <2>3. QED
      BY <1>4, <2>1, <2>2
  <1>6. ASSUME NEW c \in Callers, CallAbandoned(c) PROVE CallsOK'
    <2> DEFINE new == [calls[c] EXCEPT !.pc = "error"]
    <2>1. new \in Calls /\ new.pc = "error"
      BY DEF Calls
    <2>2. calls' = [calls EXCEPT ![c] = new] /\ UNCHANGED sent
      BY <1>6 DEF CallAbandoned
    <2>3. late' \subseteq Stmts
      BY <1>6 DEF CallAbandoned
    <2> HIDE DEF new
    <2>4. QED
      BY <1>4, <2>1, <2>2, <2>3
  <1>7. ASSUME NEW c \in Callers,
               Errs(c) \/ SaveDone(c) \/ PurgeDone(c) \/ AppendDone(c)
        PROVE  CallsOK'
    <2>1. calls' = [calls EXCEPT ![c] = IdleCall] /\ UNCHANGED <<late, sent>>
      BY <1>7 DEF Errs, SaveDone, PurgeDone, AppendDone
    <2>2. QED
      BY <1>1, <1>4, <2>1
  <1>8. ASSUME NEW c \in Callers, NEW e \in Envelopes, AppendCall(c, e) PROVE CallsOK'
    <2> DEFINE stmt == [proc |-> "append_record", env |-> Sanitize(e)]
    <2>1. stmt \in Stmts
      <3>1. Sanitize(e) \in RowEnvelopes
        BY <1>8, EnvelopesAreTyped, SanitizeKeepsType DEF AppendCall, Validate, RowEnvelopes
      <3>2. QED
        BY <3>1 DEF Stmts, AppendStmts
    <2>2. call(c, stmt) /\ UNCHANGED late
      BY <1>8 DEF AppendCall
    <2> HIDE DEF stmt
    <2>3. QED
      BY <1>3, <2>1, <2>2
  <1>9. ASSUME NEW c \in Callers, NEW p \in Periods, SealsCall(c, p) PROVE CallsOK'
    <2> DEFINE stmt == [proc |-> "seals_for_period", period |-> p]
    <2>1. stmt \in Stmts
      BY DEF Stmts, SealsStmts
    <2>2. call(c, stmt) /\ UNCHANGED late
      BY <1>9 DEF SealsCall
    <2> HIDE DEF stmt
    <2>3. QED
      BY <1>3, <2>1, <2>2
  <1>10. ASSUME NEW c \in Callers, NEW p \in Periods, PurgeCall(c, p) PROVE CallsOK'
    <2> DEFINE stmt == [proc |-> "purge_expired", cutoff |-> p]
    <2>1. stmt \in Stmts
      BY DEF Stmts, PurgeStmts
    <2>2. call(c, stmt) /\ UNCHANGED late
      BY <1>10 DEF PurgeCall
    <2> HIDE DEF stmt
    <2>3. QED
      BY <1>3, <2>1, <2>2
  <1>11. ASSUME NEW c \in Callers, SaveCall(c) PROVE CallsOK'
    <2> DEFINE got == calls[c].reply
               p == calls[c].stmt.period
               stmt == [proc |-> "save_checkpoint", period |-> p,
                        cp |-> [row_count |-> got.count,
                                seal |-> Checkpoint(got.seals, got.count)]]
    <2>1. calls[c].stmt \in Stmts /\ calls[c].stmt.proc = "seals_for_period"
      BY <1>11 DEF SaveCall, Answered
    <2>2. p \in Periods
      BY <2>1, StmtKinds
    <2>3. got.count = Len(got.seals) /\ got.seals \in Seq(Seals)
      BY <1>11 DEF SaveCall, Calls, Replies
    <2>4. call(c, stmt) /\ UNCHANGED late
      BY <1>11 DEF SaveCall
    <2> HIDE DEF got, p
    <2>5. stmt.cp \in SealedPoints
      BY <2>3 DEF SealedPoints, OverSeals
    <2>6. stmt \in Stmts
      BY <2>2, <2>5 DEF Stmts, SaveStmts
    <2> HIDE DEF stmt
    <2>7. QED
      BY <1>3, <2>4, <2>6
  <1>12. ASSUME NEW stmt \in late, LateRuns(stmt) PROVE CallsOK'
    BY <1>12 DEF LateRuns, Answered
  <1>13. QED
    BY <1>2, <1>5, <1>6, <1>7, <1>8, <1>9, <1>10, <1>11, <1>12 DEF CallStep

\* A step of the service runs one statement or leaves the tables alone.
LEMMA TablesMove ==
    ASSUME CallsOK, CallStep
    PROVE  (\E stmt \in Stmts : Executes(stmt)) \/ UNCHANGED memoryVars
  <1>1. ASSUME NEW c \in Callers, CallRuns(c) PROVE \E stmt \in Stmts : Executes(stmt)
    BY <1>1 DEF CallRuns, CallsOK
  <1>2. ASSUME NEW stmt \in late, LateRuns(stmt) PROVE \E st \in Stmts : Executes(st)
    BY <1>2 DEF LateRuns, CallsOK
  <1>3. ASSUME NEW c \in Callers,
               \/ CallFails(c) \/ CallAbandoned(c) \/ Errs(c)
               \/ SaveCall(c) \/ SaveDone(c) \/ PurgeDone(c) \/ AppendDone(c)
               \/ \E e \in Envelopes : AppendCall(c, e)
               \/ \E p \in Periods : SealsCall(c, p) \/ PurgeCall(c, p)
        PROVE  UNCHANGED memoryVars
    BY <1>3 DEF CallFails, CallAbandoned, Errs, SaveCall, SaveDone, PurgeDone, AppendDone,
                AppendCall, SealsCall, PurgeCall
  <1>4. QED
    BY <1>1, <1>2, <1>3 DEF CallStep

-----------------------------------------------------------------------------
\* The caller has been told that its checkpoint was created.
Flagged(c) == Answered(c, "save_checkpoint") /\ calls[c].reply.flag

\* Why a checkpoint is announced once: whoever is to announce one has it in the
\* table, unannounced, and is the only one for its period.
AnnouncedInv ==
    /\ \A w \in written : w.period \in Periods
                           /\ \E cp \in points[w.period] : cp.row_count = w.count
    /\ \A v, w \in written : v.period = w.period => v = w
    /\ \A c \in Callers : Flagged(c) =>
         /\ calls[c].stmt.period \in Periods
         /\ calls[c].stmt.cp \in points[calls[c].stmt.period]
         /\ \A w \in written : w.period # calls[c].stmt.period
    /\ \A c, d \in Callers :
         Flagged(c) /\ Flagged(d) /\ calls[c].stmt.period = calls[d].stmt.period => c = d

\* No statement takes a checkpoint away.
LEMMA PointsGrow ==
    ASSUME TablesOK, NEW stmt \in Stmts, Executes(stmt)
    PROVE  \A p \in Periods : points[p] \subseteq points'[p]
  <1>1. CASE UNCHANGED points
    BY <1>1
  <1>2. CASE stmt.proc = "save_checkpoint" /\ SaveCheckpoint(stmt.period, stmt.cp)
    BY <1>2, StmtKinds DEF SaveCheckpoint, TablesOK
  <1>3. QED
    BY <1>1, <1>2 DEF Executes, AppendRecord, PurgeExpired, memoryVars

LEMMA StepKeepsAnnounced ==
    ASSUME TablesOK, CallsOK, AnnouncedInv, CallStep
    PROVE  AnnouncedInv'
  <1>1. ASSUME \A p \in Periods : points[p] \subseteq points'[p],
               \A d \in Callers : Flagged(d)' => Flagged(d) /\ calls'[d] = calls[d],
               UNCHANGED written
        PROVE  AnnouncedInv'
    BY <1>1 DEF AnnouncedInv
  <1>2. ASSUME NEW c \in Callers, NEW new, new.pc # "ok",
               calls' = [calls EXCEPT ![c] = new]
        PROVE  \A d \in Callers : Flagged(d)' => Flagged(d) /\ calls'[d] = calls[d]
    <2>1. calls'[c] = new /\ \A d \in Callers : d # c => calls'[d] = calls[d]
      BY <1>2 DEF CallsOK
    <2>2. QED
      BY <1>2, <2>1 DEF Flagged, Answered
  <1>3. ASSUME NEW c \in Callers, CallRuns(c) PROVE AnnouncedInv'
    <2> DEFINE stmt == calls[c].stmt
    <2>1. stmt \in Stmts /\ Executes(stmt) /\ calls[c].pc = "sent"
      BY <1>3 DEF CallRuns, CallsOK
    <2>2. \A p \in Periods : points[p] \subseteq points'[p]
      BY <2>1, PointsGrow
    <2>3. UNCHANGED written
      BY <1>3 DEF CallRuns
    <2>4. /\ calls'[c].stmt = stmt /\ calls'[c].reply = Data(stmt)
          /\ \A d \in Callers : d # c => calls'[d] = calls[d]
      BY <1>3 DEF CallRuns, CallsOK, Calls
    <2> HIDE DEF stmt
    <2>5. CASE ~Flagged(c)'
      <3>1. \A d \in Callers : Flagged(d)' => Flagged(d) /\ calls'[d] = calls[d]
        BY <2>4, <2>5 DEF Flagged, Answered
      <3>2. QED
        BY <1>1, <2>2, <2>3, <3>1
    <2>6. CASE Flagged(c)'
      <3> DEFINE p == stmt.period
                 cp == stmt.cp
      <3>1. stmt.proc = "save_checkpoint" /\ Data(stmt).flag
        BY <2>4, <2>6 DEF Flagged, Answered
      <3>2. p \in Periods /\ points[p] = {}
        BY <2>1, <3>1, DataReplied, StmtKinds
      <3>3. SaveCheckpoint(p, cp)
        BY <2>1, <3>1 DEF Executes
      <3> HIDE DEF p, cp
      <3>4. points'[p] = {cp}
        BY <3>2, <3>3 DEF SaveCheckpoint, TablesOK
      <3>5. \A w \in written : w.period # p
        BY <3>2 DEF AnnouncedInv
      <3>6. \A d \in Callers : d # c /\ Flagged(d)' => Flagged(d)
        BY <2>4 DEF Flagged, Answered
      <3>7. \A d \in Callers : d # c /\ Flagged(d)' => calls'[d].stmt.period # p
        BY <2>4, <3>2, <3>6 DEF AnnouncedInv
      <3>8. calls'[c].stmt.period = p /\ calls'[c].stmt.cp = cp
        BY <2>4 DEF p, cp
      <3>9. \A w \in written' : w.period \in Periods
                                 /\ \E x \in points'[w.period] : x.row_count = w.count
        BY <2>2, <2>3 DEF AnnouncedInv
      <3>10. \A v, w \in written' : v.period = w.period => v = w
        BY <2>3 DEF AnnouncedInv
      <3>11. ASSUME NEW d \in Callers, Flagged(d)'
             PROVE  /\ calls'[d].stmt.period \in Periods
                    /\ calls'[d].stmt.cp \in points'[calls'[d].stmt.period]
                    /\ \A w \in written' : w.period # calls'[d].stmt.period
        <4>1. CASE d = c
          BY <2>3, <3>2, <3>4, <3>5, <3>8, <4>1
        <4>2. CASE d # c
          BY <2>2, <2>3, <2>4, <3>6, <3>11, <4>2 DEF AnnouncedInv
        <4>3. QED
          BY <4>1, <4>2
      <3>12. ASSUME NEW d \in Callers, NEW e \in Callers, Flagged(d)', Flagged(e)',
                    calls'[d].stmt.period = calls'[e].stmt.period
             PROVE  d = e
        <4>1. CASE d # c /\ e # c
          BY <2>4, <3>6, <3>12, <4>1 DEF AnnouncedInv
        <4>2. CASE d = c \/ e = c
          BY <3>7, <3>8, <3>12, <4>2
        <4>3. QED
          BY <4>1, <4>2
      <3>13. QED
        BY <3>9, <3>10, <3>11, <3>12 DEF AnnouncedInv
    <2>7. QED
      BY <2>5, <2>6
  <1>4. ASSUME NEW c \in Callers, SaveDone(c) PROVE AnnouncedInv'
    <2> DEFINE stmt == calls[c].stmt
               w0 == [call |-> calls[c].id, period |-> stmt.period, count |-> stmt.cp.row_count]
    <2>1. UNCHANGED points
      BY <1>4 DEF SaveDone, memoryVars
    <2>2. calls' = [calls EXCEPT ![c] = IdleCall] /\ IdleCall.pc # "ok"
      BY <1>4 DEF SaveDone, IdleCall
    <2>3. \A d \in Callers : Flagged(d)' => Flagged(d) /\ calls'[d] = calls[d]
      BY <1>2, <2>2
    <2>4. ~Flagged(c)'
      BY <2>2 DEF Flagged, Answered, CallsOK
    <2>5. CASE ~calls[c].reply.flag
      <3>1. UNCHANGED written
        BY <1>4, <2>5 DEF SaveDone
      <3>2. QED
        BY <1>1, <2>1, <2>3, <3>1
    <2>6. CASE calls[c].reply.flag
      <3>1. written' = written \cup {w0}
        BY <1>4, <2>6 DEF SaveDone
      <3>2. w0.period = stmt.period /\ w0.count = stmt.cp.row_count
        OBVIOUS
      <3>3. Flagged(c)
        BY <1>4, <2>6 DEF SaveDone, Flagged
      <3> HIDE DEF w0
      <3>4. /\ w0.period \in Periods /\ \E cp \in points[w0.period] : cp.row_count = w0.count
            /\ \A w \in written : w.period # w0.period
        BY <3>2, <3>3 DEF AnnouncedInv
      <3>5. \A d \in Callers : Flagged(d)' => calls[d].stmt.period # w0.period
        BY <2>3, <2>4, <3>2, <3>3 DEF AnnouncedInv
      <3>6. \A w \in written' : w.period \in Periods
                                 /\ \E cp \in points'[w.period] : cp.row_count = w.count
        BY <2>1, <3>1, <3>4 DEF AnnouncedInv
      <3>7. \A v, w \in written' : v.period = w.period => v = w
        BY <3>1, <3>4 DEF AnnouncedInv
      <3>8. ASSUME NEW d \in Callers, Flagged(d)'
            PROVE  /\ calls'[d].stmt.period \in Periods
                   /\ calls'[d].stmt.cp \in points'[calls'[d].stmt.period]
                   /\ \A w \in written' : w.period # calls'[d].stmt.period
        BY <2>1, <2>3, <3>1, <3>5, <3>8 DEF AnnouncedInv
      <3>9. \A d, e \in Callers :
              Flagged(d)' /\ Flagged(e)' /\ calls'[d].stmt.period = calls'[e].stmt.period => d = e
        BY <2>3 DEF AnnouncedInv
      <3>10. QED
        BY <3>6, <3>7, <3>8, <3>9 DEF AnnouncedInv
    <2>7. QED
      BY <2>5, <2>6
  <1>5. ASSUME NEW stmt \in late, LateRuns(stmt) PROVE AnnouncedInv'
    <2>1. stmt \in Stmts /\ Executes(stmt) /\ UNCHANGED <<calls, written>>
      BY <1>5 DEF LateRuns, CallsOK
    <2>2. \A p \in Periods : points[p] \subseteq points'[p]
      BY <2>1, PointsGrow
    <2>3. \A d \in Callers : Flagged(d)' => Flagged(d) /\ calls'[d] = calls[d]
      BY <2>1 DEF Flagged, Answered
    <2>4. QED
      BY <1>1, <2>1, <2>2, <2>3
  <1>6. ASSUME NEW c \in Callers,
               \/ CallFails(c) \/ CallAbandoned(c) \/ Errs(c)
               \/ SaveCall(c) \/ PurgeDone(c) \/ AppendDone(c)
               \/ \E e \in Envelopes : AppendCall(c, e)
               \/ \E p \in Periods : SealsCall(c, p) \/ PurgeCall(c, p)
        PROVE  AnnouncedInv'
    <2>1. UNCHANGED <<points, written>>
      BY <1>6 DEF CallFails, CallAbandoned, Errs, SaveCall, PurgeDone, AppendDone,
                  AppendCall, SealsCall, PurgeCall, memoryVars
    <2>2. /\ calls'[c].pc # "ok"
          /\ \A d \in Callers : d # c => calls'[d] = calls[d]
      BY <1>6 DEF CallFails, CallAbandoned, Errs, SaveCall, PurgeDone, AppendDone,
                  AppendCall, SealsCall, PurgeCall, call, IdleCall, CallsOK, Calls
    <2>3. \A d \in Callers : Flagged(d)' => Flagged(d) /\ calls'[d] = calls[d]
      BY <2>2 DEF Flagged, Answered
    <2>4. QED
      BY <1>1, <2>1, <2>3
  <1>7. QED
    BY <1>3, <1>4, <1>5, <1>6 DEF CallStep

-----------------------------------------------------------------------------
\* The deletions still to be reported: those of purges that have answered,
\* numbered for each caller.
Owed == {x \in Callers \X Nat : /\ Answered(x[1], "purge_expired")
                                /\ x[2] \in 1..calls[x[1]].reply.count}

\* What has been reported and what still will be: no more than what is gone.
OwedInv ==
    /\ IsFiniteSet(Owed)
    /\ reported \in Nat
    /\ reported + Cardinality(Owed) <= made - Len(records)

\* A caller's share.
LEMMA Share ==
    ASSUME NEW c, NEW n \in Nat
    PROVE  IsFiniteSet({c} \X (1..n)) /\ Cardinality({c} \X (1..n)) = n
  <1>1. IsFiniteSet({c}) /\ Cardinality({c}) = 1
    BY FS_Singleton
  <1>2. IsFiniteSet(1..n) /\ Cardinality(1..n) = n
    BY FS_Interval
  <1> DEFINE A == {c}
             B == 1..n
  <1> HIDE DEF A, B
  <1>3. IsFiniteSet(A) /\ Cardinality(A) = 1 /\ IsFiniteSet(B) /\ Cardinality(B) = n
    BY <1>1, <1>2 DEF A, B
  <1>4. IsFiniteSet(A \X B) /\ Cardinality(A \X B) = Cardinality(A) * Cardinality(B)
    BY <1>3, FS_Product, Zenon
  <1>5. Cardinality(A) * Cardinality(B) = n
    BY <1>3
  <1>6. QED
    BY <1>4, <1>5, Zenon DEF A, B

\* Running a statement leaves at least as many rows gone; a purge, exactly as
\* many more as it answers.
LEMMA RunFrees ==
    ASSUME TablesOK, NEW stmt \in Stmts, Executes(stmt)
    PROVE  /\ made - Len(records) <= made' - Len(records')
           /\ stmt.proc = "purge_expired" =>
                made' - Len(records') = made - Len(records) + Data(stmt).count
  <1>1. SliceOK /\ IndexOK /\ made \in Nat /\ Len(records) \in Nat
    BY SliceDomain DEF TablesOK, SliceOK
  <1>2. CASE stmt.proc = "append_record" /\ AppendRecord(stmt.env)
    <2> DEFINE e == stmt.env
    <2>1. e \in EnvelopeType
      BY <1>2, StmtKinds DEF RowEnvelopes
    <2> HIDE DEF e
    <2>2. AppendRecord(e)
      BY <1>2 DEF e
    <2>3. \/ UNCHANGED <<records, made>>
          \/ /\ records' = Append(records, NewRow(e)) /\ NewRow(e) \in RecordType
             /\ made' = made + 1
      BY <1>1, <2>1, <2>2, AppendStores
    <2>4. CASE UNCHANGED <<records, made>>
      BY <1>1, <1>2, <2>4
    <2>5. CASE /\ records' = Append(records, NewRow(e)) /\ NewRow(e) \in RecordType
               /\ made' = made + 1
      <3>1. Len(records') = Len(records) + 1
        BY <1>1, <2>5 DEF SliceOK
      <3>2. QED
        BY <1>1, <1>2, <2>5, <3>1
    <2>6. QED
      BY <2>3, <2>4, <2>5
  <1>3. CASE stmt.proc # "purge_expired" /\ UNCHANGED <<records, made>>
    BY <1>1, <1>3
  <1>4. CASE stmt.proc = "purge_expired" /\ PurgeExpired(stmt.cutoff)
    <2> DEFINE cutoff == stmt.cutoff
               keep == {i \in DOMAIN records : Kept(records[i], cutoff)}
               gone == {i \in DOMAIN records : ~Kept(records[i], cutoff)}
    <2>1. made' = made
      BY <1>4 DEF PurgeExpired
    <2>2. Len(records') = Cardinality(keep)
      BY <1>1, <1>4, PurgeLeaves
    <2>3. Data(stmt).count = Cardinality(gone)
      BY <1>4, DataReplied
    <2>4. keep = DOMAIN records \ gone /\ DOMAIN records \cap gone = gone
      OBVIOUS
    <2>5. IsFiniteSet(DOMAIN records) /\ Cardinality(DOMAIN records) = Len(records)
      BY <1>1, SliceDomain
    <2>6. gone \in SUBSET (DOMAIN records)
      OBVIOUS
    <2> HIDE DEF keep, gone
    <2>7. IsFiniteSet(gone) /\ Cardinality(gone) \in Nat
      BY <2>5, <2>6, FS_Subset, FS_CardinalityType
    <2>8. Cardinality(keep) = Len(records) - Cardinality(gone)
      <3> DEFINE D == DOMAIN records
      <3> HIDE DEF D
      <3>1. IsFiniteSet(D) /\ keep = D \ gone /\ D \cap gone = gone /\ Cardinality(D) = Len(records)
        BY <2>4, <2>5 DEF D
      <3>2. Cardinality(D \ gone) = Cardinality(D) - Cardinality(D \cap gone)
        BY <3>1, FS_Difference, Zenon
      <3>3. QED
        BY <3>1, <3>2
    <2>9. QED
      BY <1>1, <1>4, <2>1, <2>2, <2>3, <2>7, <2>8
  <1>5. QED
    BY <1>2, <1>3, <1>4 DEF Executes, SaveCheckpoint, memoryVars

LEMMA StepKeepsOwed ==
    ASSUME TablesOK, CallsOK, OwedInv, CallStep
    PROVE  OwedInv'
  <1>1. /\ made \in Nat /\ Len(records) \in Nat
        /\ IsFiniteSet(Owed) /\ Cardinality(Owed) \in Nat
        /\ reported \in Nat /\ reported + Cardinality(Owed) <= made - Len(records)
    BY SliceDomain, FS_CardinalityType DEF TablesOK, SliceOK, OwedInv
  <1>2. made' \in Nat /\ Len(records') \in Nat
    <2>1. TablesOK'
      <3>1. CASE UNCHANGED memoryVars
        BY <3>1 DEF memoryVars, TablesOK, SliceOK, IndexOK, IndexAgrees
      <3>2. QED
        BY <3>1, TablesMove, RunKeepsTables
    <2>2. made' \in Nat /\ records' \in Seq(RecordType)
      BY <2>1 DEF TablesOK, SliceOK
    <2>3. QED
      BY <2>2
  <1>3. ASSUME Owed' \subseteq Owed, UNCHANGED reported,
               made - Len(records) <= made' - Len(records')
        PROVE  OwedInv'
    <2>1. Owed' \in SUBSET Owed
      BY <1>3
    <2>2. IsFiniteSet(Owed') /\ Cardinality(Owed') <= Cardinality(Owed)
      BY <1>1, <2>1, FS_Subset
    <2>3. Cardinality(Owed') \in Nat
      BY <2>2, FS_CardinalityType
    <2>4. reported' + Cardinality(Owed') <= made' - Len(records')
      BY <1>1, <1>2, <1>3, <2>2, <2>3
    <2>5. QED
      BY <1>1, <1>3, <2>2, <2>4 DEF OwedInv
  <1>4. ASSUME NEW c \in Callers, CallRuns(c) PROVE OwedInv'
    <2> DEFINE stmt == calls[c].stmt
               n == Data(stmt).count
    <2>1. stmt \in Stmts /\ Executes(stmt) /\ calls[c].pc = "sent"
      BY <1>4 DEF CallRuns, CallsOK
    <2>2. /\ calls'[c].stmt = stmt /\ calls'[c].reply = Data(stmt) /\ calls'[c].pc = "ok"
          /\ \A d \in Callers : d # c => calls'[d] = calls[d]
      BY <1>4 DEF CallRuns, CallsOK, Calls
    <2>3. UNCHANGED reported
      BY <1>4 DEF CallRuns
    <2>4. n \in Nat
      BY <2>1, DataReplied DEF Replies
    <2> HIDE DEF stmt
    <2>5. CASE stmt.proc # "purge_expired"
      <3>1. Owed' \subseteq Owed
        BY <2>2, <2>5 DEF Owed, Answered
      <3>2. QED
        BY <1>3, <2>1, <2>3, <3>1, RunFrees
    <2>6. CASE stmt.proc = "purge_expired"
      <3>1. calls'[c].reply.count = n
        BY <2>2
      <3> HIDE DEF n
      <3>2. Owed' = Owed \cup ({c} \X (1..n))
        <4>1. ASSUME NEW x \in Owed' PROVE x \in Owed \cup ({c} \X (1..n))
          BY <2>2, <3>1 DEF Owed, Answered
        <4>2. ASSUME NEW x \in Owed PROVE x \in Owed'
          BY <2>1, <2>2 DEF Owed, Answered
        <4>3. ASSUME NEW x \in {c} \X (1..n) PROVE x \in Owed'
          BY <2>2, <2>4, <2>6, <3>1 DEF Owed, Answered
        <4>4. QED
          BY <4>1, <4>2, <4>3
      <3>3. Owed \cap ({c} \X (1..n)) = {}
        BY <2>1 DEF Owed, Answered
      <3>4. IsFiniteSet({c} \X (1..n)) /\ Cardinality({c} \X (1..n)) = n
        BY <2>4, Share
      <3>5. IsFiniteSet(Owed') /\ Cardinality(Owed') = Cardinality(Owed) + n
        <4>1. Cardinality({}) = 0
          BY FS_EmptySet
        <4> DEFINE share == {c} \X (1..n)
        <4> HIDE DEF share
        <4>2. IsFiniteSet(share) /\ Cardinality(share) = n /\ Owed \cap share = {}
              /\ Owed' = Owed \cup share
          BY <3>2, <3>3, <3>4 DEF share
        <4>3. IsFiniteSet(Owed \cup share)
              /\ Cardinality(Owed \cup share)
                   = Cardinality(Owed) + Cardinality(share) - Cardinality(Owed \cap share)
          BY <1>1, <4>2, FS_Union
        <4>4. Cardinality(Owed \cap share) = 0
          BY <4>1, <4>2
        <4>5. Cardinality(Owed) + Cardinality(share) - Cardinality(Owed \cap share)
                = Cardinality(Owed) + n
          BY <1>1, <2>4, <4>2, <4>4
        <4>6. QED
          BY <4>2, <4>3, <4>5
      <3>6. made' - Len(records') = made - Len(records) + n
        BY <2>1, <2>6, RunFrees DEF n
      <3>7. reported' + Cardinality(Owed') <= made' - Len(records')
        BY <1>1, <1>2, <2>3, <2>4, <3>5, <3>6
      <3>8. QED
        BY <1>1, <2>3, <3>5, <3>7 DEF OwedInv
    <2>7. QED
      BY <2>5, <2>6
  <1>5. ASSUME NEW c \in Callers, PurgeDone(c) PROVE OwedInv'
    <2> DEFINE n == calls[c].reply.count
    <2>1. /\ Answered(c, "purge_expired") /\ reported' = reported + n
          /\ UNCHANGED <<records, made>>
      BY <1>5 DEF PurgeDone, memoryVars
    <2>2. n \in Nat
      BY DEF CallsOK, Calls, Replies
    <2>3. calls'[c].pc = "idle" /\ \A d \in Callers : d # c => calls'[d] = calls[d]
      BY <1>5 DEF PurgeDone, IdleCall, CallsOK
    <2> DEFINE share == {c} \X (1..n)
    <2>4. Owed' = Owed \ share
      <3>1. ASSUME NEW x \in Owed' PROVE x \in Owed \ share
        BY <2>3 DEF Owed, Answered
      <3>2. ASSUME NEW x \in Owed \ share PROVE x \in Owed'
        BY <2>3 DEF Owed, Answered
      <3>3. QED
        BY <3>1, <3>2
    <2>5. Owed \cap share = share
      BY <2>1, <2>2 DEF Owed
    <2>6. Cardinality(share) = n
      BY <2>2, Share
    <2> HIDE DEF share, n
    <2>7. IsFiniteSet(Owed') /\ Cardinality(Owed') = Cardinality(Owed) - n
      BY <1>1, <2>4, <2>5, <2>6, FS_Difference
    <2>8. reported' + Cardinality(Owed') <= made' - Len(records')
      BY <1>1, <2>1, <2>2, <2>7
    <2>9. QED
      BY <1>1, <2>1, <2>2, <2>7, <2>8 DEF OwedInv
  <1>6. ASSUME NEW stmt \in late, LateRuns(stmt) PROVE OwedInv'
    <2>1. stmt \in Stmts /\ Executes(stmt) /\ UNCHANGED <<calls, reported>>
      BY <1>6 DEF LateRuns, CallsOK
    <2>2. Owed' = Owed
      BY <2>1 DEF Owed, Answered
    <2>3. QED
      BY <1>3, <2>1, <2>2, RunFrees
  <1>7. ASSUME NEW c \in Callers,
               \/ CallFails(c) \/ CallAbandoned(c) \/ Errs(c)
               \/ SaveCall(c) \/ SaveDone(c) \/ AppendDone(c)
               \/ \E e \in Envelopes : AppendCall(c, e)
               \/ \E p \in Periods : SealsCall(c, p) \/ PurgeCall(c, p)
        PROVE  OwedInv'
    <2>1. UNCHANGED <<records, made, reported>>
      BY <1>7 DEF CallFails, CallAbandoned, Errs, SaveCall, SaveDone, AppendDone,
                  AppendCall, SealsCall, PurgeCall, memoryVars
    <2>2. /\ calls'[c].pc # "ok"
          /\ \A d \in Callers : d # c => calls'[d] = calls[d]
      BY <1>7 DEF CallFails, CallAbandoned, Errs, SaveCall, SaveDone, AppendDone,
                  AppendCall, SealsCall, PurgeCall, call, IdleCall, CallsOK, Calls
    <2>3. Owed' \subseteq Owed
      BY <2>2 DEF Owed, Answered
    <2>4. QED
      BY <1>1, <1>3, <2>1, <2>3
  <1>8. QED
    BY <1>4, <1>5, <1>6, <1>7 DEF CallStep

-----------------------------------------------------------------------------
\* What the service stored, it sealed; and every seal in the table is one of
\* these, whatever row it is now under.
AcceptedInv ==
    /\ \A a \in accepted : \E e \in EnvelopeType : a = [env |-> e, seal |-> Seal(e)]
    /\ \A i \in DOMAIN records : \E a \in accepted : records[i].seal = a.seal

LEMMA ServiceKeepsAccepted ==
    ASSUME TablesOK, CallsOK, AcceptedInv, ServiceStep
    PROVE  AcceptedInv'
  <1> DEFINE fresh == {Content(r) : r \in {q \in Range(records') : q.row_id > made}}
  <1>1. accepted' = accepted \cup fresh
    BY DEF ServiceStep
  <1>2. SliceOK /\ IndexOK /\ made \in Nat
    BY DEF TablesOK, SliceOK
  <1>3. \A r \in Range(records) : ~(r.row_id > made)
    <2>1. \A i \in DOMAIN records : records[i].row_id <= made /\ records[i].row_id \in Nat
      BY <1>2, SliceDomain DEF SliceOK, RecordType
    <2>2. QED
      BY <1>2, <2>1 DEF Range
  <1>4. \A r \in Range(records) : \E a \in accepted : r.seal = a.seal
    BY DEF AcceptedInv, Range
  <1>5. CASE Range(records') \subseteq Range(records)
    <2>1. fresh = {}
      BY <1>3, <1>5
    <2>2. QED
      BY <1>1, <1>4, <1>5, <2>1 DEF AcceptedInv, Range
  <1>6. ASSUME NEW e \in EnvelopeType, Range(records') = Range(records) \cup {NewRow(e)}
        PROVE  AcceptedInv'
    <2> DEFINE x == NewRow(e)
    <2>1. /\ x.row_id = made + 1 /\ x.seal = Seal(e)
          /\ Content(x) = [env |-> e, seal |-> Seal(e)]
      BY DEF NewRow, Content
    <2> HIDE DEF x
    <2>2. fresh = {Content(x)}
      BY <1>2, <1>3, <1>6, <2>1 DEF x
    <2>3. Content(x).seal = x.seal
      BY DEF Content
    <2>4. \A a \in accepted' : \E f \in EnvelopeType : a = [env |-> f, seal |-> Seal(f)]
      BY <1>1, <2>1, <2>2 DEF AcceptedInv
    <2>5. \A r \in Range(records') : \E a \in accepted' : r.seal = a.seal
      BY <1>1, <1>4, <1>6, <2>2, <2>3 DEF x
    <2>6. QED
      BY <2>4, <2>5 DEF AcceptedInv, Range
  <1>7. ASSUME NEW stmt \in Stmts, Executes(stmt)
        PROVE  AcceptedInv'
    <2>1. CASE stmt.proc = "append_record" /\ AppendRecord(stmt.env)
      <3> DEFINE e == stmt.env
      <3>1. e \in EnvelopeType
        BY <2>1, StmtKinds DEF RowEnvelopes
      <3> HIDE DEF e
      <3>2. AppendRecord(e)
        BY <2>1 DEF e
      <3>3. UNCHANGED records \/ Range(records') = Range(records) \cup {NewRow(e)}
        BY <1>2, <3>1, <3>2, AppendStores
      <3>4. QED
        BY <1>5, <1>6, <3>1, <3>3
    <2>2. CASE UNCHANGED records
      BY <1>5, <2>2
    <2>3. CASE stmt.proc = "purge_expired" /\ PurgeExpired(stmt.cutoff)
      <3> DEFINE cutoff == stmt.cutoff
      <3> HIDE DEF cutoff
      <3>1. PurgeExpired(cutoff)
        BY <2>3 DEF cutoff
      <3>2. Range(records') = {r \in Range(records) : Kept(r, cutoff)}
        BY <1>2, <3>1, PurgeLeaves
      <3>3. QED
        BY <1>5, <3>2
    <2>4. QED
      BY <1>7, <2>1, <2>2, <2>3 DEF Executes, SaveCheckpoint, memoryVars
  <1>8. CASE UNCHANGED memoryVars
    BY <1>5, <1>8 DEF memoryVars
  <1>9. QED
    BY <1>7, <1>8, TablesMove DEF ServiceStep

-----------------------------------------------------------------------------
\* The inductive invariant.
InspectionInv == TablesOK /\ CallsOK /\ AnnouncedInv /\ OwedInv /\ AcceptedInv

LEMMA InspectionInit == Init => InspectionInv
  <1> SUFFICES ASSUME Init PROVE InspectionInv
    OBVIOUS
  <1> DEFINE row(i) == [row_id |-> i, seq |-> i, env |-> Sanitize(Existing[i]),
                        seal |-> Seal(Sanitize(Existing[i]))]
             n == Len(Existing)
  <1>1. /\ records = [i \in DOMAIN Existing |-> row(i)] /\ made = n
        /\ index = [id \in EventIDs |-> {r \in Range(records) : r.env.event_id = id}]
        /\ points = [p \in Periods |-> {}]
        /\ accepted = {Content(r) : r \in Range(records)}
    BY DEF Init
  <1>2. n \in Nat /\ DOMAIN Existing = 1..n
        /\ \A i \in 1..n : Existing[i] \in EnvelopeType /\ Existing[i].data_subjects # {}
    BY InspectionAssumption
  <1>3. ASSUME NEW i \in 1..n
        PROVE  /\ row(i) \in RecordType
               /\ row(i).env \in RowEnvelopes /\ row(i).env.event_id = Existing[i].event_id
               /\ row(i).row_id = i /\ row(i).seal = Seal(row(i).env)
    <2>1. /\ Sanitize(Existing[i]) \in EnvelopeType
          /\ Sanitize(Existing[i]).event_id = Existing[i].event_id
          /\ Sanitize(Existing[i]).data_subjects # {}
      BY <1>2, SanitizeKeepsType
    <2>2. Seal(Sanitize(Existing[i])) \in Seals
      BY <2>1 DEF Seals
    <2>3. i \in Nat
      BY <1>2
    <2>4. QED
      BY <2>1, <2>2, <2>3 DEF RecordType, RowEnvelopes
  <1> HIDE DEF row
  <1>4. /\ records \in Seq(RecordType) /\ DOMAIN records = 1..n /\ Len(records) = n
        /\ \A i \in 1..n : records[i] = row(i)
    <2>1. records \in [1..n -> RecordType]
      BY <1>1, <1>2, <1>3
    <2>2. QED
      BY <1>1, <1>2, <2>1
  <1>5. SliceOK
    <2>1. \A i \in 1..n : records[i].row_id <= n
      BY <1>2, <1>3, <1>4
    <2>2. \A i, j \in 1..n : records[i].env.event_id = records[j].env.event_id => i = j
      BY <1>2, <1>3, <1>4, InspectionAssumption
    <2>3. QED
      BY <1>1, <1>2, <1>4, <2>1, <2>2 DEF SliceOK
  <1>6. TablesOK
    <2>1. IndexOK
      BY <1>1 DEF IndexOK, IndexAgrees
    <2>2. QED
      BY <1>1, <1>3, <1>4, <1>5, <2>1 DEF TablesOK
  <1>7. CallsOK /\ AnnouncedInv
    <2>1. IdleCall \in Calls /\ IdleCall.pc = "idle"
      BY DEF IdleCall, Calls, NoData, Replies
    <2>2. /\ calls = [c \in Callers |-> IdleCall] /\ late = {} /\ sent = 0 /\ written = {}
      BY DEF Init, CallsInit
    <2> HIDE DEF n
    <2>3. CallsOK
      BY <2>1, <2>2 DEF CallsOK, Answered
    <2>4. AnnouncedInv
      BY <2>1, <2>2 DEF AnnouncedInv, Flagged, Answered
    <2>5. QED
      BY <2>3, <2>4
  <1>8. OwedInv
    <2>1. reported = 0 /\ \A c \in Callers : calls[c].pc = "idle"
      BY DEF Init, CallsInit, IdleCall
    <2>2. Owed = {}
      BY <2>1 DEF Owed, Answered
    <2>3. IsFiniteSet({}) /\ Cardinality({}) = 0
      BY FS_EmptySet
    <2>4. QED
      BY <1>1, <1>2, <1>4, <2>1, <2>2, <2>3 DEF OwedInv
  <1>9. AcceptedInv
    <2>1. ASSUME NEW r \in Range(records)
          PROVE  /\ r.env \in EnvelopeType /\ r.seal = Seal(r.env)
                 /\ Content(r) = [env |-> r.env, seal |-> r.seal] /\ Content(r).seal = r.seal
      <3>1. PICK i \in 1..n : r = row(i)
        BY <1>4 DEF Range
      <3>2. QED
        BY <1>3, <3>1 DEF RowEnvelopes, Content
    <2>2. \A a \in accepted : \E e \in EnvelopeType : a = [env |-> e, seal |-> Seal(e)]
      BY <1>1, <2>1
    <2>3. \A i \in DOMAIN records : \E a \in accepted : records[i].seal = a.seal
      BY <1>1, <2>1 DEF Range
    <2>4. QED
      BY <2>2, <2>3 DEF AcceptedInv
  <1>10. QED
    BY <1>6, <1>7, <1>8, <1>9 DEF InspectionInv

LEMMA InspectionStep == InspectionInv /\ [Next]_vars => InspectionInv'
  <1> SUFFICES ASSUME InspectionInv, [Next]_vars PROVE InspectionInv'
    OBVIOUS
  <1> USE DEF InspectionInv
  <1>1. CASE ServiceStep
    <2>1. CallStep
      BY <1>1 DEF ServiceStep
    <2>2. TablesOK'
      <3>1. CASE UNCHANGED memoryVars
        BY <3>1 DEF memoryVars, TablesOK, SliceOK, IndexOK, IndexAgrees
      <3>2. QED
        BY <2>1, <3>1, TablesMove, RunKeepsTables
    <2>3. QED
      BY <1>1, <2>1, <2>2, StepKeepsCalls, StepKeepsAnnounced, StepKeepsOwed,
         ServiceKeepsAccepted
  <1>2. CASE Alteration
    <2>1. PICK rows : Altered(rows) /\ Alter(rows)
      BY <1>2, AlterationLeaves
    <2>2. TablesOK'
      BY <2>1, AlterKeepsTables
    <2>3. /\ records' = rows /\ sent' = sent + 1
          /\ UNCHANGED <<points, made, calls, late, written, reported, accepted>>
      BY <2>1 DEF Alter
    <2>4. CallsOK'
      BY <2>3 DEF CallsOK, Answered
    <2>5. AnnouncedInv'
      BY <2>3 DEF AnnouncedInv, Flagged, Answered
    <2>6. OwedInv'
      <3>1. Owed' = Owed
        BY <2>3 DEF Owed, Answered
      <3>2. /\ Len(rows) \in Nat /\ Len(records) \in Nat /\ Len(rows) <= Len(records)
            /\ made \in Nat /\ Cardinality(Owed) \in Nat
        BY <2>1, SliceDomain, FS_CardinalityType DEF Altered, TablesOK, SliceOK, OwedInv
      <3>3. reported + Cardinality(Owed) <= made - Len(rows)
        BY <3>2 DEF OwedInv
      <3>4. QED
        BY <2>3, <3>1, <3>3 DEF OwedInv
    <2>7. AcceptedInv'
      BY <2>1, <2>3 DEF AcceptedInv, Altered
    <2>8. QED
      BY <2>2, <2>4, <2>5, <2>6, <2>7
  <1>3. CASE UNCHANGED vars
    <2>1. UNCHANGED <<records, index, points, held, made, calls, late, sent, written,
                      reported, accepted>>
      BY <1>3 DEF vars, memoryVars, callVars
    <2>2. TablesOK'
      BY <2>1 DEF TablesOK, SliceOK, IndexOK, IndexAgrees
    <2>3. CallsOK' /\ AnnouncedInv'
      BY <2>1 DEF CallsOK, Answered, AnnouncedInv, Flagged
    <2>4. OwedInv' /\ AcceptedInv'
      BY <2>1 DEF OwedInv, Owed, Answered, AcceptedInv
    <2>5. QED
      BY <2>2, <2>3, <2>4
  <1>4. QED
    BY <1>1, <1>2, <1>3 DEF Next

LEMMA InspectionHolds == Spec => []InspectionInv
  BY InspectionInit, InspectionStep, PTL DEF Spec

\* SaveCheckpoint's created flag names one announcer for each period, however
\* often the call is repeated, times out and runs late.
THEOREM OneAnnouncement == Spec => []AnnouncedOnce
  <1>1. InspectionInv => AnnouncedOnce
    BY DEF InspectionInv, AnnouncedInv, AnnouncedOnce
  <1>2. QED
    BY <1>1, InspectionHolds, PTL

\* The purged counts that the service reports add up to no more than the rows
\* that are gone, when purges overlap, fail after they ran, or run late.
THEOREM PurgesHonest == Spec => []PurgesNotOverReported
  <1>1. InspectionInv => PurgesNotOverReported
    <2> SUFFICES ASSUME InspectionInv PROVE PurgesNotOverReported
      OBVIOUS
    <2>1. /\ Cardinality(Owed) \in Nat /\ reported \in Nat /\ made \in Nat
          /\ Len(records) \in Nat /\ reported + Cardinality(Owed) <= made - Len(records)
      BY SliceDomain, FS_CardinalityType DEF InspectionInv, TablesOK, SliceOK, OwedInv
    <2>2. QED
      BY <2>1 DEF PurgesNotOverReported
  <1>2. QED
    BY <1>1, InspectionHolds, PTL

-----------------------------------------------------------------------------
\* HMAC being a free constructor and the projection complete, a seal is that
\* of one envelope.
LEMMA SealInjective ==
    ASSUME NEW e \in EnvelopeType, NEW f \in EnvelopeType, Seal(e) = Seal(f)
    PROVE  e = f
  <1>1. canonical(e) = canonical(f)
    BY DEF Seal
  <1>2. /\ e.event_id = f.event_id /\ e.occurred_at = f.occurred_at
        /\ e.data_subjects = f.data_subjects /\ e.attributes = f.attributes
    BY <1>1 DEF canonical
  <1>3. QED
    BY <1>2 DEF EnvelopeType

\* A row's own seal verifies just when the row is as the service stored one.
LEMMA VerifiedIsAuthentic ==
    ASSUME InspectionInv, NEW r \in Range(records)
    PROVE  Verify(r.env, r.seal) <=> Authentic(r)
  <1>1. r.env \in EnvelopeType
    BY SliceDomain DEF InspectionInv, TablesOK
  <1>2. PICK a \in accepted : r.seal = a.seal
    BY DEF InspectionInv, AcceptedInv, Range
  <1>3. ASSUME Verify(r.env, r.seal) PROVE Authentic(r)
    <2>1. PICK e \in EnvelopeType : a = [env |-> e, seal |-> Seal(e)]
      BY DEF InspectionInv, AcceptedInv
    <2>2. Seal(r.env) = Seal(e)
      BY <1>2, <1>3, <2>1 DEF Verify
    <2>3. r.env = e
      BY <1>1, <2>2, SealInjective
    <2>4. Content(r) = a
      BY <1>2, <2>1, <2>3 DEF Content
    <2>5. QED
      BY <2>4 DEF Authentic
  <1>4. ASSUME Authentic(r) PROVE Verify(r.env, r.seal)
    <2>1. PICK e \in EnvelopeType : Content(r) = [env |-> e, seal |-> Seal(e)]
      BY <1>4 DEF Authentic, InspectionInv, AcceptedInv
    <2>2. r.env = e /\ r.seal = Seal(e)
      BY <2>1 DEF Content
    <2>3. QED
      BY <2>2 DEF Verify
  <1>5. QED
    BY <1>3, <1>4

\* Bounds and limits left out of a call are what the procedure defaults them to.
LEMMA OptionalBounds ==
    ASSUME NEW s, NEW from \in {ZeroTime} \cup Time, NEW limit \in Nat
    PROVE  PostgresBySubject(s, from, ZeroTime, limit)
             = BySubject(s, IF from = ZeroTime THEN 0 ELSE from, MaxTime, limit)
  <1> DEFINE in == SubjectInput(s, from, ZeroTime, limit)
             low == IF from = ZeroTime THEN 0 ELSE from
  <1>1. /\ in.subject = s /\ in.to = {}
        /\ in.from = (IF from = ZeroTime THEN {} ELSE {from})
        /\ in.limit = (IF limit > 0 THEN {limit} ELSE {})
    BY DEF SubjectInput
  <1>2. \A x : (CHOOSE t \in {x} : TRUE) = x
    OBVIOUS
  <1>3. (IF in.from = {} THEN 0 ELSE CHOOSE t \in in.from : TRUE) = low
    BY <1>1, <1>2
  <1>4. (IF in.limit = {} THEN 0 ELSE CHOOSE m \in in.limit : TRUE) = limit
    BY <1>1, <1>2
  <1> HIDE DEF in, low
  <1>5. records_by_subject(in) = BySubject(s, low, MaxTime, limit)
    BY <1>1, <1>3, <1>4 DEF records_by_subject
  <1>6. QED
    BY <1>5 DEF PostgresBySubject, in, low

\* A DSAR answer's integrity marks are right, row by row, in every state that
\* purges, retries, late statements and alterations lead to.
THEOREM MarksAreRight == Spec => []FlaggedExactly
  <1>1. InspectionInv => FlaggedExactly
    <2> SUFFICES ASSUME InspectionInv, NEW s \in Subjects, NEW from \in {ZeroTime} \cup Time
                 PROVE  LET out == subjectRecords(s, from, ZeroTime, 0) IN
                        \A k \in DOMAIN out : out[k].integrity = "ok" <=> Authentic(out[k].row)
      BY DEF FlaggedExactly
    <2> DEFINE low == IF from = ZeroTime THEN 0 ELSE from
               recs == BySubject(s, low, MaxTime, 0)
               out == subjectRecords(s, from, ZeroTime, 0)
    <2>1. PostgresBySubject(s, from, ZeroTime, 0) = recs
      BY OptionalBounds
    <2>2. Range(recs) \subseteq Range(records)
      BY AnswerIsEarliest DEF InspectionInv, TablesOK, Matching
    <2> HIDE DEF recs
    <2>3. out = [k \in DOMAIN recs |->
                   [row |-> recs[k],
                    integrity |-> IF Verify(recs[k].env, recs[k].seal) THEN "ok" ELSE "failed"]]
      BY <2>1 DEF subjectRecords
    <2>4. \A k \in DOMAIN recs : Verify(recs[k].env, recs[k].seal) <=> Authentic(recs[k])
      BY <2>2, VerifiedIsAuthentic DEF Range
    <2>5. QED
      BY <2>3, <2>4
  <1>2. QED
    BY <1>1, InspectionHolds, PTL

\* A subject has finitely many records.
LEMMA AboutFinite ==
    ASSUME SliceOK, NEW s
    PROVE  IsFiniteSet(About(s))
  <1>1. Range(records) = {records[i] : i \in DOMAIN records}
    BY DEF Range
  <1>2. IsFiniteSet(Range(records))
    BY <1>1, RowsCounted
  <1>3. QED
    BY <1>2, FS_Subset DEF About

\* What verifySubject reads and concludes: all records of the subject if their
\* number is at most the limit, since as many as were checked are then all.
LEMMA VerdictOf ==
    ASSUME InspectionInv, NEW s
    PROVE  LET verdict == verifySubject(s)
               about == About(s)
               read == Range(BySubject(s, 0, MaxTime, VerifyLimit))
           IN /\ read \subseteq about
              /\ verdict.ok <=> \A r \in read : Authentic(r)
              /\ verdict.checked = Cardinality(read)
              /\ verdict.checked < VerifyLimit => read = about
              /\ Cardinality(about) <= VerifyLimit => read = about
  <1> DEFINE verdict == verifySubject(s)
             about == About(s)
             recs == BySubject(s, 0, MaxTime, VerifyLimit)
             read == Range(recs)
  <1>1. VerifyLimit \in Nat /\ VerifyLimit # 0
    BY InspectionAssumption
  <1>2. PostgresBySubject(s, ZeroTime, ZeroTime, VerifyLimit) = recs
    BY <1>1, OptionalBounds
  <1>3. Matching(s, 0, MaxTime) = about
    <2>1. \A r \in Range(records) : r.env.occurred_at \in 0..MaxTime
      BY SliceDomain DEF InspectionInv, TablesOK, EnvelopeType, Time
    <2>2. QED
      BY <2>1 DEF Matching, About
  <1>4. /\ read \subseteq about
        /\ Len(recs) \in Nat /\ Cardinality(read) = Len(recs)
        /\ Len(recs) = VerifyLimit \/ (Len(recs) < VerifyLimit /\ read = about)
    <2>1. SliceOK
      BY DEF InspectionInv, TablesOK
    <2>2. QED
      BY <1>1, <1>3, <2>1, AnswerIsEarliest
  <1> HIDE DEF recs
  <1>5. verdict = [checked |-> Len(recs),
                   ok |-> \A k \in DOMAIN recs : Verify(recs[k].env, recs[k].seal)]
    BY <1>2 DEF verifySubject
  <1>6. verdict.ok <=> \A k \in DOMAIN recs : Verify(recs[k].env, recs[k].seal)
    BY <1>5
  <1>7. verdict.checked = Len(recs)
    BY <1>5
  <1>8. (\A k \in DOMAIN recs : Verify(recs[k].env, recs[k].seal)) <=> \A r \in read : Authentic(r)
    BY <1>4, VerifiedIsAuthentic DEF Range, About
  <1>9. IsFiniteSet(about)
    BY AboutFinite DEF InspectionInv, TablesOK
  <1> HIDE DEF read, about, verdict
  <1>10. verdict.checked < VerifyLimit => read = about
    BY <1>1, <1>4, <1>7
  <1>11. Cardinality(about) <= VerifyLimit => read = about
    <2>1. /\ Cardinality(read) <= Cardinality(about)
          /\ Cardinality(about) = Cardinality(read) => about = read
          /\ Cardinality(about) \in Nat
      BY <1>4, <1>9, FS_Subset, FS_CardinalityType
    <2>2. QED
      BY <1>1, <1>4, <2>1
  <1>12. QED
    BY <1>4, <1>6, <1>7, <1>8, <1>10, <1>11 DEF read, about, verdict, recs

\* verifySubject's verdict is exact on a subject with no more records than its
\* limit, and ok on one whose records are all as they were stored, however many.
THEOREM VerdictWorth == Spec => []SubjectVerdict
  <1>1. InspectionInv => SubjectVerdict
    <2> SUFFICES ASSUME InspectionInv, NEW s \in Subjects
                 PROVE  LET verdict == verifySubject(s)
                            sound == \A r \in About(s) : Authentic(r)
                        IN /\ Cardinality(About(s)) <= VerifyLimit
                                => /\ verdict.checked = Cardinality(About(s))
                                   /\ verdict.ok <=> sound
                           /\ sound => verdict.ok
      BY DEF SubjectVerdict
    <2> DEFINE read == Range(BySubject(s, 0, MaxTime, VerifyLimit))
    <2>1. /\ read \subseteq About(s)
          /\ verifySubject(s).ok <=> \A r \in read : Authentic(r)
          /\ verifySubject(s).checked = Cardinality(read)
          /\ Cardinality(About(s)) <= VerifyLimit => read = About(s)
      BY VerdictOf
    <2> HIDE DEF read
    <2>2. QED
      BY <2>1
  <1>2. QED
    BY <1>1, InspectionHolds, PTL

-----------------------------------------------------------------------------
\* Every month has a first day.
LEMMA FirstDay ==
    ASSUME NEW p \in Nat
    PROVE  1 \in 1..DaysIn(p)
  <1>1. DaysIn(p) \in {28, 29, 30, 31}
    BY DEF DaysIn
  <1>2. QED
    BY <1>1

\* Asked for by its month, YYYY-MM, a period is found.
LEMMA MonthFindsPeriod ==
    ASSUME NEW p \in Periods
    PROVE  p \in normalizePeriod(MonthText(p))
  <1> DEFINE t == Text(p)
             month == MonthText(p)
             full == month \o <<Dash, 0, 1>>
  <1>1. p \in FourDigitMonths /\ p \in Nat
    BY MemoryAssumption, BeforeIsLess
  <1>2. t \in Seq(Int) /\ Len(t) = 10
    BY <1>1, TextIsString
  <1>3. t[8] = Dash
    BY <1>1, Characters
  <1> HIDE DEF t
  <1>4. month = SubSeq(t, 1, 7)
    BY DEF MonthText, t
  <1>5. month \in Seq(Int) /\ Len(month) = 7 /\ \A k \in 1..7 : month[k] = t[k]
    <2>1. 7 \in Nat /\ 7 <= Len(t)
      BY <1>2
    <2> DEFINE a == SubSeq(t, 1, 7)
    <2>2. a \in Seq(Int) /\ Len(a) = 7 /\ \A k \in 1..7 : a[k] = t[k]
      <3>1. a \in Seq(Int)
        BY <1>2, <2>1, Prefix, Zenon
      <3>2. Len(a) = 7
        <4>1. \A n \in Nat : n <= Len(t) => Len(SubSeq(t, 1, n)) = n
          BY <1>2, Prefix, Zenon
        <4>2. QED
          BY <2>1, <4>1
      <3>3. \A k \in 1..7 : a[k] = t[k]
        BY <1>2, <2>1, Prefix, Zenon
      <3>4. QED
        BY <3>1, <3>2, <3>3, Zenon
    <2> HIDE DEF a
    <2>3. month = a
      BY <1>4 DEF a
    <2>4. QED
      BY <2>2, <2>3, Zenon
  <1> HIDE DEF month
  <1> DEFINE day == <<Dash, 0, 1>>
  <1>6. day \in Seq(Int) /\ Len(day) = 3 /\ day[1] = Dash /\ day[2] = 0 /\ day[3] = 1
    BY DEF Dash
  <1>7. full = month \o day
    OBVIOUS
  <1> HIDE DEF full, day
  <1>8. /\ full \in Seq(Int) /\ Len(full) = Len(month) + Len(day)
        /\ \A k \in 1..Len(month) : full[k] = month[k]
        /\ \A k \in 1..Len(day) : full[Len(month) + k] = day[k]
    <2> DEFINE a == month \o day
    <2>1. /\ a \in Seq(Int) /\ Len(a) = Len(month) + Len(day)
          /\ \A k \in 1..Len(month) : a[k] = month[k]
          /\ \A k \in 1..Len(day) : a[Len(month) + k] = day[k]
      <3>1. a \in Seq(Int)
        BY <1>5, <1>6, Joins, Zenon
      <3>2. Len(a) = Len(month) + Len(day)
        BY <1>5, <1>6, Joins, Zenon
      <3>3. \A k \in 1..Len(month) : a[k] = month[k]
        BY <1>5, <1>6, Joins, Zenon
      <3>4. \A k \in 1..Len(day) : a[Len(month) + k] = day[k]
        <4>1. \A u, v \in Seq(Int) : \A k \in 1..Len(v) : (u \o v)[Len(u) + k] = v[k]
          BY Joins
        <4>2. QED
          BY <1>5, <1>6, <4>1, Zenon
      <3>5. QED
        BY <3>1, <3>2, <3>3, <3>4, Zenon
    <2> HIDE DEF a
    <2>2. full = a
      BY <1>7 DEF a
    <2>3. QED
      BY <2>1, <2>2, Zenon
  <1>9. /\ Len(full) = 10 /\ \A k \in 1..8 : full[k] = t[k]
        /\ full[9] = 0 /\ full[10] = 1
    <2>1. Len(full) = 10 /\ full[7 + 1] = day[1] /\ full[7 + 2] = day[2] /\ full[7 + 3] = day[3]
      BY <1>5, <1>6, <1>8
    <2>2. \A k \in 1..7 : full[k] = t[k]
      BY <1>5, <1>8
    <2>3. full[8] = t[8] /\ full[9] = 0 /\ full[10] = 1
      BY <1>3, <1>6, <2>1
    <2>4. QED
      BY <2>1, <2>2, <2>3
  <1>10. SubSeq(full, 1, 8) = SubSeq(t, 1, 8)
    <2> DEFINE a == SubSeq(full, 1, 8)
               b == SubSeq(t, 1, 8)
    <2>1. 8 \in Nat /\ 8 <= Len(full) /\ 8 <= Len(t)
      BY <1>2, <1>9
    <2>2. a \in [1..8 -> Int] /\ \A k \in 1..8 : a[k] = full[k]
      BY <1>8, <2>1, Prefix, Zenon
    <2>3. b \in [1..8 -> Int] /\ \A k \in 1..8 : b[k] = t[k]
      BY <1>2, <2>1, Prefix, Zenon
    <2> HIDE DEF a, b
    <2>4. a = b
      BY <1>9, <2>2, <2>3
    <2>5. QED
      BY <2>4 DEF a, b
  <1>11. 10 * full[9] + full[10] \in 1..DaysIn(p)
    <2>1. 10 * full[9] + full[10] = 1
      BY <1>9
    <2>2. QED
      BY <1>1, <2>1, FirstDay
  <1>12. normalizePeriod(month) = {q \in Periods : /\ Len(full) = 10
                                                  /\ SubSeq(full, 1, 8) = SubSeq(Text(q), 1, 8)
                                                  /\ full[9] \in 0..9 /\ full[10] \in 0..9
                                                  /\ 10 * full[9] + full[10] \in 1..DaysIn(q)}
    BY <1>5 DEF normalizePeriod, full
  <1>13. QED
    BY <1>9, <1>10, <1>11, <1>12 DEF month, t

\* Clean verdicts on every subject, none cut off, and on a period leave no
\* alteration, loss or substitution of a record of that period unseen.
THEOREM CleanMeansIntact == Spec => []CleanVerdictsMeanIntact
  <1>1. InspectionInv => CleanVerdictsMeanIntact
    <2> SUFFICES ASSUME InspectionInv,
                        \A s \in Subjects : /\ verifySubject(s).ok
                                             /\ verifySubject(s).checked < VerifyLimit,
                        NEW p \in Periods, NEW cp \in points[p],
                        verifyPeriod(MonthText(p)) = {TRUE}
                 PROVE  LET rows == {r \in Range(records) : Period(r.env.occurred_at) = p}
                            covered == Range(cp.seal.seals)
                        IN /\ {r.env : r \in rows}
                                = {o.env : o \in {c \in accepted : c.seal \in covered}}
                           /\ Cardinality(rows) = cp.row_count
      BY DEF CleanVerdictsMeanIntact
    <2> DEFINE rows == {r \in Range(records) : Period(r.env.occurred_at) = p}
               covered == Range(cp.seal.seals)
               seals == SealsForPeriod(p)
               sealed == {c \in accepted : c.seal \in covered}
    <2>1. SliceOK /\ \A r \in Range(records) : r.env \in RowEnvelopes
      BY SliceDomain DEF InspectionInv, TablesOK
    <2>2. ASSUME NEW r \in Range(records) PROVE Authentic(r) /\ r.seal = Seal(r.env)
      <3>1. PICK s \in Subjects : s \in r.env.data_subjects
        BY <2>1 DEF RowEnvelopes, EnvelopeType
      <3> DEFINE about == About(s)
                 read == Range(BySubject(s, 0, MaxTime, VerifyLimit))
      <3>2. read = about /\ \A q \in read : Authentic(q)
        BY VerdictOf
      <3>3. r \in about
        BY <3>1 DEF About
      <3> HIDE DEF about, read
      <3>4. Authentic(r)
        BY <3>2, <3>3
      <3>5. Verify(r.env, r.seal)
        BY <3>4, VerifiedIsAuthentic
      <3>6. QED
        BY <3>4, <3>5 DEF Verify
    <2>3. cp.seal = Checkpoint(seals, Len(seals))
      <3>1. p \in normalizePeriod(MonthText(p))
        BY MonthFindsPeriod
      <3>2. VerifyCheckpoint(seals, Len(seals), cp.seal) \in verifyPeriod(MonthText(p))
        BY <3>1 DEF verifyPeriod
      <3>3. VerifyCheckpoint(seals, Len(seals), cp.seal) = TRUE
        BY <3>2, Zenon
      <3>4. QED
        BY <3>3 DEF VerifyCheckpoint
    <2>4. cp.row_count = cp.seal.n
      <3>1. cp \in SealedPoints
        BY DEF InspectionInv, TablesOK
      <3>2. QED
        BY <3>1 DEF SealedPoints, OverSeals, Checkpoint
    <2>5. cp.row_count = Len(seals) /\ covered = Range(seals)
      BY <2>3, <2>4 DEF Checkpoint
    <2>6. Cardinality(rows) = Len(seals) /\ {r.seal : r \in rows} = Range(seals)
      BY <2>1, RowsOfPeriod
    <2> HIDE DEF seals, covered
    <2>7. ASSUME NEW r \in rows PROVE \E o \in sealed : o.env = r.env
      <3>1. Content(r) \in accepted /\ Content(r).env = r.env /\ Content(r).seal = r.seal
        BY <2>2 DEF Authentic, Content
      <3>2. r.seal \in covered
        BY <2>5, <2>6
      <3>3. QED
        BY <3>1, <3>2
    <2>8. ASSUME NEW o \in sealed PROVE \E r \in rows : o.env = r.env
      <3>1. PICK r \in rows : o.seal = r.seal
        BY <2>5, <2>6
      <3>2. PICK e \in EnvelopeType : o = [env |-> e, seal |-> Seal(e)]
        BY DEF InspectionInv, AcceptedInv
      <3>3. Seal(e) = Seal(r.env) /\ r.env \in EnvelopeType
        BY <2>1, <2>2, <3>1, <3>2 DEF RowEnvelopes
      <3>4. e = r.env
        BY <3>3, SealInjective
      <3>5. QED
        BY <3>2, <3>4
    <2>9. {r.env : r \in rows} = {o.env : o \in sealed}
      BY <2>7, <2>8
    <2>10. QED
      BY <2>5, <2>6, <2>9 DEF covered
  <1>2. QED
    BY <1>1, InspectionHolds, PTL
=============================================================================
