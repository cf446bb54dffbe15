------------------------------ MODULE Postgres ------------------------------
(***************************************************************************)
(* The PostgreSQL backend seen from the service: every operation is one    *)
(* CALL of a stored procedure, sent on a connection that may break.        *)
(*                                                                         *)
(* The procedures are deployed from another repository (external): each    *)
(* runs in a transaction of its own and does to its tables what the        *)
(* in-memory backend does to its slice and maps.  What is modelled here is *)
(* the call: it is sent, runs or fails, and is answered; a caller whose    *)
(* context ends or whose connection breaks gets an error, while the        *)
(* statement it sent may still run later.                                  *)
(***************************************************************************)
EXTENDS Memory

CONSTANTS
    Callers,        \* goroutines of the service that call the store
    MaxCalls,       \* bound: statements ever sent, alterations included
    MaxLate         \* bound: statements that outlive their caller

ASSUME PostgresAssumption ==
    /\ MaxCalls \in Nat
    /\ MaxLate \in Nat

VARIABLES
    calls,          \* of each caller: [pc, id, stmt, reply]
    late,           \* statements still running whose callers have gone
    sent,           \* statements sent so far
    written,        \* checkpoint_written events: [call, period, count]
    reported        \* sum of the purged counts of the retention_purge events

callVars == <<calls, late, sent, written, reported>>

\* Every procedure answers {result, data}; data is kept in one shape.
NoData == [flag |-> FALSE, count |-> 0, seals |-> <<>>]

NoStmt == [proc |-> "none"]

IdleCall == [pc |-> "idle", id |-> 0, stmt |-> NoStmt, reply |-> NoData]

CallsInit ==
    /\ calls = [c \in Callers |-> IdleCall]
    /\ late = {}
    /\ sent = 0
    /\ written = {}
    /\ reported = 0

-----------------------------------------------------------------------------
\* What a statement does to the tables when it runs, in one transaction.
Executes(stmt) ==
    \/ stmt.proc = "append_record" /\ AppendRecord(stmt.env)
    \/ stmt.proc = "seals_for_period" /\ UNCHANGED memoryVars
    \/ stmt.proc = "save_checkpoint" /\ SaveCheckpoint(stmt.period, stmt.cp)
    \/ stmt.proc = "purge_expired" /\ PurgeExpired(stmt.cutoff)

\* What each procedure answers, as SealsForPeriod, SaveCheckpoint and
\* PurgeExpired decode it: the seals and their count, whether the checkpoint
\* was created, how many rows were purged.
SealsData(period) ==
    LET seals == SealsForPeriod(period) IN
    [NoData EXCEPT !.seals = seals, !.count = Len(seals)]

\* Mutant of CreatedData: created is also answered for an existing checkpoint.
CreatedData_Always(period) == [NoData EXCEPT !.flag = TRUE]

CreatedData(period) == [NoData EXCEPT !.flag = points[period] = {}]

\* Mutant of PurgedData: the rows of the cutoff's own month are counted too.
PurgedData_CutoffToo(cutoff) ==
    [NoData EXCEPT !.count =
       Cardinality({i \in DOMAIN records : ~Before(cutoff, PeriodAt(i))
                                            /\ ~heldLocked(records[i].env.data_subjects)})]

PurgedData(cutoff) ==
    [NoData EXCEPT !.count =
       Cardinality({i \in DOMAIN records : Before(PeriodAt(i), cutoff)
                                            /\ ~heldLocked(records[i].env.data_subjects)})]

\* The data of the {result, data} a statement answers with when it runs.
Data(stmt) ==
    CASE stmt.proc = "seals_for_period" -> SealsData(stmt.period)
      [] stmt.proc = "save_checkpoint" -> CreatedData(stmt.period)
      [] stmt.proc = "purge_expired" -> PurgedData(stmt.cutoff)
      [] OTHER -> NoData

-----------------------------------------------------------------------------
\* The statement is on its way.
call(c, stmt) ==
    /\ sent < MaxCalls
    /\ sent' = sent + 1
    /\ calls' = [calls EXCEPT ![c] = [pc |-> "sent", id |-> sent + 1,
                                          stmt |-> stmt, reply |-> NoData]]

\* It runs and answers success.
CallRuns(c) ==
    /\ calls[c].pc = "sent"
    /\ Executes(calls[c].stmt)
    /\ calls' = [calls EXCEPT ![c].pc = "ok", ![c].reply = Data(calls[c].stmt)]
    /\ UNCHANGED <<late, sent, written, reported>>

\* The database cannot be reached, the procedure answers result_error or
\* raises P0001, which rolls back; or it ran and the answer does not arrive or
\* does not decode.
CallFails(c) ==
    /\ calls[c].pc \in {"sent", "ok"}
    /\ calls' = [calls EXCEPT ![c].pc = "error", ![c].reply = NoData]
    /\ UNCHANGED <<memoryVars, late, sent, written, reported>>

\* The caller gets an error while the statement is still to run.
CallAbandoned(c) ==
    /\ calls[c].pc = "sent"
    /\ Cardinality(late) < MaxLate
    /\ late' = late \cup {calls[c].stmt}
    /\ calls' = [calls EXCEPT ![c].pc = "error"]
    /\ UNCHANGED <<memoryVars, sent, written, reported>>

LateRuns(stmt) ==
    /\ Executes(stmt)
    /\ late' = late \ {stmt}
    /\ UNCHANGED <<calls, sent, written, reported>>

\* An error is logged or answered with a 5xx: the goroutine is done.
Errs(c) ==
    /\ calls[c].pc = "error"
    /\ calls' = [calls EXCEPT ![c] = IdleCall]
    /\ UNCHANGED <<memoryVars, late, sent, written, reported>>

-----------------------------------------------------------------------------
\* Append, for recordAccess: a valid request, new or the retry of an old one.
AppendCall(c, e) ==
    /\ calls[c].pc = "idle"
    /\ Validate(e)
    /\ call(c, [proc |-> "append_record", env |-> Sanitize(e)])
    /\ UNCHANGED <<memoryVars, late, written, reported>>

\* checkpoint(), for a sweep that found period p pending when it listed the
\* periods: by now p may have a checkpoint, and its rows may be gone.  There is
\* no clock here; any period may be closed.
SealsCall(c, p) ==
    /\ calls[c].pc = "idle"
    /\ call(c, [proc |-> "seals_for_period", period |-> p])
    /\ UNCHANGED <<memoryVars, late, written, reported>>

Answered(c, proc) == calls[c].pc = "ok" /\ calls[c].stmt.proc = proc

\* The checkpoint over what was read is saved.
SaveCall(c) ==
    /\ Answered(c, "seals_for_period")
    /\ LET got == calls[c].reply IN
       call(c, [proc |-> "save_checkpoint", period |-> calls[c].stmt.period,
                cp |-> [row_count |-> got.count,
                        seal |-> Checkpoint(got.seals, got.count)]])
    /\ UNCHANGED <<memoryVars, late, written, reported>>

\* The sweep announces the checkpoint if its own call created it.
SaveDone(c) ==
    /\ Answered(c, "save_checkpoint")
    /\ LET stmt == calls[c].stmt IN
       written' = IF calls[c].reply.flag
                  THEN written \cup {[call |-> calls[c].id, period |-> stmt.period,
                                      count |-> stmt.cp.row_count]}
                  ELSE written
    /\ calls' = [calls EXCEPT ![c] = IdleCall]
    /\ UNCHANGED <<memoryVars, late, sent, reported>>

PurgeCall(c, cutoff) ==
    /\ calls[c].pc = "idle"
    /\ call(c, [proc |-> "purge_expired", cutoff |-> cutoff])
    /\ UNCHANGED <<memoryVars, late, written, reported>>

\* The purge is reported with the count the answer carries.
PurgeDone(c) ==
    /\ Answered(c, "purge_expired")
    /\ reported' = reported + calls[c].reply.count
    /\ calls' = [calls EXCEPT ![c] = IdleCall]
    /\ UNCHANGED <<memoryVars, late, sent, written>>

\* 201 or 200: the producer has its answer.
AppendDone(c) ==
    /\ Answered(c, "append_record")
    /\ calls' = [calls EXCEPT ![c] = IdleCall]
    /\ UNCHANGED <<memoryVars, late, sent, written, reported>>

CallStep ==
    \/ \E c \in Callers :
         \/ CallRuns(c) \/ CallFails(c) \/ CallAbandoned(c) \/ Errs(c)
         \/ SaveCall(c) \/ SaveDone(c) \/ PurgeDone(c) \/ AppendDone(c)
         \/ \E e \in Envelopes : AppendCall(c, e)
         \/ \E p \in Periods : SealsCall(c, p) \/ PurgeCall(c, p)
    \/ \E stmt \in late : LateRuns(stmt)

-----------------------------------------------------------------------------
\* What a BySubject call names: zero bounds and a limit of 0 or less are left
\* out of the input, for the procedure to default.
ZeroTime == -1

SubjectInput(subject, from, to, limit) ==
    [subject |-> subject,
     from |-> IF from = ZeroTime THEN {} ELSE {from},
     to |-> IF to = ZeroTime THEN {} ELSE {to},
     limit |-> IF limit > 0 THEN {limit} ELSE {}]

\* The procedure: an absent bound is no bound, an absent limit the default.
records_by_subject(in) ==
    BySubject(in.subject,
              IF in.from = {} THEN 0 ELSE CHOOSE t \in in.from : TRUE,
              IF in.to = {} THEN MaxTime ELSE CHOOSE t \in in.to : TRUE,
              IF in.limit = {} THEN 0 ELSE CHOOSE n \in in.limit : TRUE)

PostgresBySubject(subject, from, to, limit) ==
    records_by_subject(SubjectInput(subject, from, to, limit))

-----------------------------------------------------------------------------
\* A checkpoint is announced by one call only, with the count the stored one
\* has, although calls time out, are repeated by other sweeps, and run after
\* their caller was told of an error.
AnnouncedOnce ==
    /\ \A w \in written : \E cp \in points[w.period] : cp.row_count = w.count
    /\ \A v, w \in written : v.period = w.period => v = w

\* The retention_purge events never claim more deletions than happened, when
\* purges run late or twice.
PurgesNotOverReported == reported <= made - Len(records)
=============================================================================
