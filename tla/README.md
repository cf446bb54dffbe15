# access-audit: TLA+ models, TLC runs and TLAPS proofs

access-audit is the sink for records of who accessed whose personal data. Producers
post an envelope per access; the service validates, sanitises, seals and stores it;
a background task seals a checkpoint over every closed month and purges what has left
the accountability window. This directory models that life cycle, and that of the process
around it, with the interleavings, failures and retries they meet, checks them with TLC and
proves their safety with TLAPS.

## 1. The system

| component | code | state | operations |
|---|---|---|---|
| access store | `store/store.go`, `store/memory.go`, `store/postgres.go` | rows, index by event id, checkpoints by period, legal holds | Append, BySubject, SealsForPeriod, PendingCheckpointPeriods, SaveCheckpoint, LoadCheckpoint, SetLegalHold, PurgeExpired |
| verify evidence | `store/verify.go`, `routes/verifyevents.go` | list of verify-events | AppendVerifyEvent, SweepVerifyExpired, the handler |
| retention task | `tasks/retention.go` | locals of the sweep under way; ticker, stop channel | Start, Stop, runOnce, checkpoint |
| record path | `routes/records.go`, `routes/request/request.go` | none | recordAccess, Validate, Sanitize; the DSAR read |
| sealer | `seal/seal.go` | the key | Seal, Verify, Checkpoint, VerifyCheckpoint |
| verification | `routes/verify.go` | locals of a request | verifyPeriod, verifySubject |
| governance | `routes/admin.go` | locals of a request | placeLegalHold, clearLegalHold, purge |
| security events | `events/events.go` | none (a stream) | CheckpointWritten, RetentionPurge, IntegrityMismatch, others |
| routing, scope gate | `routes/router.go`, `routes/health.go` | none | requireScope, readyz, healthz |
| configuration, start-up | `config.go`, `secretfile.go`, `app.go`, `cmd/server/` | the configuration that was read; which backend it selected | Bind, Validate, New, Start, shutdown |

**How they interact.** Producers, handlers and the sweeps of every running instance meet
only in the store. A store operation is atomic: a method of `Memory` holds the mutex for
its whole body, a method of `Postgres` is one procedure call. Everything larger is not: a
sweep is a series of store calls with nothing held in between, with the clock read once at its
start; `verifyPeriod` reads the checkpoint and the seals in two calls; `purge` reads the
clock and then calls the store. Events are emitted after the call they report.

**What is hard.** Two instances sweep the same periods at once; a sweep acts on an old
clock; the period it lists is read and sealed later; records arrive late; the producer
retries what was stored, or purged, already; a store call fails, or commits and loses
its answer; a process dies between two calls; and a purge runs from a handler while a sweep
is under way. A statement may run in the database after its caller was told of an error. A
process may start before its secrets or its database are there, and be stopped in the middle of a
sweep. Rows may be altered behind the service's back. Each such place is listed with its line under `hazards` in `PROJECT.json`.

**What makes it correct.** An access enters once, whole, with a seal that verifies; it stays
for the window, and longer under hold; it leaves afterwards. Only closed months are sealed,
once; a sweep seals what it can before it purges; a retained period verifies; what the event stream
says agrees with the store. A process that names a database stores nothing elsewhere; it becomes
ready, sweeps and stops when asked. An altered row is shown by the DSAR answer, an altered
period by the two verifications together.

## 2. The modules

| module | models | state |
|---|---|---|
| `Calendar` | `store.Period`, the cutoff | (constants) |
| `Clock` | `time.Now().UTC()` (external) | `now` |
| `Envelope` | `AccessRecord.Validate`, `Sanitize`, the sealer | (operators) |
| `AccessStore` | the `store.Store` contract | `rows`, `nextRow`, `checkpoints`, `holds` |
| `VerifyEvidence` | the verify evidence and its handler | `verifyEvents`, `nextEvidence` |
| `Events` | the events an auditor compares with the store | `written`, `reported`, `alarms` |
| `RetentionTask` | `runOnce` and `checkpoint` of each instance | `task`, history `ghost` |
| `Routes` | the handlers, and the producers' outboxes (external) | `outbox`, `purgeReq`, `verifyReq` |
| `AccessAudit` | the composition of all the above; the properties | |
| `Ledger` | what the service promises (abstract) | `log`, `sealed`, `held` |
| `StoreSpec` | the store contract as a specification (abstract) | as `AccessStore` |
| `Memory` | the in-memory backend as it keeps its data | `records`, `index`, `points`, `held`, `made` |
| `PeriodText` | the text of `store.Period` and the order of strings | (operators) |
| `Postgres` | `Postgres.call` and the methods that use it, over the tables of `Memory` | `calls`, `late`, `sent`, `written`, `reported` |
| `Inspection` | the DSAR handler, `verifySubject`, `verifyPeriod`, over altered rows | `altered`, history `accepted` |
| `TaskLifecycle` | `Start`, the loop and `Stop` of the retention task | `ticker`, `due`, `loop`, `stopper` |
| `SweepSchedule` | what is owed about background work (abstract) | `phase`, `busy` |
| `Config` | `Bind`, `Validate`, `StoreBackend`, `refuseEmptyFileSecret` | `environ`, `files`, `conf` |
| `Deployment` | the composition of `Config` and `TaskLifecycle`: a process, its supervisor, its database | `proc`, `probe`, `dbUp`, `db`, `mem`, `acked` |
| `MCAccessAudit`, `MCMemory`, `MCInspection`, `MCDeployment` | the instances TLC checks | |
| `AccessAuditProofs` | type correctness | |
| `SafetyProofs` | safety theorems; `AccessAudit` implements `Ledger` | |
| `SweepProofs` | seal before purge; checkpoint events | |
| `AccountingProofs` | reported against actual deletions; checkpoints against rows when records are on time | |
| `DeploymentProofs` | the invariants of `Deployment` and its refinement of `SweepSchedule` | |
| `PeriodTextProofs` | the order of period strings is that of months | |
| `MemoryProofs` | sorting, the answers of `Memory`, its refinement of `StoreSpec` | |
| `InspectionProofs` | single calls of `Postgres`; what the verdicts of `Inspection` are worth | |

`AccessAudit` extends `Routes`, which extends `RetentionTask`, which extends the stores,
`Envelope` and `Events`. `Inspection` extends `Postgres`, which extends `Memory`. `Deployment` extends
`Config` and `TaskLifecycle`. They are three compositions, of one system each at another grain: what
steps interleave in the store, what the database and the readers see of single calls, and what
a process goes through. Operators named `X_Something` just before `X` are mutants: plausible
bugs of the code that a property of a run must detect.

### Actions and the code

- **A sweep** (`RetentionTask`). `StartSweep`: the ticker fires or the process starts,
  and `runOnce` reads the clock. `ListPending`: `PendingCheckpointPeriods`; after an error the
  sweep goes on to the purge, as the code does. `ReadSeals` and `SaveSeals`: the two calls of
  `checkpoint`, for the earliest period left; an error skips the period. `Purge`: with the cutoff
  of the sweep's own clock; an error ends the sweep. `SweepEvidence`: the last call, when enabled.
  `Crash`: the process dies and another starts with the same database.
- **Store calls** end `ok`, `fail` (no effect) or `lost` (it took effect, the caller sees an
  error or died before it could report: `Postgres.call` returns the driver's error in all cases).
- **The record path** (`Routes`). `Post` sends an envelope, again after a timeout;
  `RequestFails` is every way a request ends without an append (lost, refused, failed);
  `recordAccess` is the handler up to its answer, which may get lost. What the handler
  does before `Append` is local to the request, so it is one step with it.
- **The other handlers**: `placeLegalHold`, `clearLegalHold`, `purgeStart` then `purge`,
  `verifyPeriodLoad` then `verifyPeriod`, `verifyEventPosted`.
- **A call** (`Postgres`). `call` sends a statement; `CallRuns` is its transaction and its answer; `CallFails` an
  error before or after it; `CallAbandoned` an error while the statement is still under way, which
  `LateRuns` ends. `AppendCall`/`AppendDone`, `SealsCall`, `SaveCall`/`SaveDone` and `PurgeCall`/`PurgeDone` are what callers do
  with it. `Executes` is what the procedure does, `SealsData`, `CreatedData` and `PurgedData` what it answers.
- **The readers** (`Inspection`) write nothing in the store, so they are operators: `subjectRecords`, `verifySubject`,
  `verifyPeriod` (through `normalizePeriod`). `Alteration` removes a row, changes its content or
  gives it another row's seal.
- **The process** (`Deployment`): `Boot`, `ReadKey`, `ReadDSN` (the two secrets are read one after the other; the
  agent may write in between), `New` (refusal or construction), `StartApp`, `recordAccess` and `readyz` while it serves,
  `Shutdown`, `StopTask`, `Exit`; `Crash` at any point after construction.
- **The task** (`TaskLifecycle`): `Start`, `TickerFires`, `SweepEnds`, `TickReceived`, and `Stop` in the three steps it can be
  caught between: before its send (`Stop`), the send and receive (`StopReceived`), the clearing of the ticker
  (`StopReturns`).
- **Ghost state** records of a sweep which rows existed when it listed the periods (`mark`, 0 if the listing
  failed) and the periods whose own calls failed (`failed`). It guards nothing.

### Abstractions and assumptions

- Instants are small integers; `MonthOf` puts them into months of any lengths. The clock does not
  go back and instances share it. The model starts one window after instant 0, with an empty store.
- HMAC under the one key is a free constructor. A period's seal list is a set in `AccessStore`:
  its order is that of the unique event id, which is inside what each seal covers. `Memory` keeps the
  list and checks that order (`SealsReproducible`).
- An attribute value is short, long or cut; a subject reference is accepted or not. Of the fourteen fields
  `canonical` covers, four are modelled: `event_id`, `occurred_at`, `data_subjects` and `attributes`. The others (actor,
  purpose, IP and so on) are left out, and so are `prev_hash` and `hash`, which no seal covers, and the checks of
  `Validate` on absent fields: a refusal by one of those is `RequestFails`. What `FlaggedExactly` says of an altered
  record it says of the four. A stored record comes back as it was stored: the round trip through JSON and `jsonb`
  that `canonical` is written to survive is not modelled.
- Producers draw event ids that no two accesses share (`EnvelopeAssumption`).
- `checkpoints[p]` is a set with at most one member: empty is the code's nil.
- The PostgreSQL procedures live in another repository; they are taken to implement the contract, and to
  do in one transaction what `Memory` does under its mutex. A caller of `Postgres` may read the seals of any period: the
  listing that named it is earlier, and the period may have been sealed or emptied since.
- The callers of `Memory` save checkpoints over what a period held at some earlier record (`CheckpointAsOf`), as a
  sweep does; `StoreSpec` lets them save any.
- An alteration keeps event ids unique and every row under a subject, and cannot compute a seal. A row's period
  is that of its content. Database columns beside the sealed content are not modelled.
- Event ids are numbers in `Memory`: all that is used of the strings is that they are totally ordered. Periods are
  months of four-digit years, as in the timestamps that Go decodes from JSON (an RFC 3339 time passes year
  9999 only in its last hours, west of Greenwich). A sort is `Sorted`: the member at place `k` has `k - 1` members
  before it, which is what `sort.Slice`, `sort.SliceStable` and `sort.Strings` give on total orders.
- The rows that `Inspection` starts with are such as the service stores: distinct event ids, at least one subject.
- A stopped ticker delivers no tick that was waiting (Go 1.23 and later; `go.mod` asks for a later one).
- In `Deployment` a sweep is one state and a handler's store call one step: the other compositions have their steps.
- The DSN is empty or not; the seal key is empty, too short or good; every other setting is one flag. A secret
  file is missing, blank or written, in this order, and is not emptied again.
- `LateDelivery = FALSE` restricts producers to deliver within the month of the access. Nothing in
  the code enforces it: it is the condition under which checkpoints mean what the README says, and
  the run `late_record` shows what happens without it.

## 3. The runs

Bounds, in all `AccessAudit` runs: `MaxTime = 5`, months `0 1 2 | 3 4 | 5`, `Window = 2`. Time starts
in month 0 with the cutoff in month 0 and ends with the cutoff in month 1: months close, are
sealed, fall out of the window and are purged, and the cutoff falls inside and between months.
`MaxPosts` bounds the attempts at posting an envelope (the second is the retry,
in flight with the first or after the row was purged), `MaxEvidence` the verify-events, `MaxAppends` the rows of `Memory`, and
`DefaultLimit = 2` makes the DSAR answer overflow its limit. Symmetry (interchangeable instances) is
used in `sweeps` only, which has no liveness property. The clock stops at `MaxTime`, but the sweeps
and the hold handlers go on for ever, so deadlock is checked in all of them.

`memory` has the months September 2025, October 2025 and January 2026, on both sides of a two-digit month and of
a year. `service` has seven environments (secrets in files, in the environment, both, none, too short), two records, two
restarts and one outage. `inspection` starts with three rows of two months, has two more accesses
that arrive (and are posted again), two callers (interchangeable, by symmetry), four statements in all (`MaxCalls`; two
sweeps of one period need four, an alteration counts as one), one statement that outlives its caller, one
alteration, and `VerifyLimit = 3`, which a subject's records reach and pass. It stops when the statements are
used up, so deadlock is not checked there.

| run | set-up | shows |
|---|---|---|
| `sweeps` | two instances, failing and lost calls, crashes, late records, two accesses in a month | What a sweep remembers is never ahead of the clock (`LocalsStale`); of the rows it found it purges one only if the period is sealed or its own calls failed (`SweepPurgesSealed`); only closed months are sealed (`CheckpointOnlyClosed`); announced checkpoints are the stored ones although two instances race (`CheckpointEventMatches`); deletions are never over-reported (`NeverOverReported`) |
| `outbox` | two posts per envelope, one of two subjects and one refused, one sweeping instance, a manual purge, failing and lost calls | `TypeOK`, `OneRowPerEvent`, `SealsVerify`, `AckedQueryable`, and that the whole implements `Ledger` (`ImplementsLedger`) |
| `ontime` | three accesses over two months delivered in their month, a verify request and a manual purge beside a sweep, failing calls | what two-call operations read is still true when they use it (`ReadsStayTrue`), retained periods verify (`RetainedPeriodVerifies`), no false alarm for them (`NoFalseAlarm`), every deletion is reported (`DeletionsAllReported`), a failed call costs a sweep its own period only, however many are left to seal (`SweepOwes`) |
| `liveness` | fairness, failing and lost calls, holds placed and cleared, verify evidence | expired records are purged, closed periods sealed, evidence swept (`ExpiredEventuallyPurged`, `ClosedEventuallySealed`, `EvidenceEventuallySwept`) |
| `memory` | four accesses, two at one instant, three months, all operations in any order | `IndexAgrees`, `SealsReproducible`, `BySubjectAnswers`, that pending periods come complete and oldest first although they are sorted as text (`PendingOldestFirst`), and that the backend implements `StoreSpec` (`ImplementsStore`) |
| `service` | fairness; late secrets, outages, crashes, shutdowns | the loop never finds its ticker nil (`LoopHasTicker`); with a database named, what was acknowledged is in it (`AckedDurable`); the task keeps `SweepSchedule` (`KeepsSchedule`); a shutdown ends (`ShutdownEnds`); a deployment that can start becomes ready and stays so, one that cannot never serves (`ReadyIffConfigured`); sweeps go on for ever (`SweepsRecur`) |
| `inspection` | two callers, late statements, one alteration | a checkpoint is announced once, with the stored count (`AnnouncedOnce`), purges are not over-reported (`PurgesNotOverReported`); a DSAR flags exactly the altered records (`FlaggedExactly`); a subject's verdict is exact up to and including its limit, and beyond it accuses no sound log (`SubjectVerdict`); both verifications clean means the period is what was sealed (`CleanVerdictsMeanIntact`) |

Five runs end in a violation, each stating a sentence of the repository that the code does not
keep (`findings` in `PROJECT.json` quotes the lines):

| run | property | what the trace shows |
|---|---|---|
| `late_record` | `RetainedPeriodVerifies` | a record arrives after its month was sealed; the write-once checkpoint never matches again |
| `manual_purge` | `PurgedPeriodsSealed` | `POST /v1/purge` deletes a closed period nobody has sealed; it is not "the same sweep" |
| `lost_answer` | `DeletionsAllReported` | a purge commits, its answer is lost, and no event counts the deletion |
| `purged_period` | `AlarmMeansTampering` | verifying a month after its purge raises the tamper signal: the checkpoint outlives the rows |
| `subject_limit` | `EverySealVerified` | a subject has one record more than the limit (3 here, 10000 in the code), the last one is altered, and the verdict is ok |

### Fairness

`FairSpec` asks two things. Weak fairness of an instance's steps: the ticker fires again and again
(`Start` loops for ever) and a sweep under way goes on, as it waits for nobody. Strong fairness
of each kind of call ending `ok`: a call made over and over does not fail every time. Without
it an unreachable database keeps records for ever, and no code can help that. Nothing is assumed of
producers, handlers, the clock or the holds. Crashes are off in `liveness`: an instance
that dies at the same point of every sweep purges nothing, and strong fairness of the calls would not
exclude a crash before each of them.

`Deployment` has a `FairSpec` of its own: weak fairness of the process's own steps and of the supervisor's restart, of the
ticker, of the end of a sweep, of the loop's select and of `Stop`, of the probe, of the secrets agent and of the
database's return. The end of a sweep is an assumption about the store: `runOnce` passes the task's context to
every call and sets no deadline, so a call that never returns would hold the loop, and `Stop` with it, for ever. Restarts and
outages are bounded, so they cease; nothing is assumed of requests or of `Shutdown`.

The liveness properties have the form "infinitely often not" (`[]<>~Lingers(e)`), which covers a
hold that is placed and cleared again and again.

## 4. The proofs

The theorems hold for every calendar, window, set of envelopes, number of instances, of
concurrent requests and of posts, and for all failures and crashes. They use the
named assumptions of the modules that declare the constants: `CalendarAssumption` (months
never decrease), `EnvelopeAssumption` (unique event ids; valid references among the references),
`EvidenceAssumption`, `TaskAssumption`, `RoutesAssumption`, `ConfigAssumption`, `DeploymentAssumption`,
`MemoryAssumption` (event ids are numbers, years have four digits), `PostgresAssumption`, `InspectionAssumption`
(rows have subjects; the rows at the start have distinct event ids). TLC evaluates each on the runs' instances.
Every invariant and every action property of the passing runs is the statement of a theorem, and so are the three
refinements.

- `TypeCorrect` (`AccessAuditProofs`): `Spec => []TypeOK`, by one lemma per store operation and one per
  process (`SweepStepType`, `RouteStepType`). `TypeOK` holds what the others need: every row identifier is
  below `nextRow`, stored envelopes are sanitised envelopes, rows are finitely many.
- `StaleLocals` (`SafetyProofs`): `Spec => []LocalsStale`. This is the strengthening: neither
  `AckedQueryable` nor `CheckpointOnlyClosed` is inductive alone, as the step that purges or seals
  uses an instant remembered from earlier. `LocalsStale` says that the instant is in the past and
  the periods being sealed were over then; `Cutoff` and `Period` are monotonic (`CalendarFacts`), so
  what was expired, or closed, then still is.
- `StoreEffect` reduces every step of the system to one of a few effects on the store, and `RowsEffect` to
  what it does to the rows: they appear one at a time, for an event without a row, sealed as stored; they
  leave only with their period before the cutoff of the current instant. The rest follow from these two.
- `NoDoubleRecord` (`OneRowPerEvent`), `StoredSealsVerify` (`SealsVerify`), `AckedStaysQueryable`
  (`AckedQueryable`), `OnlyClosedSealed` (`CheckpointOnlyClosed`).
- `LedgerImplemented` (`SafetyProofs`): `Spec => ImplementsLedger`. The effects of `StoreEffect` are the
  ledger's steps: an append is `Record` or a stutter, a purge is `Forget` (by `LocalsStale` its old cutoff is in
  the past), a saved checkpoint is `SealPeriod` or a stutter.
- `OwesKept` and `SealedBeforePurged` (`SweepProofs`): `SweepPurgesSealed` is about a step, so it needs to
  know what a sweep has done before: `SweepOwes` (checked by `ontime`), strengthened by `NothingLeft`, that the
  list of periods is used up when the purge begins. `DebtKept` is the lemma that no step of anybody
  undoes it: checkpoints stay, new rows are numbered past the mark, and a period leaves the list only sealed or
  failed. For the periods that failed nothing is promised (see section 5).
- `AnnouncedIsStored` (`SweepProofs`): `CheckpointEventMatches`, from the write-once lemma.
- `NothingOverReported` and `AllReported` (`AccountingProofs`): every step accounts for what it deletes
  (`StepAccounts`, with the cardinality theorems on finite sets); the second assumes that no answer is lost.
- `RetainedVerifies`, `ReadsAreStable`, `NoAlarmInWindow` (`AccountingProofs`): `RetainedPeriodVerifies`, `ReadsStayTrue`
  and `NoFalseAlarm`, each assuming `~LateDelivery`, without which the first is false (`late_record`). They are proved together, as
  `OnTimeInv`: a sealed period verifies because what the sweep read stayed true until it saved, and a verification
  raises no alarm because the period verifies; `Loaded` adds that a request compares with a stored checkpoint. The step
  that carries them: in a closed period inside the window no row appears (it would be late) and none leaves (its
  period is not before any cutoff read so far, by `LocalsStale`).
- `GoroutineKeepsTicker`, `NoSilentFallback`, `ScheduleKept` (`DeploymentProofs`): `LoopHasTicker`, `AckedDurable` and the
  refinement `KeepsSchedule`, for every set of environments and of records and any number of restarts and outages.
  None is inductive alone. `TaskInv` lists the four joint states of ticker, loop and `Stop` while the process lives
  (sweeping, sending, clearing, returned) and that nothing of them exists otherwise: it is what makes a
  receive possible only with `Stop` in its send, and the clearing only with the loop gone. `StoreInv` says that a process
  past `Validate` has a DSN when its environment names one, which is what ties an acknowledgement to the database.
- `TextOrderIsMonthOrder`, `TextOrderEnds` (`PeriodTextProofs`): for all months of years 0 to 9999 `TextLess` on the
  texts is `<` on the months, by the value of the digits (`ValueOfText`); and it fails at year 10000.
- `IndexInStep`, `SealsDetermined`, `AnswersEarliest`, `PendingInOrder`, `MemoryImplementsStore` (`MemoryProofs`): `IndexAgrees`,
  `SealsReproducible`, `BySubjectAnswers`, `PendingOldestFirst` and the refinement `ImplementsStore`, for every set of
  accesses and any number of appends. `Places` and `Arranges` are about sorting: in a finite totally ordered set each
  member has a place of its own, by counting what is below it, so that `Sorted` lists every member once and in order. Each
  read is then its order being total: event ids because no two records share one, DSAR answers because ties end in
  the place in the slice, periods by `TextOrderIsMonthOrder`. The inductive invariant `MemoryInv` has the slice
  (`SliceOK`: one record per event, row ids drawn so far), the index (`IndexOK`) and the seals; the index alone is
  not inductive, as a purge deletes by event id and is right only if no two records share one. The refinement goes method by method,
  a save with whatever checkpoint the caller brings.
- `OneAnnouncement`, `PurgesHonest`, `MarksAreRight`, `VerdictWorth`, `CleanMeansIntact` (`InspectionProofs`): `AnnouncedOnce`,
  `PurgesNotOverReported`, `FlaggedExactly`, `SubjectVerdict`, `CleanVerdictsMeanIntact`, for any number of callers, of late
  statements and of alterations. The inductive invariant `InspectionInv` has five parts. `TablesOK` and `CallsOK` are the shapes of
  tables and statements (`SliceOK` survives an alteration, the seals of `MemoryInv` do not). `AnnouncedInv`: a caller
  told that it created a checkpoint is the only one for that period, and nobody has announced it. `OwedInv`: what was
  reported, with the deletions that purges have answered and not yet reported (`Owed`, a set of caller and
  number, so that its cardinality is their sum), is at most what is gone. `AcceptedInv`: what the service
  stored, it sealed, and every seal in the table is one of those. A seal determines what it covers (`SealInjective`),
  so that a row verifies exactly when it is as stored (`VerifiedIsAuthentic`), on which the verdicts rest. `VerdictWorth` adds that an answer cut at
  the limit has as many records as the limit, so that a subject with no more was read whole (`VerdictOf`); the last also
  needs that a month's text finds its period (`MonthFindsPeriod`) and that every row has a subject to be asked about.

**Only model-checked.** Liveness under fairness, which is out of the prover's reach: `ExpiredEventuallyPurged`,
`ClosedEventuallySealed`, `EvidenceEventuallySwept`, `ShutdownEnds`, `ReadyIffConfigured`, `SweepsRecur`. The five
violations are counterexamples and have nothing to prove.

## 5. Not modelled

- What makes a reference pseudonymous or an attribute key forbidden (sets here); nested attribute values; the
  parsing of the DSAR query's numbers and times.
- The bytes of `canonical`, the key and its rotation, the JSON marshalling of `Postgres`, and the procedures behind it.
  `SetLegalHold`, `LoadCheckpoint` and `PendingCheckpointPeriods` as calls that outlive their caller.
- Severities and the events `authz_denied` and `legal_hold_changed`; the scope gate beyond a request that fails;
  `healthz`; response objects; the test harness (`testing.go`), which has no behaviour of its own.
- The getters and setters of `App`, the health command, the default of `SERVER_URLS`.
- A `Stop` called twice or before `Start` has returned: the framework calls each once, in order.

Observations from reading the code for the models, for which no run states a property:

- `tasks/retention.go:81` and `:85` log an error and go on: an expired period whose listing or sealing failed is purged
  by the same sweep without a checkpoint, although `store/store.go:72` speaks of "the closed periods the retention sweep
  must seal before purging". The instance of `manual_purge`, with failing calls in place of the purge request,
  violates `PurgedPeriodsSealed` too, in such a sweep.
- `store/memory.go:46` numbers a record `len(records)+1`, so numbers repeat after a purge, although `store/store.go:24` calls
  `Seq` "monotonic". `BySubjectAnswers` holds with repeated numbers: they order records of one instant only.
- The limit of the DSAR query is documented as "max 10000" (`routes/records.go:79`); the Go code passes any limit on,
  and only a procedure can cap it.
- `store/memory.go:205` says that the strings sort chronologically: true until year 10000 (`TextOrderEnds`).
- A verify-event posted again is stored again: it carries no identifier to recognise it by.

## 6. Plan

Done first: the store contract, the record path and the sweeps, because every promise rests on them;
their composition, the abstract specifications and the first theorems. Done next: the life cycle of the
task and of the process, single calls of the PostgreSQL backend, the readers over altered rows, the order of
period strings, and the theorems about these. Done last: on-time integrity, the in-memory backend and its sorts, the calls
and the readers, proved. Left:

1. The reference and key rules of `request.go` as decision tables, and the canonical form against the
   order of its input.
2. The remaining calls of `Postgres` as statements that may run late, with the events of legal holds.
