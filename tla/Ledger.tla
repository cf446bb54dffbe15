------------------------------- MODULE Ledger -------------------------------
(***************************************************************************)
(* What the service promises of its log, with no tasks, requests, rows or  *)
(* clocks read early: an access enters once, whole and for good, until it  *)
(* is older than the window and nobody it concerns is under hold; a period *)
(* is sealed at most once, after it has closed.                            *)
(***************************************************************************)
EXTENDS Envelope, Clock

VARIABLES
    log,            \* the accesses on record
    sealed,         \* period -> the set holding its seal, if it has one
    held            \* the subjects under legal hold

ledgerVars == <<now, log, sealed, held>>

LedgerInit ==
    /\ ClockInit
    /\ log = {}
    /\ sealed = [p \in Periods |-> {}]
    /\ held = {}

\* An access is put on record as long as its event is not on record.
Record ==
    /\ \E e \in Envelopes :
         /\ Validate(e)
         /\ \A f \in log : f.event_id # e.event_id
         /\ log' = log \cup {Sanitize(e)}
    /\ UNCHANGED <<now, sealed, held>>

\* Nothing leaves the record inside the window, nor while a subject is held.
Forget ==
    /\ log' \subseteq log
    /\ \A e \in log \ log' :
         /\ e.occurred_at < now - Window
         /\ e.data_subjects \cap held = {}
    /\ UNCHANGED <<now, sealed, held>>

SealPeriod ==
    /\ \E p \in Periods :
         /\ p < Period(now)
         /\ sealed[p] = {}
         /\ sealed' = [sealed EXCEPT ![p] = sealed'[p]]
    /\ UNCHANGED <<now, log, held>>

ChangeHold ==
    /\ \E s \in Subjects : held' \in {held \cup {s}, held \ {s}}
    /\ UNCHANGED <<now, log, sealed>>

TimePasses == Tick /\ UNCHANGED <<log, sealed, held>>

LedgerNext == Record \/ Forget \/ SealPeriod \/ ChangeHold \/ TimePasses

LedgerSpec == LedgerInit /\ [][LedgerNext]_ledgerVars
=============================================================================
