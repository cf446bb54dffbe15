------------------------------- MODULE Routes -------------------------------
(***************************************************************************)
(* The handlers of the HTTP interface that read or change the store, and   *)
(* the producers that call them.                                           *)
(*                                                                         *)
(* A producer (external) keeps each envelope in an outbox and posts it     *)
(* again until it is acknowledged; requests and responses get lost and     *)
(* overtake each other.  A handler's local work (decoding, validating,     *)
(* sanitising, sealing) touches nothing shared, so it goes with the one    *)
(* store call it prepares; a handler with two reads of shared state takes  *)
(* two steps.                                                              *)
(***************************************************************************)
EXTENDS RetentionTask

CONSTANTS
    MaxPosts,       \* bound: attempts a producer makes to post an envelope
    LateDelivery,   \* whether a record can arrive after its month has ended
    PurgeReqs,      \* concurrent POST /v1/purge requests
    VerifyReqs      \* concurrent GET /v1/verify?period= requests

ASSUME RoutesAssumption ==
    /\ MaxPosts \in Nat
    /\ LateDelivery \in BOOLEAN

VARIABLES
    outbox,         \* of each envelope: [posts, inflight, acked]
    purgeReq,       \* of each purge request: [pc, now]
    verifyReq       \* of each verify request: [pc, period, cp]

routeVars == <<outbox, purgeReq, verifyReq>>

NoPurge == [pc |-> "idle", now |-> Window]

NoVerify == [pc |-> "idle", period |-> 0, cp |-> {}]

RoutesTypeOK ==
    /\ outbox \in [Envelopes ->
          [posts : 0..MaxPosts, inflight : 0..MaxPosts, acked : BOOLEAN]]
    /\ purgeReq \in [PurgeReqs -> [pc : {"idle", "purge"}, now : Window..MaxTime]]
    /\ verifyReq \in [VerifyReqs ->
          [pc : {"idle", "compare"}, period : Nat, cp : SUBSET CheckpointType]]
    /\ \A v \in VerifyReqs : verifyReq[v].pc = "compare" => verifyReq[v].period \in Periods

RoutesInit ==
    /\ outbox = [e \in Envelopes |-> [posts |-> 0, inflight |-> 0, acked |-> FALSE]]
    /\ purgeReq = [q \in PurgeReqs |-> NoPurge]
    /\ verifyReq = [v \in VerifyReqs |-> NoVerify]

-----------------------------------------------------------------------------
\* The producer sends an envelope, the first time or after a timeout.
Post(e) ==
    /\ ~outbox[e].acked
    /\ outbox[e].posts < MaxPosts
    /\ outbox' = [outbox EXCEPT ![e].posts = @ + 1, ![e].inflight = @ + 1]
    /\ UNCHANGED <<purgeReq, verifyReq, storeVars, evidenceVars, eventVars>>

\* The request is lost, denied (no scope), malformed, or its Append fails.
RequestFails(e) ==
    /\ outbox[e].inflight > 0
    /\ outbox' = [outbox EXCEPT ![e].inflight = @ - 1]
    /\ UNCHANGED <<purgeReq, verifyReq, storeVars, evidenceVars, eventVars>>

OnTime(e) == LateDelivery \/ Period(now) <= Period(e.occurred_at)

\* Mutants of SealAndAppend: the seal is computed before Sanitize; the envelope
\* is stored as it came.
SealAndAppend_SealFirst(e) == Append(Sanitize(e), Seal(e))

SealAndAppend_NoSanitize(e) == Append(e, Seal(e))

\* The envelope is sanitised, sealed as sanitised, and appended.
SealAndAppend(e) == Append(Sanitize(e), Seal(Sanitize(e)))

\* The request is handled; the 201 or 200 (duplicate) answer may get lost.
recordAccess(e) ==
    /\ outbox[e].inflight > 0
    /\ OnTime(e)
    /\ Validate(e)
    /\ SealAndAppend(e)
    /\ \/ outbox' = [outbox EXCEPT ![e].inflight = @ - 1, ![e].acked = TRUE]
       \/ outbox' = [outbox EXCEPT ![e].inflight = @ - 1]
    /\ UNCHANGED <<purgeReq, verifyReq, evidenceVars, eventVars>>

-----------------------------------------------------------------------------
LegalHold(subject, hold) ==
    /\ SetLegalHold(subject, hold)
    /\ UNCHANGED <<routeVars, evidenceVars, eventVars>>

\* Any subject named in the body or the path is accepted, held or not.
placeLegalHold(subject) == LegalHold(subject, TRUE)

clearLegalHold(subject) == LegalHold(subject, FALSE)

\* POST /v1/purge, first step: the handler reads the clock.
purgeStart(q) ==
    /\ purgeReq[q].pc = "idle"
    /\ purgeReq' = [purgeReq EXCEPT ![q] = [pc |-> "purge", now |-> now]]
    /\ UNCHANGED <<outbox, verifyReq, storeVars, evidenceVars, eventVars>>

\* POST /v1/purge, second step: the store deletes and the handler reports.
purge(q, outcome) ==
    /\ purgeReq[q].pc = "purge"
    /\ PurgeCall(Cutoff(purgeReq[q].now), outcome)
    /\ purgeReq' = [purgeReq EXCEPT ![q] = NoPurge]
    /\ UNCHANGED <<outbox, verifyReq, evidenceVars>>

-----------------------------------------------------------------------------
\* GET /v1/verify?period=, first step: the checkpoint is loaded; 404 without.
verifyPeriodLoad(v, p) ==
    /\ verifyReq[v].pc = "idle"
    /\ LoadCheckpoint(p) # {}
    /\ verifyReq' = [verifyReq EXCEPT
                       ![v] = [pc |-> "compare", period |-> p, cp |-> LoadCheckpoint(p)]]
    /\ UNCHANGED <<outbox, purgeReq, storeVars, evidenceVars, eventVars>>

\* Second step: the seals are read and compared with the loaded checkpoint;
\* an error of the store ends the request without a verdict.
verifyPeriod(v, outcome) ==
    /\ verifyReq[v].pc = "compare"
    /\ LET p == verifyReq[v].period
           read == SealsForPeriod(p)
           intact == \A cp \in verifyReq[v].cp :
                       VerifyCheckpoint(read.seals, read.count, cp.seal)
       IN IF outcome = "ok" /\ ~intact
          THEN IntegrityMismatch(p)
          ELSE UNCHANGED eventVars
    /\ verifyReq' = [verifyReq EXCEPT ![v] = NoVerify]
    /\ UNCHANGED <<outbox, purgeReq, storeVars, evidenceVars>>

\* POST /v1/verify-events, with the caller's timestamp or that of the request.
verifyEventPosted(ts) ==
    /\ recordVerifyEvent(ts)
    /\ UNCHANGED <<routeVars, storeVars, eventVars>>

RouteStep ==
    \/ \E e \in Envelopes : Post(e) \/ RequestFails(e) \/ recordAccess(e)
    \/ \E s \in Subjects : placeLegalHold(s) \/ clearLegalHold(s)
    \/ \E q \in PurgeReqs :
         \/ purgeStart(q)
         \/ \E outcome \in Outcomes : purge(q, outcome)
    \/ \E v \in VerifyReqs :
         \/ \E p \in Periods : verifyPeriodLoad(v, p)
         \/ \E outcome \in Outcomes : verifyPeriod(v, outcome)
    \/ \E ts \in Time : verifyEventPosted(ts)
=============================================================================
