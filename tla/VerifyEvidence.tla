-------------------------- MODULE VerifyEvidence --------------------------
(***************************************************************************)
(* The verify abuse-evidence store: an append-only list with a window of   *)
(* its own, shorter than the accountability window.                        *)
(*                                                                         *)
(* An event is appended every time its request arrives (nothing makes it   *)
(* idempotent) and carries the instant the caller names or the instant of  *)
(* the request.  The sweep reads the clock itself, when it runs.           *)
(***************************************************************************)
EXTENDS Clock

CONSTANTS
    VerifyRetentionDays,    \* the window of the evidence, 0: never swept
    MaxEvidence             \* bound: events the callers post

ASSUME EvidenceAssumption ==
    /\ VerifyRetentionDays \in Nat
    /\ MaxEvidence \in Nat

VARIABLES
    verifyEvents,   \* the stored events: [id, ts]
    nextEvidence    \* the identifier the next event gets

evidenceVars == <<verifyEvents, nextEvidence>>

EvidenceTypeOK ==
    /\ nextEvidence \in 1..(MaxEvidence + 1)
    /\ verifyEvents \subseteq [id : 1..MaxEvidence, ts : Time]

EvidenceInit ==
    /\ verifyEvents = {}
    /\ nextEvidence = 1

-----------------------------------------------------------------------------
AppendVerifyEvent(ts) ==
    /\ verifyEvents' = verifyEvents \cup {[id |-> nextEvidence, ts |-> ts]}
    /\ nextEvidence' = nextEvidence + 1

\* The evidence past its window at instant t.
EvidenceExpired(t) == {ev \in verifyEvents : ev.ts < t - VerifyRetentionDays}

\* Mutant of SweepVerifyExpired: the access records' window is used.
SweepVerifyExpired_WrongWindow ==
    /\ verifyEvents' = {ev \in verifyEvents : ev.ts >= now - Window}
    /\ UNCHANGED nextEvidence

SweepVerifyExpired ==
    /\ verifyEvents' = verifyEvents \ EvidenceExpired(now)
    /\ UNCHANGED nextEvidence

\* The handler: ts is the caller's, or the instant of the request.
recordVerifyEvent(ts) ==
    /\ nextEvidence <= MaxEvidence
    /\ AppendVerifyEvent(ts)
=============================================================================
