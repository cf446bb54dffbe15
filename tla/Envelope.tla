------------------------------ MODULE Envelope ------------------------------
(***************************************************************************)
(* The access record of a producer: what the request layer checks and      *)
(* strips, and what the sealer computes over it.                           *)
(*                                                                         *)
(* An envelope keeps four fields, the ones the rest of the model tells     *)
(* apart; the others, sealed or not, are not in it, and neither are the    *)
(* checks that only look at them (such a refusal is RequestFails).  An     *)
(* attribute value is "short", "long" (a string over maxAttrValueLen) or   *)
(* "cut" (such a string truncated).  HMAC-SHA256 under the service's one   *)
(* key is a free constructor: equal digests have equal inputs.             *)
(***************************************************************************)
EXTENDS Calendar, FiniteSets

CONSTANTS
    EventIDs,       \* event identifiers
    Subjects,       \* data-subject references producers may send
    ValidRefs,      \* those validSubjectRef accepts
    AttrKeys,       \* attribute keys
    ForbiddenKeys,  \* those holding a forbiddenAttrKeys fragment
    Envelopes       \* the envelopes producers send

Attributes == [key : AttrKeys, val : {"short", "long", "cut"}]

EnvelopeType ==
    [event_id : EventIDs, occurred_at : Time,
     data_subjects : SUBSET Subjects, attributes : SUBSET Attributes]

\* Producers draw event identifiers that no two accesses share.
ASSUME EnvelopeAssumption ==
    /\ IsFiniteSet(EventIDs)
    /\ ValidRefs \subseteq Subjects
    /\ ForbiddenKeys \subseteq AttrKeys
    /\ Envelopes \subseteq EnvelopeType
    /\ \A e, f \in Envelopes : e.event_id = f.event_id => e = f

-----------------------------------------------------------------------------
\* The record may be stored: it has subjects, all pseudonymous references.
Validate(e) ==
    /\ e.data_subjects # {}
    /\ e.data_subjects \subseteq ValidRefs

Truncate(a) == [a EXCEPT !.val = IF @ = "long" THEN "cut" ELSE @]

\* Content-bearing keys are dropped, then long values are truncated.
Sanitize(e) ==
    [e EXCEPT !.attributes =
        {Truncate(a) : a \in {b \in e.attributes : b.key \notin ForbiddenKeys}}]

-----------------------------------------------------------------------------
\* Mutant of canonical: the attributes are left out.
canonical_NoAttributes(e) == <<e.event_id, e.occurred_at, e.data_subjects>>

\* The projection a seal is computed over, in its fixed field order: the code
\* has ten more fields.  The slices canonical sorts are sets here, which have no
\* order, and a record comes back from the database as it was stored.
canonical(e) == <<e.event_id, e.occurred_at, e.data_subjects, e.attributes>>

Seal(e) == [hmac |-> canonical(e)]

Verify(e, want) == Seal(e) = want

\* The digest of a period.  The ordered list of seals the code hashes is
\* determined by the set: the order is that of event_id, which is unique
\* among the rows and part of what each seal covers.
Checkpoint(seals, count) == [n |-> count, seals |-> seals]

\* Mutant of VerifyCheckpoint: only the number of rows is compared.
VerifyCheckpoint_CountOnly(seals, count, want) == want.n = count

VerifyCheckpoint(seals, count, want) == Checkpoint(seals, count) = want
=============================================================================
