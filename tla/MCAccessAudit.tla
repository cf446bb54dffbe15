--------------------------- MODULE MCAccessAudit ---------------------------
(***************************************************************************)
(* The instances of AccessAudit that TLC checks.                           *)
(***************************************************************************)
EXTENDS AccessAudit, TLC

CONSTANTS
    s1, s2,         \* pseudonymous subject references
    named           \* a reference validSubjectRef rejects

\* Three months of 3, 2 and 1 instants: 0 1 2 | 3 4 | 5.
MCMonthOf == (0 :> 0) @@ (1 :> 0) @@ (2 :> 0) @@ (3 :> 1) @@ (4 :> 1) @@ (5 :> 2)

Attr(k, v) == [key |-> k, val |-> v]

\* Month 0, one subject, an attribute of each kind.
First ==
    [event_id |-> 1, occurred_at |-> 2, data_subjects |-> {s1},
     attributes |-> {Attr("reason", "long"), Attr("note", "short")}]

\* Month 0 as well, concerning two subjects.
Second ==
    [event_id |-> 2, occurred_at |-> 1, data_subjects |-> {s1, s2},
     attributes |-> {Attr("reason", "short")}]

\* Month 1.
Third ==
    [event_id |-> 3, occurred_at |-> 3, data_subjects |-> {s1}, attributes |-> {}]

\* Refused: its only subject is not a pseudonymous reference.
Refused ==
    [event_id |-> 4, occurred_at |-> 2, data_subjects |-> {named}, attributes |-> {}]

\* First, concerning two subjects: a hold on either keeps it.
Shared == [First EXCEPT !.data_subjects = {s1, s2}]

SameMonth == {First, Second}

TwoMonths == {First, Third}

ThreeAccesses == {First, Second, Third}

OneRefused == {Shared, Refused}

\* The instances run the same task and are interchangeable.
InstanceSymmetry == Permutations(Instances)
=============================================================================
