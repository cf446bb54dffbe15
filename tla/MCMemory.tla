------------------------------- MODULE MCMemory -------------------------------
(***************************************************************************)
(* The instance of Memory that TLC checks: three accesses, two of them at  *)
(* the same instant, over three months.                                    *)
(***************************************************************************)
EXTENDS Memory, TLC

CONSTANTS s1, s2

Month(y, m) == 12 * y + m - 1

\* September and October of a year and January of the next, of 2, 1 and 1
\* instants: 0 1 | 2 | 3.
MCMonthOf ==
    (0 :> Month(2025, 9)) @@ (1 :> Month(2025, 9)) @@ (2 :> Month(2025, 10))
        @@ (3 :> Month(2026, 1))

Access(id, at, subjects) ==
    [event_id |-> id, occurred_at |-> at, data_subjects |-> subjects, attributes |-> {}]

MCEnvelopes == {Access(1, 1, {s1}), Access(2, 0, {s1, s2}), Access(3, 2, {s1}),
                Access(4, 2, {s1})}
===============================================================================
