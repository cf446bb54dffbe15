---------------------------- MODULE MCInspection ----------------------------
(***************************************************************************)
(* The instance of Inspection that TLC checks: accesses of two months, the *)
(* second beginning a year, and alterations of every field modelled.       *)
(***************************************************************************)
EXTENDS Inspection, TLC

CONSTANTS s1, s2, c1, c2

Month(y, m) == 12 * y + m - 1

\* December and January, of 2 instants and 1: 0 1 | 2.
MCMonthOf ==
    (0 :> Month(2024, 12)) @@ (1 :> Month(2024, 12)) @@ (2 :> Month(2025, 1))

Access(id, at, subjects, attrs) ==
    [event_id |-> id, occurred_at |-> at, data_subjects |-> subjects, attributes |-> attrs]

Attr == [key |-> "reason", val |-> "short"]

First == Access(1, 1, {s1}, {Attr})

\* The later of two accesses of December was stored first.
MCExisting == <<First, Access(2, 0, {s1, s2}, {}), Access(3, 2, {s2}, {})>>

\* Two more arrive, late for December and in January: s1 then has four.
MCEnvelopes == {Access(4, 0, {s1}, {}), Access(5, 2, {s1}, {})}

\* The first access with another identifier, month, subject or attributes.
MCAlterations ==
    {[First EXCEPT !.event_id = 6], [First EXCEPT !.occurred_at = 2],
     [First EXCEPT !.data_subjects = {s2}], [First EXCEPT !.attributes = {}]}

CallerSymmetry == Permutations(Callers)
=============================================================================
