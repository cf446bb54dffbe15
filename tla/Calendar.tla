------------------------------ MODULE Calendar ------------------------------
(***************************************************************************)
(* Instants and the month buckets of store.Period.                         *)
(*                                                                         *)
(* Instants are the integers 0..MaxTime.  MonthOf gives the calendar month *)
(* of an instant; months need not have the same length.  Window is         *)
(* config.RetentionWindow (validated gt=0).                                *)
(***************************************************************************)
EXTENDS Integers

CONSTANTS
    MaxTime,        \* bound: the last instant of the model
    MonthOf,        \* the month of each instant
    Window          \* the accountability window

Time == 0..MaxTime

ASSUME CalendarAssumption ==
    /\ MaxTime \in Nat
    /\ Window \in 1..MaxTime
    /\ MonthOf \in [Time -> Nat]
    /\ \A s, t \in Time : s <= t => MonthOf[s] <= MonthOf[t]

-----------------------------------------------------------------------------
\* The bucket of an instant: the first day of its month.
Period(t) == MonthOf[t]

Periods == {MonthOf[t] : t \in Time}

\* The cutoff of a purge: records in earlier periods have left the window.
Cutoff(t) == Period(t - Window)
=============================================================================
