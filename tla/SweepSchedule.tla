---------------------------- MODULE SweepSchedule ----------------------------
(***************************************************************************)
(* What the service owes whoever runs it about its background work: one    *)
(* sweep at a time, none begun once Stop has been called, and an orderly   *)
(* end only between two sweeps.  A process that dies takes its sweep with  *)
(* it, and is told apart from one that ended.                              *)
(***************************************************************************)

VARIABLES
    phase,          \* "off", "on", "closing" or "dead"
    busy            \* whether a sweep is under way

ScheduleInit == phase = "off" /\ busy = FALSE

\* The first sweep begins with the schedule.
Open == phase = "off" /\ phase' = "on" /\ busy' = TRUE

Begin == phase = "on" /\ ~busy /\ busy' = TRUE /\ UNCHANGED phase

Finish == busy /\ busy' = FALSE /\ UNCHANGED phase

Close == phase = "on" /\ phase' = "closing" /\ UNCHANGED busy

Closed == phase = "closing" /\ ~busy /\ phase' = "off" /\ UNCHANGED busy

Dies == phase' = "dead" /\ busy' = FALSE

Revives == phase = "dead" /\ phase' = "off" /\ UNCHANGED busy

ScheduleNext == Open \/ Begin \/ Finish \/ Close \/ Closed \/ Dies \/ Revives

ScheduleSpec == ScheduleInit /\ [][ScheduleNext]_<<phase, busy>>
=============================================================================
