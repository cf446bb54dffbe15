------------------------------- MODULE Events -------------------------------
(***************************************************************************)
(* The security events the service emits, kept as what an auditor can read *)
(* out of the event stream: the checkpoints announced, the number of       *)
(* deletions reported and the periods reported as broken.                  *)
(***************************************************************************)
EXTENDS Integers

VARIABLES
    written,        \* checkpoint_written events: [period, count]
    reported,       \* sum of the purged counts of the retention_purge events
    alarms          \* periods of the integrity_mismatch events

eventVars == <<written, reported, alarms>>

EventsInit ==
    /\ written = {}
    /\ reported = 0
    /\ alarms = {}

CheckpointWritten(period, count) ==
    /\ written' = written \cup {[period |-> period, count |-> count]}
    /\ UNCHANGED <<reported, alarms>>

RetentionPurge(purged) ==
    /\ reported' = reported + purged
    /\ UNCHANGED <<written, alarms>>

IntegrityMismatch(period) ==
    /\ alarms' = alarms \cup {period}
    /\ UNCHANGED <<written, reported>>
=============================================================================
