---------------------------- MODULE TaskLifecycle ----------------------------
(***************************************************************************)
(* The goroutine of the retention task: Start, the loop over the stop      *)
(* channel and the ticker, and Stop.                                       *)
(*                                                                         *)
(* The stop channel is unbuffered: Stop waits in its send until the loop   *)
(* is back in its select.  The ticker's channel holds one tick; a tick     *)
(* that finds one waiting is dropped, and a stopped ticker delivers none,  *)
(* not even one that was waiting (Go 1.23 and later).  A sweep is one      *)
(* state here; RetentionTask has its steps.                                *)
(***************************************************************************)

VARIABLES
    ticker,         \* t.ticker: "nil", "running" or "stopped"
    due,            \* whether a tick waits in the ticker's channel
    loop,           \* the goroutine: "none", "sweep", "select" or "done"
    stopper         \* the caller of Stop: "idle", "send", "clear" or "returned"

taskVars == <<ticker, due, loop, stopper>>

TaskTypeOK ==
    /\ ticker \in {"nil", "running", "stopped"}
    /\ due \in BOOLEAN
    /\ loop \in {"none", "sweep", "select", "done"}
    /\ stopper \in {"idle", "send", "clear", "returned"}

\* NewRetentionTask: neither ticker nor channel yet.
NewRetentionTask ==
    /\ ticker = "nil"
    /\ due = FALSE
    /\ loop = "none"
    /\ stopper = "idle"

-----------------------------------------------------------------------------
\* The goroutine sweeps once before it first waits.
Start ==
    /\ ticker' = "running"
    /\ due' = FALSE
    /\ loop' = "sweep"
    /\ UNCHANGED stopper

\* Mutant of TickerFires: a timer, which fires once.
TickerFires_Once ==
    /\ ticker = "running"
    /\ due' = TRUE
    /\ ticker' = "stopped"
    /\ UNCHANGED <<loop, stopper>>

\* The interval is over.
TickerFires ==
    /\ ticker = "running"
    /\ ~due
    /\ due' = TRUE
    /\ UNCHANGED <<ticker, loop, stopper>>

\* Mutant of SweepEnds: the loop returns when the sweep failed.
SweepEnds_OrReturns ==
    /\ loop = "sweep"
    /\ loop' \in {"select", "done"}
    /\ UNCHANGED <<ticker, due, stopper>>

\* runOnce returns, whatever its calls answered, and the loop selects.
SweepEnds ==
    /\ loop = "sweep"
    /\ loop' = "select"
    /\ UNCHANGED <<ticker, due, stopper>>

TickReceived ==
    /\ loop = "select"
    /\ due
    /\ due' = FALSE
    /\ loop' = "sweep"
    /\ UNCHANGED <<ticker, stopper>>

\* Mutants of Stop: the ticker is left running; it is cleared before the send.
Stop_TickerRuns ==
    /\ stopper = "idle"
    /\ stopper' = IF ticker # "nil" THEN "send" ELSE "returned"
    /\ UNCHANGED <<ticker, due, loop>>

Stop_ClearsFirst ==
    /\ stopper = "idle"
    /\ IF ticker # "nil"
       THEN ticker' = "nil" /\ due' = FALSE /\ stopper' = "send"
       ELSE stopper' = "returned" /\ UNCHANGED <<ticker, due>>
    /\ UNCHANGED loop

\* Stop before Start returns at once; otherwise it silences the ticker and
\* blocks in the send.
Stop ==
    /\ stopper = "idle"
    /\ IF ticker # "nil"
       THEN ticker' = "stopped" /\ due' = FALSE /\ stopper' = "send"
       ELSE stopper' = "returned" /\ UNCHANGED <<ticker, due>>
    /\ UNCHANGED loop

\* Send and receive meet: the goroutine returns.
StopReceived ==
    /\ stopper = "send"
    /\ loop = "select"
    /\ loop' = "done"
    /\ stopper' = "clear"
    /\ UNCHANGED <<ticker, due>>

StopReturns ==
    /\ stopper = "clear"
    /\ ticker' = "nil"
    /\ stopper' = "returned"
    /\ UNCHANGED <<due, loop>>

TaskStep ==
    \/ TickerFires
    \/ SweepEnds
    \/ TickReceived
    \/ StopReceived
    \/ StopReturns
=============================================================================
