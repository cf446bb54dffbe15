-------------------------------- MODULE Clock --------------------------------
(***************************************************************************)
(* The wall clock that every time.Now().UTC() of the code reads.  It never *)
(* goes back, and the instances of the service share it (synchronised      *)
(* hosts).  The model starts one window after instant 0, so that the       *)
(* cutoff of every instant it reaches is defined.                          *)
(***************************************************************************)
EXTENDS Calendar

VARIABLE now

ClockTypeOK == now \in Window..MaxTime

ClockInit == now = Window

Tick ==
    /\ now < MaxTime
    /\ now' = now + 1
==============================================================================
