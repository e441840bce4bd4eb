----------------------------- MODULE StartStop ------------------------------
(***************************************************************************)
(* analyseStartStop.cpp: from the running time on the clock, tell when a   *)
(* race starts and when it is over.                                        *)
(*                                                                         *)
(* While a race is on the clock is not looked at in every frame; the       *)
(* moment at which a zero clock means `stop' depends on how many frames    *)
(* came since it was last looked at.                                       *)
(***************************************************************************)
EXTENDS BoardRow

VARIABLES
  noworking,      \* clock frames since the clock was last looked at
  pending,        \* what it showed then
  b_stopping      \* the state last announced: TRUE after "start"

startStopVars == <<noworking, pending, b_stopping>>

StartStopInit ==
  /\ noworking = 0
  /\ pending = FALSE
  /\ b_stopping = FALSE

StartStopTypeOK ==
  /\ noworking \in 0..5
  /\ pending \in BOOLEAN
  /\ b_stopping \in BOOLEAN

-----------------------------------------------------------------------------
(* Minutes, tens of seconds, seconds or tenths are lit and not 0. *)
(* Tens of minutes (digit 2) are not looked at.                   *)
Running(row) == \E d \in 3..6 : row[d] \notin {0, Blank}

(* Mutant: a look at every clock frame is skipped once more. *)
LookNowLate == noworking + 1 > 6 \/ ~pending

LookNow == noworking + 1 > 5 \/ ~pending

(* checknotnull: the result is pending'. *)
CheckNotNull(row) ==
  IF LookNow THEN noworking' = 0 /\ pending' = Running(row)
             ELSE noworking' = noworking + 1 /\ UNCHANGED pending

(* checkStartStop: the lanes are reset and the change is announced if      *)
(* StateChanged.                                                           *)
CheckStartStop(row) ==
  /\ CheckNotNull(row)
  /\ b_stopping' = pending'

StateChanged == b_stopping # b_stopping'

StartStopMsgs ==
  IF StateChanged
    THEN << [kind |-> IF b_stopping' THEN "start" ELSE "stop"] >>
    ELSE <<>>
=============================================================================
