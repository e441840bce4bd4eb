---------------------------- MODULE RunningTime -----------------------------
(***************************************************************************)
(* analyseRunningTime.cpp: publish the running time every so many clock    *)
(* frames, and open or close the gate for lane results (sendActiveState).  *)
(***************************************************************************)
EXTENDS BoardRow

CONSTANTS
  SEND_TIME_EVERY_COUNTS,       \* 20 in the code
  INACTIVE_TIME_AFTER_START     \* 200 in the code

ASSUME RunningTimeAssumption ==
  /\ SEND_TIME_EVERY_COUNTS \in Nat
  /\ INACTIVE_TIME_AFTER_START \in Nat

VARIABLES loopcount, sendActiveState, headerChange

runningTimeVars == <<loopcount, sendActiveState, headerChange>>

InitRunningTime ==
  /\ loopcount = 0
  /\ sendActiveState = FALSE
  /\ headerChange = FALSE

RunningTimeTypeOK ==
  /\ loopcount \in 0..(SEND_TIME_EVERY_COUNTS + 1)
  /\ sendActiveState \in BOOLEAN
  /\ headerChange \in BOOLEAN

-----------------------------------------------------------------------------
TimeHundredth(row) ==
  LET c(d) == CheckBitValue(row[d])
      minutes == c(2) * 10 + c(3)
      seconds == c(4) * 10 + c(5)
  IN  (minutes * 60 + seconds) * 100 + c(6) * 10

(* timehundredth leaves the gate alone at exactly the limit. *)
GateAfter(row) ==
  \/ TimeHundredth(row) > INACTIVE_TIME_AFTER_START
  \/ TimeHundredth(row) = INACTIVE_TIME_AFTER_START /\ sendActiveState

SendNow == loopcount > SEND_TIME_EVERY_COUNTS

(* Mutant: an open gate is never closed by the clock. *)
GetTimeNoClose(row) ==
  IF SendNow
    THEN /\ loopcount' = 1
         /\ sendActiveState' =
              IF headerChange THEN sendActiveState
                              ELSE sendActiveState \/ GateAfter(row)
         /\ headerChange' = FALSE
    ELSE /\ loopcount' = loopcount + 1
         /\ UNCHANGED <<sendActiveState, headerChange>>

(* Mutant: the wait after a header change is never over. *)
GetTimeKeepsWaiting(row) ==
  IF SendNow
    THEN /\ loopcount' = 1
         /\ sendActiveState' = IF headerChange THEN sendActiveState
                                               ELSE GateAfter(row)
         /\ UNCHANGED headerChange
    ELSE /\ loopcount' = loopcount + 1
         /\ UNCHANGED <<sendActiveState, headerChange>>

(* getTime: loopcount is set to 0 and incremented in the same call. *)
GetTime(row) ==
  IF SendNow
    THEN /\ loopcount' = 1
         /\ sendActiveState' = IF headerChange THEN sendActiveState
                                               ELSE GateAfter(row)
         /\ headerChange' = FALSE
    ELSE /\ loopcount' = loopcount + 1
         /\ UNCHANGED <<sendActiveState, headerChange>>

(* Evaluated before the step. *)
TimeMsgs(row) ==
  IF SendNow
    THEN << [kind |-> "time",
             time |-> [i \in 1..5 |-> CheckBitValue(row[i + 1])]] >>
    ELSE <<>>

(* Mutant: the gate is closed, but may open at the next look. *)
SetSendActiveStateOffOnly ==
  /\ sendActiveState' = FALSE
  /\ UNCHANGED <<headerChange, loopcount>>

SetSendActiveStateOff ==
  /\ sendActiveState' = FALSE
  /\ headerChange' = TRUE
  /\ UNCHANGED loopcount
=============================================================================
