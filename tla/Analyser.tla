------------------------------ MODULE Analyser ------------------------------
(***************************************************************************)
(* What putReadData does with a complete frame (analyseData.cpp, lines     *)
(* 95-130): store its digits and run the analyser of its channel.          *)
(*                                                                         *)
(* Everything happens inside one call of putReadData, on one thread, so a  *)
(* frame is one step.  `sent' is what the step gave to mqtt_send, in       *)
(* order; no caller looks at the result of mqtt_send, so that the state of *)
(* the analysers does not depend on the broker.                            *)
(***************************************************************************)
EXTENDS StartStop, RunningTime, Lanes, Header

CONSTANTS
  FrameDigits,    \* per channel: the digits its frames may carry
  SecondHalf      \* channels that also send frames with control bit 1

Clock == 0
HeaderChannel == 12
RoundChannel == 18
Channels == {Clock, HeaderChannel, RoundChannel} \cup LaneNos

ASSUME FrameDigitsAssumption ==
  \A ch \in Channels : \A f \in FrameDigits[ch] :
    DOMAIN f \subseteq Digits /\ \A d \in DOMAIN f : f[d] \in 0..15

VARIABLES
  colorado_data,    \* the rows of the channels that are analysed
  sent              \* messages of the last step

analyserVars ==
  <<startStopVars, runningTimeVars, laneVars, COLORADO_HEADER_DATA, roundVars,
    colorado_data, sent>>

-----------------------------------------------------------------------------
InitReadData ==
  /\ colorado_data = [ch \in Channels |-> InitialRow]
  /\ sent = <<>>
  /\ StartStopInit
  /\ InitRunningTime
  /\ InitLanes
  /\ InitHeader
  /\ InitRounds

(* The row after a frame of the channel.  A frame with control bit 1       *)
(* changes nothing that is read, but the analyser runs all the same, on    *)
(* the row as it is.                                                       *)
RowsAfterFrame(ch) ==
  {Overlay(colorado_data[ch], f) : f \in FrameDigits[ch]}
    \cup {colorado_data[c] : c \in SecondHalf \cap {ch}}

Store(ch, row) == colorado_data' = [colorado_data EXCEPT ![ch] = row]

(* Mutant: a change of state leaves the lanes alone. *)
ClockFrameNoReset(row) ==
  /\ Store(Clock, row)
  /\ CheckStartStop(row)
  /\ GetTime(row)
  /\ sent' = StartStopMsgs \o TimeMsgs(row)
  /\ UNCHANGED <<laneVars, COLORADO_HEADER_DATA, roundVars>>

(* Mutant: the clock is looked at before the frame is stored. *)
ClockFrameOldRow(row) ==
  /\ Store(Clock, row)
  /\ CheckStartStop(colorado_data[Clock])
  /\ GetTime(row)
  /\ sent' = StartStopMsgs \o TimeMsgs(row)
  /\ IF StateChanged THEN ResetAllData ELSE UNCHANGED laneVars
  /\ UNCHANGED <<COLORADO_HEADER_DATA, roundVars>>

ClockFrame(row) ==
  /\ Store(Clock, row)
  /\ CheckStartStop(row)
  /\ GetTime(row)
  /\ sent' = StartStopMsgs \o TimeMsgs(row)
  /\ IF StateChanged THEN ResetAllData ELSE UNCHANGED laneVars
  /\ UNCHANGED <<COLORADO_HEADER_DATA, roundVars>>

LaneFrame(l, row) ==
  /\ Store(l, row)
  /\ GetLaneTime(l, row)
  /\ sent' = LaneMsgs(l, row, sendActiveState)
  /\ UNCHANGED <<startStopVars, runningTimeVars, COLORADO_HEADER_DATA, roundVars>>

HeaderFrame(row) ==
  /\ Store(HeaderChannel, row)
  /\ StoreHeader(row)
  /\ sent' = HeaderMsgs(row)
  /\ IF HeaderChanged(row) THEN SetSendActiveStateOff /\ ResetAllData
                           ELSE UNCHANGED <<runningTimeVars, laneVars>>
  /\ UNCHANGED <<startStopVars, roundVars>>

RoundFrame(row) ==
  /\ Store(RoundChannel, row)
  /\ StoreRounds(row)
  /\ sent' = RoundMsgs(row)
  /\ UNCHANGED <<startStopVars, runningTimeVars, laneVars, COLORADO_HEADER_DATA>>

AnalyseFrame ==
  \/ \E row \in RowsAfterFrame(Clock) : ClockFrame(row)
  \/ \E l \in LaneNos : \E row \in RowsAfterFrame(l) : LaneFrame(l, row)
  \/ \E row \in RowsAfterFrame(HeaderChannel) : HeaderFrame(row)
  \/ \E row \in RowsAfterFrame(RoundChannel) : RoundFrame(row)

-----------------------------------------------------------------------------
AnalyserTypeOK ==
  /\ colorado_data \in [Channels -> Row]
  /\ StartStopTypeOK
  /\ RunningTimeTypeOK
  /\ LanesTypeOK
  /\ p_round \in 0..MaxRound
=============================================================================
