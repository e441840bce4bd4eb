----------------------------- MODULE Subscriber -----------------------------
(***************************************************************************)
(* Live timing with a subscriber behind an mqtt_send that may fail: what   *)
(* becomes of a lane result that is remembered although the gate was       *)
(* closed or its message was lost.  Nothing the analysers do depends on    *)
(* the result of mqtt_send.                                                *)
(***************************************************************************)
EXTENDS LiveTiming

VARIABLES
  heard,    \* per lane: the last result that arrived, <<>>: none
  missed    \* lanes whose remembered result was held back or lost

subscriberVars == <<vars, heard, missed>>

Unheard == <<>>

SubscriberInit ==
  /\ Init
  /\ heard = [l \in LaneNos |-> Unheard]
  /\ missed = {}

(* mqtt_send hands the message of lane l on or loses it; there is none if  *)
(* the gate is closed.                                                     *)
Deliver(l) ==
  \/ /\ sent' # <<>>
     /\ heard' = [heard EXCEPT ![l] = sent'[1]]
     /\ missed' = missed \ {l}
  \/ UNCHANGED heard /\ missed' = missed \cup {l}

(* What is not remembered any more cannot be missed; what was heard of it  *)
(* no longer counts.                                                       *)
NoResult ==
  LET forgotten == {l \in LaneNos : coloradoHeatData'[l] = NullTime}
  IN  /\ missed' = missed \ forgotten
      /\ heard' = [l \in LaneNos |-> IF l \in forgotten THEN Unheard ELSE heard[l]]

LaneStepLossy ==
  /\ LaneStep
  /\ LET l == frame' IN
       IF IsNews(l, colorado_data'[l]) THEN Deliver(l) ELSE NoResult

OtherStep == (ClockStep \/ HeaderStep \/ RoundStep) /\ NoResult

SubscriberNext == LaneStepLossy \/ OtherStep

SubscriberSpec == SubscriberInit /\ [][SubscriberNext]_subscriberVars

-----------------------------------------------------------------------------
(* What a subscriber knows of a lane is what the program remembers of it,  *)
(* or that result itself was held back by the gate or lost on its way      *)
(* (analyseLane.cpp:236 and :118 remember it all the same): a loss reaches *)
(* no later result and no later race.                                      *)
Tells(r, l) ==
  /\ r # Unheard
  /\ r.time = coloradoHeatData[l]
  /\ Decimal(r.place) = coloradoPlaceData[l]

LossIsLocal ==
  \A l \in LaneNos \ missed : coloradoHeatData[l] # NullTime => Tells(heard[l], l)
=============================================================================
