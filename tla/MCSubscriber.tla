---------------------------- MODULE MCSubscriber ----------------------------
(***************************************************************************)
(* The score boards of MCLiveTiming before a subscriber whose messages may *)
(* be lost.                                                                *)
(***************************************************************************)
EXTENDS MCLiveTiming, Subscriber

(* The rounds share no state with the other channels: a behaviour has only *)
(* round frames, or none.                                                  *)
ClockHeard == frame # RoundChannel /\ ClockStep /\ NoResult

OneKindNext ==
  \/ /\ frame # RoundChannel
     /\ LaneStepLossy \/ (HeaderStep /\ NoResult)
  \/ ClockHeard
  \/ /\ frame \in {-1, RoundChannel}
     /\ RoundStep /\ NoResult

(* The board repeats its clock frame all the time. *)
OneKindSpec ==
  /\ SubscriberInit /\ [][OneKindNext]_subscriberVars
  /\ WF_subscriberVars(ClockHeard)
=============================================================================
