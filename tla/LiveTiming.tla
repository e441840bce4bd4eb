----------------------------- MODULE LiveTiming -----------------------------
(***************************************************************************)
(* The analysers together, seen from both ends: from the score board, that *)
(* shows a clock, lanes and a header, and from a subscriber of the         *)
(* messages.  The variables of this module only observe; they are what the *)
(* properties compare the program's own state with.                        *)
(***************************************************************************)
EXTENDS Analyser

VARIABLES
  raceOn,       \* subscriber: the last of "start" and "stop" was "start"
  zeroFrames,   \* clock frames in a row on which no race time is lit
  sinceLive,    \* clock frames since one at or above the inactive time
  sinceHeader,  \* clock frames since the last "header" message
  shown,        \* per lane: its last message, while that is still valid
  lastRound,    \* the number in the last "round" message, -1: none yet
  frame         \* channel of the last frame, -1: none yet

observers ==
  <<raceOn, zeroFrames, sinceLive, sinceHeader, shown, lastRound, frame>>
vars == <<analyserVars, observers>>

(* shown[l] when a subscriber has no result of lane l: there is none, or   *)
(* the gate was closed when it came.                                       *)
Nothing == [kind |-> "nothing"]
Held == [kind |-> "held"]

(* The observers count no further than the properties can tell apart. *)
MaxZeroFrames == 6
MaxSinceLive == SEND_TIME_EVERY_COUNTS + 1
MaxSinceHeader == SEND_TIME_EVERY_COUNTS + 2

UpTo(max, n) == IF n > max THEN max ELSE n

Sent(kinds) == \E i \in DOMAIN sent' : sent'[i].kind \in kinds

-----------------------------------------------------------------------------
Init ==
  /\ InitReadData
  /\ raceOn = FALSE
  /\ zeroFrames = MaxZeroFrames
  /\ sinceLive = MaxSinceLive
  /\ sinceHeader = MaxSinceHeader
  /\ shown = [l \in LaneNos |-> Nothing]
  /\ lastRound = -1
  /\ frame = -1

ObserveRace == raceOn' = IF Sent({"start"}) THEN TRUE
                         ELSE IF Sent({"stop"}) THEN FALSE ELSE raceOn

(* Start, stop and a new header make what the lanes showed obsolete. *)
ForgetLanes == shown' = IF Sent({"start", "stop", "header"})
                          THEN [l \in LaneNos |-> Nothing] ELSE shown

ClockStep ==
  \E row \in RowsAfterFrame(Clock) :
    /\ ClockFrame(row)
    /\ ObserveRace
    /\ ForgetLanes
    /\ zeroFrames' = IF Running(row) THEN 0
                                     ELSE UpTo(MaxZeroFrames, zeroFrames + 1)
    /\ sinceLive' = IF TimeHundredth(row) >= INACTIVE_TIME_AFTER_START
                      THEN 0 ELSE UpTo(MaxSinceLive, sinceLive + 1)
    /\ sinceHeader' = UpTo(MaxSinceHeader, sinceHeader + 1)
    /\ frame' = Clock
    /\ UNCHANGED lastRound

(* What a lane row says, in the terms of a lane message. *)
Result(l, row) ==
  [kind  |-> "lane", lane |-> l,
   time  |-> [i \in 1..6 |-> CheckBitValue(row[i + 1])],
   place |-> CheckBitValue(row[1])]

(* A result a subscriber knows: its time, and its place if there is one.   *)
Known(l, r) ==
  /\ shown[l] \notin {Nothing, Held}
  /\ r.time = shown[l].time
  /\ r.place \in {0, shown[l].place}

LaneStep ==
  \E l \in LaneNos : \E row \in RowsAfterFrame(l) :
    /\ LaneFrame(l, row)
    /\ shown' = [shown EXCEPT ![l] =
         CASE sent' # <<>> -> sent'[1]
           [] sent' = <<>> /\ TimeText(row) = NullTime -> Nothing
           [] sent' = <<>> /\ TimeText(row) # NullTime ->
                IF sendActiveState \/ Known(l, Result(l, row)) THEN @ ELSE Held]
    /\ frame' = l
    /\ UNCHANGED <<raceOn, zeroFrames, sinceLive, sinceHeader, lastRound>>

HeaderStep ==
  \E row \in RowsAfterFrame(HeaderChannel) :
    /\ HeaderFrame(row)
    /\ ForgetLanes
    /\ sinceHeader' = IF Sent({"header"}) THEN 0 ELSE sinceHeader
    /\ frame' = HeaderChannel
    /\ UNCHANGED <<raceOn, zeroFrames, sinceLive, lastRound>>

RoundStep ==
  \E row \in RowsAfterFrame(RoundChannel) :
    /\ RoundFrame(row)
    /\ lastRound' = IF Sent({"round"}) THEN sent'[1].round ELSE lastRound
    /\ frame' = RoundChannel
    /\ UNCHANGED <<raceOn, zeroFrames, sinceLive, sinceHeader, shown>>

Next == ClockStep \/ LaneStep \/ HeaderStep \/ RoundStep

Spec == Init /\ [][Next]_vars

-----------------------------------------------------------------------------
ObserversOK ==
  /\ raceOn \in BOOLEAN
  /\ zeroFrames \in 0..MaxZeroFrames
  /\ sinceLive \in 0..MaxSinceLive
  /\ sinceHeader \in 0..MaxSinceHeader
  /\ lastRound \in -1..MaxRound
  /\ frame \in Channels \cup {-1}

TypeOK == AnalyserTypeOK /\ ObserversOK

(* A zero clock is noticed at the sixth frame at the latest, although      *)
(* checknotnull skips frames, and a race time at once: by the time         *)
(* zeroFrames says so the message has been sent.                           *)
RaceFollowsClock ==
  /\ zeroFrames = MaxZeroFrames => ~raceOn
  /\ zeroFrames = 0 => raceOn

(* "stop" is only sent on a clock that shows full tens of minutes:         *)
(* checkStartStop never ends a race on a reading that is out of date.      *)
StopOnlyAtZero ==
  [][raceOn /\ ~raceOn'
       => TimeHundredth(colorado_data'[Clock]) % 60000 = 0]_vars

LaneSent == \E i \in DOMAIN sent : sent[i].kind = "lane"

(* The gate is looked at only every SEND_TIME_EVERY_COUNTS + 1 clock       *)
(* frames: a lane result is published at most that long after the clock    *)
(* last showed the inactive time or more.                                  *)
GateLag == LaneSent => sinceLive <= SEND_TIME_EVERY_COUNTS

(* After a header change the lanes show rubbish for a while; nothing of it *)
(* is published before a full sending period of the clock has passed.      *)
QuietAfterHeader == LaneSent => sinceHeader >= SEND_TIME_EVERY_COUNTS + 2

(* A subscriber is told nothing twice, and the place of a time, once told, *)
(* is not taken back while that time stays (getLaneTime ignores the place  *)
(* 0 that comes with a time already known).                                *)
OnlyNews ==
  [][\A l \in LaneNos :
       frame' = l /\ sent' # <<>> => ~Known(l, sent'[1])]_vars

(* With the gate open every first result after a start, a stop, a header   *)
(* change or a cleared lane is published, also if it is the one the lane   *)
(* had before: nothing getLaneTime remembers outlives resetAllData.        *)
FirstResultPublished ==
  [][\A l \in LaneNos :
       (/\ frame' = l /\ sendActiveState /\ shown[l] = Nothing
        /\ TimeText(colorado_data'[l]) # NullTime)
         => sent' = <<Result(l, colorado_data'[l])>>]_vars

(* The rounds a subscriber hears of are numbered without a gap from 1 on,  *)
(* and a cleared board, announced once as round 0, starts them over.       *)
RoundsNumbered ==
  [][\A i \in DOMAIN sent' :
       sent'[i].kind = "round" /\ frame' = RoundChannel
         => IF RoundText(colorado_data'[RoundChannel]) = NullRounds
              THEN sent'[i].round = 0 /\ lastRound # 0
              ELSE sent'[i].round = (IF lastRound = -1 THEN 1 ELSE lastRound + 1)]_vars

(* A board back at zero ends the race for everybody: "stop" is sent, and   *)
(* the gate for lane results closes and stays closed.                      *)
ClockAtZero ==
  /\ ~Running(colorado_data[Clock])
  /\ TimeHundredth(colorado_data[Clock]) < INACTIVE_TIME_AFTER_START

RaceEnded == ~raceOn /\ ~sendActiveState

ZeroClockEndsRace == <>[]ClockAtZero => <>[]RaceEnded

(* A running race opens the gate, unless the header keeps changing.  The   *)
(* row says nothing before the first frame of the clock (sinceLive).       *)
ClockLive ==
  /\ sinceLive = 0
  /\ TimeHundredth(colorado_data[Clock]) > INACTIVE_TIME_AFTER_START
  /\ sinceHeader > 0

RunningClockOpensGate == <>[]ClockLive => <>[]sendActiveState
-----------------------------------------------------------------------------
(* What comments in the code say, and the code does not do.                *)

(* analyseLane.cpp:110, "wir schicken nur wenn die uhr laeuft": lane       *)
(* results are published only while the clock runs.                        *)
LanesOnlyWhileRunning == LaneSent => raceOn
=============================================================================
