-------------------------- MODULE LiveTimingProofs --------------------------
(***************************************************************************)
(* For every length of the sending period, every inactive time and every   *)
(* board: when a race is announced, and when lane results may be.          *)
(*                                                                         *)
(* None of the properties is inductive.  What carries them is how the two  *)
(* counters of the program, noworking and loopcount, bound what the        *)
(* observers have counted since the clock was last looked at.              *)
(***************************************************************************)
EXTENDS Subscriber, SequenceTheorems, TLAPS

-----------------------------------------------------------------------------
(* Lemmas about the operators of the analysers: rows stay rows, texts keep *)
(* their width, and a clock frame sends what its two handlers say.         *)

(* colorado_data holds values of four bits only.                           *)
LEMMA RowsAfterFrameAreRows ==
  ASSUME NEW ch \in Channels, colorado_data \in [Channels -> Row],
         NEW row \in RowsAfterFrame(ch)
  PROVE  row \in Row
<1>1. CASE row \in {colorado_data[c] : c \in SecondHalf \cap {ch}}
  BY <1>1
<1>2. ASSUME NEW f \in FrameDigits[ch], row = Overlay(colorado_data[ch], f)
      PROVE  row \in Row
  <2>1. /\ DOMAIN f \subseteq Digits
        /\ \A d \in DOMAIN f : f[d] \in 0..15
    BY FrameDigitsAssumption
  <2>2. \A d \in Digits : colorado_data[ch][d] \in 0..15
    BY DEF Row
  <2> QED
    BY <1>2, <2>1, <2>2 DEF Overlay, Row
<1> QED
  BY <1>1, <1>2 DEF RowsAfterFrame

LEMMA CheckBitValueType ==
  ASSUME NEW row \in Row, NEW d \in Digits
  PROVE  CheckBitValue(row[d]) \in 0..10
BY DEF Row, Digits, CheckBitValue

(* The clock as a number, for the comparison with the inactive time.       *)
LEMMA TimeHundredthType ==
  ASSUME NEW row \in Row
  PROVE  TimeHundredth(row) \in Nat
<1>1. \A d \in 2..6 : CheckBitValue(row[d]) \in 0..10
  BY CheckBitValueType DEF Digits
<1> DEFINE c(d) == CheckBitValue(row[d])
<1>2. /\ c(2) \in Nat /\ c(3) \in Nat /\ c(4) \in Nat
      /\ c(5) \in Nat /\ c(6) \in Nat
  BY <1>1
<1> HIDE DEF c
<1>3. (((c(2) * 10 + c(3)) * 60 + (c(4) * 10 + c(5))) * 100 + c(6) * 10) \in Nat
  BY <1>2
<1> QED
  BY <1>3 DEF c, TimeHundredth

-----------------------------------------------------------------------------
(* Texts: one or two characters per digit, each of them a decimal digit.   *)
LEMMA CharType ==
  ASSUME NEW row \in Row, NEW d \in Digits
  PROVE  Char(row, d) \in Seq(0..9) /\ Len(Char(row, d)) \in 1..2
<1> DEFINE v == CheckBitValue(row[d])
<1>1. v \in 0..10
  BY CheckBitValueType
<1>2. <<1, 0>> \in Seq(0..9) /\ Len(<<1, 0>>) = 2
  OBVIOUS
<1>3. v # 10 => <<v>> \in Seq(0..9) /\ Len(<<v>>) = 1
  BY <1>1
<1>4. Char(row, d) = IF v = 10 THEN <<1, 0>> ELSE <<v>>
  BY DEF Char, Decimal
<1> HIDE DEF v
<1>5. CASE v = 10
  BY <1>2, <1>4, <1>5
<1>6. CASE v # 10
  BY <1>3, <1>4, <1>6
<1> QED
  BY <1>5, <1>6

LEMMA ConcatWidth ==
  ASSUME NEW s \in Seq(0..9), NEW t \in Seq(0..9)
  PROVE  s \o t \in Seq(0..9) /\ Len(s \o t) = Len(s) + Len(t)
BY ConcatProperties

LEMMA CharsType ==
  ASSUME NEW row \in Row, NEW d \in 0..5
  PROVE  Chars(row, d) \in Seq(0..9) /\ Len(Chars(row, d)) \in 3..6
<1>1. d \in Digits /\ d + 1 \in Digits /\ d + 2 \in Digits
  BY DEF Digits
<1> DEFINE a == Char(row, d)
           b == Char(row, d + 1)
           c == Char(row, d + 2)
<1>2. /\ a \in Seq(0..9) /\ Len(a) \in 1..2
      /\ b \in Seq(0..9) /\ Len(b) \in 1..2
      /\ c \in Seq(0..9) /\ Len(c) \in 1..2
  BY <1>1, CharType
<1> HIDE DEF a, b, c
<1> DEFINE ab == a \o b
           abc == ab \o c
<1>3. ab \in Seq(0..9) /\ Len(ab) = Len(a) + Len(b)
  BY <1>2, ConcatWidth
<1> HIDE DEF ab
<1>4. abc \in Seq(0..9) /\ Len(abc) = Len(ab) + Len(c)
  BY <1>2, <1>3, ConcatWidth
<1>5. Chars(row, d) = abc
  BY DEF Chars, abc, ab, a, b, c
<1> HIDE DEF abc
<1>6. /\ \A x \in 1..2, y \in 1..2 : x + y \in 2..4
      /\ \A x \in 2..4, y \in 1..2 : x + y \in 3..6
  OBVIOUS
<1>7. Len(ab) \in 2..4
  BY <1>2, <1>3, <1>6
<1>8. Len(abc) \in 3..6
  BY <1>2, <1>4, <1>6, <1>7
<1> QED
  BY <1>4, <1>5, <1>8

(* The time of a lane fits the 18 bytes allocated for it, and what is kept *)
(* of it the 8 that strncpy copies.                                        *)
LEMMA TimeTextType ==
  ASSUME NEW row \in Row
  PROVE  /\ TimeText(row) \in Seq(0..9) /\ Len(TimeText(row)) \in 6..12
         /\ Stored(TimeText(row)) \in Seq(0..9)
         /\ Len(Stored(TimeText(row))) \in 6..8
<1> DEFINE a == Chars(row, 2)
           b == Chars(row, 5)
           t == TimeText(row)
<1>1. /\ a \in Seq(0..9) /\ Len(a) \in 3..6
      /\ b \in Seq(0..9) /\ Len(b) \in 3..6
  BY CharsType
<1>2. t = a \o b /\ t = TimeText(row)
  BY DEF TimeText
<1> HIDE DEF a, b, t
<1>3. t \in Seq(0..9) /\ Len(t) = Len(a) + Len(b)
  BY <1>1, <1>2, ConcatWidth
<1>6. Len(t) \in 6..12
  <2>1. \A x \in 3..6, y \in 3..6 : x + y \in 6..12
    OBVIOUS
  <2> QED
    BY <1>1, <1>3, <2>1
<1>4. CASE Len(t) > 8
  <2>1. SubSeq(t, 1, 8) \in Seq(0..9) /\ Len(SubSeq(t, 1, 8)) = 8
    BY <1>3, <1>4
  <2> QED
    BY <1>2, <1>3, <1>4, <1>6, <2>1 DEF Stored
<1>5. CASE ~(Len(t) > 8)
  <2>1. Stored(t) = t
    BY <1>5 DEF Stored
  <2> QED
    BY SMTT(30), <1>2, <1>3, <1>5, <1>6, <2>1
<1> QED
  BY <1>4, <1>5

LEMMA PlaceTextType ==
  ASSUME NEW row \in Row
  PROVE  PlaceText(row) \in Seq(0..9) /\ Len(PlaceText(row)) \in 1..2
BY CharType DEF PlaceText, Digits

LEMMA NullTexts ==
  /\ NullTime \in Seq(0..9) /\ Len(NullTime) = 6
  /\ NullPlace \in Seq(0..9) /\ Len(NullPlace) = 1
BY DEF NullTime, NullPlace

LEMMA ResetAllDataType == ResetAllData => LanesTypeOK'
BY NullTexts DEF ResetAllData, LanesTypeOK

LEMMA RememberType ==
  ASSUME LanesTypeOK, NEW l \in LaneNos,
         NEW t \in Seq(0..9), Len(t) \in 6..8,
         NEW p \in Seq(0..9), Len(p) \in 1..2,
         Remember(l, t, p)
  PROVE  LanesTypeOK'
BY DEF Remember, LanesTypeOK

LEMMA GetLaneTimeType ==
  ASSUME LanesTypeOK, NEW l \in LaneNos, NEW row \in Row, GetLaneTime(l, row)
  PROVE  LanesTypeOK'
<1>1. CASE Remember(l, Stored(TimeText(row)), PlaceText(row))
  BY <1>1, RememberType, TimeTextType, PlaceTextType
<1>2. CASE Remember(l, NullTime, NullPlace)
  BY <1>2, RememberType, NullTexts
<1>3. CASE UNCHANGED laneVars
  BY <1>3 DEF laneVars, LanesTypeOK
<1> QED
  BY <1>1, <1>2, <1>3 DEF GetLaneTime

-----------------------------------------------------------------------------
LEMMA TwoMsgs ==
  ASSUME NEW a, NEW b
  PROVE  LET m == <<a>> \o <<b>> IN
         DOMAIN m = 1..2 /\ m[1] = a /\ m[2] = b
<1>1. <<a>> \in Seq({a, b}) /\ <<b>> \in Seq({a, b})
  OBVIOUS
<1>2. <<a>> \o <<b>> \in Seq({a, b}) /\ Len(<<a>> \o <<b>>) = 2
  BY <1>1
<1>3. (<<a>> \o <<b>>)[1] = a /\ (<<a>> \o <<b>>)[2] = b
  BY <1>1
<1> QED
  BY <1>2, <1>3, LenProperties

(* The messages of a clock frame: "start" or "stop" if the state changed,  *)
(* then "time" now and then, and nothing else.                             *)
LEMMA ClockMsgs ==
  ASSUME NEW row, NEW m, m = StartStopMsgs \o TimeMsgs(row)
  PROVE  /\ \A i \in DOMAIN m : m[i].kind \in {"start", "stop", "time"}
         /\ (\E i \in DOMAIN m : m[i].kind = "start") <=> StateChanged /\ b_stopping'
         /\ (\E i \in DOMAIN m : m[i].kind = "stop") <=> StateChanged /\ ~b_stopping'
<1> DEFINE s == StartStopMsgs
           t == TimeMsgs(row)
           e == [kind |-> IF b_stopping' THEN "start" ELSE "stop"]
           u == [kind |-> "time", time |-> [i \in 1..5 |-> CheckBitValue(row[i + 1])]]
<1>1. s = IF StateChanged THEN <<e>> ELSE <<>>
  BY DEF StartStopMsgs
<1>2. t = IF SendNow THEN <<u>> ELSE <<>>
  BY DEF TimeMsgs
<1>3. e.kind = (IF b_stopping' THEN "start" ELSE "stop") /\ u.kind = "time"
  OBVIOUS
<1>4. m = s \o t
  OBVIOUS
<1> HIDE DEF s, t, e, u
<1>5. CASE StateChanged /\ SendNow
  <2>1. DOMAIN m = 1..2 /\ m[1] = e /\ m[2] = u
    BY <1>1, <1>2, <1>4, <1>5, TwoMsgs
  <2> QED
    BY <1>3, <1>5, <2>1
<1>6. CASE StateChanged /\ ~SendNow
  <2>1. m = <<e>>
    BY <1>1, <1>2, <1>4, <1>6
  <2> QED
    BY <1>3, <1>6, <2>1
<1>7. CASE ~StateChanged /\ SendNow
  <2>1. m = <<u>>
    BY <1>1, <1>2, <1>4, <1>7
  <2> QED
    BY <1>3, <1>7, <2>1
<1>8. CASE ~StateChanged /\ ~SendNow
  <2>1. m = <<>>
    BY <1>1, <1>2, <1>4, <1>8
  <2> QED
    BY <1>8, <2>1
<1> QED
  BY <1>5, <1>6, <1>7, <1>8 DEF StateChanged, SendNow

-----------------------------------------------------------------------------

(* Zero frames seen while a race is on were all counted by noworking.      *)
RaceInv ==
  /\ raceOn = b_stopping
  /\ pending = b_stopping
  /\ pending => zeroFrames <= noworking
  /\ zeroFrames = 0 => pending

(* The gate is open only if the clock was live when last looked at, and it *)
(* is looked at only with no header change pending.                        *)
GateInv ==
  /\ sendActiveState => /\ ~headerChange
                        /\ sinceLive < loopcount
                        /\ sinceHeader = MaxSinceHeader
  /\ ~headerChange => sinceHeader >= loopcount
  /\ LaneSent => sendActiveState

TimingInv == TypeOK /\ RaceInv /\ GateInv

-----------------------------------------------------------------------------
LEMMA Constants ==
  /\ SEND_TIME_EVERY_COUNTS \in Nat /\ INACTIVE_TIME_AFTER_START \in Nat
  /\ MaxRound \in Nat
  /\ MaxSinceLive = SEND_TIME_EVERY_COUNTS + 1
  /\ MaxSinceHeader = SEND_TIME_EVERY_COUNTS + 2
  /\ MaxZeroFrames = 6
BY RunningTimeAssumption, MaxRoundAssumption
DEF MaxSinceLive, MaxSinceHeader, MaxZeroFrames

LEMMA InitialRowIsRow == InitialRow \in Row
BY DEF InitialRow, Row

LEMMA TimingInvInit == Init => TimingInv
<1> SUFFICES ASSUME Init PROVE TimingInv
  OBVIOUS
<1>0. /\ StartStopInit /\ InitRunningTime /\ InitLanes /\ p_round = 0
      /\ colorado_data = [ch \in Channels |-> InitialRow] /\ sent = <<>>
      /\ raceOn = FALSE /\ zeroFrames = 6
      /\ sinceLive = MaxSinceLive /\ sinceHeader = MaxSinceHeader
      /\ lastRound = -1 /\ frame = -1
  BY Constants DEF Init, InitReadData, InitRounds
<1>1. AnalyserTypeOK
  <2>1. colorado_data \in [Channels -> Row]
    BY <1>0, InitialRowIsRow
  <2>2. StartStopTypeOK
    <3>1. pending \in BOOLEAN /\ b_stopping \in BOOLEAN
      BY <1>0, Zenon DEF StartStopInit
    <3>2. noworking \in 0..5
      BY <1>0 DEF StartStopInit
    <3> QED
      BY <3>1, <3>2 DEF StartStopTypeOK
  <2>3. RunningTimeTypeOK
    <3>1. sendActiveState \in BOOLEAN /\ headerChange \in BOOLEAN
      BY <1>0, Zenon DEF InitRunningTime
    <3>2. loopcount \in 0..(SEND_TIME_EVERY_COUNTS + 1)
      BY <1>0, Constants DEF InitRunningTime
    <3> QED
      BY <3>1, <3>2 DEF RunningTimeTypeOK
  <2>4. LanesTypeOK
    BY <1>0, NullTexts DEF InitLanes, LanesTypeOK
  <2>5. p_round \in 0..MaxRound
    BY <1>0, Constants
  <2> QED
    BY <2>1, <2>2, <2>3, <2>4, <2>5 DEF AnalyserTypeOK
<1>2. ObserversOK
  <2>1. sinceLive \in 0..MaxSinceLive /\ sinceHeader \in 0..MaxSinceHeader
    BY <1>0, Constants
  <2>2. zeroFrames \in 0..MaxZeroFrames /\ lastRound \in -1..MaxRound
    BY <1>0, Constants
  <2> QED
    BY <1>0, <2>1, <2>2 DEF ObserversOK
<1>3. RaceInv
  <2>1. raceOn = b_stopping /\ pending = b_stopping /\ ~pending
    BY <1>0 DEF StartStopInit
  <2>2. zeroFrames # 0
    BY <1>0
  <2> QED
    BY <2>1, <2>2 DEF RaceInv
<1>4. GateInv
  <2>1. ~LaneSent
    BY <1>0 DEF LaneSent
  <2> QED
    BY <1>0, <2>1, Constants DEF GateInv, InitRunningTime
<1> QED
  BY <1>1, <1>2, <1>3, <1>4 DEF TimingInv, TypeOK

-----------------------------------------------------------------------------
(* A clock frame: both counters move.                                      *)
LEMMA ClockStepKeepsTimingInv == TimingInv /\ ClockStep => TimingInv'
<1> SUFFICES ASSUME TimingInv, ClockStep PROVE TimingInv'
  OBVIOUS
<1>1. PICK row \in RowsAfterFrame(Clock) :
        /\ ClockFrame(row) /\ ObserveRace /\ ForgetLanes
        /\ zeroFrames' = IF Running(row) THEN 0
                                         ELSE UpTo(MaxZeroFrames, zeroFrames + 1)
        /\ sinceLive' = IF TimeHundredth(row) >= INACTIVE_TIME_AFTER_START
                          THEN 0 ELSE UpTo(MaxSinceLive, sinceLive + 1)
        /\ sinceHeader' = UpTo(MaxSinceHeader, sinceHeader + 1)
        /\ frame' = Clock
        /\ UNCHANGED lastRound
  BY DEF ClockStep
<1>2. /\ AnalyserTypeOK /\ ObserversOK /\ RaceInv /\ GateInv
      /\ StartStopTypeOK /\ RunningTimeTypeOK /\ LanesTypeOK
  BY DEF TimingInv, TypeOK, AnalyserTypeOK
<1>3. row \in Row
  BY <1>2, RowsAfterFrameAreRows DEF AnalyserTypeOK, Channels
<1>4. TimeHundredth(row) \in Nat
  BY <1>3, TimeHundredthType
<1>5. CheckNotNull(row) /\ b_stopping' = pending' /\ GetTime(row)
  BY <1>1 DEF ClockFrame, CheckStartStop
<1>6. Running(row) \in BOOLEAN
  BY DEF Running
<1>7. StartStopTypeOK'
  BY <1>2, <1>5, <1>6 DEF StartStopTypeOK, CheckNotNull, LookNow
<1>8. RunningTimeTypeOK'
  <2>1. GateAfter(row) \in BOOLEAN
    BY DEF GateAfter
  <2>2. CASE SendNow
    <3>1. loopcount' = 1 /\ headerChange' = FALSE
      BY <1>5, <2>2 DEF GetTime
    <3>2. sendActiveState' \in BOOLEAN
      BY <1>2, <1>5, <2>1, <2>2, Zenon DEF RunningTimeTypeOK, GetTime
    <3>3. loopcount' \in 0..(SEND_TIME_EVERY_COUNTS + 1)
      BY <3>1, Constants
    <3> QED
      BY <3>1, <3>2, <3>3, Zenon DEF RunningTimeTypeOK
  <2>3. CASE ~SendNow
    BY <1>2, <1>5, <2>3, Constants DEF RunningTimeTypeOK, GetTime, SendNow
  <2> QED
    BY <2>2, <2>3
<1>9. AnalyserTypeOK'
  <2>1. colorado_data' \in [Channels -> Row]
    BY <1>1, <1>2, <1>3 DEF AnalyserTypeOK, ClockFrame, Store
  <2>2. LanesTypeOK'
    <3>1. CASE ResetAllData
      BY <3>1, ResetAllDataType
    <3>2. CASE UNCHANGED laneVars
      BY <1>2, <3>2 DEF LanesTypeOK, laneVars
    <3> QED
      BY <1>1, <3>1, <3>2 DEF ClockFrame
  <2>3. p_round' \in 0..MaxRound
    BY <1>1, <1>2 DEF AnalyserTypeOK, ClockFrame, roundVars
  <2> QED
    BY <1>7, <1>8, <2>1, <2>2, <2>3 DEF AnalyserTypeOK
<1>10. /\ \A i \in DOMAIN sent' : sent'[i].kind \in {"start", "stop", "time"}
       /\ Sent({"start"}) <=> StateChanged /\ b_stopping'
       /\ Sent({"stop"}) <=> StateChanged /\ ~b_stopping'
  <2>1. sent' = StartStopMsgs \o TimeMsgs(row)
    BY <1>1 DEF ClockFrame
  <2>2. /\ Sent({"start"}) <=> \E i \in DOMAIN sent' : sent'[i].kind = "start"
        /\ Sent({"stop"}) <=> \E i \in DOMAIN sent' : sent'[i].kind = "stop"
    BY DEF Sent
  <2> QED
    BY <2>1, <2>2, ClockMsgs
<1>11. raceOn' = b_stopping'
  BY <1>1, <1>2, <1>5, <1>7, <1>10
  DEF ObserveRace, RaceInv, StateChanged, StartStopTypeOK
<1>12. ObserversOK'
  BY <1>1, <1>2, <1>7, <1>11, Constants
  DEF ObserversOK, StartStopTypeOK, UpTo, Channels
<1>13. RaceInv'
  <2>1. CASE LookNow
    BY <1>1, <1>2, <1>5, <1>11, <2>1, Constants
    DEF RaceInv, CheckNotNull, ObserversOK, UpTo
  <2>2. CASE ~LookNow
    <3>1. /\ pending /\ pending' = pending /\ noworking' = noworking + 1
          /\ noworking \in 0..5 /\ zeroFrames <= noworking
          /\ zeroFrames \in 0..6
      BY <1>2, <1>5, <2>2, Constants
      DEF CheckNotNull, LookNow, RaceInv, StartStopTypeOK, ObserversOK
    <3>2. zeroFrames' <= noworking'
      BY <1>1, <3>1, Constants DEF UpTo
    <3> QED
      BY <1>5, <1>11, <3>1, <3>2 DEF RaceInv
  <2> QED
    BY <2>1, <2>2
<1>14. GateInv'
  <2>1. ~LaneSent'
    BY <1>10 DEF LaneSent
  <2>2. /\ loopcount \in 0..(SEND_TIME_EVERY_COUNTS + 1)
        /\ sinceLive \in 0..MaxSinceLive /\ sinceHeader \in 0..MaxSinceHeader
    BY <1>2 DEF RunningTimeTypeOK, ObserversOK
  <2>3. CASE SendNow
    <3>1. /\ loopcount' = 1 /\ headerChange' = FALSE
          /\ sendActiveState' = IF headerChange THEN sendActiveState
                                                ELSE GateAfter(row)
      BY <1>5, <2>3 DEF GetTime
    <3>2. loopcount = SEND_TIME_EVERY_COUNTS + 1
      BY <2>2, <2>3, Constants DEF SendNow
    <3>3. sinceHeader' >= 1
      BY <1>1, <2>2, Constants DEF UpTo
    <3>4. ASSUME sendActiveState'
          PROVE  sinceLive' = 0 /\ sinceHeader' = MaxSinceHeader
      <4>1. ~headerChange /\ GateAfter(row)
        BY <1>2, <3>1, <3>4 DEF GateInv
      <4>2. sinceLive' = 0
        BY <1>1, <1>4, <4>1, Constants DEF GateAfter
      <4>3. sinceHeader' = MaxSinceHeader
        BY <1>1, <1>2, <2>2, <3>2, <4>1, Constants DEF GateInv, UpTo
      <4> QED
        BY <4>2, <4>3
    <3> QED
      BY <2>1, <3>1, <3>3, <3>4 DEF GateInv
  <2>4. CASE ~SendNow
    <3>1. /\ loopcount' = loopcount + 1
          /\ UNCHANGED <<sendActiveState, headerChange>>
      BY <1>5, <2>4 DEF GetTime
    <3>2. loopcount <= SEND_TIME_EVERY_COUNTS
      BY <2>2, <2>4, Constants DEF SendNow
    <3>3. ~headerChange' => sinceHeader' >= loopcount'
      BY <1>1, <1>2, <2>2, <3>1, <3>2, Constants DEF GateInv, UpTo
    <3>4. ASSUME sendActiveState'
          PROVE  /\ ~headerChange' /\ sinceLive' < loopcount'
                 /\ sinceHeader' = MaxSinceHeader
      BY <1>1, <1>2, <2>2, <3>1, <3>2, <3>4, Constants DEF GateInv, UpTo
    <3> QED
      BY <2>1, <3>3, <3>4 DEF GateInv
  <2> QED
    BY <2>3, <2>4
<1> QED
  BY <1>9, <1>12, <1>13, <1>14 DEF TimingInv, TypeOK

-----------------------------------------------------------------------------
(* The other frames leave both counters alone.                             *)
LEMMA LaneStepKeepsTimingInv == TimingInv /\ LaneStep => TimingInv'
<1> SUFFICES ASSUME TimingInv, LaneStep PROVE TimingInv'
  OBVIOUS
<1>0. PICK l \in LaneNos : \E row \in RowsAfterFrame(l) :
        /\ LaneFrame(l, row)
        /\ frame' = l
        /\ UNCHANGED <<raceOn, zeroFrames, sinceLive, sinceHeader, lastRound>>
  BY DEF LaneStep
<1>1. PICK row \in RowsAfterFrame(l) :
        /\ LaneFrame(l, row)
        /\ frame' = l
        /\ UNCHANGED <<raceOn, zeroFrames, sinceLive, sinceHeader, lastRound>>
  BY <1>0
<1>2. l \in Channels
  BY DEF Channels
<1>3. /\ AnalyserTypeOK /\ ObserversOK /\ RaceInv /\ GateInv
      /\ StartStopTypeOK /\ RunningTimeTypeOK /\ LanesTypeOK
  BY DEF TimingInv, TypeOK, AnalyserTypeOK
<1>4. row \in Row
  BY <1>2, <1>3, RowsAfterFrameAreRows DEF AnalyserTypeOK
<1>5. /\ UNCHANGED <<noworking, pending, b_stopping>>
      /\ UNCHANGED <<loopcount, sendActiveState, headerChange>>
      /\ UNCHANGED p_round
  BY <1>1 DEF LaneFrame, startStopVars, runningTimeVars, roundVars
<1>6. colorado_data' \in [Channels -> Row]
  BY <1>1, <1>3, <1>4 DEF AnalyserTypeOK, LaneFrame, Store
<1>7. LanesTypeOK'
  BY <1>1, <1>3, <1>4, GetLaneTimeType DEF LaneFrame
<1>8. AnalyserTypeOK'
  BY <1>3, <1>5, <1>6, <1>7
  DEF AnalyserTypeOK, StartStopTypeOK, RunningTimeTypeOK
<1>9. ObserversOK'
  BY <1>1, <1>2, <1>3
  DEF ObserversOK, MaxZeroFrames, MaxSinceLive, MaxSinceHeader
<1>10. RaceInv'
  BY <1>1, <1>3, <1>5 DEF RaceInv
<1>11. LaneSent' => sendActiveState
  BY <1>1 DEF LaneSent, LaneFrame, LaneMsgs
<1>12. GateInv'
  BY <1>1, <1>3, <1>5, <1>11 DEF GateInv, MaxSinceHeader
<1> QED
  BY <1>8, <1>9, <1>10, <1>12 DEF TimingInv, TypeOK

LEMMA HeaderStepKeepsTimingInv == TimingInv /\ HeaderStep => TimingInv'
<1> SUFFICES ASSUME TimingInv, HeaderStep PROVE TimingInv'
  OBVIOUS
<1>1. PICK row \in RowsAfterFrame(HeaderChannel) :
        /\ HeaderFrame(row)
        /\ sinceHeader' = IF Sent({"header"}) THEN 0 ELSE sinceHeader
        /\ frame' = HeaderChannel
        /\ UNCHANGED <<raceOn, zeroFrames, sinceLive, lastRound>>
  BY DEF HeaderStep
<1>2. HeaderChannel \in Channels
  BY DEF Channels
<1>3. /\ AnalyserTypeOK /\ ObserversOK /\ RaceInv /\ GateInv
      /\ StartStopTypeOK /\ RunningTimeTypeOK /\ LanesTypeOK
  BY DEF TimingInv, TypeOK, AnalyserTypeOK
<1>4. row \in Row
  BY <1>2, <1>3, RowsAfterFrameAreRows DEF AnalyserTypeOK
<1>5. UNCHANGED <<noworking, pending, b_stopping>> /\ UNCHANGED p_round
  BY <1>1 DEF HeaderFrame, startStopVars, roundVars
<1>6. colorado_data' \in [Channels -> Row]
  BY <1>1, <1>3, <1>4 DEF AnalyserTypeOK, HeaderFrame, Store
<1>7. \A i \in DOMAIN sent' : sent'[i].kind = "header"
  BY <1>1 DEF HeaderFrame, HeaderMsgs
<1>8. LanesTypeOK' /\ RunningTimeTypeOK' /\ GateInv'
  <2>1. CASE HeaderChanged(row)
    <3>1. sendActiveState' = FALSE /\ headerChange' = TRUE /\ loopcount' = loopcount
      BY <1>1, <2>1 DEF HeaderFrame, SetSendActiveStateOff
    <3>2. LanesTypeOK'
      BY <1>1, <2>1, ResetAllDataType DEF HeaderFrame
    <3>3. sendActiveState' \in BOOLEAN /\ headerChange' \in BOOLEAN
      BY <3>1, Zenon
    <3>4. RunningTimeTypeOK'
      BY <1>3, <3>1, <3>3 DEF RunningTimeTypeOK
    <3>5. GateInv'
      BY <1>7, <3>1 DEF GateInv, LaneSent
    <3> QED
      BY <3>2, <3>4, <3>5
  <2>2. CASE ~HeaderChanged(row)
    <3>1. /\ UNCHANGED <<loopcount, sendActiveState, headerChange>>
          /\ UNCHANGED <<coloradoHeatData, coloradoPlaceData>>
          /\ sent' = <<>>
      BY <1>1, <2>2 DEF HeaderFrame, HeaderMsgs, runningTimeVars, laneVars
    <3>2. sinceHeader' = sinceHeader
      BY <1>1, <3>1 DEF Sent
    <3>3. LanesTypeOK' /\ RunningTimeTypeOK'
      BY <1>3, <3>1 DEF LanesTypeOK, RunningTimeTypeOK
    <3>4. GateInv'
      BY <1>1, <1>3, <3>1, <3>2 DEF GateInv, LaneSent, MaxSinceHeader
    <3> QED
      BY <3>3, <3>4
  <2> QED
    BY <2>1, <2>2
<1>10. AnalyserTypeOK'
  BY <1>3, <1>5, <1>6, <1>8 DEF AnalyserTypeOK, StartStopTypeOK
<1>11. ObserversOK'
  <2>1. sinceHeader' \in 0..MaxSinceHeader
    BY <1>1, <1>3, Constants DEF ObserversOK
  <2> QED
    BY <1>1, <1>2, <1>3, <2>1
    DEF ObserversOK, MaxZeroFrames, MaxSinceLive, MaxSinceHeader
<1>12. RaceInv'
  BY <1>1, <1>3, <1>5 DEF RaceInv
<1> QED
  BY <1>8, <1>10, <1>11, <1>12 DEF TimingInv, TypeOK

LEMMA RoundStepKeepsTimingInv == TimingInv /\ RoundStep => TimingInv'
<1> SUFFICES ASSUME TimingInv, RoundStep PROVE TimingInv'
  OBVIOUS
<1>1. PICK row \in RowsAfterFrame(RoundChannel) :
        /\ RoundFrame(row)
        /\ lastRound' = IF Sent({"round"}) THEN sent'[1].round ELSE lastRound
        /\ frame' = RoundChannel
        /\ UNCHANGED <<raceOn, zeroFrames, sinceLive, sinceHeader>>
  BY DEF RoundStep
<1>2. RoundChannel \in Channels
  BY DEF Channels
<1>3. /\ AnalyserTypeOK /\ ObserversOK /\ RaceInv /\ GateInv
      /\ StartStopTypeOK /\ RunningTimeTypeOK /\ LanesTypeOK
      /\ p_round \in 0..MaxRound
  BY DEF TimingInv, TypeOK, AnalyserTypeOK
<1>4. row \in Row
  BY <1>2, <1>3, RowsAfterFrameAreRows DEF AnalyserTypeOK
<1>5. /\ UNCHANGED <<noworking, pending, b_stopping>>
      /\ UNCHANGED <<loopcount, sendActiveState, headerChange>>
      /\ UNCHANGED <<coloradoHeatData, coloradoPlaceData>>
  BY <1>1 DEF RoundFrame, startStopVars, runningTimeVars, laneVars
<1>6. colorado_data' \in [Channels -> Row]
  BY <1>1, <1>3, <1>4 DEF AnalyserTypeOK, RoundFrame, Store
<1>7. NextRound(row) \in 0..MaxRound /\ p_round' = NextRound(row)
  BY <1>1, <1>3, Constants DEF RoundFrame, StoreRounds, NextRound
<1>8. sent' = <<>> \/ sent' = << [kind |-> "round", round |-> NextRound(row)] >>
  BY <1>1 DEF RoundFrame, RoundMsgs
<1>9. AnalyserTypeOK'
  BY <1>3, <1>5, <1>6, <1>7
  DEF AnalyserTypeOK, StartStopTypeOK, RunningTimeTypeOK, LanesTypeOK
<1>10. lastRound' \in -1..MaxRound
  BY <1>1, <1>3, <1>7, <1>8, Constants DEF Sent, ObserversOK
<1>11. ObserversOK'
  BY <1>1, <1>2, <1>3, <1>10
  DEF ObserversOK, MaxZeroFrames, MaxSinceLive, MaxSinceHeader
<1>12. RaceInv'
  BY <1>1, <1>3, <1>5 DEF RaceInv
<1>13. GateInv'
  BY <1>1, <1>3, <1>5, <1>8 DEF GateInv, LaneSent, MaxSinceHeader
<1> QED
  BY <1>9, <1>11, <1>12, <1>13 DEF TimingInv, TypeOK

LEMMA TimingInvStep == TimingInv /\ [Next]_vars => TimingInv'
<1> SUFFICES ASSUME TimingInv, [Next]_vars PROVE TimingInv'
  OBVIOUS
<1>1. CASE UNCHANGED vars
  <2>1. /\ UNCHANGED <<noworking, pending, b_stopping>>
        /\ UNCHANGED <<loopcount, sendActiveState, headerChange>>
        /\ UNCHANGED <<coloradoHeatData, coloradoPlaceData>>
        /\ UNCHANGED <<p_round, colorado_data, sent>>
        /\ UNCHANGED <<raceOn, zeroFrames, sinceLive, sinceHeader>>
        /\ UNCHANGED <<lastRound, frame>>
    BY <1>1 DEF vars, analyserVars, observers, startStopVars, runningTimeVars,
                laneVars, roundVars
  <2>2. TypeOK'
    BY <2>1 DEF TimingInv, TypeOK, AnalyserTypeOK, StartStopTypeOK,
      RunningTimeTypeOK, LanesTypeOK, ObserversOK, MaxZeroFrames, MaxSinceLive,
      MaxSinceHeader
  <2>3. RaceInv' /\ GateInv'
    BY <2>1 DEF TimingInv, RaceInv, GateInv, LaneSent, MaxSinceHeader
  <2> QED
    BY <2>2, <2>3 DEF TimingInv
<1> QED
  BY <1>1, ClockStepKeepsTimingInv, LaneStepKeepsTimingInv,
     HeaderStepKeepsTimingInv, RoundStepKeepsTimingInv DEF Next

THEOREM TimingInvInvariant == Spec => []TimingInv
BY TimingInvInit, TimingInvStep, PTL DEF Spec

-----------------------------------------------------------------------------
(* Every variable keeps its type; the texts kept for a lane stay within    *)
(* the bytes getLaneTime and resetTimeAndPlace copy.                       *)
THEOREM TypeCorrect == Spec => []TypeOK
BY TimingInvInvariant, PTL DEF TimingInv

(* checknotnull: a race time is announced at once, its absence at the      *)
(* sixth clock frame at the latest.                                        *)
THEOREM RaceFollowsTheClock == Spec => []RaceFollowsClock
<1>1. TimingInv => RaceFollowsClock
  BY DEF TimingInv, TypeOK, AnalyserTypeOK, StartStopTypeOK, RaceInv,
         RaceFollowsClock, MaxZeroFrames
<1> QED
  BY <1>1, TimingInvInvariant, PTL

(* getTimeInternal: a lane result is published at most one sending period  *)
(* after the clock last showed the inactive time or more.                  *)
THEOREM TheGateLagIsBounded == Spec => []GateLag
<1>1. TimingInv => GateLag
  BY Constants DEF TimingInv, TypeOK, AnalyserTypeOK, RunningTimeTypeOK,
                   ObserversOK, GateInv, GateLag
<1> QED
  BY <1>1, TimingInvInvariant, PTL

(* setsendActiveStateOff: a full sending period passes between a header    *)
(* change and the next lane result.                                        *)
THEOREM QuietAfterAHeader == Spec => []QuietAfterHeader
<1>1. TimingInv => QuietAfterHeader
  BY Constants DEF TimingInv, GateInv, QuietAfterHeader
<1> QED
  BY <1>1, TimingInvInvariant, PTL

-----------------------------------------------------------------------------
(* A clock on which no race time is lit shows full tens of minutes.        *)
LEMMA NotRunningIsFullTens ==
  ASSUME NEW row \in Row, ~Running(row)
  PROVE  TimeHundredth(row) % 60000 = 0
<1>1. \A d \in 3..6 : CheckBitValue(row[d]) = 0
  BY DEF Running, CheckBitValue, Blank
<1>2. CheckBitValue(row[2]) \in 0..10
  BY CheckBitValueType DEF Digits
<1> DEFINE n == CheckBitValue(row[2])
<1>3. /\ CheckBitValue(row[3]) = 0 /\ CheckBitValue(row[4]) = 0
      /\ CheckBitValue(row[5]) = 0 /\ CheckBitValue(row[6]) = 0
  BY <1>1
<1>4. TimeHundredth(row) = ((n * 10 + 0) * 60 + (0 * 10 + 0)) * 100 + 0 * 10
  BY <1>3 DEF TimeHundredth
<1> HIDE DEF n
<1>5. n \in 0..10
  BY <1>2 DEF n
<1>6. \A k \in 0..10 :
        (((k * 10 + 0) * 60 + (0 * 10 + 0)) * 100 + 0 * 10) % 60000 = 0
  OBVIOUS
<1> QED
  BY <1>4, <1>5, <1>6

(* checkStartStop: "stop" is only sent in a frame whose own clock shows no *)
(* race time, never because of one seen earlier.                           *)
THEOREM StopOnlyAtAZeroClock == Spec => StopOnlyAtZero
<1> DEFINE Step == raceOn /\ ~raceOn'
                     => TimeHundredth(colorado_data'[Clock]) % 60000 = 0
<1>1. TimingInv /\ Next => Step
  <2> SUFFICES ASSUME TimingInv, TimingInv', Next, raceOn, ~raceOn'
               PROVE  TimeHundredth(colorado_data'[Clock]) % 60000 = 0
    BY TimingInvStep
  <2>1. ClockStep
    BY DEF Next, LaneStep, HeaderStep, RoundStep, observers
  <2>2. PICK row \in RowsAfterFrame(Clock) : ClockFrame(row)
    BY <2>1 DEF ClockStep
  <2>3. row \in Row /\ colorado_data \in [Channels -> Row] /\ Clock \in Channels
    BY RowsAfterFrameAreRows DEF TimingInv, TypeOK, AnalyserTypeOK, Channels
  <2>4. colorado_data'[Clock] = row
    BY <2>2, <2>3 DEF ClockFrame, Store
  <2>5. pending /\ ~pending'
    BY DEF TimingInv, RaceInv
  <2>6. ~Running(row)
    BY <2>2, <2>5 DEF ClockFrame, CheckStartStop, CheckNotNull
  <2> QED
    BY <2>3, <2>4, <2>6, NotRunningIsFullTens
<1>2. TimingInv /\ [Next]_vars => [Step]_vars
  BY <1>1
<1> QED
  BY <1>2, TimingInvInvariant, PTL DEF Spec, StopOnlyAtZero

-----------------------------------------------------------------------------
(* The number a subscriber heard last is the one that is counted on from,  *)
(* and a board that is cleared is at 0.                                    *)
RoundInv ==
  /\ lastRound = -1 => p_round = 0 /\ storeRoundsData = NoRounds
  /\ lastRound # -1 => lastRound = p_round
  /\ lastRound = 0 => storeRoundsData = NullRounds
  /\ storeRoundsData = NullRounds => p_round = 0

(* A message of RoundMsgs, and what the numbers become.                    *)
LEMMA RoundStepFacts ==
  ASSUME NEW row, RoundFrame(row),
         lastRound' = IF Sent({"round"}) THEN sent'[1].round ELSE lastRound
  PROVE  /\ p_round' = NextRound(row) /\ storeRoundsData' = RoundText(row)
         /\ RoundsChanged(row) =>
              sent' = << [kind |-> "round", round |-> NextRound(row)] >>
         /\ ~RoundsChanged(row) => sent' = <<>>
         /\ lastRound' = IF RoundsChanged(row) THEN NextRound(row) ELSE lastRound
<1>1. p_round' = NextRound(row) /\ storeRoundsData' = RoundText(row)
  BY DEF RoundFrame, StoreRounds
<1>2. CASE RoundsChanged(row)
  <2>1. sent' = << [kind |-> "round", round |-> NextRound(row)] >>
    BY <1>2 DEF RoundFrame, RoundMsgs
  <2>2. Sent({"round"}) /\ sent'[1].round = NextRound(row)
    BY <2>1 DEF Sent
  <2> QED
    BY <1>1, <1>2, <2>1, <2>2
<1>3. CASE ~RoundsChanged(row)
  <2>1. sent' = <<>>
    BY <1>3 DEF RoundFrame, RoundMsgs
  <2>2. ~Sent({"round"})
    BY <2>1 DEF Sent
  <2> QED
    BY <1>1, <1>3, <2>1, <2>2
<1> QED
  BY <1>2, <1>3

LEMMA RoundInvInit == Init => RoundInv
BY DEF Init, InitReadData, InitRounds, RoundInv, NoRounds, NullRounds

LEMMA RoundInvStep ==
  ASSUME TypeOK, RoundInv, [Next]_vars
  PROVE  RoundInv'
<1>0. p_round \in Nat
  BY Constants DEF TypeOK, AnalyserTypeOK
<1>1. CASE RoundStep
  <2>1. PICK row :
          /\ RoundFrame(row)
          /\ lastRound' = IF Sent({"round"}) THEN sent'[1].round ELSE lastRound
    BY <1>1 DEF RoundStep
  <2>2. /\ p_round' = NextRound(row) /\ storeRoundsData' = RoundText(row)
        /\ lastRound' = IF RoundsChanged(row) THEN NextRound(row) ELSE lastRound
    BY <2>1, RoundStepFacts
  <2>3. CASE RoundsChanged(row)
    <3>1. CASE RoundText(row) = NullRounds
      BY <2>2, <2>3, <3>1 DEF RoundInv, NextRound
    <3>2. CASE RoundText(row) # NullRounds
      <4>1. NextRound(row) = p_round + 1
        BY <2>3, <3>2 DEF NextRound
      <4> QED
        BY <1>0, <2>2, <2>3, <3>2, <4>1 DEF RoundInv
    <3> QED
      BY <3>1, <3>2
  <2>4. CASE ~RoundsChanged(row)
    <3>1. RoundText(row) = storeRoundsData
      BY <2>4 DEF RoundsChanged
    <3>2. NextRound(row) = p_round
      BY <2>4, <3>1 DEF NextRound, RoundInv
    <3> QED
      BY <2>2, <2>4, <3>1, <3>2 DEF RoundInv
  <2> QED
    BY <2>3, <2>4
<1>2. CASE ~RoundStep
  <2>1. UNCHANGED <<p_round, storeRoundsData, lastRound>>
    BY <1>2 DEF Next, ClockStep, LaneStep, HeaderStep, ClockFrame, LaneFrame, HeaderFrame,
         roundVars, vars, analyserVars, observers
  <2> QED
    BY <2>1 DEF RoundInv
<1> QED
  BY <1>1, <1>2

(* storeRounds: rounds are announced in order, without a gap, and a board  *)
(* that was cleared starts them over.                                      *)
THEOREM RoundsAreNumbered == Spec => RoundsNumbered
<1> DEFINE Step ==
      \A i \in DOMAIN sent' :
       sent'[i].kind = "round" /\ frame' = RoundChannel
         => IF RoundText(colorado_data'[RoundChannel]) = NullRounds
              THEN sent'[i].round = 0 /\ lastRound # 0
              ELSE sent'[i].round = (IF lastRound = -1 THEN 1 ELSE lastRound + 1)
<1>1. TypeOK /\ RoundInv /\ Next => Step
  <2> SUFFICES ASSUME TypeOK, RoundInv, Next,
                      NEW i \in DOMAIN sent', frame' = RoundChannel
               PROVE  IF RoundText(colorado_data'[RoundChannel]) = NullRounds
                        THEN sent'[i].round = 0 /\ lastRound # 0
                        ELSE sent'[i].round = (IF lastRound = -1 THEN 1 ELSE lastRound + 1)
    OBVIOUS
  <2>1. RoundStep
    BY LaneNosAssumption
    DEF Next, ClockStep, LaneStep, HeaderStep, Clock, HeaderChannel, RoundChannel
  <2>2. PICK row :
          /\ RoundFrame(row)
          /\ lastRound' = IF Sent({"round"}) THEN sent'[1].round ELSE lastRound
    BY <2>1 DEF RoundStep
  <2>3. colorado_data'[RoundChannel] = row
    BY <2>2 DEF RoundFrame, Store, TypeOK, AnalyserTypeOK, Channels
  <2>4. RoundsChanged(row)
    BY <2>2, RoundStepFacts
  <2>5. sent' = << [kind |-> "round", round |-> NextRound(row)] >>
    BY <2>2, <2>4, RoundStepFacts
  <2>6. sent'[i].round = NextRound(row)
    BY <2>5
  <2>7. CASE RoundText(row) = NullRounds
    BY <2>3, <2>4, <2>6, <2>7 DEF NextRound, RoundsChanged, RoundInv
  <2>8. CASE RoundText(row) # NullRounds
    <3>1. NextRound(row) = p_round + 1
      BY <2>4, <2>8 DEF NextRound
    <3> QED
      BY <2>3, <2>6, <2>8, <3>1 DEF RoundInv
  <2> QED
    BY <2>7, <2>8
<1>2. TypeOK /\ RoundInv /\ [Next]_vars => [Step]_vars
  BY <1>1
<1>3. Spec => []RoundInv
  BY RoundInvInit, RoundInvStep, TypeCorrect, PTL DEF Spec
<1> QED
  BY <1>2, <1>3, TypeCorrect, PTL DEF Spec, RoundsNumbered
-----------------------------------------------------------------------------
(* What start, stop and a header do to the lanes: a subscriber forgets     *)
(* them in the very steps in which resetAllData runs.                      *)
LEMMA LanesForgotten ==
  ASSUME ClockStep \/ HeaderStep \/ RoundStep
  PROVE  \/ shown' = [l \in LaneNos |-> Nothing] /\ ResetAllData
         \/ UNCHANGED <<shown, laneVars>>
<1>1. ASSUME NEW row, ClockFrame(row), ForgetLanes
      PROVE  \/ shown' = [l \in LaneNos |-> Nothing] /\ ResetAllData
             \/ UNCHANGED <<shown, laneVars>>
  <2>1. sent' = StartStopMsgs \o TimeMsgs(row)
    BY <1>1 DEF ClockFrame
  <2>2. Sent({"start", "stop", "header"}) <=> StateChanged
    BY <2>1, ClockMsgs DEF Sent
  <2> QED
    BY <1>1, <2>2 DEF ClockFrame, ForgetLanes
<1>2. ASSUME NEW row, HeaderFrame(row), ForgetLanes
      PROVE  \/ shown' = [l \in LaneNos |-> Nothing] /\ ResetAllData
             \/ UNCHANGED <<shown, laneVars>>
  <2> DEFINE m == [kind |-> "header", text |-> HeaderText(row)]
  <2>1. sent' = IF HeaderChanged(row) THEN <<m, m>> ELSE <<>>
    BY <1>2 DEF HeaderFrame, HeaderMsgs
  <2>2. m.kind = "header"
    OBVIOUS
  <2> HIDE DEF m
  <2>3. Sent({"start", "stop", "header"}) <=> HeaderChanged(row)
    BY <2>1, <2>2 DEF Sent
  <2> QED
    BY <1>2, <2>3 DEF HeaderFrame, ForgetLanes
<1>3. RoundStep => UNCHANGED <<shown, laneVars>>
  BY DEF RoundStep, RoundFrame
<1> QED
  BY <1>1, <1>2, <1>3 DEF ClockStep, HeaderStep

(* What getLaneTime remembers and sends for a row of lane l.               *)
LEMMA LaneStepFacts ==
  ASSUME TypeOK, LaneStep
  PROVE  /\ frame' \in LaneNos
         /\ colorado_data'[frame'] \in RowsAfterFrame(frame')
         /\ GetLaneTime(frame', colorado_data'[frame'])
         /\ sent' = IF IsNews(frame', colorado_data'[frame']) /\ sendActiveState
                      THEN <<Result(frame', colorado_data'[frame'])>> ELSE <<>>
<1>1. PICK l \in LaneNos : \E row \in RowsAfterFrame(l) :
        LaneFrame(l, row) /\ frame' = l
  BY DEF LaneStep
<1>2. PICK row \in RowsAfterFrame(l) : LaneFrame(l, row)
  BY <1>1
<1>3. colorado_data'[l] = row
  BY <1>2 DEF LaneFrame, Store, TypeOK, AnalyserTypeOK, Channels
<1> QED
  BY <1>1, <1>2, <1>3 DEF LaneFrame, LaneMsgs, Result

(* A message is never taken for the absence of one.                        *)
LEMMA KindsDiffer ==
  /\ Nothing # Held
  /\ \A l, row : Result(l, row) \notin {Nothing, Held}
<1>1. Nothing.kind = "nothing" /\ Held.kind = "held"
  BY DEF Nothing, Held
<1>2. \A l, row : Result(l, row).kind = "lane"
  BY DEF Result
<1> QED
  BY <1>1, <1>2

LEMMA NullTimeStored == Stored(NullTime) = NullTime
BY DEF Stored, NullTime

-----------------------------------------------------------------------------
(* What the subscriber has no result of, the program does not remember.    *)
ForgottenInv ==
  /\ DOMAIN shown = LaneNos
  /\ \A l \in LaneNos : shown[l] = Nothing => coloradoHeatData[l] = NullTime

LEMMA ForgottenInvInit == Init => ForgottenInv
BY DEF Init, InitReadData, InitLanes, ForgottenInv

LEMMA ForgottenInvStep ==
  ASSUME TypeOK, ForgottenInv, [Next]_vars
  PROVE  ForgottenInv'
<1>1. CASE LaneStep
  <2> DEFINE l == frame'
             row == colorado_data'[l]
  <2>1. /\ l \in LaneNos /\ GetLaneTime(l, row)
        /\ sent' = IF IsNews(l, row) /\ sendActiveState THEN <<Result(l, row)>> ELSE <<>>
    BY <1>1, LaneStepFacts
  <2>2. PICK k \in LaneNos : \E rw \in RowsAfterFrame(k) :
          /\ LaneFrame(k, rw) /\ frame' = k
          /\ shown' = [shown EXCEPT ![k] =
               CASE sent' # <<>> -> sent'[1]
                 [] sent' = <<>> /\ TimeText(rw) = NullTime -> Nothing
                 [] sent' = <<>> /\ TimeText(rw) # NullTime ->
                      IF sendActiveState \/ Known(k, Result(k, rw)) THEN @ ELSE Held]
    BY <1>1 DEF LaneStep
  <2>3. PICK rw \in RowsAfterFrame(k) :
          /\ LaneFrame(k, rw)
          /\ shown' = [shown EXCEPT ![k] =
               CASE sent' # <<>> -> sent'[1]
                 [] sent' = <<>> /\ TimeText(rw) = NullTime -> Nothing
                 [] sent' = <<>> /\ TimeText(rw) # NullTime ->
                      IF sendActiveState \/ Known(k, Result(k, rw)) THEN @ ELSE Held]
    BY <2>2
  <2>4. k = l /\ rw = row
    BY <2>2, <2>3 DEF LaneFrame, Store, TypeOK, AnalyserTypeOK, Channels
  <2> HIDE DEF l, row
  <2>5. DOMAIN shown' = LaneNos
    BY <2>3 DEF ForgottenInv
  <2>6. \A n \in LaneNos \ {l} : /\ shown'[n] = shown[n]
                                 /\ coloradoHeatData'[n] = coloradoHeatData[n]
    BY <2>1, <2>3, <2>4
    DEF ForgottenInv, GetLaneTime, Remember, laneVars, TypeOK, AnalyserTypeOK, LanesTypeOK
  <2>7. shown'[l] = Nothing => coloradoHeatData'[l] = NullTime
    <3>1. CASE sent' # <<>>
      <4>1. shown'[l] = Result(l, row)
        BY <2>1, <2>3, <2>4, <3>1 DEF ForgottenInv
      <4> QED
        BY <4>1, KindsDiffer
    <3>2. CASE TimeText(row) = NullTime
      BY <2>1, <3>2, NullTimeStored
      DEF GetLaneTime, Remember, IsNews, IsCleared, laneVars,
          TypeOK, AnalyserTypeOK, LanesTypeOK
    <3>3. CASE sent' = <<>> /\ TimeText(row) # NullTime
      <4>1. shown'[l] = IF sendActiveState \/ Known(l, Result(l, row))
                          THEN shown[l] ELSE Held
        BY <2>1, <2>3, <2>4, <3>3 DEF ForgottenInv
      <4>2. SUFFICES ASSUME shown[l] = Nothing, sendActiveState PROVE FALSE
        BY <4>1, KindsDiffer DEF Known
      <4>3. IsNews(l, row)
        BY <2>1, <3>3, <4>2 DEF ForgottenInv, IsNews
      <4> QED
        BY <2>1, <3>3, <4>2, <4>3
    <3> QED
      BY <3>1, <3>2, <3>3
  <2> QED
    BY <2>5, <2>6, <2>7 DEF ForgottenInv
<1>2. CASE ClockStep \/ HeaderStep \/ RoundStep
  <2>1. CASE shown' = [l \in LaneNos |-> Nothing] /\ ResetAllData
    BY <2>1 DEF ForgottenInv, ResetAllData
  <2>2. CASE UNCHANGED <<shown, laneVars>>
    BY <2>2 DEF ForgottenInv, laneVars
  <2> QED
    BY <1>2, <2>1, <2>2, LanesForgotten
<1>3. CASE UNCHANGED vars
  BY <1>3 DEF ForgottenInv, vars, analyserVars, observers, laneVars
<1> QED
  BY <1>1, <1>2, <1>3 DEF Next

(* A frame of a lane's channel is a lane step.                             *)
LEMMA LaneFrameIsLaneStep ==
  ASSUME Next, frame' \in LaneNos
  PROVE  LaneStep
BY LaneNosAssumption
DEF Next, ClockStep, HeaderStep, RoundStep, Clock, HeaderChannel, RoundChannel

(* resetAllData: with the gate open the first result of a lane after a     *)
(* start, a stop or a header change is published, whatever was there.      *)
THEOREM FirstResultIsPublished == Spec => FirstResultPublished
<1> DEFINE Step ==
      \A l \in LaneNos :
       (/\ frame' = l /\ sendActiveState /\ shown[l] = Nothing
        /\ TimeText(colorado_data'[l]) # NullTime)
         => sent' = <<Result(l, colorado_data'[l])>>
<1>1. TypeOK /\ ForgottenInv /\ Next => Step
  <2> SUFFICES ASSUME TypeOK, ForgottenInv, Next, NEW l \in LaneNos,
                      frame' = l, sendActiveState, shown[l] = Nothing,
                      TimeText(colorado_data'[l]) # NullTime
               PROVE  sent' = <<Result(l, colorado_data'[l])>>
    OBVIOUS
  <2>1. LaneStep
    BY LaneFrameIsLaneStep
  <2>2. IsNews(l, colorado_data'[l])
    BY DEF IsNews, ForgottenInv
  <2> QED
    BY <2>1, <2>2, LaneStepFacts
<1>2. TypeOK /\ ForgottenInv /\ [Next]_vars => [Step]_vars
  BY <1>1
<1> QED
  BY <1>2, ForgottenInvInit, ForgottenInvStep, TimingInvInvariant, PTL
  DEF Spec, FirstResultPublished, TimingInv

-----------------------------------------------------------------------------
(* No time shows a ten: the value 10 stands for lane 10, in the place.     *)
NoTenIn(row) == \A d \in 2..7 : row[d] # 10

BoardShowsDigits ==
  \A l \in LaneNos : \A f \in FrameDigits[l] :
    \A d \in DOMAIN f \cap 2..7 : f[d] # 10

DigitsInv == \A l \in LaneNos : NoTenIn(colorado_data[l])

LEMMA RowsShowDigits ==
  ASSUME BoardShowsDigits, DigitsInv, NEW l \in LaneNos, NEW row \in RowsAfterFrame(l)
  PROVE  NoTenIn(row)
<1>1. \A f \in FrameDigits[l] : NoTenIn(Overlay(colorado_data[l], f))
  BY DEF BoardShowsDigits, DigitsInv, NoTenIn, Overlay, Digits
<1> QED
  BY <1>1 DEF RowsAfterFrame, DigitsInv

LEMMA DigitsInvInit == Init => DigitsInv
BY DEF Init, InitReadData, DigitsInv, NoTenIn, InitialRow, Channels, Digits

LEMMA DigitsInvStep ==
  ASSUME BoardShowsDigits, TypeOK, DigitsInv, [Next]_vars
  PROVE  DigitsInv'
<1>1. CASE LaneStep
  <2>1. PICK l \in LaneNos : \E row \in RowsAfterFrame(l) : LaneFrame(l, row)
    BY <1>1 DEF LaneStep
  <2>2. PICK row \in RowsAfterFrame(l) : LaneFrame(l, row)
    BY <2>1
  <2>3. NoTenIn(row)
    BY RowsShowDigits
  <2>4. colorado_data' = [colorado_data EXCEPT ![l] = row]
    BY <2>2 DEF LaneFrame, Store
  <2> QED
    BY <2>3, <2>4 DEF DigitsInv, TypeOK, AnalyserTypeOK, Channels
<1>2. CASE ClockStep \/ HeaderStep \/ RoundStep
  <2>1. \E c \in {Clock, HeaderChannel, RoundChannel} : \E row :
          colorado_data' = [colorado_data EXCEPT ![c] = row]
    BY <1>2 DEF ClockStep, HeaderStep, RoundStep, ClockFrame, HeaderFrame, RoundFrame, Store
  <2>2. \A l \in LaneNos : colorado_data'[l] = colorado_data[l]
    BY <2>1, LaneNosAssumption
    DEF TypeOK, AnalyserTypeOK, Channels, Clock, HeaderChannel, RoundChannel
  <2> QED
    BY <2>2 DEF DigitsInv, NoTenIn
<1>3. CASE UNCHANGED vars
  BY <1>3 DEF DigitsInv, vars, analyserVars
<1> QED
  BY <1>1, <1>2, <1>3 DEF Next

LEMMA ThreeCharacters ==
  ASSUME NEW a \in 0..9, NEW b \in 0..9, NEW c \in 0..9
  PROVE  <<a>> \o <<b>> \o <<c>> = <<a, b, c>>
<1> DEFINE x == <<a>>
           y == <<b>>
           z == <<c>>
           xy == x \o y
           xyz == xy \o z
           r == <<a, b, c>>
<1>1. /\ x \in Seq(0..9) /\ Len(x) = 1 /\ x[1] = a
      /\ y \in Seq(0..9) /\ Len(y) = 1 /\ y[1] = b
      /\ z \in Seq(0..9) /\ Len(z) = 1 /\ z[1] = c
  OBVIOUS
<1>2. r \in Seq(0..9) /\ Len(r) = 3 /\ r[1] = a /\ r[2] = b /\ r[3] = c
  OBVIOUS
<1> HIDE DEF x, y, z, r
<1>3. /\ xy \in Seq(0..9) /\ Len(xy) = Len(x) + Len(y)
      /\ \A i \in 1 .. Len(x) + Len(y) :
           xy[i] = IF i <= Len(x) THEN x[i] ELSE y[i - Len(x)]
  BY <1>1, ConcatProperties
<1> HIDE DEF xy
<1>4. xy \in Seq(0..9) /\ Len(xy) = 2 /\ xy[1] = a /\ xy[2] = b
  BY <1>1, <1>3
<1>5. /\ xyz \in Seq(0..9) /\ Len(xyz) = Len(xy) + Len(z)
      /\ \A i \in 1 .. Len(xy) + Len(z) :
           xyz[i] = IF i <= Len(xy) THEN xy[i] ELSE z[i - Len(xy)]
  BY <1>1, <1>4, ConcatProperties, Zenon
<1> HIDE DEF xyz
<1>6. Len(xyz) = 3 /\ xyz[1] = a /\ xyz[2] = b /\ xyz[3] = c
  BY <1>1, <1>4, <1>5
<1>7. \A i \in 1..3 : i = 1 \/ i = 2 \/ i = 3
  OBVIOUS
<1>8. \A i \in 1..Len(xyz) : xyz[i] = r[i]
  BY <1>2, <1>6, <1>7
<1>9. xyz = r
  BY <1>2, <1>5, <1>6, <1>8, SeqEqual
<1> QED
  BY <1>9 DEF xyz, xy, x, y, z, r

LEMMA SixCharacters ==
  ASSUME NEW f \in [1..6 -> 0..9]
  PROVE  <<f[1], f[2], f[3]>> \o <<f[4], f[5], f[6]>> = f /\ Len(f) = 6
<1> DEFINE s == <<f[1], f[2], f[3]>>
           t == <<f[4], f[5], f[6]>>
           st == s \o t
<1>0. /\ f[1] \in 0..9 /\ f[2] \in 0..9 /\ f[3] \in 0..9
      /\ f[4] \in 0..9 /\ f[5] \in 0..9 /\ f[6] \in 0..9
  OBVIOUS
<1>1. s \in Seq(0..9) /\ Len(s) = 3 /\ s[1] = f[1] /\ s[2] = f[2] /\ s[3] = f[3]
  BY <1>0
<1>2. t \in Seq(0..9) /\ Len(t) = 3 /\ t[1] = f[4] /\ t[2] = f[5] /\ t[3] = f[6]
  BY <1>0
<1>3. f \in Seq(0..9) /\ Len(f) = 6
  <2> DEFINE e(i) == f[i]
  <2>1. \A i \in 1..6 : e(i) \in 0..9
    OBVIOUS
  <2>2. [i \in 1..6 |-> e(i)] \in Seq(0..9) /\ Len([i \in 1..6 |-> e(i)]) = 6
    BY <2>1
  <2>3. [i \in 1..6 |-> e(i)] = f
    OBVIOUS
  <2> QED
    BY <2>2, <2>3
<1> HIDE DEF s, t
<1>4. /\ st \in Seq(0..9) /\ Len(st) = Len(s) + Len(t)
      /\ \A i \in 1 .. Len(s) + Len(t) :
           st[i] = IF i <= Len(s) THEN s[i] ELSE t[i - Len(s)]
  BY <1>1, <1>2, ConcatProperties
<1> HIDE DEF st
<1>5. /\ Len(st) = 6
      /\ st[1] = f[1] /\ st[2] = f[2] /\ st[3] = f[3]
      /\ st[4] = f[4] /\ st[5] = f[5] /\ st[6] = f[6]
  BY <1>1, <1>2, <1>4
<1>6. \A i \in 1..6 : i = 1 \/ i = 2 \/ i = 3 \/ i = 4 \/ i = 5 \/ i = 6
  OBVIOUS
<1>7. \A i \in 1..Len(st) : st[i] = f[i]
  BY <1>5, <1>6
<1>8. st = f
  <2>1. st \in Seq(0..9) /\ f \in Seq(0..9) /\ Len(st) = Len(f)
    BY <1>3, <1>4, <1>5
  <2> QED
    BY <1>7, <2>1, SeqEqual
<1> QED
  BY <1>3, <1>8 DEF st, s, t

(* Such a time is remembered as it is sent, one character a digit.         *)
LEMMA TextIsTime ==
  ASSUME NEW l, NEW row \in Row, NoTenIn(row)
  PROVE  /\ TimeText(row) = Result(l, row).time
         /\ Stored(TimeText(row)) = TimeText(row)
         /\ PlaceText(row) = Decimal(Result(l, row).place)
<1> DEFINE v(d) == CheckBitValue(row[d])
<1>1. \A d \in 2..7 : v(d) \in 0..9
  BY DEF NoTenIn, Row, Digits, CheckBitValue
<1>2. \A d \in 2..7 : Char(row, d) = <<v(d)>>
  BY <1>1 DEF Char, Decimal
<1> HIDE DEF v
<1>3. Chars(row, 2) = <<v(2), v(3), v(4)>> /\ Chars(row, 5) = <<v(5), v(6), v(7)>>
  <2>1. Chars(row, 2) = <<v(2)>> \o <<v(3)>> \o <<v(4)>>
    <3>1. Char(row, 2) = <<v(2)>> /\ Char(row, 2 + 1) = <<v(3)>> /\ Char(row, 2 + 2) = <<v(4)>>
      BY <1>2
    <3> QED
      BY <3>1, Zenon DEF Chars
  <2>2. Chars(row, 5) = <<v(5)>> \o <<v(6)>> \o <<v(7)>>
    <3>1. Char(row, 5) = <<v(5)>> /\ Char(row, 5 + 1) = <<v(6)>> /\ Char(row, 5 + 2) = <<v(7)>>
      BY <1>2
    <3> QED
      BY <3>1, Zenon DEF Chars
  <2>3. /\ v(2) \in 0..9 /\ v(3) \in 0..9 /\ v(4) \in 0..9
        /\ v(5) \in 0..9 /\ v(6) \in 0..9 /\ v(7) \in 0..9
    BY <1>1
  <2>4. <<v(2)>> \o <<v(3)>> \o <<v(4)>> = <<v(2), v(3), v(4)>>
    BY <2>3, ThreeCharacters
  <2>5. <<v(5)>> \o <<v(6)>> \o <<v(7)>> = <<v(5), v(6), v(7)>>
    BY <2>3, ThreeCharacters
  <2> QED
    BY <2>1, <2>2, <2>4, <2>5, Zenon
<1>4. TimeText(row) = [i \in 1..6 |-> v(i + 1)] /\ Len(TimeText(row)) = 6
  <2> DEFINE f == [i \in 1..6 |-> v(i + 1)]
  <2>1. f \in [1..6 -> 0..9]
    BY <1>1
  <2>2. /\ f[1] = v(2) /\ f[2] = v(3) /\ f[3] = v(4)
        /\ f[4] = v(5) /\ f[5] = v(6) /\ f[6] = v(7)
    OBVIOUS
  <2> HIDE DEF f
  <2>3. <<f[1], f[2], f[3]>> \o <<f[4], f[5], f[6]>> = f /\ Len(f) = 6
    BY <2>1, SixCharacters
  <2>4. TimeText(row) = f
    BY <1>3, <2>2, <2>3, Zenon DEF TimeText
  <2> QED
    BY <2>3, <2>4 DEF f
<1>5. Result(l, row).time = [i \in 1..6 |-> v(i + 1)]
  BY DEF Result, v
<1>8. PlaceText(row) = Decimal(Result(l, row).place)
  BY DEF PlaceText, Char, Result
<1> QED
  BY <1>4, <1>5, <1>8 DEF Stored

-----------------------------------------------------------------------------
(* A result a subscriber still holds is the one the program remembers.     *)
NewsInv ==
  /\ DOMAIN shown = LaneNos
  /\ \A l \in LaneNos :
       shown[l] \notin {Nothing, Held}
         => /\ shown[l].time = coloradoHeatData[l]
            /\ Decimal(shown[l].place) = coloradoPlaceData[l]

LEMMA NewsInvInit == Init => NewsInv
BY DEF Init, NewsInv

(* What is known already is no news.                                       *)
LEMMA KnownIsNoNews ==
  ASSUME NewsInv, NEW l \in LaneNos, NEW row \in Row, NoTenIn(row),
         Known(l, Result(l, row))
  PROVE  ~IsNews(l, row)
<1>1. TimeText(row) = coloradoHeatData[l]
  BY TextIsTime DEF Known, NewsInv
<1>2. PlaceText(row) = Decimal(Result(l, row).place)
  BY TextIsTime
<1>3. CASE Result(l, row).place = 0
  BY <1>1, <1>2, <1>3 DEF IsNews, Decimal, NullPlace
<1>4. CASE Result(l, row).place = shown[l].place
  BY <1>1, <1>2, <1>4 DEF IsNews, Known, NewsInv
<1> QED
  BY <1>3, <1>4 DEF Known

(* What a lane step makes of the lane's entry in shown.                    *)
LEMMA LaneStepShown ==
  ASSUME TypeOK, LaneStep, DOMAIN shown = LaneNos
  PROVE  LET l == frame'
             row == colorado_data'[l]
         IN  /\ DOMAIN shown' = LaneNos
             /\ \A n \in LaneNos \ {l} : shown'[n] = shown[n]
             /\ sent' # <<>> => shown'[l] = sent'[1]
             /\ sent' = <<>> /\ TimeText(row) = NullTime => shown'[l] = Nothing
             /\ sent' = <<>> /\ TimeText(row) # NullTime =>
                  shown'[l] = IF sendActiveState \/ Known(l, Result(l, row))
                                THEN shown[l] ELSE Held
<1>1. PICK l \in LaneNos : \E row \in RowsAfterFrame(l) :
        /\ LaneFrame(l, row) /\ frame' = l
        /\ shown' = [shown EXCEPT ![l] =
             CASE sent' # <<>> -> sent'[1]
               [] sent' = <<>> /\ TimeText(row) = NullTime -> Nothing
               [] sent' = <<>> /\ TimeText(row) # NullTime ->
                    IF sendActiveState \/ Known(l, Result(l, row)) THEN @ ELSE Held]
  BY DEF LaneStep
<1>2. PICK row \in RowsAfterFrame(l) :
        /\ LaneFrame(l, row)
        /\ shown' = [shown EXCEPT ![l] =
             CASE sent' # <<>> -> sent'[1]
               [] sent' = <<>> /\ TimeText(row) = NullTime -> Nothing
               [] sent' = <<>> /\ TimeText(row) # NullTime ->
                    IF sendActiveState \/ Known(l, Result(l, row)) THEN @ ELSE Held]
  BY <1>1
<1>3. frame' = l /\ colorado_data'[l] = row
  BY <1>1, <1>2 DEF LaneFrame, Store, TypeOK, AnalyserTypeOK, Channels
<1> QED
  BY <1>2, <1>3

(* A lane step leaves what is remembered of the other lanes alone.         *)
LEMMA OtherLanesStay ==
  ASSUME TypeOK, NEW l \in LaneNos, NEW row, GetLaneTime(l, row)
  PROVE  \A n \in LaneNos \ {l} : /\ coloradoHeatData'[n] = coloradoHeatData[n]
                                  /\ coloradoPlaceData'[n] = coloradoPlaceData[n]
BY DEF GetLaneTime, Remember, laneVars, TypeOK, AnalyserTypeOK, LanesTypeOK

(* News is remembered as it is sent.                                       *)
LEMMA NewsRemembered ==
  ASSUME TypeOK, NEW l \in LaneNos, NEW row \in Row, NoTenIn(row),
         GetLaneTime(l, row), IsNews(l, row)
  PROVE  /\ coloradoHeatData'[l] = Result(l, row).time
         /\ coloradoPlaceData'[l] = Decimal(Result(l, row).place)
<1>1. Remember(l, Stored(TimeText(row)), PlaceText(row))
  BY DEF GetLaneTime, IsNews, IsCleared
<1> QED
  BY <1>1, TextIsTime DEF Remember, TypeOK, AnalyserTypeOK, LanesTypeOK

LEMMA NewsInvStep ==
  ASSUME BoardShowsDigits, TypeOK, DigitsInv, NewsInv, [Next]_vars
  PROVE  NewsInv'
<1>1. CASE LaneStep
  <2> DEFINE l == frame'
             row == colorado_data'[l]
  <2>1. /\ l \in LaneNos /\ row \in RowsAfterFrame(l) /\ GetLaneTime(l, row)
        /\ sent' = IF IsNews(l, row) /\ sendActiveState THEN <<Result(l, row)>> ELSE <<>>
    BY <1>1, LaneStepFacts
  <2>2. /\ DOMAIN shown' = LaneNos
        /\ \A n \in LaneNos \ {l} : shown'[n] = shown[n]
        /\ sent' # <<>> => shown'[l] = sent'[1]
        /\ sent' = <<>> /\ TimeText(row) = NullTime => shown'[l] = Nothing
        /\ sent' = <<>> /\ TimeText(row) # NullTime =>
             shown'[l] = IF sendActiveState \/ Known(l, Result(l, row)) THEN shown[l] ELSE Held
    BY <1>1, LaneStepShown DEF NewsInv
  <2> HIDE DEF l, row
  <2>3. NoTenIn(row)
    BY <2>1, RowsShowDigits
  <2>4. row \in Row
    BY <2>1, RowsAfterFrameAreRows DEF TypeOK, AnalyserTypeOK, Channels
  <2>5. \A n \in LaneNos \ {l} : /\ coloradoHeatData'[n] = coloradoHeatData[n]
                                 /\ coloradoPlaceData'[n] = coloradoPlaceData[n]
    BY <2>1, OtherLanesStay
  <2>6. shown'[l] \notin {Nothing, Held}
          => /\ shown'[l].time = coloradoHeatData'[l]
             /\ Decimal(shown'[l].place) = coloradoPlaceData'[l]
    <3>1. CASE sent' # <<>>
      <4>1. IsNews(l, row) /\ shown'[l] = Result(l, row)
        BY <2>1, <2>2, <3>1
      <4> QED
        BY <2>1, <2>3, <2>4, <4>1, NewsRemembered
    <3>2. CASE sent' = <<>> /\ TimeText(row) = NullTime
      BY <2>2, <3>2
    <3>3. CASE sent' = <<>> /\ TimeText(row) # NullTime
      <4>1. CASE sendActiveState \/ Known(l, Result(l, row))
        <5>1. ~IsNews(l, row)
          BY <2>1, <2>3, <2>4, <3>3, <4>1, KnownIsNoNews
        <5>2. UNCHANGED laneVars
          BY <2>1, <3>3, <5>1 DEF GetLaneTime, IsCleared
        <5>3. shown'[l] = shown[l]
          BY <2>2, <3>3, <4>1
        <5> QED
          BY <2>1, <5>2, <5>3 DEF NewsInv, laneVars
      <4>2. CASE ~(sendActiveState \/ Known(l, Result(l, row)))
        BY <2>2, <3>3, <4>2
      <4> QED
        BY <4>1, <4>2
    <3> QED
      BY <3>1, <3>2, <3>3
  <2> QED
    BY <2>2, <2>5, <2>6 DEF NewsInv
<1>2. CASE ClockStep \/ HeaderStep \/ RoundStep
  <2>1. CASE shown' = [l \in LaneNos |-> Nothing] /\ ResetAllData
    BY <2>1 DEF NewsInv
  <2>2. CASE UNCHANGED <<shown, laneVars>>
    BY <2>2 DEF NewsInv, laneVars
  <2> QED
    BY <1>2, <2>1, <2>2, LanesForgotten
<1>3. CASE UNCHANGED vars
  BY <1>3 DEF NewsInv, vars, analyserVars, observers, laneVars
<1> QED
  BY <1>1, <1>2, <1>3 DEF Next

(* analyseActiveData: on a board without tens in its times a subscriber is *)
(* told nothing that he knows.                                             *)
THEOREM OnlyNewsIsSent ==
  ASSUME BoardShowsDigits
  PROVE  Spec => OnlyNews
<1> DEFINE Inv == TypeOK /\ DigitsInv /\ NewsInv
           Step == \A l \in LaneNos :
                     frame' = l /\ sent' # <<>> => ~Known(l, sent'[1])
<1>1. Inv /\ Next => Step
  <2> SUFFICES ASSUME Inv, Next, NEW l \in LaneNos, frame' = l, sent' # <<>>
               PROVE  ~Known(l, sent'[1])
    OBVIOUS
  <2> DEFINE row == colorado_data'[l]
  <2>1. LaneStep
    BY LaneFrameIsLaneStep
  <2>2. /\ row \in RowsAfterFrame(l)
        /\ IsNews(l, row) /\ sent' = <<Result(l, row)>>
    BY <2>1, LaneStepFacts
  <2>3. NoTenIn(row) /\ row \in Row
    BY <2>2, RowsShowDigits, RowsAfterFrameAreRows DEF TypeOK, AnalyserTypeOK, Channels
  <2> QED
    BY <2>2, <2>3, KnownIsNoNews
<1>2. Inv /\ [Next]_vars => [Step]_vars
  BY <1>1
<1>3. Init => DigitsInv /\ NewsInv
  BY DigitsInvInit, NewsInvInit
<1>4. TypeOK /\ DigitsInv /\ NewsInv /\ [Next]_vars => DigitsInv' /\ NewsInv'
  BY DigitsInvStep, NewsInvStep
<1> QED
  BY <1>2, <1>3, <1>4, TypeCorrect, PTL DEF Spec, OnlyNews

-----------------------------------------------------------------------------
(* A lost message, seen from the subscriber: LossIsLocal is inductive.     *)
LEMMA LossStep ==
  ASSUME BoardShowsDigits, TypeOK, DigitsInv, LossIsLocal, DOMAIN heard = LaneNos,
         [SubscriberNext]_subscriberVars
  PROVE  LossIsLocal' /\ DOMAIN heard' = LaneNos
<1>1. CASE LaneStepLossy
  <2> DEFINE l == frame'
             row == colorado_data'[l]
  <2>1. /\ l \in LaneNos /\ row \in RowsAfterFrame(l) /\ GetLaneTime(l, row)
        /\ sent' = IF IsNews(l, row) /\ sendActiveState THEN <<Result(l, row)>> ELSE <<>>
    BY <1>1, LaneStepFacts DEF LaneStepLossy
  <2>2. IF IsNews(l, row) THEN Deliver(l) ELSE NoResult
    BY <1>1 DEF LaneStepLossy
  <2> HIDE DEF l, row
  <2>3. NoTenIn(row) /\ row \in Row
    BY <2>1, RowsShowDigits, RowsAfterFrameAreRows DEF TypeOK, AnalyserTypeOK, Channels
  <2>4. \A n \in LaneNos \ {l} : /\ coloradoHeatData'[n] = coloradoHeatData[n]
                                 /\ coloradoPlaceData'[n] = coloradoPlaceData[n]
    BY <2>1, OtherLanesStay
  <2>5. CASE IsNews(l, row)
    <3>1. CASE sent' # <<>> /\ heard' = [heard EXCEPT ![l] = sent'[1]]
               /\ missed' = missed \ {l}
      <4>1. heard'[l] = Result(l, row)
        BY <2>1, <3>1
      <4>2. /\ heard'[l] # Unheard /\ heard'[l].time = coloradoHeatData'[l]
            /\ Decimal(heard'[l].place) = coloradoPlaceData'[l]
        <5>1. /\ coloradoHeatData'[l] = Result(l, row).time
              /\ coloradoPlaceData'[l] = Decimal(Result(l, row).place)
          BY <2>1, <2>3, <2>5, NewsRemembered
        <5>2. Result(l, row) # Unheard
          BY DEF Result, Unheard
        <5> QED
          BY <4>1, <5>1, <5>2
      <4>3. \A n \in LaneNos \ {l} : heard'[n] = heard[n]
        BY <3>1
      <4>4. ASSUME NEW n \in LaneNos \ missed', coloradoHeatData'[n] # NullTime
            PROVE  Tells(heard[n], n)'
        <5>1. CASE n = l
          BY <4>2, <5>1 DEF Tells
        <5>2. CASE n # l
          BY <2>4, <3>1, <4>3, <4>4, <5>2 DEF LossIsLocal, Tells
        <5> QED
          BY <5>1, <5>2
      <4> QED
        BY <3>1, <4>4 DEF LossIsLocal
    <3>2. CASE UNCHANGED heard /\ missed' = missed \cup {l}
      BY <2>4, <3>2 DEF LossIsLocal, Tells
    <3> QED
      BY <2>2, <2>5, <3>1, <3>2 DEF Deliver
  <2>6. CASE ~IsNews(l, row)
    <3>1. \A n \in LaneNos : coloradoHeatData'[n] # NullTime
            => /\ coloradoHeatData'[n] = coloradoHeatData[n]
               /\ coloradoPlaceData'[n] = coloradoPlaceData[n]
      BY <2>1, <2>4, <2>6
      DEF GetLaneTime, Remember, laneVars, TypeOK, AnalyserTypeOK, LanesTypeOK
    <3> QED
      BY <2>2, <2>6, <3>1 DEF NoResult, LossIsLocal, Tells
  <2> QED
    BY <2>5, <2>6
<1>2. CASE OtherStep
  <2>1. \A n \in LaneNos : coloradoHeatData'[n] # NullTime
          => /\ coloradoHeatData'[n] = coloradoHeatData[n]
             /\ coloradoPlaceData'[n] = coloradoPlaceData[n]
    <3>1. ResetAllData \/ UNCHANGED laneVars
      BY <1>2, LanesForgotten DEF OtherStep
    <3> QED
      BY <3>1 DEF ResetAllData, laneVars
  <2> QED
    BY <1>2, <2>1 DEF OtherStep, NoResult, LossIsLocal, Tells
<1>3. CASE UNCHANGED subscriberVars
  BY <1>3 DEF subscriberVars, vars, analyserVars, laneVars, LossIsLocal, Tells
<1> QED
  BY <1>1, <1>2, <1>3 DEF SubscriberNext

LEMMA SubscriberSpecRefines == SubscriberSpec => Spec
<1>1. SubscriberInit => Init
  BY DEF SubscriberInit
<1>2. [SubscriberNext]_subscriberVars => [Next]_vars
  BY DEF SubscriberNext, LaneStepLossy, OtherStep, Next, subscriberVars
<1> QED
  BY <1>1, <1>2, PTL DEF SubscriberSpec, Spec

(* A result that was lost (analyseLane.cpp:118) or held back (:236) makes  *)
(* no other one wrong, whatever is lost and on every board without tens in *)
(* its times.                                                              *)
THEOREM ALossIsLocal ==
  ASSUME BoardShowsDigits
  PROVE  SubscriberSpec => []LossIsLocal
<1> DEFINE Inv == DigitsInv /\ LossIsLocal /\ DOMAIN heard = LaneNos
<1>1. SubscriberInit => Inv
  <2>1. SubscriberInit => LossIsLocal /\ DOMAIN heard = LaneNos
    BY DEF SubscriberInit, Init, InitReadData, InitLanes, LossIsLocal
  <2> QED
    BY <2>1, DigitsInvInit DEF SubscriberInit
<1>2. TypeOK /\ Inv /\ [SubscriberNext]_subscriberVars => Inv'
  <2>1. [SubscriberNext]_subscriberVars => [Next]_vars
    BY DEF SubscriberNext, LaneStepLossy, OtherStep, Next, subscriberVars
  <2> QED
    BY <2>1, DigitsInvStep, LossStep
<1> QED
  BY <1>1, <1>2, SubscriberSpecRefines, TypeCorrect, PTL DEF SubscriberSpec

=============================================================================
