------------------------------- MODULE Lanes --------------------------------
(***************************************************************************)
(* analyseLane.cpp (built without orderbyplace): remember the time and     *)
(* place last seen on each lane and publish what is new.                   *)
(*                                                                         *)
(* The gate (getsendActiveState) is a parameter: the code asks it only     *)
(* when it publishes, and remembers the result whether it is open or not.  *)
(***************************************************************************)
EXTENDS BoardRow

CONSTANT LaneNos      \* the lanes in use

ASSUME LaneNosAssumption == LaneNos \subseteq 1..10

VARIABLES
  coloradoHeatData,     \* time last seen, as text, per lane
  coloradoPlaceData     \* place last seen, as text, per lane

laneVars == <<coloradoHeatData, coloradoPlaceData>>

NullTime == <<0, 0, 0, 0, 0, 0>>
NullPlace == <<0>>

TimeText(row) == Chars(row, 2) \o Chars(row, 5)
PlaceText(row) == Char(row, 1)

(* strncpy copies 8 characters; the ninth byte is 0 since initanalyseLane. *)
Stored(text) == IF Len(text) > 8 THEN SubSeq(text, 1, 8) ELSE text

InitLanes ==
  /\ coloradoHeatData = [l \in LaneNos |-> NullTime]
  /\ coloradoPlaceData = [l \in LaneNos |-> NullPlace]

(* A time is 6 to 12 digits wide, kept up to its eighth. *)
LanesTypeOK ==
  /\ coloradoHeatData \in [LaneNos -> Seq(0..9)]
  /\ coloradoPlaceData \in [LaneNos -> Seq(0..9)]
  /\ \A l \in LaneNos : /\ Len(coloradoHeatData[l]) \in 6..8
                         /\ Len(coloradoPlaceData[l]) \in 1..2

ResetAllData ==
  /\ coloradoHeatData' = [l \in LaneNos |-> NullTime]
  /\ coloradoPlaceData' = [l \in LaneNos |-> NullPlace]

-----------------------------------------------------------------------------
(* Mutant: a changed place is news also when it has been taken back. *)
IsNewsAnyPlace(l, row) ==
  \/ /\ TimeText(row) = coloradoHeatData[l]
     /\ PlaceText(row) # coloradoPlaceData[l]
  \/ TimeText(row) # coloradoHeatData[l] /\ TimeText(row) # NullTime

(* A new time, or a place other than 0 for the time already known. *)
IsNews(l, row) ==
  \/ /\ TimeText(row) = coloradoHeatData[l]
     /\ PlaceText(row) \notin {coloradoPlaceData[l], NullPlace}
  \/ TimeText(row) # coloradoHeatData[l] /\ TimeText(row) # NullTime

(* The lane was cleared: forget what it showed, publish nothing. *)
IsCleared(l, row) ==
  TimeText(row) # coloradoHeatData[l] /\ TimeText(row) = NullTime

Remember(l, time, place) ==
  /\ coloradoHeatData' = [coloradoHeatData EXCEPT ![l] = time]
  /\ coloradoPlaceData' = [coloradoPlaceData EXCEPT ![l] = place]

(* Mutant: the place of the time before is kept for a time without one. *)
GetLaneTimeKeepsPlace(l, row) ==
  \/ /\ IsNews(l, row)
     /\ Remember(l, Stored(TimeText(row)),
                 IF PlaceText(row) = NullPlace THEN coloradoPlaceData[l] ELSE PlaceText(row))
  \/ IsCleared(l, row) /\ Remember(l, NullTime, NullPlace)
  \/ ~IsNews(l, row) /\ ~IsCleared(l, row) /\ UNCHANGED laneVars

(* analyseActiveData.  Its last test, line 224, compares with 13 a value   *)
(* checkBitValue limits to 10, and never holds.                            *)
GetLaneTime(l, row) ==
  \/ IsNews(l, row) /\ Remember(l, Stored(TimeText(row)), PlaceText(row))
  \/ IsCleared(l, row) /\ Remember(l, NullTime, NullPlace)
  \/ ~IsNews(l, row) /\ ~IsCleared(l, row) /\ UNCHANGED laneVars

(* Evaluated before the step. *)
LaneMsgs(l, row, gate) ==
  IF IsNews(l, row) /\ gate
    THEN << [kind  |-> "lane", lane |-> l,
             time  |-> [i \in 1..6 |-> CheckBitValue(row[i + 1])],
             place |-> CheckBitValue(row[1])] >>
    ELSE <<>>
=============================================================================
