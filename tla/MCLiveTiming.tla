---------------------------- MODULE MCLiveTiming ----------------------------
(***************************************************************************)
(* Small score boards.  A clock frame carries the digits 2 to 7, every     *)
(* other frame the digits 0 to 7.                                          *)
(***************************************************************************)
EXTENDS LiveTiming

(* min10, min, s10, s, tenths; the last digit (hundredths) is dark. *)
ClockDigits(a, b, c, d, e) ==
  [i \in 2..7 |-> CASE i = 2 -> a [] i = 3 -> b [] i = 4 -> c
                    [] i = 5 -> d [] i = 6 -> e [] OTHER -> Blank]

Dark     == ClockDigits(Blank, Blank, Blank, Blank, Blank)
Zero     == ClockDigits(0, 0, 0, 0, 0)
JustOn   == ClockDigits(Blank, Blank, Blank, 1, 5)
AtLimit  == ClockDigits(Blank, Blank, Blank, 2, 0)
Live     == ClockDigits(Blank, Blank, 3, 1, 7)
TenMin   == ClockDigits(1, 0, 0, 0, 0)

(* A lane row: place p, and t the tenths of a time of 31.t seconds; a      *)
(* cleared row is dark but for the lane number.                            *)
LaneDigits(p, t) ==
  [i \in Digits |-> CASE i = 0 -> 4 [] i = 1 -> p [] i = 4 -> 3 [] i = 5 -> 1
                      [] i = 6 -> t [] i = 7 -> 0 [] OTHER -> Blank]
Cleared == [i \in Digits |-> IF i = 0 THEN 4 ELSE Blank]

(* Event e, heat 1; event 0 with heat 0 is the time of day. *)
HeaderDigits(e, h) ==
  [i \in Digits |-> CASE i = 2 -> e [] i = 7 -> h [] OTHER -> Blank]

DarkRow == [i \in Digits |-> Blank]
RoundDigits(n) == [i \in Digits |-> IF i = 3 THEN n ELSE Blank]

-----------------------------------------------------------------------------
LaneSet == {4}
NoFrames == [ch \in {0, 12, 18} \cup LaneSet |-> {}]

(* One lane, one header change after another, and the distances swum. *)
RaceDigits ==
  [NoFrames EXCEPT
     ![0] = {Dark, JustOn, AtLimit, Live, TenMin},
     ![4] = {Cleared, LaneDigits(Blank, 5), LaneDigits(1, 5), LaneDigits(2, 8)},
     ![12] = {HeaderDigits(1, 1), HeaderDigits(2, 1)},
     ![18] = {DarkRow} \cup {RoundDigits(n) : n \in {1, 2, 4, 6, 8}}]

(* A race and a result on lane 4. *)
OneResult == [NoFrames EXCEPT ![0] = {Dark, Live}, ![4] = {LaneDigits(1, 5)}]

(* The clock is only sent with control bit 0, as on the wire; what a header *)
(* frame with bit 1 makes of its row, a repeated frame does as well.       *)
NoChannels == {}
LanesAndRounds == LaneSet \cup {18}
=============================================================================
