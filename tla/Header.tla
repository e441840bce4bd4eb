------------------------------- MODULE Header -------------------------------
(***************************************************************************)
(* analyseHeader.cpp: event and heat number on the score board.  What a    *)
(* change does to the gate and to the lanes is in module Analyser.  Below  *)
(* the other handler that only announces: the rounds of serialUtils.cpp.   *)
(***************************************************************************)
EXTENDS BoardRow

VARIABLE COLORADO_HEADER_DATA     \* event and heat last announced

HeaderText(row) == << Chars(row, 0), Chars(row, 5) >>

(* 25 characters '0': no header text is equal to it. *)
NoHeader == <<>>

(* Event 0, heat 0: the board shows the time of day, not a heat. *)
ClockHeader == << <<0, 0, 0>>, <<0, 0, 0>> >>

InitHeader == COLORADO_HEADER_DATA = NoHeader

HeaderChanged(row) == HeaderText(row) \notin {ClockHeader, COLORADO_HEADER_DATA}

StoreHeader(row) ==
  COLORADO_HEADER_DATA' = IF HeaderChanged(row) THEN HeaderText(row)
                                                ELSE COLORADO_HEADER_DATA

(* Evaluated before the step; the message is sent twice. *)
HeaderMsgs(row) ==
  LET m == [kind |-> "header", text |-> HeaderText(row)]
  IN  IF HeaderChanged(row) THEN <<m, m>> ELSE <<>>

-----------------------------------------------------------------------------
(* storeRounds in serialUtils.cpp: count the distances swum, as the board  *)
(* shows one after the other on channel 18.                                *)
CONSTANT MaxRound       \* bound: rounds counted without a cleared board

ASSUME MaxRoundAssumption == MaxRound \in Nat

VARIABLES p_round, storeRoundsData

roundVars == <<p_round, storeRoundsData>>

RoundText(row) == Chars(row, 0) \o Chars(row, 3) \o Char(row, 6) \o Char(row, 7)

NullRounds == <<0, 0, 0, 0, 0, 0, 0, 0>>

(* 25 characters '0' and no terminator: equal to no text, not to "00000000" *)
(* either, so that a first cleared row is announced.                       *)
NoRounds == <<>>

InitRounds == p_round = 0 /\ storeRoundsData = NoRounds

RoundsChanged(row) == RoundText(row) # storeRoundsData

(* Mutant: a cleared board is counted as a round. *)
NextRoundNoReset(row) == IF RoundsChanged(row) THEN p_round + 1 ELSE p_round

NextRound(row) ==
  IF RoundText(row) = NullRounds THEN 0
  ELSE IF RoundsChanged(row) THEN p_round + 1 ELSE p_round

StoreRounds(row) ==
  /\ NextRound(row) <= MaxRound
  /\ p_round' = NextRound(row)
  /\ storeRoundsData' = RoundText(row)

(* Evaluated before the step. *)
RoundMsgs(row) ==
  IF RoundsChanged(row) THEN << [kind |-> "round", round |-> NextRound(row)] >>
                        ELSE <<>>
=============================================================================
