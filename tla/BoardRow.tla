------------------------------ MODULE BoardRow ------------------------------
(***************************************************************************)
(* A row of the score board as the analysers read it, and the conversions  *)
(* of helperFunctions.cpp.                                                 *)
(*                                                                         *)
(* Digit d of a channel is colorado_data[channel][2 * d]: the digits sent  *)
(* with control bit 0.  The odd places, written by frames with control bit *)
(* 1, are read nowhere in the program and are left out.                    *)
(***************************************************************************)
EXTENDS Integers, Sequences

Digits == 0..7
Row == [Digits -> 0..15]

(* initReadData fills every place with 0x01. *)
InitialRow == [d \in Digits |-> 1]

Blank == 15     \* 0x0F: the digit is dark

(* Ten is kept, it is lane 10; anything above is shown as 0. *)
CheckBitValue(v) == IF v > 10 THEN 0 ELSE v

(* What "%d" prints for a digit: two characters for ten. *)
Decimal(v) == IF v = 10 THEN <<1, 0>> ELSE <<v>>

Char(row, d) == Decimal(CheckBitValue(row[d]))
Chars(row, d) == Char(row, d) \o Char(row, d + 1) \o Char(row, d + 2)

(* Overlay the digits a frame carries on what is known of a row. *)
Overlay(row, digits) ==
  [d \in Digits |-> IF d \in DOMAIN digits THEN digits[d] ELSE row[d]]
=============================================================================
