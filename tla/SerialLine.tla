----------------------------- MODULE SerialLine -----------------------------
(***************************************************************************)
(* The frame decoder at the end of a serial line that loses bytes.         *)
(*                                                                         *)
(* The score board sends one frame after the other.  serial opens the port *)
(* at any moment, so the first byte it sees may be in the middle of a      *)
(* frame, and any byte may be lost on the way (the port is read unbuffered *)
(* and with parity bytes ignored, receiver/read.cpp).  Between two address *)
(* words that arrive, at most MaxLoss bytes are lost.                      *)
(*                                                                         *)
(* cur, pos, origin and lost belong to the line, not to the program.       *)
(***************************************************************************)
EXTENDS FrameDecoder

CONSTANTS
  Frames,     \* the frames the score board sends
  MaxLoss     \* bound: bytes lost since the last address word received

(* A frame is an address word and data bytes, as many as its channel       *)
(* prescribes if it is a handled one, and the line never loses as many     *)
(* bytes in a row as the shortest frame has.                               *)
ASSUME LineAssumption ==
  /\ MaxLoss \in Nat
  /\ \A f \in Frames :
       /\ f \in Seq(Bytes)
       /\ Len(f) \in 1..(BUFFER_LENGTH - 1)
       /\ Len(f) > MaxLoss
       /\ IsAddressWord(f[1])
       /\ \A i \in 2..Len(f) : ~IsAddressWord(f[i])
       /\ colorado_channel_length[ControlChannel(f[1])] \in {0, Len(f)}

VARIABLES
  cur,        \* the frame being sent
  pos,        \* how many of its bytes have been sent
  origin,     \* the frame whose address word was received last
  lost        \* bytes lost since then

lineVars == <<cur, pos, origin, lost>>
vars == <<decoderVars, lineVars>>

-----------------------------------------------------------------------------
LInit ==
  /\ Init
  /\ cur \in Frames
  /\ pos \in 0..Len(cur)
  /\ origin = <<>>
  /\ lost = 0

NextFrame ==
  /\ pos = Len(cur)
  /\ cur' \in Frames
  /\ pos' = 0
  /\ decoded' = <<>>
  /\ UNCHANGED <<colorado_start_detected, buf, origin, lost>>

Deliver ==
  /\ pos < Len(cur)
  /\ pos' = pos + 1
  /\ PutReadData(cur[pos + 1])
  /\ IF pos = 0 THEN origin' = cur /\ lost' = 0
                ELSE UNCHANGED <<origin, lost>>
  /\ UNCHANGED cur

Lose ==
  /\ pos < Len(cur)
  /\ lost < MaxLoss
  /\ pos' = pos + 1
  /\ lost' = lost + 1
  /\ decoded' = <<>>
  /\ UNCHANGED <<colorado_start_detected, buf, cur, origin>>

LNext == NextFrame \/ Deliver \/ Lose

LSpec == LInit /\ [][LNext]_vars

(* The score board never stops sending (its clock frame repeats), and a    *)
(* byte that is not lost arrives.                                          *)
FairLSpec == LSpec /\ WF_vars(NextFrame) /\ WF_vars(Deliver)

-----------------------------------------------------------------------------
Handled(f) == colorado_channel_length[ControlChannel(f[1])] # 0

LTypeOK ==
  /\ TypeOK
  /\ cur \in Frames
  /\ pos \in 0..Len(cur)
  /\ origin \in Frames \cup {<<>>}
  /\ lost \in 0..MaxLoss

(* Where the line is relative to what the decoder has collected.  Alone    *)
(* `handed over frames are frames that were sent' is not inductive: that   *)
(* no splice of two frames has the right length rests on counting.         *)

(* Still inside the frame whose address word was received. *)
SameFrame ==
  /\ cur = origin /\ pos > 0
  /\ Len(buf) + lost = pos
  /\ lost = 0 => buf = SubSeq(cur, 1, pos)

(* That frame was sent completely, the next address word is due. *)
FrameSent ==
  /\ pos = 0
  /\ Len(buf) + lost = Len(origin)
  /\ lost = 0 => buf = origin

(* A later address word was lost, its data bytes are collected as well. *)
LaterFrame ==
  /\ lost > 0
  /\ IF pos > 0 THEN Len(buf) + lost >= Len(origin) + pos
                ELSE Len(buf) + lost > Len(origin) + MaxLoss

Inside == SameFrame \/ FrameSent \/ LaterFrame

LineInv ==
  /\ colorado_start_detected =>
       /\ origin # <<>>
       /\ buf[1] = origin[1]
       /\ Inside
  /\ origin # <<>> /\ lost = 0 => colorado_start_detected
  /\ origin = <<>> => ~colorado_start_detected

(* A frame of a handled channel of which no byte was lost is handed over,  *)
(* as it was sent, by the very call that receives the next address word:   *)
(* putReadData neither drops a good frame after a damaged one nor needs a  *)
(* pause to find the beginning of a frame again.                           *)
NothingMissed ==
  [][Deliver /\ pos = 0 /\ origin # <<>> /\ Handled(origin) /\ lost = 0
       => decoded' = origin]_vars

(* putReadData hands over what was sent, at most once and in order.        *)
Delivery == INSTANCE FrameDelivery WITH None <- <<>>
DeliverySpec == Delivery!Spec

(* Once the line stops losing bytes and handled frames keep coming, frames *)
(* keep being handed over: no state of the decoder is a trap.              *)
Resync ==
  <>[][~Lose]_vars /\ []<>(pos = Len(cur) /\ Handled(cur))
    => []<>(decoded # <<>>)
=============================================================================
