---------------------------- MODULE FrameDecoder ----------------------------
(***************************************************************************)
(* Framing of the byte stream of the Colorado score board: the collecting  *)
(* half of putReadData (serialconnect/analyseData.cpp), which is called    *)
(* once for every byte a receiver reads.                                   *)
(*                                                                         *)
(* A byte with its top bit set is an address word: it names a channel and  *)
(* a control bit and starts a frame.  The bytes that follow belong to that *)
(* frame.  A frame is handed on only when the NEXT address word arrives,   *)
(* and only if its length is the one its channel prescribes.               *)
(*                                                                         *)
(* `decoded' is the frame the last call handed to the analysers (<<>> when *)
(* it handed over none): it stands for the branch of lines 95-130, whose   *)
(* effects on the rows and the analysers are in module Analyser.           *)
(***************************************************************************)
EXTENDS Integers, Sequences

CONSTANT Bytes          \* the bytes that may arrive

ASSUME BytesAssumption == Bytes \subseteq 0..255

VARIABLES
  colorado_start_detected,   \* an address word was seen, bytes are collected
  buf,                       \* buf[0 .. in_count-1] of the code
  decoded                    \* the frame handed over by the last call

decoderVars == <<colorado_start_detected, buf, decoded>>

-----------------------------------------------------------------------------
COLORADO_CHANNELS == 32
BUFFER_LENGTH == 10

(* Bytes per frame of each channel, address word included; 0: not handled. *)
colorado_channel_length ==
  [c \in 0..(COLORADO_CHANNELS - 1) |->
     IF c = 0 THEN 7
     ELSE IF c \in (1..10) \cup {12, 14, 15, 17, 18} THEN 9
     ELSE IF c = 22 THEN 5 ELSE 0]

IsAddressWord(b) == b >= 128

ControlBit(b) == b % 2

(* The channel number is sent inverted in bits 1 to 5. *)
ControlChannel(b) == 31 - ((b \div 2) % 32)

(* A data byte holds a digit number and, inverted, the digit's value. *)
DigitNo(b) == (b \div 16) % 8
Nibble(b)  == 15 - (b % 16)

in_count == Len(buf)

(* Mutant: more bytes than the channel has are accepted. *)
CompleteOrMore == in_count >= colorado_channel_length[ControlChannel(buf[1])]

(* The collected bytes are a complete frame of their channel. *)
Complete == in_count = colorado_channel_length[ControlChannel(buf[1])]

-----------------------------------------------------------------------------
Init ==
  /\ colorado_start_detected = FALSE
  /\ buf = <<>>
  /\ decoded = <<>>

(* Mutant: in_count is not reset. *)
AddressWordKeepsCount(b) ==
  /\ decoded' = IF colorado_start_detected /\ Complete THEN buf ELSE <<>>
  /\ buf' = IF buf = <<>> THEN <<b>> ELSE [buf EXCEPT ![1] = b]
  /\ colorado_start_detected' = TRUE

(* Mutant: the address word that completes a frame begins none. *)
AddressWordEndsFrame(b) ==
  /\ decoded' = IF colorado_start_detected /\ Complete THEN buf ELSE <<>>
  /\ buf' = <<b>>
  /\ colorado_start_detected' = ~(colorado_start_detected /\ Complete)

(* Mutant: a frame given up is never followed by another. *)
AddressWordNoRestart(b) ==
  /\ decoded' = IF colorado_start_detected /\ Complete THEN buf ELSE <<>>
  /\ buf' = <<b>>
  /\ colorado_start_detected' = (colorado_start_detected \/ buf = <<>>)

(* An address word: hand over what was collected, then start anew. *)
AddressWord(b) ==
  /\ decoded' = IF colorado_start_detected /\ Complete THEN buf ELSE <<>>
  /\ buf' = <<b>>
  /\ colorado_start_detected' = TRUE

(* Mutant: one byte too many before the frame is given up. *)
DataByteLateLimit(b) ==
  /\ buf' = IF colorado_start_detected THEN Append(buf, b) ELSE buf
  /\ colorado_start_detected' = (colorado_start_detected /\ Len(buf') <= 10)
  /\ decoded' = <<>>

(* A data byte: kept only inside a frame; a tenth byte gives the frame up. *)
DataByte(b) ==
  /\ buf' = IF colorado_start_detected THEN Append(buf, b) ELSE buf
  /\ colorado_start_detected' = (colorado_start_detected /\ Len(buf') <= 9)
  /\ decoded' = <<>>

PutReadData(b) ==
  IF IsAddressWord(b) THEN AddressWord(b) ELSE DataByte(b)

Next == \E b \in Bytes : PutReadData(b)

Spec == Init /\ [][Next]_decoderVars

-----------------------------------------------------------------------------
(* What one call may hand over: an address word of a handled channel and   *)
(* as many data bytes as that channel has digits.                          *)
IsFrame(f) ==
  /\ Len(f) > 0
  /\ IsAddressWord(f[1])
  /\ Len(f) = colorado_channel_length[ControlChannel(f[1])]
  /\ \A i \in 2..Len(f) : ~IsAddressWord(f[i])

(* While bytes are collected there is room for the next one: putReadData   *)
(* never writes past buf[BUFFER_LENGTH], and every byte it may index is    *)
(* one it has stored since the address word.                               *)
BufferOK ==
  /\ Len(buf) <= BUFFER_LENGTH
  /\ colorado_start_detected => /\ Len(buf) \in 1..(BUFFER_LENGTH - 1)
                                /\ IsAddressWord(buf[1])

TypeOK ==
  /\ colorado_start_detected \in BOOLEAN
  /\ buf \in Seq(0..255)
  /\ decoded \in Seq(0..255)
  /\ BufferOK

(* Whatever bytes arrive, noise included, the analysers only ever get      *)
(* complete frames: putReadData never hands over a frame that contains a   *)
(* second address word or has the wrong length for its channel.            *)
OnlyFramesHandedOver == decoded # <<>> => IsFrame(decoded)
=============================================================================
