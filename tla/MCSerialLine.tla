---------------------------- MODULE MCSerialLine ----------------------------
(***************************************************************************)
(* A clock frame, a frame of channel 22 (the shortest handled one) and a   *)
(* frame of the unhandled channel 11.  `part' says which receiver reads    *)
(* them; in the third part the bytes are noise.                            *)
(*                                                                         *)
(* Serial: four bytes are lost at most, one fewer than the shortest frame  *)
(* has.  Windows: no byte is lost, and a byte is repeated up to five       *)
(* times, so that a frame may be padded to the length of any other and     *)
(* beyond the end of buf.  Noise: address words of the clock, lane 1,      *)
(* channel 22 and channel 11, and two data bytes, in any order.            *)
(***************************************************************************)
EXTENDS SerialLine, TLAPS

CONSTANTS
  MaxRepeats,     \* Windows: repeats since the last byte read
  NoiseBytes      \* Noise: the bytes that arrive

ASSUME PartsAssumption == MaxRepeats \in Nat /\ NoiseBytes \subseteq 0..255

Clock == <<190, 112, 111, 95, 64, 48, 32>>
Short == <<146, 15, 31, 47, 63>>
Other == <<168, 14, 30, 46, 62, 78>>

MCFrames == {Clock, Short, Other}
SentBytes == UNION {{f[k] : k \in 1..Len(f)} : f \in MCFrames}
HeardBytes == {190, 188, 146, 168, 95, 47}

VARIABLES part, winDetected, winBuf, winDecoded, winCur, winPos, winOrigin, winLost,
          ReadData, repeats, padded

winVars == <<winDetected, winBuf, winDecoded, winCur, winPos, winOrigin, winLost,
             ReadData, repeats, padded>>

Win == INSTANCE SerialLineProofs WITH
  colorado_start_detected <- winDetected, buf <- winBuf, decoded <- winDecoded,
  cur <- winCur, pos <- winPos, origin <- winOrigin, lost <- winLost

(* The decoder alone: nobody sends frames. *)
Noise == INSTANCE SerialLineProofs WITH
  Bytes <- NoiseBytes, Frames <- {}, MaxLoss <- 0,
  colorado_start_detected <- winDetected, buf <- winBuf, decoded <- winDecoded,
  cur <- winCur, pos <- winPos, origin <- winOrigin, lost <- winLost

LineOff ==
  /\ winCur = "off" /\ winPos = "off" /\ winOrigin = "off" /\ winLost = "off"
  /\ ReadData = "off" /\ repeats = "off" /\ padded = "off"
WinOff == winDetected = "off" /\ winBuf = "off" /\ winDecoded = "off" /\ LineOff

-----------------------------------------------------------------------------
(* In the other parts the serial line stays before the first byte of a     *)
(* frame.                                                                  *)
MCInit ==
  /\ LInit
  /\ \/ part = "serial" /\ WinOff
     \/ part = "windows" /\ pos = 0 /\ Win!WInit
     \/ part = "noise" /\ pos = 0 /\ Noise!Init /\ LineOff

MCNext ==
  \/ part = "serial" /\ LNext /\ UNCHANGED <<part, winVars>>
  \/ part = "windows" /\ Win!WNext /\ UNCHANGED <<part, vars>>
  \/ /\ part = "noise" /\ Noise!Next
     /\ UNCHANGED <<part, vars, winCur, winPos, winOrigin, winLost, ReadData, repeats, padded>>

(* The fairness of SerialLine. *)
MCSpec ==
  /\ MCInit /\ [][MCNext]_<<part, vars, winVars>>
  /\ WF_vars(part = "serial" /\ NextFrame /\ UNCHANGED <<part, winVars>>)
  /\ WF_vars(part = "serial" /\ Deliver /\ UNCHANGED <<part, winVars>>)

(* FrameDecoder: whatever the bytes are, a frame that is handed over is    *)
(* complete, and the buffer is not overrun.                                *)
NoiseHarmless == part = "noise" => Noise!TypeOK /\ Noise!OnlyFramesHandedOver

(* WinLine: a frame is handed over as it was sent, or not at all.          *)
WholeOrNothing == [][part = "windows" => Win!HandsOverWhole]_<<part, vars, winVars>>

-----------------------------------------------------------------------------
(* What both rest on, for every set of frames, of bytes and number of      *)
(* repeats: the invariants of the decoder and of WinLine.                  *)
PartsInv ==
  /\ part = "windows" => Win!WInv
  /\ part = "noise" => Noise!DecoderInv

(* The frames of the line are also those of WinLine. *)
LEMMA SameFrames ==
  /\ Win!BUFFER_LENGTH = BUFFER_LENGTH
  /\ Win!colorado_channel_length = colorado_channel_length
  /\ \A b : Win!IsAddressWord(b) <=> IsAddressWord(b)
  /\ \A b : Win!ControlChannel(b) = ControlChannel(b)
BY DEF BUFFER_LENGTH, Win!BUFFER_LENGTH, colorado_channel_length, Win!colorado_channel_length,
       COLORADO_CHANNELS, Win!COLORADO_CHANNELS, IsAddressWord, Win!IsAddressWord,
       ControlChannel, Win!ControlChannel

LEMMA PartsInvInit == MCInit => PartsInv
BY PartsAssumption, BytesAssumption, LineAssumption, SameFrames, Win!WInvInit,
   Noise!DecoderInvInit DEF MCInit, PartsInv

LEMMA PartsInvStep == PartsInv /\ [MCNext]_<<part, vars, winVars>> => PartsInv'
<1> SUFFICES ASSUME PartsInv, [MCNext]_<<part, vars, winVars>> PROVE PartsInv'
  OBVIOUS
<1>1. part' = part
  BY DEF MCNext
<1>2. CASE part = "windows"
  <2>1. [Win!WNext]_Win!winVars
    BY <1>2 DEF MCNext, winVars, Win!winVars, Win!vars, Win!decoderVars, Win!lineVars
  <2> QED
    BY <1>1, <1>2, <2>1, PartsAssumption, BytesAssumption,
       LineAssumption, SameFrames, Win!WInvStep DEF PartsInv
<1>3. CASE part = "noise"
  <2>1. [Noise!Next]_Noise!decoderVars
    BY <1>3 DEF MCNext, winVars, Noise!decoderVars
  <2> QED
    BY <1>1, <1>3, <2>1, PartsAssumption, Noise!DecoderInvStep DEF PartsInv
<1> QED
  BY <1>1, <1>2, <1>3 DEF PartsInv

(* No noise makes putReadData overrun its buffer or hand over an           *)
(* incomplete frame.                                                       *)
THEOREM NoNoiseHarms == MCSpec => []NoiseHarmless
<1>1. PartsInv => NoiseHarmless
  BY DEF PartsInv, NoiseHarmless, Noise!DecoderInv
<1> QED
  BY <1>1, PartsInvInit, PartsInvStep, PTL DEF MCSpec

(* Behind readwin.cpp a frame is handed over as it was sent, by the next   *)
(* address word, if the line did not pause inside its data, and else never.*)
THEOREM WindowsWholeOrNothing == MCSpec => WholeOrNothing
<1> DEFINE Step == part = "windows" => Win!HandsOverWhole
<1>1. PartsInv /\ [MCNext]_<<part, vars, winVars>> => [Step]_<<part, vars, winVars>>
  BY PartsAssumption, BytesAssumption, LineAssumption, SameFrames,
     Win!WholeOrNothingStep DEF MCNext, PartsInv
<1> QED
  BY <1>1, PartsInvInit, PartsInvStep, PTL DEF MCSpec, WholeOrNothing
=============================================================================
