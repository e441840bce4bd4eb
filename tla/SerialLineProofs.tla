-------------------------- MODULE SerialLineProofs --------------------------
(***************************************************************************)
(* Whatever frames the score board sends, and whichever bytes are lost, as *)
(* long as fewer are lost between two received address words than the      *)
(* shortest frame has: what putReadData hands over is what was sent.       *)
(***************************************************************************)
EXTENDS WinLine, SequenceTheorems, TLAPS

-----------------------------------------------------------------------------
(* The decoder on its own, for every set of bytes: it never writes past    *)
(* its buffer and hands over nothing but complete frames.                  *)

(* While collecting, what follows the address word are data bytes.         *)
DecoderInv ==
  /\ TypeOK
  /\ colorado_start_detected => \A i \in 2..Len(buf) : ~IsAddressWord(buf[i])
  /\ OnlyFramesHandedOver

(* One call of putReadData keeps the invariant, whatever the byte; also    *)
(* used where the bytes come from a serial line.                           *)
LEMMA PutReadDataKeepsDecoderInv ==
  ASSUME DecoderInv, NEW b \in 0..255, PutReadData(b)
  PROVE  DecoderInv'
<1>1. CASE IsAddressWord(b)
  <2>1. AddressWord(b)
    BY <1>1 DEF PutReadData
  <2>2. decoded' # <<>> => IsFrame(decoded')
    BY <2>1 DEF AddressWord, DecoderInv, TypeOK, BufferOK, IsFrame, Complete,
                in_count
  <2>3. buf' = <<b>> /\ Len(buf') = 1 /\ buf'[1] = b /\ buf' \in Seq(0..255)
    BY <2>1 DEF AddressWord
  <2>4. decoded' \in Seq(0..255)
    BY <2>1 DEF AddressWord, DecoderInv, TypeOK
  <2> QED
    BY <1>1, <2>1, <2>2, <2>3, <2>4
    DEF AddressWord, DecoderInv, TypeOK, BufferOK, BUFFER_LENGTH,
        OnlyFramesHandedOver
<1>2. CASE ~IsAddressWord(b)
  <2>1. DataByte(b)
    BY <1>2 DEF PutReadData
  <2>2. CASE colorado_start_detected
    <3>1. buf' = Append(buf, b) /\ buf \in Seq(0..255)
      BY <2>1, <2>2 DEF DataByte, DecoderInv, TypeOK
    <3>2. /\ buf' \in Seq(0..255) /\ Len(buf') = Len(buf) + 1
          /\ \A i \in 1..Len(buf) : buf'[i] = buf[i]
          /\ buf'[Len(buf) + 1] = b
      BY <3>1
    <3>3. \A i \in 2..Len(buf') : ~IsAddressWord(buf'[i])
      BY <1>2, <2>2, <3>1, <3>2 DEF DecoderInv
    <3>4. Len(buf) \in 1..9 /\ IsAddressWord(buf[1])
      BY <2>2 DEF DecoderInv, TypeOK, BufferOK, BUFFER_LENGTH
    <3>5. buf'[1] = buf[1]
      BY <3>2, <3>4
    <3>6. /\ colorado_start_detected' \in BOOLEAN
          /\ colorado_start_detected' => Len(buf') <= 9
          /\ decoded' = <<>>
      BY <2>1, <2>2 DEF DataByte
    <3>7. BufferOK'
      BY SMTT(30), <3>2, <3>4, <3>5, <3>6 DEF BufferOK, BUFFER_LENGTH
    <3>8. TypeOK'
      BY <3>2, <3>6, <3>7 DEF TypeOK
    <3> QED
      BY <3>3, <3>6, <3>8 DEF DecoderInv, OnlyFramesHandedOver
  <2>3. CASE ~colorado_start_detected
    BY <2>1, <2>3
    DEF DataByte, DecoderInv, TypeOK, BufferOK, OnlyFramesHandedOver
  <2> QED
    BY <2>2, <2>3
<1> QED
  BY <1>1, <1>2 DEF IsAddressWord

LEMMA DecoderInvInit == Init => DecoderInv
<1> SUFFICES ASSUME Init PROVE DecoderInv
  OBVIOUS
<1>1. <<>> \in Seq(0..255) /\ Len(<<>>) = 0
  OBVIOUS
<1>2. BufferOK
  BY <1>1 DEF Init, BufferOK, BUFFER_LENGTH
<1>3. TypeOK
  BY <1>1, <1>2 DEF Init, TypeOK
<1>4. OnlyFramesHandedOver
  BY DEF Init, OnlyFramesHandedOver
<1> QED
  BY <1>3, <1>4 DEF Init, DecoderInv

LEMMA DecoderInvStep == DecoderInv /\ [Next]_decoderVars => DecoderInv'
<1> SUFFICES ASSUME DecoderInv, [Next]_decoderVars PROVE DecoderInv'
  OBVIOUS
<1>1. CASE Next
  BY <1>1, PutReadDataKeepsDecoderInv, BytesAssumption DEF Next
<1>2. CASE UNCHANGED decoderVars
  BY <1>2 DEF decoderVars, DecoderInv, TypeOK, BufferOK, OnlyFramesHandedOver
<1> QED
  BY <1>1, <1>2

THEOREM DecoderInvInvariant == Spec => []DecoderInv
BY DecoderInvInit, DecoderInvStep, PTL DEF Spec

(* No byte stream makes putReadData write past buf[BUFFER_LENGTH].         *)
THEOREM DecoderTypeCorrect == Spec => []TypeOK
BY DecoderInvInvariant, PTL DEF DecoderInv

(* No byte stream makes putReadData hand over an incomplete frame or one   *)
(* with an address word inside.                                            *)
THEOREM DecoderHandsOverFrames == Spec => []OnlyFramesHandedOver
BY DecoderInvInvariant, PTL DEF DecoderInv

-----------------------------------------------------------------------------

LInv == DecoderInv /\ LTypeOK /\ LineInv

-----------------------------------------------------------------------------
(* Facts about frames. *)
LEMMA FrameFacts ==
  ASSUME NEW f \in Frames
  PROVE  /\ f \in Seq(0..255)
         /\ Len(f) \in 1..9
         /\ Len(f) > MaxLoss
         /\ f # <<>>
         /\ IsAddressWord(f[1])
         /\ \A i \in 1..Len(f) : f[i] \in 0..255
         /\ \A i \in 2..Len(f) : ~IsAddressWord(f[i])
         /\ colorado_channel_length[ControlChannel(f[1])] \in {0, Len(f)}
<1>1. f \in Seq(Bytes) /\ Len(f) \in 1..9
  BY LineAssumption DEF BUFFER_LENGTH
<1>2. \A i \in 1..Len(f) : f[i] \in Bytes
  BY <1>1, ElementOfSeq
<1>3. \A i \in 1..Len(f) : f[i] \in 0..255
  BY <1>2, BytesAssumption
<1>4. f \in Seq(0..255)
  <2> DEFINE S == 0..255
  <2>1. f \in [1..Len(f) -> Bytes] /\ Len(f) \in Nat
    BY <1>1, LenProperties
  <2>2. f \in [1..Len(f) -> S]
    BY <1>3, <2>1
  <2> HIDE DEF S
  <2>3. f \in Seq(S)
    BY <2>1, <2>2, SeqDef
  <2> QED
    BY <2>3 DEF S
<1> QED
  BY <1>1, <1>3, <1>4, LineAssumption

LEMMA PrefixStep ==
  ASSUME NEW S, NEW f \in Seq(S), NEW n \in 0..(Len(f) - 1)
  PROVE  Append(SubSeq(f, 1, n), f[n + 1]) = SubSeq(f, 1, n + 1)
OBVIOUS

LEMMA FirstPrefix ==
  ASSUME NEW S, NEW f \in Seq(S), Len(f) >= 1
  PROVE  SubSeq(f, 1, 1) = <<f[1]>>
<1>1. SubSeq(f, 1, 0) = <<>>
  OBVIOUS
<1>2. Append(SubSeq(f, 1, 0), f[0 + 1]) = SubSeq(f, 1, 0 + 1)
  BY PrefixStep
<1>3. 0 + 1 = 1 /\ Append(<<>>, f[1]) = <<f[1]>>
  OBVIOUS
<1> QED
  BY <1>1, <1>2, <1>3

LEMMA WholePrefix ==
  ASSUME NEW S, NEW f \in Seq(S)
  PROVE  SubSeq(f, 1, Len(f)) = f
OBVIOUS

-----------------------------------------------------------------------------
(* Counting is enough: a complete frame is in the buffer when an address   *)
(* word arrives only if it is the frame that was sent.                     *)
LEMMA CompleteIsOrigin ==
  ASSUME LInv, pos = 0, colorado_start_detected, Complete
  PROVE  buf = origin
<1>1. origin \in Frames /\ buf[1] = origin[1] /\ Inside
  BY DEF LInv, LTypeOK, LineInv
<1>2. Len(buf) \in 1..9 /\ lost \in 0..MaxLoss /\ MaxLoss \in Nat
  BY LineAssumption
  DEF LInv, DecoderInv, TypeOK, BufferOK, BUFFER_LENGTH, LTypeOK
<1>3. Len(buf) = Len(origin) /\ Len(origin) \in 1..9
  BY <1>1, <1>2, FrameFacts DEF Complete, in_count
<1>4. FrameSent
  BY <1>1, <1>2, <1>3 DEF Inside, SameFrame, LaterFrame
<1> QED
  BY <1>2, <1>3, <1>4 DEF FrameSent

-----------------------------------------------------------------------------
(* The invariant, action by action.                                        *)
LEMMA NextFrameKeepsLInv == LInv /\ NextFrame => LInv'
<1> SUFFICES ASSUME LInv, NextFrame PROVE LInv'
  OBVIOUS
<1>1. /\ cur \in Frames /\ cur' \in Frames /\ pos = Len(cur) /\ pos' = 0
      /\ lost \in 0..MaxLoss /\ MaxLoss \in Nat
      /\ origin \in Frames \cup {<<>>}
  BY LineAssumption DEF LInv, LTypeOK, NextFrame
<1>2. Len(cur) \in 1..9 /\ Len(cur) > MaxLoss /\ Len(cur') \in 1..9
  BY <1>1, FrameFacts
<1>3. UNCHANGED <<colorado_start_detected, buf, origin, lost>> /\ decoded' = <<>>
  BY DEF NextFrame
<1>4. DecoderInv'
  <2>1. <<>> \in Seq(0..255)
    OBVIOUS
  <2> QED
    BY <1>3, <2>1
    DEF LInv, DecoderInv, TypeOK, BufferOK, OnlyFramesHandedOver
<1>5. LTypeOK'
  BY <1>1, <1>2, <1>3, <1>4 DEF LTypeOK, DecoderInv
<1>6. ASSUME colorado_start_detected PROVE Inside'
  <2>1. Inside /\ origin \in Frames /\ Len(buf) \in 1..9
    BY <1>1, <1>6
    DEF LInv, LineInv, DecoderInv, TypeOK, BufferOK, BUFFER_LENGTH
  <2>2. Len(origin) \in 1..9
    BY <2>1, FrameFacts
  <2>3. CASE SameFrame
    <3>1. SubSeq(cur, 1, Len(cur)) = cur
      BY <1>1, FrameFacts, WholePrefix
    <3>2. FrameSent'
      BY <1>1, <1>3, <2>3, <3>1 DEF SameFrame, FrameSent
    <3> QED
      BY <3>2 DEF Inside
  <2>4. CASE FrameSent
    BY <1>1, <1>2, <2>4 DEF FrameSent
  <2>5. CASE LaterFrame
    <3>1. LaterFrame'
      BY <1>1, <1>2, <1>3, <2>1, <2>2, <2>5 DEF LaterFrame
    <3> QED
      BY <3>1 DEF Inside
  <2> QED
    BY <2>1, <2>3, <2>4, <2>5 DEF Inside
<1>7. LineInv'
  BY <1>3, <1>6 DEF LInv, LineInv
<1> QED
  BY <1>4, <1>5, <1>7 DEF LInv

LEMMA LoseKeepsLInv == LInv /\ Lose => LInv'
<1> SUFFICES ASSUME LInv, Lose PROVE LInv'
  OBVIOUS
<1>1. /\ cur \in Frames /\ cur' = cur /\ pos \in 0..Len(cur) /\ pos < Len(cur)
      /\ pos' = pos + 1 /\ lost' = lost + 1
      /\ lost \in 0..MaxLoss /\ lost < MaxLoss /\ MaxLoss \in Nat
      /\ origin \in Frames \cup {<<>>}
  BY LineAssumption DEF LInv, LTypeOK, Lose
<1>2. Len(cur) \in 1..9
  BY <1>1, FrameFacts
<1>3. UNCHANGED <<colorado_start_detected, buf, origin>> /\ decoded' = <<>>
  BY DEF Lose
<1>4. DecoderInv'
  <2>1. <<>> \in Seq(0..255)
    OBVIOUS
  <2> QED
    BY <1>3, <2>1
    DEF LInv, DecoderInv, TypeOK, BufferOK, OnlyFramesHandedOver
<1>5. LTypeOK'
  BY <1>1, <1>2, <1>3, <1>4 DEF LTypeOK, DecoderInv
<1>6. ASSUME colorado_start_detected PROVE Inside'
  <2>1. Inside /\ origin \in Frames /\ Len(buf) \in 1..9
    BY <1>1, <1>6
    DEF LInv, LineInv, DecoderInv, TypeOK, BufferOK, BUFFER_LENGTH
  <2>2. Len(origin) \in 1..9
    BY <2>1, FrameFacts
  <2>3. CASE SameFrame
    <3>1. SameFrame'
      BY <1>1, <1>2, <1>3, <2>1, <2>3 DEF SameFrame
    <3> QED
      BY <3>1 DEF Inside
  <2>4. CASE FrameSent \/ LaterFrame
    <3>1. LaterFrame'
      BY <1>1, <1>2, <1>3, <2>1, <2>2, <2>4 DEF FrameSent, LaterFrame
    <3> QED
      BY <3>1 DEF Inside
  <2> QED
    BY <2>1, <2>3, <2>4 DEF Inside
<1>7. LineInv'
  BY <1>1, <1>3, <1>6 DEF LInv, LineInv
<1> QED
  BY <1>4, <1>5, <1>7 DEF LInv
LEMMA DeliverKeepsLInv == LInv /\ Deliver => LInv'
<1> SUFFICES ASSUME LInv, Deliver PROVE LInv'
  OBVIOUS
<1> DEFINE b == cur[pos + 1]
<1>1. /\ cur \in Frames /\ cur' = cur /\ pos \in 0..Len(cur) /\ pos < Len(cur)
      /\ pos' = pos + 1
      /\ lost \in 0..MaxLoss /\ MaxLoss \in Nat
      /\ origin \in Frames \cup {<<>>}
      /\ PutReadData(b)
  BY LineAssumption DEF LInv, LTypeOK, Deliver
<1>2. /\ Len(cur) \in 1..9 /\ cur \in Seq(0..255) /\ cur # <<>>
      /\ pos + 1 \in 1..Len(cur) /\ pos \in 0..(Len(cur) - 1)
      /\ b \in 0..255
  <2>1. Len(cur) \in 1..9 /\ cur \in Seq(0..255) /\ cur # <<>>
    BY <1>1, FrameFacts
  <2>2. pos + 1 \in 1..Len(cur) /\ pos \in 0..(Len(cur) - 1)
    BY <1>1, <2>1
  <2>3. b \in 0..255
    BY <2>1, <2>2, ElementOfSeq
  <2> QED
    BY <2>1, <2>2, <2>3
<1>3. DecoderInv'
  BY <1>1, <1>2, PutReadDataKeepsDecoderInv DEF LInv
<1>4. CASE pos = 0
  <2>1. IsAddressWord(b) /\ origin' = cur /\ lost' = 0
    BY <1>1, <1>4, FrameFacts DEF Deliver
  <2>2. buf' = <<b>> /\ colorado_start_detected' = TRUE
    BY <1>1, <2>1 DEF PutReadData, AddressWord
  <2>3. LTypeOK'
    BY <1>1, <1>2, <1>3, <2>1 DEF LTypeOK, DecoderInv
  <2>4. SubSeq(cur, 1, 1) = <<b>>
    <3>1. SubSeq(cur, 1, 0) = <<>>
      BY <1>2
    <3>2. Append(SubSeq(cur, 1, 0), cur[0 + 1]) = SubSeq(cur, 1, 0 + 1)
      BY <1>2, <1>4, PrefixStep
    <3>3. 0 + 1 = 1 /\ b = cur[1] /\ Append(<<>>, b) = <<b>>
      BY <1>4
    <3> QED
      BY <3>1, <3>2, <3>3
  <2>5. SameFrame'
    BY <1>1, <1>4, <2>1, <2>2, <2>4 DEF SameFrame
  <2>6. buf'[1] = origin'[1] /\ origin' # <<>>
    BY <1>2, <1>4, <2>1, <2>2
  <2> QED
    BY <1>3, <2>2, <2>3, <2>5, <2>6 DEF LInv, LineInv, Inside
<1>5. CASE pos > 0
  <2>1. ~IsAddressWord(b) /\ UNCHANGED <<origin, lost>>
    BY <1>1, <1>2, <1>5, FrameFacts DEF Deliver
  <2>2. DataByte(b)
    BY <1>1, <2>1 DEF PutReadData
  <2>3. LTypeOK'
    BY <1>1, <1>2, <1>3, <2>1 DEF LTypeOK, DecoderInv
  <2>4. CASE ~colorado_start_detected
    <3>1. ~colorado_start_detected'
      BY <2>2, <2>4 DEF DataByte
    <3>2. origin' = <<>> \/ lost' # 0
      BY <2>1, <2>4 DEF LInv, LineInv
    <3> QED
      BY <1>3, <2>3, <3>1, <3>2 DEF LInv, LineInv
  <2>5. CASE colorado_start_detected
    <3>1. /\ Inside /\ origin \in Frames /\ origin # <<>>
          /\ buf \in Seq(0..255) /\ Len(buf) \in 1..9
          /\ buf[1] = origin[1] /\ Len(origin) \in 1..9
      BY <1>1, <2>5, FrameFacts
      DEF LInv, LineInv, DecoderInv, TypeOK, BufferOK, BUFFER_LENGTH
    <3>2. buf' = Append(buf, b)
      BY <2>2, <2>5 DEF DataByte
    <3>3. Len(buf') = Len(buf) + 1 /\ buf'[1] = buf[1]
      BY <1>2, <3>1, <3>2
    <3>4. Inside'
      <4>1. CASE SameFrame
        <5>1. Append(SubSeq(cur, 1, pos), b) = SubSeq(cur, 1, pos + 1)
          BY <1>1, <1>2, PrefixStep
        <5>2. SameFrame'
          BY <1>1, <1>2, <2>1, <3>1, <3>2, <3>3, <4>1, <5>1 DEF SameFrame
        <5> QED
          BY <5>2 DEF Inside
      <4>2. CASE LaterFrame
        <5>1. LaterFrame'
          BY <1>1, <1>2, <1>5, <2>1, <3>1, <3>3, <4>2 DEF LaterFrame
        <5> QED
          BY <5>1 DEF Inside
      <4> QED
        BY <1>5, <3>1, <4>1, <4>2 DEF Inside, FrameSent
    <3>5. ASSUME lost = 0 PROVE colorado_start_detected'
      <4>1. Len(buf) = pos
        BY <1>1, <1>5, <3>1, <3>5 DEF Inside, SameFrame, FrameSent, LaterFrame
      <4>2. Len(buf') <= 9
        BY <1>1, <1>2, <3>3, <4>1
      <4> QED
        BY <2>2, <2>5, <4>2 DEF DataByte
    <3> QED
      BY <1>3, <2>1, <2>3, <3>1, <3>3, <3>4, <3>5 DEF LInv, LineInv
  <2> QED
    BY <2>4, <2>5 DEF LInv, DecoderInv, TypeOK
<1> QED
  BY <1>1, <1>4, <1>5

LEMMA LInvInit == LInit => LInv
<1> SUFFICES ASSUME LInit PROVE LInv
  OBVIOUS
<1>1. DecoderInv
  BY DecoderInvInit DEF LInit
<1>2. MaxLoss \in Nat
  BY LineAssumption
<1> QED
  BY <1>1, <1>2 DEF LInit, Init, LInv, DecoderInv, LTypeOK, LineInv

LEMMA LInvStep == LInv /\ [LNext]_vars => LInv'
<1> SUFFICES ASSUME LInv, [LNext]_vars PROVE LInv'
  OBVIOUS
<1>1. CASE NextFrame
  BY <1>1, NextFrameKeepsLInv
<1>2. CASE Deliver
  BY <1>2, DeliverKeepsLInv
<1>3. CASE Lose
  BY <1>3, LoseKeepsLInv
<1>4. CASE UNCHANGED vars
  BY <1>4
  DEF vars, decoderVars, lineVars, LInv, DecoderInv, TypeOK, BufferOK,
      OnlyFramesHandedOver, LTypeOK, LineInv, Inside, SameFrame, FrameSent,
      LaterFrame
<1> QED
  BY <1>1, <1>2, <1>3, <1>4 DEF LNext

THEOREM LInvInvariant == LSpec => []LInv
BY LInvInit, LInvStep, PTL DEF LSpec

-----------------------------------------------------------------------------
(* The decoder keeps its place on the line: type correctness and the       *)
(* counting invariant, for all frames and every admissible loss.           *)
THEOREM LineTypeCorrect == LSpec => []LTypeOK
BY LInvInvariant, PTL DEF LInv

THEOREM LineInvariant == LSpec => []LineInv
BY LInvInvariant, PTL DEF LInv

(* A frame of which no byte was lost is handed over, as it was sent, by    *)
(* the call of putReadData that receives the next address word.            *)
THEOREM NothingIsMissed == LSpec => NothingMissed
<1> DEFINE Step == Deliver /\ pos = 0 /\ origin # <<>> /\ Handled(origin)
                     /\ lost = 0 => decoded' = origin
<1>1. LInv /\ LNext => Step
  <2> SUFFICES ASSUME LInv, Deliver, pos = 0, origin # <<>>,
                      Handled(origin), lost = 0
               PROVE  decoded' = origin
    OBVIOUS
  <2>1. colorado_start_detected /\ origin \in Frames /\ cur \in Frames
    BY DEF LInv, LineInv, LTypeOK
  <2>2. FrameSent
    BY <2>1, LineAssumption
    DEF LInv, LineInv, Inside, SameFrame, LaterFrame
  <2>3. buf = origin
    BY <2>2 DEF FrameSent
  <2>4. Complete
    BY <2>1, <2>3, FrameFacts DEF Complete, in_count, Handled
  <2>5. PutReadData(cur[1]) /\ IsAddressWord(cur[1])
    BY <2>1, FrameFacts DEF Deliver
  <2> QED
    BY <2>1, <2>3, <2>4, <2>5 DEF PutReadData, AddressWord
<1>2. LInv /\ [LNext]_vars => [Step]_vars
  BY <1>1
<1> QED
  BY <1>2, LInvInvariant, PTL DEF LSpec, NothingMissed

(* The decoder on the line implements FrameDelivery: every frame is handed *)
(* over unchanged when the next one begins, or never.                      *)
THEOREM ImplementsDelivery == LSpec => DeliverySpec
<1>1. LInit => Delivery!Init
  BY DEF LInit, Init, Delivery!Init
<1>2. LInv /\ [LNext]_vars => [Delivery!Next]_<<origin, decoded>>
  <2> SUFFICES ASSUME LInv, [LNext]_vars
               PROVE  [Delivery!Next]_<<origin, decoded>>
    OBVIOUS
  <2>1. CASE NextFrame \/ Lose
    BY <2>1 DEF NextFrame, Lose, Delivery!Next, Delivery!Continue
  <2>2. CASE Deliver
    <3>1. /\ cur \in Frames /\ pos \in 0..Len(cur) /\ pos < Len(cur)
          /\ PutReadData(cur[pos + 1])
      BY <2>2 DEF LInv, LTypeOK, Deliver
    <3>2. CASE pos = 0
      <4>1. IsAddressWord(cur[1]) /\ origin' = cur
        BY <2>2, <3>1, <3>2, FrameFacts DEF Deliver
      <4>2. decoded' \in {origin, <<>>}
        BY <3>1, <3>2, <4>1, CompleteIsOrigin DEF PutReadData, AddressWord
      <4> QED
        BY <3>1, <4>1, <4>2 DEF Delivery!Next, Delivery!Begin
    <3>3. CASE pos > 0
      <4>1. ~IsAddressWord(cur[pos + 1]) /\ origin' = origin
        BY <2>2, <3>1, <3>3, FrameFacts DEF Deliver
      <4> QED
        BY <3>1, <4>1 DEF PutReadData, DataByte, Delivery!Next, Delivery!Continue
    <3> QED
      BY <3>1, <3>2, <3>3, FrameFacts
  <2>3. CASE UNCHANGED vars
    BY <2>3 DEF vars, decoderVars, lineVars
  <2> QED
    BY <2>1, <2>2, <2>3 DEF LNext
<1> QED
  BY <1>1, <1>2, LInvInvariant, PTL DEF LSpec, DeliverySpec, Delivery!Spec
-----------------------------------------------------------------------------
(* The Windows receiver.  The line lost no byte since the last address     *)
(* word, so that what the decoder has collected is a prefix of the frame   *)
(* being received, unless a data byte of it was repeated: then it is       *)
(* longer than what was sent so far, and stays so until the next address   *)
(* word.  Without the count of the second case a padded frame might look   *)
(* complete.                                                               *)

(* How much of the frame has been received. *)
Received == IF pos = 0 THEN Len(origin) ELSE pos

Tracked ==
  origin # <<>> =>
    /\ pos > 0 => cur = origin
    /\ ReadData = origin[Received]
    /\ Received = 1 => ~padded
    /\ ~padded => colorado_start_detected /\ buf = SubSeq(origin, 1, Received)
    /\ padded /\ colorado_start_detected =>
         Len(buf) > Received /\ buf[1] = origin[1]

WInv == DecoderInv /\ WTypeOK /\ Tracked

LEMMA NoChannelOfOne ==
  ASSUME NEW b \in 0..255
  PROVE  colorado_channel_length[ControlChannel(b)] # 1
<1>1. ControlChannel(b) \in 0..31
  BY DEF ControlChannel
<1> QED
  BY <1>1 DEF colorado_channel_length, COLORADO_CHANNELS

(* The collected bytes are the frame, if none of it was repeated, and not  *)
(* complete if one was.                                                    *)
LEMMA TrackedComplete ==
  ASSUME WInv, origin # <<>>
  PROVE  /\ pos = 0 /\ ~padded => colorado_start_detected /\ buf = origin
         /\ pos = 0 /\ ~padded => (Complete <=> Handled(origin))
         /\ pos = 0 /\ padded => ~(colorado_start_detected /\ Complete)
         /\ Received \in 1..Len(origin)
         /\ Received = 1 <=> IsAddressWord(ReadData)
         /\ Received = 1 => ~(colorado_start_detected /\ Complete)
<1>1. origin \in Frames /\ pos \in 0..Len(cur) /\ cur \in Frames /\ padded \in BOOLEAN
  BY DEF WInv, WTypeOK
<1>2. /\ Len(origin) \in 1..9 /\ origin \in Seq(0..255) /\ IsAddressWord(origin[1])
      /\ \A i \in 2..Len(origin) : ~IsAddressWord(origin[i])
      /\ colorado_channel_length[ControlChannel(origin[1])] \in {0, Len(origin)}
  BY <1>1, FrameFacts
<1>3. Received \in 1..Len(origin)
  BY <1>1, <1>2 DEF Received, WInv, Tracked
<1>4. Received = 1 <=> IsAddressWord(ReadData)
  BY <1>2, <1>3 DEF WInv, Tracked
<1>5. pos = 0 /\ ~padded => colorado_start_detected /\ buf = origin
  BY <1>1, <1>2, WholePrefix DEF Received, WInv, Tracked
<1>6. pos = 0 /\ ~padded => (Complete <=> Handled(origin))
  BY <1>2, <1>5 DEF Complete, in_count, Handled
<1>7. pos = 0 /\ padded => ~(colorado_start_detected /\ Complete)
  BY <1>1, <1>2 DEF Complete, in_count, WInv, Tracked, Received
<1>8. Received = 1 => ~(colorado_start_detected /\ Complete)
  <2> SUFFICES ASSUME Received = 1 PROVE ~Complete
    OBVIOUS
  <2>1. buf = SubSeq(origin, 1, 1)
    BY DEF WInv, Tracked
  <2>2. Len(buf) = 1 /\ buf[1] = origin[1]
    BY <1>2, <2>1
  <2>3. colorado_channel_length[ControlChannel(origin[1])] # 1
    <3>1. origin[1] \in 0..255
      <4>1. 1 \in 1..Len(origin)
        BY <1>2
      <4> QED
        BY <1>2, <4>1, ElementOfSeq
    <3> QED
      BY <3>1, NoChannelOfOne
  <2> QED
    BY <2>2, <2>3 DEF Complete, in_count
<1> QED
  BY <1>3, <1>4, <1>5, <1>6, <1>7, <1>8

LEMMA WInvInit == MaxRepeats \in Nat /\ WInit => WInv
<1> SUFFICES ASSUME MaxRepeats \in Nat, WInit PROVE WInv
  OBVIOUS
<1>1. DecoderInv /\ origin = <<>>
  BY DecoderInvInit DEF WInit, LInit
<1>2. padded \in BOOLEAN
  BY Zenon DEF WInit
<1>3. repeats \in 0..MaxRepeats /\ ReadData \in Bytes
  BY DEF WInit
<1>4. TypeOK /\ cur \in Frames /\ pos \in 0..Len(cur) /\ origin \in Frames \cup {<<>>}
  BY <1>1 DEF WInit, LInit, DecoderInv
<1>5. WTypeOK
  BY <1>2, <1>3, <1>4 DEF WTypeOK
<1> QED
  BY <1>1, <1>5 DEF WInv, Tracked

LEMMA NextFrameKeepsWInv ==
  ASSUME WInv, NextFrame, UNCHANGED <<ReadData, repeats, padded>>
  PROVE  WInv'
<1>1. /\ cur \in Frames /\ cur' \in Frames /\ pos = Len(cur) /\ pos' = 0
      /\ UNCHANGED <<colorado_start_detected, buf, origin>> /\ decoded' = <<>>
  BY DEF WInv, WTypeOK, NextFrame
<1>2. Len(cur) \in 1..9 /\ Len(cur') \in 1..9
  BY <1>1, FrameFacts
<1>3. DecoderInv'
  BY <1>1 DEF WInv, DecoderInv, TypeOK, BufferOK, OnlyFramesHandedOver
<1>4. WTypeOK'
  BY <1>1, <1>2, <1>3 DEF WInv, WTypeOK, DecoderInv
<1>5. origin # <<>> => Received' = Received
  BY <1>1, <1>2 DEF WInv, Tracked, Received
<1> QED
  BY <1>1, <1>3, <1>4, <1>5 DEF WInv, Tracked

LEMMA ReadFileKeepsWInv ==
  ASSUME MaxRepeats \in Nat, WInv, ReadFile
  PROVE  WInv'
<1> DEFINE b == cur[pos + 1]
<1>1. /\ cur \in Frames /\ cur' = cur /\ pos \in 0..Len(cur) /\ pos < Len(cur)
      /\ pos' = pos + 1 /\ PutReadData(b) /\ ReadData' = b /\ repeats' = 0
      /\ padded' = (padded /\ pos # 0) /\ padded \in BOOLEAN
  BY DEF WInv, WTypeOK, ReadFile, Deliver
<1>2. /\ Len(cur) \in 1..9 /\ cur \in Seq(0..255) /\ cur # <<>>
      /\ cur \in Seq(Bytes)
      /\ IsAddressWord(cur[1]) /\ \A i \in 2..Len(cur) : ~IsAddressWord(cur[i])
  BY <1>1, FrameFacts, LineAssumption
<1>3. pos + 1 \in 1..Len(cur) /\ pos \in 0..(Len(cur) - 1)
  BY <1>1, <1>2
<1>4. b \in 0..255 /\ b \in Bytes
  BY <1>2, <1>3, ElementOfSeq
<1>5. DecoderInv'
  BY <1>1, <1>4, PutReadDataKeepsDecoderInv DEF WInv
<1>6. CASE pos = 0
  <2>1. IsAddressWord(b) /\ origin' = cur /\ pos' = 1 /\ ~padded'
    <3>1. ~padded'
      BY <1>1, <1>6, Zenon
    <3>2. IsAddressWord(b) /\ pos' = 1
      BY <1>1, <1>2, <1>6
    <3> QED
      BY <1>6, <3>1, <3>2 DEF ReadFile, Deliver
  <2>2. buf' = <<b>> /\ colorado_start_detected'
    BY <1>1, <2>1 DEF PutReadData, AddressWord
  <2>3. SubSeq(cur, 1, 1) = <<b>>
    BY <1>2, <1>6, FirstPrefix
  <2>4. WTypeOK'
    BY <1>1, <1>2, <1>3, <1>4, <1>5, <2>1 DEF WInv, WTypeOK, DecoderInv
  <2>5. Received' = 1
    BY <2>1 DEF Received
  <2> QED
    BY <1>1, <1>5, <1>6, <2>1, <2>2, <2>3, <2>4, <2>5 DEF WInv, Tracked
<1>7. CASE pos > 0
  <2>1. ~IsAddressWord(b) /\ origin' = origin /\ padded' = padded
    BY <1>1, <1>2, <1>3, <1>7 DEF ReadFile, Deliver
  <2>2. DataByte(b)
    BY <1>1, <2>1 DEF PutReadData
  <2>3. WTypeOK'
    BY <1>1, <1>2, <1>3, <1>4, <1>5, <2>1 DEF WInv, WTypeOK, DecoderInv
  <2>4. ASSUME origin # <<>>
        PROVE  Tracked'
    <3>1. cur = origin /\ Received = pos /\ Received' = pos + 1 /\ Received' # 1
      BY <1>1, <1>3, <1>7, <2>1, <2>4 DEF WInv, Tracked, Received
    <3>2. ASSUME ~padded
          PROVE  colorado_start_detected' /\ buf' = SubSeq(origin, 1, pos + 1)
      <4>1. colorado_start_detected /\ buf = SubSeq(cur, 1, pos)
        BY <2>4, <3>1, <3>2 DEF WInv, Tracked
      <4>2. Append(SubSeq(cur, 1, pos), b) = SubSeq(cur, 1, pos + 1)
        BY <1>2, <1>3, PrefixStep
      <4>3. Len(SubSeq(cur, 1, pos + 1)) = pos + 1 /\ pos + 1 <= 9
        BY SMTT(30), <1>2, <1>3
      <4>4. buf' = SubSeq(cur, 1, pos + 1)
        BY <2>2, <4>1, <4>2 DEF DataByte
      <4>5. colorado_start_detected'
        BY <2>2, <4>1, <4>3, <4>4 DEF DataByte
      <4> QED
        BY <3>1, <4>4, <4>5
    <3>3. ASSUME padded, colorado_start_detected'
          PROVE  Len(buf') > pos + 1 /\ buf'[1] = origin[1]
      <4>1. colorado_start_detected /\ buf' = Append(buf, b)
        BY <2>2, <3>3 DEF DataByte
      <4>2. Len(buf) > pos /\ buf[1] = origin[1] /\ buf \in Seq(0..255) /\ Len(buf) \in 1..9
        BY <2>4, <3>1, <3>3, <4>1
        DEF WInv, Tracked, DecoderInv, TypeOK, BufferOK, BUFFER_LENGTH
      <4> QED
        BY <1>3, <1>4, <4>1, <4>2
    <3> QED
      BY <1>1, <2>1, <2>4, <3>1, <3>2, <3>3 DEF Tracked
  <2> QED
    BY <1>5, <2>1, <2>3, <2>4 DEF WInv, Tracked
<1> QED
  BY <1>1, <1>6, <1>7

LEMMA ReadNothingKeepsWInv ==
  ASSUME MaxRepeats \in Nat, WInv, ReadNothing
  PROVE  WInv'
<1>1. /\ PutReadData(ReadData) /\ UNCHANGED lineVars /\ UNCHANGED ReadData
      /\ padded' = (padded \/ ~IsAddressWord(ReadData)) /\ padded \in BOOLEAN
      /\ repeats' = repeats + 1 /\ repeats < MaxRepeats /\ repeats \in 0..MaxRepeats
  BY DEF WInv, WTypeOK, ReadNothing
<1>2. ReadData \in 0..255 /\ ReadData \in Bytes
  BY BytesAssumption DEF WInv, WTypeOK
<1>3. DecoderInv'
  BY <1>1, <1>2, PutReadDataKeepsDecoderInv DEF WInv
<1>4. WTypeOK'
  BY <1>1, <1>2, <1>3 DEF WInv, WTypeOK, DecoderInv, lineVars
<1>5. UNCHANGED <<cur, pos, origin>> /\ Received' = Received
  BY <1>1 DEF lineVars, Received
<1>6. ASSUME origin # <<>>
      PROVE  Tracked'
  <2>1. /\ Received \in 1..Len(origin) /\ Len(origin) \in 1..9
        /\ Received = 1 <=> IsAddressWord(ReadData)
        /\ origin \in Seq(0..255)
    BY <1>6, TrackedComplete, FrameFacts DEF WInv, WTypeOK
  <2>2. CASE Received = 1
    <3>1. ~padded /\ colorado_start_detected /\ buf = SubSeq(origin, 1, 1)
      BY <1>6, <2>2 DEF WInv, Tracked
    <3>2. colorado_start_detected' /\ buf' = <<ReadData>> /\ ~padded'
      BY <1>1, <2>1, <2>2, <3>1 DEF PutReadData, AddressWord
    <3>3. ReadData = origin[1]
      BY <1>6, <2>2 DEF WInv, Tracked
    <3>4. SubSeq(origin, 1, 1) = <<ReadData>>
      BY <2>1, <3>3, FirstPrefix
    <3> QED
      BY <1>1, <1>5, <1>6, <2>2, <3>2, <3>3, <3>4 DEF WInv, Tracked
  <2>3. CASE Received # 1
    <3>1. padded' /\ DataByte(ReadData)
      BY <1>1, <2>1, <2>3 DEF PutReadData
    <3>2. ASSUME colorado_start_detected'
          PROVE  Len(buf') > Received /\ buf'[1] = origin[1]
      <4>1. colorado_start_detected /\ buf' = Append(buf, ReadData)
        BY <3>1, <3>2 DEF DataByte
      <4>2. Len(buf) >= Received /\ buf[1] = origin[1] /\ buf \in Seq(0..255)
            /\ Len(buf) \in 1..9
        BY <1>1, <1>6, <2>1, <4>1
        DEF WInv, Tracked, DecoderInv, TypeOK, BufferOK, BUFFER_LENGTH
      <4> QED
        BY <1>2, <2>1, <4>1, <4>2
    <3> QED
      BY <1>1, <1>5, <1>6, <2>3, <3>1, <3>2 DEF WInv, Tracked
  <2> QED
    BY <2>2, <2>3
<1> QED
  BY <1>3, <1>4, <1>5, <1>6 DEF WInv, Tracked

LEMMA WInvStep == MaxRepeats \in Nat /\ WInv /\ [WNext]_winVars => WInv'
<1> SUFFICES ASSUME MaxRepeats \in Nat, WInv, [WNext]_winVars PROVE WInv'
  OBVIOUS
<1>1. CASE ReadFile
  BY <1>1, ReadFileKeepsWInv
<1>2. CASE ReadNothing
  BY <1>2, ReadNothingKeepsWInv
<1>3. CASE NextFrame /\ UNCHANGED <<ReadData, repeats, padded>>
  BY <1>3, NextFrameKeepsWInv
<1>4. CASE UNCHANGED winVars
  BY <1>4
  DEF winVars, vars, decoderVars, lineVars, WInv, DecoderInv, TypeOK, BufferOK,
      OnlyFramesHandedOver, WTypeOK, Tracked, Received
<1> QED
  BY <1>1, <1>2, <1>3, <1>4 DEF WNext

(* A pause of the line repeats the byte read last, and still only what was *)
(* sent is handed over.                                                    *)
LEMMA WholeOrNothingStep ==
  ASSUME MaxRepeats \in Nat, WInv, WNext
  PROVE  HandsOverWhole
<1> SUFFICES ASSUME origin # <<>>
             PROVE  decoded' = IF ReadFile /\ pos = 0 /\ Handled(origin) /\ ~padded
                                 THEN origin ELSE <<>>
  BY DEF HandsOverWhole
<1>1. CASE ReadFile
  <2>1. /\ cur \in Frames /\ pos \in 0..Len(cur) /\ pos < Len(cur)
        /\ PutReadData(cur[pos + 1]) /\ Len(cur) \in 1..9
        /\ IsAddressWord(cur[1]) /\ \A i \in 2..Len(cur) : ~IsAddressWord(cur[i])
    BY <1>1, FrameFacts DEF WInv, WTypeOK, ReadFile, Deliver
  <2>2. CASE pos = 0
    <3>1. AddressWord(cur[1])
      BY <2>1, <2>2 DEF PutReadData
    <3> QED
      BY <1>1, <2>2, <3>1, TrackedComplete DEF AddressWord
  <2>3. CASE pos > 0
    <3>1. DataByte(cur[pos + 1])
      BY <2>1, <2>3 DEF PutReadData
    <3> QED
      BY <2>3, <3>1 DEF DataByte
  <2> QED
    BY <2>1, <2>2, <2>3
<1>2. CASE ReadNothing
  <2>1. ~ReadFile
    BY <1>2 DEF WInv, WTypeOK, ReadNothing, ReadFile, Deliver, lineVars
  <2>2. decoded' = <<>>
    BY <1>2, TrackedComplete DEF ReadNothing, PutReadData, AddressWord, DataByte
  <2> QED
    BY <2>1, <2>2
<1>3. CASE NextFrame
  BY <1>3 DEF NextFrame, ReadFile, Deliver
<1> QED
  BY <1>1, <1>2, <1>3 DEF WNext

(* Type correctness of the decoder behind readwin.cpp, for any number of   *)
(* repetitions.                                                            *)
THEOREM WindowsTypeCorrect == ASSUME MaxRepeats \in Nat PROVE WSpec => []WTypeOK
<1>1. WInv => WTypeOK
  BY DEF WInv
<1> QED
  BY <1>1, WInvInit, WInvStep, PTL DEF WSpec

(* Behind readwin.cpp a frame is handed over as it was sent, by the next   *)
(* address word, if the line did not pause inside its data, and else never.*)
THEOREM WindowsWholeOrNothing ==
  ASSUME MaxRepeats \in Nat PROVE WSpec => WholeOrNothing
<1>1. WInv /\ [WNext]_winVars => [HandsOverWhole]_winVars
  BY WholeOrNothingStep
<1> QED
  BY <1>1, WInvInit, WInvStep, PTL DEF WSpec, WholeOrNothing
=============================================================================
