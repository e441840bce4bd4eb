--------------------------- MODULE FrameDelivery ----------------------------
(***************************************************************************)
(* What framing promises its users: every frame the score board began is   *)
(* handed over unchanged when the next one begins, or never.  None is      *)
(* handed over twice, out of order, or made up of pieces of several.       *)
(***************************************************************************)
CONSTANTS Frames, None

VARIABLES
  origin,     \* the frame being received (None: nothing received so far)
  decoded     \* the frame handed over by the last step, or None

Init == origin = None /\ decoded = None

(* A new frame begins; the previous one is handed over, or was damaged. *)
Begin(f) == origin' = f /\ decoded' \in {origin, None}

(* More bytes of the frame arrive, or are lost. *)
Continue == decoded' = None /\ UNCHANGED origin

Next == Continue \/ \E f \in Frames : Begin(f)

Spec == Init /\ [][Next]_<<origin, decoded>>
=============================================================================
