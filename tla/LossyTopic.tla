----------------------------- MODULE LossyTopic -----------------------------
(***************************************************************************)
(* What the subscribers of the topic `rawdata' may rely on: messages come  *)
(* in the order in which they were given to mqtt_send, each at most once.  *)
(* Any of them may be missing.  Message k is the k-th that was given.      *)
(***************************************************************************)
EXTENDS Naturals, Sequences

VARIABLES
  given,      \* how many messages have been given to mqtt_send
  published   \* the messages subscribers were sent, in their order

Newest == IF published = <<>> THEN 0 ELSE published[Len(published)]

Init == given = 0 /\ published = <<>>

Give == given' = given + 1 /\ UNCHANGED published

Publish ==
  /\ \E k \in (Newest + 1)..given : published' = Append(published, k)
  /\ UNCHANGED given

Next == Give \/ Publish

Spec == Init /\ [][Next]_<<given, published>>
=============================================================================
