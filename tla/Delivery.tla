------------------------------ MODULE Delivery ------------------------------
(***************************************************************************)
(* What a caller of mosquitto_publish is promised for QoS 1 and 2: a       *)
(* message is acknowledged only after it was passed on, a message of QoS 2 *)
(* is passed on once, and none is passed on after it was acknowledged.     *)
(***************************************************************************)
EXTENDS Naturals, Sequences

VARIABLES
  given,      \* the QoS of every message given so far
  released,   \* how often each was passed on to the subscribers
  acked       \* the messages that were acknowledged

Init == given = <<>> /\ released = <<>> /\ acked = {}

Give ==
  /\ \E qos \in 1..2 : given' = Append(given, qos)
  /\ released' = Append(released, 0)
  /\ UNCHANGED acked

Release(k) ==
  /\ k \notin acked
  /\ given[k] = 2 => released[k] = 0
  /\ released' = [released EXCEPT ![k] = @ + 1]
  /\ UNCHANGED <<given, acked>>

Acknowledge(k) ==
  /\ released[k] > 0
  /\ acked' = acked \cup {k}
  /\ UNCHANGED <<given, released>>

Next == Give \/ \E k \in DOMAIN given : Release(k) \/ Acknowledge(k)

Spec == Init /\ [][Next]_<<given, released, acked>>
=============================================================================
