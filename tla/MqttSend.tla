------------------------------ MODULE MqttSend ------------------------------
(***************************************************************************)
(* mqttUtils.cpp with libmosquitto and the broker: every message opens a   *)
(* connection of its own, under the client id all of them share, and is    *)
(* published with QoS 0 without waiting for the broker's answer.  The next *)
(* message closes the connection, read or not.                             *)
(*                                                                         *)
(* The broker reads the connections at its own pace.  A CONNECT under a    *)
(* client id that is in use takes the session over: what the older         *)
(* connection still had to say is dropped.                                 *)
(*                                                                         *)
(* Message k is the k-th that was given to mqtt_send.                      *)
(***************************************************************************)
EXTENDS Naturals, Sequences

CONSTANT MaxSent        \* bound: messages given to mqtt_send

ASSUME MaxSentAssumption == MaxSent \in Nat

VARIABLES
  error_state,    \* the last message failed
  mosq,           \* the connection libmosquitto holds, 0: none
  stage,             \* where mqtt_send is
  given,          \* messages given to mqtt_send so far
  conns,          \* all connections, as the broker sees them
  up,             \* the broker runs
  published       \* what the broker passed on to subscribers

clientVars == <<error_state, mosq, stage, given>>
mqttVars == <<clientVars, conns, up, published>>

CONNECT == 0      \* the packet that is not a message
Packet == Nat

Connection ==
  [state : {"new", "active", "gone"},   \* gone: the broker has forgotten it
   inbox : Seq(Packet),                 \* sent, and not read by the broker
   open  : BOOLEAN]                     \* not yet closed by the client

-----------------------------------------------------------------------------
MInit ==
  /\ error_state = FALSE
  /\ mosq = 0
  /\ stage = "idle"
  /\ given = 0
  /\ conns = <<>>
  /\ up \in BOOLEAN
  /\ published = <<>>

Closed == IF mosq = 0 THEN conns ELSE [conns EXCEPT ![mosq].open = FALSE]

(* Mutant: the connection of the message before is left open. *)
ReopenNoClose ==
  \/ /\ up
     /\ conns' = Append(conns, [state |-> "new", inbox |-> <<CONNECT>>,
                                open |-> TRUE])
     /\ mosq' = Len(conns) + 1
  \/ /\ conns' = conns
     /\ mosq' = 0

(* Close the connection there is and open another one, which may fail at   *)
(* any time, and fails if the broker is down.                              *)
Reopen ==
  \/ /\ up
     /\ conns' = Append(Closed, [state |-> "new", inbox |-> <<CONNECT>>,
                                 open |-> TRUE])
     /\ mosq' = Len(conns) + 1
  \/ /\ conns' = Closed
     /\ mosq' = 0

(* mqtt_send is called; nobody waits for, or looks at, what it returns. *)
Send ==
  /\ stage = "idle" /\ given < MaxSent
  /\ given' = given + 1
  /\ error_state' = FALSE
  /\ stage' = IF error_state THEN "reconnect" ELSE "connect"
  /\ UNCHANGED <<mosq, conns, up, published>>

(* mosquitto_reconnect after an error; its result is ignored. *)
Reconnect ==
  /\ stage = "reconnect"
  /\ Reopen
  /\ stage' = "connect"
  /\ UNCHANGED <<error_state, given, up, published>>

Connect ==
  /\ stage = "connect"
  /\ Reopen
  /\ error_state' = (mosq' = 0)
  /\ stage' = IF mosq' = 0 THEN "idle" ELSE "publish"
  /\ UNCHANGED <<given, up, published>>

Alive(c) == c # 0 /\ conns[c].state # "gone"

(* Mutant: the connection is destroyed when the message is written. *)
PublishAndDestroy ==
  /\ stage = "publish"
  /\ IF Alive(mosq)
       THEN /\ conns' = [conns EXCEPT ![mosq].inbox = Append(@, given),
                                      ![mosq].open = FALSE]
            /\ UNCHANGED error_state
       ELSE /\ error_state' \in BOOLEAN
            /\ UNCHANGED conns
  /\ stage' = "idle"
  /\ UNCHANGED <<mosq, given, up, published>>

(* To a connection that the broker gave up the write may succeed, or fail. *)
Publish ==
  /\ stage = "publish"
  /\ IF Alive(mosq)
       THEN /\ conns' = [conns EXCEPT ![mosq].inbox = Append(@, given)]
            /\ UNCHANGED error_state
       ELSE /\ error_state' \in BOOLEAN
            /\ UNCHANGED conns
  /\ stage' = "idle"
  /\ UNCHANGED <<mosq, given, up, published>>

-----------------------------------------------------------------------------
Forgotten(conn) == [conn EXCEPT !.state = "gone", !.inbox = <<>>]

(* Mutant: the broker takes the connections in any order. *)
AnyTurn(c) == c \in DOMAIN conns

(* Connections come from one client on this host, one after the other, and *)
(* the broker goes through them in that order: no CONNECT is read before   *)
(* the one of an older connection.                                         *)
InTurn(c) == \A d \in 1..(c - 1) : conns[d].state # "new"

(* Mutant: connections have client ids of their own, nothing is cut off.   *)
TakeOverNobody(c) ==
  [conns EXCEPT ![c].state = "active", ![c].inbox = Tail(@)]

(* The older session of the same client id is cut off. *)
TakeOver(c) ==
  [d \in DOMAIN conns |->
     IF d = c THEN [conns[d] EXCEPT !.state = "active", !.inbox = Tail(@)]
     ELSE IF conns[d].state = "active" THEN Forgotten(conns[d]) ELSE conns[d]]

BrokerConnect(c) ==
  /\ up /\ conns[c].state = "new"
  /\ InTurn(c)
  /\ conns' = TakeOver(c)
  /\ UNCHANGED <<clientVars, up, published>>

BrokerPublish(c) ==
  /\ up /\ conns[c].state = "active" /\ conns[c].inbox # <<>>
  /\ published' = Append(published, Head(conns[c].inbox))
  /\ conns' = [conns EXCEPT ![c].inbox = Tail(@)]
  /\ UNCHANGED <<clientVars, up>>

(* The client closed the connection.  It never reads the broker's answer   *)
(* to its CONNECT, so that closing resets it, and what was not yet read    *)
(* may be lost.  Or nothing came on it for longer than the keepalive time. *)
BrokerHangUp(c) ==
  /\ up /\ conns[c].state = "active"
  /\ conns[c].open => conns[c].inbox = <<>> /\ stage = "idle"
  /\ conns' = [conns EXCEPT ![c] = Forgotten(@)]
  /\ UNCHANGED <<clientVars, up, published>>

Crash ==
  /\ up
  /\ up' = FALSE
  /\ conns' = [c \in DOMAIN conns |-> Forgotten(conns[c])]
  /\ UNCHANGED <<clientVars, published>>

Restart ==
  /\ ~up
  /\ up' = TRUE
  /\ UNCHANGED <<clientVars, conns, published>>

BrokerReads == \E c \in DOMAIN conns : BrokerConnect(c) \/ BrokerPublish(c)

MNext ==
  \/ Send \/ Reconnect \/ Connect \/ Publish
  \/ BrokerReads \/ \E c \in DOMAIN conns : BrokerHangUp(c)
  \/ Crash \/ Restart

MSpec == MInit /\ [][MNext]_mqttVars

(* A broker that runs reads what was sent. *)
FairMSpec == MSpec /\ WF_mqttVars(BrokerReads)

-----------------------------------------------------------------------------
MTypeOK ==
  /\ error_state \in BOOLEAN
  /\ mosq \in 0..Len(conns)
  /\ stage \in {"idle", "reconnect", "connect", "publish"}
  /\ given \in 0..MaxSent
  /\ conns \in Seq(Connection)
  /\ up \in BOOLEAN
  /\ published \in Seq(1..MaxSent)
  /\ stage = "publish" => mosq # 0

(* mqtt_send never lets go of a connection without closing it, although it *)
(* opens one for every message and after an error two.                     *)
OneSocket == \A c \in DOMAIN conns : conns[c].open => c = mosq

(* Subscribers get messages in the order of the calls and none twice, even *)
(* though they travel on connections of their own that the broker reads in *)
(* parallel: that they share a client id is what keeps them in order.      *)
Topic == INSTANCE LossyTopic
TopicSpec == Topic!Spec

Reached(k) == \E i \in DOMAIN published : published[i] = k
Waiting(k) ==
  mosq # 0 /\ \E i \in DOMAIN conns[mosq].inbox : conns[mosq].inbox[i] = k

(* While the broker runs it does not drop the connection mosq holds before *)
(* it has read the message sent on it: not even mosquitto_reconnect and    *)
(* mosquitto_connect in a row, two CONNECTs under one client id, cut off   *)
(* the connection the message is sent on.                                  *)
NotCutOff ==
  [][Alive(mosq) /\ mosq' = mosq /\ conns'[mosq].state = "gone"
       => ~up' \/ Reached(given)]_mqttVars

(* A message that mqtt_send wrote reaches the subscribers if the broker    *)
(* goes on running and no other message is sent before it was read.        *)
ArrivesUnlessCrowdedOut ==
  \A k \in 1..MaxSent : Waiting(k) ~> (Reached(k) \/ ~up \/ given > k)
=============================================================================
