--------------------------- MODULE PublishPacket ----------------------------
(***************************************************************************)
(* Under which topic, and with what, a message arrives: from the call of   *)
(* mosquitto_publish_v5 (actions.c) through the queue of the client, the   *)
(* topic aliases and the mount point of the broker (alias_mosq.c,          *)
(* handle_publish.c) to a subscriber (send_publish.c), and through the     *)
(* remapping of a bridge and back.                                         *)
(*                                                                         *)
(* Client and subscriber use MQTT 5; messages have QoS 0 or 1.  A PUBLISH  *)
(* is the number of its message, everything in it being what was given.    *)
(* The alias table of the broker belongs to a connection, what the client  *)
(* keeps to be acknowledged does not.                                      *)
(***************************************************************************)
EXTENDS Integers, Sequences, SequencesExt, FiniteSets

CONSTANTS
  Candidates,   \* [topic, alias, qos, retain, props] given, topic "" for
                \* none, alias 0 for none, props the other properties
  MaxGiven,     \* bound: messages given
  Room,         \* the client's msgs_out.inflight_maximum
  Configs,      \* [mount_point, retain_available, maximum_qos,
                \*  max_topic_alias, denied] of the broker and its listener
  Mounts,       \* mount points of the listeners a subscriber may come by
  BridgeTopics, \* lists of [topic, dir, local, remote]: topics of a bridge
  MaxBreaks     \* bound: connections that break

VARIABLES
  given,      \* messages given, with the topic that was meant
  waiting,    \* client: msgs_out.inflight, [id, state]
  quota,      \* client: msgs_out.inflight_quota
  max_qos,    \* client: maximum_qos
  conn,       \* client: "none", "connected", "active"
  line, acks, \* packets to the broker, and to the client
  config,
  aliases,    \* broker: the topics of the aliases of this connection
  stored,     \* broker: messages stored, [id, topic, props, expiry]
  subscribed, \* mount point of the listener the subscription was made by
  mounted,    \* mount point of the listener the subscriber is connected by
  received,   \* what the subscriber received, [id, topic, props, at]: at,
              \* the mount point of the listener it came by
  answered,   \* messages on_publish was called for
  named,      \* what the application has each alias stand for
  careless,   \* it renamed one while messages were not acknowledged
  offended,   \* messages the broker closed the connection for
  breaks

client == <<given, waiting, quota, max_qos, conn, answered, named, careless>>
broker == <<config, aliases, stored, subscribed, mounted, received, offended>>
vars == <<client, line, acks, broker, breaks>>

Aliases == {m.alias : m \in Candidates} \ {0}
Nothing == "none"
NoNames == [a \in Aliases |-> Nothing]
CONNECT == 0     \* and CONNACK

Init ==
  /\ given = <<>> /\ waiting = <<>> /\ quota = Room /\ max_qos = 2 /\ conn = "none"
  /\ line = <<>> /\ acks = <<>> /\ config \in Configs
  /\ aliases = NoNames /\ stored = <<>> /\ received = <<>>
  /\ subscribed \in Mounts /\ mounted = subscribed
  /\ answered = {} /\ named = NoNames /\ careless = FALSE /\ offended = {} /\ breaks = 0

-----------------------------------------------------------------------------
(* The client. *)

(* message__release_to_inflight: as many as the quota has room for.        *)
Release(list, room, to) ==
  LET held == {i \in 1..Len(list) : list[i].state = "invalid"}
      rel == {i \in held : Cardinality({j \in held : j <= i}) <= room}
      marked == [i \in 1..Len(list) |-> IF i \in rel THEN [list[i] EXCEPT !.state = "sent"]
                                                     ELSE list[i]]
      out == SelectSeq([i \in 1..Len(list) |-> IF i \in rel THEN list[i].id ELSE CONNECT],
                       LAMBDA k : k # CONNECT)
  IN IF conn = "none" THEN waiting' = list /\ quota' = room /\ line' = to
     ELSE waiting' = marked /\ quota' = room - Cardinality(rel) /\ line' = to \o out

(* mosquitto_publish_v5: without a topic there must be an alias; QoS 0 is  *)
(* written at once, and only then.                                         *)
Publish ==
  /\ Len(given) < MaxGiven
  /\ \E m \in Candidates :
       LET id == Len(given) + 1
           meant == IF m.topic # "" THEN m.topic ELSE named[m.alias]
           names == m.alias # 0 /\ m.topic # ""
       IN /\ m.topic # "" \/ m.alias # 0
          /\ m.qos <= max_qos /\ meant # Nothing
          /\ given' = Append(given, [m |-> m, meant |-> meant, early |-> conn # "active"])
          /\ IF names THEN /\ named' = [named EXCEPT ![m.alias] = m.topic]
                           /\ careless' = (careless \/ (waiting # <<>> /\
                                             named[m.alias] \notin {Nothing, m.topic}))
                      ELSE UNCHANGED <<named, careless>>
          /\ IF m.qos = 0
               THEN conn # "none" /\ line' = Append(line, id) /\ UNCHANGED <<waiting, quota>>
               ELSE Release(Append(waiting, [id |-> id, state |-> "invalid"]), quota, line)
  /\ UNCHANGED <<max_qos, conn, answered, acks, broker, breaks>>

(* Mutant: a message that was sent is not sent again. *)
ReconnectKeepsState ==
  /\ conn = "none" /\ conn' = "connected"
  /\ quota' = IF Len(waiting) < Room THEN Room - Len(waiting) ELSE 0
  /\ line' = <<CONNECT>> /\ acks' = <<>>
  /\ UNCHANGED <<given, waiting, max_qos, answered, named, careless, broker, breaks>>

(* mosquitto_reconnect, message__reconnect_reset *)
Reconnect ==
  /\ conn = "none" /\ conn' = "connected"
  /\ waiting' = [i \in 1..Len(waiting) |->
                   [waiting[i] EXCEPT !.state = IF i <= Room THEN "resume" ELSE "invalid"]]
  /\ quota' = IF Len(waiting) < Room THEN Room - Len(waiting) ELSE 0
  /\ line' = <<CONNECT>> /\ acks' = <<>>
  /\ UNCHANGED <<given, max_qos, answered, named, careless, broker, breaks>>

(* Mutant: the limit of the broker is not taken. *)
HandleConnackNoLimit ==
  /\ conn' = "active" /\ quota' = Room
  /\ LET resumed == SelectSeq(waiting, LAMBDA w : w.state = "resume")
     IN line' = line \o [i \in 1..Len(resumed) |-> resumed[i].id]
  /\ waiting' = [i \in 1..Len(waiting) |->
                   IF waiting[i].state = "resume" THEN [waiting[i] EXCEPT !.state = "sent"]
                                                  ELSE waiting[i]]
  /\ UNCHANGED <<answered, max_qos>>

(* handle__connack, message__retry_check *)
HandleConnack ==
  /\ conn' = "active" /\ max_qos' = config.maximum_qos /\ quota' = Room
  /\ LET resumed == SelectSeq(waiting, LAMBDA w : w.state = "resume")
     IN line' = line \o [i \in 1..Len(resumed) |-> resumed[i].id]
  /\ waiting' = [i \in 1..Len(waiting) |->
                   IF waiting[i].state = "resume" THEN [waiting[i] EXCEPT !.state = "sent"]
                                                  ELSE waiting[i]]
  /\ UNCHANGED answered

(* handle__pubackcomp *)
HandlePuback(id) ==
  /\ answered' = answered \cup {id}
  /\ Release(SelectSeq(waiting, LAMBDA w : w.id # id),
             IF quota < Room THEN quota + 1 ELSE quota, line)
  /\ UNCHANGED <<conn, max_qos>>

ClientRead ==
  /\ conn # "none" /\ acks # <<>> /\ acks' = Tail(acks)
  /\ IF Head(acks) = CONNECT THEN HandleConnack ELSE HandlePuback(Head(acks))
  /\ UNCHANGED <<given, named, careless, broker, breaks>>

-----------------------------------------------------------------------------
(* The broker. *)

Close ==
  /\ conn' = "none" /\ line' = <<>> /\ acks' = <<>>
  /\ UNCHANGED <<given, waiting, quota, max_qos, answered, named, careless>>

(* Mutant: the mount point is left where it is. *)
DeliverMounted(m) ==
  IF ~IsPrefix(subscribed, m.topic) \/ Len(mounted) >= Len(m.topic) THEN UNCHANGED received
  ELSE received' = Append(received,
         [id |-> m.id, topic |-> m.topic, at |-> mounted,
          props |-> m.props \o (IF m.expiry THEN <<"expiry">> ELSE <<>>)])

(* send__publish, send__real_publish: to the subscriber of every topic     *)
(* below the mount point it subscribed by.  Of the topic as much is cut    *)
(* off as the mount point is long that it comes by.                        *)
Deliver(m) ==
  IF ~IsPrefix(subscribed, m.topic) \/ Len(mounted) >= Len(m.topic) THEN UNCHANGED received
  ELSE received' = Append(received,
         [id |-> m.id, topic |-> SubSeq(m.topic, Len(mounted) + 1, Len(m.topic)),
          at |-> mounted, props |-> m.props \o (IF m.expiry THEN <<"expiry">> ELSE <<>>)])

(* alias__find, with what alias__add made of this packet *)
TopicOf(m) == IF m.topic # "" THEN m.topic ELSE aliases[m.alias]

Offends(m) ==
  \/ m.qos > config.maximum_qos
  \/ m.retain /\ ~config.retain_available
  \/ m.alias > config.max_topic_alias
  \/ TopicOf(m) = Nothing

(* Mutant: the table outlives the connection it was made for. *)
HandleConnectAliases ==
  /\ line' = Tail(line) /\ acks' = Append(acks, CONNECT)
  /\ UNCHANGED <<client, broker>>

(* context__init: a connection begins without aliases. *)
HandleConnect ==
  /\ line' = Tail(line) /\ acks' = Append(acks, CONNECT) /\ aliases' = NoNames
  /\ UNCHANGED <<client, config, stored, subscribed, mounted, received, offended>>

(* alias__add *)
NewAliases(m) ==
  IF m.alias = 0 \/ m.topic = "" THEN aliases ELSE [aliases EXCEPT ![m.alias] = m.topic]

(* handle__publish, its loop over the properties *)
StoredProps(m) == SelectSeq(m.props, LAMBDA p : p # "expiry")

(* handle__publish *)
HandlePublish(id) ==
  LET m == given[id].m
      message == [id |-> id, topic |-> config.mount_point \o TopicOf(m),
                  props |-> StoredProps(m),
                  expiry |-> Contains(m.props, "expiry")]
  IN IF Offends(m)
       THEN /\ Close /\ offended' = offended \cup {id}
            /\ UNCHANGED <<config, aliases, stored, subscribed, mounted, received>>
       ELSE /\ line' = Tail(line) /\ aliases' = NewAliases(m)
            /\ acks' = IF m.qos = 0 THEN acks ELSE Append(acks, id)
            /\ IF message.topic \in config.denied THEN UNCHANGED <<stored, received>>
               ELSE stored' = Append(stored, message) /\ Deliver(message)
            /\ UNCHANGED <<client, config, subscribed, mounted, offended>>

BrokerRead ==
  /\ line # <<>>
  /\ IF Head(line) = CONNECT THEN HandleConnect ELSE HandlePublish(Head(line))
  /\ UNCHANGED breaks

(* The subscriber takes its session up by another listener. *)
Move ==
  /\ \E m \in Mounts : mounted' = m
  /\ UNCHANGED <<client, line, acks, config, aliases, stored, subscribed, received, offended,
                 breaks>>

Break ==
  /\ conn # "none" /\ breaks < MaxBreaks /\ breaks' = breaks + 1
  /\ Close /\ UNCHANGED broker

Next == Publish \/ Reconnect \/ ClientRead \/ BrokerRead \/ Move \/ Break

(* The network delivers, and the client's loop reconnects; no connection   *)
(* need break.                                                             *)
Spec == Init /\ [][Next]_vars /\ WF_vars(Reconnect) /\ WF_vars(ClientRead) /\ WF_vars(BrokerRead)

-----------------------------------------------------------------------------
(* The remapping of a bridge. *)

Cut(prefix, topic) ==
  IF IsPrefix(prefix, topic) THEN SubSeq(topic, Len(prefix) + 1, Len(topic)) ELSE topic
Matches(filter, topic) ==
  IF filter # "" /\ SubSeq(filter, Len(filter), Len(filter)) = "#"
    THEN IsPrefix(SubSeq(filter, 1, Len(filter) - 1), topic) ELSE filter = topic
LocalTopic(e) == e.local \o e.topic
RemoteTopic(e) == e.remote \o e.topic
Remaps(e, dir) == e.dir \in {"both", dir} /\ (e.local # "" \/ e.remote # "")
FirstOf(s) == CHOOSE i \in s : \A j \in s : i <= j

OutEntries(l, topic) == {i \in DOMAIN l : Remaps(l[i], "out") /\ Matches(LocalTopic(l[i]), topic)}
InEntries(l, topic) == {i \in DOMAIN l : Remaps(l[i], "in") /\ Matches(RemoteTopic(l[i]), topic)}

(* Mutant: the local prefix is left where it is. *)
MapOutKeeps(l, topic) ==
  LET s == OutEntries(l, topic) IN IF s = {} THEN topic ELSE l[FirstOf(s)].remote \o topic

(* send__publish, of a bridge *)
MapOut(l, topic) ==
  LET s == OutEntries(l, topic)
  IN IF s = {} THEN topic ELSE l[FirstOf(s)].remote \o Cut(l[FirstOf(s)].local, topic)

(* handle__publish, of a bridge *)
MapIn(l, topic) ==
  LET s == InEntries(l, topic)
  IN IF s = {} THEN topic ELSE l[FirstOf(s)].local \o Cut(l[FirstOf(s)].remote, topic)

-----------------------------------------------------------------------------
(* Properties. *)

(* A message is stored under the topic that was meant, below the mount     *)
(* point, though an alias may have stood for it, on a connection since     *)
(* lost: unless the application gave an alias a new topic before its       *)
(* messages were acknowledged (alias__add, alias__find).                   *)
FiledUnderItsTopic ==
  ~careless => \A i \in DOMAIN stored :
                 stored[i].topic = config.mount_point \o given[stored[i].id].meant

(* A subscriber receives what was given, under its topic as it is seen     *)
(* from the mount point, with its properties in their order and its        *)
(* lifetime: unless it has moved to a listener with another mount point    *)
(* (handle__publish, send__publish).                                       *)
ReceivedAsGiven ==
  \A i \in DOMAIN received :
    LET r == received[i]
        of == given[r.id]
    IN r.at = subscribed /\ ~careless =>
         /\ subscribed \o r.topic = config.mount_point \o of.meant
         /\ ToSet(r.props) = ToSet(of.m.props)
         /\ SelectSeq(r.props, LAMBDA p : p # "expiry")
              = SelectSeq(of.m.props, LAMBDA p : p # "expiry")

(* What the broker closes the connection for is not for the client to      *)
(* know: retained messages, more aliases than it has, an alias it does not *)
(* know, a QoS given before the CONNACK; never a QoS given after it.       *)
ClosedForTheUnknown ==
  \A k \in offended :
    \/ given[k].m.retain /\ ~config.retain_available
    \/ given[k].m.alias > config.max_topic_alias
    \/ given[k].m.topic = ""
    \/ given[k].m.qos > config.maximum_qos /\ given[k].early

(* What is published with QoS 1 is acknowledged, be it denied: unless a    *)
(* message the broker closes the connection for stands before it, for ever *)
(* (message__retry_check).                                                 *)
AcknowledgedUnlessStuck ==
  \A k \in 1..MaxGiven :
    <>(k \in DOMAIN given /\ given[k].m.qos = 1) => <>(k \in answered \/ offended # {})

(* What a bridge sends under a remapped topic comes back under its own,    *)
(* unless another of its topics lays claim to it.                          *)
MappedBack ==
  \A i \in DOMAIN stored : \A l \in BridgeTopics :
    LET out == MapOut(l, stored[i].topic)
        used == OutEntries(l, stored[i].topic)
    IN used # {} =>
         /\ Matches(RemoteTopic(l[FirstOf(used)]), out)
         /\ l[FirstOf(used)].dir = "both" /\ FirstOf(InEntries(l, out)) = FirstOf(used)
              => MapIn(l, out) = stored[i].topic
=============================================================================
