--------------------------- MODULE ConnectPacket ----------------------------
(***************************************************************************)
(* How a client connects: the options it is given (options.c, will_mosq.c) *)
(* and the connect call (connect.c) become a CONNECT packet                *)
(* (send_connect.c), which the broker reads, checks and makes a context of *)
(* (handle_connect.c, property_broker.c); its CONNACK (send_connack.c)     *)
(* tells the client the limits it is to keep (lib/handle_connack.c).       *)
(*                                                                         *)
(* The packet is the sequence of fields written; the broker takes them by  *)
(* their position, for what its flags and version say comes next, as far   *)
(* as the declared length goes.  There is no TLS, no plugin and no bridge. *)
(***************************************************************************)
EXTENDS Integers, Sequences, SequencesExt

CONSTANTS
  Protocols,    \* of "v31", "v311", "v5"
  Clients,      \* [id, clean] given to mosquitto_new
  Users,        \* [username, password] given to mosquitto_username_pw_set
  Wills,        \* wills given, with a payload that is not modelled
  Receives,     \* receive maximums given
  Lists,        \* [own, list]: the properties given to connect, and whether
                \* the add functions made them
  Keepalive,
  Configs,      \* configurations of the broker
  Passwords,    \* [username, password] of the password file
  Never         \* UINT32_MAX

VARIABLES
  mosq,      \* struct mosquitto of the client
  config,
  packet,    \* [declared, fields] of CONNECT
  context,   \* struct mosquitto of the broker
  connack,
  phase,     \* "set", "sent", "answered", "connected", "closed"
  answer,    \* how handle__connect returned
  call,      \* the properties of the last connect call
  first      \* the context of the first connection

vars == <<mosq, config, packet, context, connack, phase, answer, call, first>>

None == "none"
NoWill == [topic |-> None, qos |-> 0, retain |-> FALSE, props |-> <<>>]
NoPacket == [declared |-> 0, fields |-> <<>>]
NoContext == [id |-> None]
NoConnack == [code |-> None]
NoCall == [own |-> TRUE, list |-> <<>>]
Default == 20     \* receive maximum of both sides
IsV5(m) == m.protocol = "v5"

(* mosquitto_new *)
Init ==
  /\ \E c \in Clients :
       /\ c.clean \/ c.id # None
       /\ mosq = [protocol |-> "v311", id |-> c.id, clean |-> c.clean, username |-> None,
                  password |-> None, will |-> NoWill, recv_max |-> Default, keepalive |-> 60,
                  maximum_qos |-> 2]
  /\ config \in Configs
  /\ packet = NoPacket /\ context = NoContext /\ connack = NoConnack /\ phase = "set"
  /\ answer = None /\ call = NoCall /\ first = NoContext

-----------------------------------------------------------------------------
(* Options, set before the first connection.                               *)

Set(m) ==
  /\ phase = "set" /\ mosq' = m
  /\ UNCHANGED <<config, packet, context, connack, phase, answer, call, first>>

SetVersion == \E p \in Protocols : Set([mosq EXCEPT !.protocol = p])

SetReceiveMaximum ==
  \E n \in Receives : Set([mosq EXCEPT !.recv_max = IF n = 0 THEN 65535 ELSE n])

(* mosquitto_username_pw_set *)
SetUsername ==
  \E u \in Users :
    /\ IsV5(mosq) \/ u.password = None \/ u.username # None
    /\ Set([mosq EXCEPT !.username = u.username, !.password = u.password])

(* will__set: a topic for subscriptions is refused, an empty one is not.   *)
SetWill ==
  \E w \in Wills :
    /\ \A k \in 1..Len(w.topic) : SubSeq(w.topic, k, k) \notin {"+", "#"}
    /\ w.props = <<>> \/ IsV5(mosq)
    /\ Set([mosq EXCEPT !.will = w])

ClearWill == Set([mosq EXCEPT !.will = NoWill])

-----------------------------------------------------------------------------
(* CONNECT. *)

Str(v) == [kind |-> "string", v |-> v]
Bytes(v) == [kind |-> "byte", v |-> v]
Uint16(v) == [kind |-> "uint16", v |-> v]
Props(l) == [kind |-> "props", v |-> l]
Given(v, fields) == IF v = None THEN <<>> ELSE fields

PropertyLength(p) ==
  CASE p.name \in {"session_expiry", "will_delay", "message_expiry"} -> 5
    [] p.name = "receive_maximum" -> 3
    [] OTHER -> 3 + Len(p.v)
LengthAll(l) == FoldLeft(LAMBDA n, p : n + PropertyLength(p), 0, l)
Varint(n) == IF n < 128 THEN 1 ELSE 2
Size(f) ==
  CASE f.kind = "byte"   -> 1
    [] f.kind = "uint16" -> 2
    [] f.kind = "string" -> 2 + Len(f.v)
    [] f.kind = "props"  -> Varint(LengthAll(f.v)) + LengthAll(f.v)
SizeUpTo(fields, k) == FoldLeft(LAMBDA n, f : n + Size(f), 0, SubSeq(fields, 1, k))

Named(l, name) == SelectSeq(l, LAMBDA p : p.name = name)

(* Mutant: the length of the fixed part of the older protocol name. *)
DeclaredLengthTen(m, list) ==
  LET headerlen == IF IsV5(m) THEN 10 + LengthAll(list) + Varint(LengthAll(list)) ELSE 10
      willlen ==
        IF m.will.topic = None THEN 0
        ELSE 2 + Len(m.will.topic) + 2 + Len("payload") +
             IF IsV5(m) THEN LengthAll(m.will.props) + Varint(LengthAll(m.will.props)) ELSE 0
  IN headerlen + 2 + (IF m.id = None THEN 0 ELSE Len(m.id)) + willlen
       + (IF m.username = None THEN 0 ELSE 2 + Len(m.username))
       + (IF m.password = None THEN 0 ELSE 2 + Len(m.password))

(* What is declared before anything is written. *)
DeclaredLength(m, list) ==
  LET headerlen ==
        CASE m.protocol = "v5"   -> 10 + LengthAll(list) + Varint(LengthAll(list))
          [] m.protocol = "v311" -> 10
          [] m.protocol = "v31"  -> 12
      willlen ==
        IF m.will.topic = None THEN 0
        ELSE 2 + Len(m.will.topic) + 2 + Len("payload") +
             IF IsV5(m) THEN LengthAll(m.will.props) + Varint(LengthAll(m.will.props)) ELSE 0
  IN headerlen + 2 + (IF m.id = None THEN 0 ELSE Len(m.id)) + willlen
       + (IF m.username = None THEN 0 ELSE 2 + Len(m.username))
       + (IF m.password = None THEN 0 ELSE 2 + Len(m.password))

Flags(m) == [username |-> m.username # None, password |-> m.password # None,
             will |-> m.will.topic # None, qos |-> m.will.qos, retain |-> m.will.retain,
             clean |-> m.clean]

(* Mutant: the properties of the will are written for any version. *)
FieldsWillProps(m, list) ==
  <<Str(IF m.protocol = "v31" THEN "MQIsdp" ELSE "MQTT"), Bytes(m.protocol), Bytes(Flags(m)),
    Uint16(m.keepalive)>>
  \o (IF IsV5(m) THEN <<Props(list)>> ELSE <<>>)
  \o <<Str(IF m.id = None THEN "" ELSE m.id)>>
  \o Given(m.will.topic, <<Props(m.will.props), Str(m.will.topic), Str("payload")>>)
  \o Given(m.username, <<Str(m.username)>>) \o Given(m.password, <<Str(m.password)>>)

(* What is written. *)
Fields(m, list) ==
  <<Str(IF m.protocol = "v31" THEN "MQIsdp" ELSE "MQTT"), Bytes(m.protocol), Bytes(Flags(m)),
    Uint16(m.keepalive)>>
  \o (IF IsV5(m) THEN <<Props(list)>> ELSE <<>>)
  \o <<Str(IF m.id = None THEN "" ELSE m.id)>>
  \o Given(m.will.topic, (IF IsV5(m) THEN <<Props(m.will.props)>> ELSE <<>>)
                         \o <<Str(m.will.topic), Str("payload")>>)
  \o Given(m.username, <<Str(m.username)>>) \o Given(m.password, <<Str(m.password)>>)

(* send__connect: the client's own receive maximum goes behind the list,   *)
(* unless the list has one, which is kept.                                 *)
SendConnect(m, list) ==
  LET given == Named(list, "receive_maximum")
      kept == IF IsV5(m) /\ given # <<>> THEN [m EXCEPT !.recv_max = given[1].v] ELSE m
      all == IF IsV5(m) /\ given = <<>>
               THEN Append(list, [name |-> "receive_maximum", v |-> m.recv_max]) ELSE list
  IN /\ mosq' = kept
     /\ packet' = [declared |-> DeclaredLength(kept, all), fields |-> Fields(kept, all)]
     /\ phase' = "sent"

(* mosquitto__connect_init: a client without an identifier is given one,   *)
(* which it keeps.                                                         *)
Inited ==
  [mosq EXCEPT !.keepalive = Keepalive,
     !.id = IF mosq.id = None /\ ~IsV5(mosq) THEN "mosq-1" ELSE @]

PasswordAlone(m) == ~IsV5(m) /\ m.password # None /\ m.username = None

(* mosquitto_connect_bind_v5: of a list the add functions did not make     *)
(* only the first property is sent.                                        *)
Connect ==
  /\ phase = "set"
  /\ \E l \in Lists :
       /\ call' = l
       /\ IF (l.list # <<>> /\ ~IsV5(mosq)) \/ PasswordAlone(mosq)
            THEN mosq' = Inited /\ UNCHANGED <<packet, phase>>
            ELSE SendConnect(Inited, IF l.own THEN l.list ELSE SubSeq(l.list, 1, 1))
  /\ UNCHANGED <<config, context, connack, answer, first>>

(* mosquitto_reconnect, once: no properties. *)
Reconnect ==
  /\ phase \in {"connected", "closed"} /\ first = NoContext
  /\ first' = context /\ call' = NoCall
  /\ SendConnect(mosq, <<>>)
  /\ context' = NoContext /\ connack' = NoConnack /\ answer' = None
  /\ UNCHANGED config

-----------------------------------------------------------------------------
(* The broker: what it reads, and what it makes of it.                     *)

Has(k, kind) ==
  /\ k <= Len(packet.fields) /\ packet.fields[k].kind = kind
  /\ SizeUpTo(packet.fields, k) <= packet.declared
At(k) == packet.fields[k].v

Version == At(2)
ReadsV5 == Version = "v5"
ReadFlags == At(3)
IdAt == IF ReadsV5 THEN 6 ELSE 5
WillAt == IdAt + 1
TopicAt == IF ReadsV5 THEN WillAt + 1 ELSE WillAt
NameAt == IF ReadFlags.will THEN TopicAt + 2 ELSE WillAt
PasswordAt == IF ReadFlags.username THEN NameAt + 1 ELSE NameAt
EndAt == IF ReadFlags.password THEN PasswordAt ELSE PasswordAt - 1

ReadList == IF ReadsV5 THEN At(5) ELSE <<>>
Username == IF ReadFlags.username THEN At(NameAt) ELSE None
Password == IF ReadFlags.password THEN At(PasswordAt) ELSE None

Pass == [rc |-> "success", code |-> None]
Error == [rc |-> "protocol", code |-> None]
Refuse(rc, code) == [rc |-> rc, code |-> code]

Header ==
  IF \E k \in 1..4 : ~Has(k, <<"string", "byte", "byte", "uint16">>[k]) THEN Error
  ELSE IF At(1) # (IF Version = "v31" THEN "MQIsdp" ELSE "MQTT") THEN Refuse("protocol", "version")
  ELSE IF ReadFlags.will /\ ReadFlags.retain /\ ~config.retain_available
    THEN Refuse("refused", IF ReadsV5 THEN "retain_not_supported" ELSE None)
  ELSE IF (ReadsV5 /\ ~Has(5, "props")) \/ ~Has(IdAt, "string") THEN Error
  ELSE Pass

(* An empty identifier is replaced where that is allowed, never by the     *)
(* same one (client_id_gen).                                               *)
Assigns == At(IdAt) = ""
Generated == IF first = NoContext THEN "auto-1" ELSE "auto-2"
ReadId == IF Assigns THEN Generated ELSE At(IdAt)

Identifier ==
  IF Assigns /\ (\/ Version = "v31" \/ (Version = "v311" /\ ~ReadFlags.clean)
                 \/ ~config.allow_zero_length_clientid)
    THEN Refuse("protocol", IF ReadsV5 THEN "unspecified" ELSE "identifier_rejected")
  ELSE IF ~IsPrefix(config.clientid_prefixes, ReadId) THEN Refuse("refused", "not_authorized")
  ELSE Pass

(* will__read *)
WillFields ==
  IF ReadFlags.will
    THEN IF \/ (ReadsV5 /\ ~Has(WillAt, "props"))
            \/ ~Has(TopicAt, "string") \/ ~Has(TopicAt + 1, "string") THEN Error
         ELSE IF At(TopicAt) = "" THEN Error
         ELSE Pass
    ELSE IF Version # "v31" /\ (ReadFlags.qos # 0 \/ ReadFlags.retain) THEN Error
    ELSE Pass

(* User name and password, and nothing behind them.                        *)
NameFields ==
  IF \/ (ReadFlags.username /\ ~Has(NameAt, "string"))
     \/ (~ReadFlags.username /\ ReadFlags.password /\ ~ReadsV5)
     \/ (ReadFlags.password /\ ~Has(PasswordAt, "string"))
     \/ SizeUpTo(packet.fields, EndAt) # packet.declared
    THEN Error ELSE Pass

Allowed ==
  IF ReadFlags.username \/ ReadFlags.password
    THEN config.password_file => [username |-> Username, password |-> Password] \in Passwords
    ELSE config.allow_anonymous
Authorised ==
  IF ~Allowed \/ (config.use_username_as_clientid /\ Username = None)
    THEN Refuse("refused", "not_authorized")
  ELSE IF Named(ReadList, "auth_method") # <<>>
    THEN Refuse("protocol", "bad_authentication_method")
  ELSE Pass

Verdict ==
  IF Header # Pass THEN Header
  ELSE IF Identifier # Pass THEN Identifier
  ELSE IF WillFields # Pass THEN WillFields
  ELSE IF NameFields # Pass THEN NameFields
  ELSE Authorised

Value(l, name, otherwise) ==
  LET found == Named(l, name) IN IF found = <<>> THEN otherwise ELSE found[Len(found)].v

(* property__process_will, and the rest of will__read *)
ReadWill ==
  LET list == IF ReadsV5 THEN At(WillAt) ELSE <<>>
  IN IF ~ReadFlags.will THEN [topic |-> None]
     ELSE [topic |-> config.mount_point \o At(TopicAt), qos |-> ReadFlags.qos,
           retain |-> ReadFlags.retain,
           props |-> SelectSeq(list, LAMBDA p : p.name \notin {"will_delay", "message_expiry"}),
           delay |-> Value(list, "will_delay", 0),
           expiry |-> Value(list, "message_expiry", 0)]

(* Mutant: without the interval of the property. *)
NewContextExpiry ==
  [protocol |-> Version, id |-> IF config.use_username_as_clientid THEN Username ELSE ReadId,
   clean |-> ReadFlags.clean,
   keepalive |-> IF ReadsV5 /\ At(4) > config.max_keepalive THEN config.max_keepalive ELSE At(4),
   expiry |-> IF ReadFlags.clean THEN 0 ELSE Never,
   recv_max |-> Value(ReadList, "receive_maximum", Default),
   maximum_qos |-> config.maximum_qos, username |-> Username, password |-> Password,
   will |-> ReadWill]

(* handle__connect, property__process_connect, connect__on_authorised *)
NewContext ==
  [protocol |-> Version, id |-> IF config.use_username_as_clientid THEN Username ELSE ReadId,
   clean |-> ReadFlags.clean,
   keepalive |-> IF ReadsV5 /\ At(4) > config.max_keepalive THEN config.max_keepalive ELSE At(4),
   expiry |-> Value(ReadList, "session_expiry",
                    IF ~ReadFlags.clean /\ ~ReadsV5 THEN Never ELSE 0),
   recv_max |-> Value(ReadList, "receive_maximum", Default),
   maximum_qos |-> config.maximum_qos, username |-> Username, password |-> Password,
   will |-> ReadWill]

(* connect__on_authorised: what an older client is not told *)
(* is -1 or None.                                                          *)
Accepted ==
  [code |-> "accepted",
   maximum_qos |-> IF ReadsV5 /\ config.maximum_qos # 2 THEN config.maximum_qos ELSE -1,
   keepalive |-> IF ReadsV5 /\ At(4) > config.max_keepalive THEN config.max_keepalive ELSE -1,
   id |-> IF ReadsV5 /\ Assigns THEN NewContext.id ELSE None]

(* send__connack *)
SendConnack == IF Verdict = Pass THEN Accepted ELSE [code |-> Verdict.code]

HandleConnect ==
  /\ phase = "sent" /\ phase' = "answered"
  /\ answer' = Verdict.rc
  /\ context' = IF Verdict = Pass THEN NewContext ELSE NoContext
  /\ connack' = SendConnack
  /\ UNCHANGED <<mosq, config, packet, call, first>>

-----------------------------------------------------------------------------
(* The answer. *)

(* Mutant: the client keeps its keepalive. *)
HandleConnackKeepalive ==
  /\ phase = "answered" /\ connack.code # None
  /\ IF connack.code # "accepted" \/ (connack.id # None /\ mosq.id # None)
       THEN phase' = "closed" /\ UNCHANGED mosq
       ELSE /\ phase' = "connected"
            /\ mosq' = [mosq EXCEPT
                 !.id = IF connack.id # None THEN connack.id ELSE @,
                 !.maximum_qos = IF connack.maximum_qos # -1 THEN connack.maximum_qos ELSE @]
  /\ UNCHANGED <<config, packet, context, connack, answer, call, first>>

(* Mutant: the identifier the broker assigned is not kept. *)
HandleConnackNoId ==
  /\ phase = "answered" /\ connack.code # None
  /\ IF connack.code # "accepted" \/ (connack.id # None /\ mosq.id # None)
       THEN phase' = "closed" /\ UNCHANGED mosq
       ELSE /\ phase' = "connected"
            /\ mosq' = [mosq EXCEPT
                 !.maximum_qos = IF connack.maximum_qos # -1 THEN connack.maximum_qos ELSE @,
                 !.keepalive = IF connack.keepalive # -1 THEN connack.keepalive ELSE @]
  /\ UNCHANGED <<config, packet, context, connack, answer, call, first>>

(* handle__connack: an identifier is taken by a client that has none only. *)
HandleConnack ==
  /\ phase = "answered" /\ connack.code # None
  /\ IF connack.code # "accepted" \/ (connack.id # None /\ mosq.id # None)
       THEN phase' = "closed" /\ UNCHANGED mosq
       ELSE /\ phase' = "connected"
            /\ mosq' = [mosq EXCEPT
                 !.id = IF connack.id # None THEN connack.id ELSE @,
                 !.maximum_qos = IF connack.maximum_qos # -1 THEN connack.maximum_qos ELSE @,
                 !.keepalive = IF connack.keepalive # -1 THEN connack.keepalive ELSE @]
  /\ UNCHANGED <<config, packet, context, connack, answer, call, first>>

(* The broker closes a connection it gives no answer.                      *)
Closed ==
  /\ phase = "answered" /\ connack.code = None /\ phase' = "closed"
  /\ UNCHANGED <<mosq, config, packet, context, connack, answer, call, first>>

Next ==
  \/ SetVersion \/ SetReceiveMaximum \/ SetUsername \/ SetWill \/ ClearWill
  \/ Connect \/ Reconnect \/ HandleConnect \/ HandleConnack \/ Closed

Spec == Init /\ [][Next]_vars

-----------------------------------------------------------------------------
(* Properties. *)

Capped(n, max) == IF n > max THEN max ELSE n

(* The broker's will is the one that was set: where it goes, how, and with *)
(* what, its delay and its lifetime taken out (will__set, will__read).     *)
WillAsSet ==
  IF mosq.will.topic = None THEN context.will.topic = None
  ELSE /\ context.will.topic = config.mount_point \o mosq.will.topic
       /\ context.will.qos = mosq.will.qos /\ context.will.retain = mosq.will.retain
       /\ LET sent == IF IsV5(mosq) THEN mosq.will.props ELSE <<>>
              taken == {"will_delay", "message_expiry"}
          IN /\ \A k \in DOMAIN sent :
                  /\ sent[k].name = "will_delay" => context.will.delay = sent[k].v
                  /\ sent[k].name = "message_expiry" => context.will.expiry = sent[k].v
                  /\ sent[k].name \notin taken => Contains(context.will.props, sent[k])
             /\ \A p \in ToSet(context.will.props) : Contains(sent, p)
             /\ {p.name : p \in ToSet(sent)} \cap taken = {}
                  => context.will.delay = 0 /\ context.will.expiry = 0

(* The broker's context is what the client was set to: CONNECT carries     *)
(* each option by its position behind flags, in three versions             *)
(* (send__connect, handle__connect).                                       *)
ContextAsSet ==
  context # NoContext =>
    /\ context.protocol = mosq.protocol /\ context.clean = mosq.clean
    /\ context.username = mosq.username /\ context.password = mosq.password
    /\ WillAsSet
    /\ IsV5(mosq) => context.recv_max = mosq.recv_max
    /\ ~IsV5(mosq) => context.expiry = IF mosq.clean THEN 0 ELSE Never
    /\ IsV5(mosq) /\ call.own
         => context.expiry = Value(call.list, "session_expiry", 0)
    /\ ~config.use_username_as_clientid /\ mosq.id # None => context.id = mosq.id

(* When both are connected, they agree on the client's identifier and on   *)
(* the limits the broker told it of (handle__connack).                     *)
LimitsAgree ==
  phase = "connected" =>
    /\ context.keepalive = mosq.keepalive
    /\ IsV5(mosq) => /\ context.maximum_qos = mosq.maximum_qos
                     /\ context.recv_max = mosq.recv_max
    /\ mosq.id # None
    /\ ~config.use_username_as_clientid => context.id = mosq.id

(* The library's own packet is no protocol error to the broker, whatever   *)
(* was set in whatever order: but for a will without a topic and for what  *)
(* the configuration does not have.                                        *)
NeverProtocolError ==
  answer = "protocol" =>
    \/ mosq.will.topic = ""
    \/ IsV5(mosq) /\ mosq.id = None /\ ~config.allow_zero_length_clientid
    \/ Named(call.list, "auth_method") # <<>>

(* send__connect declares the length of what it writes: the buffer is      *)
(* that long, and the broker reads no further.                             *)
DeclaredIsWritten ==
  phase = "sent" => packet.declared = SizeUpTo(packet.fields, Len(packet.fields))

(* A client that connects once more is to the broker who it was before, by *)
(* an assigned or generated identifier, too; only the interval of its      *)
(* session, a property that is not sent again, may be lost.                *)
SameAgain ==
  first # NoContext /\ context # NoContext => [context EXCEPT !.expiry = first.expiry] = first
=============================================================================
