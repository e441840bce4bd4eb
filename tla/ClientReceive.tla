--------------------------- MODULE ClientReceive ----------------------------
(***************************************************************************)
(* Messages of QoS 1 and 2 on their way from the broker to one subscriber: *)
(* the broker's outgoing messages (subs__send, database.c), their packets, *)
(* and libmosquitto's incoming ones (lib/handle_publish.c, handle_pubrel.c)*)
(* over connections that break.  The session is kept (clean_start = 0).    *)
(*                                                                         *)
(* Message k is the k-th that was routed to the subscriber.  One of QoS 0  *)
(* is written in the next round of the loop and forgotten: left out.       *)
(***************************************************************************)
EXTENDS Naturals, Sequences, FiniteSets

CONSTANTS
  MaxGiven,     \* bound: messages routed to the subscriber
  MaxMid,       \* message identifiers are 1..MaxMid (65535 in the code)
  MaxInflight,  \* max_inflight_messages of the broker, and the receive
                \* maximum of the client
  MaxQueued,    \* max_queued_messages
  Protocols,    \* what protocol may be: "v311", "v5"
  Threads,      \* what threaded may be: a thread of its own runs the loop
  Expiring,     \* whether a message may have an expiry interval
  MaxBreaks     \* bound: connections that break

VARIABLES
  given,        \* [qos, expires] of every message
  dropped,      \* messages the broker had no room for, or that expired
  inflight,     \* broker: msgs_out.inflight, [id, mid, qos, state, dup]
  queued,       \* broker: msgs_out.queued
  out_quota,    \* broker: msgs_out.inflight_quota
  last_mid,     \* broker: the identifier given out last
  online,       \* broker: context->sock is valid and the state active
  late,         \* the expiry intervals have passed
  protocol, threaded,
  sock,         \* client: "none", "connected" (CONNECT sent) or "active"
  held,         \* client: msgs_in.inflight, [id, mid]
  in_quota,     \* client: msgs_in.inflight_quota
  outp,         \* client: out_packet, what the thread has yet to write
  looping,      \* mosquitto_loop_forever runs, or has yet to be called
  got,          \* how often on_message was called for each message
  up, down,     \* packets on their way to the broker, and to the client
  breaks

session == <<inflight, queued, out_quota, last_mid>>
config == <<protocol, threaded>>
client == <<sock, held, in_quota, outp, looping, got>>
vars == <<given, dropped, session, online, late, config, client, up, down, breaks>>

Ids == 1..Len(given)
Pkt(kind, mid, id, qos, dup) ==
  [kind |-> kind, mid |-> mid, id |-> id, qos |-> qos, dup |-> dup]
Ack(kind, mid) == Pkt(kind, mid, 0, 0, FALSE)

Lower(a, b) == IF a < b THEN a ELSE b
Up(quota) == IF quota < MaxInflight THEN quota + 1 ELSE quota
Down(quota) == IF quota > 0 THEN quota - 1 ELSE 0

Map(Op(_), s) == [i \in 1..Len(s) |-> Op(s[i])]

(* The indices I of a sequence in ascending order, and what stands there.  *)
Places(I) ==
  CHOOSE e \in [1..Cardinality(I) -> I] : \A i, j \in 1..Cardinality(I) : i < j => e[i] < e[j]
Pick(s, I) == LET e == Places(I) IN [n \in 1..Cardinality(I) |-> s[e[n]]]
Without(s, mid) == Pick(s, {i \in 1..Len(s) : s[i].mid # mid})
At(s, mid) == {i \in 1..Len(s) : s[i].mid = mid}
InSession == {inflight[i].id : i \in 1..Len(inflight)} \cup {queued[i].id : i \in 1..Len(queued)}

Init ==
  /\ given = <<>> /\ dropped = {} /\ got = <<>> /\ late = FALSE
  /\ inflight = <<>> /\ queued = <<>> /\ out_quota = MaxInflight /\ last_mid = 0
  /\ online = FALSE /\ protocol \in Protocols /\ threaded \in Threads
  /\ sock = "none" /\ held = <<>> /\ in_quota = MaxInflight /\ outp = <<>>
  /\ looping = TRUE /\ up = <<>> /\ down = <<>> /\ breaks = 0

-----------------------------------------------------------------------------
(* The broker. *)

ToPublish(m) == [m EXCEPT !.state = IF m.qos = 1 THEN "publish_qos1" ELSE "publish_qos2"]

(* db__message_insert: in flight, queued, or dropped.  An online client's  *)
(* messages in flight do not count against the queue.                      *)
Insert(m) ==
  LET inUse == Len(inflight) + Len(queued)
      room  == inUse < MaxQueued + (IF online THEN MaxInflight ELSE 0)
  IN IF online /\ out_quota > 0
       THEN inflight' = Append(inflight, ToPublish(m)) /\ UNCHANGED <<queued, dropped>>
       ELSE /\ queued' = IF room THEN Append(queued, m) ELSE queued
            /\ dropped' = IF room THEN dropped ELSE dropped \cup {m.id}
            /\ UNCHANGED inflight

NextMid == IF last_mid = MaxMid THEN 1 ELSE last_mid + 1

(* subs__send.  Identifiers are not used again while they are in use: the  *)
(* subscriber is less than MaxMid messages behind.                         *)
Send(qos, expires) ==
  /\ Len(given) < MaxGiven
  /\ At(inflight, NextMid) \cup At(queued, NextMid) = {}
  /\ LET m == [id |-> Len(given) + 1, mid |-> NextMid, qos |-> qos,
               state |-> "queued", dup |-> FALSE]
     IN /\ Insert(m)
        /\ out_quota' = IF m.id \in dropped' THEN out_quota ELSE Down(out_quota)
  /\ given' = Append(given, [qos |-> qos, expires |-> expires])
  /\ got' = Append(got, 0)
  /\ last_mid' = NextMid
  /\ UNCHANGED <<online, late, config, sock, held, in_quota, outp, looping, up, down,
                 breaks>>

(* Packets reach the client as long as the connection they are written to  *)
(* is the one it has.                                                      *)
Current == sock # "none" /\ \A i \in 1..Len(up) : up[i].kind # "CONNECT"
Write(pkts) == down' = IF Current THEN down \o pkts ELSE down

Gone(m) == late /\ given[m.id].expires

(* Mutant: the repeated message is not marked. *)
SentNoDup(m) ==
  CASE m.state = "publish_qos1" -> [m EXCEPT !.state = "wait_for_puback"]
    [] m.state = "publish_qos2" -> [m EXCEPT !.state = "wait_for_pubrec"]
    [] m.state = "resend_pubrel" -> [m EXCEPT !.state = "wait_for_pubcomp"]
    [] OTHER -> m

Sent(m) ==
  CASE m.state = "publish_qos1" -> [m EXCEPT !.state = "wait_for_puback", !.dup = TRUE]
    [] m.state = "publish_qos2" -> [m EXCEPT !.state = "wait_for_pubrec", !.dup = TRUE]
    [] m.state = "resend_pubrel" -> [m EXCEPT !.state = "wait_for_pubcomp"]
    [] OTHER -> m

Packet(m) ==
  IF m.state = "resend_pubrel" THEN Ack("PUBREL", m.mid)
                               ELSE Pkt("PUBLISH", m.mid, m.id, m.qos, m.dup)

Unsent == {"publish_qos1", "publish_qos2", "resend_pubrel"}

(* db__message_write, in every round of the loop: what expired is removed, *)
(* the rest sent, and queued messages take the places the quota leaves.    *)
MessageWrite ==
  /\ online
  /\ LET kept == Pick(inflight, {i \in 1..Len(inflight) : ~Gone(inflight[i])})
         n    == Lower(out_quota, Len(queued))
         due  == {i \in 1..Len(kept) : kept[i].state \in Unsent}
     IN /\ n > 0 \/ due # {} \/ kept # inflight
        /\ Write(Map(Packet, Pick(kept, due)))
        /\ inflight' = Map(Sent, kept) \o Map(ToPublish, SubSeq(queued, 1, n))
        /\ queued' = SubSeq(queued, n + 1, Len(queued))
        /\ out_quota' = out_quota - n
        /\ dropped' = dropped \cup {inflight[i].id : i \in
                                      {j \in 1..Len(inflight) : Gone(inflight[j])}}
  /\ UNCHANGED <<given, last_mid, online, late, config, client, up, breaks>>

(* Mutant: a message that was released is published again. *)
ResumedFromStart(m) == ToPublish(m)


Resumed(m) ==
  IF m.qos = 2 /\ m.state = "wait_for_pubcomp" THEN [m EXCEPT !.state = "resend_pubrel"]
                                               ELSE ToPublish(m)

(* Mutant: the messages from the queue are sent before those in flight. *)
HandleConnectQueueFirst ==
  LET n == Lower(MaxInflight, Len(queued))
  IN /\ inflight' = Map(ToPublish, SubSeq(queued, 1, n)) \o Map(Resumed, inflight)
     /\ queued' = SubSeq(queued, n + 1, Len(queued))
     /\ out_quota' = MaxInflight - n /\ online' = TRUE
     /\ down' = IF sock = "none" THEN down ELSE Append(down, Ack("CONNACK", 0))

(* connect__on_authorised on a session that is kept.                       *)
(* db__message_reconnect_reset_outgoing counts the messages in flight off  *)
(* the wrong quota, so that as many again are moved from the queue.        *)
HandleConnect ==
  LET n == Lower(MaxInflight, Len(queued))
  IN /\ inflight' = Map(Resumed, inflight) \o Map(ToPublish, SubSeq(queued, 1, n))
     /\ queued' = SubSeq(queued, n + 1, Len(queued))
     /\ out_quota' = MaxInflight - n
     /\ online' = TRUE
     /\ down' = IF sock = "none" THEN down ELSE Append(down, Ack("CONNACK", 0))


(* db__message_delete_outgoing; an answer in a state it does not fit ends  *)
(* the connection.  The quota was raised by then.                          *)
DeleteOutgoing(p, qos) ==
  LET hit  == At(inflight, p.mid)
      bad  == \E i \in hit : \/ inflight[i].qos # qos
                             \/ (qos = 2 /\ inflight[i].state # "wait_for_pubcomp")
      left == Without(inflight, p.mid)
      n    == Lower(Len(queued), MaxInflight - Lower(MaxInflight, Len(left)))
  IN IF bad
       THEN /\ online' = FALSE /\ out_quota' = Up(out_quota)
            /\ UNCHANGED <<inflight, queued, down>>
       ELSE /\ inflight' = left \o Map(ToPublish, SubSeq(queued, 1, n))
            /\ queued' = SubSeq(queued, n + 1, Len(queued))
            /\ out_quota' = Up(out_quota) - Lower(n, Up(out_quota))
            /\ UNCHANGED <<online, down>>

(* handle__pubrec: PUBREL answers an unknown identifier, too. *)
HandlePubrec(p) ==
  LET hit == At(inflight, p.mid)
  IN IF \E i \in hit : inflight[i].qos # 2
       THEN online' = FALSE /\ UNCHANGED <<inflight, queued, out_quota, down>>
       ELSE /\ inflight' = [i \in 1..Len(inflight) |->
                 IF i \in hit THEN [inflight[i] EXCEPT !.state = "wait_for_pubcomp"]
                              ELSE inflight[i]]
            /\ Write(<<Ack("PUBREL", p.mid)>>)
            /\ UNCHANGED <<queued, out_quota, online>>

(* What comes on a connection the broker has closed is not read. *)
BrokerRead ==
  /\ up # <<>> /\ up' = Tail(up)
  /\ LET p == Head(up)
     IN \/ p.kind = "CONNECT" /\ HandleConnect
        \/ online /\ p.kind = "PUBACK" /\ DeleteOutgoing(p, 1)
        \/ online /\ p.kind = "PUBREC" /\ HandlePubrec(p)
        \/ online /\ p.kind = "PUBCOMP" /\ DeleteOutgoing(p, 2)
        \/ ~online /\ p.kind # "CONNECT" /\ UNCHANGED <<inflight, queued, out_quota, online, down>>
  /\ UNCHANGED <<given, dropped, last_mid, late, config, client, breaks>>

(* do_disconnect: the broker finds that the connection is gone. *)
Offline ==
  /\ online /\ sock = "none" /\ up = <<>>
  /\ online' = FALSE
  /\ UNCHANGED <<given, dropped, session, late, config, client, up, down, breaks>>

-----------------------------------------------------------------------------
(* The client. *)

(* packet__queue writes at once, unless a thread runs the loop. *)
Reply(p) ==
  IF threaded THEN outp' = Append(outp, p) /\ UNCHANGED up
              ELSE up' = Append(up, p) /\ UNCHANGED outp

(* Mutant: what awaits PUBREL is forgotten with the connection. *)
ConnectForgets ==
  /\ sock = "none"
  /\ sock' = "connected" /\ up' = Append(up, Ack("CONNECT", 0))
  /\ in_quota' = MaxInflight /\ held' = <<>> /\ outp' = <<>> /\ looping' = TRUE
  /\ UNCHANGED <<given, dropped, session, online, late, config, got, down, breaks>>

(* mosquitto_reconnect: message__reconnect_reset keeps what awaits PUBREL. *)
(* mosquitto_loop_forever calls it; once that has returned, the            *)
(* application may, and start the loop again.                              *)
Connect ==
  /\ sock = "none"
  /\ sock' = "connected" /\ up' = Append(up, Ack("CONNECT", 0))
  /\ in_quota' = MaxInflight - Lower(MaxInflight, Len(held))
  /\ outp' = <<>> /\ looping' = TRUE
  /\ UNCHANGED <<given, dropped, session, online, late, config, held, got, down, breaks>>

(* mosquitto__loop_rc_handle, after a packet that was refused.             *)
Close == sock' = "none" /\ down' = <<>>

Callback(ids) == got' = [k \in Ids |-> got[k] + Cardinality({k} \cap ids)]

(* handle__publish: a message of QoS 2 is put on the list even if one with *)
(* its identifier is there.                                                *)
HandlePublish(p) ==
  IF protocol = "v5" /\ in_quota = 0
    THEN Close /\ UNCHANGED <<held, in_quota, outp, looping, got, up>>
    ELSE /\ IF p.qos = 1
              THEN /\ Reply(Ack("PUBACK", p.mid)) /\ Callback({p.id})
                   /\ in_quota' = Up(Down(in_quota)) /\ UNCHANGED held
              ELSE /\ Reply(Ack("PUBREC", p.mid)) /\ UNCHANGED got
                   /\ in_quota' = Down(in_quota)
                   /\ held' = Append(held, [id |-> p.id, mid |-> p.mid])
         /\ down' = Tail(down) /\ UNCHANGED <<sock, looping>>

(* handle__pubrel: PUBCOMP first; a message that is not on the list ends   *)
(* the connection, and mosquitto_loop_forever returns MOSQ_ERR_NOT_FOUND.  *)
HandlePubrel(p) ==
  /\ Reply(Ack("PUBCOMP", p.mid)) /\ in_quota' = Up(in_quota)
  /\ IF At(held, p.mid) = {}
       THEN Close /\ looping' = FALSE /\ UNCHANGED <<held, got>>
       ELSE LET i == CHOOSE j \in At(held, p.mid) : \A l \in At(held, p.mid) : j <= l
            IN /\ held' = SubSeq(held, 1, i - 1) \o SubSeq(held, i + 1, Len(held))
               /\ Callback({held[i].id})
               /\ down' = Tail(down) /\ UNCHANGED <<sock, looping>>

ClientRead ==
  /\ sock # "none" /\ down # <<>>
  /\ LET p == Head(down)
     IN \/ /\ p.kind = "CONNACK" /\ sock' = "active" /\ down' = Tail(down)
           /\ UNCHANGED <<held, in_quota, outp, looping, got, up>>
        \/ p.kind = "PUBLISH" /\ HandlePublish(p)
        \/ p.kind = "PUBREL" /\ HandlePubrel(p)
  /\ UNCHANGED <<given, dropped, session, online, late, config, breaks>>

(* packet__write, by the thread. *)
ClientWrite ==
  /\ sock # "none" /\ outp # <<>>
  /\ up' = up \o outp /\ outp' = <<>>
  /\ UNCHANGED <<given, dropped, session, online, late, config, sock, held, in_quota, looping,
                 got, down, breaks>>

-----------------------------------------------------------------------------
(* The connection breaks; some of what was sent may still arrive. *)
Break ==
  /\ sock # "none" /\ breaks < MaxBreaks /\ breaks' = breaks + 1
  /\ sock' = "none" /\ down' = <<>>
  /\ \E n \in 0..Len(up) : up' = SubSeq(up, 1, n)
  /\ UNCHANGED <<given, dropped, session, online, late, config, held, in_quota, outp, looping,
                 got>>

Expire ==
  /\ ~late /\ late' = TRUE /\ \E k \in Ids : given[k].expires
  /\ UNCHANGED <<given, dropped, session, online, config, client, up, down, breaks>>

Broker == BrokerRead \/ MessageWrite \/ Offline
Next ==
  \/ \E qos \in 1..2, expires \in Expiring : Send(qos, expires)
  \/ Broker \/ Connect \/ ClientRead \/ ClientWrite \/ Break \/ Expire

(* The broker's loop and the client's go on.  mosquitto_loop_forever       *)
(* connects again as long as it runs; nobody has to once it has returned.  *)
Spec == Init /\ [][Next]_vars
FairSpec ==
  /\ Spec /\ WF_vars(BrokerRead) /\ WF_vars(MessageWrite) /\ WF_vars(Offline)
  /\ WF_vars(looping /\ Connect) /\ WF_vars(ClientRead) /\ WF_vars(ClientWrite)

-----------------------------------------------------------------------------
TypeOK ==
  /\ out_quota \in 0..MaxInflight /\ in_quota \in 0..MaxInflight
  /\ dropped \subseteq Ids /\ sock \in {"none", "connected", "active"}

(* A message the broker had room for is in the session until on_message    *)
(* was called for it, whatever was sent twice or refused on the way: as    *)
(* long as no identifier comes round again (MaxGiven < MaxMid).            *)
KeptUntilReceived ==
  \A k \in Ids : k \in dropped \cup InSession \/ got[k] > 0

(* A second copy takes a connection that broke, and one of a message of    *)
(* QoS 2 takes two: the first makes the broker repeat PUBLISH, which is    *)
(* put on the list again, the second makes it repeat PUBREL.               *)
CopiesTakeBreaks ==
  \A k \in Ids :
    /\ got[k] <= 1 + breaks
    /\ given[k].qos = 2 /\ breaks <= 1 => got[k] <= 1

(* handle__pubrel: "Only pass the message on if we have removed it from    *)
(* the queue - this prevents multiple callbacks for the same message."     *)
OneCallback == \A k \in Ids : given[k].qos = 2 => got[k] <= 1

(* A PUBLISH without DUP is one the client has not had before.             *)
DupMarksRepeats ==
  down # <<>> /\ Head(down).kind = "PUBLISH" /\ ~Head(down).dup
    => LET k == Head(down).id
       IN got[k] = 0 /\ \A i \in 1..Len(held) : held[i].id # k

(* On the first connection the limit of messages in flight is kept.        *)
FirstLimit == breaks = 0 /\ sock # "none" => Len(inflight) <= MaxInflight

(* The broker sends the messages of a session one after the other: those   *)
(* in flight, then those in the queue.                                     *)
Before(i, j) ==
  LET s == inflight \o queued
  IN \E y \in 1..Len(s) : \E x \in 1..y - 1 : s[x].id = i /\ s[y].id = j

(* The first copy of j is passed on, a message of the QoS of i.            *)
Arrives(i, j) == got[j] = 0 /\ got'[j] > 0 /\ given[i].qos = given[j].qos

(* No message that waits overtakes another, over no connection, and those  *)
(* of one QoS are first passed on in that order.                           *)
StaysInOrder ==
  \A i, j \in Ids :
    Before(i, j) => ~Before(j, i)' /\ (Arrives(i, j) => i \in dropped' \/ got'[i] > 0)

(* On the first connection it is the order the messages came in.           *)
FirstInOrder ==
  breaks = 0 => \A i, j \in Ids : i < j /\ Arrives(i, j) => i \in dropped' \/ got'[i] > 0

(* mosquitto.conf of max_inflight_messages: "Setting to 1 will guarantee   *)
(* in-order delivery of QoS 1 and 2 messages."                             *)
InOrderDelivery ==
  [][MaxInflight = 1 =>
       \A i, j \in Ids : i < j /\ Arrives(i, j) => i \in dropped' \/ got'[i] > 0]_vars

(* mosquitto_loop_forever "handles reconnecting in case server connection  *)
(* is lost.  If you call mosquitto_disconnect() in a callback it will      *)
(* return" (lib/mosquitto.h): nobody disconnects here.                     *)
LoopGoesOn == looping

=============================================================================
