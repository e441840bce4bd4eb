--------------------------- MODULE ClientPublish ----------------------------
(***************************************************************************)
(* mosquitto_publish with QoS 1 and 2: libmosquitto's outgoing messages    *)
(* (actions.c, messages_mosq.c, handle_pub*.c) and the broker's incoming   *)
(* ones (handle_publish.c, database.c), over connections that break and    *)
(* are made again.                                                         *)
(*                                                                         *)
(* Message k is the k-th that was given to mosquitto_publish.  A packet    *)
(* carries its kind, its message identifier and, as its payload, the       *)
(* number of the message.                                                  *)
(***************************************************************************)
EXTENDS Naturals, Sequences, FiniteSets

CONSTANTS
  MaxGiven,      \* bound: calls of mosquitto_publish
  MaxMid,        \* message identifiers are 1..MaxMid (65535 in the code)
  SendMaximum,   \* the client's msgs_out.inflight_maximum
  MaxInflight,   \* the broker's max_inflight_messages
  MaxQueued,     \* the broker's max_queued_messages
  CleanSession,  \* the values clean_session may have
  MaxBreaks      \* bound: connections that break

VARIABLES
  given,        \* the QoS of every message given so far
  out,          \* client: msgs_out.inflight, [id, mid, qos, state]
  out_quota,    \* client: msgs_out.inflight_quota
  last_mid,     \* client: the identifier given out last
  sock,         \* client: "none", "connected" (CONNECT sent) or "active"
  acked,        \* messages on_publish was called for
  clean,        \* the client asks for a clean session
  up, down,     \* packets on their way to the broker, and to the client
  inflight,     \* broker: msgs_in.inflight of the session, [id, mid]
  queued,       \* broker: msgs_in.queued
  in_quota,     \* broker: msgs_in.inflight_quota
  released,     \* how often the broker passed each message on
  breaks        \* connections broken so far

client == <<given, out, out_quota, last_mid, sock, acked, clean>>
session == <<inflight, queued, in_quota>>
vars == <<client, up, down, session, released, breaks>>

Ids == 1..Len(given)
Pkt(kind, mid, id, qos) == [kind |-> kind, mid |-> mid, id |-> id, qos |-> qos]
Bare(kind) == Pkt(kind, 0, 0, 0)
Ack(kind, mid) == Pkt(kind, mid, 0, 0)
PUBLISH(m) == Pkt("PUBLISH", m.mid, m.id, m.qos)

Lower(a, b) == IF a < b THEN a ELSE b
(* Mutant: the quota is raised for every answer. *)
UpAlways(quota, max) == quota + 1
Up(quota, max) == IF quota < max THEN quota + 1 ELSE quota
Down(quota) == IF quota > 0 THEN quota - 1 ELSE 0

Map(Op(_), s) == [i \in 1..Len(s) |-> Op(s[i])]

(* The indices I of a sequence in ascending order, and what stands there.  *)
InOrder(I) ==
  CHOOSE e \in [1..Cardinality(I) -> I] : \A i, j \in 1..Cardinality(I) : i < j => e[i] < e[j]
Pick(s, I) == LET e == InOrder(I) IN [n \in 1..Cardinality(I) |-> s[e[n]]]

Without(s, mid) == Pick(s, {i \in 1..Len(s) : s[i].mid # mid})
Has(s, mid) == \E i \in 1..Len(s) : s[i].mid = mid

Init ==
  /\ given = <<>> /\ out = <<>> /\ out_quota = SendMaximum /\ last_mid = 0
  /\ sock = "none" /\ acked = {} /\ clean \in CleanSession
  /\ up = <<>> /\ down = <<>>
  /\ inflight = <<>> /\ queued = <<>> /\ in_quota = MaxInflight
  /\ released = <<>> /\ breaks = 0

-----------------------------------------------------------------------------
(* The client. *)

Waiting(qos) == IF qos = 1 THEN "wait_for_puback" ELSE "wait_for_pubrec"

(* The messages the quota allows to release: the first `invalid' ones.     *)
(* Without a connection the first send fails, after the state was set, and *)
(* the quota is not touched.                                               *)
ToRelease(q, quota) ==
  LET held == {i \in 1..Len(q) : q[i].state = "invalid"}
      n    == IF sock = "none" THEN Lower(1, quota) ELSE quota
  IN {i \in held : Cardinality({j \in held : j <= i}) <= n}

ReleaseToInflight(q, quota) ==
  LET rel == ToRelease(q, quota)
  IN /\ out' = [i \in 1..Len(q) |->
                  IF i \in rel THEN [q[i] EXCEPT !.state = Waiting(q[i].qos)]
                               ELSE q[i]]
     /\ IF sock = "none"
          THEN out_quota' = quota /\ UNCHANGED up
          ELSE /\ out_quota' = quota - Cardinality(rel)
               /\ up' = up \o Map(PUBLISH, Pick(q, rel))

MessageQueue(m) == ReleaseToInflight(Append(out, m), out_quota)

NextMid == IF last_mid = MaxMid THEN 1 ELSE last_mid + 1

(* mosquitto_publish.  The caller is less than MaxMid messages ahead of    *)
(* the oldest one that is not acknowledged.                                *)
Publish(qos) ==
  /\ Len(given) < MaxGiven
  /\ ~Has(out, NextMid)
  /\ given' = Append(given, qos)
  /\ released' = Append(released, 0)
  /\ last_mid' = NextMid
  /\ MessageQueue([id |-> Len(given) + 1, mid |-> NextMid,
                   qos |-> qos, state |-> "invalid"])
  /\ UNCHANGED <<sock, acked, clean, down, session, breaks>>

(* Mutant: a message the broker has acknowledged with PUBREC is sent again. *)
ResumedFromStart(m) == [m EXCEPT !.state = IF m.qos = 1 THEN "publish_qos1" ELSE "publish_qos2"]

(* What a message that was in flight is taken for on the next connection.  *)
Resumed(m) ==
  [m EXCEPT !.state =
     CASE m.qos = 1 -> "publish_qos1"
       [] m.state = "wait_for_pubrec" -> "publish_qos2"
       [] m.state = "wait_for_pubcomp" -> "resend_pubrel"
       [] OTHER -> m.state]

(* Mutant: what the quota has no room for is not kept. *)
ReconnectResetDrops ==
  /\ out_quota' = SendMaximum - Lower(SendMaximum, Len(out))
  /\ out' = Map(Resumed, SubSeq(out, 1, Lower(SendMaximum, Len(out))))

(* message__reconnect_reset: as many messages as the maximum keep their    *)
(* state, the others are held back.                                        *)
ReconnectReset ==
  /\ out_quota' = SendMaximum - Lower(SendMaximum, Len(out))
  /\ out' = [i \in 1..Len(out) |->
               IF i <= SendMaximum THEN Resumed(out[i])
                                   ELSE [out[i] EXCEPT !.state = "invalid"]]

(* mosquitto_reconnect; the connection may not come about. *)
Reconnect ==
  /\ sock = "none"
  /\ ReconnectReset
  /\ \/ sock' = "connected" /\ up' = Append(up, Bare("CONNECT")) /\ down' = <<>>
     \/ UNCHANGED <<sock, up, down>>
  /\ UNCHANGED <<given, last_mid, acked, clean, session, released, breaks>>

Unpublished == {"publish_qos1", "publish_qos2"}
Unreleased == {"resend_pubrel", "wait_for_pubcomp"}
Retry(m) == IF m.state \in Unpublished THEN PUBLISH(m) ELSE Ack("PUBREL", m.mid)

(* Mutant: only PUBLISH is repeated. *)
RetriesPublishOnly == Map(Retry, Pick(out, {i \in 1..Len(out) : out[i].state \in Unpublished}))

(* Everything message__retry_check sends, in the order of the queue. *)
Retries ==
  Map(Retry, Pick(out, {i \in 1..Len(out) : out[i].state \in Unpublished \cup Unreleased}))

HandleConnack ==
  /\ sock' = "active"
  /\ out_quota' = SendMaximum
  /\ up' = up \o Retries
  /\ UNCHANGED <<out, acked>>

(* An answer that fits no message makes the client close the connection.   *)
GiveUp == sock' = "none" /\ UNCHANGED <<out, acked, up>>

(* PUBACK and PUBCOMP: the quota is raised before the message is looked for. *)
HandlePubackcomp(p, qos) ==
  LET quota == Up(out_quota, SendMaximum)
      hit   == {i \in 1..Len(out) : out[i].mid = p.mid /\ out[i].qos = qos}
  IN IF hit = {}
       THEN GiveUp /\ out_quota' = quota
       ELSE /\ acked' = acked \cup {out[i].id : i \in hit}
            /\ ReleaseToInflight(Without(out, p.mid), quota)
            /\ UNCHANGED sock

(* An unknown identifier is answered all the same. *)
HandlePubrec(p) ==
  IF \E i \in 1..Len(out) : out[i].mid = p.mid /\ out[i].qos # 2
    THEN GiveUp /\ UNCHANGED out_quota
    ELSE /\ out' = [i \in 1..Len(out) |-> IF out[i].mid = p.mid
                      THEN [out[i] EXCEPT !.state = "wait_for_pubcomp"]
                      ELSE out[i]]
         /\ up' = Append(up, Ack("PUBREL", p.mid))
         /\ UNCHANGED <<sock, acked, out_quota>>

ClientRead ==
  /\ sock # "none" /\ down # <<>>
  /\ down' = Tail(down)
  /\ LET p == Head(down)
     IN \/ p.kind = "CONNACK" /\ HandleConnack
        \/ p.kind = "PUBACK" /\ HandlePubackcomp(p, 1)
        \/ p.kind = "PUBCOMP" /\ HandlePubackcomp(p, 2)
        \/ p.kind = "PUBREC" /\ HandlePubrec(p)
  /\ UNCHANGED <<given, last_mid, clean, session, released, breaks>>

-----------------------------------------------------------------------------
(* The connection breaks: what was not yet read may be lost, and nothing   *)
(* of the old connection reaches the client any more.                      *)
Break ==
  /\ sock # "none" /\ breaks < MaxBreaks
  /\ breaks' = breaks + 1
  /\ sock' = "none" /\ down' = <<>>
  /\ \E n \in 0..Len(up) : up' = SubSeq(up, 1, n)
  /\ UNCHANGED <<given, out, out_quota, last_mid, acked, clean, session, released>>

-----------------------------------------------------------------------------
(* The broker. *)

(* Packets ahead of a CONNECT came on an older connection, whose answers   *)
(* nobody reads.                                                           *)
Reply(pkts) ==
  down' = IF sock = "none" \/ \E i \in 2..Len(up) : up[i].kind = "CONNECT"
            THEN down ELSE down \o pkts

Release(id) == released' = [released EXCEPT ![id] = @ + 1]

(* db__message_reconnect_reset_incoming on the session that is resumed. *)
ResumeSession ==
  LET quota == MaxInflight - Lower(MaxInflight, Len(inflight))
      n     == Lower(quota, Len(queued))
  IN /\ inflight' = inflight \o SubSeq(queued, 1, n)
     /\ queued' = SubSeq(queued, n + 1, Len(queued))
     /\ in_quota' = quota - n

HandleConnect ==
  /\ IF clean \/ inflight \o queued = <<>>
       THEN inflight' = <<>> /\ queued' = <<>> /\ in_quota' = MaxInflight
       ELSE ResumeSession
  /\ Reply(<<Bare("CONNACK")>>)
  /\ UNCHANGED released

(* db__message_store_find: a message held under the identifier is taken for *)
(* the one that comes.                                                      *)
Held == inflight \o queued
Stored(p) ==
  IF Has(Held, p.mid)
    THEN (CHOOSE m \in {Held[i] : i \in 1..Len(Held)} : m.mid = p.mid).id
    ELSE p.id

(* The quota goes down for the message and up again for its PUBACK. *)
HandlePublish1(p) ==
  /\ Release(Stored(p))
  /\ in_quota' = Up(Down(in_quota), MaxInflight)
  /\ Reply(<<Ack("PUBACK", p.mid)>>)
  /\ UNCHANGED <<inflight, queued>>

(* Mutant: a message that is dropped is answered all the same. *)
InsertAnswersAll(p) ==
  LET m == [id |-> p.id, mid |-> p.mid]
  IN /\ IF in_quota > 0
          THEN inflight' = Append(inflight, m) /\ UNCHANGED queued
          ELSE /\ queued' = IF Len(Held) < MaxInflight + MaxQueued
                              THEN Append(queued, m) ELSE queued
               /\ UNCHANGED inflight
     /\ Reply(<<Ack("PUBREC", p.mid)>>)

(* db__message_insert: in flight, queued, or dropped when both are full. *)
Insert(p) ==
  LET m == [id |-> p.id, mid |-> p.mid]
  IN \/ /\ in_quota > 0
        /\ inflight' = Append(inflight, m) /\ UNCHANGED queued
        /\ Reply(<<Ack("PUBREC", p.mid)>>)
     \/ /\ in_quota = 0
        /\ queued' = IF Len(Held) < MaxInflight + MaxQueued
                       THEN Append(queued, m) ELSE queued
        /\ UNCHANGED <<inflight, down>>

(* Mutant: queued messages are not looked at. *)
HandlePublish2InflightOnly(p) ==
  /\ IF Has(inflight, p.mid)
       THEN Reply(<<Ack("PUBREC", p.mid)>>) /\ UNCHANGED <<inflight, queued>>
       ELSE Insert(p)
  /\ UNCHANGED <<in_quota, released>>

HandlePublish2(p) ==
  /\ IF Has(Held, p.mid)
       THEN Reply(<<Ack("PUBREC", p.mid)>>) /\ UNCHANGED <<inflight, queued>>
       ELSE Insert(p)
  /\ UNCHANGED <<in_quota, released>>

(* db__message_release_incoming: the message goes on to the subscribers,   *)
(* and queued ones take the places in flight.  PUBCOMP is sent in any case.*)
HandlePubrel(p) ==
  LET n == Lower(Len(queued), MaxInflight - Lower(MaxInflight, Len(inflight)))
      moved == SubSeq(queued, 1, n)
      quota == in_quota - Lower(in_quota, n)
      hit == {inflight[i].id : i \in {j \in 1..Len(inflight) :
                                        inflight[j].mid = p.mid}}
  IN /\ released' = [k \in Ids |-> released[k] + Cardinality({k} \cap hit)]
     /\ inflight' = Without(inflight, p.mid) \o moved
     /\ queued' = SubSeq(queued, n + 1, Len(queued))
     /\ in_quota' = Up(quota, MaxInflight)
     /\ Reply(Append(Map(LAMBDA m : Ack("PUBREC", m.mid), moved),
                     Ack("PUBCOMP", p.mid)))

BrokerRead ==
  /\ up # <<>>
  /\ up' = Tail(up)
  /\ LET p == Head(up)
     IN \/ p.kind = "CONNECT" /\ HandleConnect
        \/ p.kind = "PUBLISH" /\ p.qos = 1 /\ HandlePublish1(p)
        \/ p.kind = "PUBLISH" /\ p.qos = 2 /\ HandlePublish2(p)
        \/ p.kind = "PUBREL" /\ HandlePubrel(p)
  /\ UNCHANGED <<client, breaks>>

(* db__message_write, once in every round of the main loop. *)
BrokerWrite ==
  /\ queued # <<>> /\ in_quota > 0
  /\ sock # "none" /\ \A i \in 1..Len(up) : up[i].kind # "CONNECT"
  /\ LET n == Lower(in_quota, Len(queued))
     IN /\ inflight' = inflight \o SubSeq(queued, 1, n)
        /\ queued' = SubSeq(queued, n + 1, Len(queued))
        /\ in_quota' = in_quota - n
        /\ down' = down \o Map(LAMBDA m : Ack("PUBREC", m.mid), SubSeq(queued, 1, n))
  /\ UNCHANGED <<client, up, released, breaks>>

-----------------------------------------------------------------------------
Next ==
  \/ \E qos \in 1..2 : Publish(qos)
  \/ Reconnect \/ ClientRead \/ Break
  \/ BrokerRead \/ BrokerWrite

Spec == Init /\ [][Next]_vars

(* Both ends read what arrives; a client without a connection makes one    *)
(* again and again, and not every attempt fails.                           *)
FairSpec ==
  /\ Spec
  /\ WF_vars(ClientRead) /\ WF_vars(BrokerRead) /\ WF_vars(BrokerWrite)
  /\ WF_vars(Reconnect /\ sock' # "none")

-----------------------------------------------------------------------------
States == {"invalid", "wait_for_puback", "wait_for_pubrec", "wait_for_pubcomp",
           "publish_qos1", "publish_qos2", "resend_pubrel"}

TypeOK ==
  /\ given \in Seq(1..2) /\ released \in Seq(Nat) /\ acked \subseteq Ids
  /\ out \in Seq([id : Ids, mid : 1..MaxMid, qos : 1..2, state : States])
  /\ out_quota \in 0..SendMaximum /\ last_mid \in 0..MaxMid
  /\ sock \in {"none", "connected", "active"} /\ clean \in BOOLEAN
  /\ Held \in Seq([id : Ids, mid : 1..MaxMid]) /\ in_quota \in 0..MaxInflight

(* As long as no more messages are given than the maximum in flight, lost  *)
(* and repeated packets on any number of connections leave every message   *)
(* passed on before it is acknowledged and a QoS 2 one passed on once.     *)
Abstract == INSTANCE Delivery
DeliverySpec == Abstract!Spec

(* A message is on the client's list until on_publish was called for it,   *)
(* whatever quota and reconnecting do to its state.                        *)
KeptUntilAcked ==
  \A k \in Ids : k \in acked <=> \A i \in 1..Len(out) : out[i].id # k

(* Where the broker keeps the session, what it acknowledged was passed on  *)
(* or waits in the session: the PUBCOMP that answers a PUBREL for a queued *)
(* message (db__message_release_incoming finds nothing) loses nothing.     *)
AckedIsSafe ==
  \A k \in acked : ~clean =>
     released[k] > 0 \/ \E i \in 1..Len(Held) : Held[i].id = k

(* A PUBLISH that is repeated never makes the session hold two messages    *)
(* under one identifier; db__message_release_incoming would pass both on.  *)
OnePerIdentifier ==
  \A i, j \in 1..Len(Held) : Held[i].mid = Held[j].mid => i = j

Dropped(k) ==
  /\ up # <<>> /\ Head(up).id = k /\ in_quota = 0
  /\ Len(Held) >= MaxInflight + MaxQueued

(* Once connections stop breaking every message is acknowledged, unless    *)
(* the broker drops it for want of room: it answers nothing then, and the  *)
(* client does not send the message again before it has to reconnect.      *)
AnsweredUnlessDropped ==
  \A k \in 1..MaxGiven : <>(k \in Ids) => <>(k \in acked \/ Dropped(k))
=============================================================================
