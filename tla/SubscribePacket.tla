-------------------------- MODULE SubscribePacket ---------------------------
(***************************************************************************)
(* SUBSCRIBE and UNSUBSCRIBE with their answers: from the call of the      *)
(* application (actions.c, send_subscribe.c, send_unsubscribe.c) through   *)
(* the handlers of the broker (handle_subscribe.c, handle_unsubscribe.c,   *)
(* send_suback.c, send_unsuback.c) to on_subscribe and on_unsubscribe      *)
(* (handle_suback.c, handle_unsuback.c), over connections that break.      *)
(*                                                                         *)
(* What the broker holds is a set here; the tree it is kept in, and the    *)
(* retained messages a subscription brings, are SubTree's.                 *)
(***************************************************************************)
EXTENDS Integers, Sequences, SequencesExt, FiniteSets

CONSTANTS
  Candidates,  \* [kind, filters, qos, options] the application asks for
  Invalid,     \* filters mosquitto_sub_topic_check refuses
  TooDeep,     \* filters it refuses in the broker only
  BadShare,    \* filters that begin with $share and name no topic
  Configs,     \* [protocol, clean, mount_point, denied]: of the client, its
               \* listener, and the filters a plugin denies
  MaxGiven,    \* bound: requests
  MaxMid,      \* bound: identifiers, 65535 in the code
  MaxBreaks    \* bound: connections that break

VARIABLES
  asked,       \* requests, each with its mid and its connection
  told,        \* calls of on_subscribe and on_unsubscribe, [mid, codes]
  sock,        \* client: "none" or "connected"
  conn,        \* the number of the connection
  last_mid,
  up, down,    \* packets to the broker, and to the client
  online,      \* broker: it has the connection
  subs,        \* broker: the client's subscriptions, [f, qos, options]
  config, breaks

vars == <<asked, told, sock, conn, last_mid, up, down, online, subs, config, breaks>>

IsV3 == config.protocol # "v5"

Init ==
  /\ asked = <<>> /\ told = <<>> /\ sock = "connected" /\ conn = 1 /\ last_mid = 0
  /\ up = <<>> /\ down = <<>> /\ online = TRUE /\ subs = {}
  /\ config \in Configs /\ breaks = 0

-----------------------------------------------------------------------------
(* The client. *)

(* mosquitto__mid_generate *)
NextMid == IF last_mid = MaxMid THEN 1 ELSE last_mid + 1

(* Mutant: the library leaves the look at the filters to the broker. *)
FiltersAnyway(r) == TRUE

(* A call that is refused changes nothing.                                 *)
FiltersValid(r) == \A i \in 1..Len(r.filters) : r.filters[i] \notin Invalid
OptionsValid(r) == (r.options % 64) \div 16 # 3 /\ r.options < 64

Asked(r) ==
  /\ asked' = Append(asked, [r |-> r, mid |-> NextMid, conn |-> conn]) /\ last_mid' = NextMid
  /\ UNCHANGED <<told, sock, conn, down, online, subs, config, breaks>>
SendSubscribe(r, options) ==
  up' = Append(up, [kind |-> "SUBSCRIBE", mid |-> NextMid, filters |-> r.filters,
                    qos |-> r.qos, options |-> options])
SendUnsubscribe(r) ==
  up' = Append(up, [kind |-> "UNSUBSCRIBE", mid |-> NextMid, filters |-> r.filters])

(* mosquitto_subscribe_multiple: one QoS for all filters.                  *)
Subscribe(r) ==
  /\ r.kind = "SUBSCRIBE" /\ Len(asked) < MaxGiven
  /\ sock = "connected" /\ r.filters # <<>> /\ OptionsValid(r) /\ FiltersValid(r)
  /\ SendSubscribe(r, IF IsV3 THEN 0 ELSE r.options) /\ Asked(r)

(* mosquitto_unsubscribe_multiple: a list without filters will do.         *)
Unsubscribe(r) ==
  /\ r.kind = "UNSUBSCRIBE" /\ Len(asked) < MaxGiven
  /\ sock = "connected" /\ FiltersValid(r)
  /\ SendUnsubscribe(r) /\ Asked(r)

(* The reason codes of UNSUBACK are not read.                              *)
HandleSuback(p) == told' = Append(told, [mid |-> p.mid, codes |-> p.codes])
HandleUnsuback(p) == told' = Append(told, [mid |-> p.mid, codes |-> <<>>])

ClientRead ==
  /\ sock = "connected" /\ down # <<>> /\ down' = Tail(down)
  /\ LET p == Head(down)
     IN \/ p.kind = "SUBACK" /\ HandleSuback(p)
        \/ p.kind = "UNSUBACK" /\ HandleUnsuback(p)
  /\ UNCHANGED <<asked, sock, conn, last_mid, up, online, subs, config, breaks>>

(* mosquitto__loop_rc_handle, when the broker has closed the connection.   *)
Closed ==
  /\ sock = "connected" /\ ~online /\ down = <<>>
  /\ sock' = "none" /\ up' = <<>>
  /\ UNCHANGED <<asked, told, conn, last_mid, down, online, subs, config, breaks>>

(* context__disconnect: what a session leaves that ends with its           *)
(* connection is not there any more for the next one.                      *)
Kept == IF config.clean THEN {} ELSE subs

(* mosquitto__reconnect, with CONNECT and CONNACK: packets that wait are   *)
(* thrown away, and nobody subscribes again but the application.           *)
Reconnect ==
  /\ sock = "none"
  /\ sock' = "connected" /\ conn' = conn + 1 /\ online' = TRUE
  /\ subs' = Kept
  /\ UNCHANGED <<asked, told, last_mid, up, down, config, breaks>>

Break ==
  /\ sock = "connected" /\ breaks < MaxBreaks
  /\ breaks' = breaks + 1
  /\ sock' = "none" /\ up' = <<>> /\ down' = <<>> /\ online' = FALSE
  /\ UNCHANGED <<asked, told, conn, last_mid, subs, config>>

-----------------------------------------------------------------------------
(* The broker. *)

Mounted(f) == config.mount_point \o f

(* sub__add_leaf: the options of a subscription that is there stay.        *)
Put(table, f, qos, options) ==
  LET old == {e \in table : e.f = f}
  IN (table \ old) \cup
     {[f |-> f, qos |-> qos,
       options |-> IF old = {} THEN options ELSE (CHOOSE e \in old : TRUE).options]}

(* How many filters are taken before one that ends the connection.         *)
Taken(filters, Ends(_)) ==
  LET bad == {i \in 1..Len(filters) : Ends(filters[i])}
  IN IF bad = {} THEN Len(filters) ELSE (CHOOSE i \in bad : \A j \in bad : i <= j) - 1

(* mosquitto_acl_check, MQTT 3.1 having no code to deny with.              *)
Code(p, f) == IF config.protocol # "v31" /\ Mounted(f) \in config.denied THEN 128 ELSE p.qos

(* An empty filter of length 0 is passed over with its options unread, so  *)
(* that the rest cannot be read; sub__add takes no $share without a topic. *)
EndsSubscribe(f) ==
  f = "" \/ f \in Invalid \cup TooDeep \/ (f \in BadShare /\ config.mount_point = "")
EndsUnsubscribe(f) == f = "" \/ f \in Invalid \cup TooDeep \cup BadShare

(* Mutant: a filter that is denied has no code. *)
CodesGranted(p, n) == SelectSeq([i \in 1..n |-> Code(p, p.filters[i])], LAMBDA q : q # 128)

Codes(p, n) == [i \in 1..n |-> Code(p, p.filters[i])]

SendSuback(mid, codes) ==
  down' = Append(down, [kind |-> "SUBACK", mid |-> mid, codes |-> codes]) /\ UNCHANGED online
SendUnsuback(mid, codes) ==
  /\ down' = Append(down, [kind |-> "UNSUBACK", mid |-> mid,
                           codes |-> IF IsV3 THEN <<>> ELSE codes])
  /\ UNCHANGED online
CloseConnection == online' = FALSE /\ UNCHANGED down

(* handle__subscribe: what comes before a filter that ends the connection  *)
(* is subscribed to, but not answered.                                     *)
HandleSubscribe(p) ==
  LET n == Taken(p.filters, EndsSubscribe)
      granted == SelectSeq(SubSeq(p.filters, 1, n), LAMBDA f : Code(p, f) # 128)
  IN /\ subs' = FoldLeft(LAMBDA t, f : Put(t, Mounted(f), p.qos, p.options), subs, granted)
     /\ IF n < Len(p.filters) THEN CloseConnection ELSE SendSuback(p.mid, Codes(p, n))

(* 0, or 17 when there was no subscription, or not any more.               *)
Reasons(filters) ==
  [i \in 1..Len(filters) |->
     IF (\E e \in subs : e.f = filters[i]) /\ \A j \in 1..i - 1 : filters[j] # filters[i]
       THEN 0 ELSE 17]

(* Mutant: only the first filter is looked at. *)
HandleUnsubscribeFirst(p) ==
  LET n == Taken(p.filters, EndsUnsubscribe)
      gone == ToSet(SubSeq(p.filters, 1, IF n > 1 THEN 1 ELSE n))
  IN /\ subs' = {e \in subs : e.f \notin gone}
     /\ IF n < Len(p.filters) \/ (p.filters = <<>> /\ config.protocol # "v31")
          THEN CloseConnection ELSE SendUnsuback(p.mid, Reasons(p.filters))

(* handle__unsubscribe: the mount point is not put before the filters,     *)
(* although mosquitto.conf:401-402 says it is put before all topics.       *)
HandleUnsubscribe(p) ==
  LET n == Taken(p.filters, EndsUnsubscribe)
      gone == ToSet(SubSeq(p.filters, 1, n))
  IN /\ subs' = {e \in subs : e.f \notin gone}
     /\ IF n < Len(p.filters) \/ (p.filters = <<>> /\ config.protocol # "v31")
          THEN CloseConnection ELSE SendUnsuback(p.mid, Reasons(p.filters))

BrokerRead ==
  /\ online /\ up # <<>> /\ up' = Tail(up)
  /\ LET p == Head(up)
     IN \/ p.kind = "SUBSCRIBE" /\ HandleSubscribe(p)
        \/ p.kind = "UNSUBSCRIBE" /\ HandleUnsubscribe(p)
  /\ UNCHANGED <<asked, told, sock, conn, last_mid, config, breaks>>

Next ==
  \/ \E r \in Candidates : Subscribe(r) \/ Unsubscribe(r)
  \/ ClientRead \/ Closed \/ Reconnect \/ Break \/ BrokerRead

Spec == Init /\ [][Next]_vars

-----------------------------------------------------------------------------
AnswerTo(k) == {i \in 1..Len(told) : told[i].mid = asked[k].mid}
HeldFor(k) == ~config.clean \/ (asked[k].conn = conn /\ online)
LastAbout(k, f) ==
  \A j \in k + 1..Len(asked) : f \notin ToSet(asked[j].r.filters)

(* What the application was told of its last request about a filter is     *)
(* what the broker does, as long as there is a session: with the QoS of    *)
(* the answer, and no more after on_unsubscribe.  A listener with a mount  *)
(* point is left out of the last: there, against mosquitto.conf:401-402, a *)
(* client cannot unsubscribe (sub__add, sub__remove).                      *)
HoldsWhatWasTold ==
  \A k \in 1..Len(asked) : \A i \in 1..Len(asked[k].r.filters) :
    LET r == asked[k].r
        f == r.filters[i]
        held == {e \in subs : e.f = Mounted(f)}
    IN AnswerTo(k) # {} /\ HeldFor(k) /\ LastAbout(k, f)
       => \A a \in AnswerTo(k) :
            CASE r.kind = "UNSUBSCRIBE" -> config.mount_point = "" => held = {}
              [] told[a].codes[i] # 128 -> {e.qos : e \in held} = {told[a].codes[i]}
              [] OTHER -> TRUE

(* on_subscribe has a code for every filter, in its place: handle__suback  *)
(* counts them, and cannot know what they are for.                         *)
AnsweredInPlace ==
  \A k \in 1..Len(asked) : \A a \in AnswerTo(k) :
    LET r == asked[k].r
    IN /\ Cardinality(AnswerTo(k)) = 1
       /\ r.kind = "SUBSCRIBE" =>
            /\ Len(told[a].codes) = Len(r.filters)
            /\ \A i \in 1..Len(r.filters) :
                 told[a].codes[i] =
                   IF Mounted(r.filters[i]) \in config.denied /\ config.protocol # "v31"
                     THEN 128 ELSE r.qos

(* A request of this connection is on its way, or answered, and the broker *)
(* closes the connection only for what the library lets through: filters   *)
(* too deep or empty, $share without a topic, and no filter at all.        *)
LetThrough(r) ==
  \/ r.kind = "UNSUBSCRIBE" /\ r.filters = <<>>
  \/ ToSet(r.filters) \cap ({""} \cup TooDeep \cup BadShare) # {}
OnlyForLetThrough ==
  LET mine == {k \in 1..Len(asked) : asked[k].conn = conn}
      Waiting(q, k) == \E i \in 1..Len(q) : q[i].mid = asked[k].mid
  IN sock = "connected" =>
       IF online THEN \A k \in mine : Waiting(up, k) \/ Waiting(down, k) \/ AnswerTo(k) # {}
                 ELSE \E k \in mine : LetThrough(asked[k].r)
=============================================================================
