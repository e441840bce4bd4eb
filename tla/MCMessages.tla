----------------------------- MODULE MCMessages -----------------------------
(***************************************************************************)
(* What the client library and the broker send each other: CONNECT,        *)
(* SUBSCRIBE and their answers, messages of QoS 1 and 2 in both            *)
(* directions, and the way of a message under its topic, on small          *)
(* instances.  The instances share no state: `part' says which one a       *)
(* behaviour moves.                                                        *)
(***************************************************************************)
EXTENDS Integers, Sequences, TLAPS

CONSTANTS
  MaxGiven, MaxMid, SendMaximum, MaxInflight, MaxQueued, MaxBreaks   \* of ClientPublish

VARIABLES
  part,
  given, sock, up, down, out_quota, last_mid, inflight, queued, in_quota, breaks,
  out, acked, clean, released,
  dropped, online, late, protocol, threaded, held, outp, looping, got,
  config, mosq, packet, context, connack, phase, answer, call, first,
  waiting, quota, max_qos, conn, line, acks, aliases, stored, subscribed, mounted, received,
  answered, named, careless, offended,
  asked, told, subs

sessionVars == <<sock, up, down, out_quota, last_mid, inflight, queued, in_quota>>
publishVars == <<out, acked, clean, released>>
receiveVars == <<dropped, online, late, protocol, threaded, held, outp, looping, got>>
connectVars == <<mosq, packet, context, connack, phase, answer, call, first>>
pathVars == <<waiting, quota, max_qos, conn, line, acks, aliases, stored, subscribed, mounted,
  received, answered, named, careless, offended>>
askVars == <<asked, told, subs>>
vars == <<part, given, breaks, config, sessionVars, publishVars, receiveVars, connectVars, pathVars,
  askVars>>

PublishOff == out = "off" /\ acked = "off" /\ clean = "off" /\ released = "off"
ReceiveOff ==
  /\ dropped = "off" /\ online = "off" /\ late = "off" /\ protocol = "off"
  /\ threaded = "off" /\ held = "off" /\ outp = "off" /\ looping = "off" /\ got = "off"

SessionOff ==
  /\ sock = "off" /\ up = "off" /\ down = "off" /\ out_quota = "off" /\ last_mid = "off"
  /\ inflight = "off" /\ queued = "off" /\ in_quota = "off"
ConnectOff ==
  /\ mosq = "off" /\ packet = "off" /\ context = "off" /\ connack = "off" /\ phase = "off"
  /\ answer = "off" /\ call = "off" /\ first = "off"
PathOff ==
  /\ waiting = "off" /\ quota = "off" /\ max_qos = "off" /\ conn = "off" /\ line = "off"
  /\ acks = "off" /\ aliases = "off" /\ stored = "off" /\ subscribed = "off"
  /\ mounted = "off" /\ received = "off" /\ answered = "off" /\ named = "off"
  /\ careless = "off" /\ offended = "off"
AskOff == asked = "off" /\ told = "off" /\ subs = "off"
OtherOff == config = "off" /\ ConnectOff /\ PathOff /\ AskOff

-----------------------------------------------------------------------------
(* Messages over connections that break: in one part client and broker     *)
(* have room for all in flight, while identifiers may be used again; in    *)
(* the other three messages meet room for one or two.                      *)
ASSUME RoomAssumption ==
  /\ MaxGiven \in Nat /\ MaxMid \in Nat \ {0} /\ SendMaximum \in Nat /\ MaxInflight \in Nat
  /\ MaxGiven <= SendMaximum /\ MaxGiven <= MaxInflight

Kept == {FALSE}
KeptOrClean == {FALSE, TRUE}
Roomy == INSTANCE ClientPublishProofs WITH CleanSession <- Kept
Tight == INSTANCE ClientPublishProofs WITH
  MaxGiven <- 3, MaxMid <- 3, SendMaximum <- 2, MaxInflight <- 1, MaxQueued <- 1,
  CleanSession <- KeptOrClean, MaxBreaks <- 1

(* Four messages over two connections, the last of which may find room     *)
(* where others wait, with and without a network thread; and two, which    *)
(* may expire, to a client of either protocol.                             *)
Never == {FALSE}
Either == {FALSE, TRUE}
V311 == {"v311"}
V311OrV5 == {"v311", "v5"}
Stream == INSTANCE ClientReceiveProofs WITH
  MaxGiven <- 4, MaxMid <- 4, MaxInflight <- 1, MaxQueued <- 2, Protocols <- V311,
  Threads <- Either, Expiring <- Never, MaxBreaks <- 1
Expires == INSTANCE ClientReceiveProofs WITH
  MaxGiven <- 2, MaxMid <- 3, MaxInflight <- 1, MaxQueued <- 1, Protocols <- V311OrV5,
  Threads <- Never, Expiring <- Either, MaxBreaks <- 1

(* A client set in every way, to brokers that each refuse something else.  *)
Protocols == {"v31", "v311", "v5"}
Prop(name, v) == [name |-> name, v |-> v]
ClientsNew == {[id |-> i, clean |-> c] : i \in {"none", "c1"}, c \in BOOLEAN}
UsersGiven == {[username |-> u, password |-> w] : u \in {"none", "u"}, w \in {"none", "pw"}}
Will(topic, qos, retain, props) ==
  [topic |-> topic, qos |-> qos, retain |-> retain, props |-> props]
WillsGiven ==
  {Will("w", 1, FALSE, <<>>), Will("", 0, FALSE, <<>>), Will("w/#", 0, FALSE, <<>>),
   Will("w", 2, TRUE, <<Prop("content_type", "t"), Prop("will_delay", 5),
                        Prop("response_topic", "r"), Prop("message_expiry", 7)>>)}
Expiring9 == <<Prop("session_expiry", 9), Prop("receive_maximum", 4)>>
ListsGiven ==
  {[own |-> TRUE, list |-> <<>>], [own |-> TRUE, list |-> Expiring9],
   [own |-> FALSE, list |-> Expiring9],
   [own |-> TRUE, list |-> <<Prop("auth_method", "m")>>]}
Plain ==
  [allow_anonymous |-> TRUE, password_file |-> FALSE, allow_zero_length_clientid |-> TRUE,
   clientid_prefixes |-> "", use_username_as_clientid |-> FALSE, retain_available |-> TRUE,
   mount_point |-> "", maximum_qos |-> 2, max_keepalive |-> 65535]
Brokers ==
  {Plain, [Plain EXCEPT !.allow_anonymous = FALSE, !.password_file = TRUE],
   [Plain EXCEPT !.allow_zero_length_clientid = FALSE],
   [Plain EXCEPT !.clientid_prefixes = "c", !.use_username_as_clientid = TRUE],
   [Plain EXCEPT !.retain_available = FALSE, !.maximum_qos = 1],
   [Plain EXCEPT !.mount_point = "m/", !.max_keepalive = 30]}
KnownUsers == {[username |-> "u", password |-> "pw"]}
ReceivesGiven == {0, 5}
Connect == INSTANCE ConnectPacket WITH
  Clients <- ClientsNew, Users <- UsersGiven, Wills <- WillsGiven, Receives <- ReceivesGiven,
  Lists <- ListsGiven, Keepalive <- 60, Configs <- Brokers, Passwords <- KnownUsers,
  Never <- 1000000

(* Three messages by one listener, and two by either of two.               *)
Message(topic, alias, qos, retain, props) ==
  [topic |-> topic, alias |-> alias, qos |-> qos, retain |-> retain, props |-> props]
MessagesGiven ==
  {Message("a", 0, 1, TRUE, <<>>), Message("b", 1, 0, FALSE, <<>>),
   Message("a", 1, 1, FALSE, <<"user", "expiry", "content">>),
   Message("", 1, 0, FALSE, <<>>), Message("", 1, 1, FALSE, <<>>)}
Config(mount_point, retain_available, maximum_qos, max_topic_alias, denied) ==
  [mount_point |-> mount_point, retain_available |-> retain_available,
   maximum_qos |-> maximum_qos, max_topic_alias |-> max_topic_alias, denied |-> denied]
OneConfig == {Config("m/", TRUE, 2, 10, {"m/b"})}
SomeConfigs == OneConfig \cup
  {Config("", FALSE, 0, 10, {}), Config("", TRUE, 2, 0, {})}
OneMount == {"m/"}
TwoMounts == {"", "m/"}
Entry(topic, dir, local, remote) ==
  [topic |-> topic, dir |-> dir, local |-> local, remote |-> remote]
BridgeLists ==
  {<<Entry("#", "both", "m/", "r/")>>, <<Entry("#", "both", "", "r/")>>,
   <<Entry("a", "out", "m/", ""), Entry("#", "both", "m/", "r/")>>,
   <<Entry("a", "both", "", "r/"), Entry("#", "both", "", "")>>,
   <<Entry("#", "in", "", "r/"), Entry("a", "both", "", "r/b/")>>}
Named == INSTANCE PublishPacket WITH
  Candidates <- MessagesGiven, MaxGiven <- 3, Room <- 1, Configs <- OneConfig,
  Mounts <- OneMount, BridgeTopics <- BridgeLists, MaxBreaks <- 1
Mounted == INSTANCE PublishPacket WITH
  Candidates <- MessagesGiven, MaxGiven <- 2, Room <- 1, Configs <- SomeConfigs,
  Mounts <- TwoMounts, BridgeTopics <- BridgeLists, MaxBreaks <- 1

(* Three requests over two connections.                                    *)
Ask(kind, filters, qos, options) ==
  [kind |-> kind, filters |-> filters, qos |-> qos, options |-> options]
Requests ==
  {Ask("SUBSCRIBE", <<"a", "b">>, 1, 0), Ask("SUBSCRIBE", <<"a">>, 0, 4),
   Ask("SUBSCRIBE", <<"b", "deep", "a">>, 2, 0), Ask("SUBSCRIBE", <<"$share/g">>, 1, 0),
   Ask("SUBSCRIBE", <<"a#">>, 1, 0), Ask("SUBSCRIBE", <<"a">>, 1, 48),
   Ask("UNSUBSCRIBE", <<"a", "b">>, 0, 0), Ask("UNSUBSCRIBE", <<>>, 0, 0)}
ClientConfig(version, session, mount_point, denied) ==
  [protocol |-> version, clean |-> ~session, mount_point |-> mount_point, denied |-> denied]
ClientConfigs ==
  {ClientConfig(p, c, "", {"a"}) : p \in {"v31", "v5"}, c \in BOOLEAN}
  \cup {ClientConfig("v311", TRUE, "m/", {"m/b"}), ClientConfig("v311", TRUE, "", {})}
NotFilters == {"a#"}
DeepFilters == {"deep"}
NoTopic == {"$share/g"}
Asks == INSTANCE SubscribePacket WITH
  Candidates <- Requests, Invalid <- NotFilters, TooDeep <- DeepFilters, BadShare <- NoTopic,
  Configs <- ClientConfigs, MaxGiven <- 3, MaxMid <- 4, MaxBreaks <- 1

-----------------------------------------------------------------------------
(* What a step of one part leaves alone. *)
Publishing == UNCHANGED <<part, receiveVars, config, connectVars, pathVars, askVars>>
Receiving == UNCHANGED <<part, publishVars, config, connectVars, pathVars, askVars>>
Connecting ==
  UNCHANGED <<part, given, breaks, sessionVars, publishVars, receiveVars, pathVars, askVars>>
Routing == UNCHANGED <<part, sessionVars, publishVars, receiveVars, connectVars, askVars>>
Asking ==
  /\ UNCHANGED <<part, given, out_quota, inflight, queued, in_quota, publishVars, connectVars>>
  /\ UNCHANGED <<dropped, late, protocol, threaded, held, outp, looping, got>>
  /\ UNCHANGED <<waiting, quota, max_qos, line, acks, aliases, stored, subscribed, mounted>>
  /\ UNCHANGED <<received, answered, named, careless, offended>>

Init ==
  \/ part = "roomy" /\ Roomy!Init /\ ReceiveOff /\ OtherOff
  \/ part = "tight" /\ Tight!Init /\ ReceiveOff /\ OtherOff
  \/ part = "stream" /\ Stream!Init /\ PublishOff /\ OtherOff
  \/ part = "expires" /\ Expires!Init /\ PublishOff /\ OtherOff
  \/ /\ part = "connect" /\ Connect!Init
     /\ given = "off" /\ breaks = "off" /\ SessionOff /\ PublishOff /\ ReceiveOff /\ PathOff
     /\ AskOff
  \/ part = "named" /\ Named!Init /\ SessionOff /\ PublishOff /\ ReceiveOff /\ ConnectOff /\ AskOff
  \/ /\ part = "mounted" /\ Mounted!Init
     /\ SessionOff /\ PublishOff /\ ReceiveOff /\ ConnectOff /\ AskOff
  \/ /\ part = "asks" /\ Asks!Init
     /\ given = "off" /\ out_quota = "off" /\ inflight = "off" /\ queued = "off"
     /\ in_quota = "off" /\ PublishOff /\ ConnectOff
     /\ dropped = "off" /\ late = "off" /\ protocol = "off" /\ threaded = "off"
     /\ held = "off" /\ outp = "off" /\ looping = "off" /\ got = "off"
     /\ waiting = "off" /\ quota = "off" /\ max_qos = "off" /\ line = "off" /\ acks = "off"
     /\ aliases = "off" /\ stored = "off" /\ subscribed = "off" /\ mounted = "off"
     /\ received = "off" /\ answered = "off" /\ named = "off" /\ careless = "off"
     /\ offended = "off"

Next ==
  \/ part = "roomy" /\ Roomy!Next /\ Publishing
  \/ part = "tight" /\ Tight!Next /\ Publishing
  \/ part = "stream" /\ Stream!Next /\ Receiving
  \/ part = "expires" /\ Expires!Next /\ Receiving
  \/ part = "connect" /\ Connect!Next /\ Connecting
  \/ part = "named" /\ Named!Next /\ Routing
  \/ part = "mounted" /\ Mounted!Next /\ Routing
  \/ part = "asks" /\ Asks!Next /\ Asking

(* The fairness of ClientPublish, ClientReceive and PublishPacket; a       *)
(* behaviour is of one of them only, so that one condition does for all.   *)
Fairness ==
  /\ WF_vars(\/ part = "tight" /\ Tight!ClientRead /\ Publishing
             \/ part = "expires" /\ Expires!ClientRead /\ Receiving
             \/ part = "mounted" /\ Mounted!ClientRead /\ Routing)
  /\ WF_vars(\/ part = "tight" /\ Tight!BrokerRead /\ Publishing
             \/ part = "expires" /\ Expires!BrokerRead /\ Receiving
             \/ part = "mounted" /\ Mounted!BrokerRead /\ Routing)
  /\ WF_vars(\/ part = "tight" /\ Tight!BrokerWrite /\ Publishing
             \/ part = "expires" /\ Expires!MessageWrite /\ Receiving)
  /\ WF_vars(\/ part = "tight" /\ Tight!Reconnect /\ sock' # "none" /\ Publishing
             \/ part = "expires" /\ looping /\ Expires!Connect /\ Receiving
             \/ part = "mounted" /\ Mounted!Reconnect /\ Routing)
  /\ WF_vars(part = "expires" /\ Expires!Offline /\ Receiving)
  /\ WF_vars(part = "expires" /\ Expires!ClientWrite /\ Receiving)

Spec == Init /\ [][Next]_vars /\ Fairness

-----------------------------------------------------------------------------
(* ClientPublish: with room for all messages in flight, connections that   *)
(* break leave each passed on before it is acknowledged, QoS 2 once.       *)
(* ClientReceive: no message overtakes another on its way to a subscriber, *)
(* and until a connection breaks they arrive in the order they came.       *)
DeliverySpec ==
  /\ part = "roomy" => Roomy!Abstract!Init
  /\ [][/\ part = "roomy" => Roomy!Abstract!Next \/ UNCHANGED <<given, released, acked>>
        /\ part = "stream" => Stream!StaysInOrder /\ Stream!FirstInOrder
        /\ part = "expires" => Expires!StaysInOrder]_vars

(* What ClientReceiveProofs shows of a subscriber, of the two here.        *)
SubscriberInv ==
  /\ part = "stream" => Stream!ReceiveInv /\ Stream!LimitInv /\ Stream!FirstOrder
  /\ part = "expires" => Expires!ReceiveInv
SubscriberStep ==
  /\ part = "stream" => Stream!StaysInOrder /\ Stream!FirstInOrder
  /\ part = "expires" => Expires!StaysInOrder

LEMMA SubscriberKept ==
  /\ Stream!NoneComesRound /\ Expires!NoneComesRound
  /\ Init => SubscriberInv
  /\ SubscriberInv /\ [Next]_vars => SubscriberInv' /\ SubscriberStep
<1>1. Stream!NoneComesRound /\ Stream!OneConnection /\ Expires!NoneComesRound
  BY DEF Stream!NoneComesRound, Stream!OneConnection, Expires!NoneComesRound, V311, V311OrV5,
         Never, Either
<1>2. ASSUME Init PROVE SubscriberInv
  <2>1. /\ part = "stream" => Stream!Init
        /\ part = "expires" => Expires!Init
    BY <1>2 DEF Init
  <2> QED
    BY <1>1, <2>1, Stream!ReceiveInit, Stream!LimitInit, Stream!FirstOrderInit,
       Expires!ReceiveInit DEF SubscriberInv
<1>3. ASSUME SubscriberInv, [Next]_vars PROVE SubscriberInv' /\ SubscriberStep
  <2>1. part' = part
    BY <1>3 DEF Next, vars, Publishing, Receiving, Connecting, Routing, Asking
  <2>2. CASE part = "stream"
    <3>1. [Stream!Next]_(Stream!vars)
      BY <1>3, <2>2 DEF Next, vars, sessionVars, receiveVars, Stream!vars, Stream!session,
                        Stream!config, Stream!client
    <3>2. Stream!ReceiveInv /\ Stream!LimitInv /\ Stream!FirstOrder
      BY <1>3, <2>2 DEF SubscriberInv
    <3>3. (Stream!ReceiveInv /\ Stream!LimitInv /\ Stream!FirstOrder)'
      BY <1>1, <3>1, <3>2, Stream!ReceiveStep, Stream!LimitStep, Stream!FirstOrderStep
    <3>4. Stream!StaysInOrder /\ Stream!FirstInOrder
      BY <1>1, <3>1, <3>2, Stream!OrderStep, Stream!FirstOrderHolds
    <3> QED
      BY <2>1, <2>2, <3>3, <3>4 DEF SubscriberInv, SubscriberStep
  <2>3. CASE part = "expires"
    <3>1. [Expires!Next]_(Expires!vars)
      BY <1>3, <2>3 DEF Next, vars, sessionVars, receiveVars, Expires!vars, Expires!session,
                        Expires!config, Expires!client
    <3>2. Expires!ReceiveInv
      BY <1>3, <2>3 DEF SubscriberInv
    <3>3. Expires!ReceiveInv' /\ Expires!StaysInOrder
      BY <1>1, <3>1, <3>2, Expires!ReceiveStep, Expires!OrderStep
    <3> QED
      BY <2>1, <2>3, <3>3 DEF SubscriberInv, SubscriberStep
  <2>4. CASE part \notin {"stream", "expires"}
    BY <2>1, <2>4 DEF SubscriberInv, SubscriberStep
  <2> QED
    BY <2>2, <2>3, <2>4
<1> QED
  BY <1>1, <1>2, <1>3

(* From the step lemmas of ClientPublishProofs and ClientReceiveProofs,    *)
(* which hold for every number of messages, identifiers and connections:   *)
(* no other part moves what these hold.                                    *)
THEOREM PublishingKeepsItsPromise == Spec => DeliverySpec
<1> DEFINE Inv == part = "roomy" => Roomy!DeliveryInv
<1> USE DEF Roomy!AbstractStep
<1>1. Roomy!RoomForAll
  BY RoomAssumption DEF Roomy!RoomForAll, Kept
<1>2. Init => Inv /\ (part = "roomy" => Roomy!Abstract!Init)
  <2> SUFFICES ASSUME Init, part = "roomy" PROVE Roomy!DeliveryInv /\ Roomy!Abstract!Init
    OBVIOUS
  <2>1. Roomy!Init
    BY DEF Init
  <2> QED
    BY <1>1, <2>1, Roomy!DeliveryInitial
<1>3. Inv /\ [Next]_vars => Inv' /\ (part = "roomy" => Roomy!AbstractStep)
  <2> SUFFICES ASSUME Inv, [Next]_vars
               PROVE  Inv' /\ (part = "roomy" => Roomy!AbstractStep)
    OBVIOUS
  <2>1. part' = part
    BY DEF Next, vars, Publishing, Receiving, Connecting, Routing, Asking
  <2>2. part = "roomy" => [Roomy!Next]_(Roomy!vars)
    BY DEF Next, vars, publishVars, sessionVars, Roomy!vars, Roomy!client, Roomy!session
  <2>3. CASE part = "roomy"
    <3>1. Roomy!DeliveryInv' /\ Roomy!AbstractStep
      BY <1>1, <2>2, <2>3, Roomy!DeliveryInvStep
    <3> QED
      BY <2>1, <3>1
  <2> QED
    BY <2>1, <2>3
<1> HIDE DEF Inv
<1>4. Inv /\ SubscriberInv /\ [Next]_vars =>
        [/\ part = "roomy" => Roomy!Abstract!Next \/ UNCHANGED <<given, released, acked>>
         /\ part = "stream" => Stream!StaysInOrder /\ Stream!FirstInOrder
         /\ part = "expires" => Expires!StaysInOrder]_vars
  BY <1>3, SubscriberKept DEF SubscriberStep
<1>5. (Init => SubscriberInv) /\ (SubscriberInv /\ [Next]_vars => SubscriberInv')
  BY SubscriberKept
<1> QED
  BY <1>2, <1>3, <1>4, <1>5, PTL DEF Spec, DeliverySpec

(* ClientPublish: a session that is resumed neither loses nor confuses     *)
(* messages.  The publisher keeps each until on_publish was called, the    *)
(* broker holds one under an identifier, and what it acknowledged it has   *)
(* passed on or keeps.                                                     *)
MessagesKept ==
  part = "tight" =>
    /\ Tight!TypeOK
    /\ Tight!KeptUntilAcked
    /\ Tight!AckedIsSafe
    /\ Tight!OnePerIdentifier

(* From the invariants of ClientPublishProofs, which hold for every number *)
(* of messages, identifiers and connections; the three messages here have  *)
(* an identifier each.                                                     *)
THEOREM PublisherLosesNothing == Spec => []MessagesKept
<1> DEFINE Inv == part = "tight" => Tight!ToldInv
<1>1. Tight!NoneTwice /\ Tight!AnyRoom
  BY DEF Tight!NoneTwice, Tight!AnyRoom, KeptOrClean
<1>2. Init => Inv
  <2> SUFFICES ASSUME Init, part = "tight" PROVE Tight!ToldInv
    OBVIOUS
  <2>1. Tight!Init
    BY DEF Init
  <2> QED
    BY <1>1, <2>1, Tight!ToldInitial
<1>3. Inv /\ [Next]_vars => Inv'
  <2> SUFFICES ASSUME Inv, [Next]_vars, part' = "tight" PROVE Tight!ToldInv'
    OBVIOUS
  <2>1. part = "tight"
    BY DEF Next, vars, Publishing, Receiving, Connecting, Routing, Asking
  <2>2. [Tight!Next]_(Tight!vars)
    BY <2>1 DEF Next, vars, publishVars, sessionVars, Tight!vars, Tight!client, Tight!session
  <2> QED
    BY <1>1, <2>1, <2>2, Tight!ToldStep
<1>4. Inv => MessagesKept
  <2> SUFFICES ASSUME Tight!ToldInv
               PROVE  /\ Tight!TypeOK /\ Tight!KeptUntilAcked
                      /\ Tight!AckedIsSafe /\ Tight!OnePerIdentifier
    BY DEF MessagesKept
  <2>1. Tight!AckedIsSafe
    BY Tight!ToldIsSafe
  <2>2. Tight!BooksInv
    BY DEF Tight!ToldInv
  <2>3. Tight!TypeOK
    BY <1>1, <2>2, Tight!BooksAreTyped
  <2>4. Tight!KeptUntilAcked /\ Tight!OnePerIdentifier
    BY <2>2, Tight!BooksAreKept
  <2> QED
    BY <2>1, <2>3, <2>4
<1> HIDE DEF Inv
<1> QED
  BY <1>2, <1>3, <1>4, PTL DEF Spec

(* ClientReceive: who loses no connection any more, and starts the loop    *)
(* again when it has returned, receives everything.                        *)
EverythingArrives ==
  (/\ part = "expires" /\ protocol = "v311" /\ ~threaded
   /\ [](part = "expires" => ~late) /\ []<>(part = "expires" => looping))
    => \A k \in 1..2 :
         <>(part = "expires" /\ k \in Expires!Ids)
           => <>(part = "expires" /\ k \in Expires!Ids /\ (k \in dropped \/ got[k] > 0))

(* ClientPublish and PublishPacket: what the broker does not drop is       *)
(* acknowledged, unless a message is stuck that the broker cannot take.    *)
EverythingAnswered ==
  /\ \A k \in 1..3 :
       <>(part = "tight" /\ k \in Tight!Ids)
         => <>(part = "tight" /\ (k \in acked \/ Tight!Dropped(k)))
  /\ \A k \in 1..2 :
       <>(part = "mounted" /\ k \in DOMAIN given /\ given[k].m.qos = 1)
         => <>(part = "mounted" /\ (k \in answered \/ offended # {}))

(* ConnectPacket: after CONNECT and CONNACK both sides have the same idea  *)
(* of the connection, whatever the client was set to and in which order;   *)
(* the broker can read what the library sends, and who comes again is the  *)
(* same to it.  SubscribePacket: the broker subscribes what the            *)
(* application was told last; a code stands in the place of its filter,    *)
(* and no answer is missing but for what the library lets through and the  *)
(* broker does not take.                                                   *)
BothSidesAgree ==
  /\ part = "connect" =>
       /\ Connect!ContextAsSet
       /\ Connect!LimitsAgree
       /\ Connect!NeverProtocolError
       /\ Connect!DeclaredIsWritten
       /\ Connect!SameAgain
  /\ part = "asks" =>
       /\ Asks!AnsweredInPlace
       /\ Asks!HoldsWhatWasTold
       /\ Asks!OnlyForLetThrough

(* PublishPacket: aliases, mount points and the lists of a bridge change   *)
(* the topic on its way, but not what the message is filed under, who      *)
(* receives it and as what.                                                *)
FiledUnderItsTopic ==
  /\ part = "named" =>
       /\ Named!FiledUnderItsTopic
       /\ Named!ReceivedAsGiven
       /\ Named!ClosedForTheUnknown
       /\ Named!MappedBack
  /\ part = "mounted" =>
       /\ Mounted!FiledUnderItsTopic
       /\ Mounted!ReceivedAsGiven
       /\ Mounted!ClosedForTheUnknown
       /\ Mounted!MappedBack

(* ClientReceive: the broker keeps a message for a subscriber until        *)
(* on_message was called, which takes a broken connection to be called a   *)
(* second time, what comes without DUP has not come before, and as long as *)
(* there was one connection no more is in flight than the broker allows.   *)
SubscriberServed ==
  /\ part = "stream" =>
       /\ Stream!TypeOK
       /\ Stream!KeptUntilReceived
       /\ Stream!CopiesTakeBreaks
       /\ Stream!DupMarksRepeats
       /\ Stream!FirstLimit
  /\ part = "expires" =>
       /\ Expires!KeptUntilReceived
       /\ Expires!CopiesTakeBreaks
       /\ Expires!DupMarksRepeats

(* From the invariants of ClientReceiveProofs, which hold for every number *)
(* of messages and connections, for a client with and without a network    *)
(* thread, and for messages that expire.                                   *)
THEOREM SubscriberLosesNothing == Spec => []SubscriberServed
<1>1. (Init => SubscriberInv) /\ (SubscriberInv /\ [Next]_vars => SubscriberInv')
  BY SubscriberKept
<1>2. SubscriberInv => SubscriberServed
  BY SubscriberKept, Stream!Received, Stream!WithinLimit, Expires!Received
  DEF SubscriberInv, SubscriberServed
<1> QED
  BY <1>1, <1>2, PTL DEF Spec
=============================================================================
