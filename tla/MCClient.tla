------------------------------ MODULE MCClient ------------------------------
(***************************************************************************)
(* The client library, and the bridge that uses it, on small instances.    *)
(* They share no state, so that each behaviour moves one of them: `part'   *)
(* says which, the variables of the others hold "off".                     *)
(***************************************************************************)
EXTENDS Integers, Keepalive

CONSTANTS
  MaxGiven, MaxConns, MaxPair     \* of ClientThread

(* A PINGREQ and its answer take less than the keepalive interval. *)
ASSUME ClientAssumption ==
  /\ MaxGiven \in Nat /\ MaxPair \in Nat \ {0}
  /\ keepalive \in Nat \ {0} /\ timeout \in Nat \ {0} /\ MaxDelay \in Nat /\ 2 * MaxDelay < keepalive

VARIABLES
  part, rc,
  given, sock, outq, pair, loop, ready, app, pkt, asked, net,
  sub, topic, s, t, result,
  text, cut, i,
  list, command, packet, declared, pos, proplen, read,
  start_type, round_robin, immediate, conn, at, cur_address, restart_t,
  restart_timeout, primary_retry, primary_retry_sock, lazy_reconnect, msgs, reach, changes

threadVars == <<given, sock, outq, pair, loop, ready, app, pkt, asked, net>>
keepaliveVars ==
  <<up, down, last_msg_in, last_msg_out, ping_t, sleep, checked, heard, link, dead, late>>
matchVars == <<sub, topic, s, t, result>>
textVars == <<text, cut, i>>
propertyVars == <<list, command, packet, declared, pos, proplen, read>>
bridgeVars == <<start_type, round_robin, immediate, conn, at, cur_address, restart_t,
  restart_timeout, primary_retry, primary_retry_sock, lazy_reconnect, msgs, reach, changes>>
clientVars == <<part, state, peer, rc, threadVars, keepaliveVars, matchVars, textVars,
  propertyVars, bridgeVars>>

(* The variables two components have: off but for those that are moved. *)
StateOff == state = "off" /\ peer = "off"
RcOff == rc = "off"
ThreadOff ==
  /\ given = "off" /\ sock = "off" /\ outq = "off" /\ pair = "off" /\ loop = "off" /\ ready = "off"
  /\ app = "off" /\ pkt = "off" /\ asked = "off" /\ net = "off"
KeepaliveOff ==
  /\ up = "off" /\ down = "off" /\ last_msg_in = "off" /\ last_msg_out = "off"
  /\ ping_t = "off" /\ sleep = "off" /\ checked = "off" /\ heard = "off" /\ link = "off"
  /\ dead = "off" /\ late = "off"
MatchOff == sub = "off" /\ topic = "off" /\ s = "off" /\ t = "off" /\ result = "off"
TextOff == text = "off" /\ cut = "off" /\ i = "off"
PropertyOff ==
  /\ list = "off" /\ command = "off" /\ packet = "off" /\ declared = "off" /\ pos = "off"
  /\ proplen = "off" /\ read = "off"
BridgeOff ==
  /\ start_type = "off" /\ round_robin = "off" /\ immediate = "off" /\ conn = "off"
  /\ at = "off" /\ cur_address = "off" /\ restart_t = "off" /\ restart_timeout = "off"
  /\ primary_retry = "off" /\ primary_retry_sock = "off" /\ lazy_reconnect = "off"
  /\ msgs = "off" /\ reach = [a \in 0..1 |-> "off"] /\ changes = "off"

-----------------------------------------------------------------------------
Thread == INSTANCE ClientThread

SeqsUpTo(S, n) == UNION {[1..k -> S] : k \in 0..n}
Filters == SeqsUpTo({"a", "/", "+", "#"}, 4) \cup SeqsUpTo({"a", "$", "/", "#"}, 3)
TopicNames == SeqsUpTo({"a", "/", "+"}, 4) \cup SeqsUpTo({"a", "$", "/"}, 3)
Matching == INSTANCE TopicMatch WITH
  Subs <- Filters, Topics <- TopicNames, TOPIC_HIERARCHY_LIMIT <- 2

(* Both sides of every boundary between encodings, and of what is refused. *)
Characters ==
  {0, 31, 32, 127, 159, 160, 2047, 2048, 55295, 55296, 57343, 57344, 64975, 64976,
   65007, 65008, 65533, 65534, 65535, 65536, 1114109, 1114110, 1114111, 1114112}
Utf8Text == INSTANCE Utf8 WITH CodePoints <- Characters, MaxChars <- 2

Given(k, n, x) == [kind |-> k, id |-> n, v |-> x]
PropertiesGiven ==
  {Given("byte", 1, 1), Given("byte", 37, 2), Given("int16", 35, 258), Given("int16", 33, 0),
   Given("int32", 2, 65538), Given("varint", 11, 200), Given("varint", 11, 16384),
   Given("string", 3, <<97, 98>>), Given("string", 31, <<>>), Given("binary", 9, <<0, 255>>),
   Given("pair", 38, <<<<97>>, <<98>>>>), Given("pair", 38, <<<<>>, <<98>>>>),
   Given("int16", 1, 1)}
SomeCommands == {"PUBLISH", "CONNACK"}
Properties == INSTANCE PropertyIO WITH
  Candidates <- PropertiesGiven, MaxProps <- 2, CommandsUsed <- SomeCommands

(* Two addresses, whose state changes twice at most.                       *)
BothTypes == {"automatic", "lazy"}
Drawn == {0, 1, -1}
Bridges == INSTANCE Bridge WITH
  address_count <- 2, StartTypes <- BothTypes, backoff_base <- 2, backoff_cap <- 4,
  Randoms <- Drawn, PrimaryRetry <- 2, threshold <- 1, MaxMsgs <- 1, MaxChanges <- 2

-----------------------------------------------------------------------------
(* What a step of one component leaves alone. *)
Threading == UNCHANGED <<part, rc, keepaliveVars, matchVars, textVars, propertyVars, bridgeVars>>
Pinging == UNCHANGED <<part, rc, threadVars, matchVars, textVars, propertyVars, bridgeVars>>
Comparing ==
  UNCHANGED <<part, state, peer, rc, threadVars, keepaliveVars, textVars, propertyVars, bridgeVars>>
Validating ==
  UNCHANGED <<part, state, peer, threadVars, keepaliveVars, matchVars, propertyVars, bridgeVars>>
Encoding ==
  UNCHANGED <<part, state, peer, threadVars, keepaliveVars, matchVars, textVars, bridgeVars>>
Bridging ==
  UNCHANGED <<part, state, peer, rc, threadVars, keepaliveVars, matchVars, textVars, propertyVars>>

ClientInit ==
  \/ /\ part = "thread" /\ Thread!Init
     /\ RcOff /\ KeepaliveOff /\ MatchOff /\ TextOff /\ PropertyOff /\ BridgeOff
  \/ /\ part = "pings" /\ Init
     /\ RcOff /\ ThreadOff /\ MatchOff /\ TextOff /\ PropertyOff /\ BridgeOff
  \/ /\ part = "match" /\ Matching!Init
     /\ StateOff /\ RcOff /\ ThreadOff /\ KeepaliveOff /\ TextOff /\ PropertyOff /\ BridgeOff
  \/ /\ part = "text" /\ Utf8Text!Init
     /\ StateOff /\ ThreadOff /\ KeepaliveOff /\ MatchOff /\ PropertyOff /\ BridgeOff
  \/ /\ part = "properties" /\ Properties!Init
     /\ StateOff /\ ThreadOff /\ KeepaliveOff /\ MatchOff /\ TextOff /\ BridgeOff
  \/ /\ part = "bridge" /\ Bridges!Init
     /\ StateOff /\ RcOff /\ ThreadOff /\ KeepaliveOff /\ MatchOff /\ TextOff /\ PropertyOff

ClientNext ==
  \/ part = "thread" /\ Thread!Next /\ Threading
  \/ part = "pings" /\ Next /\ Pinging
  \/ part = "match" /\ Matching!Next /\ Comparing
  \/ part = "text" /\ Utf8Text!Next /\ Validating
  \/ part = "properties" /\ Properties!Next /\ Encoding
  \/ part = "bridge" /\ Bridges!Next /\ Bridging

(* The fairness of ClientThread and Bridge; a behaviour is of one of them  *)
(* only, so that one condition does for both.                              *)
Fairness ==
  /\ WF_clientVars(\/ part = "thread" /\ (Thread!QueuePacket \/ Thread!WakeUp) /\ Threading
                   \/ part = "bridge" /\ Bridges!Loop /\ Bridging)
  /\ WF_clientVars(\/ part = "thread" /\ Thread!NetworkThread /\ Threading
                   \/ part = "bridge" /\ Bridges!Network /\ Bridging)
  /\ WF_clientVars(part = "bridge" /\ Bridges!Tick /\ Bridging)
  /\ SF_clientVars(/\ part = "thread" /\ Thread!Write /\ Threading
                   /\ outq # <<>> => outq' # outq \/ sock' = 0)
  /\ SF_clientVars(part = "thread" /\ Thread!SocketConnect /\ sock' # 0 /\ Threading)

ClientSpec == ClientInit /\ [][ClientNext]_clientVars /\ Fairness

-----------------------------------------------------------------------------
(* ClientThread: select() does not sleep over a packet to send, and        *)
(* packets are sent once, in the order they were given.                    *)
SentInTime ==
  part = "thread" => Thread!NoPacketAsleep /\ Thread!SentOnceInOrder

(* ClientThread: mosquitto_disconnect ends the network thread.             *)
DisconnectEndsThread == part = "thread" => Thread!DisconnectEndsThread

(* Keepalive: on a network that works nobody is given up, one that does    *)
(* not is found out in time.                                               *)
OnlyTheDeadGivenUp ==
  /\ [][part = "pings" /\ state # "none" /\ state' = "none" => late]_clientVars
  /\ [](part = "pings" => DeadPeerDetected)

(* TopicMatch, Utf8 and PropertyIO: what the library computes byte by byte *)
(* is what MQTT defines by levels, by characters and by lists; what it     *)
(* writes it reads again, and the lengths it counts are those it writes.   *)
ComputedAsDefined ==
  /\ part = "match" => Matching!MatchesAsLevels /\ Matching!WildcardTopicMatchesNothing
  /\ part = "text" => Utf8Text!ValidatesUtf8
  /\ part = "properties" =>
       /\ Properties!ReadsBack
       /\ Properties!CountsBytesRead
       /\ Properties!LengthIsWritten
       /\ Properties!OneOfEach

(* Bridge: an address that works is tried, and it returns to the first.    *)
BridgeFindsItsWay ==
  /\ part = "bridge" => Bridges!AddressesInTurn
  /\ part = "bridge" => Bridges!PrimaryInTheEnd
=============================================================================
