----------------------------- MODULE Keepalive ------------------------------
(***************************************************************************)
(* Both ends of keepalive: mosquitto__check_keepalive and the pings of the *)
(* client (lib/util_mosq.c, lib/handle_ping.c), and the time the broker's  *)
(* main loop allows it (src/loop.c).  Times are in seconds, and kept as    *)
(* how long ago they were.  The broker's loop goes round once a second at  *)
(* least; the client's sleeps in select() until something happens, a       *)
(* packet is due or its timeout ends.  A signal that ends select() early   *)
(* (loop.c:143) is left out: with mosquitto_loop_start it changes nothing. *)
(***************************************************************************)
EXTENDS Naturals, Sequences, SequencesExt

CONSTANTS
  keepalive,
  timeout,         \* seconds select() may sleep: keepalive in the thread of
                   \* mosquitto_loop_start, 1 for loop_forever(-1) and bridges
  MaxDelay,        \* seconds a packet takes at most while the network works
  MaxDead          \* bound: seconds the network is down

VARIABLES
  state,           \* client: "none" (no socket), "connected" or "active"
  last_msg_in,     \* client: seconds since the last packet read
  last_msg_out,    \* client: seconds since next_msg_out - keepalive
  ping_t,          \* client: a PINGREQ is not answered
  sleep,           \* client: seconds until select() returns by itself
  checked,         \* broker: its loop went round in this second
  peer,            \* broker: it has a context for this connection
  heard,           \* broker: seconds since its context->last_msg_in
  up, down,        \* packets to the broker and to the client, [k, age];
                   \* a PUBLISH stands for one or more
  link,            \* "works" or "dead"
  dead,            \* seconds it has been dead
  late             \* it was dead during this connection

client == <<state, last_msg_in, last_msg_out, ping_t, sleep>>
broker == <<peer, heard>>
network == <<up, down, link, dead, late>>
vars == <<client, checked, broker, network>>

Packet(k) == [k |-> k, age |-> 0]

Init ==
  /\ state = "none" /\ last_msg_in = 0 /\ last_msg_out = 0 /\ ping_t = FALSE
  /\ sleep = 0 /\ checked = FALSE /\ peer = FALSE /\ heard = 0
  /\ up = <<>> /\ down = <<>> /\ link = "works" /\ dead = 0 /\ late = FALSE

-----------------------------------------------------------------------------
(* Mutant: what the last connection waited for is not forgotten. *)
ReconnectStillWaits ==
  /\ state = "none" /\ link = "works"
  /\ state' = "connected" /\ last_msg_in' = 0 /\ last_msg_out' = 0 /\ UNCHANGED ping_t
  /\ sleep' = 0 /\ up' = <<Packet("CONNECT")>> /\ down' = <<>> /\ late' = FALSE
  /\ peer' = FALSE /\ heard' = 0
  /\ UNCHANGED <<checked, link, dead>>

(* mosquitto__reconnect *)
Reconnect ==
  /\ state = "none" /\ link = "works"
  /\ state' = "connected" /\ last_msg_in' = 0 /\ last_msg_out' = 0 /\ ping_t' = FALSE
  /\ sleep' = 0 /\ up' = <<Packet("CONNECT")>> /\ down' = <<>> /\ late' = FALSE
  /\ peer' = FALSE /\ heard' = 0
  /\ UNCHANGED <<checked, link, dead>>

(* packet__write: any packet puts the next ping off.  One that a dead      *)
(* network takes no more of (EAGAIN) does not; `up' holds it all the same. *)
Send(k) == up' = Append(up, Packet(k)) /\ last_msg_out' = 0

(* Several that are sent in one second are kept as one. *)
More(q) == IF q # <<>> /\ q[Len(q)] = Packet("PUBLISH") THEN q
                                                       ELSE Append(q, Packet("PUBLISH"))

(* packet__queue: the byte for the pair of sockets ends select().          *)
Publish ==
  /\ state = "active"
  /\ up' = More(up) /\ sleep' = 0
  /\ last_msg_out' = 0 \/ (link = "dead" /\ UNCHANGED last_msg_out)
  /\ UNCHANGED <<state, last_msg_in, ping_t, checked, broker, down, link, dead, late>>

Close ==
  /\ state' = "none" /\ up' = <<>> /\ down' = <<>>
  /\ UNCHANGED <<last_msg_in, last_msg_out, ping_t>>

(* The next round of mosquitto_loop: select() sleeps until next_msg_out at *)
(* most.                                                                   *)
Select == sleep' = IF timeout < keepalive - last_msg_out'
                     THEN timeout ELSE keepalive - last_msg_out'

(* Mutant: only what is sent puts the ping off. *)
CheckKeepaliveOutOnly ==
  /\ state # "none" /\ sleep = 0
  /\ IF last_msg_out >= keepalive
       THEN IF state = "active" /\ ~ping_t
              THEN /\ Send("PINGREQ") /\ ping_t' = TRUE /\ last_msg_in' = 0
                   /\ UNCHANGED <<state, down>>
              ELSE Close
       ELSE UNCHANGED <<state, last_msg_in, last_msg_out, ping_t, up, down>>
  /\ Select
  /\ UNCHANGED <<checked, broker, link, dead, late>>

(* mosquitto__check_keepalive, in mosquitto_loop_misc *)
CheckKeepalive ==
  /\ state # "none" /\ sleep = 0
  /\ IF last_msg_out >= keepalive \/ last_msg_in >= keepalive
       THEN IF state = "active" /\ ~ping_t
              THEN /\ Send("PINGREQ") /\ ping_t' = TRUE /\ last_msg_in' = 0
                   /\ UNCHANGED <<state, down>>
              ELSE Close
       ELSE UNCHANGED <<state, last_msg_in, last_msg_out, ping_t, up, down>>
  /\ Select
  /\ UNCHANGED <<checked, broker, link, dead, late>>

(* Packets of which one stands for several may be read one by one.         *)
Rest(q) == IF Head(q).k = "PUBLISH" THEN {q, Tail(q)} ELSE {Tail(q)}

(* packet__read of the client. *)
ClientRead ==
  /\ state # "none" /\ link = "works" /\ down # <<>>
  /\ down' \in Rest(down) /\ last_msg_in' = 0 /\ sleep' = 0
  /\ CASE Head(down).k = "CONNACK"  -> state' = "active" /\ UNCHANGED ping_t
       [] Head(down).k = "PINGRESP" -> ping_t' = FALSE /\ UNCHANGED state
       [] OTHER                     -> UNCHANGED <<state, ping_t>>
  /\ UNCHANGED <<last_msg_out, checked, broker, up, link, dead, late>>

-----------------------------------------------------------------------------
(* packet__read of the broker. *)
Answer == [CONNECT |-> <<Packet("CONNACK")>>, PINGREQ |-> <<Packet("PINGRESP")>>,
           PUBLISH |-> <<>>]
BrokerRead ==
  /\ link = "works" /\ up # <<>> /\ (peer \/ Head(up).k = "CONNECT")
  /\ up' \in Rest(up) /\ heard' = 0 /\ peer' = TRUE
  /\ down' = down \o Answer[Head(up).k]
  /\ UNCHANGED <<client, checked, link, dead, late>>

(* A packet for a connection the broker has closed.                        *)
Refused ==
  /\ link = "works" /\ up # <<>> /\ ~peer /\ Head(up).k # "CONNECT"
  /\ Close
  /\ UNCHANGED <<sleep, checked, broker, link, dead, late>>

BrokerPublish ==
  /\ peer /\ state # "none"
  /\ down' = More(down)
  /\ UNCHANGED <<client, checked, broker, up, link, dead, late>>

(* mosquitto_main_loop: now - last_msg_in <= keepalive*3/2, or             *)
(* do_disconnect, which a client on a network that works notices.          *)
BrokerLoop ==
  /\ ~checked /\ checked' = TRUE
  /\ IF peer /\ heard > (keepalive * 3) \div 2
       THEN /\ peer' = FALSE /\ up' = <<>> /\ down' = <<>>
            /\ state' = IF link = "works" THEN "none" ELSE state
       ELSE UNCHANGED <<peer, up, down, state>>
  /\ UNCHANGED <<heard, last_msg_in, last_msg_out, ping_t, sleep, link, dead, late>>

-----------------------------------------------------------------------------
Die ==
  /\ link = "works" /\ state # "none" /\ link' = "dead" /\ dead' = 0 /\ late' = TRUE
  /\ UNCHANGED <<client, checked, broker, up, down>>

Repair ==
  /\ link = "dead" /\ link' = "works"
  /\ UNCHANGED <<client, checked, broker, up, down, dead, late>>

Older(q) == [i \in DOMAIN q |-> [q[i] EXCEPT !.age = IF link = "works" THEN @ + 1 ELSE @]]
Tick ==
  /\ checked /\ (state # "none" => sleep > 0)
  /\ link = "works" => \A p \in ToSet(up) \cup ToSet(down) : p.age < MaxDelay
  /\ link = "dead" => dead < MaxDead
  /\ checked' = FALSE
  /\ IF state = "none"
       THEN UNCHANGED <<last_msg_in, last_msg_out, sleep>>
       ELSE /\ last_msg_in' = last_msg_in + 1 /\ last_msg_out' = last_msg_out + 1
            /\ sleep' = sleep - 1
  /\ heard' = IF peer THEN heard + 1 ELSE 0
  /\ up' = Older(up) /\ down' = Older(down)
  /\ dead' = IF link = "dead" THEN dead + 1 ELSE dead
  /\ UNCHANGED <<state, ping_t, peer, link, late>>

Next ==
  \/ Reconnect \/ Publish \/ CheckKeepalive \/ ClientRead
  \/ BrokerRead \/ Refused \/ BrokerPublish \/ BrokerLoop
  \/ Die \/ Repair \/ Tick

Spec == Init /\ [][Next]_vars

-----------------------------------------------------------------------------
(* As long as the network works neither end gives the other up, although   *)
(* the client pings after a whole keepalive of silence, the broker allows  *)
(* half as much again, rounded down, and the client may be pinging for     *)
(* what it did not receive or did not send.                                *)
LiveClientKept ==
  [][state # "none" /\ state' = "none" => late]_vars

(* A network that died is noticed by either end.  The client looks at its  *)
(* counters only when select() returns: it may do so just before a         *)
(* keepalive is over, sleep once more before it pings, and do so again     *)
(* before it gives up, whatever it goes on sending.                        *)
MaxSleep == IF timeout < keepalive THEN timeout ELSE keepalive

DeadPeerDetected ==
  link = "dead" =>
    /\ state # "none" => dead <= 2 * (keepalive - 1 + MaxSleep)
    /\ peer => dead <= (keepalive * 3) \div 2 + 1
=============================================================================
