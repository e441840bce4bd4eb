---------------------------- MODULE ClientThread ----------------------------
(***************************************************************************)
(* libmosquitto's network thread (mosquitto_loop_start: loop.c,            *)
(* thread_mosq.c) beside an application that publishes and disconnects     *)
(* from a thread of its own (packet_mosq.c, connect.c).                    *)
(*                                                                         *)
(* The network thread asks for writability only if a packet is queued when *)
(* it goes into select(); a packet that is queued later wakes it up by a   *)
(* byte through a pair of sockets.  Messages are published with QoS 0:     *)
(* message k is the k-th that was given to mosquitto_publish.              *)
(***************************************************************************)
EXTENDS Naturals, Sequences

CONSTANTS
  MaxGiven,     \* bound: calls of mosquitto_publish
  MaxConns,     \* bound: connections
  MaxPair       \* bytes the pair of sockets holds

VARIABLES
  state,      \* mosq->state
  sock,       \* the connection, 0: INVALID_SOCKET
  outq,       \* current_out_packet and what is queued behind it
  pair,       \* bytes in the pair of sockets
  loop,       \* where the network thread is
  ready,      \* what select() reported, or was asked: [read, pair, write]
  app,        \* where the application is: "idle", "append" or "wake"
  pkt,        \* the packet it is about to queue
  given,      \* messages given so far
  asked,      \* mosquitto_disconnect was called
  net,        \* per connection: what was written to it
  peer        \* the broker's end: "silent", "connack" or "closed"

appVars == <<app, pkt, given, asked>>
vars == <<state, sock, outq, pair, loop, ready, appVars, net, peer>>

CONNECT == 0
DISCONNECT == MaxGiven + 1

None == [read |-> FALSE, pair |-> FALSE, write |-> FALSE]

(* mosquitto_connect, and then mosquitto_loop_start. *)
Init ==
  /\ state = "connected" /\ sock = 1 /\ outq = <<>> /\ pair = 0
  /\ loop = "check" /\ ready = None
  /\ app = "idle" /\ pkt = 0 /\ given = 0 /\ asked = FALSE
  /\ net = << <<CONNECT>> >>
  /\ peer = "silent"

-----------------------------------------------------------------------------
(* The application. *)

threadVars == <<loop, ready, net, peer, sock>>

(* send__publish looks at the socket first; without one the message is not *)
(* taken.                                                                  *)
Publish ==
  /\ app = "idle" /\ given < MaxGiven /\ ~asked /\ sock # 0
  /\ given' = given + 1 /\ pkt' = given + 1 /\ app' = "append"
  /\ UNCHANGED <<state, outq, pair, asked, threadVars>>

(* mosquitto_disconnect *)
Disconnect ==
  /\ app = "idle" /\ ~asked
  /\ asked' = TRUE
  /\ state' = "disconnected"
  /\ IF sock = 0 THEN UNCHANGED <<app, pkt>>
                 ELSE app' = "append" /\ pkt' = DISCONNECT
  /\ UNCHANGED <<outq, pair, given, threadVars>>

(* packet__queue *)
QueuePacket ==
  /\ app = "append"
  /\ outq' = Append(outq, pkt)
  /\ app' = "wake"
  /\ UNCHANGED <<state, pair, pkt, given, asked, threadVars>>

(* The sockets do not block: a full pair takes no further byte. *)
WakeUp ==
  /\ app = "wake"
  /\ pair' = IF pair < MaxPair THEN pair + 1 ELSE pair
  /\ app' = "idle"
  /\ UNCHANGED <<state, outq, pkt, given, asked, threadVars>>

(* Mutant: the byte is written before the packet is queued.                *)
ApplicationWakesFirst ==
  \/ Publish \/ Disconnect
  \/ /\ app = "append" /\ app' = "wake"
     /\ pair' = IF pair < MaxPair THEN pair + 1 ELSE pair
     /\ UNCHANGED <<state, outq, pkt, given, asked, threadVars>>
  \/ /\ app = "wake" /\ app' = "idle"
     /\ outq' = Append(outq, pkt)
     /\ UNCHANGED <<state, pair, pkt, given, asked, threadVars>>

Application == Publish \/ Disconnect \/ QueuePacket \/ WakeUp

-----------------------------------------------------------------------------
(* The network thread: one call of mosquitto_loop after another. *)

Go(where) == loop' = where
KeepConn == UNCHANGED <<sock, net, peer>>

(* Which sockets to wait for. *)
Check ==
  /\ loop = "check"
  /\ IF sock = 0 THEN Go("failed") /\ UNCHANGED ready
                 ELSE /\ ready' = [None EXCEPT !.write = outq # <<>>]
                      /\ Go("select")
  /\ KeepConn /\ UNCHANGED <<state, outq, pair, appVars>>

(* Mutant: the byte in the pair is not waited for. *)
SelectNoPair ==
  /\ loop = "select"
  /\ LET r == [read |-> peer # "silent", pair |-> FALSE, write |-> ready.write]
     IN r # None /\ ready' = r
  /\ Go("read")
  /\ KeepConn /\ UNCHANGED <<state, outq, pair, appVars>>

(* select() returns with what is ready; the time-out, after the keepalive  *)
(* interval, is left out: nothing here may depend on it.                   *)
Select ==
  /\ loop = "select"
  /\ LET r == [read |-> peer # "silent", pair |-> pair > 0, write |-> ready.write]
     IN r # None /\ ready' = r
  /\ Go("read")
  /\ KeepConn /\ UNCHANGED <<state, outq, pair, appVars>>

(* mosquitto_loop_read: the end of the connection, or CONNACK, which makes *)
(* the state active whatever it is (it is never mosq_cs_disconnecting).    *)
Read ==
  /\ loop = "read"
  /\ IF ready.read /\ peer = "closed"
       THEN sock' = 0 /\ Go("check") /\ UNCHANGED <<state, peer>>
       ELSE /\ IF ready.read /\ peer = "connack"
                 THEN state' = "active" /\ peer' = "silent"
                 ELSE UNCHANGED <<state, peer>>
            /\ Go("pair") /\ UNCHANGED sock
  /\ UNCHANGED <<outq, pair, ready, net, appVars>>

(* One byte is taken, and a write is tried for it. *)
ReadPair ==
  /\ loop = "pair"
  /\ pair' = IF ready.pair THEN pair - 1 ELSE pair
  /\ ready' = [ready EXCEPT !.write = @ \/ ready.pair]
  /\ Go("write")
  /\ KeepConn /\ UNCHANGED <<state, outq, appVars>>

(* packet__write: packets go out until the socket takes no more, or up to  *)
(* a DISCONNECT, which closes it.                                          *)
FirstDisconnect ==
  CHOOSE i \in 0..Len(outq) :
    IF \E j \in 1..Len(outq) : outq[j] = DISCONNECT
      THEN i > 0 /\ outq[i] = DISCONNECT /\ \A j \in 1..i - 1 : outq[j] # DISCONNECT
      ELSE i = 0

(* Mutant: the packet written last is looked at again.                     *)
WritePacketsKeepsLast(n) ==
  /\ net' = [net EXCEPT ![sock] = @ \o SubSeq(outq, 1, n)]
  /\ outq' = SubSeq(outq, IF n = 0 THEN 1 ELSE n, Len(outq))
  /\ IF n = FirstDisconnect /\ n > 0
       THEN state' = "disconnected" /\ sock' = 0
       ELSE UNCHANGED <<state, sock>>

WritePackets(n) ==
  /\ net' = [net EXCEPT ![sock] = @ \o SubSeq(outq, 1, n)]
  /\ outq' = SubSeq(outq, n + 1, Len(outq))
  /\ IF n = FirstDisconnect /\ n > 0
       THEN state' = "disconnected" /\ sock' = 0
       ELSE UNCHANGED <<state, sock>>

Write ==
  /\ loop = "write"
  /\ IF ready.write /\ state # "connect_pending"
       THEN \/ peer # "closed" /\
               \E n \in 0..(IF FirstDisconnect > 0 THEN FirstDisconnect ELSE Len(outq)) :
                 WritePackets(n)
            \/ peer = "closed" /\ outq # <<>> /\ sock' = 0 /\ UNCHANGED <<net, outq, state>>
            \/ peer = "closed" /\ outq = <<>> /\ UNCHANGED <<sock, net, outq, state>>
       ELSE UNCHANGED <<sock, net, outq, state>>
  /\ Go("check") /\ ready' = None
  /\ UNCHANGED <<pair, peer, appVars>>

(* mosquitto_loop failed: is that the end? *)
AfterFailure ==
  /\ loop = "failed"
  /\ Go(IF state \in {"disconnecting", "disconnected"} THEN "done" ELSE "sleep")
  /\ KeepConn /\ UNCHANGED <<state, outq, pair, ready, appVars>>

AfterSleep ==
  /\ loop = "sleep"
  /\ Go(IF state \in {"disconnecting", "disconnected"} THEN "done" ELSE "reset")
  /\ KeepConn /\ UNCHANGED <<state, outq, pair, ready, appVars>>

(* mosquitto__reconnect: packet__cleanup_all *)
CleanupAll ==
  /\ loop = "reset"
  /\ outq' = <<>>
  /\ Go("connect")
  /\ KeepConn /\ UNCHANGED <<state, pair, ready, appVars>>

(* net__socket_connect: the socket is there before CONNECT is queued. *)
SocketConnect ==
  /\ loop = "connect"
  /\ \/ /\ Len(net) < MaxConns
        /\ net' = Append(net, <<>>) /\ sock' = Len(net) + 1 /\ peer' = "silent"
        /\ Go("connected") /\ UNCHANGED state
     \/ /\ state' = "connect_pending" /\ Go("failed")
        /\ KeepConn
  /\ UNCHANGED <<outq, pair, ready, appVars>>

SetConnected ==
  /\ loop = "connected"
  /\ state' = "connected"
  /\ Go("send_connect")
  /\ KeepConn /\ UNCHANGED <<outq, pair, ready, appVars>>

SendConnect ==
  /\ loop = "send_connect"
  /\ outq' = Append(outq, CONNECT)
  /\ pair' = IF pair < MaxPair THEN pair + 1 ELSE pair
  /\ Go("check")
  /\ KeepConn /\ UNCHANGED <<state, ready, appVars>>

NetworkThread ==
  \/ Check \/ Select \/ Read \/ ReadPair \/ Write
  \/ AfterFailure \/ AfterSleep \/ CleanupAll \/ SocketConnect
  \/ SetConnected \/ SendConnect

(* The broker answers a CONNECT, and a connection may end at any time. *)
Peer ==
  /\ sock # 0 /\ peer # "closed"
  /\ \/ /\ peer = "silent" /\ state # "active" /\ net[sock] # <<>>
        /\ net[sock][1] = CONNECT /\ peer' = "connack"
     \/ peer' = "closed"
  /\ UNCHANGED <<state, sock, outq, pair, loop, ready, appVars, net>>

Next == Application \/ NetworkThread \/ Peer

(* The threads run, but when select() waits; a socket that is written to   *)
(* takes something now and then; not every attempt to connect fails.       *)
Fairness ==
  /\ WF_vars(QueuePacket \/ WakeUp)
  /\ WF_vars(NetworkThread)
  /\ SF_vars(Write /\ (outq # <<>> => outq' # outq \/ sock' = 0))
  /\ SF_vars(SocketConnect /\ sock' # 0)

Spec == Init /\ [][Next]_vars /\ Fairness

-----------------------------------------------------------------------------
(* The network thread never waits in select() without being able to write  *)
(* while a packet is queued, but if the application is about to wake it.   *)
NoPacketAsleep ==
  loop = "select" /\ outq # <<>> /\ ~ready.write => pair > 0 \/ app = "wake"

(* What one connection carries was given in that order, and nothing is     *)
(* sent twice, on one connection or on two.                                *)
Wire == {w \in (1..MaxConns) \X (1..MaxGiven + 3) :
           w[1] <= Len(net) /\ w[2] <= Len(net[w[1]]) /\ net[w[1]][w[2]] # CONNECT}
SentOnceInOrder ==
  \A a, b \in Wire :
    /\ a[1] < b[1] \/ (a[1] = b[1] /\ a[2] < b[2]) => net[a[1]][a[2]] < net[b[1]][b[2]]
    /\ a # b => net[a[1]][a[2]] # net[b[1]][b[2]]

(* Once mosquitto_disconnect has set the state, the network thread ends, so *)
(* that mosquitto_loop_stop returns, whatever it is doing and however the  *)
(* connection fares - unless something sets the state again, which         *)
(* mosquitto__reconnect and handle__connack do without looking.            *)
DisconnectEndsThread == <>[](state = "disconnected") => <>(loop = "done")
=============================================================================
