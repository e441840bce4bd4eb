---------------------------- MODULE StationProofs ---------------------------
(***************************************************************************)
(* The listener and mqtt_send, for any number of handles a process may     *)
(* have and any number of messages: what the receivers leave behind, how   *)
(* often the port is open; that subscribers get messages in order and none *)
(* twice, and that mqtt_send leaves no connection open.                    *)
(***************************************************************************)
EXTENDS Listener, MqttSend, SequenceTheorems, TLAPS

-----------------------------------------------------------------------------
(* Listener. *)
(* A receiver has a handle, good or bad, exactly while it reads, and only  *)
(* GPIO and Windows have a state of their own in which they wait.          *)
ReadingInv ==
  /\ fd # "none" <=> pc \in {"reading", "waiting", "readfile"}
  /\ pc = "waiting" => receiver = "gpio"
  /\ pc = "readfile" => receiver = "win"
  /\ fd = "unset" => receiver = "ftdi"

(* While the port is read there is room for one more handle to be left     *)
(* behind; where a port has one handle only, it is open or left behind;    *)
(* without forwarding read.cpp leaves none behind before SIGINT.           *)
HandlesInv ==
  /\ ~Exclusive /\ pc \in {"reading", "waiting"} => held < MaxHandles
  /\ Exclusive => held <= 1
  /\ Exclusive /\ fd = "valid" => held = 0
  /\ receiver = "serial" /\ ~forward /\ keepRunning => held = 0

PortInv == TypeOK /\ ReadingInv /\ HandlesInv

LEMMA InitPortInv == Init => PortInv
<1> SUFFICES ASSUME Init PROVE PortInv
  OBVIOUS
<1>1. TypeOK
  <2>1. held \in 0..MaxHandles
    BY MaxHandlesAssumption DEF Init
  <2>2. fd \in Handles /\ fd # "valid"
    BY DEF Init, Handles
  <2> QED
    BY <2>1, <2>2, Zenon DEF Init, TypeOK
<1>2. ReadingInv
  BY DEF Init, ReadingInv
<1>3. HandlesInv
  BY MaxHandlesAssumption DEF Init, HandlesInv
<1> QED
  BY <1>1, <1>2, <1>3 DEF PortInv

LEMMA SurroundingsKeepPortInv == PortInv /\ Surroundings => PortInv'
<1> SUFFICES ASSUME PortInv, Surroundings PROVE PortInv'
  OBVIOUS
<1>1. CASE Plug \/ Destination \/ Arrive
  <2>1. /\ UNCHANGED <<keepRunning, receiver, forward, root, pc, fd, held>>
        /\ plugged' \in BOOLEAN /\ dstok' \in BOOLEAN /\ pending' \in BOOLEAN
        /\ plugged => plugged'
    BY <1>1
    DEF Plug, Destination, Arrive, options, port, PortInv, TypeOK
  <2> QED
    BY <2>1 DEF PortInv, TypeOK, ReadingInv, HandlesInv, Exclusive
<1>2. CASE intHandler
  BY <1>2 DEF intHandler, options, port, PortInv, TypeOK, ReadingInv,
     HandlesInv, Exclusive
<1>3. CASE Unplug
  <2>1. /\ UNCHANGED <<keepRunning, receiver, forward, root, pc, dstok>>
        /\ plugged' = FALSE /\ pending' = FALSE
        /\ fd' = IF fd = "valid" THEN "stale" ELSE fd
        /\ held' = IF Exclusive THEN 0 ELSE held
    BY <1>3 DEF Unplug, options
  <2>2. Exclusive' = Exclusive
    BY <2>1 DEF Exclusive
  <2>3. TypeOK'
    <3>1. held' \in 0..MaxHandles
      BY <2>1, MaxHandlesAssumption DEF PortInv, TypeOK
    <3>2. fd' \in Handles /\ fd' # "valid"
      BY <2>1 DEF PortInv, TypeOK, Handles
    <3>3. TypeOK
      BY DEF PortInv
    <3> QED
      BY <2>1, <3>1, <3>2, <3>3 DEF TypeOK
  <2>4. ReadingInv'
    BY <2>1 DEF PortInv, ReadingInv
  <2>5. HandlesInv'
    BY <2>1, <2>2, MaxHandlesAssumption DEF PortInv, HandlesInv
  <2> QED
    BY <2>3, <2>4, <2>5 DEF PortInv
<1> QED
  BY <1>1, <1>2, <1>3 DEF Surroundings

LEMMA ProgramKeepsPortInv == PortInv /\ Program => PortInv'
<1> SUFFICES ASSUME PortInv, Program PROVE PortInv'
  OBVIOUS
<1> USE MaxHandlesAssumption
    DEF PortInv, TypeOK, ReadingInv, HandlesInv, Handles, Receivers, Exclusive,
        options, port, CanOpen, Return, ReturnOpen
<1>1. CASE startListen \/ Sleep
  BY <1>1 DEF startListen, Sleep
<1>2. CASE Serial
  <2>1. CASE SerialOpen
    BY <2>1 DEF SerialOpen
  <2>2. CASE SerialRead
    BY <2>2 DEF SerialRead
  <2>3. CASE SerialStop
    BY <2>3 DEF SerialStop
  <2> QED
    BY <1>2, <2>1, <2>2, <2>3 DEF Serial
<1>3. CASE Gpio
  <2>1. CASE GpioOpen
    BY <2>1 DEF GpioOpen
  <2>2. CASE GpioLoop \/ GpioRead \/ GpioStop
    BY <2>2 DEF GpioLoop, GpioRead, GpioStop
  <2>3. CASE GpioReadFails
    BY <2>3 DEF GpioReadFails
  <2> QED
    BY <1>3, <2>1, <2>2, <2>3 DEF Gpio
<1>4. CASE Ftdi
  <2>1. CASE FtdiOpen
    BY <2>1 DEF FtdiOpen
  <2>2. CASE FtdiRead \/ FtdiStop
    BY <2>2 DEF FtdiRead, FtdiStop
  <2>3. CASE FtdiReadFails
    BY <2>3 DEF FtdiReadFails
  <2> QED
    BY <1>4, <2>1, <2>2, <2>3 DEF Ftdi
<1>5. CASE Win
  <2>1. CASE WinOpen
    BY <2>1 DEF WinOpen
  <2>2. CASE WinWait
    BY <2>2 DEF WinWait, Again
  <2>3. CASE WinReadFile
    BY <2>3 DEF WinReadFile, Again
  <2> QED
    BY <1>5, <2>1, <2>2, <2>3 DEF Win
<1> QED
  BY <1>1, <1>2, <1>3, <1>4, <1>5 DEF Program

LEMMA PortInvariant == Spec => []PortInv
<1>1. PortInv /\ UNCHANGED vars => PortInv'
  BY DEF PortInv, TypeOK, ReadingInv, HandlesInv, Exclusive, vars, options, port
<1>2. PortInv /\ [Next]_vars => PortInv'
  BY <1>1, SurroundingsKeepPortInv, ProgramKeepsPortInv DEF Next
<1> QED
  BY <1>2, InitPortInv, PTL DEF Spec

(* Types of listener and receivers: however often a receiver is retried,   *)
(* it leaves no more handles behind than a process may have, and it never  *)
(* takes a handle of a port that is not there for a good one.              *)
THEOREM ListenerTypeCorrect == Spec => []TypeOK
BY PortInvariant, PTL DEF PortInv

(* Before SIGINT the port is open once at most, left behind or in use,     *)
(* with FTDI, on Windows, and on Linux without a port to forward to.       *)
THEOREM PortOpenOnce == Spec => []OpenOnce
<1>1. PortInv => OpenOnce
  BY DEF PortInv, TypeOK, ReadingInv, HandlesInv, OpenOnce, Exclusive, Receivers
<1> QED
  BY <1>1, PortInvariant, PTL

-----------------------------------------------------------------------------
(* MqttSend. *)
(* The message a connection still carries, 0 if there is none. *)
Says(conn) ==
  IF conn.inbox = <<>> THEN CONNECT ELSE conn.inbox[Len(conn.inbox)]

(* What is in an inbox: the CONNECT until the broker has read it, then at  *)
(* most one message.                                                       *)
InboxInv(conn) ==
  /\ conn.state = "new" => /\ Len(conn.inbox) \in 1..2
                           /\ conn.inbox[1] = CONNECT
                           /\ Len(conn.inbox) = 2 => conn.inbox[2] # CONNECT
  /\ conn.state = "active" => /\ Len(conn.inbox) \in 0..1
                              /\ conn.inbox # <<>> => conn.inbox[1] # CONNECT
  /\ conn.state = "gone" => conn.inbox = <<>>

(* The connections before the active one are gone: what is still to be     *)
(* read came after it.                                                     *)
TakeOverInv ==
  \A c, d \in DOMAIN conns :
    c < d /\ conns[d].state = "active" => conns[c].state = "gone"

InOrder ==
  \A c, d \in DOMAIN conns :
    c < d /\ Says(conns[c]) # 0 /\ Says(conns[d]) # 0
      => Says(conns[c]) < Says(conns[d])

Below(k) == k <= given /\ (stage # "idle" => k < given)

StillToCome ==
  \A c \in DOMAIN conns :
    Says(conns[c]) # 0 => /\ Topic!Newest < Says(conns[c])
                          /\ Below(Says(conns[c]))

(* libmosquitto holds the connection opened last, or none. *)
ClientInv ==
  /\ mosq \in {0, Len(conns)}
  /\ Below(Topic!Newest)
  /\ stage # "idle" \/ mosq # 0 => given # 0
  /\ stage = "publish" => mosq # 0 /\ Says(conns[mosq]) = 0

(* The connection libmosquitto holds is open, and what was sent on it last *)
(* is there to be read or has been published.                              *)
HeldInv ==
  /\ mosq # 0 => conns[mosq].open
  /\ stage = "idle" /\ Alive(mosq)
       => Says(conns[mosq]) = given \/ Topic!Newest = given

SendInv ==
  /\ MTypeOK
  /\ OneSocket
  /\ \A c \in DOMAIN conns : InboxInv(conns[c])
  /\ TakeOverInv
  /\ InOrder
  /\ StillToCome
  /\ ClientInv
  /\ HeldInv

-----------------------------------------------------------------------------
(* Facts about one connection. *)
LEMMA ForgottenFacts ==
  ASSUME NEW conn \in Connection
  PROVE  /\ Forgotten(conn) \in Connection
         /\ Forgotten(conn).state = "gone"
         /\ Forgotten(conn).open = conn.open
         /\ InboxInv(Forgotten(conn))
         /\ Says(Forgotten(conn)) = 0
<1>1. <<>> \in Seq(Packet) /\ Len(<<>>) = 0
  BY EmptySeq
<1>2. /\ Forgotten(conn).state = "gone" /\ Forgotten(conn).inbox = <<>>
      /\ Forgotten(conn).open = conn.open /\ Forgotten(conn) \in Connection
  BY <1>1 DEF Connection, Forgotten
<1> QED
  BY <1>2 DEF InboxInv, Says, CONNECT

LEMMA SaysNat ==
  ASSUME NEW conn \in Connection
  PROVE  Says(conn) \in Nat
BY DEF Connection, Packet, Says, CONNECT

(* The broker reads the CONNECT. *)
LEMMA ConnectRead ==
  ASSUME NEW conn \in Connection, InboxInv(conn), conn.state = "new",
         NEW after,
         after = [conn EXCEPT !.state = "active", !.inbox = Tail(@)]
  PROVE  /\ after \in Connection
         /\ after.state = "active"
         /\ after.open = conn.open
         /\ InboxInv(after)
         /\ Says(after) = Says(conn)
<1>1. conn.inbox \in Seq(Nat) /\ conn.inbox # <<>>
  BY DEF Connection, Packet, InboxInv
<1>2. /\ Tail(conn.inbox) \in Seq(Nat)
      /\ Len(Tail(conn.inbox)) = Len(conn.inbox) - 1
      /\ \A i \in 1..Len(Tail(conn.inbox)) :
           Tail(conn.inbox)[i] = conn.inbox[i + 1]
  BY <1>1, HeadTailProperties
<1>3. /\ after.state = "active" /\ after.open = conn.open
      /\ after.inbox = Tail(conn.inbox) /\ after \in Connection
  BY <1>2 DEF Connection, Packet
<1>4. CASE Len(conn.inbox) = 1
  BY <1>1, <1>2, <1>3, <1>4 DEF InboxInv, Says, CONNECT
<1>5. CASE Len(conn.inbox) = 2
  <2>1. Len(after.inbox) = 1 /\ after.inbox[1] = conn.inbox[2]
    BY <1>2, <1>3, <1>5
  <2>2. after.inbox # <<>> /\ conn.inbox[2] # CONNECT
    BY <2>1, <1>3, <1>2, <1>5, EmptySeq DEF InboxInv
  <2> QED
    BY <1>1, <1>3, <1>5, <2>1, <2>2 DEF InboxInv, Says
<1> QED
  BY <1>1, <1>4, <1>5 DEF InboxInv

(* The broker reads the message. *)
LEMMA MessageRead ==
  ASSUME NEW conn \in Connection, InboxInv(conn), conn.state = "active",
         conn.inbox # <<>>,
         NEW after, after = [conn EXCEPT !.inbox = Tail(@)]
  PROVE  /\ after \in Connection
         /\ after.state = "active"
         /\ after.open = conn.open
         /\ InboxInv(after)
         /\ Says(after) = 0
         /\ Head(conn.inbox) = Says(conn)
         /\ Says(conn) # 0
<1>1. conn.inbox \in Seq(Nat) /\ Len(conn.inbox) = 1
  BY DEF Connection, Packet, InboxInv
<1>2. Head(conn.inbox) = conn.inbox[1]
  BY <1>1
<1>3. Tail(conn.inbox) = <<>>
  <2>1. Tail(conn.inbox) \in Seq(Nat) /\ Len(Tail(conn.inbox)) = 0
    BY <1>1, HeadTailProperties
  <2> QED
    BY <2>1, EmptySeq
<1>4. /\ after.state = "active" /\ after.open = conn.open
      /\ after.inbox = <<>> /\ after \in Connection
  BY <1>3, EmptySeq DEF Connection, Packet
<1> QED
  BY <1>1, <1>2, <1>4 DEF InboxInv, Says, CONNECT

(* mqtt_send writes a message. *)
LEMMA MessageWritten ==
  ASSUME NEW conn \in Connection, InboxInv(conn), conn.state # "gone",
         Says(conn) = 0, NEW k \in Nat \ {0},
         NEW after, after = [conn EXCEPT !.inbox = Append(@, k)]
  PROVE  /\ after \in Connection
         /\ after.state = conn.state
         /\ after.open = conn.open
         /\ InboxInv(after)
         /\ Says(after) = k
<1>1. conn.inbox \in Seq(Nat)
  BY DEF Connection, Packet
<1>2. /\ Append(conn.inbox, k) \in Seq(Nat)
      /\ Len(Append(conn.inbox, k)) = Len(conn.inbox) + 1
      /\ Append(conn.inbox, k)[Len(conn.inbox) + 1] = k
      /\ \A i \in 1..Len(conn.inbox) :
           Append(conn.inbox, k)[i] = conn.inbox[i]
  BY <1>1
<1>3. /\ after.state = conn.state /\ after.open = conn.open
      /\ after.inbox = Append(conn.inbox, k) /\ after \in Connection
  BY <1>2 DEF Connection, Packet
<1>4. CASE conn.state = "new"
  <2>1. Len(conn.inbox) = 1 /\ conn.inbox[1] = CONNECT
    BY <1>1, <1>4 DEF InboxInv, Says, CONNECT
  <2> QED
    BY <1>1, <1>2, <1>3, <1>4, <2>1 DEF InboxInv, Says, CONNECT
<1>5. CASE conn.state = "active"
  <2>1. Len(conn.inbox) = 0
    BY <1>1, <1>5 DEF InboxInv, Says, CONNECT
  <2> QED
    BY <1>1, <1>2, <1>3, <1>5, <2>1 DEF InboxInv, Says, CONNECT
<1> QED
  BY <1>4, <1>5 DEF Connection

-----------------------------------------------------------------------------
(* The invariant, action by action.                                        *)
LEMMA Basics ==
  ASSUME SendInv
  PROVE  /\ Len(conns) \in Nat /\ DOMAIN conns = 1..Len(conns)
         /\ conns \in Seq(Connection) /\ published \in Seq(Nat)
         /\ given \in Nat /\ mosq \in 0..Len(conns)
         /\ Topic!Newest \in Nat
         /\ \A c \in DOMAIN conns :
              /\ conns[c] \in Connection
              /\ InboxInv(conns[c])
              /\ Says(conns[c]) \in Nat
<1>1. conns \in Seq(Connection) /\ published \in Seq(1..MaxSent)
  BY DEF SendInv, MTypeOK
<1>2. published \in Seq(Nat)
  BY <1>1, SeqMonotonic, MaxSentAssumption
<1>3. Len(conns) \in Nat /\ DOMAIN conns = 1..Len(conns)
  BY <1>1, LenProperties
<1>4. \A c \in DOMAIN conns : conns[c] \in Connection
  BY <1>1, <1>3, ElementOfSeq
<1>5. Topic!Newest \in Nat
  BY <1>2, LenProperties, EmptySeq, ElementOfSeq DEF Topic!Newest
<1> QED
  BY <1>1, <1>2, <1>3, <1>4, <1>5, SaysNat, MaxSentAssumption
  DEF SendInv, MTypeOK

LEMMA InitSendInv == MInit => SendInv
<1> SUFFICES ASSUME MInit PROVE SendInv
  OBVIOUS
<1>1. conns = <<>> /\ published = <<>> /\ DOMAIN conns = {} /\ Len(conns) = 0
  BY EmptySeq DEF MInit
<1>2. MTypeOK
  <2>1. <<>> \in Seq(Connection) /\ <<>> \in Seq(1..MaxSent)
    BY EmptySeq
  <2>2. mosq \in 0..Len(conns) /\ given \in 0..MaxSent
    BY <1>1, MaxSentAssumption DEF MInit
  <2> QED
    BY <1>1, <2>1, <2>2 DEF MInit, MTypeOK
<1> QED
  BY <1>1, <1>2 DEF MInit, SendInv, OneSocket, TakeOverInv, InOrder,
     StillToCome, ClientInv, HeldInv, Alive, Below, Topic!Newest

LEMMA SendKeepsInv == SendInv /\ Send => SendInv'
<1> SUFFICES ASSUME SendInv, Send PROVE SendInv'
  OBVIOUS
<1>1. Topic!Newest' = Topic!Newest
  BY DEF Send, Topic!Newest
<1>2. MTypeOK'
  <2>1. given' \in 0..MaxSent /\ stage' \in {"reconnect", "connect"}
    BY Basics, MaxSentAssumption DEF SendInv, MTypeOK, Send
  <2> QED
    BY <2>1 DEF SendInv, MTypeOK, Send
<1>4. OneSocket'
  BY DEF SendInv, OneSocket, Send
<1>3. StillToCome' /\ ClientInv' /\ HeldInv'
  BY <1>1, Basics
  DEF SendInv, StillToCome, ClientInv, HeldInv, Below, Send
<1> QED
  BY <1>2, <1>3, <1>4 DEF SendInv, TakeOverInv, InOrder, Send

(* Closing and opening leave what was sent alone.                          *)
LEMMA ReopenFacts ==
  ASSUME SendInv, Reopen, stage # "idle"
  PROVE  /\ conns' \in Seq(Connection)
         /\ mosq' \in {0, Len(conns')}
         /\ mosq' # 0 => conns'[mosq'].open /\ Says(conns'[mosq']) = 0
         /\ OneSocket'
         /\ (\A c \in DOMAIN conns : InboxInv(conns[c]))'
         /\ TakeOverInv'
         /\ InOrder'
         /\ \A c \in DOMAIN conns' :
              Says(conns'[c]) # 0
                => c \in DOMAIN conns /\ Says(conns'[c]) = Says(conns[c])
<1> DEFINE opened == [state |-> "new", inbox |-> <<CONNECT>>, open |-> TRUE]
           n == Len(conns)
<1>1. /\ Closed \in Seq(Connection) /\ Len(Closed) = n
      /\ \A c \in 1..n : /\ Closed[c].state = conns[c].state
                         /\ Closed[c].inbox = conns[c].inbox
                         /\ ~Closed[c].open
                         /\ Closed[c] \in Connection
  <2>1. CASE mosq = 0
    BY <2>1, Basics DEF Closed, SendInv, OneSocket, Connection
  <2>2. CASE mosq # 0
    <3>1. mosq \in 1..n /\ conns[mosq] \in Connection
      BY <2>2, Basics
    <3>2. [conns[mosq] EXCEPT !.open = FALSE] \in Connection
      BY <3>1 DEF Connection
    <3>3. Closed = [conns EXCEPT ![mosq] = [conns[mosq] EXCEPT !.open = FALSE]]
      BY <2>2 DEF Closed
    <3>4. /\ Closed \in Seq(Connection) /\ Len(Closed) = n
          /\ \A c \in 1..n :
               Closed[c] = IF c = mosq THEN [conns[mosq] EXCEPT !.open = FALSE]
                                       ELSE conns[c]
      BY <3>1, <3>2, <3>3, Basics, ExceptSeq
    <3>5. /\ Closed[mosq].state = conns[mosq].state
          /\ Closed[mosq].inbox = conns[mosq].inbox
          /\ ~Closed[mosq].open /\ Closed[mosq] \in Connection
      BY <3>1, <3>2, <3>4 DEF Connection
    <3>6. \A c \in 1..n : c # mosq =>
            /\ Closed[c] = conns[c] /\ conns[c] \in Connection
            /\ ~conns[c].open
      BY <3>4, Basics DEF SendInv, OneSocket
    <3> QED
      BY <3>4, <3>5, <3>6
  <2> QED
    BY <2>1, <2>2
<1>2. \A c \in 1..n : /\ InboxInv(Closed[c])
                      /\ Says(Closed[c]) = Says(conns[c])
  BY <1>1, Basics DEF InboxInv, Says
<1>3. opened \in Connection /\ InboxInv(opened) /\ Says(opened) = 0
  BY DEF Connection, Packet, InboxInv, Says, CONNECT
<1>4. CASE conns' = Closed /\ mosq' = 0
  <2>1. DOMAIN conns' = 1..n /\ Len(conns') = n /\ n \in Nat
    BY <1>1, <1>4, LenProperties, Basics
  <2> QED
    BY ZenonT(40), <1>1, <1>2, <1>4, <2>1, Basics
    DEF SendInv, OneSocket, TakeOverInv, InOrder
<1>5. CASE conns' = Append(Closed, opened) /\ mosq' = n + 1
  <2>1. /\ conns' \in Seq(Connection) /\ Len(conns') = n + 1 /\ n \in Nat
        /\ conns'[n + 1] = opened
        /\ \A c \in 1..n : conns'[c] = Closed[c]
    BY <1>1, <1>3, <1>5, Basics
  <2>2. DOMAIN conns' = 1..(n + 1)
    BY <2>1, LenProperties
  <2>8. opened.open
    OBVIOUS
  <2> HIDE DEF opened
  <2>3. \A c \in 1..(n + 1) : c \in 1..n \/ c = n + 1
    BY <2>1
  <2>4. OneSocket'
    BY <1>1, <1>5, <2>1, <2>2, <2>3 DEF OneSocket
  <2>5. (\A c \in DOMAIN conns : InboxInv(conns[c]))'
    BY <1>2, <1>3, <2>1, <2>2, <2>3
  <2>6. TakeOverInv'
    <3>1. opened.state = "new"
      BY DEF opened
    <3>2. SUFFICES ASSUME NEW c \in 1..(n + 1), NEW d \in 1..(n + 1),
                          c < d, conns'[d].state = "active"
                   PROVE  conns'[c].state = "gone"
      BY <2>2 DEF TakeOverInv
    <3>3. d \in 1..n /\ c \in 1..n
      BY <2>1, <2>3, <3>1, <3>2
    <3> QED
      BY <1>1, <2>1, <3>2, <3>3, Basics DEF SendInv, TakeOverInv
  <2>7. InOrder'
    BY <1>2, <1>3, <2>1, <2>2, <2>3, Basics DEF SendInv, InOrder
  <2> QED
    BY <1>2, <1>3, <1>5, <2>1, <2>2, <2>3, <2>4, <2>5, <2>6, <2>7,
       <2>8, Basics
<1> QED
  BY <1>4, <1>5 DEF Reopen

LEMMA ReopenKeepsInv == SendInv /\ (Reconnect \/ Connect) => SendInv'
<1> SUFFICES ASSUME SendInv, Reconnect \/ Connect PROVE SendInv'
  OBVIOUS
<1>1. /\ Reopen /\ stage # "idle"
      /\ UNCHANGED <<given, up, published>>
      /\ stage' \in {"connect", "idle", "publish"}
      /\ stage' = "publish" => mosq' # 0
      /\ stage' = "idle" => mosq' = 0
      /\ error_state' \in BOOLEAN
  BY DEF Reconnect, Connect, SendInv, MTypeOK
<1>2. Topic!Newest' = Topic!Newest
  BY <1>1 DEF Topic!Newest
<1>3. Len(conns') \in Nat
  BY <1>1, ReopenFacts, LenProperties
<1>4. MTypeOK'
  BY <1>1, <1>3, ReopenFacts DEF SendInv, MTypeOK
<1>5. StillToCome'
  BY <1>1, <1>2, ReopenFacts, Basics DEF SendInv, StillToCome, Below
<1>6. ClientInv'
  BY <1>1, <1>2, ReopenFacts, Basics DEF SendInv, ClientInv, Below
<1>7. HeldInv'
  BY <1>1, ReopenFacts DEF HeldInv, Alive
<1> QED
  BY <1>1, <1>4, <1>5, <1>6, <1>7, ReopenFacts DEF SendInv

LEMMA PublishKeepsInv == SendInv /\ Publish => SendInv'
<1> SUFFICES ASSUME SendInv, Publish PROVE SendInv'
  OBVIOUS
<1> DEFINE n == Len(conns)
<1>1. /\ stage = "publish" /\ stage' = "idle" /\ mosq # 0 /\ mosq = n
      /\ mosq \in 1..n /\ n \in Nat /\ Says(conns[mosq]) = 0
      /\ given \in Nat \ {0} /\ Topic!Newest < given
      /\ UNCHANGED <<mosq, given, up, published>>
  BY Basics DEF SendInv, ClientInv, Below, Publish
<1>2. Topic!Newest' = Topic!Newest
  BY <1>1 DEF Topic!Newest
<1>3. CASE ~Alive(mosq)
  <2>1. UNCHANGED conns /\ error_state' \in BOOLEAN
    BY <1>3 DEF Publish
  <2>2. MTypeOK'
    BY <1>1, <2>1 DEF SendInv, MTypeOK
  <2>3. StillToCome' /\ ClientInv'
    BY <1>1, <1>2, <2>1, Basics DEF SendInv, StillToCome, ClientInv, Below
  <2>4. HeldInv'
    BY <1>1, <1>3, <2>1 DEF SendInv, HeldInv, Alive
  <2> QED
    BY <1>1, <2>1, <2>2, <2>3, <2>4
    DEF SendInv, OneSocket, TakeOverInv, InOrder
<1>4. CASE Alive(mosq)
  <2> DEFINE after == [conns[mosq] EXCEPT !.inbox = Append(@, given)]
  <2>1. /\ conns[mosq] \in Connection /\ InboxInv(conns[mosq])
        /\ conns[mosq].state # "gone"
    BY <1>1, <1>4, Basics DEF Alive
  <2>2. /\ after \in Connection
        /\ after.state = conns[mosq].state
        /\ after.open = conns[mosq].open
        /\ InboxInv(after)
        /\ Says(after) = given
    BY <1>1, <2>1, MessageWritten
  <2>3. conns' = [conns EXCEPT ![mosq] = after] /\ UNCHANGED error_state
    BY <1>4 DEF Publish
  <2> HIDE DEF after
  <2>4. /\ conns' \in Seq(Connection) /\ Len(conns') = n
        /\ DOMAIN conns' = 1..n
        /\ \A c \in 1..n : conns'[c] = IF c = mosq THEN after ELSE conns[c]
    <3>1. /\ [conns EXCEPT ![mosq] = after] \in Seq(Connection)
          /\ Len([conns EXCEPT ![mosq] = after]) = n
          /\ \A c \in 1..n : [conns EXCEPT ![mosq] = after][c] =
                               IF c = mosq THEN after ELSE conns[c]
      BY <1>1, <2>2, Basics, ExceptSeq
    <3> QED
      BY <2>3, <3>1, LenProperties
  <2>5. MTypeOK'
    BY <1>1, <2>3, <2>4 DEF SendInv, MTypeOK
  <2>6. OneSocket' /\ TakeOverInv'
    BY <1>1, <2>2, <2>4, Basics DEF SendInv, OneSocket, TakeOverInv
  <2>7. (\A c \in DOMAIN conns : InboxInv(conns[c]))'
    BY <2>2, <2>4, Basics
  <2>8. \A c \in 1..n : Says(conns[c]) # 0 => Says(conns[c]) < given
    BY <1>1, Basics DEF SendInv, StillToCome, Below
  <2>9. InOrder'
    BY <1>1, <2>2, <2>4, <2>8, Basics DEF SendInv, InOrder
  <2>10. StillToCome'
    BY <1>1, <1>2, <2>2, <2>4, Basics DEF SendInv, StillToCome, Below
  <2>11. ClientInv'
    BY <1>1, <1>2, <2>4, Basics DEF SendInv, ClientInv, Below
  <2>12. HeldInv'
    BY <1>1, <2>2, <2>4 DEF SendInv, HeldInv
  <2> QED
    BY <2>5, <2>6, <2>7, <2>9, <2>10, <2>11, <2>12 DEF SendInv
<1> QED
  BY <1>3, <1>4

(* What the broker reads or forgets, it no longer has to read.             *)
LEMMA BrokerKeepsInv ==
  ASSUME SendInv, UNCHANGED <<clientVars, up>>,
         conns' \in Seq(Connection), Len(conns') = Len(conns),
         published' \in Seq(1..MaxSent), Below(Topic!Newest'),
         \A c \in 1..Len(conns) :
           /\ InboxInv(conns'[c])
           /\ conns'[c].open = conns[c].open
           /\ Says(conns'[c]) \in {0, Says(conns[c])}
           /\ Says(conns'[c]) # 0 => Topic!Newest' < Says(conns[c]),
         TakeOverInv', HeldInv'
  PROVE  SendInv'
<1>1. DOMAIN conns' = 1..Len(conns) /\ DOMAIN conns = 1..Len(conns)
  BY Basics, LenProperties
<1>2. MTypeOK'
  BY DEF SendInv, MTypeOK, clientVars
<1>3. OneSocket'
  BY <1>1 DEF SendInv, OneSocket, clientVars
<1>4. InOrder'
  BY <1>1 DEF SendInv, InOrder
<1>5. StillToCome'
  BY <1>1, Basics DEF SendInv, StillToCome, Below, clientVars
<1>6. ClientInv'
  <2>1. mosq' = mosq /\ stage' = stage /\ given' = given
    BY DEF clientVars
  <2>2. mosq' \in {0, Len(conns')} /\ (stage' # "idle" \/ mosq' # 0 => given' # 0)
    BY <2>1 DEF SendInv, ClientInv
  <2>3. stage' = "publish" => mosq' # 0 /\ Says(conns'[mosq']) = 0
    <3>1. stage = "publish" => /\ mosq # 0 /\ mosq \in 1..Len(conns)
                            /\ Says(conns[mosq]) = 0
      BY Basics DEF SendInv, ClientInv
    <3> QED
      BY <2>1, <3>1
  <2>4. Below(Topic!Newest)'
    BY <2>1 DEF Below
  <2> QED
    BY <2>2, <2>3, <2>4 DEF ClientInv
<1> QED
  BY <1>1, <1>2, <1>3, <1>4, <1>5, <1>6 DEF SendInv

LEMMA BrokerConnectKeepsInv ==
  ASSUME SendInv, NEW c \in DOMAIN conns, BrokerConnect(c)
  PROVE  SendInv'
<1> DEFINE n == Len(conns)
           after == [conns[c] EXCEPT !.state = "active", !.inbox = Tail(@)]
<1>1. /\ conns[c] \in Connection /\ InboxInv(conns[c])
      /\ conns[c].state = "new" /\ n \in Nat /\ DOMAIN conns = 1..n
      /\ UNCHANGED <<clientVars, up, published>>
  BY Basics DEF BrokerConnect
<1>2. /\ after \in Connection /\ after.state = "active"
      /\ after.open = conns[c].open
      /\ InboxInv(after) /\ Says(after) = Says(conns[c])
  BY <1>1, ConnectRead
<1>3. conns' = [d \in 1..n |->
                 IF d = c THEN after
                 ELSE IF conns[d].state = "active" THEN Forgotten(conns[d])
                 ELSE conns[d]]
  BY <1>1 DEF BrokerConnect, TakeOver
<1> HIDE DEF after
<1>4. /\ conns' \in Seq(Connection) /\ Len(conns') = n
      /\ DOMAIN conns' = 1..n
  <2>1. conns' \in [1..n -> Connection]
    BY <1>2, <1>3, Basics, ForgottenFacts
  <2> QED
    BY <1>1, <2>1, SeqDef, LenProperties
<1>5. \A d \in 1..n :
        \/ d = c /\ conns'[d] = after
        \/ d # c /\ conns[d].state = "active"
           /\ conns'[d] = Forgotten(conns[d])
        \/ d # c /\ conns[d].state # "active" /\ conns'[d] = conns[d]
  BY <1>3
<1>6. Topic!Newest' = Topic!Newest /\ Below(Topic!Newest')
  BY <1>1 DEF Topic!Newest, SendInv, ClientInv
<1>7. \A d \in 1..n :
        /\ InboxInv(conns'[d])
        /\ conns'[d].open = conns[d].open
        /\ Says(conns'[d]) \in {0, Says(conns[d])}
        /\ Says(conns'[d]) # 0 => Topic!Newest' < Says(conns[d])
  <2> TAKE d \in 1..n
  <2>1. /\ conns[d] \in Connection /\ InboxInv(conns[d])
        /\ Says(conns[d]) # 0 => Topic!Newest < Says(conns[d])
    BY <1>1, Basics DEF SendInv, StillToCome
  <2>2. CASE d = c
    BY <1>2, <1>5, <1>6, <2>1, <2>2
  <2>3. CASE d # c /\ conns[d].state = "active"
    BY <1>5, <2>1, <2>3, ForgottenFacts
  <2>4. CASE d # c /\ conns[d].state # "active"
    BY <1>5, <1>6, <2>1, <2>4
  <2> QED
    BY <2>2, <2>3, <2>4
<1>8. TakeOverInv'
  <2>1. SUFFICES ASSUME NEW b \in 1..n, NEW d \in 1..n, b < d,
                        conns'[d].state = "active"
                 PROVE  conns'[b].state = "gone"
    BY <1>4 DEF TakeOverInv
  <2>2. d = c
    BY <1>5, <2>1, ForgottenFacts, Basics
  <2>3. conns[b] \in Connection /\ conns[b].state # "new" /\ b # c
    BY <1>1, <2>1, <2>2, Basics DEF BrokerConnect, InTurn
  <2>4. conns[b].state \in {"active", "gone"}
    BY <2>3 DEF Connection
  <2> QED
    BY <1>5, <2>1, <2>3, <2>4, ForgottenFacts
<1>9. published' \in Seq(1..MaxSent) /\ UNCHANGED <<clientVars, up>>
  BY <1>1 DEF SendInv, MTypeOK
<1>10. HeldInv'
  <2>1. UNCHANGED <<mosq, stage, given>>
    BY <1>1 DEF clientVars
  <2>2. CASE mosq = 0
    BY <2>1, <2>2 DEF HeldInv, Alive
  <2>3. CASE mosq # 0
    <3>1. mosq \in 1..n /\ conns[mosq] \in Connection
      BY <2>3, Basics
    <3>2. conns'[mosq].open = conns[mosq].open
      BY <1>7, <3>1
    <3>3. conns'[mosq].state # "gone"
            => /\ conns[mosq].state # "gone"
               /\ Says(conns'[mosq]) = Says(conns[mosq])
      <4>1. CASE mosq = c
        BY <1>1, <1>2, <1>5, <4>1
      <4>2. CASE mosq # c /\ conns[mosq].state = "active"
        BY <1>5, <3>1, <4>2, ForgottenFacts
      <4>3. CASE mosq # c /\ conns[mosq].state # "active"
        BY <1>5, <3>1, <4>3
      <4> QED
        BY <4>1, <4>2, <4>3
    <3> QED
      BY <1>6, <2>1, <2>3, <3>2, <3>3 DEF SendInv, HeldInv, Alive
  <2> QED
    BY <2>2, <2>3
<1> QED
  BY <1>4, <1>6, <1>7, <1>8, <1>9, <1>10, BrokerKeepsInv

(* The message read next is one the topic has not seen yet.                *)
LEMMA BrokerPublishFacts ==
  ASSUME SendInv, NEW c \in DOMAIN conns, BrokerPublish(c)
  PROVE  /\ SendInv'
         /\ \E k \in (Topic!Newest + 1)..given :
              published' = Append(published, k)
<1> DEFINE n == Len(conns)
           k == Says(conns[c])
           after == [conns[c] EXCEPT !.inbox = Tail(@)]
<1>1. /\ conns[c] \in Connection /\ InboxInv(conns[c])
      /\ conns[c].state = "active" /\ conns[c].inbox # <<>>
      /\ n \in Nat /\ DOMAIN conns = 1..n
      /\ UNCHANGED <<clientVars, up>>
  BY Basics DEF BrokerPublish
<1>2. /\ after \in Connection /\ after.state = "active"
      /\ after.open = conns[c].open
      /\ InboxInv(after) /\ Says(after) = 0
      /\ Head(conns[c].inbox) = k /\ k # 0
  BY <1>1, MessageRead
<1>3. conns' = [conns EXCEPT ![c] = after] /\ published' = Append(published, k)
  BY <1>2 DEF BrokerPublish
<1> HIDE DEF after
<1>4. /\ conns' \in Seq(Connection) /\ Len(conns') = n
      /\ DOMAIN conns' = 1..n
      /\ \A d \in 1..n : conns'[d] = IF d = c THEN after ELSE conns[d]
  <2>1. /\ [conns EXCEPT ![c] = after] \in Seq(Connection)
        /\ Len([conns EXCEPT ![c] = after]) = n
        /\ \A d \in 1..n : [conns EXCEPT ![c] = after][d] =
                             IF d = c THEN after ELSE conns[d]
    BY <1>1, <1>2, Basics, ExceptSeq
  <2> QED
    BY <1>3, <2>1, LenProperties
<1>5. k \in Nat /\ Topic!Newest < k /\ Below(k) /\ Topic!Newest \in Nat
  BY <1>1, <1>2, Basics DEF SendInv, StillToCome
<1>6. k \in 1..MaxSent /\ k \in (Topic!Newest + 1)..given
  BY <1>2, <1>5, Basics, MaxSentAssumption DEF SendInv, MTypeOK, Below
<1>7. /\ published' \in Seq(1..MaxSent)
      /\ Topic!Newest' = k
  <2>1. published \in Seq(1..MaxSent)
    BY DEF SendInv, MTypeOK
  <2>2. /\ published' \in Seq(1..MaxSent) /\ Len(published) \in Nat
        /\ Len(published') = Len(published) + 1
        /\ published'[Len(published) + 1] = k
    BY <1>3, <1>6, <2>1
  <2>3. published' # <<>>
    BY <2>2, EmptySeq
  <2> QED
    BY <2>2, <2>3 DEF Topic!Newest
<1>8. \A d \in 1..n :
        /\ InboxInv(conns'[d])
        /\ conns'[d].open = conns[d].open
        /\ Says(conns'[d]) \in {0, Says(conns[d])}
        /\ Says(conns'[d]) # 0 => Topic!Newest' < Says(conns[d])
  <2> TAKE d \in 1..n
  <2>1. CASE d = c
    BY <1>2, <1>4, <2>1
  <2>2. CASE d < c
    <3>1. conns[d].state = "gone" /\ InboxInv(conns[d])
      BY <1>1, <2>2, Basics DEF SendInv, TakeOverInv
    <3>2. Says(conns[d]) = 0
      BY <3>1 DEF InboxInv, Says, CONNECT
    <3> QED
      BY <1>4, <2>2, <3>1, <3>2
  <2>3. CASE c < d
    <3>1. InboxInv(conns[d]) /\ (Says(conns[d]) # 0 => k < Says(conns[d]))
      BY <1>1, <1>2, <2>3, Basics DEF SendInv, InOrder
    <3> QED
      BY <1>4, <1>7, <2>3, <3>1
  <2> QED
    BY <1>1, <2>1, <2>2, <2>3
<1>9. TakeOverInv'
  BY <1>1, <1>2, <1>4 DEF SendInv, TakeOverInv
<1>10. Below(Topic!Newest')
  BY <1>5, <1>7
<1>11. HeldInv'
  <2>1. UNCHANGED <<mosq, stage, given>>
    BY <1>1 DEF clientVars
  <2>2. Topic!Newest # given /\ given \in Nat
    BY <1>5, Basics DEF Below
  <2>3. CASE mosq = 0
    BY <2>1, <2>3 DEF HeldInv, Alive
  <2>4. CASE mosq # 0
    <3>1. mosq \in 1..n
      BY <2>4, Basics
    <3>2. /\ conns'[mosq].open = conns[mosq].open
          /\ conns'[mosq].state = conns[mosq].state
      BY <1>1, <1>2, <1>4, <3>1
    <3>3. c # mosq => Says(conns'[mosq]) = Says(conns[mosq])
      BY <1>4, <3>1
    <3>4. mosq' # 0 => conns'[mosq'].open
      BY <2>1, <2>4, <3>2 DEF SendInv, HeldInv
    <3>5. stage = "idle" /\ Alive(mosq) => Says(conns[mosq]) = given
      BY <2>2 DEF SendInv, HeldInv
    <3>6. stage = "idle" /\ Alive(mosq)
            => Says(conns'[mosq]) = given \/ Topic!Newest' = given
      BY <1>7, <3>3, <3>5
    <3> QED
      BY <2>1, <2>4, <3>2, <3>4, <3>6 DEF HeldInv, Alive
  <2> QED
    BY <2>3, <2>4
<1> HIDE DEF k
<1> QED
  BY <1>1, <1>3, <1>4, <1>6, <1>7, <1>8, <1>9, <1>10, <1>11, BrokerKeepsInv

LEMMA HangUpKeepsInv ==
  ASSUME SendInv, NEW c \in DOMAIN conns, BrokerHangUp(c)
  PROVE  SendInv'
<1> DEFINE n == Len(conns)
           after == Forgotten(conns[c])
<1>1. /\ conns[c] \in Connection /\ n \in Nat /\ DOMAIN conns = 1..n
      /\ UNCHANGED <<clientVars, up, published>>
      /\ conns' = [conns EXCEPT ![c] = after]
  BY Basics DEF BrokerHangUp
<1>2. /\ after \in Connection /\ after.state = "gone"
      /\ after.open = conns[c].open /\ InboxInv(after) /\ Says(after) = 0
  BY <1>1, ForgottenFacts
<1> HIDE DEF after
<1>3. /\ conns' \in Seq(Connection) /\ Len(conns') = n
      /\ DOMAIN conns' = 1..n
      /\ \A d \in 1..n : conns'[d] = IF d = c THEN after ELSE conns[d]
  <2>1. /\ [conns EXCEPT ![c] = after] \in Seq(Connection)
        /\ Len([conns EXCEPT ![c] = after]) = n
        /\ \A d \in 1..n : [conns EXCEPT ![c] = after][d] =
                             IF d = c THEN after ELSE conns[d]
    BY <1>1, <1>2, Basics, ExceptSeq
  <2> QED
    BY <1>1, <2>1, LenProperties
<1>4. Topic!Newest' = Topic!Newest /\ Below(Topic!Newest')
  BY <1>1 DEF Topic!Newest, SendInv, ClientInv
<1>5. \A d \in 1..n :
        /\ InboxInv(conns'[d])
        /\ conns'[d].open = conns[d].open
        /\ Says(conns'[d]) \in {0, Says(conns[d])}
        /\ Says(conns'[d]) # 0 => Topic!Newest' < Says(conns[d])
  BY <1>1, <1>2, <1>3, <1>4, Basics DEF SendInv, StillToCome
<1>6. TakeOverInv'
  BY <1>1, <1>2, <1>3 DEF SendInv, TakeOverInv
<1>7. published' \in Seq(1..MaxSent) /\ UNCHANGED <<clientVars, up>>
  BY <1>1 DEF SendInv, MTypeOK
<1>8. HeldInv'
  <2>1. UNCHANGED <<mosq, stage, given>>
    BY <1>1 DEF clientVars
  <2>2. CASE mosq = 0
    BY <2>1, <2>2 DEF HeldInv, Alive
  <2>3. CASE mosq # 0
    <3>1. mosq \in 1..n
      BY <2>3, Basics
    <3>2. /\ conns'[mosq].open = conns[mosq].open
          /\ conns'[mosq].state # "gone" => conns'[mosq] = conns[mosq]
      BY <1>2, <1>3, <3>1
    <3> QED
      BY <1>4, <2>1, <2>3, <3>2 DEF SendInv, HeldInv, Alive
  <2> QED
    BY <2>2, <2>3
<1> QED
  BY <1>3, <1>4, <1>5, <1>6, <1>7, <1>8, BrokerKeepsInv

LEMMA CrashKeepsInv == SendInv /\ Crash => SendInv'
<1> SUFFICES ASSUME SendInv, Crash PROVE SendInv'
  OBVIOUS
<1> DEFINE n == Len(conns)
<1>1. /\ n \in Nat /\ UNCHANGED <<clientVars, published>> /\ up' = FALSE
      /\ conns' = [c \in 1..n |-> Forgotten(conns[c])]
  BY Basics DEF Crash
<1>2. \A c \in 1..n : /\ conns'[c] \in Connection
                      /\ conns'[c].state = "gone"
                      /\ conns'[c].open = conns[c].open
                      /\ InboxInv(conns'[c])
                      /\ Says(conns'[c]) = 0
  BY <1>1, Basics, ForgottenFacts
<1>3. conns' \in Seq(Connection) /\ Len(conns') = n /\ DOMAIN conns' = 1..n
  <2>1. conns' \in [1..n -> Connection]
    BY <1>1, <1>2
  <2> QED
    BY <1>1, <2>1, SeqDef, LenProperties
<1>4. Topic!Newest' = Topic!Newest
  BY <1>1 DEF Topic!Newest
<1>5. MTypeOK'
  BY <1>1, <1>3 DEF SendInv, MTypeOK, clientVars
<1>6. OneSocket' /\ TakeOverInv' /\ InOrder' /\ StillToCome'
  BY <1>1, <1>2, <1>3, Basics
  DEF SendInv, OneSocket, TakeOverInv, InOrder, StillToCome, clientVars
<1>7. ClientInv'
  <2>1. mosq' = mosq /\ stage' = stage /\ given' = given
    BY <1>1 DEF clientVars
  <2>2. mosq' \in {0, Len(conns')} /\ (stage' # "idle" \/ mosq' # 0 => given' # 0)
    BY <1>3, <2>1 DEF SendInv, ClientInv
  <2>3. stage' = "publish" => mosq' # 0 /\ Says(conns'[mosq']) = 0
    BY <1>2, <2>1, Basics DEF SendInv, ClientInv
  <2>4. Below(Topic!Newest)'
    BY <1>4, <2>1 DEF SendInv, ClientInv, Below
  <2> QED
    BY <2>2, <2>3, <2>4 DEF ClientInv
<1>8. HeldInv'
  <2>1. UNCHANGED <<mosq, stage, given>>
    BY <1>1 DEF clientVars
  <2>2. mosq # 0 => mosq \in 1..n
    BY Basics
  <2> QED
    BY <1>2, <2>1, <2>2 DEF SendInv, HeldInv, Alive
<1> QED
  BY <1>2, <1>3, <1>5, <1>6, <1>7, <1>8 DEF SendInv

LEMMA UnchangedKeepsInv ==
  ASSUME SendInv, UNCHANGED <<clientVars, conns, published>>, up' \in BOOLEAN
  PROVE  SendInv'
<1>1. Topic!Newest' = Topic!Newest
  BY DEF Topic!Newest
<1>2. MTypeOK'
  BY DEF SendInv, MTypeOK, clientVars
<1> QED
  BY <1>1, <1>2
  DEF SendInv, OneSocket, TakeOverInv, InOrder, StillToCome, ClientInv, HeldInv,
      Alive, Below, clientVars

LEMMA NextKeepsSendInv == SendInv /\ [MNext]_mqttVars => SendInv'
<1> SUFFICES ASSUME SendInv, [MNext]_mqttVars PROVE SendInv'
  OBVIOUS
<1>1. CASE Send
  BY <1>1, SendKeepsInv
<1>2. CASE Reconnect \/ Connect
  BY <1>2, ReopenKeepsInv
<1>3. CASE Publish
  BY <1>3, PublishKeepsInv
<1>4. CASE BrokerReads
  BY <1>4, BrokerConnectKeepsInv, BrokerPublishFacts DEF BrokerReads
<1>5. CASE \E c \in DOMAIN conns : BrokerHangUp(c)
  BY <1>5, HangUpKeepsInv
<1>6. CASE Crash
  BY <1>6, CrashKeepsInv
<1>7. CASE Restart
  BY <1>7, UnchangedKeepsInv DEF Restart
<1>8. CASE UNCHANGED mqttVars
  BY <1>8, UnchangedKeepsInv DEF mqttVars, SendInv, MTypeOK
<1> QED
  BY <1>1, <1>2, <1>3, <1>4, <1>5, <1>6, <1>7, <1>8 DEF MNext

-----------------------------------------------------------------------------
LEMMA SendInvariant == MSpec => []SendInv
BY InitSendInv, NextKeepsSendInv, PTL DEF MSpec

(* Types of the client and the broker; messages are published only if they *)
(* were given to mqtt_send, and mqtt_send writes only to a connection.     *)
THEOREM MqttTypeCorrect == MSpec => []MTypeOK
BY SendInvariant, PTL DEF SendInv

(* mqtt_send leaves no connection open but the one libmosquitto holds,     *)
(* however many messages are sent and whatever fails.                      *)
THEOREM MqttOneSocket == MSpec => []OneSocket
BY SendInvariant, PTL DEF SendInv

(* Whatever the broker and the client do at the same time, the topic gets  *)
(* messages in the order of the calls of mqtt_send, and none twice.        *)
THEOREM MqttImplementsTopic == MSpec => TopicSpec
<1>1. MInit => Topic!Init
  BY DEF MInit, Topic!Init
<1>2. SendInv /\ [MNext]_mqttVars => [Topic!Next]_<<given, published>>
  <2> SUFFICES ASSUME SendInv, [MNext]_mqttVars
               PROVE  Topic!Next \/ UNCHANGED <<given, published>>
    OBVIOUS
  <2>1. CASE Send
    BY <2>1 DEF Send, Topic!Next, Topic!Give
  <2>2. CASE \E c \in DOMAIN conns : BrokerPublish(c)
    <3>1. PICK c \in DOMAIN conns : BrokerPublish(c)
      BY <2>2
    <3>2. UNCHANGED given
      BY <3>1 DEF BrokerPublish, clientVars
    <3> QED
      BY <3>1, <3>2, BrokerPublishFacts DEF Topic!Next, Topic!Publish
  <2>3. CASE Reconnect \/ Connect \/ Publish
    BY <2>3 DEF Reconnect, Connect, Publish
  <2>4. CASE \E c \in DOMAIN conns : BrokerConnect(c) \/ BrokerHangUp(c)
    BY <2>4 DEF BrokerConnect, BrokerHangUp, clientVars
  <2>5. CASE Crash \/ Restart \/ UNCHANGED mqttVars
    BY <2>5 DEF Crash, Restart, clientVars, mqttVars
  <2> QED
    BY <2>1, <2>2, <2>3, <2>4, <2>5 DEF MNext, BrokerReads
<1> QED
  BY <1>1, <1>2, SendInvariant, PTL DEF MSpec, TopicSpec, Topic!Spec

(* A running broker never drops the connection libmosquitto holds with a   *)
(* message unread, or before one was written: in particular the two        *)
(* CONNECTs after an error do not cut each other off in the wrong order.   *)
THEOREM MqttNotCutOff == MSpec => NotCutOff
<1>1. SendInv /\ [MNext]_mqttVars
        => [Alive(mosq) /\ mosq' = mosq /\ conns'[mosq].state = "gone"
              => ~up' \/ Reached(given)]_mqttVars
  <2> SUFFICES ASSUME SendInv, MNext, Alive(mosq), mosq' = mosq,
                      conns'[mosq].state = "gone", up'
               PROVE  Reached(given)
    BY DEF mqttVars
  <2>1. /\ mosq = Len(conns) /\ mosq \in 1..Len(conns)
        /\ DOMAIN conns = 1..Len(conns) /\ Len(conns) \in Nat
        /\ conns[mosq] \in Connection /\ conns[mosq].open
        /\ conns[mosq].state # "gone"
    BY Basics DEF Alive, SendInv, ClientInv, HeldInv
  <2>2. CASE Send \/ Restart
    BY <2>1, <2>2 DEF Send, Restart
  <2>3. CASE Reconnect \/ Connect
    <3>1. Reopen
      BY <2>3 DEF Reconnect, Connect
    <3> QED
      BY <2>1, <3>1 DEF Reopen
  <2>4. CASE Publish
    <3>1. conns' = [conns EXCEPT ![mosq] =
                     [conns[mosq] EXCEPT !.inbox = Append(@, given)]]
      BY <2>4 DEF Publish
    <3> QED
      BY <2>1, <3>1 DEF Connection
  <2>5. CASE \E c \in DOMAIN conns : BrokerConnect(c)
    <3>1. PICK c \in DOMAIN conns : BrokerConnect(c)
      BY <2>5
    <3>2. conns[mosq].state = "active" /\ c # mosq
      <4>1. conns'[mosq] =
              IF mosq = c
              THEN [conns[mosq] EXCEPT !.state = "active", !.inbox = Tail(@)]
              ELSE IF conns[mosq].state = "active" THEN Forgotten(conns[mosq])
              ELSE conns[mosq]
        BY <2>1, <3>1 DEF BrokerConnect, TakeOver
      <4> QED
        BY <2>1, <4>1 DEF Connection
    <3>3. c < mosq /\ conns[c].state = "new"
      BY <2>1, <3>1, <3>2 DEF BrokerConnect
    <3> QED
      BY <2>1, <3>2, <3>3 DEF SendInv, TakeOverInv
  <2>6. CASE \E c \in DOMAIN conns : BrokerPublish(c)
    <3>1. PICK c \in DOMAIN conns : BrokerPublish(c)
      BY <2>6
    <3> QED
      BY <2>1, <3>1 DEF BrokerPublish
  <2>7. CASE \E c \in DOMAIN conns : BrokerHangUp(c)
    <3>1. PICK c \in DOMAIN conns : BrokerHangUp(c)
      BY <2>7
    <3>2. c = mosq
      BY <2>1, <3>1 DEF BrokerHangUp
    <3>3. conns[mosq].inbox = <<>> /\ stage = "idle"
      BY <2>1, <3>1, <3>2 DEF BrokerHangUp
    <3>4. Topic!Newest = given \/ given = 0
      BY <3>3 DEF SendInv, HeldInv, Says, CONNECT
    <3>5. given # 0
      BY <2>1 DEF SendInv, ClientInv
    <3> QED
      BY <3>4, <3>5, Basics, LenProperties, EmptySeq DEF Topic!Newest, Reached
  <2>8. CASE Crash
    BY <2>8 DEF Crash
  <2> QED
    BY <2>2, <2>3, <2>4, <2>5, <2>6, <2>7, <2>8 DEF MNext, BrokerReads
<1> QED
  BY <1>1, SendInvariant, PTL DEF MSpec, NotCutOff
=============================================================================
