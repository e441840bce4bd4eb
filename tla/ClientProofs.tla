---------------------------- MODULE ClientProofs ----------------------------
(***************************************************************************)
(* The client, for every keepalive interval and any number of messages: a  *)
(* dead network is noticed, and a working one is not taken for dead as     *)
(* long as a packet and its answer take less than the interval; packets    *)
(* are sent without delay and once.                                        *)
(***************************************************************************)
EXTENDS MCClient, SequenceTheorems, TLAPS

-----------------------------------------------------------------------------
(* select() never sleeps past next_msg_out, nor longer than its timeout.   *)
SleepInv ==
  /\ last_msg_out \in Nat /\ sleep \in Nat
  /\ sleep + last_msg_out <= keepalive /\ sleep <= MaxSleep

(* How long the network can have been dead is bounded by what each end     *)
(* counts: the broker from the last packet it read, the client from the    *)
(* last one it read or, once it waits for an answer, from its ping.  At    *)
(* the end of its sleep the client has counted Longest at most, because it *)
(* had not counted a whole interval when it went to sleep.                 *)
Allowed == (keepalive * 3) \div 2
Longest == keepalive - 1 + MaxSleep

ClientInv ==
  /\ SleepInv
  /\ last_msg_in \in Nat /\ dead \in Nat
  /\ state # "none" =>
       /\ last_msg_in + sleep <= Longest
       /\ link = "dead" => dead <= last_msg_in + (IF ping_t THEN Longest ELSE 0)

BrokerInv ==
  /\ heard \in Nat /\ dead \in Nat
  /\ peer =>
       /\ heard <= Allowed + 1
       /\ checked => heard <= Allowed
       /\ link = "dead" => dead <= heard

(* Times are whole seconds; keepalive 0, no pings at all, is left out. *)
Times == keepalive \in Nat \ {0} /\ timeout \in Nat \ {0}

LEMMA SelectFacts ==
  ASSUME Times, Select, NEW o \in Nat, last_msg_out' = o, o <= keepalive
  PROVE  SleepInv'
<1>1. keepalive \in Nat /\ timeout \in Nat
  BY DEF Times
<1>2. \/ timeout < keepalive - o /\ sleep' = timeout
      \/ timeout >= keepalive - o /\ sleep' = keepalive - o
  BY <1>1 DEF Select
<1>3. sleep' \in Nat /\ sleep' + o <= keepalive
  BY <1>1, <1>2
<1>4. sleep' <= MaxSleep
  BY <1>1, <1>2 DEF MaxSleep
<1> QED
  BY <1>3, <1>4 DEF SleepInv, MaxSleep

LEMMA SleepInvStep ==
  ASSUME Times, SleepInv, [Next]_vars
  PROVE  SleepInv'
<1>1. CASE Reconnect
  BY <1>1 DEF Reconnect, SleepInv, MaxSleep, Times
<1>2. CASE Publish
  BY <1>2 DEF Publish, SleepInv, MaxSleep, Times
<1>3. CASE CheckKeepalive
  <2>1. PICK o \in Nat : last_msg_out' = o /\ o <= keepalive
    BY <1>3 DEF CheckKeepalive, Send, Close, SleepInv, Times
  <2> QED
    BY <1>3, <2>1, SelectFacts DEF CheckKeepalive
<1>4. CASE ClientRead
  BY <1>4 DEF ClientRead, SleepInv, MaxSleep, Times
<1>5. CASE Tick
  <2>1. \/ UNCHANGED <<last_msg_out, sleep>>
        \/ sleep > 0 /\ last_msg_out' = last_msg_out + 1 /\ sleep' = sleep - 1
    BY <1>5 DEF Tick
  <2> QED
    BY <2>1 DEF SleepInv, MaxSleep, Times
<1>6. CASE UNCHANGED <<last_msg_out, sleep>>
  BY <1>6 DEF SleepInv, MaxSleep
<1> QED
  BY <1>1, <1>2, <1>3, <1>4, <1>5, <1>6
  DEF Next, BrokerRead, Refused, Close, BrokerPublish, BrokerLoop, Die, Repair, client, vars

LEMMA ClientInvStep ==
  ASSUME Times, ClientInv, [Next]_vars
  PROVE  ClientInv'
<1>0. SleepInv' /\ SleepInv
  BY SleepInvStep DEF ClientInv
<1>a. MaxSleep \in Nat /\ Longest \in Nat /\ MaxSleep <= Longest /\ Longest' = Longest
  BY DEF Longest, MaxSleep, Times
<1>1. CASE Reconnect
  BY <1>0, <1>a, <1>1 DEF Reconnect, ClientInv
<1>2. CASE Publish
  <2>1. sleep' = 0 /\ UNCHANGED <<state, last_msg_in, ping_t, link, dead>>
    BY <1>2 DEF Publish
  <2> QED
    BY <1>0, <1>a, <2>1 DEF ClientInv, SleepInv
<1>3. CASE CheckKeepalive
  <2>0. PICK n \in Nat : sleep' = n /\ n <= MaxSleep
    BY <1>0 DEF SleepInv, MaxSleep
  <2>1. CASE last_msg_out >= keepalive \/ last_msg_in >= keepalive
    <3>1. CASE state = "active" /\ ~ping_t
      <4>1. last_msg_in' = 0 /\ ping_t' = TRUE /\ UNCHANGED <<state, link, dead>>
        BY <1>3, <2>1, <3>1 DEF CheckKeepalive
      <4>2. link = "dead" => dead <= last_msg_in /\ last_msg_in <= Longest
        BY <1>a, <3>1 DEF ClientInv, SleepInv
      <4>3. /\ last_msg_in' + sleep' <= Longest
            /\ link = "dead" => dead <= last_msg_in' + Longest
        BY <1>a, <2>0, <4>1, <4>2 DEF ClientInv
      <4> QED
        BY <1>0, <1>a, <4>1, <4>3 DEF ClientInv
    <3>2. CASE ~(state = "active" /\ ~ping_t)
      BY <1>0, <1>3, <2>1, <3>2 DEF CheckKeepalive, Close, ClientInv
    <3> QED
      BY <3>1, <3>2
  <2>2. CASE ~(last_msg_out >= keepalive \/ last_msg_in >= keepalive)
    <3>1. UNCHANGED <<state, last_msg_in, ping_t, link, dead>>
      BY <1>3, <2>2 DEF CheckKeepalive
    <3>2. last_msg_in + sleep' <= Longest
      <4>1. last_msg_in \in Nat /\ last_msg_in < keepalive /\ keepalive \in Nat
        BY <2>2 DEF ClientInv, Times
      <4> QED
        BY <1>a, <2>0, <4>1 DEF Longest
    <3> QED
      BY <1>0, <1>a, <3>1, <3>2 DEF ClientInv
  <2> QED
    BY <2>1, <2>2
<1>4. CASE ClientRead
  <2>1. sleep' = 0 /\ last_msg_in' = 0 /\ link = "works" /\ UNCHANGED <<link, dead>>
    BY <1>4 DEF ClientRead
  <2> QED
    BY <1>0, <1>a, <2>1 DEF ClientInv
<1>5. CASE BrokerRead \/ BrokerPublish
  BY <1>0, <1>a, <1>5 DEF BrokerRead, BrokerPublish, client, ClientInv
<1>6. CASE Refused \/ BrokerLoop
  BY <1>0, <1>a, <1>6 DEF Refused, Close, BrokerLoop, ClientInv
<1>7. CASE Die \/ Repair
  BY <1>0, <1>a, <1>7 DEF Die, Repair, client, ClientInv
<1>8. CASE Tick
  <2>1. state # "none" => sleep' = sleep - 1
    BY <1>8 DEF Tick
  <2>2. UNCHANGED <<state, ping_t, link>>
    BY <1>8 DEF Tick
  <2>3. dead' = IF link = "dead" THEN dead + 1 ELSE dead
    BY <1>8 DEF Tick
  <2>4. last_msg_in' = IF state = "none" THEN last_msg_in ELSE last_msg_in + 1
    BY <1>8 DEF Tick
  <2>5. state # "none" /\ link = "dead" => dead <= last_msg_in + (IF ping_t THEN Longest ELSE 0)
    BY DEF ClientInv
  <2>6. state # "none" /\ link = "dead" => dead' <= last_msg_in' + (IF ping_t THEN Longest ELSE 0)
    BY <1>a, <2>3, <2>4, <2>5 DEF ClientInv
  <2>7. state # "none" => last_msg_in' + sleep' <= Longest
    BY <1>a, <2>1, <2>4 DEF ClientInv, SleepInv
  <2>8. last_msg_in' \in Nat /\ dead' \in Nat
    BY <2>3, <2>4 DEF ClientInv
  <2> QED
    BY <1>0, <1>a, <2>2, <2>6, <2>7, <2>8 DEF ClientInv
<1>9. CASE UNCHANGED vars
  BY <1>0, <1>a, <1>9 DEF vars, client, network, ClientInv
<1> QED
  BY <1>1, <1>2, <1>3, <1>4, <1>5, <1>6, <1>7, <1>8, <1>9 DEF Next

LEMMA BrokerInvStep ==
  ASSUME Allowed \in Nat, BrokerInv, [Next]_vars
  PROVE  BrokerInv'
<1>1. CASE Reconnect
  BY <1>1 DEF Reconnect, BrokerInv
<1>2. CASE Publish \/ ClientRead \/ Refused \/ BrokerPublish \/ CheckKeepalive
  <2>1. UNCHANGED <<peer, heard, checked, link, dead>>
    BY <1>2 DEF Publish, ClientRead, Refused, BrokerPublish, CheckKeepalive, broker
  <2> QED
    BY <2>1 DEF BrokerInv
<1>3. CASE BrokerRead
  BY <1>3 DEF BrokerRead, BrokerInv
<1>4. CASE BrokerLoop
  BY <1>4 DEF BrokerLoop, BrokerInv, Allowed
<1>5. CASE Die \/ Repair
  BY <1>5 DEF Die, Repair, broker, BrokerInv
<1>6. CASE Tick
  <2>1. checked /\ checked' = FALSE /\ UNCHANGED <<peer, link>>
    BY <1>6 DEF Tick
  <2>2. /\ dead' = IF link = "dead" THEN dead + 1 ELSE dead
        /\ heard' = IF peer THEN heard + 1 ELSE 0
    BY <1>6 DEF Tick
  <2> QED
    BY <2>1, <2>2 DEF BrokerInv
<1>7. CASE UNCHANGED vars
  BY <1>7 DEF vars, broker, network, BrokerInv
<1> QED
  BY <1>1, <1>2, <1>3, <1>4, <1>5, <1>6, <1>7 DEF Next

LEMMA BothInvInit == Times /\ Init => ClientInv /\ BrokerInv
BY DEF Init, ClientInv, SleepInv, BrokerInv, Times, Longest, MaxSleep

LEMMA BothInvStep == Times /\ ClientInv /\ BrokerInv /\ [Next]_vars => ClientInv' /\ BrokerInv'
<1>1. Times => Allowed \in Nat
  BY DEF Allowed, Times
<1> QED
  BY <1>1, ClientInvStep, BrokerInvStep

LEMMA DeathIsNoticed == Times /\ ClientInv /\ BrokerInv => DeadPeerDetected
<1> SUFFICES ASSUME Times, ClientInv, BrokerInv, link = "dead" PROVE DeadPeerDetected
  BY DEF DeadPeerDetected
<1>1. Allowed \in Nat /\ Longest \in Nat
  BY DEF Allowed, Longest, MaxSleep, Times
<1>2. state # "none" => dead <= 2 * Longest
  BY <1>1 DEF ClientInv, SleepInv
<1>3. peer => dead <= Allowed + 1
  BY <1>1 DEF BrokerInv
<1> QED
  BY <1>2, <1>3 DEF DeadPeerDetected, Longest, Allowed

(* mosquitto_loop, mosquitto__check_keepalive and mosquitto_main_loop: for  *)
(* every keepalive interval and every timeout of select(), whenever the    *)
(* application publishes and however long packets take, neither end keeps  *)
(* a connection on a network that died.                                    *)
THEOREM ADeadPeerIsDetected ==
  ASSUME Times
  PROVE  Spec => []DeadPeerDetected
BY BothInvInit, BothInvStep, DeathIsNoticed, PTL DEF Spec
-----------------------------------------------------------------------------
(* Packets on their way: what the queue operations do to them.             *)
UpPackets == [k : {"CONNECT", "PINGREQ", "PUBLISH"}, age : Nat]
DownPackets == [k : {"CONNACK", "PINGRESP", "PUBLISH"}, age : Nat]

Fresh(q) == \A n \in 1..Len(q) : q[n].age <= MaxDelay

(* A packet of kind k is in q, and since it was sent the client counts no  *)
(* more than its age, and b for the way before.                            *)
Waits(q, k, in, out, b) ==
  \E n \in 1..Len(q) :
    q[n].k = k /\ in <= b + q[n].age /\ out <= b + q[n].age

LEMMA AppendFacts ==
  ASSUME NEW S, NEW q \in Seq(S), NEW x \in S
  PROVE  /\ Append(q, x) \in Seq(S) /\ Len(Append(q, x)) = Len(q) + 1
         /\ Len(q) \in Nat
         /\ \A n \in 1..Len(q) : Append(q, x)[n] = q[n]
         /\ Append(q, x)[Len(q) + 1] = x
BY AppendProperties

LEMMA TailFacts ==
  ASSUME NEW S, NEW q \in Seq(S), q # <<>>
  PROVE  /\ Tail(q) \in Seq(S) /\ Len(Tail(q)) = Len(q) - 1
         /\ Len(q) \in Nat \ {0} /\ Head(q) = q[1] /\ q[1] \in S
         /\ \A n \in 1..Len(q) - 1 : Tail(q)[n] = q[n + 1]
<1>1. Len(q) \in Nat \ {0}
  BY EmptySeq
<1> QED
  BY <1>1, HeadTailProperties, ElementOfSeq

LEMMA PacketType ==
  /\ \A k \in {"CONNECT", "PINGREQ", "PUBLISH"} : Packet(k) \in UpPackets
  /\ \A k \in {"CONNACK", "PINGRESP", "PUBLISH"} : Packet(k) \in DownPackets
  /\ \A k : Packet(k).k = k /\ Packet(k).age = 0
BY DEF Packet, UpPackets, DownPackets

LEMMA MoreFacts ==
  ASSUME NEW S, NEW q \in Seq(S), Packet("PUBLISH") \in S
  PROVE  /\ More(q) \in Seq(S)
         /\ (More(q) = q /\ q # <<>>) \/ More(q) = Append(q, Packet("PUBLISH"))
BY AppendFacts DEF More

LEMMA RestFacts ==
  ASSUME NEW S, NEW q \in Seq(S), q # <<>>, NEW r \in Rest(q)
  PROVE  /\ r \in Seq(S)
         /\ r = Tail(q) \/ (r = q /\ q[1].k = "PUBLISH")
BY TailFacts DEF Rest

LEMMA AnswerFacts ==
  ASSUME NEW k \in {"CONNECT", "PINGREQ", "PUBLISH"}, NEW q \in Seq(DownPackets)
  PROVE  q \o Answer[k] = CASE k = "CONNECT" -> Append(q, Packet("CONNACK"))
                            [] k = "PINGREQ" -> Append(q, Packet("PINGRESP"))
                            [] k = "PUBLISH" -> q
<1>1. Answer["CONNECT"] = <<Packet("CONNACK")>> /\ Answer["PINGREQ"] = <<Packet("PINGRESP")>>
      /\ Answer["PUBLISH"] = <<>>
  BY DEF Answer
<1>2. Packet("CONNACK") \in DownPackets /\ Packet("PINGRESP") \in DownPackets
  BY PacketType
<1>3. /\ Append(q, Packet("CONNACK")) = q \o <<Packet("CONNACK")>>
      /\ Append(q, Packet("PINGRESP")) = q \o <<Packet("PINGRESP")>>
  BY <1>2, AppendIsConcat
<1>4. q \o <<>> = q
  BY ConcatEmptySeq
<1> QED
  BY <1>1, <1>3, <1>4

LEMMA OlderFacts ==
  ASSUME NEW K, NEW q \in Seq([k : K, age : Nat])
  PROVE  /\ Older(q) \in Seq([k : K, age : Nat]) /\ Len(Older(q)) = Len(q)
         /\ \A n \in 1..Len(q) :
              /\ Older(q)[n].k = q[n].k
              /\ link = "works" => Older(q)[n].age = q[n].age + 1
<1> DEFINE e(n) == [q[n] EXCEPT !.age = IF link = "works" THEN @ + 1 ELSE @]
           S == [k : K, age : Nat]
<1>1. Len(q) \in Nat /\ DOMAIN q = 1..Len(q)
  BY LenProperties
<1>2. \A n \in 1..Len(q) : q[n] \in S
  BY ElementOfSeq
<1>3. \A n \in 1..Len(q) : /\ e(n) \in S /\ e(n).k = q[n].k
                           /\ link = "works" => e(n).age = q[n].age + 1
  BY <1>2
<1>4. Older(q) = [n \in 1..Len(q) |-> e(n)]
  BY <1>1 DEF Older
<1> HIDE DEF e, S
<1>5. [n \in 1..Len(q) |-> e(n)] \in Seq(S)
  BY <1>1, <1>3, IsASeq
<1>6. Len([n \in 1..Len(q) |-> e(n)]) = Len(q)
  BY <1>1
<1>7. \A n \in 1..Len(q) : [j \in 1..Len(q) |-> e(j)][n] = e(n)
  OBVIOUS
<1> QED
  BY <1>3, <1>4, <1>5, <1>6, <1>7 DEF S

LEMMA WaitsAppend ==
  ASSUME NEW S, NEW q \in Seq(S), NEW x \in S, NEW k, NEW in, NEW out, NEW b,
         Waits(q, k, in, out, b)
  PROVE  Waits(Append(q, x), k, in, out, b)
<1>1. PICK n \in 1..Len(q) : q[n].k = k /\ in <= b + q[n].age /\ out <= b + q[n].age
  BY DEF Waits
<1>2. Len(q) \in Nat /\ Len(Append(q, x)) = Len(q) + 1 /\ Append(q, x)[n] = q[n]
  BY AppendFacts
<1>3. n \in 1..Len(Append(q, x))
  BY <1>2
<1> QED
  BY <1>1, <1>2, <1>3 DEF Waits

LEMMA WaitsLast ==
  ASSUME NEW S, NEW q \in Seq(S), NEW x \in S, NEW in, NEW out, NEW b,
         in <= b + x.age, out <= b + x.age
  PROVE  Waits(Append(q, x), x.k, in, out, b)
<1>1. /\ Len(q) \in Nat /\ Len(Append(q, x)) = Len(q) + 1
      /\ Append(q, x)[Len(q) + 1] = x
  BY AppendFacts
<1>2. Len(q) + 1 \in 1..Len(Append(q, x))
  BY <1>1
<1> QED
  BY <1>1, <1>2 DEF Waits

LEMMA WaitsTail ==
  ASSUME NEW S, NEW q \in Seq(S), q # <<>>, NEW k, NEW in, NEW out, NEW b,
         Waits(q, k, in, out, b)
  PROVE  \/ Head(q).k = k /\ in <= b + Head(q).age /\ out <= b + Head(q).age
         \/ Waits(Tail(q), k, in, out, b)
<1>1. PICK n \in 1..Len(q) : q[n].k = k /\ in <= b + q[n].age /\ out <= b + q[n].age
  BY DEF Waits
<1>2. /\ Len(q) \in Nat \ {0} /\ Head(q) = q[1] /\ Len(Tail(q)) = Len(q) - 1
      /\ \A j \in 1..Len(q) - 1 : Tail(q)[j] = q[j + 1]
  BY TailFacts
<1>3. CASE n = 1
  BY <1>1, <1>2, <1>3
<1>4. CASE n # 1
  <2>1. n - 1 \in 1..Len(Tail(q)) /\ Tail(q)[n - 1] = q[n]
    BY <1>2, <1>4
  <2> QED
    BY <1>1, <2>1 DEF Waits
<1> QED
  BY <1>3, <1>4

LEMMA WaitsOlder ==
  ASSUME NEW K, NEW q \in Seq([k : K, age : Nat]), link = "works",
         NEW k, NEW in \in Nat, NEW out \in Nat, NEW b \in Nat,
         Waits(q, k, in, out, b)
  PROVE  Waits(Older(q), k, in + 1, out + 1, b)
<1>1. PICK n \in 1..Len(q) : q[n].k = k /\ in <= b + q[n].age /\ out <= b + q[n].age
  BY DEF Waits
<1>2. q[n] \in [k : K, age : Nat]
  BY ElementOfSeq
<1>3. /\ Len(Older(q)) = Len(q) /\ Older(q)[n].k = q[n].k
      /\ Older(q)[n].age = q[n].age + 1
  BY OlderFacts
<1>4. in + 1 <= b + Older(q)[n].age /\ out + 1 <= b + Older(q)[n].age
  BY <1>1, <1>2, <1>3
<1> QED
  BY <1>1, <1>3, <1>4 DEF Waits

LEMMA WaitsBound ==
  ASSUME NEW K, NEW q \in Seq([k : K, age : Nat]), Fresh(q), MaxDelay \in Nat,
         NEW k, NEW in \in Nat, NEW out \in Nat, NEW b \in Nat,
         Waits(q, k, in, out, b)
  PROVE  in <= b + MaxDelay /\ out <= b + MaxDelay
<1>1. PICK n \in 1..Len(q) : in <= b + q[n].age /\ out <= b + q[n].age
  BY DEF Waits
<1>2. q[n] \in [k : K, age : Nat]
  BY ElementOfSeq
<1>3. q[n].age \in Nat /\ q[n].age <= MaxDelay
  BY <1>2 DEF Fresh
<1>4. \A a \in Nat : a <= MaxDelay =>
        /\ in <= b + a => in <= b + MaxDelay
        /\ out <= b + a => out <= b + MaxDelay
  OBVIOUS
<1> QED
  BY <1>1, <1>3, <1>4

LEMMA FreshAppend ==
  ASSUME NEW S, NEW q \in Seq(S), NEW x \in S, Fresh(q), x.age = 0, MaxDelay \in Nat
  PROVE  Fresh(Append(q, x))
<1>1. /\ Len(q) \in Nat /\ Len(Append(q, x)) = Len(q) + 1
      /\ Append(q, x)[Len(q) + 1] = x
      /\ \A n \in 1..Len(q) : Append(q, x)[n] = q[n]
  BY AppendFacts
<1>2. ASSUME NEW n \in 1..Len(Append(q, x)) PROVE Append(q, x)[n].age <= MaxDelay
  <2>1. n \in 1..Len(q) \/ n = Len(q) + 1
    BY <1>1
  <2> QED
    BY <1>1, <2>1 DEF Fresh
<1> QED
  BY <1>2 DEF Fresh

LEMMA FreshTail ==
  ASSUME NEW S, NEW q \in Seq(S), q # <<>>, Fresh(q)
  PROVE  Fresh(Tail(q))
<1>1. /\ Len(q) \in Nat \ {0} /\ Len(Tail(q)) = Len(q) - 1
      /\ \A n \in 1..Len(q) - 1 : Tail(q)[n] = q[n + 1]
  BY TailFacts
<1>2. ASSUME NEW n \in 1..Len(Tail(q)) PROVE Tail(q)[n].age <= MaxDelay
  <2>1. n + 1 \in 1..Len(q) /\ Tail(q)[n] = q[n + 1]
    BY <1>1
  <2> QED
    BY <2>1 DEF Fresh
<1> QED
  BY <1>2 DEF Fresh

LEMMA FreshOlder ==
  ASSUME NEW K, NEW q \in Seq([k : K, age : Nat]), MaxDelay \in Nat, link = "works",
         \A x \in ToSet(q) : x.age < MaxDelay
  PROVE  Fresh(Older(q))
<1>1. DOMAIN q = 1..Len(q)
  BY LenProperties
<1>2. ASSUME NEW n \in 1..Len(q) PROVE q[n].age \in Nat /\ q[n].age + 1 <= MaxDelay
  <2>1. q[n] \in [k : K, age : Nat]
    BY ElementOfSeq
  <2>2. q[n].age < MaxDelay
    BY <1>1 DEF ToSet
  <2> QED
    BY <2>1, <2>2
<1>3. /\ Len(Older(q)) = Len(q)
      /\ \A n \in 1..Len(q) : Older(q)[n].age = q[n].age + 1
  BY OlderFacts
<1> QED
  BY <1>2, <1>3 DEF Fresh

-----------------------------------------------------------------------------
LiveTypes ==
  /\ state \in {"none", "connected", "active"} /\ (state = "connected" => ~ping_t)
  /\ last_msg_in \in Nat /\ heard \in Nat /\ SleepInv
  /\ up \in Seq(UpPackets) /\ down \in Seq(DownPackets)

(* What the client waits for is on its way, one way or the other.          *)
AnswerDue(ask, answer) ==
  \/ Waits(up, ask, last_msg_in, last_msg_out, 0)
  \/ Waits(down, answer, last_msg_in, last_msg_out, MaxDelay)

(* While the network works: no packet is late, the broker knows the client *)
(* or is yet to read its CONNECT, the client sent something in the last    *)
(* interval (SleepInv), and the broker has read what it sent before.       *)
Alive ==
  /\ link = "works" /\ Fresh(up) /\ Fresh(down)
  /\ peer \/ (up # <<>> /\ up[1].k = "CONNECT")
  /\ state = "connected" => AnswerDue("CONNECT", "CONNACK")
  /\ ping_t => AnswerDue("PINGREQ", "PINGRESP")
  /\ peer => heard <= (IF up = <<>> THEN last_msg_out ELSE keepalive + up[1].age)

(* A ping and its answer take less than a keepalive interval.              *)
QuickEnough == Times /\ MaxDelay \in Nat /\ 2 * MaxDelay < keepalive

LiveInv == LiveTypes /\ (state # "none" /\ ~late => Alive)

LEMMA LiveTypesStep ==
  ASSUME Times, LiveTypes, [Next]_vars
  PROVE  LiveTypes'
<1>a. SleepInv'
  BY SleepInvStep DEF LiveTypes
<1>0. /\ \A k \in {"CONNECT", "PINGREQ", "PUBLISH"} :
           <<Packet(k)>> \in Seq(UpPackets) /\ Append(up, Packet(k)) \in Seq(UpPackets)
      /\ \A k \in {"CONNACK", "PINGRESP", "PUBLISH"} :
           <<Packet(k)>> \in Seq(DownPackets) /\ Append(down, Packet(k)) \in Seq(DownPackets)
      /\ <<>> \in Seq(UpPackets) /\ <<>> \in Seq(DownPackets)
  BY PacketType DEF LiveTypes
<1>1. CASE Reconnect
  BY <1>0, <1>a, <1>1 DEF Reconnect, LiveTypes
<1>2. CASE Publish
  <2>1. More(up) \in Seq(UpPackets)
    BY PacketType, MoreFacts DEF LiveTypes
  <2> QED
    BY <1>a, <1>2, <2>1 DEF Publish, broker, LiveTypes
<1>3. CASE CheckKeepalive
  <2>1. CASE /\ state = "active" /\ Send("PINGREQ") /\ ping_t' = TRUE
             /\ last_msg_in' = 0 /\ UNCHANGED <<state, down>>
    BY <1>0, <1>a, <1>3, <2>1 DEF CheckKeepalive, Send, broker, LiveTypes
  <2>2. CASE Close
    BY <1>0, <1>a, <1>3, <2>2 DEF CheckKeepalive, Close, broker, LiveTypes
  <2>3. CASE UNCHANGED <<state, last_msg_in, last_msg_out, ping_t, up, down>>
    BY <1>a, <1>3, <2>3 DEF CheckKeepalive, broker, LiveTypes
  <2> QED
    BY <1>3, <2>1, <2>2, <2>3 DEF CheckKeepalive
<1>4. CASE ClientRead
  <2>1. down' \in Seq(DownPackets)
    BY <1>4, RestFacts DEF ClientRead, LiveTypes
  <2> QED
    BY <1>a, <1>4, <2>1 DEF ClientRead, broker, LiveTypes
<1>5. CASE BrokerRead
  <2>1. up' \in Seq(UpPackets) /\ Head(up) \in UpPackets
    BY <1>5, RestFacts, TailFacts DEF BrokerRead, LiveTypes
  <2>2. down \o Answer[Head(up).k] \in Seq(DownPackets)
    <3>1. Head(up).k \in {"CONNECT", "PINGREQ", "PUBLISH"} /\ down \in Seq(DownPackets)
      BY <2>1 DEF LiveTypes, UpPackets
    <3> QED
      BY <1>0, <3>1, AnswerFacts
  <2> QED
    BY <1>a, <1>5, <2>1, <2>2 DEF BrokerRead, client, LiveTypes
<1>6. CASE BrokerPublish
  <2>1. More(down) \in Seq(DownPackets)
    BY PacketType, MoreFacts DEF LiveTypes
  <2> QED
    BY <1>a, <1>6, <2>1 DEF BrokerPublish, client, broker, LiveTypes
<1>7. CASE BrokerLoop
  BY <1>0, <1>a, <1>7 DEF BrokerLoop, LiveTypes
<1>b. CASE Refused
  BY <1>0, <1>a, <1>b DEF Refused, Close, broker, LiveTypes
<1>8. CASE Die \/ Repair
  BY <1>a, <1>8 DEF Die, Repair, client, broker, LiveTypes
<1>9. CASE Tick
  <2>1. Older(up) \in Seq(UpPackets) /\ Older(down) \in Seq(DownPackets)
    BY OlderFacts DEF LiveTypes, UpPackets, DownPackets
  <2> QED
    BY <1>a, <1>9, <2>1 DEF Tick, LiveTypes
<1>10. CASE UNCHANGED vars
  BY <1>a, <1>10 DEF vars, client, broker, network, LiveTypes
<1> QED
  BY <1>1, <1>2, <1>3, <1>4, <1>5, <1>6, <1>7, <1>b, <1>8, <1>9, <1>10 DEF Next

(* With an answer due neither counter has run down.                        *)
LEMMA AnswerInTime ==
  ASSUME QuickEnough,
         LiveTypes, Alive, state = "connected" \/ ping_t
  PROVE  last_msg_in < keepalive /\ last_msg_out < keepalive
<1>1. PICK ask, answer : AnswerDue(ask, answer)
  BY DEF Alive
<1>2. CASE Waits(up, ask, last_msg_in, last_msg_out, 0)
  <2>1. last_msg_in <= 0 + MaxDelay /\ last_msg_out <= 0 + MaxDelay
    BY <1>2, WaitsBound DEF Alive, LiveTypes, SleepInv, UpPackets, QuickEnough, Times
  <2> QED
    BY <2>1 DEF LiveTypes, SleepInv, QuickEnough, Times
<1>3. CASE Waits(down, answer, last_msg_in, last_msg_out, MaxDelay)
  <2>1. last_msg_in <= MaxDelay + MaxDelay /\ last_msg_out <= MaxDelay + MaxDelay
    BY <1>3, WaitsBound DEF Alive, LiveTypes, SleepInv, DownPackets, QuickEnough, Times
  <2> QED
    BY <2>1 DEF LiveTypes, SleepInv, QuickEnough, Times
<1> QED
  BY <1>1, <1>2, <1>3 DEF AnswerDue

(* The broker's own check is never due either.                             *)
LEMMA HeardInTime ==
  ASSUME QuickEnough,
         LiveTypes, Alive, peer
  PROVE  heard <= Allowed
<1>1. keepalive + MaxDelay <= Allowed
  BY DEF Allowed, QuickEnough, Times
<1>2. CASE up = <<>>
  BY <1>1, <1>2 DEF Alive, LiveTypes, SleepInv, Allowed, QuickEnough, Times
<1>3. CASE up # <<>>
  <2>1. up[1].age \in Nat /\ up[1].age <= MaxDelay
    <3>1. up[1] \in UpPackets /\ 1 \in 1..Len(up)
      BY <1>3, TailFacts DEF LiveTypes
    <3> QED
      BY <3>1 DEF Alive, Fresh, UpPackets
  <2> QED
    BY <1>1, <1>3, <2>1 DEF Alive, LiveTypes, SleepInv, Allowed, QuickEnough, Times
<1> QED
  BY <1>2, <1>3

-----------------------------------------------------------------------------
(* A connection that lived through late = FALSE goes on living, action by  *)
(* action.                                                                 *)
LEMMA AliveReconnect == QuickEnough /\ LiveInv /\ Reconnect => Alive'
<1> SUFFICES ASSUME QuickEnough, Reconnect PROVE Alive'
  OBVIOUS
<1> DEFINE x == Packet("CONNECT")
<1>1. x \in UpPackets /\ x.k = "CONNECT" /\ x.age = 0
  BY PacketType
<1> HIDE DEF x
<1>2. up' = Append(<<>>, x) /\ down' = <<>> /\ <<>> \in Seq(UpPackets) /\ Fresh(<<>>)
  BY DEF Reconnect, Fresh, x
<1>3. Fresh(up') /\ Fresh(down')
  BY <1>1, <1>2, FreshAppend DEF QuickEnough
<1>4. Waits(up', "CONNECT", last_msg_in', last_msg_out', 0)
  <2>1. last_msg_in' <= 0 + x.age /\ last_msg_out' <= 0 + x.age
    BY <1>1 DEF Reconnect
  <2> QED
    BY <1>1, <1>2, <2>1, WaitsLast
<1> QED
  <2>1. up' # <<>> /\ up'[1].k = "CONNECT"
    BY <1>1, <1>2 DEF x
  <2> QED
    BY <1>3, <1>4, <2>1 DEF Reconnect, Alive, AnswerDue, Fresh

(* packet__write: what was due is due still, and the broker has the more   *)
(* to read.                                                                *)
LEMMA AliveSend ==
  ASSUME QuickEnough, LiveTypes, Alive, NEW x \in UpPackets, x.age = 0
  PROVE  /\ Fresh(Append(up, x)) /\ Append(up, x) # <<>>
         /\ peer \/ Append(up, x)[1].k = "CONNECT"
         /\ peer => heard <= keepalive + Append(up, x)[1].age
<1>1. Fresh(Append(up, x))
  BY FreshAppend DEF LiveTypes, Alive, QuickEnough
<1>2. /\ Len(up) \in Nat /\ Append(up, x)[Len(up) + 1] = x
      /\ \A n \in 1..Len(up) : Append(up, x)[n] = up[n]
  BY AppendFacts DEF LiveTypes
<1>3. CASE up = <<>>
  <2>1. Append(up, x)[1] = x
    BY <1>2, <1>3
  <2> QED
    BY <1>1, <1>3, <2>1 DEF Alive, LiveTypes, SleepInv, QuickEnough, Times
<1>4. CASE up # <<>>
  <2>1. 1 \in 1..Len(up)
    BY <1>4, TailFacts DEF LiveTypes
  <2> QED
    BY <1>1, <1>2, <1>4, <2>1 DEF Alive
<1> QED
  BY <1>3, <1>4

LEMMA AlivePublish == QuickEnough /\ LiveTypes /\ Alive /\ Publish => Alive'
<1> SUFFICES ASSUME QuickEnough, LiveTypes, Alive, Publish PROVE Alive'
  OBVIOUS
<1> DEFINE x == Packet("PUBLISH")
<1>1. x \in UpPackets /\ x.age = 0
  BY PacketType
<1>2. /\ UNCHANGED <<link, state, down, peer, heard, ping_t, last_msg_in>>
      /\ last_msg_out' = 0 /\ state = "active"
  BY DEF Publish, broker, Alive
<1>3. up' = Append(up, x) \/ (up' = up /\ up # <<>>)
  BY <1>1, MoreFacts DEF Publish, LiveTypes
<1> HIDE DEF x
<1>4. /\ Fresh(up') /\ up' # <<>>
      /\ peer \/ up'[1].k = "CONNECT"
      /\ peer => heard <= keepalive + up'[1].age
  BY <1>1, <1>3, AliveSend DEF Alive
<1>5. ASSUME NEW q, NEW k, NEW b \in Nat, Waits(q, k, last_msg_in, last_msg_out, b),
             q \in Seq(UpPackets) \/ q \in Seq(DownPackets)
      PROVE  Waits(q, k, last_msg_in, 0, b)
  <2>1. PICK n \in 1..Len(q) : q[n].k = k /\ last_msg_in <= b + q[n].age
    BY <1>5 DEF Waits
  <2>2. q[n].age \in Nat
    <3>1. q[n] \in UpPackets \/ q[n] \in DownPackets
      BY <1>5, ElementOfSeq
    <3> QED
      BY <3>1 DEF UpPackets, DownPackets
  <2> QED
    BY <1>5, <2>1, <2>2 DEF Waits
<1>6. ping_t => AnswerDue("PINGREQ", "PINGRESP")'
  <2> SUFFICES ASSUME ping_t PROVE AnswerDue("PINGREQ", "PINGRESP")'
    OBVIOUS
  <2>1. CASE Waits(up, "PINGREQ", last_msg_in, last_msg_out, 0)
    <3>1. Waits(up, "PINGREQ", last_msg_in, 0, 0)
      BY <1>5, <2>1 DEF LiveTypes
    <3>2. Waits(up', "PINGREQ", last_msg_in, 0, 0)
      BY <1>1, <1>3, <3>1, WaitsAppend DEF LiveTypes
    <3> QED
      BY <1>2, <3>2 DEF AnswerDue
  <2>2. CASE Waits(down, "PINGRESP", last_msg_in, last_msg_out, MaxDelay)
    <3>1. Waits(down, "PINGRESP", last_msg_in, 0, MaxDelay)
      BY <1>5, <2>2 DEF LiveTypes, QuickEnough
    <3> QED
      BY <1>2, <3>1 DEF AnswerDue
  <2> QED
    BY <2>1, <2>2 DEF Alive, AnswerDue
<1> QED
  BY <1>2, <1>4, <1>6 DEF Alive, Fresh

LEMMA AliveCheckKeepalive ==
  ASSUME QuickEnough, LiveTypes, Alive, CheckKeepalive
  PROVE  state' = state /\ Alive'
<1>1. UNCHANGED <<peer, heard, link>>
  BY DEF CheckKeepalive, broker
<1>2. CASE last_msg_out >= keepalive \/ last_msg_in >= keepalive
  <2>1. state = "active" /\ ~ping_t
    BY <1>2, AnswerInTime DEF CheckKeepalive, LiveTypes, SleepInv, QuickEnough, Times
  <2> DEFINE x == Packet("PINGREQ")
  <2>2. x \in UpPackets /\ x.k = "PINGREQ" /\ x.age = 0
    BY PacketType
  <2>3. /\ up' = Append(up, x) /\ last_msg_out' = 0 /\ last_msg_in' = 0
        /\ UNCHANGED <<state, down>>
    BY <1>2, <2>1 DEF CheckKeepalive, Send
  <2> HIDE DEF x
  <2>4. /\ Fresh(up') /\ up' # <<>>
        /\ peer \/ up'[1].k = "CONNECT"
        /\ peer => heard <= keepalive + up'[1].age
    BY <2>2, <2>3, AliveSend
  <2>5. Waits(up', "PINGREQ", last_msg_in', last_msg_out', 0)
    <3>1. last_msg_in' <= 0 + x.age /\ last_msg_out' <= 0 + x.age
      BY <2>2, <2>3
    <3> QED
      BY <2>2, <2>3, <3>1, WaitsLast DEF LiveTypes
  <2> QED
    BY <1>1, <2>1, <2>3, <2>4, <2>5 DEF Alive, AnswerDue, QuickEnough, Fresh
<1>3. CASE ~(last_msg_out >= keepalive \/ last_msg_in >= keepalive)
  <2>1. UNCHANGED <<state, last_msg_in, last_msg_out, ping_t, up, down>>
    BY <1>3 DEF CheckKeepalive
  <2> QED
    BY <1>1, <1>3, <2>1 DEF Alive, AnswerDue, LiveTypes, QuickEnough, Fresh, Waits
<1> QED
  BY <1>2, <1>3

(* packet__read of the client: an answer that is read is due no more.      *)
LEMMA AliveClientRead == QuickEnough /\ LiveTypes /\ Alive /\ ClientRead => Alive'
<1> SUFFICES ASSUME QuickEnough, LiveTypes, Alive, ClientRead PROVE Alive'
  OBVIOUS
<1>1. /\ down # <<>> /\ last_msg_in' = 0
      /\ down' = Tail(down) \/ (down' = down /\ down[1].k = "PUBLISH")
      /\ UNCHANGED <<last_msg_out, peer, heard, up, link>>
  BY RestFacts DEF ClientRead, broker, LiveTypes
<1>2. Fresh(up') /\ Fresh(down')
  BY <1>1, FreshTail DEF Alive, LiveTypes, Fresh
<1>a. Head(down) = down[1]
  BY <1>1, TailFacts DEF LiveTypes
<1>3. ASSUME NEW q, NEW k, NEW b, Waits(q, k, last_msg_in, last_msg_out, b),
             q \in Seq(UpPackets) \/ q \in Seq(DownPackets), b \in Nat
      PROVE  Waits(q, k, 0, last_msg_out, b)
  <2>1. PICK n \in 1..Len(q) : q[n].k = k /\ last_msg_out <= b + q[n].age
    BY <1>3 DEF Waits
  <2>2. q[n].age \in Nat
    <3>1. q[n] \in UpPackets \/ q[n] \in DownPackets
      BY <1>3, ElementOfSeq
    <3> QED
      BY <3>1 DEF UpPackets, DownPackets
  <2> QED
    BY <1>3, <2>1, <2>2 DEF Waits
<1>4. ASSUME NEW ask, NEW answer, AnswerDue(ask, answer), Head(down).k # answer
      PROVE  AnswerDue(ask, answer)'
  <2>1. CASE Waits(up, ask, last_msg_in, last_msg_out, 0)
    <3>1. Waits(up, ask, 0, last_msg_out, 0)
      BY <1>3, <2>1 DEF LiveTypes
    <3> QED
      BY <1>1, <3>1 DEF AnswerDue
  <2>2. CASE Waits(down, answer, last_msg_in, last_msg_out, MaxDelay)
    <3>1. Waits(down, answer, 0, last_msg_out, MaxDelay)
      BY <1>3, <2>2 DEF LiveTypes, SleepInv, QuickEnough, Times
    <3>2. Waits(down', answer, 0, last_msg_out, MaxDelay)
      BY <1>1, <1>4, <3>1, WaitsTail DEF LiveTypes
    <3> QED
      BY <1>1, <3>2 DEF AnswerDue
  <2> QED
    BY <1>4, <2>1, <2>2 DEF AnswerDue
<1>5. state' = "connected" => AnswerDue("CONNECT", "CONNACK")'
  <2> SUFFICES ASSUME state' = "connected" PROVE AnswerDue("CONNECT", "CONNACK")'
    OBVIOUS
  <2>1. state = "connected" /\ Head(down).k # "CONNACK"
    BY DEF ClientRead
  <2> QED
    BY <1>4, <2>1 DEF Alive
<1>6. ping_t' => AnswerDue("PINGREQ", "PINGRESP")'
  <2> SUFFICES ASSUME ping_t' PROVE AnswerDue("PINGREQ", "PINGRESP")'
    OBVIOUS
  <2>1. ping_t /\ Head(down).k # "PINGRESP"
    BY DEF ClientRead
  <2> QED
    BY <1>4, <2>1 DEF Alive
<1> QED
  BY <1>1, <1>2, <1>5, <1>6 DEF Alive

(* packet__read of the broker: what is due goes from one queue to the      *)
(* other.                                                                  *)
LEMMA AliveBrokerRead == QuickEnough /\ LiveTypes /\ Alive /\ BrokerRead => Alive'
<1> SUFFICES ASSUME QuickEnough, LiveTypes, Alive, BrokerRead PROVE Alive'
  OBVIOUS
<1>1. /\ up # <<>> /\ up' \in Seq(UpPackets) /\ heard' = 0 /\ peer'
      /\ up' = Tail(up) \/ (up' = up /\ up[1].k = "PUBLISH")
      /\ down' = down \o Answer[Head(up).k]
      /\ UNCHANGED <<state, last_msg_in, last_msg_out, ping_t, link>>
  BY RestFacts DEF BrokerRead, client, LiveTypes
<1>2. Head(up) = up[1] /\ up[1] \in UpPackets /\ up[1].age <= MaxDelay
  BY <1>1, TailFacts DEF LiveTypes, Alive, Fresh
<1>3. down' = CASE Head(up).k = "CONNECT" -> Append(down, Packet("CONNACK"))
                [] Head(up).k = "PINGREQ" -> Append(down, Packet("PINGRESP"))
                [] Head(up).k = "PUBLISH" -> down
  BY <1>1, <1>2, AnswerFacts DEF LiveTypes, UpPackets
<1>4. Head(up).k \in {"CONNECT", "PINGREQ", "PUBLISH"} /\ Head(up).age \in Nat
  BY <1>2 DEF UpPackets
<1>5. Fresh(up')
  BY <1>1, FreshTail DEF Alive, LiveTypes, Fresh
<1>6. Fresh(down')
  BY <1>3, <1>4, PacketType, FreshAppend DEF Alive, LiveTypes, QuickEnough
<1>7. ASSUME NEW k, NEW b, Waits(down, k, last_msg_in, last_msg_out, b)
      PROVE  Waits(down', k, last_msg_in, last_msg_out, b)
  BY <1>3, <1>4, <1>7, PacketType, WaitsAppend DEF LiveTypes
<1>8. ASSUME NEW ask, NEW answer, AnswerDue(ask, answer),
             Head(up).k = ask => down' = Append(down, Packet(answer)),
             answer \in {"CONNACK", "PINGRESP"}
      PROVE  AnswerDue(ask, answer)'
  <2>1. CASE Waits(down, answer, last_msg_in, last_msg_out, MaxDelay)
    BY <1>1, <1>7, <2>1 DEF AnswerDue
  <2>2. CASE Waits(up', ask, last_msg_in, last_msg_out, 0)
    BY <1>1, <2>2 DEF AnswerDue
  <2>3. CASE /\ Head(up).k = ask /\ last_msg_in <= 0 + Head(up).age
             /\ last_msg_out <= 0 + Head(up).age
    <3> DEFINE x == Packet(answer)
    <3>1. x \in DownPackets /\ x.k = answer /\ x.age = 0
      BY <1>8, PacketType
    <3>2. down' = Append(down, x)
      BY <1>8, <2>3
    <3> HIDE DEF x
    <3>3. last_msg_in <= MaxDelay + x.age /\ last_msg_out <= MaxDelay + x.age
      BY <1>2, <1>4, <2>3, <3>1 DEF LiveTypes, SleepInv, QuickEnough, Times
    <3>4. Waits(Append(down, x), answer, last_msg_in, last_msg_out, MaxDelay)
      BY <3>1, <3>3, WaitsLast DEF LiveTypes
    <3> QED
      BY <1>1, <3>2, <3>4 DEF AnswerDue
  <2>4. CASE Waits(up, ask, last_msg_in, last_msg_out, 0)
    BY <1>1, <2>2, <2>3, <2>4, WaitsTail DEF LiveTypes
  <2> QED
    BY <1>8, <2>1, <2>4 DEF AnswerDue
<1>9. state' = "connected" => AnswerDue("CONNECT", "CONNACK")'
  BY <1>1, <1>3, <1>8 DEF Alive
<1>10. ping_t' => AnswerDue("PINGREQ", "PINGRESP")'
  BY <1>1, <1>3, <1>8 DEF Alive
<1>11. heard' <= (IF up' = <<>> THEN last_msg_out' ELSE keepalive + up'[1].age)
  <2>1. up' # <<>> => up'[1].age \in Nat
    <3>1. up' # <<>> => up'[1] \in UpPackets
      BY <1>1, TailFacts
    <3> QED
      BY <3>1 DEF UpPackets
  <2>2. /\ last_msg_out' \in Nat
        /\ \A n \in Nat : 0 <= keepalive + n
    BY <1>1 DEF LiveTypes, SleepInv, QuickEnough, Times
  <2>3. CASE up' = <<>>
    BY <1>1, <2>2, <2>3
  <2>4. CASE up' # <<>>
    BY <1>1, <2>1, <2>2, <2>4
  <2> QED
    BY <2>3, <2>4
<1> QED
  BY <1>1, <1>5, <1>6, <1>9, <1>10, <1>11 DEF Alive

LEMMA AliveBrokerPublish == QuickEnough /\ LiveTypes /\ Alive /\ BrokerPublish => Alive'
<1> SUFFICES ASSUME QuickEnough, LiveTypes, Alive, BrokerPublish PROVE Alive'
  OBVIOUS
<1> DEFINE x == Packet("PUBLISH")
<1>1. x \in DownPackets /\ x.age = 0
  BY PacketType
<1>2. /\ down' = Append(down, x) \/ down' = down
      /\ UNCHANGED <<state, last_msg_in, last_msg_out, ping_t, peer, heard, up, link>>
  BY <1>1, MoreFacts DEF BrokerPublish, client, broker, LiveTypes
<1> HIDE DEF x
<1>3. Fresh(down')
  BY <1>1, <1>2, FreshAppend DEF Alive, LiveTypes, QuickEnough, Fresh
<1>4. \A k : Waits(down, k, last_msg_in, last_msg_out, MaxDelay)
                => Waits(down', k, last_msg_in, last_msg_out, MaxDelay)
  BY <1>1, <1>2, WaitsAppend DEF LiveTypes
<1> QED
  BY <1>2, <1>3, <1>4 DEF Alive, AnswerDue, Fresh

(* Neither loop finds anything to close.                                   *)
LEMMA AliveBrokerLoop ==
  ASSUME QuickEnough, LiveTypes, Alive, BrokerLoop
  PROVE  state' = state /\ Alive'
<1>1. ~(peer /\ heard > (keepalive * 3) \div 2)
  <2> SUFFICES ASSUME peer PROVE ~(heard > (keepalive * 3) \div 2)
    OBVIOUS
  <2>1. heard <= (keepalive * 3) \div 2
    BY HeardInTime DEF Allowed
  <2>2. heard \in Nat /\ (keepalive * 3) \div 2 \in Int
    BY DEF LiveTypes, SleepInv, QuickEnough, Times
  <2> QED
    BY <2>1, <2>2
<1>2. UNCHANGED <<state, last_msg_in, last_msg_out, ping_t, peer, heard, up, down, link>>
  BY <1>1 DEF BrokerLoop
<1> QED
  BY <1>2 DEF Alive, AnswerDue, Waits, Fresh

(* No packet goes to a broker that does not expect it.                     *)
LEMMA AliveNotRefused == LiveTypes /\ Alive => ~Refused
<1> SUFFICES ASSUME LiveTypes, Alive, Refused PROVE FALSE
  OBVIOUS
<1>1. up # <<>> /\ ~peer /\ Head(up).k # "CONNECT"
  BY DEF Refused
<1>2. Head(up) = up[1]
  BY <1>1, TailFacts DEF LiveTypes
<1> QED
  BY <1>1, <1>2 DEF Alive

(* A second passes: every count and every age is one more.                 *)
LEMMA AliveTick ==
  ASSUME QuickEnough, LiveTypes, Alive, Tick, state # "none"
  PROVE  Alive'
<1>1. /\ link = "works"
      /\ \A p \in ToSet(up) \cup ToSet(down) : p.age < MaxDelay
      /\ last_msg_in' = last_msg_in + 1 /\ last_msg_out' = last_msg_out + 1
      /\ heard' = (IF peer THEN heard + 1 ELSE 0)
      /\ up' = Older(up) /\ down' = Older(down)
      /\ UNCHANGED <<state, ping_t, peer, link>>
  BY DEF Tick, Alive
<1>2. Fresh(up') /\ Fresh(down')
  <2>1. /\ \A p \in ToSet(up) : p.age < MaxDelay
        /\ \A p \in ToSet(down) : p.age < MaxDelay
    BY <1>1
  <2> QED
    BY <1>1, <2>1, FreshOlder DEF LiveTypes, UpPackets, DownPackets, QuickEnough
<1>3. peer \/ (up' # <<>> /\ up'[1].k = "CONNECT")
  <2> SUFFICES ASSUME ~peer PROVE up' # <<>> /\ up'[1].k = "CONNECT"
    OBVIOUS
  <2>1. up # <<>> /\ up[1].k = "CONNECT"
    BY DEF Alive
  <2>2. 1 \in 1..Len(up)
    BY <2>1, TailFacts DEF LiveTypes
  <2> QED
    BY <1>1, <2>1, <2>2, OlderFacts, EmptySeq DEF LiveTypes, UpPackets
<1>4. ASSUME NEW ask, NEW answer, AnswerDue(ask, answer)
      PROVE  AnswerDue(ask, answer)'
  <2>1. CASE Waits(up, ask, last_msg_in, last_msg_out, 0)
    <3>1. Waits(Older(up), ask, last_msg_in + 1, last_msg_out + 1, 0)
      BY <1>1, <2>1, WaitsOlder DEF LiveTypes, SleepInv, UpPackets
    <3> QED
      BY <1>1, <3>1 DEF AnswerDue
  <2>2. CASE Waits(down, answer, last_msg_in, last_msg_out, MaxDelay)
    <3>1. Waits(Older(down), answer, last_msg_in + 1, last_msg_out + 1, MaxDelay)
      BY <1>1, <2>2, WaitsOlder DEF LiveTypes, SleepInv, DownPackets, QuickEnough
    <3> QED
      BY <1>1, <3>1 DEF AnswerDue
  <2> QED
    BY <1>4, <2>1, <2>2 DEF AnswerDue
<1>5. peer' => heard' <= (IF up' = <<>> THEN last_msg_out' ELSE keepalive + up'[1].age)
  <2> SUFFICES ASSUME peer
               PROVE  heard' <= (IF up' = <<>> THEN last_msg_out' ELSE keepalive + up'[1].age)
    BY <1>1
  <2>1. CASE up = <<>>
    <3>1. Older(up) = <<>>
      BY <2>1, OlderFacts, EmptySeq DEF LiveTypes, UpPackets
    <3> QED
      BY <1>1, <2>1, <3>1 DEF Alive, LiveTypes, SleepInv
  <2>2. CASE up # <<>>
    <3>1. 1 \in 1..Len(up) /\ up[1] \in UpPackets
      BY <2>2, TailFacts DEF LiveTypes
    <3>2. up[1].age \in Nat /\ Older(up)[1].age = up[1].age + 1 /\ Older(up) # <<>>
      <4>1. Len(Older(up)) = Len(up) /\ Older(up)[1].age = up[1].age + 1
        BY <1>1, <3>1, OlderFacts DEF LiveTypes, UpPackets
      <4> QED
        BY <3>1, <4>1 DEF UpPackets
    <3>3. heard <= keepalive + up[1].age
      BY <2>2 DEF Alive
    <3>4. heard + 1 <= keepalive + (up[1].age + 1)
      <4>1. \A a \in Nat : heard <= keepalive + a => heard + 1 <= keepalive + (a + 1)
        BY DEF LiveTypes, SleepInv, QuickEnough, Times
      <4> QED
        BY <3>2, <3>3, <4>1
    <3> QED
      BY <1>1, <3>2, <3>4
  <2> QED
    BY <2>1, <2>2
<1> QED
  BY <1>1, <1>2, <1>3, <1>4, <1>5 DEF Alive

LEMMA LiveInvStep == QuickEnough /\ LiveInv /\ [Next]_vars => LiveInv'
<1> SUFFICES ASSUME QuickEnough, LiveInv, [Next]_vars, state' # "none", ~late'
             PROVE  Alive'
  BY LiveTypesStep DEF LiveInv, QuickEnough
<1>1. CASE Reconnect
  BY <1>1, AliveReconnect
<1>2. CASE Publish
  BY <1>2, AlivePublish DEF Publish, LiveInv
<1>3. CASE CheckKeepalive
  BY <1>3, AliveCheckKeepalive DEF CheckKeepalive, LiveInv
<1>4. CASE ClientRead
  BY <1>4, AliveClientRead DEF ClientRead, LiveInv
<1>5. CASE BrokerRead
  BY <1>5, AliveBrokerRead DEF BrokerRead, client, LiveInv
<1>6. CASE BrokerPublish
  BY <1>6, AliveBrokerPublish DEF BrokerPublish, client, LiveInv
<1>7. CASE BrokerLoop
  <2>1. state # "none" /\ ~late
    BY <1>7 DEF BrokerLoop
  <2> QED
    BY <1>7, <2>1, AliveBrokerLoop DEF LiveInv
<1>a. CASE Refused
  BY <1>a DEF Refused, Close
<1>8. CASE Die
  BY <1>8 DEF Die
<1>9. CASE Repair
  BY <1>9 DEF Repair, client, LiveInv, Alive
<1>10. CASE Tick
  BY <1>10, AliveTick DEF Tick, LiveInv
<1>11. CASE UNCHANGED vars
  BY <1>11 DEF vars, client, broker, network, LiveInv, Alive, AnswerDue, Waits, Fresh
<1> QED
  BY <1>1, <1>2, <1>3, <1>4, <1>5, <1>6, <1>7, <1>a, <1>8, <1>9, <1>10, <1>11 DEF Next

LEMMA LiveInvInit == Times /\ Init => LiveInv
BY EmptySeq DEF Init, LiveInv, LiveTypes, SleepInv, MaxSleep, Times

LEMMA LiveStaysKept ==
  ASSUME QuickEnough, LiveInv, Next, state # "none", ~late
  PROVE  state' # "none"
<1>1. LiveTypes /\ Alive
  BY DEF LiveInv
<1>2. CASE CheckKeepalive \/ BrokerLoop
  BY <1>1, <1>2, AliveCheckKeepalive, AliveBrokerLoop
<1>3. CASE ~(CheckKeepalive \/ BrokerLoop)
  BY <1>1, <1>3, AliveNotRefused
  DEF Next, Reconnect, Publish, ClientRead, BrokerRead, BrokerPublish,
              Die, Repair, Tick, client
<1> QED
  BY <1>2, <1>3

(* mosquitto__check_keepalive and mosquitto_main_loop: for every keepalive *)
(* interval longer than a packet and its answer take, a connection over a  *)
(* network that works is given up by neither end.                          *)
THEOREM ALiveClientIsKept ==
  ASSUME QuickEnough
  PROVE  Spec => LiveClientKept
<1>1. LiveInv /\ [Next]_vars => [state # "none" /\ state' = "none" => late]_vars
  BY LiveStaysKept
<1>2. Times
  BY DEF QuickEnough
<1> QED
  BY <1>1, <1>2, LiveInvInit, LiveInvStep, PTL DEF Spec, LiveClientKept
-----------------------------------------------------------------------------
(* The byte that ready.pair promises is still there when it is taken: only *)
(* the network thread takes bytes.                                         *)
WakeInv ==
  /\ pair \in Nat
  /\ loop \in {"read", "pair"} /\ ready.pair => pair > 0
  /\ Thread!NoPacketAsleep

LEMMA WakeInvApplication ==
  ASSUME MaxPair \in Nat \ {0}, WakeInv, Thread!Application
  PROVE  WakeInv'
<1>1. CASE Thread!Publish
  BY <1>1 DEF Thread!Publish, Thread!threadVars, WakeInv, Thread!NoPacketAsleep
<1>2. CASE Thread!Disconnect
  BY <1>2 DEF Thread!Disconnect, Thread!threadVars, WakeInv, Thread!NoPacketAsleep
<1>3. CASE Thread!QueuePacket
  BY <1>3 DEF Thread!QueuePacket, Thread!threadVars, WakeInv, Thread!NoPacketAsleep
<1>4. CASE Thread!WakeUp
  <2>1. pair' \in Nat /\ pair' > 0
    BY <1>4 DEF Thread!WakeUp, WakeInv
  <2> QED
    BY <1>4, <2>1 DEF Thread!WakeUp, Thread!threadVars, WakeInv, Thread!NoPacketAsleep
<1> QED
  BY <1>1, <1>2, <1>3, <1>4 DEF Thread!Application

LEMMA WakeInvNetworkThread ==
  ASSUME MaxPair \in Nat \ {0}, WakeInv, Thread!NetworkThread
  PROVE  WakeInv'
<1>1. CASE Thread!Check
  <2>1. CASE sock = 0
    BY <1>1, <2>1 DEF Thread!Check, Thread!Go, Thread!appVars, WakeInv, Thread!NoPacketAsleep
  <2>2. CASE sock # 0
    <3>1. ready'.write = (outq # <<>>)
      BY <1>1, <2>2 DEF Thread!Check, Thread!None
    <3> QED
      BY <1>1, <2>2, <3>1 DEF Thread!Check, Thread!Go, Thread!appVars, WakeInv,
                              Thread!NoPacketAsleep
  <2> QED
    BY <2>1, <2>2
<1>2. CASE Thread!Select
  <2>1. ready'.pair = (pair > 0)
    BY <1>2 DEF Thread!Select
  <2> QED
    BY <1>2, <2>1 DEF Thread!Select, Thread!Go, Thread!appVars, WakeInv, Thread!NoPacketAsleep
<1>3. CASE Thread!Read
  BY <1>3 DEF Thread!Read, Thread!Go, Thread!appVars, WakeInv, Thread!NoPacketAsleep
<1>4. CASE Thread!ReadPair
  BY <1>4 DEF Thread!ReadPair, Thread!Go, Thread!appVars, WakeInv, Thread!NoPacketAsleep
<1>5. CASE Thread!SendConnect
  <2>1. pair' \in Nat
    BY <1>5 DEF Thread!SendConnect, WakeInv
  <2> QED
    BY <1>5, <2>1 DEF Thread!SendConnect, Thread!Go, Thread!appVars, WakeInv,
                      Thread!NoPacketAsleep
<1>6. CASE \/ Thread!Write \/ Thread!AfterFailure \/ Thread!AfterSleep \/ Thread!CleanupAll
           \/ Thread!SocketConnect \/ Thread!SetConnected
  <2>1. pair' = pair /\ loop' \notin {"select", "read", "pair"}
    BY <1>6 DEF Thread!Write, Thread!AfterFailure, Thread!AfterSleep, Thread!CleanupAll,
                Thread!SocketConnect,
                Thread!SetConnected, Thread!Go
  <2> QED
    BY <2>1 DEF WakeInv, Thread!NoPacketAsleep
<1> QED
  BY <1>1, <1>2, <1>3, <1>4, <1>5, <1>6 DEF Thread!NetworkThread

LEMMA WakeInvInit == Thread!Init => WakeInv
BY DEF Thread!Init, WakeInv, Thread!NoPacketAsleep

LEMMA WakeInvStep ==
  ASSUME MaxPair \in Nat \ {0}, WakeInv, [Thread!Next]_(Thread!vars)
  PROVE  WakeInv'
<1>1. CASE Thread!Peer
  BY <1>1 DEF Thread!Peer, Thread!appVars, WakeInv, Thread!NoPacketAsleep
<1>2. CASE UNCHANGED Thread!vars
  BY <1>2 DEF Thread!vars, Thread!appVars, WakeInv, Thread!NoPacketAsleep
<1> QED
  BY <1>1, <1>2, WakeInvApplication, WakeInvNetworkThread DEF Thread!Next

(* packet__queue and mosquitto_loop: a packet queued by any thread is      *)
(* written, or the network thread is woken for it, whatever the number of  *)
(* packets and however small the pair of sockets.                          *)
THEOREM NoPacketIsForgotten ==
  ASSUME MaxPair \in Nat \ {0}
  PROVE  Thread!Spec => []Thread!NoPacketAsleep
<1>1. WakeInv => Thread!NoPacketAsleep
  BY DEF WakeInv
<1> QED
  BY <1>1, WakeInvInit, WakeInvStep, PTL DEF Thread!Spec
-----------------------------------------------------------------------------
(* Packets go to one connection at a time, the newest, so that it is       *)
(* enough that what is queued is newer than what was written, and what the *)
(* application is about to queue newer than both.                          *)
NewestConnection ==
  /\ sock \in {0, Len(net)}
  /\ loop \in {"select", "read", "pair", "write"} => sock # 0

(* Everything given to packet__queue so far is at most this.               *)
Newest == IF asked THEN Thread!DISCONNECT ELSE given

OrderTypeOK ==
  /\ given \in 0..MaxGiven /\ asked \in BOOLEAN /\ pkt \in Nat
  /\ outq \in Seq(Nat) /\ net \in Seq(Seq(Nat))

Written(c, h) == c \in 1..Len(net) /\ h \in 1..Len(net[c]) /\ net[c][h] # Thread!CONNECT
Queued(j) == j \in 1..Len(outq) /\ outq[j] # Thread!CONNECT

OrderInv ==
  /\ OrderTypeOK
  /\ NewestConnection
  /\ \A c, d, h, j \in Nat :
       Written(c, h) /\ Written(d, j) /\ (c < d \/ (c = d /\ h < j)) => net[c][h] < net[d][j]
  /\ \A c, h, j \in Nat : Written(c, h) /\ Queued(j) => net[c][h] < outq[j]
  /\ \A h, j \in Nat : Queued(h) /\ Queued(j) /\ h < j => outq[h] < outq[j]
  /\ \A c, h \in Nat : Written(c, h) =>
       net[c][h] <= Newest /\ (app = "append" => net[c][h] < pkt)
  /\ \A j \in Nat : Queued(j) => outq[j] <= Newest /\ (app = "append" => outq[j] < pkt)
  /\ app = "append" => pkt <= Newest

LEMMA OrderInvInit == MaxGiven \in Nat /\ Thread!Init => OrderInv
<1> SUFFICES ASSUME MaxGiven \in Nat, Thread!Init PROVE OrderInv
  OBVIOUS
<1>1. net = << <<0>> >> /\ Len(net) = 1 /\ Len(net[1]) = 1 /\ net[1][1] = 0
  BY DEF Thread!Init, Thread!CONNECT
<1>2. outq = <<>> /\ given = 0 /\ app = "idle" /\ sock = 1 /\ pkt = 0 /\ loop = "check"
  BY DEF Thread!Init
<1>3. asked \in BOOLEAN
  BY Zenon DEF Thread!Init
<1>4. OrderTypeOK
  BY <1>1, <1>2, <1>3 DEF OrderTypeOK
<1>5. ASSUME NEW c \in Nat, NEW h \in Nat, Written(c, h) PROVE FALSE
  <2>1. c = 1
    BY <1>1, <1>5 DEF Written
  <2>2. h = 1
    BY <1>1, <1>5, <2>1 DEF Written
  <2> QED
    BY <1>1, <1>5, <2>1, <2>2 DEF Written, Thread!CONNECT
<1>6. \A j \in Nat : ~Queued(j)
  BY <1>2 DEF Queued
<1> QED
  BY <1>1, <1>2, <1>4, <1>5, <1>6 DEF OrderInv, NewestConnection

LEMMA WrittenIsNat ==
  ASSUME OrderInv
  PROVE  /\ \A c, h \in Nat : Written(c, h) => net[c][h] \in Nat
         /\ \A j \in Nat : Queued(j) => outq[j] \in Nat
<1>1. net \in Seq(Seq(Nat)) /\ outq \in Seq(Nat)
  BY DEF OrderInv, OrderTypeOK
<1>2. ASSUME NEW c \in Nat, NEW h \in Nat, Written(c, h) PROVE net[c][h] \in Nat
  <2>1. net[c] \in Seq(Nat) /\ h \in 1..Len(net[c])
    BY <1>1, <1>2 DEF Written
  <2> QED
    BY <2>1
<1> QED
  BY <1>1, <1>2 DEF Queued

(* Steps that leave the packets alone. *)
LEMMA OrderInvIdle ==
  ASSUME OrderInv, NewestConnection', UNCHANGED <<outq, net, Thread!appVars>>
  PROVE  OrderInv'
BY DEF OrderInv, OrderTypeOK, Thread!appVars, Written, Queued, Newest, Thread!DISCONNECT

LEMMA OrderInvApplication ==
  ASSUME MaxGiven \in Nat, OrderInv, Thread!Application
  PROVE  OrderInv'
<1>0. given \in Nat /\ given <= MaxGiven
  BY DEF OrderInv, OrderTypeOK
<1>1. UNCHANGED <<net, sock, loop>>
  BY DEF Thread!Application, Thread!Publish, Thread!Disconnect, Thread!QueuePacket,
         Thread!WakeUp, Thread!threadVars
<1>2. NewestConnection'
  BY <1>1 DEF OrderInv, NewestConnection
<1> DEFINE Wr == \A c, h \in Nat : Written(c, h)' <=> Written(c, h)
           Qu == \A j \in Nat : Queued(j)' <=> Queued(j)
<1>3. Wr
  BY <1>1 DEF Written
<1>4. outq' = outq => Qu
  BY DEF Queued
<1>5. CASE Thread!Publish
  <2>1. /\ given' = given + 1 /\ pkt' = given + 1 /\ ~asked /\ asked' = asked
        /\ given < MaxGiven /\ app' = "append" /\ outq' = outq
    BY <1>5 DEF Thread!Publish
  <2>2. Newest = given /\ Newest' = given + 1
    BY <2>1 DEF Newest
  <2>3. OrderTypeOK'
    BY <1>1, <2>1 DEF OrderInv, OrderTypeOK
  <2>4. \A c, h \in Nat : Written(c, h) => net[c][h] <= given
    BY <2>2 DEF OrderInv
  <2>5. \A j \in Nat : Queued(j) => outq[j] <= given
    BY <2>2 DEF OrderInv
  <2>6. \A c, h \in Nat : Written(c, h)' => net'[c][h] <= Newest' /\ net'[c][h] < pkt'
    <3> SUFFICES ASSUME NEW c \in Nat, NEW h \in Nat, Written(c, h)'
                 PROVE  net[c][h] <= Newest' /\ net[c][h] < pkt'
      BY <1>1
    <3>1. net[c][h] \in Nat /\ net[c][h] <= given
      BY <1>3, <2>4, WrittenIsNat
    <3> QED
      BY <1>0, <2>1, <2>2, <3>1
  <2>7. \A j \in Nat : Queued(j)' => outq'[j] <= Newest' /\ outq'[j] < pkt'
    <3> SUFFICES ASSUME NEW j \in Nat, Queued(j)'
                 PROVE  outq[j] <= Newest' /\ outq[j] < pkt'
      BY <2>1
    <3>1. outq[j] \in Nat /\ outq[j] <= given
      BY <1>4, <2>1, <2>5, WrittenIsNat
    <3> QED
      BY <1>0, <2>1, <2>2, <3>1
  <2> QED
    BY <1>1, <1>2, <1>3, <1>4, <1>5, <2>1, <2>2, <2>3, <2>6, <2>7 DEF OrderInv
<1>6. CASE Thread!Disconnect
  <2>1. /\ given' = given /\ ~asked /\ asked' /\ outq' = outq /\ app = "idle"
        /\ app' = "append" => pkt' = Thread!DISCONNECT
    BY <1>6 DEF Thread!Disconnect
  <2>2. Newest = given /\ Newest' = Thread!DISCONNECT /\ Thread!DISCONNECT > given
    BY <2>1 DEF Newest, Thread!DISCONNECT, OrderInv, OrderTypeOK
  <2>3. OrderTypeOK'
    <3>1. asked' \in BOOLEAN
      BY <1>6, Zenon DEF Thread!Disconnect
    <3>2. pkt' \in Nat
      BY <1>6 DEF Thread!Disconnect, Thread!DISCONNECT, OrderInv, OrderTypeOK
    <3> QED
      BY <1>1, <2>1, <3>1, <3>2 DEF OrderInv, OrderTypeOK
  <2>4. \A c, h \in Nat : Written(c, h) => net[c][h] <= given
    BY <2>2 DEF OrderInv
  <2>5. \A j \in Nat : Queued(j) => outq[j] <= given
    BY <2>2 DEF OrderInv
  <2>6. \A c, h \in Nat : Written(c,
      h)' => net'[c][h] <= Newest' /\ net'[c][h] < Thread!DISCONNECT
    <3> SUFFICES ASSUME NEW c \in Nat, NEW h \in Nat, Written(c, h)'
                 PROVE  net[c][h] <= Newest' /\ net[c][h] < Thread!DISCONNECT
      BY <1>1
    <3>1. net[c][h] \in Nat /\ net[c][h] <= given
      BY <1>3, <2>4, WrittenIsNat
    <3> QED
      BY <1>0, <2>1, <2>2, <3>1 DEF Thread!DISCONNECT
  <2>7. \A j \in Nat : Queued(j)' => outq'[j] <= Newest' /\ outq'[j] < Thread!DISCONNECT
    <3> SUFFICES ASSUME NEW j \in Nat, Queued(j)'
                 PROVE  outq[j] <= Newest' /\ outq[j] < Thread!DISCONNECT
      BY <2>1
    <3>1. outq[j] \in Nat /\ outq[j] <= given
      BY <1>4, <2>1, <2>5, WrittenIsNat
    <3> QED
      BY <1>0, <2>1, <2>2, <3>1 DEF Thread!DISCONNECT
  <2>8. Thread!DISCONNECT \in Nat
    BY DEF Thread!DISCONNECT
  <2> QED
    BY <1>1, <1>2, <1>3, <1>4, <1>6, <2>1, <2>2, <2>3, <2>6, <2>7, <2>8 DEF OrderInv
<1>7. CASE Thread!QueuePacket
  <2>1. /\ app = "append" /\ app' = "wake" /\ outq' = Append(outq, pkt)
        /\ UNCHANGED <<pkt, given, asked>> /\ outq \in Seq(Nat) /\ pkt \in Nat
    BY <1>7 DEF Thread!QueuePacket, OrderInv, OrderTypeOK
  <2>2. /\ Len(outq') = Len(outq) + 1 /\ outq'[Len(outq) + 1] = pkt
        /\ \A j \in 1..Len(outq) : outq'[j] = outq[j]
        /\ outq' \in Seq(Nat)
    BY <2>1
  <2>3. \A j \in Nat : Queued(j)' => Queued(j) \/ j = Len(outq) + 1
    BY <2>2 DEF Queued
  <2>4. \A j \in Nat : Queued(j) => outq'[j] = outq[j] /\ j < Len(outq) + 1
    BY <2>2 DEF Queued
  <2>5. OrderTypeOK' /\ Newest' = Newest
    BY <1>1, <2>1, <2>2 DEF OrderInv, OrderTypeOK, Newest, Thread!DISCONNECT
  <2>6. \A c, h \in Nat : Written(c, h)' => Written(c, h)
    BY <1>1 DEF Written
  <2>7. \A c, h, j \in Nat : Written(c, h)' /\ Queued(j)' => net'[c][h] < outq'[j]
    BY <1>1, <2>1, <2>2, <2>3, <2>4, <2>6 DEF OrderInv
  <2>8. \A h, j \in Nat : Queued(h)' /\ Queued(j)' /\ h < j => outq'[h] < outq'[j]
    <3> SUFFICES ASSUME NEW h \in Nat, NEW j \in Nat, Queued(h)', Queued(j)', h < j
                 PROVE  outq'[h] < outq'[j]
      OBVIOUS
    <3>1. Queued(h) /\ outq'[h] = outq[h]
      BY <2>2, <2>3, <2>4 DEF Queued
    <3>2. CASE Queued(j)
      BY <2>4, <3>1, <3>2 DEF OrderInv
    <3>3. CASE j = Len(outq) + 1
      BY <2>1, <2>2, <3>1, <3>3 DEF OrderInv
    <3> QED
      BY <2>3, <3>2, <3>3
  <2>9. \A j \in Nat : Queued(j)' => outq'[j] <= Newest'
    BY <2>1, <2>2, <2>3, <2>4, <2>5 DEF OrderInv
  <2> QED
    BY <1>1, <1>2, <2>1, <2>5, <2>6, <2>7, <2>8, <2>9 DEF OrderInv
<1>8. CASE Thread!WakeUp
  <2>1. UNCHANGED <<outq, pkt, given, asked>> /\ app' = "idle"
    BY <1>8 DEF Thread!WakeUp
  <2> QED
    BY <1>1, <1>2, <2>1 DEF OrderInv, OrderTypeOK, Written, Queued, Newest, Thread!DISCONNECT
<1> QED
  BY <1>5, <1>6, <1>7, <1>8 DEF Thread!Application

(* A DISCONNECT is the newest packet, so that only one is queued.          *)
LEMMA FirstDisconnectInQueue ==
  ASSUME MaxGiven \in Nat, OrderInv
  PROVE  Thread!FirstDisconnect \in 0..Len(outq)
<1> DEFINE First(h) ==
      IF \E j \in 1..Len(outq) : outq[j] = Thread!DISCONNECT
        THEN h > 0 /\ outq[h] = Thread!DISCONNECT /\ \A j \in 1..h - 1 : outq[j] # Thread!DISCONNECT
        ELSE h = 0
<1>1. Len(outq) \in Nat
  BY DEF OrderInv, OrderTypeOK
<1>2. ASSUME NEW j \in 1..Len(outq), outq[j] = Thread!DISCONNECT
      PROVE  First(j)
  <2>1. Queued(j)
    BY <1>2 DEF Queued, Thread!CONNECT, Thread!DISCONNECT
  <2>2. ASSUME NEW k \in 1..j - 1, outq[k] = Thread!DISCONNECT PROVE FALSE
    <3>1. Queued(k) /\ k \in Nat /\ j \in Nat /\ k < j
      BY <1>1, <2>2 DEF Queued, Thread!CONNECT, Thread!DISCONNECT
    <3>2. outq[k] < outq[j]
      BY <2>1, <3>1 DEF OrderInv
    <3> QED
      BY <1>2, <2>2, <3>2 DEF Thread!DISCONNECT
  <2> QED
    BY <1>1, <1>2, <2>2
<1>3. \E h \in 0..Len(outq) : First(h)
  <2>1. CASE \E j \in 1..Len(outq) : outq[j] = Thread!DISCONNECT
    <3>1. PICK j \in 1..Len(outq) : outq[j] = Thread!DISCONNECT
      BY <2>1
    <3>2. First(j) /\ j \in 0..Len(outq)
      BY <1>1, <1>2, <3>1
    <3> HIDE DEF First
    <3> QED
      BY <3>2
  <2>2. CASE ~\E j \in 1..Len(outq) : outq[j] = Thread!DISCONNECT
    BY <1>1, <2>2
  <2> QED
    BY <2>1, <2>2
<1>4. Thread!FirstDisconnect = CHOOSE h \in 0..Len(outq) : First(h)
  BY DEF Thread!FirstDisconnect
<1> HIDE DEF First
<1> QED
  BY <1>3, <1>4

LEMMA ConcatFacts ==
  ASSUME NEW S, NEW a \in Seq(S), NEW b \in Seq(S)
  PROVE  /\ a \o b \in Seq(S) /\ Len(a \o b) = Len(a) + Len(b)
         /\ \A h \in 1..Len(a) : (a \o b)[h] = a[h]
         /\ \A h \in 1..Len(b) : (a \o b)[Len(a) + h] = b[h]
OBVIOUS

(* packet__write moves packets from the head of the queue to the end of    *)
(* the newest connection.                                                  *)
LEMMA OrderInvWritePackets ==
  ASSUME OrderInv, sock # 0, NEW n \in 0..Len(outq), Thread!WritePackets(n), NewestConnection',
         UNCHANGED Thread!appVars
  PROVE  OrderInv'
<1>1. /\ outq \in Seq(Nat) /\ net \in Seq(Seq(Nat)) /\ sock = Len(net) /\ sock \in 1..Len(net)
      /\ Len(outq) \in Nat /\ n \in Nat
  BY DEF OrderInv, OrderTypeOK, NewestConnection
<1> DEFINE old == net[sock]
           moved == SubSeq(outq, 1, n)
<1>2. /\ old \in Seq(Nat) /\ moved \in Seq(Nat) /\ Len(moved) = n
      /\ \A j \in 1..n : moved[j] = outq[j]
  BY <1>1
<1>3. /\ old \o moved \in Seq(Nat) /\ Len(old \o moved) = Len(old) + n
      /\ \A h \in 1..Len(old) : (old \o moved)[h] = old[h]
      /\ \A h \in 1..n : (old \o moved)[Len(old) + h] = outq[h]
  <2> HIDE DEF old, moved
  <2>0. old \in Seq(Nat) /\ moved \in Seq(Nat)
    BY <1>2
  <2>1. /\ old \o moved \in Seq(Nat) /\ Len(old \o moved) = Len(old) + Len(moved)
        /\ \A h \in 1..Len(old) : (old \o moved)[h] = old[h]
        /\ \A h \in 1..Len(moved) : (old \o moved)[Len(old) + h] = moved[h]
    <3>1. \A a, b \in Seq(Nat) :
            /\ a \o b \in Seq(Nat) /\ Len(a \o b) = Len(a) + Len(b)
            /\ \A h \in 1..Len(a) : (a \o b)[h] = a[h]
            /\ \A h \in 1..Len(b) : (a \o b)[Len(a) + h] = b[h]
      BY ConcatFacts
    <3> QED
      BY <2>0, <3>1
  <2> QED
    BY <1>1, <1>2, <2>1
<1>4. net' = [net EXCEPT ![sock] = old \o moved]
  BY DEF Thread!WritePackets
<1>5. /\ net' \in Seq(Seq(Nat)) /\ Len(net') = Len(net) /\ net'[sock] = old \o moved
      /\ \A c \in 1..Len(net) : c # sock => net'[c] = net[c]
  <2> HIDE DEF old, moved
  <2> QED
    BY <1>1, <1>3, <1>4
<1>6. /\ outq' \in Seq(Nat) /\ Len(outq') = Len(outq) - n
      /\ \A j \in 1..Len(outq') : outq'[j] = outq[n + j]
  BY <1>1 DEF Thread!WritePackets
<1> HIDE DEF moved
<1>7. \A j \in Nat : Queued(j)' => Queued(n + j) /\ outq'[j] = outq[n + j] /\ n + j > n
  <2> SUFFICES ASSUME NEW j \in Nat, Queued(j)'
               PROVE  Queued(n + j) /\ outq'[j] = outq[n + j] /\ n + j > n
    OBVIOUS
  <2>1. j \in 1..Len(outq') /\ outq'[j] # Thread!CONNECT /\ outq'[j] = outq[n + j]
    BY <1>6 DEF Queued
  <2>2. n + j \in 1..Len(outq) /\ n + j > n
    BY <1>1, <1>6, <2>1
  <2> QED
    BY <2>1, <2>2 DEF Queued
<1>8. ASSUME NEW c \in Nat, NEW h \in Nat, Written(c, h)'
      PROVE  \/ Written(c, h) /\ net'[c][h] = net[c][h]
             \/ /\ c = sock /\ h > Len(old) /\ Queued(h - Len(old)) /\ h - Len(old) \in 1..n
                /\ net'[c][h] = outq[h - Len(old)]
  <2>0. Len(old) \in Nat
    BY <1>2
  <2>1. c \in 1..Len(net) /\ h \in 1..Len(net'[c]) /\ net'[c][h] # Thread!CONNECT
    BY <1>5, <1>8 DEF Written
  <2>2. CASE c # sock
    <3>1. net'[c] = net[c]
      BY <1>5, <2>1, <2>2
    <3> QED
      BY <2>1, <3>1 DEF Written
  <2>3. CASE c = sock /\ h <= Len(old)
    <3>0. h \in 1..Len(old)
      BY <2>0, <2>1, <2>3
    <3>1. net'[c][h] = old[h]
      BY <1>3, <1>5, <2>3, <3>0
    <3> QED
      BY <2>1, <2>3, <3>0, <3>1 DEF Written
  <2>4. CASE c = sock /\ h > Len(old)
    <3>0. h \in 1..Len(old) + n
      BY <1>3, <1>5, <2>1, <2>4
    <3>1. h - Len(old) \in 1..n
      BY <1>1, <2>0, <2>4, <3>0
    <3>2. Len(old) + (h - Len(old)) = h
      BY <2>0
    <3>3. net'[c][h] = outq[h - Len(old)]
      BY <1>3, <1>5, <2>4, <3>1, <3>2
    <3> QED
      BY <1>1, <2>1, <2>4, <3>1, <3>3 DEF Queued
  <2> QED
    BY <2>0, <2>2, <2>3, <2>4
<1>9. \A c, h \in Nat : Written(c, h) /\ c = sock => h <= Len(old)
  BY DEF Written
<1>10. \A c, h \in Nat : Written(c, h) => c <= sock
  BY <1>1 DEF Written
<1>11. /\ \A c, h \in Nat : Written(c, h) => net[c][h] \in Nat
       /\ \A j \in Nat : Queued(j) => outq[j] \in Nat
  BY WrittenIsNat
<1>12. Len(old) \in Nat
  BY <1>2
<1>13. Newest' = Newest /\ UNCHANGED <<app, pkt>>
  BY DEF Thread!appVars, Newest, Thread!DISCONNECT
<1> HIDE DEF old
<1>14. ASSUME NEW c \in Nat, NEW d \in Nat, NEW h \in Nat, NEW j \in Nat,
              Written(c, h)', Written(d, j)', c < d \/ (c = d /\ h < j)
       PROVE  net'[c][h] < net'[d][j]
  <2>1. CASE Written(c, h) /\ net'[c][h] = net[c][h]
    <3>1. CASE Written(d, j) /\ net'[d][j] = net[d][j]
      BY <1>14, <2>1, <3>1 DEF OrderInv
    <3>2. CASE Queued(j - Len(old)) /\ j - Len(old) \in 1..n /\ net'[d][j] = outq[j - Len(old)]
      <4>1. j - Len(old) \in Nat
        BY <3>2
      <4> QED
        BY <2>1, <3>2, <4>1 DEF OrderInv
    <3> QED
      BY <1>8, <1>14, <3>1, <3>2
  <2>2. CASE /\ c = sock /\ h > Len(old) /\ Queued(h - Len(old)) /\ h - Len(old) \in 1..n
             /\ net'[c][h] = outq[h - Len(old)]
    <3>1. ~Written(d, j)
      <4> SUFFICES ASSUME Written(d, j) PROVE FALSE
        OBVIOUS
      <4>1. d <= sock /\ sock \in Nat
        BY <1>1, <1>10
      <4>2. d = sock /\ h < j
        BY <1>14, <2>2, <4>1
      <4>3. j <= Len(old)
        BY <1>9, <4>2
      <4> QED
        BY <1>12, <2>2, <4>2, <4>3
    <3>2. d = sock /\ Queued(j - Len(old)) /\ j - Len(old) \in 1..n
          /\ net'[d][j] = outq[j - Len(old)]
      BY <1>8, <1>14, <3>1
    <3>3. h - Len(old) \in Nat /\ j - Len(old) \in Nat /\ h - Len(old) < j - Len(old)
      BY <1>12, <1>14, <2>2, <3>2
    <3> QED
      BY <2>2, <3>2, <3>3 DEF OrderInv
  <2> QED
    BY <1>8, <1>14, <2>1, <2>2
<1>15. ASSUME NEW c \in Nat, NEW h \in Nat, NEW j \in Nat, Written(c, h)', Queued(j)'
       PROVE  net'[c][h] < outq'[j]
  <2>1. Queued(n + j) /\ outq'[j] = outq[n + j] /\ n + j > n /\ n + j \in Nat
    BY <1>1, <1>7, <1>15
  <2>2. CASE Written(c, h) /\ net'[c][h] = net[c][h]
    BY <2>1, <2>2 DEF OrderInv
  <2>3. CASE Queued(h - Len(old)) /\ h - Len(old) \in 1..n /\ net'[c][h] = outq[h - Len(old)]
    <3>1. h - Len(old) \in Nat /\ h - Len(old) < n + j
      <4>1. n \in Nat /\ h - Len(old) \in 1..n
        BY <1>1, <2>3
      <4> DEFINE k == h - Len(old)
      <4> HIDE DEF k
      <4>2. k \in 1..n
        BY <4>1 DEF k
      <4>3. k \in Nat /\ k < n + j
        BY <2>1, <4>1, <4>2
      <4> QED
        BY <4>3 DEF k
    <3> QED
      BY <2>1, <2>3, <3>1 DEF OrderInv
  <2> QED
    BY <1>8, <1>15, <2>2, <2>3
<1>16. \A h, j \in Nat : Queued(h)' /\ Queued(j)' /\ h < j => outq'[h] < outq'[j]
  <2> SUFFICES ASSUME NEW h \in Nat, NEW j \in Nat, Queued(h)', Queued(j)', h < j
               PROVE  outq'[h] < outq'[j]
    OBVIOUS
  <2>1. n + h \in Nat /\ n + j \in Nat /\ n + h < n + j
    BY <1>1
  <2> QED
    BY <1>7, <2>1 DEF OrderInv
<1>17. \A c, h \in Nat : Written(c, h)' =>
         net'[c][h] <= Newest' /\ (app' = "append" => net'[c][h] < pkt')
  <2> SUFFICES ASSUME NEW c \in Nat, NEW h \in Nat, Written(c, h)'
               PROVE  net'[c][h] <= Newest /\ (app = "append" => net'[c][h] < pkt)
    BY <1>13
  <2>1. CASE Written(c, h) /\ net'[c][h] = net[c][h]
    BY <2>1 DEF OrderInv
  <2>2. CASE Queued(h - Len(old)) /\ h - Len(old) \in 1..n /\ net'[c][h] = outq[h - Len(old)]
    <3>1. h - Len(old) \in Nat
      BY <2>2
    <3> QED
      BY <2>2, <3>1 DEF OrderInv
  <2> QED
    BY <1>8, <2>1, <2>2
<1>18. \A j \in Nat : Queued(j)' =>
         outq'[j] <= Newest' /\ (app' = "append" => outq'[j] < pkt')
  <2> SUFFICES ASSUME NEW j \in Nat, Queued(j)'
               PROVE  outq'[j] <= Newest /\ (app = "append" => outq'[j] < pkt)
    BY <1>13
  <2>1. n + j \in Nat
    BY <1>1
  <2> QED
    BY <1>7, <2>1 DEF OrderInv
<1>19. OrderTypeOK'
  BY <1>5, <1>6 DEF OrderInv, OrderTypeOK, Thread!appVars
<1> QED
  BY <1>13, <1>14, <1>15, <1>16, <1>17, <1>18, <1>19 DEF OrderInv

LEMMA OrderInvNetworkThread ==
  ASSUME MaxGiven \in Nat, OrderInv, Thread!NetworkThread
  PROVE  OrderInv'
<1>1. UNCHANGED Thread!appVars
  BY DEF Thread!NetworkThread, Thread!Check, Thread!Select, Thread!Read, Thread!ReadPair,
         Thread!Write, Thread!AfterFailure, Thread!AfterSleep, Thread!CleanupAll,
         Thread!SocketConnect, Thread!SetConnected, Thread!SendConnect
<1>2. CASE Thread!Check \/ Thread!Select \/ Thread!Read \/ Thread!ReadPair
           \/ Thread!AfterFailure \/ Thread!AfterSleep \/ Thread!SetConnected
  <2>1. UNCHANGED <<outq, net>> /\ sock' \in {0, sock}
    BY <1>2 DEF Thread!Check, Thread!Select, Thread!Read, Thread!ReadPair, Thread!AfterFailure,
                Thread!AfterSleep, Thread!SetConnected, Thread!KeepConn
  <2>2. NewestConnection'
    BY <1>2, <2>1
    DEF Thread!Check, Thread!Select, Thread!Read, Thread!ReadPair, Thread!AfterFailure,
        Thread!AfterSleep, Thread!SetConnected, Thread!KeepConn, Thread!Go,
        OrderInv, NewestConnection
  <2> QED
    BY <1>1, <2>1, <2>2, OrderInvIdle
<1>3. CASE Thread!Write
  <2>1. loop = "write" /\ loop' = "check" /\ sock # 0
    BY <1>3 DEF Thread!Write, Thread!Go, OrderInv, NewestConnection
  <2>2. CASE UNCHANGED <<net, outq>> /\ sock' \in {0, sock}
    <3>1. NewestConnection'
      BY <2>1, <2>2 DEF OrderInv, NewestConnection
    <3> QED
      BY <1>1, <2>2, <3>1, OrderInvIdle
  <2>3. ASSUME NEW n \in 0..(IF Thread!FirstDisconnect > 0
                                THEN Thread!FirstDisconnect ELSE Len(outq)),
               Thread!WritePackets(n)
        PROVE  OrderInv'
    <3>1. n \in 0..Len(outq)
      <4>1. Thread!FirstDisconnect \in 0..Len(outq)
        BY FirstDisconnectInQueue
      <4>2. Len(outq) \in Nat
        BY DEF OrderInv, OrderTypeOK
      <4> QED
        BY <4>1, <4>2
    <3>2. Len(net') = Len(net) /\ sock' \in {0, sock}
      BY <2>3 DEF Thread!WritePackets, OrderInv, OrderTypeOK
    <3>3. NewestConnection'
      BY <2>1, <3>2 DEF OrderInv, NewestConnection
    <3> QED
      BY <1>1, <2>1, <2>3, <3>1, <3>3, OrderInvWritePackets
  <2> QED
    BY <1>3, <2>2, <2>3 DEF Thread!Write
<1>4. CASE Thread!CleanupAll
  <2>1. outq' = <<>> /\ UNCHANGED <<net, sock>> /\ loop' = "connect"
    BY <1>4 DEF Thread!CleanupAll, Thread!KeepConn, Thread!Go
  <2>2. \A j \in Nat : ~Queued(j)'
    BY <2>1 DEF Queued
  <2>3. OrderTypeOK' /\ NewestConnection'
    BY <1>1, <2>1 DEF OrderInv, OrderTypeOK, NewestConnection, Thread!appVars
  <2>4. \A c, h \in Nat : Written(c, h)' <=> Written(c, h)
    BY <2>1 DEF Written
  <2>5. Newest' = Newest
    BY <1>1 DEF Thread!appVars, Newest, Thread!DISCONNECT
  <2> QED
    BY <1>1, <2>1, <2>2, <2>3, <2>4, <2>5 DEF OrderInv, Thread!appVars
<1>5. CASE Thread!SocketConnect
  <2>1. CASE UNCHANGED <<net, sock>>
    <3>1. outq' = outq /\ NewestConnection'
      BY <1>5, <2>1 DEF Thread!SocketConnect, Thread!Go, OrderInv, NewestConnection
    <3> QED
      BY <1>1, <2>1, <3>1, OrderInvIdle
  <2>2. CASE net' = Append(net, <<>>) /\ sock' = Len(net) + 1 /\ loop' = "connected"
    <3>1. net \in Seq(Seq(Nat)) /\ outq' = outq /\ <<>> \in Seq(Nat)
      BY <1>5 DEF Thread!SocketConnect, OrderInv, OrderTypeOK
    <3>2. /\ net' \in Seq(Seq(Nat)) /\ Len(net') = Len(net) + 1 /\ net'[Len(net) + 1] = <<>>
          /\ \A c \in 1..Len(net) : net'[c] = net[c]
      BY <2>2, <3>1
    <3>3. \A c, h \in Nat : Written(c, h)' => Written(c, h) /\ net'[c][h] = net[c][h]
      <4> SUFFICES ASSUME NEW c \in Nat, NEW h \in Nat, Written(c, h)'
                   PROVE  Written(c, h) /\ net'[c][h] = net[c][h]
        OBVIOUS
      <4>1. c # Len(net) + 1
        <5>1. Len(net'[Len(net) + 1]) = 0
          BY <3>2
        <5> QED
          BY <5>1 DEF Written
      <4>2. c \in 1..Len(net')
        BY DEF Written
      <4>3. c \in 1..Len(net)
        BY <3>2, <4>1, <4>2
      <4>4. net'[c] = net[c]
        BY <3>2, <4>3
      <4> QED
        BY <4>3, <4>4 DEF Written
    <3>4. \A j \in Nat : Queued(j)' <=> Queued(j)
      BY <3>1 DEF Queued
    <3>5. OrderTypeOK' /\ Newest' = Newest /\ NewestConnection' /\ UNCHANGED <<app, pkt>>
      BY <1>1, <2>2, <3>1, <3>2
      DEF OrderInv, OrderTypeOK, Thread!appVars, Newest, Thread!DISCONNECT, NewestConnection
    <3>6. \A c, d, h, j \in Nat :
            Written(c, h)' /\ Written(d, j)' /\ (c < d \/ (c = d /\ h < j))
              => net'[c][h] < net'[d][j]
      BY <3>3 DEF OrderInv
    <3>7. \A c, h, j \in Nat : Written(c, h)' /\ Queued(j)' => net'[c][h] < outq'[j]
      <4>1. \A c, h, j \in Nat : Written(c, h) /\ Queued(j) => net[c][h] < outq[j]
        BY DEF OrderInv
      <4> QED
        BY <3>1, <3>3, <3>4, <4>1
    <3>8. \A c, h \in Nat : Written(c, h)' =>
            net'[c][h] <= Newest' /\ (app' = "append" => net'[c][h] < pkt')
      <4>1. \A c, h \in Nat : Written(c, h) =>
              net[c][h] <= Newest /\ (app = "append" => net[c][h] < pkt)
        BY DEF OrderInv
      <4> QED
        BY <3>3, <3>5, <4>1
    <3> QED
      BY <3>1, <3>4, <3>5, <3>6, <3>7, <3>8 DEF OrderInv
  <2> QED
    BY <1>5, <2>1, <2>2 DEF Thread!SocketConnect, Thread!Go, Thread!KeepConn
<1>6. CASE Thread!SendConnect
  <2>1. /\ outq' = Append(outq, Thread!CONNECT) /\ UNCHANGED <<net, sock>> /\ outq \in Seq(Nat)
        /\ loop' = "check"
    BY <1>6 DEF Thread!SendConnect, Thread!KeepConn, Thread!Go, OrderInv, OrderTypeOK
  <2>2. /\ outq' \in Seq(Nat) /\ Len(outq') = Len(outq) + 1
        /\ outq'[Len(outq) + 1] = Thread!CONNECT
        /\ \A j \in 1..Len(outq) : outq'[j] = outq[j]
    BY <2>1 DEF Thread!CONNECT
  <2>3. \A j \in Nat : Queued(j)' => Queued(j) /\ outq'[j] = outq[j]
    BY <2>1, <2>2 DEF Queued
  <2>4. \A c, h \in Nat : Written(c, h)' <=> Written(c, h)
    BY <2>1 DEF Written
  <2>5. OrderTypeOK' /\ Newest' = Newest /\ NewestConnection' /\ UNCHANGED <<app, pkt>>
    BY <1>1, <2>1, <2>2
    DEF OrderInv, OrderTypeOK, Thread!appVars, Newest, Thread!DISCONNECT, NewestConnection
  <2> QED
    BY <2>1, <2>3, <2>4, <2>5 DEF OrderInv
<1> QED
  BY <1>2, <1>3, <1>4, <1>5, <1>6 DEF Thread!NetworkThread

LEMMA OrderInvStep ==
  ASSUME MaxGiven \in Nat, OrderInv, [Thread!Next]_(Thread!vars)
  PROVE  OrderInv'
<1>1. CASE Thread!Peer
  <2>1. UNCHANGED <<outq, net, Thread!appVars, sock, loop>>
    BY <1>1 DEF Thread!Peer
  <2>2. NewestConnection'
    BY <2>1 DEF OrderInv, NewestConnection
  <2> QED
    BY <2>1, <2>2, OrderInvIdle
<1>2. CASE UNCHANGED Thread!vars
  <2>1. UNCHANGED <<outq, net, Thread!appVars, sock, loop>>
    BY <1>2 DEF Thread!vars
  <2>2. NewestConnection'
    BY <2>1 DEF OrderInv, NewestConnection
  <2> QED
    BY <2>1, <2>2, OrderInvIdle
<1> QED
  BY <1>1, <1>2, OrderInvApplication, OrderInvNetworkThread DEF Thread!Next

LEMMA OrderIsKept == ASSUME MaxGiven \in Nat, OrderInv PROVE Thread!SentOnceInOrder
<1> SUFFICES ASSUME NEW a \in Thread!Wire, NEW b \in Thread!Wire
             PROVE  /\ a[1] < b[1] \/ (a[1] = b[1] /\ a[2] < b[2])
                        => net[a[1]][a[2]] < net[b[1]][b[2]]
                    /\ a # b => net[a[1]][a[2]] # net[b[1]][b[2]]
  BY DEF Thread!SentOnceInOrder
<1>1. /\ a[1] \in Nat /\ a[2] \in Nat /\ Written(a[1], a[2])
      /\ b[1] \in Nat /\ b[2] \in Nat /\ Written(b[1], b[2])
  <2>1. ASSUME NEW w \in Thread!Wire PROVE w[1] \in Nat /\ w[2] \in Nat /\ Written(w[1], w[2])
    <3>1. /\ w \in (1..MaxConns) \X (1..MaxGiven + 3)
          /\ w[1] <= Len(net) /\ w[2] <= Len(net[w[1]]) /\ net[w[1]][w[2]] # Thread!CONNECT
      BY DEF Thread!Wire
    <3>2. w[1] \in Nat /\ w[1] >= 1 /\ w[2] \in Nat /\ w[2] >= 1
      BY <3>1
    <3>3. net \in Seq(Seq(Nat)) /\ w[1] \in 1..Len(net)
      BY <3>1, <3>2 DEF OrderInv, OrderTypeOK
    <3>4. Len(net[w[1]]) \in Nat
      BY <3>3
    <3> QED
      BY <3>1, <3>2, <3>3, <3>4 DEF Written
  <2> QED
    BY <2>1
<1>2. net[a[1]][a[2]] \in Nat /\ net[b[1]][b[2]] \in Nat
  BY <1>1, WrittenIsNat
<1>3. a[1] < b[1] \/ (a[1] = b[1] /\ a[2] < b[2]) => net[a[1]][a[2]] < net[b[1]][b[2]]
  BY <1>1 DEF OrderInv
<1>4. b[1] < a[1] \/ (b[1] = a[1] /\ b[2] < a[2]) => net[b[1]][b[2]] < net[a[1]][a[2]]
  BY <1>1 DEF OrderInv
<1>5. a # b => a[1] # b[1] \/ a[2] # b[2]
  BY DEF Thread!Wire
<1> QED
  BY <1>1, <1>2, <1>3, <1>4, <1>5

(* packet__queue, packet__write and mosquitto__reconnect: what reaches the *)
(* wire is in the order it was given, and nothing is on it twice, however  *)
(* connections end and threads interleave.                                 *)
THEOREM NothingSentTwice ==
  ASSUME MaxGiven \in Nat
  PROVE  Thread!Spec => []Thread!SentOnceInOrder
BY OrderInvInit, OrderInvStep, OrderIsKept, PTL DEF Thread!Spec
-----------------------------------------------------------------------------
(* packet_mosq.c, "Clients must send CONNECT as their first command": what *)
(* a connection carries begins with CONNECT.                               *)
ConnectIsFirst == \A c \in 1..Len(net) : net[c] # <<>> => net[c][1] = Thread!CONNECT

-----------------------------------------------------------------------------
(* The invariants of ClientThread and of Keepalive, for every number of    *)
(* messages and of connections, size of the pair and keepalive interval.   *)
PartsInv ==
  /\ part = "thread" => WakeInv /\ OrderInv
  /\ part = "pings" => ClientInv /\ BrokerInv /\ LiveInv

LEMMA PartsInvInit == ClientInit => PartsInv
<1> SUFFICES ASSUME ClientInit PROVE PartsInv
  OBVIOUS
<1>1. part = "thread" => Thread!Init
  BY DEF ClientInit
<1>2. part = "pings" => Init
  BY DEF ClientInit
<1> QED
  BY <1>1, <1>2, ClientAssumption, WakeInvInit, OrderInvInit,
     BothInvInit, LiveInvInit DEF PartsInv, Times

LEMMA PartKept == [ClientNext]_clientVars => part' = part
BY DEF ClientNext, clientVars, Threading, Pinging, Comparing, Validating, Encoding, Bridging

LEMMA PartSteps ==
  ASSUME [ClientNext]_clientVars
  PROVE  /\ part = "thread" => [Thread!Next]_Thread!vars
         /\ part = "pings" => [Next]_vars
BY DEF ClientNext, clientVars, threadVars, keepaliveVars, Thread!vars, Thread!appVars,
       vars, client, broker, network

LEMMA PartsInvStep == PartsInv /\ [ClientNext]_clientVars => PartsInv'
<1> SUFFICES ASSUME PartsInv, [ClientNext]_clientVars PROVE PartsInv'
  OBVIOUS
<1>1. part = "thread" => WakeInv' /\ OrderInv'
  BY ClientAssumption, PartSteps, WakeInvStep, OrderInvStep DEF PartsInv
<1>2. part = "pings" => ClientInv' /\ BrokerInv'
  BY ClientAssumption, PartSteps, BothInvStep DEF PartsInv, Times
<1>3. part = "pings" => LiveInv'
  BY ClientAssumption, PartSteps, LiveInvStep DEF PartsInv, QuickEnough, Times
<1> QED
  BY <1>1, <1>2, <1>3, PartKept DEF PartsInv

(* mosquitto_loop and packet__queue: for every number of messages and size *)
(* of the pair of sockets, select() does not sleep over a packet that is   *)
(* queued, and packets reach the wire once, in the order they were given.  *)
THEOREM SendsInTime == ClientSpec => []SentInTime
<1>1. PartsInv => SentInTime
  BY ClientAssumption, OrderIsKept DEF PartsInv, SentInTime, WakeInv
<1> QED
  BY <1>1, PartsInvInit, PartsInvStep, PTL DEF ClientSpec

(* mosquitto_loop, mosquitto__check_keepalive and mosquitto_main_loop: for  *)
(* every keepalive interval longer than a packet and its answer take, and  *)
(* every timeout of select(), a connection on a network that works is      *)
(* kept, and one on a network that died is not.                            *)
THEOREM OnlyTheDeadAreGivenUp == ClientSpec => OnlyTheDeadGivenUp
<1> DEFINE Kept == part = "pings" /\ state # "none" /\ state' = "none" => late
           Noticed == part = "pings" => DeadPeerDetected
<1>1. PartsInv /\ [ClientNext]_clientVars => [Kept]_clientVars
  <2> SUFFICES ASSUME PartsInv, ClientNext, part = "pings", state # "none", ~late
               PROVE  state' # "none"
    OBVIOUS
  <2>1. Next
    BY DEF ClientNext
  <2> QED
    BY <2>1, ClientAssumption, LiveStaysKept DEF PartsInv, QuickEnough, Times
<1>2. PartsInv => Noticed
  BY ClientAssumption, DeathIsNoticed DEF PartsInv, Times
<1> QED
  BY <1>1, <1>2, PartsInvInit, PartsInvStep, PTL DEF ClientSpec, OnlyTheDeadGivenUp
=============================================================================
