------------------------ MODULE ClientReceiveProofs -------------------------
(***************************************************************************)
(* For any number of messages, identifiers and connections: what a broker  *)
(* that keeps the session and libmosquitto do about lost and repeated      *)
(* packets loses no message, marks what comes again, and calls on_message  *)
(* a second time only after connections that broke.                        *)
(***************************************************************************)
EXTENDS ClientReceive, SequenceTheorems, FiniteSetTheorems, FunctionTheorems,
        WellFoundedInduction, TLAPS

-----------------------------------------------------------------------------
(* A finite set of numbers has a largest one, by which it can be listed in *)
(* order.                                                                  *)
LEMMA HasMaximum ==
  ASSUME NEW N \in Nat, NEW T \in SUBSET (1..N), T # {}
  PROVE  \E x \in T : \A y \in T : y <= x
<1> DEFINE above(x) == {y \in T : y >= x}
           A == {above(x) : x \in T}
           R == StrictSubsetOrdering(1..N)
<1>1. IsFiniteSet(1..N)
  BY FS_Interval
<1>2. IsWellFoundedOn(R, SUBSET (1..N))
  BY <1>1, FS_FiniteSubsetsOfFinite, FS_StrictSubsetOrderingWellFounded
<1>3. A \subseteq SUBSET (1..N) /\ A # {}
  OBVIOUS
<1> HIDE DEF A, R
<1>4. \E a \in A : \A b \in A : <<b, a>> \notin R
  BY <1>2, <1>3, WFMin
<1>5. PICK x \in T : \A y \in T : <<above(y), above(x)>> \notin R
  BY <1>4 DEF A
<1>6. ASSUME NEW y \in T, y > x PROVE FALSE
  <2>1. x \in Nat /\ y \in Nat /\ \A z \in T : z \in Nat
    OBVIOUS
  <2>2. above(y) \subseteq above(x) /\ x \in above(x) /\ x \notin above(y)
    <3>1. \A z \in T : z >= y => z >= x
      BY <1>6, <2>1
    <3>2. x >= x /\ ~(x >= y)
      BY <1>6, <2>1
    <3> QED
      BY <3>1, <3>2
  <2>3. <<above(y), above(x)>> \in R
    BY <2>2 DEF R, StrictSubsetOrdering
  <2> QED
    BY <1>5, <2>3
<1> QED
  BY <1>6

Ascending(e, I) ==
  /\ e \in [1..Cardinality(I) -> I]
  /\ \A i, j \in 1..Cardinality(I) : i < j => e[i] < e[j]

LEMMA FiniteRange ==
  ASSUME NEW N \in Nat, NEW I \in SUBSET (1..N)
  PROVE  IsFiniteSet(I) /\ Cardinality(I) \in Nat
<1>1. IsFiniteSet(1..N)
  BY FS_Interval
<1>2. IsFiniteSet(I)
  BY <1>1, FS_Subset
<1> QED
  BY <1>2, FS_CardinalityType

LEMMA CanBeListed ==
  ASSUME NEW N \in Nat, NEW I \in SUBSET (1..N)
  PROVE  \E e : Ascending(e, I)
<1> DEFINE Bad == {T \in SUBSET (1..N) : ~\E e : Ascending(e, T)}
           R == StrictSubsetOrdering(1..N)
<1>1. IsFiniteSet(1..N) /\ \A T \in SUBSET (1..N) : IsFiniteSet(T)
  BY FiniteRange, FS_Interval
<1>2. IsWellFoundedOn(R, SUBSET (1..N))
  BY <1>1, FS_FiniteSubsetsOfFinite, FS_StrictSubsetOrderingWellFounded
<1> SUFFICES ASSUME Bad # {} PROVE FALSE
  OBVIOUS
<1> HIDE DEF R
<1>3. PICK T \in Bad : \A U \in Bad : <<U, T>> \notin R
  BY <1>2, WFMin
<1>4. T # {}
  <2> SUFFICES ASSUME T = {} PROVE FALSE
    OBVIOUS
  <2>1. Cardinality(T) = 0
    BY FS_EmptySet
  <2>2. Ascending([i \in {} |-> i], T)
    BY <2>1 DEF Ascending
  <2> QED
    BY <2>2
<1>5. PICK m \in T : \A y \in T : y <= m
  BY <1>4, HasMaximum
<1> DEFINE U == T \ {m}
           c == Cardinality(U)
<1>6. IsFiniteSet(U) /\ c \in Nat /\ Cardinality(T) = c + 1
  <2>1. IsFiniteSet(T)
    BY <1>1
  <2>2. IsFiniteSet(U) /\ Cardinality(U) = Cardinality(T) - 1
    BY <2>1, FS_RemoveElement
  <2> QED
    BY <2>1, <2>2, FS_CardinalityType
<1>7. <<U, T>> \in R
  BY DEF R, StrictSubsetOrdering
<1>8. PICK e : Ascending(e, U)
  BY <1>3, <1>7
<1> HIDE DEF U, c
<1> DEFINE d == [i \in 1..c + 1 |-> IF i = c + 1 THEN m ELSE e[i]]
<1>9. \A i \in 1..c : e[i] \in T /\ e[i] < m
  <2>1. \A x \in U : x \in T /\ x # m /\ x \in Nat /\ m \in Nat
    BY DEF U
  <2> QED
    BY <1>5, <1>8, <2>1 DEF Ascending, c
<1>10. d \in [1..c + 1 -> T]
  BY <1>6, <1>9
<1>11. \A i, j \in 1..c + 1 : i < j => d[i] < d[j]
  <2> SUFFICES ASSUME NEW i \in 1..c + 1, NEW j \in 1..c + 1, i < j PROVE d[i] < d[j]
    OBVIOUS
  <2>1. i \in 1..c /\ d[i] = e[i]
    BY <1>6
  <2>2. CASE j = c + 1
    BY <1>9, <2>1, <2>2
  <2>3. CASE j # c + 1
    BY <1>6, <1>8, <2>1, <2>3 DEF Ascending, c
  <2> QED
    BY <2>2, <2>3
<1>12. Ascending(d, T)
  BY <1>6, <1>10, <1>11 DEF Ascending
<1> QED
  BY <1>12

LEMMA PlacesFacts ==
  ASSUME NEW N \in Nat, NEW I \in SUBSET (1..N)
  PROVE  /\ Cardinality(I) \in Nat
         /\ \A n \in 1..Cardinality(I) : Places(I)[n] \in I
         /\ \A m, n \in 1..Cardinality(I) : m < n => Places(I)[m] < Places(I)[n]
         /\ \A i \in I : \E n \in 1..Cardinality(I) : Places(I)[n] = i
<1> DEFINE c == Cardinality(I)
           e == Places(I)
<1>1. IsFiniteSet(I) /\ c \in Nat
  BY FiniteRange
<1>2. Ascending(e, I)
  <2>1. PICK d : Ascending(d, I)
    BY CanBeListed
  <2> QED
    BY <2>1 DEF Ascending, Places
<1> HIDE DEF c, e
<1>3. e \in [1..c -> I] /\ \A i, j \in 1..c : i < j => e[i] < e[j]
  BY <1>2 DEF Ascending, c
<1>4. e \in Injection(1..c, I)
  <2>1. \A i, j \in 1..c : e[i] = e[j] => i = j
    <3> SUFFICES ASSUME NEW i \in 1..c, NEW j \in 1..c, e[i] = e[j], i # j PROVE FALSE
      OBVIOUS
    <3>1. e[i] \in 1..N
      BY <1>3
    <3>2. i < j \/ j < i
      BY <1>1
    <3> QED
      BY <1>1, <1>3, <3>1, <3>2
  <2> QED
    BY <1>3, <2>1 DEF Injection, IsInjective
<1>5. Cardinality(1..c) = c
  BY <1>1, FS_Interval
<1>6. e \in Surjection(1..c, I)
  BY <1>1, <1>4, <1>5, FS_Injection DEF c
<1> QED
  BY <1>1, <1>3, <1>6 DEF Surjection, c, e

LEMMA SequenceOf ==
  ASSUME NEW S, NEW n \in Nat, NEW f \in [1..n -> S]
  PROVE  f \in Seq(S) /\ Len(f) = n
OBVIOUS

LEMMA PickFacts ==
  ASSUME NEW S, NEW s \in Seq(S), NEW I \in SUBSET (1..Len(s))
  PROVE  /\ Pick(s, I) \in Seq(S) /\ Len(Pick(s, I)) = Cardinality(I)
         /\ \A n \in 1..Len(Pick(s, I)) :
              Places(I)[n] \in I /\ Pick(s, I)[n] = s[Places(I)[n]]
         /\ \A m, n \in 1..Len(Pick(s, I)) : m < n => Places(I)[m] < Places(I)[n]
         /\ \A i \in I : \E n \in 1..Len(Pick(s, I)) : Places(I)[n] = i
<1> DEFINE c == Cardinality(I)
           e == Places(I)
<1>1. Len(s) \in Nat /\ \A i \in 1..Len(s) : s[i] \in S
  BY LenProperties, ElementOfSeq
<1>2. /\ c \in Nat /\ \A n \in 1..c : e[n] \in I
      /\ \A m, n \in 1..c : m < n => e[m] < e[n]
      /\ \A i \in I : \E n \in 1..c : e[n] = i
  BY <1>1, PlacesFacts
<1>3. Pick(s, I) = [n \in 1..c |-> s[e[n]]]
  BY DEF Pick
<1> HIDE DEF c, e
<1>4. [n \in 1..c |-> s[e[n]]] \in [1..c -> S]
  BY <1>1, <1>2
<1>5. \A n \in 1..c : [k \in 1..c |-> s[e[k]]][n] = s[e[n]]
  OBVIOUS
<1>6. Pick(s, I) \in Seq(S) /\ Len(Pick(s, I)) = c
  BY <1>2, <1>3, <1>4, SequenceOf
<1> QED
  BY <1>2, <1>3, <1>5, <1>6 DEF c, e

LEMMA AppendFacts ==
  ASSUME NEW S, NEW q \in Seq(S), NEW x \in S
  PROVE  /\ Append(q, x) \in Seq(S) /\ Len(q) \in Nat /\ Len(Append(q, x)) = Len(q) + 1
         /\ \A i \in 1..Len(q) : Append(q, x)[i] = q[i]
         /\ Append(q, x)[Len(q) + 1] = x
BY AppendProperties

LEMMA TailFacts ==
  ASSUME NEW S, NEW q \in Seq(S), q # <<>>
  PROVE  /\ Tail(q) \in Seq(S) /\ Len(Tail(q)) = Len(q) - 1
         /\ Len(q) \in Nat \ {0} /\ Head(q) = q[1] /\ q[1] \in S
         /\ \A i \in 1..Len(q) - 1 : Tail(q)[i] = q[i + 1]
<1>1. Len(q) \in Nat \ {0}
  BY EmptySeq
<1> QED
  BY <1>1, HeadTailProperties, ElementOfSeq

LEMMA ConcatFacts ==
  ASSUME NEW S, NEW q \in Seq(S), NEW s \in Seq(S)
  PROVE  /\ q \o s \in Seq(S) /\ Len(q) \in Nat /\ Len(s) \in Nat
         /\ Len(q \o s) = Len(q) + Len(s)
         /\ \A i \in 1..Len(q) : (q \o s)[i] = q[i]
         /\ \A i \in 1..Len(s) : (q \o s)[Len(q) + i] = s[i]
BY ConcatProperties, LenProperties

LEMMA PrefixFacts ==
  ASSUME NEW S, NEW q \in Seq(S), NEW n \in 0..Len(q)
  PROVE  /\ SubSeq(q, 1, n) \in Seq(S) /\ Len(SubSeq(q, 1, n)) = n
         /\ \A i \in 1..n : SubSeq(q, 1, n)[i] = q[i]
BY SubSeqProperties, LenProperties, ElementOfSeq
-----------------------------------------------------------------------------
(* Identifiers do not come round again, and a client with a network thread *)
(* does not close connections because of its receive maximum: what was     *)
(* read, and not yet answered, would be lost as in a connection that       *)
(* breaks.                                                                 *)
NoneComesRound ==
  /\ MaxGiven \in Nat /\ MaxMid \in Nat \ {0} /\ MaxGiven <= MaxMid /\ MaxInflight \in Nat
  /\ Expiring \subseteq BOOLEAN /\ Threads \subseteq BOOLEAN
  /\ TRUE \in Threads => "v5" \notin Protocols

Publishing == {"publish_qos1", "publish_qos2"}
Waiting == {"wait_for_puback", "wait_for_pubrec"}
Releasing == {"wait_for_pubcomp", "resend_pubrel"}
Messages ==
  [id : Nat, mid : Nat, qos : 1..2, dup : BOOLEAN,
   state : {"queued"} \cup Publishing \cup Waiting \cup Releasing]
Copy == [id : Nat, mid : Nat]

FirstKinds == {"PUBLISH", "PUBACK", "PUBREC"}
LastKinds == {"PUBREL", "PUBCOMP"}
Answers == {"PUBACK", "PUBREC", "PUBCOMP"}
UpKinds == {"CONNECT"} \cup Answers
DownKinds == {"CONNACK", "PUBLISH", "PUBREL"}
Packets(kinds) == [kind : kinds, mid : Nat, id : Nat, qos : Nat, dup : BOOLEAN]
AnyPacket == Packets(UpKinds \cup DownKinds)

LineTypes ==
  /\ TypeOK
  /\ given \in Seq([qos : 1..2, expires : BOOLEAN]) /\ got \in Seq(Nat)
  /\ Len(got) = Len(given) /\ Len(given) <= MaxGiven /\ last_mid = Len(given)
  /\ inflight \in Seq(Messages) /\ queued \in Seq(Messages) /\ held \in Seq(Copy)
  /\ up \in Seq(Packets(UpKinds)) /\ outp \in Seq(Packets(Answers))
  /\ down \in Seq(Packets(DownKinds))
  /\ breaks \in Nat /\ online \in BOOLEAN /\ threaded \in BOOLEAN
  /\ sock \in {"none", "connected", "active"} /\ (sock = "none" => down = <<>>)
  /\ (threaded => protocol # "v5") /\ (~threaded => outp = <<>>)

(* The packets under way, in the order in which they are read: what the    *)
(* client has read it has answered, or has yet to write.                   *)
Unwritten == IF sock = "none" THEN <<>> ELSE outp
Line == up \o Unwritten \o down
OnLine(kinds, mid) == \E a \in 1..Len(Line) : Line[a].kind \in kinds /\ Line[a].mid = mid
Held(k) == \E i \in 1..Len(held) : held[i].id = k

(* What a message is, in the session and in a packet.                      *)
Fits(m) == m.id = m.mid /\ m.id \in Ids /\ m.qos = given[m.id].qos
StateFits(m) ==
  /\ m.qos = 1 => m.state \in {"publish_qos1", "wait_for_puback"}
  /\ m.qos = 2 => m.state \in {"publish_qos2", "wait_for_pubrec"} \cup Releasing
InFlight(m) == Fits(m) /\ StateFits(m)
InQueue(m) == Fits(m) /\ m.state = "queued" /\ ~m.dup
FitsCopy(h) == h.id = h.mid /\ h.id \in Ids /\ given[h.id].qos = 2
FitsPacket(p) ==
  /\ p.kind \in {"CONNECT", "CONNACK"} <=> p.mid = 0
  /\ p.mid # 0 => p.mid \in Ids
  /\ p.kind = "PUBLISH" => p.id = p.mid /\ p.qos = given[p.mid].qos
  /\ p.kind = "PUBACK" => given[p.mid].qos = 1
  /\ p.kind \in {"PUBREC", "PUBREL", "PUBCOMP"} => given[p.mid].qos = 2

FitInv ==
  /\ \A i \in 1..Len(inflight) : InFlight(inflight[i])
  /\ \A i \in 1..Len(queued) : InQueue(queued[i])
  /\ \A i \in 1..Len(held) : FitsCopy(held[i])
  /\ \A a \in 1..Len(Line) : FitsPacket(Line[a])

(* A message is in the session once, and once on the line; behind CONNECT  *)
(* comes nothing else; whom the broker has closed sends nothing else.      *)
Distinct ==
  /\ \A i, j \in 1..Len(inflight) : inflight[i].id = inflight[j].id => i = j
  /\ \A i, j \in 1..Len(queued) : queued[i].id = queued[j].id => i = j
  /\ \A i \in 1..Len(inflight), j \in 1..Len(queued) : inflight[i].id # queued[j].id
OneEach ==
  \A a, b \in 1..Len(Line) : Line[a].mid = Line[b].mid /\ Line[a].mid # 0 => a = b
ConnectLast ==
  \A a, b \in 1..Len(Line) : a <= b /\ Line[a].kind = "CONNECT" => Line[b].mid = 0
LineInv ==
  /\ OneEach /\ ConnectLast
  /\ ~online => ~Current /\ \A a \in 1..Len(Line) : Line[a].mid = 0

(* The packet of a message on the line fits the state of the message.      *)
Answerable(p, m) ==
  m.mid = p.mid =>
    m.state \in IF p.kind \in FirstKinds THEN Waiting ELSE {"wait_for_pubcomp"}
StateInv ==
  \A a \in 1..Len(Line) :
    /\ \A i \in 1..Len(queued) : queued[i].mid # Line[a].mid
    /\ \A i \in 1..Len(inflight) : Answerable(Line[a], inflight[i])

ExchangeInv == LineTypes /\ FitInv /\ Distinct /\ LineInv /\ StateInv

-----------------------------------------------------------------------------
(* Where each packet stands on the line, and what happens to it there.     *)
LEMMA Joined ==
  ASSUME NEW S, NEW u \in Seq(S), NEW w \in Seq(S), NEW d \in Seq(S)
  PROVE  /\ u \o w \o d \in Seq(S) /\ Len(u) \in Nat /\ Len(w) \in Nat /\ Len(d) \in Nat
         /\ Len(u \o w \o d) = Len(u) + Len(w) + Len(d)
         /\ \A i \in 1..Len(u) : (u \o w \o d)[i] = u[i]
         /\ \A i \in 1..Len(w) : (u \o w \o d)[Len(u) + i] = w[i]
         /\ \A i \in 1..Len(d) : (u \o w \o d)[Len(u) + Len(w) + i] = d[i]
<1>1. /\ u \o w \in Seq(S) /\ Len(u) \in Nat /\ Len(w) \in Nat
      /\ Len(u \o w) = Len(u) + Len(w)
      /\ \A i \in 1..Len(u) : (u \o w)[i] = u[i]
      /\ \A i \in 1..Len(w) : (u \o w)[Len(u) + i] = w[i]
  BY ConcatFacts
<1> DEFINE s == u \o w
<1> HIDE DEF s
<1>2. s \in Seq(S)
  BY <1>1 DEF s
<1>3. /\ s \o d \in Seq(S) /\ Len(s) \in Nat /\ Len(d) \in Nat
      /\ Len(s \o d) = Len(s) + Len(d)
      /\ \A i \in 1..Len(s) : (s \o d)[i] = s[i]
      /\ \A i \in 1..Len(d) : (s \o d)[Len(s) + i] = d[i]
  BY <1>2, ConcatFacts
<1>4. Len(s) = Len(u) + Len(w)
  BY <1>1 DEF s
<1>5. \A i \in 1..Len(u) : i \in 1..Len(s) /\ (s \o d)[i] = u[i]
  <2>1. \A i \in 1..Len(u) : i \in 1..Len(s) /\ s[i] = u[i]
    BY <1>1 DEF s
  <2> QED
    BY <1>3, <2>1
<1>6. \A i \in 1..Len(w) : (s \o d)[Len(u) + i] = w[i]
  <2>1. \A i \in 1..Len(w) : Len(u) + i \in 1..Len(s) /\ s[Len(u) + i] = w[i]
    BY <1>1 DEF s
  <2> QED
    BY <1>3, <2>1
<1>7. \A i \in 1..Len(d) : (s \o d)[Len(u) + Len(w) + i] = d[i]
  BY <1>3, <1>4
<1> QED
  BY <1>1, <1>3, <1>4, <1>5, <1>6, <1>7 DEF s

(* The line as it is and as it will be: in three parts, of which the last  *)
(* begins behind Unread packets.                                           *)
Unread == Len(up) + Len(Unwritten)
LineParts ==
  /\ Line \in Seq(AnyPacket) /\ Len(Line) = Unread + Len(down)
  /\ Len(up) \in Nat /\ Len(Unwritten) \in Nat /\ Len(down) \in Nat
  /\ Unread = Len(up) + Len(Unwritten)
  /\ \A a \in 1..Len(Line) : Line[a] \in AnyPacket
  /\ \A a \in 1..Len(up) : Line[a] = up[a]
  /\ \A a \in 1..Len(Unwritten) : Line[Len(up) + a] = Unwritten[a]
  /\ \A a \in 1..Len(down) : Line[Unread + a] = down[a]
  /\ \A a \in 1..Len(Line) :
       /\ a <= Len(up) => Line[a].kind \in UpKinds
       /\ Len(up) < a /\ a <= Unread => Line[a].kind \in Answers
       /\ Unread < a => Line[a].kind \in DownKinds

LEMMA LineFacts == LineTypes => LineParts
<1> SUFFICES ASSUME LineTypes PROVE LineParts
  OBVIOUS
<1>1. /\ up \in Seq(Packets(UpKinds)) /\ Unwritten \in Seq(Packets(Answers))
      /\ down \in Seq(Packets(DownKinds))
  <2>1. <<>> \in Seq(Packets(Answers))
    BY EmptySeq
  <2> QED
    BY <2>1 DEF LineTypes, Unwritten
<1>2. /\ Packets(UpKinds) \subseteq AnyPacket /\ Packets(Answers) \subseteq AnyPacket
      /\ Packets(DownKinds) \subseteq AnyPacket
  BY DEF Packets, AnyPacket, UpKinds, DownKinds
<1>3. up \in Seq(AnyPacket) /\ Unwritten \in Seq(AnyPacket) /\ down \in Seq(AnyPacket)
  BY <1>1, <1>2
<1> DEFINE w == Unwritten
<1>4. /\ Line \in Seq(AnyPacket) /\ Len(up) \in Nat /\ Len(w) \in Nat /\ Len(down) \in Nat
      /\ Len(Line) = Len(up) + Len(w) + Len(down)
      /\ \A i \in 1..Len(up) : Line[i] = up[i]
      /\ \A i \in 1..Len(w) : Line[Len(up) + i] = w[i]
      /\ \A i \in 1..Len(down) : Line[Len(up) + Len(w) + i] = down[i]
  BY <1>3, Joined DEF Line
<1>5. \A a \in 1..Len(Line) : Line[a] \in AnyPacket
  BY <1>4, ElementOfSeq
<1>6. /\ \A i \in 1..Len(up) : up[i].kind \in UpKinds
      /\ \A i \in 1..Len(w) : w[i].kind \in Answers
      /\ \A i \in 1..Len(down) : down[i].kind \in DownKinds
  <2>1. /\ \A i \in 1..Len(up) : up[i] \in Packets(UpKinds)
        /\ \A i \in 1..Len(w) : w[i] \in Packets(Answers)
        /\ \A i \in 1..Len(down) : down[i] \in Packets(DownKinds)
    BY <1>1, ElementOfSeq
  <2> QED
    BY <2>1 DEF Packets
<1> HIDE DEF w
<1>7. ASSUME NEW a \in 1..Len(Line)
      PROVE  /\ a <= Len(up) => Line[a].kind \in UpKinds
             /\ Len(up) < a /\ a <= Len(up) + Len(w) => Line[a].kind \in Answers
             /\ Len(up) + Len(w) < a => Line[a].kind \in DownKinds
  <2>1. CASE a <= Len(up)
    BY <1>4, <1>6, <2>1
  <2>2. CASE Len(up) < a /\ a <= Len(up) + Len(w)
    <3>1. a - Len(up) \in 1..Len(w) /\ Len(up) + (a - Len(up)) = a
      BY <1>2, <1>4, <2>2
    <3>2. Line[a] = w[a - Len(up)]
      BY <1>4, <3>1
    <3>3. Line[a].kind \in Answers
      BY <1>6, <3>1, <3>2
    <3> QED
      BY <1>4, <2>2, <3>3
  <2>3. CASE Len(up) + Len(w) < a
    <3>1. a - Len(up) - Len(w) \in 1..Len(down) /\ Len(up) + Len(w) + (a - Len(up) - Len(w)) = a
      BY <1>2, <1>4, <2>3
    <3>2. Line[a] = down[a - Len(up) - Len(w)]
      BY <1>4, <3>1
    <3>3. Line[a].kind \in DownKinds
      BY <1>6, <3>1, <3>2
    <3> QED
      BY <1>4, <2>3, <3>3
  <2> QED
    BY <1>4, <2>1, <2>2, <2>3
<1> QED
  BY <1>4, <1>5, <1>7 DEF LineParts, Unread, w

(* What a step makes of the line: the packets at gone leave it, r takes    *)
(* the place c, and s comes behind.                                        *)
Moves(l, e, gone, c, r, s) ==
  /\ l \in Nat /\ Len(s) \in Nat /\ Len(Line') = l + Len(s)
  /\ \A a \in 1..l : /\ e[a] \in 1..Len(Line) /\ e[a] \notin gone
                     /\ Line'[a] = IF e[a] = c THEN r ELSE Line[e[a]]
  /\ \A a, b \in 1..l : a < b => e[a] < e[b]
  /\ \A b \in 1..Len(Line) : b \notin gone => \E a \in 1..l : e[a] = b
  /\ \A a \in 1..Len(s) : Line'[l + a] = s[a]
Follows(gone, c, r, s) == \E l, e : Moves(l, e, gone, c, r, s)

LEMMA LineKept ==
  ASSUME LineTypes, Line' = Line, NEW r
  PROVE  Follows({}, 0, r, <<>>)
<1>1. Len(Line) \in Nat
  BY LineFacts, LenProperties DEF LineParts
<1>2. Moves(Len(Line), [a \in 1..Len(Line) |-> a], {}, 0, r, <<>>)
  BY <1>1 DEF Moves
<1> QED
  BY <1>2 DEF Follows

(* The first packets remain, up to n of them. *)
LEMMA LineCut ==
  ASSUME LineTypes, NEW n \in 0..Len(Line), NEW c, NEW r, Len(Line') = n,
         \A a \in 1..n : Line'[a] = IF a = c THEN r ELSE Line[a]
  PROVE  Follows({b \in 1..Len(Line) : b > n}, c, r, <<>>)
<1>1. Len(Line) \in Nat
  BY LineFacts, LenProperties DEF LineParts
<1>2. Moves(n, [a \in 1..n |-> a], {b \in 1..Len(Line) : b > n}, c, r, <<>>)
  BY <1>1 DEF Moves
<1> QED
  BY <1>2 DEF Follows

(* packet__write, by the broker. *)
LEMMA LineGrows ==
  ASSUME LineTypes, NEW r, NEW s, Len(s) \in Nat, Len(Line') = Len(Line) + Len(s),
         \A a \in 1..Len(Line) : Line'[a] = Line[a],
         \A a \in 1..Len(s) : Line'[Len(Line) + a] = s[a]
  PROVE  Follows({}, 0, r, s)
<1>1. Len(Line) \in Nat
  BY LineFacts, LenProperties DEF LineParts
<1>2. Moves(Len(Line), [a \in 1..Len(Line) |-> a], {}, 0, r, s)
  BY <1>1 DEF Moves
<1> QED
  BY <1>2 DEF Follows

(* The packet at c is read: r answers it, or nothing does; s is written.   *)
LEMMA LineAnswered ==
  ASSUME LineTypes, NEW c, NEW r, Len(Line') = Len(Line),
         \A a \in 1..Len(Line) : Line'[a] = IF a = c THEN r ELSE Line[a]
  PROVE  Follows({}, c, r, <<>>)
<1>1. Len(Line) \in Nat
  BY LineFacts, LenProperties DEF LineParts
<1>2. Moves(Len(Line), [a \in 1..Len(Line) |-> a], {}, c, r, <<>>)
  BY <1>1 DEF Moves
<1> QED
  BY <1>2 DEF Follows

LEMMA LineTaken ==
  ASSUME LineTypes, NEW c \in 1..Len(Line), NEW r, NEW s, Len(s) \in Nat,
         Len(Line') = Len(Line) - 1 + Len(s),
         \A a \in 1..Len(Line) - 1 : Line'[a] = IF a < c THEN Line[a] ELSE Line[a + 1],
         \A a \in 1..Len(s) : Line'[Len(Line) - 1 + a] = s[a]
  PROVE  Follows({c}, 0, r, s)
<1>1. Len(Line) \in Nat
  BY LineFacts, LenProperties DEF LineParts
<1> DEFINE l == Len(Line) - 1
           e == [a \in 1..l |-> IF a < c THEN a ELSE a + 1]
<1>2. l \in Nat /\ Len(Line') = l + Len(s)
  BY <1>1
<1>3. \A a \in 1..l : /\ e[a] \in 1..Len(Line) /\ e[a] # c
                      /\ Line'[a] = IF e[a] = 0 THEN r ELSE Line[e[a]]
  BY <1>1
<1>4. \A a, b \in 1..l : a < b => e[a] < e[b]
  BY <1>1
<1>5. ASSUME NEW b \in 1..Len(Line), b # c PROVE \E a \in 1..l : e[a] = b
  <2>1. CASE b < c
    <3>1. b \in 1..l /\ e[b] = b
      BY <1>1, <2>1
    <3> QED
      BY <3>1
  <2>2. CASE b > c
    <3>1. b - 1 \in 1..l /\ e[b - 1] = b
      BY <1>1, <2>2
    <3> QED
      BY <3>1
  <2> QED
    BY <1>1, <1>5, <2>1, <2>2
<1> HIDE DEF l, e
<1>6. Moves(l, e, {c}, 0, r, s)
  <2>1. \A a \in 1..Len(s) : Line'[l + a] = s[a]
    BY DEF l
  <2>2. \A b \in 1..Len(Line) : b \notin {c} => \E a \in 1..l : e[a] = b
    BY <1>5
  <2> QED
    BY <1>2, <1>3, <1>4, <2>1, <2>2 DEF Moves
<1> QED
  BY <1>6 DEF Follows

-----------------------------------------------------------------------------
(* What a step makes of the session: the messages at e remain in flight,   *)
(* and the first n of the queue join them.                                 *)
Carries(l, e, n) ==
  /\ l \in Nat /\ n \in 0..Len(queued)
  /\ Len(inflight') = l + n /\ Len(queued') = Len(queued) - n
  /\ \A i \in 1..l : e[i] \in 1..Len(inflight)
  /\ \A i, j \in 1..l : i < j => e[i] < e[j]
  /\ \A i \in 1..n : inflight'[l + i] = ToPublish(queued[i])
  /\ \A i \in 1..Len(queued') : queued'[i] = queued[n + i]

LEMMA SessionTypes ==
  ASSUME LineTypes
  PROVE  /\ Len(inflight) \in Nat /\ Len(queued) \in Nat /\ Len(held) \in Nat
         /\ Len(given) \in Nat /\ Len(up) \in Nat /\ Len(outp) \in Nat /\ Len(down) \in Nat
         /\ \A i \in 1..Len(inflight) : inflight[i] \in Messages
         /\ \A i \in 1..Len(queued) : queued[i] \in Messages
         /\ \A i \in 1..Len(held) : held[i] \in Copy
<1>1. /\ inflight \in Seq(Messages) /\ queued \in Seq(Messages) /\ held \in Seq(Copy)
      /\ given \in Seq([qos : 1..2, expires : BOOLEAN])
      /\ up \in Seq(Packets(UpKinds)) /\ outp \in Seq(Packets(Answers))
      /\ down \in Seq(Packets(DownKinds))
  BY DEF LineTypes
<1>2. /\ \A i \in 1..Len(inflight) : inflight[i] \in Messages
      /\ \A i \in 1..Len(queued) : queued[i] \in Messages
      /\ \A i \in 1..Len(held) : held[i] \in Copy
  BY <1>1, ElementOfSeq
<1> QED
  BY <1>1, <1>2, LenProperties

LEMMA MovedTypes ==
  ASSUME NEW m \in Messages
  PROVE  /\ ToPublish(m) \in Messages /\ Sent(m) \in Messages /\ Resumed(m) \in Messages
         /\ Packet(m) \in Packets(DownKinds)
<1>1. ToPublish(m) \in Messages
  BY DEF Messages, ToPublish, Publishing
<1>2. Sent(m) \in Messages
  BY DEF Messages, Sent, Publishing, Waiting, Releasing
<1>3. Resumed(m) \in Messages
  BY <1>1 DEF Messages, Resumed, Releasing
<1>4. Packet(m) \in Packets(DownKinds)
  BY DEF Messages, Packet, Ack, Pkt, Packets, DownKinds
<1> QED
  BY <1>1, <1>2, <1>3, <1>4

(* The first n messages leave the queue for what is in flight. *)
LEMMA TakenFromQueue ==
  ASSUME LineTypes, NEW left \in Seq(Messages), NEW n \in 0..Len(queued),
         inflight' = left \o Map(ToPublish, SubSeq(queued, 1, n)),
         queued' = SubSeq(queued, n + 1, Len(queued))
  PROVE  /\ inflight' \in Seq(Messages) /\ queued' \in Seq(Messages)
         /\ Len(left) \in Nat /\ Len(inflight') = Len(left) + n
         /\ Len(queued') = Len(queued) - n
         /\ \A i \in 1..Len(left) : inflight'[i] = left[i]
         /\ \A i \in 1..n : inflight'[Len(left) + i] = ToPublish(queued[i])
         /\ \A i \in 1..Len(queued') : queued'[i] = queued[n + i]
<1> DEFINE first == SubSeq(queued, 1, n)
           added == Map(ToPublish, first)
<1>1. queued \in Seq(Messages) /\ Len(queued) \in Nat
  BY LenProperties DEF LineTypes
<1>2. first \in Seq(Messages) /\ Len(first) = n /\ \A i \in 1..n : first[i] = queued[i]
  BY <1>1, PrefixFacts
<1>3. \A i \in 1..n : first[i] \in Messages
  BY <1>2, ElementOfSeq
<1> HIDE DEF first
<1>4. added = [i \in 1..n |-> ToPublish(first[i])]
  BY <1>2 DEF Map
<1>5. \A i \in 1..n : ToPublish(first[i]) \in Messages
  BY <1>3, MovedTypes
<1>6. added \in Seq(Messages) /\ Len(added) = n
  BY <1>4, <1>5, SequenceOf
<1>7. \A i \in 1..n : added[i] = ToPublish(queued[i])
  BY <1>2, <1>4
<1>8. inflight' = left \o added
  BY DEF first
<1> HIDE DEF added
<1>9. /\ inflight' \in Seq(Messages) /\ Len(left) \in Nat
      /\ Len(inflight') = Len(left) + n
      /\ \A i \in 1..Len(left) : inflight'[i] = left[i]
      /\ \A i \in 1..n : inflight'[Len(left) + i] = added[i]
  <2>1. /\ left \o added \in Seq(Messages) /\ Len(left) \in Nat
        /\ Len(left \o added) = Len(left) + Len(added)
        /\ \A i \in 1..Len(left) : (left \o added)[i] = left[i]
        /\ \A i \in 1..Len(added) : (left \o added)[Len(left) + i] = added[i]
    <3>1. added \in Seq(Messages)
      BY <1>6
    <3> QED
      BY <3>1, ConcatFacts
  <2> QED
    BY <1>6, <1>8, <2>1
<1>10. /\ queued' \in Seq(Messages) /\ Len(queued') = Len(queued) - n
       /\ \A i \in 1..Len(queued') : queued'[i] = queued[n + i]
  <2>1. \A i \in n + 1..Len(queued) : queued[i] \in Messages
    BY <1>1, ElementOfSeq
  <2>2. n + 1 \in Nat /\ n + 1 - 1 \in Nat
    BY <1>1
  <2>3. /\ SubSeq(queued, n + 1, Len(queued)) \in Seq(Messages)
        /\ Len(SubSeq(queued, n + 1, Len(queued))) = Len(queued) - n
        /\ \A i \in 1..Len(queued) - n : SubSeq(queued, n + 1, Len(queued))[i] = queued[n + i]
    BY <1>1, <2>1, <2>2, SubSeqProperties
  <2> QED
    BY <2>3
<1> QED
  BY <1>7, <1>9, <1>10

(* db__message_write: the packets pk are those of the messages at f, all   *)
(* that are due, in the order in which they stand.                         *)
Due(j) == j \in 1..Len(inflight) /\ ~Gone(inflight[j]) /\ inflight[j].state \in Unsent
Writes(pk, f) ==
  /\ pk \in Seq(Packets(DownKinds))
  /\ \A i \in 1..Len(pk) : Due(f[i]) /\ pk[i] = Packet(inflight[f[i]])
  /\ \A i, j \in 1..Len(pk) : i < j => f[i] < f[j]
  /\ \A j : Due(j) => \E i \in 1..Len(pk) : f[i] = j

KeepsUnlessGone(l, e) ==
  /\ \A i \in 1..l : inflight'[i] = Sent(inflight[e[i]]) /\ ~Gone(inflight[e[i]])
  /\ \A j \in 1..Len(inflight) : ~Gone(inflight[j]) => \E i \in 1..l : e[i] = j

LEMMA WrittenSession ==
  ASSUME LineTypes, MessageWrite
  PROVE  /\ inflight' \in Seq(Messages) /\ queued' \in Seq(Messages)
         /\ \E l, e : /\ Carries(l, e, Lower(out_quota, Len(queued)))
                      /\ KeepsUnlessGone(l, e)
         /\ \E pk, f : Writes(pk, f) /\ down' = IF Current THEN down \o pk ELSE down
<1> DEFINE I == {i \in 1..Len(inflight) : ~Gone(inflight[i])}
           e == Places(I)
           kept == Pick(inflight, I)
           l == Len(kept)
           n == Lower(out_quota, Len(queued))
           D == {i \in 1..Len(kept) : kept[i].state \in Unsent}
           g == Places(D)
           due == Pick(kept, D)
           d == Len(due)
           left == Map(Sent, kept)
           pk == Map(Packet, due)
<1>1. inflight \in Seq(Messages) /\ I \in SUBSET (1..Len(inflight))
  BY DEF LineTypes
<1>2. /\ Len(inflight) \in Nat /\ Len(queued) \in Nat
      /\ \A i \in 1..Len(inflight) : inflight[i] \in Messages
  BY SessionTypes
<1>3. /\ kept \in Seq(Messages)
      /\ \A i \in 1..l : e[i] \in I /\ kept[i] = inflight[e[i]]
      /\ \A i, j \in 1..l : i < j => e[i] < e[j]
      /\ \A j \in I : \E i \in 1..l : e[i] = j
  <2> HIDE DEF I
  <2>1. I \in SUBSET (1..Len(inflight)) /\ inflight \in Seq(Messages)
    BY <1>1
  <2>2. /\ Pick(inflight, I) \in Seq(Messages)
        /\ \A i \in 1..Len(Pick(inflight, I)) :
             Places(I)[i] \in I /\ Pick(inflight, I)[i] = inflight[Places(I)[i]]
        /\ \A i, j \in 1..Len(Pick(inflight, I)) : i < j => Places(I)[i] < Places(I)[j]
        /\ \A j \in I : \E i \in 1..Len(Pick(inflight, I)) : Places(I)[i] = j
    BY <2>1, PickFacts
  <2> QED
    BY <2>2
<1>4. /\ inflight' = left \o Map(ToPublish, SubSeq(queued, 1, n))
      /\ queued' = SubSeq(queued, n + 1, Len(queued))
      /\ down' = IF Current THEN down \o pk ELSE down
  BY DEF MessageWrite, Write
<1>5. n \in 0..Len(queued)
  BY <1>2 DEF Lower, LineTypes, TypeOK
<1> HIDE DEF I, e, kept, n
<1>6. l \in Nat /\ \A i \in 1..l : kept[i] \in Messages
  BY <1>3, LenProperties, ElementOfSeq
<1>7. D \in SUBSET (1..Len(kept))
  OBVIOUS
<1>8. /\ due \in Seq(Messages)
      /\ \A i \in 1..d : g[i] \in D /\ due[i] = kept[g[i]]
      /\ \A i, j \in 1..d : i < j => g[i] < g[j]
      /\ \A j \in D : \E i \in 1..d : g[i] = j
  <2> HIDE DEF D
  <2>1. D \in SUBSET (1..Len(kept)) /\ kept \in Seq(Messages)
    BY <1>3, <1>7
  <2>2. /\ Pick(kept, D) \in Seq(Messages)
        /\ \A i \in 1..Len(Pick(kept, D)) :
             Places(D)[i] \in D /\ Pick(kept, D)[i] = kept[Places(D)[i]]
        /\ \A i, j \in 1..Len(Pick(kept, D)) : i < j => Places(D)[i] < Places(D)[j]
        /\ \A j \in D : \E i \in 1..Len(Pick(kept, D)) : Places(D)[i] = j
    BY <2>1, PickFacts
  <2> QED
    BY <2>2
<1>9. D = {i \in 1..l : kept[i].state \in Unsent}
  OBVIOUS
<1> HIDE DEF D, g, due, l
<1>10. d \in Nat /\ \A i \in 1..d : due[i] \in Messages
  BY <1>8, LenProperties, ElementOfSeq
<1> HIDE DEF d
<1>11. /\ left \in Seq(Messages) /\ Len(left) = l
       /\ \A i \in 1..l : left[i] = Sent(kept[i])
  <2>1. left = [i \in 1..l |-> Sent(kept[i])]
    BY DEF Map, l
  <2>2. \A i \in 1..l : Sent(kept[i]) \in Messages
    BY <1>6, MovedTypes
  <2> QED
    BY <1>6, <2>1, <2>2, SequenceOf
<1>12. /\ pk \in Seq(Packets(DownKinds)) /\ Len(pk) = d
       /\ \A i \in 1..d : pk[i] = Packet(due[i])
  <2>1. pk = [i \in 1..d |-> Packet(due[i])]
    BY DEF Map, d
  <2>2. \A i \in 1..d : Packet(due[i]) \in Packets(DownKinds)
    BY <1>10, MovedTypes
  <2> QED
    BY <1>10, <2>1, <2>2, SequenceOf
<1> HIDE DEF left, pk
<1>13. /\ inflight' \in Seq(Messages) /\ queued' \in Seq(Messages)
       /\ Len(inflight') = l + n /\ Len(queued') = Len(queued) - n
       /\ \A i \in 1..l : inflight'[i] = left[i]
       /\ \A i \in 1..n : inflight'[l + i] = ToPublish(queued[i])
       /\ \A i \in 1..Len(queued') : queued'[i] = queued[n + i]
  BY <1>4, <1>5, <1>11, TakenFromQueue
<1>14. \A i \in 1..l : e[i] \in 1..Len(inflight) /\ ~Gone(inflight[e[i]])
  BY <1>3 DEF I, l
<1>15. Carries(l, e, n)
  BY <1>3, <1>5, <1>6, <1>13, <1>14 DEF Carries, l
<1>16. KeepsUnlessGone(l, e)
  <2>1. \A i \in 1..l : inflight'[i] = Sent(inflight[e[i]])
    BY <1>3, <1>11, <1>13 DEF l
  <2>2. \A j \in 1..Len(inflight) : ~Gone(inflight[j]) => \E i \in 1..l : e[i] = j
    BY <1>3 DEF I, l
  <2> QED
    BY <1>14, <2>1, <2>2 DEF KeepsUnlessGone
<1> DEFINE f == [i \in 1..d |-> e[g[i]]]
<1>17. \A i \in 1..d : g[i] \in 1..l /\ kept[g[i]].state \in Unsent
  BY <1>8, <1>9 DEF d
<1>18. Writes(pk, f)
  <2>1. \A i \in 1..d : Due(f[i]) /\ pk[i] = Packet(inflight[f[i]])
    <3>1. \A i \in 1..d : f[i] = e[g[i]] /\ inflight[f[i]] = kept[g[i]] /\ due[i] = kept[g[i]]
      BY <1>3, <1>8, <1>17 DEF l, d
    <3> QED
      BY <1>12, <1>14, <1>17, <3>1 DEF Due
  <2>2. \A i, j \in 1..d : i < j => f[i] < f[j]
    BY <1>3, <1>8, <1>17 DEF l, d
  <2>3. ASSUME NEW j, Due(j) PROVE \E i \in 1..d : f[i] = j
    <3>1. PICK i \in 1..l : e[i] = j
      BY <1>3, <2>3 DEF I, l, Due
    <3>2. kept[i] = inflight[j]
      BY <1>3, <3>1 DEF l
    <3>3. i \in D
      BY <1>9, <2>3, <3>2 DEF Due
    <3>4. PICK m \in 1..d : g[m] = i
      BY <1>8, <3>3 DEF d
    <3> QED
      BY <3>1, <3>4
  <2> QED
    BY <1>12, <2>1, <2>2, <2>3 DEF Writes
<1> QED
  BY <1>4, <1>13, <1>15, <1>16, <1>18 DEF n

(* connect__on_authorised: every message is resumed where it stands. *)
ResumesAll ==
  \E e : /\ Carries(Len(inflight), e, Lower(MaxInflight, Len(queued)))
         /\ \A i \in 1..Len(inflight) : e[i] = i /\ inflight'[i] = Resumed(inflight[i])

LEMMA ResumedSession ==
  ASSUME NoneComesRound, LineTypes, HandleConnect
  PROVE  inflight' \in Seq(Messages) /\ queued' \in Seq(Messages) /\ ResumesAll
<1> DEFINE l == Len(inflight)
           e == [i \in 1..l |-> i]
           n == Lower(MaxInflight, Len(queued))
           left == Map(Resumed, inflight)
<1>1. /\ Len(inflight) \in Nat /\ Len(queued) \in Nat
      /\ \A i \in 1..Len(inflight) : inflight[i] \in Messages
  BY SessionTypes
<1>2. /\ inflight' = left \o Map(ToPublish, SubSeq(queued, 1, n))
      /\ queued' = SubSeq(queued, n + 1, Len(queued))
  BY DEF HandleConnect
<1>3. n \in 0..Len(queued)
  BY <1>1 DEF Lower, NoneComesRound
<1>4. /\ left \in Seq(Messages) /\ Len(left) = l
      /\ \A i \in 1..l : left[i] = Resumed(inflight[i])
  <2>1. left = [i \in 1..l |-> Resumed(inflight[i])]
    BY DEF Map
  <2>2. \A i \in 1..l : Resumed(inflight[i]) \in Messages
    BY <1>1, MovedTypes
  <2> QED
    BY <1>1, <2>1, <2>2, SequenceOf
<1> HIDE DEF left, n
<1>5. /\ inflight' \in Seq(Messages) /\ queued' \in Seq(Messages)
      /\ Len(inflight') = l + n /\ Len(queued') = Len(queued) - n
      /\ \A i \in 1..l : inflight'[i] = left[i]
      /\ \A i \in 1..n : inflight'[l + i] = ToPublish(queued[i])
      /\ \A i \in 1..Len(queued') : queued'[i] = queued[n + i]
  <2>1. left \in Seq(Messages)
    BY <1>4
  <2>2. /\ inflight' \in Seq(Messages) /\ queued' \in Seq(Messages)
        /\ Len(inflight') = Len(left) + n /\ Len(queued') = Len(queued) - n
        /\ \A i \in 1..Len(left) : inflight'[i] = left[i]
        /\ \A i \in 1..n : inflight'[Len(left) + i] = ToPublish(queued[i])
        /\ \A i \in 1..Len(queued') : queued'[i] = queued[n + i]
    BY <1>2, <1>3, <2>1, TakenFromQueue
  <2> QED
    BY <1>4, <2>2
<1>6. Carries(l, e, n)
  BY <1>1, <1>3, <1>5 DEF Carries
<1>7. \A i \in 1..l : e[i] = i /\ inflight'[i] = Resumed(inflight[i])
  BY <1>4, <1>5
<1> QED
  BY <1>5, <1>6, <1>7 DEF ResumesAll, n

(* db__message_delete_outgoing: the message with the identifier leaves.    *)
RemainsBut(l, e, mid) ==
  /\ \A i \in 1..l : inflight'[i] = inflight[e[i]] /\ inflight[e[i]].mid # mid
  /\ \A j \in 1..Len(inflight) : inflight[j].mid # mid => \E i \in 1..l : e[i] = j

FreePlaces(mid) == MaxInflight - Lower(MaxInflight, Len(Without(inflight, mid)))

LEMMA DeletedSession ==
  ASSUME NoneComesRound, LineTypes, NEW mid,
         inflight' = Without(inflight, mid)
                       \o Map(ToPublish, SubSeq(queued, 1, Lower(Len(queued), FreePlaces(mid)))),
         queued' = SubSeq(queued, Lower(Len(queued), FreePlaces(mid)) + 1, Len(queued))
  PROVE  /\ inflight' \in Seq(Messages) /\ queued' \in Seq(Messages)
         /\ Len(Without(inflight, mid)) \in Nat
         /\ \E e : /\ Carries(Len(Without(inflight, mid)), e, Lower(Len(queued), FreePlaces(mid)))
                   /\ RemainsBut(Len(Without(inflight, mid)), e, mid)
<1> DEFINE I == {i \in 1..Len(inflight) : inflight[i].mid # mid}
           e == Places(I)
           left == Without(inflight, mid)
           l == Len(left)
           n == Lower(Len(queued), FreePlaces(mid))
<1>1. inflight \in Seq(Messages) /\ I \in SUBSET (1..Len(inflight))
  BY DEF LineTypes
<1>2. /\ Len(inflight) \in Nat /\ Len(queued) \in Nat
  BY SessionTypes
<1>3. /\ left \in Seq(Messages)
      /\ \A i \in 1..l : e[i] \in I /\ left[i] = inflight[e[i]]
      /\ \A i, j \in 1..l : i < j => e[i] < e[j]
      /\ \A j \in I : \E i \in 1..l : e[i] = j
  <2>1. left = Pick(inflight, I)
    BY DEF Without
  <2> HIDE DEF I, left
  <2>2. /\ Pick(inflight, I) \in Seq(Messages)
        /\ \A i \in 1..Len(Pick(inflight, I)) :
             Places(I)[i] \in I /\ Pick(inflight, I)[i] = inflight[Places(I)[i]]
        /\ \A i, j \in 1..Len(Pick(inflight, I)) : i < j => Places(I)[i] < Places(I)[j]
        /\ \A j \in I : \E i \in 1..Len(Pick(inflight, I)) : Places(I)[i] = j
    <3>1. Pick(inflight, I) \in Seq(Messages)
      BY <1>1, PickFacts
    <3>2. \A i \in 1..Len(Pick(inflight, I)) :
            Places(I)[i] \in I /\ Pick(inflight, I)[i] = inflight[Places(I)[i]]
      BY <1>1, PickFacts
    <3>3. \A i, j \in 1..Len(Pick(inflight, I)) : i < j => Places(I)[i] < Places(I)[j]
      BY <1>1, PickFacts
    <3>4. \A j \in I : \E i \in 1..Len(Pick(inflight, I)) : Places(I)[i] = j
      BY <1>1, PickFacts
    <3> QED
      BY <3>1, <3>2, <3>3, <3>4
  <2> QED
    BY <2>1, <2>2
<1>4. /\ inflight' = left \o Map(ToPublish, SubSeq(queued, 1, n))
      /\ queued' = SubSeq(queued, n + 1, Len(queued))
  OBVIOUS
<1> HIDE DEF I, e, left
<1>5. l \in Nat
  BY <1>3, LenProperties
<1>6. n \in 0..Len(queued)
  <2>1. FreePlaces(mid) \in Nat
    BY <1>5 DEF FreePlaces, Lower, NoneComesRound, left
  <2> QED
    BY <1>2, <2>1 DEF Lower
<1> HIDE DEF l, n
<1>7. /\ inflight' \in Seq(Messages) /\ queued' \in Seq(Messages)
      /\ Len(inflight') = l + n /\ Len(queued') = Len(queued) - n
      /\ \A i \in 1..l : inflight'[i] = left[i]
      /\ \A i \in 1..n : inflight'[l + i] = ToPublish(queued[i])
      /\ \A i \in 1..Len(queued') : queued'[i] = queued[n + i]
  BY <1>3, <1>4, <1>6, TakenFromQueue DEF l
<1>8. \A i \in 1..l : e[i] \in 1..Len(inflight) /\ inflight[e[i]].mid # mid
  BY <1>3 DEF I, l
<1>9. Carries(l, e, n)
  BY <1>3, <1>5, <1>6, <1>7, <1>8 DEF Carries, l
<1>10. RemainsBut(l, e, mid)
  <2>1. \A i \in 1..l : inflight'[i] = inflight[e[i]]
    BY <1>3, <1>7 DEF l
  <2>2. \A j \in 1..Len(inflight) : inflight[j].mid # mid => \E i \in 1..l : e[i] = j
    BY <1>3 DEF I, l
  <2> QED
    BY <1>8, <2>1, <2>2 DEF RemainsBut
<1> QED
  BY <1>5, <1>7, <1>9, <1>10 DEF l, n, left

-----------------------------------------------------------------------------
(* The packet that is read.  What the broker reads fits the message it is  *)
(* about, so that it does not close the connection.                        *)
LEMMA BrokerReads ==
  ASSUME LineTypes, up # <<>>
  PROVE  /\ Len(up) \in Nat \ {0} /\ Head(up) = up[1] /\ Head(up) = Line[1]
         /\ Head(up) \in Packets(UpKinds) /\ 1 \in 1..Len(Line)
         /\ Tail(up) \in Seq(Packets(UpKinds)) /\ Len(Tail(up)) = Len(up) - 1
         /\ \A i \in 1..Len(up) - 1 : Tail(up)[i] = up[i + 1]
<1>1. up \in Seq(Packets(UpKinds))
  BY DEF LineTypes
<1>2. /\ Tail(up) \in Seq(Packets(UpKinds)) /\ Len(Tail(up)) = Len(up) - 1
      /\ Len(up) \in Nat \ {0} /\ Head(up) = up[1] /\ up[1] \in Packets(UpKinds)
      /\ \A i \in 1..Len(up) - 1 : Tail(up)[i] = up[i + 1]
  BY <1>1, TailFacts
<1>3. Head(up) = Line[1] /\ 1 \in 1..Len(Line)
  BY <1>2, LineFacts DEF LineParts
<1> QED
  BY <1>2, <1>3

LEMMA ClientReads ==
  ASSUME LineTypes, down # <<>>
  PROVE  /\ Len(down) \in Nat \ {0} /\ Head(down) = down[1] /\ Head(down) = Line[Unread + 1]
         /\ Head(down) \in Packets(DownKinds) /\ Unread + 1 \in 1..Len(Line) /\ Unread \in Nat
         /\ Tail(down) \in Seq(Packets(DownKinds)) /\ Len(Tail(down)) = Len(down) - 1
         /\ \A i \in 1..Len(down) - 1 : Tail(down)[i] = down[i + 1]
<1>1. down \in Seq(Packets(DownKinds))
  BY DEF LineTypes
<1>2. /\ Tail(down) \in Seq(Packets(DownKinds)) /\ Len(Tail(down)) = Len(down) - 1
      /\ Len(down) \in Nat \ {0} /\ Head(down) = down[1] /\ down[1] \in Packets(DownKinds)
      /\ \A i \in 1..Len(down) - 1 : Tail(down)[i] = down[i + 1]
  BY <1>1, TailFacts
<1>3. Head(down) = Line[Unread + 1] /\ Unread + 1 \in 1..Len(Line) /\ Unread \in Nat
  BY <1>2, LineFacts DEF LineParts
<1> QED
  BY <1>2, <1>3

LEMMA AnswersFit ==
  ASSUME ExchangeInv, up # <<>>, NEW i \in At(inflight, Head(up).mid)
  PROVE  /\ Head(up).kind = "PUBACK" => inflight[i].qos = 1 /\ inflight[i].state \in Waiting
         /\ Head(up).kind = "PUBREC" => inflight[i].qos = 2 /\ inflight[i].state \in Waiting
         /\ Head(up).kind = "PUBCOMP" =>
              inflight[i].qos = 2 /\ inflight[i].state = "wait_for_pubcomp"
<1> DEFINE p == Head(up)
<1>1. LineTypes /\ p = Line[1] /\ 1 \in 1..Len(Line)
  BY BrokerReads DEF ExchangeInv
<1> HIDE DEF p
<1>2. i \in 1..Len(inflight) /\ inflight[i].mid = p.mid
  BY DEF At, p
<1>3. Answerable(p, inflight[i])
  BY <1>1, <1>2 DEF ExchangeInv, StateInv
<1>4. FitsPacket(p)
  BY <1>1 DEF ExchangeInv, FitInv
<1>5. Fits(inflight[i])
  BY <1>2 DEF ExchangeInv, FitInv, InFlight
<1>6. inflight[i].qos = given[p.mid].qos
  BY <1>2, <1>5 DEF Fits
<1> QED
  BY <1>2, <1>3, <1>4, <1>6 DEF Answerable, FitsPacket, FirstKinds, p

(* db__message_delete_outgoing finds what it looks for, or nothing. *)
Deletes(mid) ==
  LET n == Lower(Len(queued), FreePlaces(mid))
  IN /\ inflight' = Without(inflight, mid) \o Map(ToPublish, SubSeq(queued, 1, n))
     /\ queued' = SubSeq(queued, n + 1, Len(queued))
     /\ out_quota' = Up(out_quota) - Lower(n, Up(out_quota))
     /\ UNCHANGED <<online, down>>
ReadsAck(p) ==
  /\ up # <<>> /\ up' = Tail(up) /\ p = Head(up) /\ p.kind \in {"PUBACK", "PUBCOMP"}
  /\ online /\ Deletes(p.mid)
  /\ UNCHANGED <<given, dropped, last_mid, late, config, client, breaks>>
ReadsPubrec(p) ==
  /\ up # <<>> /\ up' = Tail(up) /\ p = Head(up) /\ p.kind = "PUBREC" /\ online
  /\ inflight' = [i \in 1..Len(inflight) |->
       IF i \in At(inflight, p.mid) THEN [inflight[i] EXCEPT !.state = "wait_for_pubcomp"]
                                    ELSE inflight[i]]
  /\ Write(<<Ack("PUBREL", p.mid)>>)
  /\ UNCHANGED <<given, dropped, queued, out_quota, online, last_mid, late, config, client,
                 breaks>>
ReadsConnect ==
  /\ up # <<>> /\ up' = Tail(up) /\ Head(up).kind = "CONNECT" /\ HandleConnect
  /\ UNCHANGED <<given, dropped, last_mid, late, config, client, breaks>>
ReadsNothing ==
  /\ up # <<>> /\ up' = Tail(up) /\ ~online /\ Head(up).kind # "CONNECT"
  /\ UNCHANGED <<given, dropped, session, online, down, late, config, client, breaks>>

LEMMA BrokerReadCases ==
  ASSUME ExchangeInv, BrokerRead
  PROVE  \/ ReadsConnect \/ ReadsNothing
         \/ ReadsAck(Head(up)) \/ ReadsPubrec(Head(up))
<1> DEFINE p == Head(up)
<1>1. up # <<>> /\ up' = Tail(up)
  BY DEF BrokerRead
<1>2. \A i \in At(inflight, p.mid) :
        /\ p.kind = "PUBACK" => inflight[i].qos = 1
        /\ p.kind = "PUBREC" => inflight[i].qos = 2
        /\ p.kind = "PUBCOMP" => inflight[i].qos = 2 /\ inflight[i].state = "wait_for_pubcomp"
  BY <1>1, AnswersFit
<1>3. UNCHANGED <<given, dropped, last_mid, late, config, client, breaks>>
  BY DEF BrokerRead
<1> HIDE DEF p
<1>4. CASE p.kind = "CONNECT" /\ HandleConnect
  BY <1>1, <1>3, <1>4 DEF ReadsConnect, p
<1>5. CASE online /\ p.kind = "PUBACK" /\ DeleteOutgoing(p, 1)
  <2>1. ~\E i \in At(inflight, p.mid) :
           inflight[i].qos # 1 \/ (1 = 2 /\ inflight[i].state # "wait_for_pubcomp")
    BY <1>2, <1>5
  <2>2. Deletes(p.mid)
    BY <1>5, <2>1 DEF DeleteOutgoing, Deletes, FreePlaces
  <2> QED
    BY <1>1, <1>3, <1>5, <2>2 DEF ReadsAck, p
<1>6. CASE online /\ p.kind = "PUBREC" /\ HandlePubrec(p)
  <2>1. ~\E i \in At(inflight, p.mid) : inflight[i].qos # 2
    BY <1>2, <1>6
  <2> QED
    BY <1>1, <1>3, <1>6, <2>1 DEF ReadsPubrec, HandlePubrec, p
<1>7. CASE online /\ p.kind = "PUBCOMP" /\ DeleteOutgoing(p, 2)
  <2>1. ~\E i \in At(inflight, p.mid) :
           inflight[i].qos # 2 \/ (2 = 2 /\ inflight[i].state # "wait_for_pubcomp")
    BY <1>2, <1>7
  <2>2. Deletes(p.mid)
    BY <1>7, <2>1 DEF DeleteOutgoing, Deletes, FreePlaces
  <2> QED
    BY <1>1, <1>3, <1>7, <2>2 DEF ReadsAck, p
<1>8. CASE ~online /\ p.kind # "CONNECT"
           /\ UNCHANGED <<inflight, queued, out_quota, online, down>>
  BY <1>1, <1>3, <1>8 DEF ReadsNothing, p, session
<1> QED
  BY <1>4, <1>5, <1>6, <1>7, <1>8 DEF BrokerRead, p

(* What the client reads it answers, or it closes the connection. *)
ClientSide == UNCHANGED <<given, dropped, session, online, late, config, breaks>>
Takes(p) ==
  sock # "none" /\ down # <<>> /\ p = Head(down) /\ down' = Tail(down) /\ ClientSide
TakesConnack(p) ==
  /\ Takes(p) /\ p.kind = "CONNACK" /\ sock' = "active"
  /\ UNCHANGED <<held, in_quota, outp, got, up>>
TakesQoS1(p) ==
  /\ Takes(p) /\ p.kind = "PUBLISH" /\ p.qos = 1 /\ Reply(Ack("PUBACK", p.mid))
  /\ Callback({p.id}) /\ in_quota' = Up(Down(in_quota)) /\ UNCHANGED <<held, sock>>
TakesQoS2(p) ==
  /\ Takes(p) /\ p.kind = "PUBLISH" /\ p.qos = 2 /\ Reply(Ack("PUBREC", p.mid))
  /\ in_quota' = Down(in_quota) /\ held' = Append(held, [id |-> p.id, mid |-> p.mid])
  /\ UNCHANGED <<got, sock>>
First(p) == CHOOSE j \in At(held, p.mid) : \A l \in At(held, p.mid) : j <= l
TakesPubrel(p) ==
  /\ Takes(p) /\ p.kind = "PUBREL" /\ Reply(Ack("PUBCOMP", p.mid)) /\ in_quota' = Up(in_quota)
  /\ At(held, p.mid) # {}
  /\ held' = SubSeq(held, 1, First(p) - 1) \o SubSeq(held, First(p) + 1, Len(held))
  /\ Callback({held[First(p)].id}) /\ UNCHANGED sock
RefusesPublish(p) ==
  /\ sock # "none" /\ down # <<>> /\ p = Head(down) /\ p.kind = "PUBLISH"
  /\ protocol = "v5" /\ Close /\ ClientSide
  /\ UNCHANGED <<held, in_quota, outp, got, up>>
RefusesPubrel(p) ==
  /\ sock # "none" /\ down # <<>> /\ p = Head(down) /\ p.kind = "PUBREL"
  /\ Reply(Ack("PUBCOMP", p.mid)) /\ in_quota' = Up(in_quota) /\ At(held, p.mid) = {}
  /\ Close /\ ClientSide /\ UNCHANGED <<held, got>>

LEMMA ClientReadCases ==
  ASSUME ExchangeInv, ClientRead
  PROVE  \/ TakesConnack(Head(down)) \/ TakesQoS1(Head(down)) \/ TakesQoS2(Head(down))
         \/ TakesPubrel(Head(down)) \/ RefusesPublish(Head(down)) \/ RefusesPubrel(Head(down))
<1> DEFINE p == Head(down)
<1>1. sock # "none" /\ down # <<>> /\ ClientSide
  BY DEF ClientRead, ClientSide
<1>2. p.kind = "PUBLISH" => p.qos \in 1..2
  <2>1. p = Line[Unread + 1] /\ Unread + 1 \in 1..Len(Line) /\ LineTypes
    BY <1>1, ClientReads DEF ExchangeInv
  <2> HIDE DEF p
  <2>2. FitsPacket(p)
    BY <2>1 DEF ExchangeInv, FitInv
  <2>3. \A k \in Ids : given[k].qos \in 1..2
    <3>1. given \in Seq([qos : 1..2, expires : BOOLEAN])
      BY <2>1 DEF LineTypes
    <3>2. \A k \in 1..Len(given) : given[k] \in [qos : 1..2, expires : BOOLEAN]
      BY <3>1, ElementOfSeq
    <3> QED
      BY <3>2 DEF Ids
  <2> QED
    BY <2>2, <2>3 DEF FitsPacket
<1> HIDE DEF p
<1>3. CASE p.kind = "CONNACK" /\ sock' = "active" /\ down' = Tail(down)
           /\ UNCHANGED <<held, in_quota, outp, got, up>>
  BY <1>1, <1>3 DEF TakesConnack, Takes, p
<1>4. CASE p.kind = "PUBLISH" /\ HandlePublish(p)
  <2>1. CASE protocol = "v5" /\ in_quota = 0
    BY <1>1, <1>4, <2>1 DEF HandlePublish, RefusesPublish, p
  <2>2. CASE ~(protocol = "v5" /\ in_quota = 0) /\ p.qos = 1
    BY <1>1, <1>4, <2>2 DEF HandlePublish, TakesQoS1, Takes, p
  <2>3. CASE ~(protocol = "v5" /\ in_quota = 0) /\ p.qos = 2
    BY <1>1, <1>4, <2>3 DEF HandlePublish, TakesQoS2, Takes, p
  <2> QED
    BY <1>2, <1>4, <2>1, <2>2, <2>3
<1>5. CASE p.kind = "PUBREL" /\ HandlePubrel(p)
  <2>1. CASE At(held, p.mid) = {}
    BY <1>1, <1>5, <2>1 DEF HandlePubrel, RefusesPubrel, p
  <2>2. CASE At(held, p.mid) # {}
    BY <1>1, <1>5, <2>2 DEF HandlePubrel, TakesPubrel, Takes, First, p
  <2> QED
    BY <2>1, <2>2
<1> QED
  BY <1>3, <1>4, <1>5 DEF ClientRead, p

LEMMA HasMinimum ==
  ASSUME NEW N \in Nat, NEW T \in SUBSET (1..N), T # {}
  PROVE  \E x \in T : \A y \in T : x <= y
<1> DEFINE U == {N + 1 - y : y \in T}
<1>1. U \in SUBSET (1..N) /\ U # {}
  <2>1. \A y \in T : N + 1 - y \in 1..N
    OBVIOUS
  <2> QED
    BY <2>1
<1>2. PICK u \in U : \A y \in U : y <= u
  <2> HIDE DEF U
  <2> QED
    BY <1>1, HasMaximum
<1>3. N + 1 - u \in T /\ \A y \in T : N + 1 - y <= u /\ y \in Nat
  BY <1>2
<1> QED
  BY <1>1, <1>3

(* The copy that PUBREL takes from the list is the first with its number. *)
LEMMA TakenCopy ==
  ASSUME LineTypes, NEW p, TakesPubrel(p)
  PROVE  /\ First(p) \in 1..Len(held) /\ held[First(p)].mid = p.mid
         /\ held' \in Seq(Copy) /\ Len(held') = Len(held) - 1
         /\ \A i \in 1..Len(held) - 1 :
              held'[i] = IF i < First(p) THEN held[i] ELSE held[i + 1]
<1> DEFINE c == First(p)
<1>1. held \in Seq(Copy) /\ Len(held) \in Nat /\ \A i \in 1..Len(held) : held[i] \in Copy
  BY SessionTypes DEF LineTypes
<1>2. At(held, p.mid) \in SUBSET (1..Len(held)) /\ At(held, p.mid) # {}
  BY DEF At, TakesPubrel
<1>3. c \in At(held, p.mid)
  <2>1. \E x \in At(held, p.mid) : \A y \in At(held, p.mid) : x <= y
    BY <1>1, <1>2, HasMinimum
  <2> QED
    BY <2>1 DEF First
<1>4. c \in 1..Len(held) /\ held[c].mid = p.mid
  BY <1>3 DEF At
<1>5. held' = SubSeq(held, 1, c - 1) \o SubSeq(held, c + 1, Len(held))
  BY DEF TakesPubrel
<1> HIDE DEF c
<1> DEFINE u == SubSeq(held, 1, c - 1)
           w == SubSeq(held, c + 1, Len(held))
<1>6. u \in Seq(Copy) /\ Len(u) = c - 1 /\ \A i \in 1..c - 1 : u[i] = held[i]
  <2>1. c - 1 \in 0..Len(held)
    BY <1>1, <1>4
  <2> QED
    BY <1>1, <2>1, PrefixFacts
<1>7. /\ w \in Seq(Copy) /\ Len(w) = Len(held) - c
      /\ \A i \in 1..Len(held) - c : w[i] = held[c + i]
  <2>1. c + 1 \in Int /\ Len(held) \in Int /\ \A i \in c + 1..Len(held) : held[i] \in Copy
    BY <1>1, <1>4
  <2>2. /\ SubSeq(held, c + 1, Len(held)) \in Seq(Copy)
        /\ Len(SubSeq(held, c + 1, Len(held)))
             = IF c + 1 <= Len(held) THEN Len(held) - (c + 1) + 1 ELSE 0
        /\ \A i \in 1..Len(held) - (c + 1) + 1 :
             SubSeq(held, c + 1, Len(held))[i] = held[c + 1 + i - 1]
    BY <2>1, SubSeqProperties
  <2> QED
    BY <1>1, <1>4, <2>2
<1> HIDE DEF u, w
<1>8. /\ u \o w \in Seq(Copy) /\ Len(u \o w) = Len(u) + Len(w)
      /\ \A i \in 1..Len(u) : (u \o w)[i] = u[i]
      /\ \A i \in 1..Len(w) : (u \o w)[Len(u) + i] = w[i]
  <2>1. u \in Seq(Copy) /\ w \in Seq(Copy)
    BY <1>6, <1>7
  <2> QED
    BY <2>1, ConcatFacts
<1>9. held' \in Seq(Copy) /\ Len(held') = Len(held) - 1
  <2>1. held' = u \o w
    BY <1>5 DEF u, w
  <2>2. held' \in Seq(Copy)
    BY <1>8, <2>1
  <2>3. Len(held') = Len(u) + Len(w) /\ Len(u) = c - 1 /\ Len(w) = Len(held) - c
    BY <1>6, <1>7, <1>8, <2>1
  <2> QED
    BY <1>1, <1>4, <2>2, <2>3
<1>10. ASSUME NEW i \in 1..Len(held) - 1
       PROVE  held'[i] = IF i < c THEN held[i] ELSE held[i + 1]
  <2>1. held' = u \o w
    BY <1>5 DEF u, w
  <2>2. CASE i < c
    BY <1>1, <1>4, <1>6, <1>8, <2>1, <2>2
  <2>3. CASE i >= c
    <3>1. i - (c - 1) \in 1..Len(w) /\ i - (c - 1) \in 1..Len(held) - c
      BY <1>1, <1>4, <1>7, <2>3
    <3>2. held'[Len(u) + (i - (c - 1))] = w[i - (c - 1)]
      BY <1>8, <2>1, <3>1
    <3>3. w[i - (c - 1)] = held[c + (i - (c - 1))]
      BY <1>7, <3>1
    <3> QED
      BY <1>1, <1>4, <1>6, <2>3, <3>2, <3>3
  <2> QED
    BY <1>1, <1>4, <2>2, <2>3
<1> QED
  BY <1>4, <1>9, <1>10 DEF c

-----------------------------------------------------------------------------
(* Every action keeps the types. *)
LEMMA CalledBack ==
  ASSUME LineTypes, NEW x, Callback({x})
  PROVE  /\ got' \in Seq(Nat) /\ Len(got') = Len(given)
         /\ \A k \in Ids : got'[k] = IF k = x THEN got[k] + 1 ELSE got[k]
<1>1. Len(given) \in Nat /\ got \in Seq(Nat) /\ Len(got) = Len(given)
  BY SessionTypes DEF LineTypes
<1>2. \A k \in Ids : got[k] \in Nat
  BY <1>1, ElementOfSeq DEF Ids
<1>3. \A k : Cardinality({k} \cap {x}) = IF k = x THEN 1 ELSE 0
  <2> TAKE k
  <2>1. CASE k = x
    <3>1. {k} \cap {x} = {x} /\ Cardinality({x}) = 1
      BY <2>1, FS_Singleton
    <3> QED
      BY <2>1, <3>1
  <2>2. CASE k # x
    <3>1. {k} \cap {x} = {} /\ Cardinality({}) = 0
      BY <2>2, FS_EmptySet
    <3> QED
      BY <2>2, <3>1
  <2> QED
    BY <2>1, <2>2
<1>4. got' = [k \in 1..Len(given) |-> got[k] + Cardinality({k} \cap {x})]
  BY DEF Callback, Ids
<1>5. \A k \in Ids : got'[k] = IF k = x THEN got[k] + 1 ELSE got[k]
  <2> SUFFICES ASSUME NEW k \in Ids
               PROVE  got'[k] = IF k = x THEN got[k] + 1 ELSE got[k]
    OBVIOUS
  <2>1. got'[k] = got[k] + Cardinality({k} \cap {x})
    BY <1>4 DEF Ids
  <2>2. Cardinality({k} \cap {x}) = IF k = x THEN 1 ELSE 0
    BY <1>3
  <2> HIDE DEF Ids
  <2> QED
    BY <1>2, <2>1, <2>2
<1>6. got' \in [1..Len(given) -> Nat]
  BY <1>2, <1>3, <1>4 DEF Ids
<1> QED
  BY <1>1, <1>5, <1>6, SequenceOf

LEMMA GivenMessage ==
  ASSUME NoneComesRound, LineTypes, NEW qos \in 1..2, NEW expires \in Expiring, Send(qos, expires)
  PROVE  /\ Len(given) \in Nat /\ Len(given') = Len(given) + 1 /\ Len(given) < MaxGiven
         /\ last_mid' = Len(given) + 1 /\ NextMid = Len(given) + 1
         /\ given' \in Seq([qos : 1..2, expires : BOOLEAN]) /\ got' \in Seq(Nat)
         /\ Len(got') = Len(given')
         /\ \A k \in Ids : given'[k] = given[k] /\ got'[k] = got[k]
         /\ given'[Len(given) + 1] = [qos |-> qos, expires |-> expires]
         /\ got'[Len(given) + 1] = 0
         /\ Ids' = Ids \cup {Len(given) + 1}
<1> DEFINE g == [qos |-> qos, expires |-> expires]
<1>1. /\ given \in Seq([qos : 1..2, expires : BOOLEAN]) /\ got \in Seq(Nat)
      /\ Len(got) = Len(given) /\ last_mid = Len(given)
  BY DEF LineTypes
<1>2. /\ given' = Append(given, g) /\ got' = Append(got, 0) /\ last_mid' = NextMid
      /\ Len(given) < MaxGiven
  BY DEF Send
<1>3. g \in [qos : 1..2, expires : BOOLEAN]
  BY DEF NoneComesRound
<1> HIDE DEF g
<1>4. /\ given' \in Seq([qos : 1..2, expires : BOOLEAN]) /\ Len(given) \in Nat
      /\ Len(given') = Len(given) + 1
      /\ \A i \in 1..Len(given) : given'[i] = given[i]
      /\ given'[Len(given) + 1] = g
  BY <1>1, <1>2, <1>3, AppendFacts
<1>5. /\ got' \in Seq(Nat) /\ Len(got') = Len(got) + 1
      /\ \A i \in 1..Len(got) : got'[i] = got[i]
      /\ got'[Len(got) + 1] = 0
  BY <1>1, <1>2, AppendFacts
<1>6. NextMid = Len(given) + 1
  BY <1>1, <1>2, <1>4 DEF NextMid, NoneComesRound
<1>7. Ids' = Ids \cup {Len(given) + 1}
  BY <1>4 DEF Ids
<1> QED
  BY <1>1, <1>2, <1>4, <1>5, <1>6, <1>7 DEF Ids, g

(* subs__send: in flight, in the queue, or dropped. *)
NewMessage(qos) ==
  [id |-> Len(given) + 1, mid |-> Len(given) + 1, qos |-> qos, state |-> "queued", dup |-> FALSE]
LEMMA InsertedMessage ==
  ASSUME NoneComesRound, LineTypes, NEW qos \in 1..2, NEW expires \in Expiring, Send(qos, expires)
  PROVE  /\ NewMessage(qos) \in Messages
         /\ inflight' \in Seq(Messages) /\ queued' \in Seq(Messages)
         /\ \/ /\ online /\ out_quota > 0 /\ UNCHANGED <<queued, dropped>>
               /\ inflight' = Append(inflight, ToPublish(NewMessage(qos)))
            \/ /\ UNCHANGED <<inflight, dropped>>
               /\ queued' = Append(queued, NewMessage(qos))
            \/ /\ UNCHANGED <<inflight, queued>>
               /\ dropped' = dropped \cup {Len(given) + 1}
         /\ out_quota' = IF Len(given) + 1 \in dropped' THEN out_quota ELSE Down(out_quota)
<1> DEFINE m == NewMessage(qos)
<1>1. Len(given) \in Nat /\ NextMid = Len(given) + 1
  BY GivenMessage
<1>2. m \in Messages
  BY <1>1 DEF NewMessage, Messages
<1>3. ToPublish(m) \in Messages
  BY <1>2, MovedTypes
<1>4. /\ Insert(m)
      /\ out_quota' = IF Len(given) + 1 \in dropped' THEN out_quota ELSE Down(out_quota)
  BY <1>1 DEF Send, NewMessage
<1>5. \/ /\ online /\ out_quota > 0 /\ UNCHANGED <<queued, dropped>>
         /\ inflight' = Append(inflight, ToPublish(m))
      \/ UNCHANGED <<inflight, dropped>> /\ queued' = Append(queued, m)
      \/ UNCHANGED <<inflight, queued>> /\ dropped' = dropped \cup {m.id}
  <2> HIDE DEF m
  <2> QED
    BY <1>4 DEF Insert
<1>6. m.id = Len(given) + 1
  BY DEF NewMessage
<1> HIDE DEF m
<1>7. inflight \in Seq(Messages) /\ queued \in Seq(Messages)
  BY DEF LineTypes
<1>8. Append(inflight, ToPublish(m)) \in Seq(Messages) /\ Append(queued, m) \in Seq(Messages)
  BY <1>2, <1>3, <1>7, AppendFacts
<1>9. inflight' \in Seq(Messages) /\ queued' \in Seq(Messages)
  BY <1>5, <1>7, <1>8
<1> QED
  BY <1>2, <1>4, <1>5, <1>6, <1>9 DEF m

LEMMA AckTypes ==
  ASSUME NEW mid \in Nat
  PROVE  /\ \A kind \in Answers : Ack(kind, mid) \in Packets(Answers)
         /\ \A kind \in UpKinds : Ack(kind, mid) \in Packets(UpKinds)
         /\ \A kind \in DownKinds : Ack(kind, mid) \in Packets(DownKinds)
         /\ \A kind \in UpKinds \cup DownKinds : Ack(kind, mid) \in AnyPacket
         /\ \A kind : /\ Ack(kind, mid).kind = kind /\ Ack(kind, mid).mid = mid
                      /\ Ack(kind, mid).dup = FALSE
BY DEF Ack, Pkt, Packets, AnyPacket

LEMMA ReplyTypes ==
  ASSUME LineTypes, NEW kind \in Answers, NEW mid \in Nat, Reply(Ack(kind, mid))
  PROVE  /\ up' \in Seq(Packets(UpKinds)) /\ outp' \in Seq(Packets(Answers))
         /\ ~threaded => outp' = <<>>
<1>1. /\ up \in Seq(Packets(UpKinds)) /\ outp \in Seq(Packets(Answers))
      /\ ~threaded => outp = <<>>
  BY DEF LineTypes
<1>2. Ack(kind, mid) \in Packets(Answers) /\ Ack(kind, mid) \in Packets(UpKinds)
  BY AckTypes DEF UpKinds
<1> DEFINE r == Ack(kind, mid)
<1> HIDE DEF r
<1>3. Append(up, r) \in Seq(Packets(UpKinds)) /\ Append(outp, r) \in Seq(Packets(Answers))
  BY <1>1, <1>2, AppendFacts DEF r
<1> QED
  BY <1>1, <1>3 DEF Reply, r

LEMMA WriteTypes ==
  ASSUME LineTypes, NEW pk \in Seq(Packets(DownKinds)), sock' = sock,
         down' = IF Current THEN down \o pk ELSE down
  PROVE  down' \in Seq(Packets(DownKinds)) /\ (sock' = "none" => down' = <<>>)
<1>1. down \in Seq(Packets(DownKinds)) /\ (sock = "none" => down = <<>>)
  BY DEF LineTypes
<1>2. down \o pk \in Seq(Packets(DownKinds))
  BY <1>1, ConcatFacts
<1> QED
  BY <1>1, <1>2 DEF Current

LEMMA SendTypes ==
  ASSUME NoneComesRound, ExchangeInv, NEW qos \in 1..2, NEW expires \in Expiring,
         Send(qos, expires)
  PROVE  LineTypes'
<1>1. LineTypes
  BY DEF ExchangeInv
<1>2. /\ Len(given) \in Nat /\ Len(given') = Len(given) + 1 /\ Len(given) < MaxGiven
      /\ last_mid' = Len(given) + 1
      /\ given' \in Seq([qos : 1..2, expires : BOOLEAN]) /\ got' \in Seq(Nat)
      /\ Len(got') = Len(given') /\ Ids' = Ids \cup {Len(given) + 1}
  BY <1>1, GivenMessage
<1>3. /\ inflight' \in Seq(Messages) /\ queued' \in Seq(Messages)
      /\ dropped' \subseteq dropped \cup {Len(given) + 1}
      /\ out_quota' = out_quota \/ out_quota' = Down(out_quota)
  BY <1>1, InsertedMessage
<1>4. TypeOK'
  <2>1. out_quota \in 0..MaxInflight /\ dropped \subseteq Ids
        /\ in_quota \in 0..MaxInflight /\ sock \in {"none", "connected", "active"}
    BY <1>1 DEF LineTypes, TypeOK
  <2>2. out_quota' \in 0..MaxInflight
    BY <1>3, <2>1 DEF Down, NoneComesRound
  <2>3. dropped' \subseteq Ids'
    BY <1>2, <1>3, <2>1
  <2> QED
    BY <2>1, <2>2, <2>3 DEF TypeOK, Send
<1>5. UNCHANGED <<online, protocol, threaded, sock, held, outp, up, down, breaks>>
  BY DEF Send, config
<1>6. Len(given') <= MaxGiven
  BY <1>2 DEF NoneComesRound
<1> QED
  BY <1>1, <1>2, <1>3, <1>4, <1>5, <1>6 DEF LineTypes

LEMMA BrokerTypes ==
  ASSUME NoneComesRound, ExchangeInv, MessageWrite \/ BrokerRead \/ Offline
  PROVE  LineTypes'
<1>1. LineTypes
  BY DEF ExchangeInv
<1>2. /\ out_quota \in 0..MaxInflight /\ dropped \subseteq Ids
      /\ in_quota \in 0..MaxInflight /\ sock \in {"none", "connected", "active"}
      /\ MaxInflight \in Nat /\ up \in Seq(Packets(UpKinds))
      /\ inflight \in Seq(Messages) /\ queued \in Seq(Messages)
      /\ down \in Seq(Packets(DownKinds)) /\ (sock = "none" => down = <<>>)
  BY <1>1 DEF LineTypes, TypeOK, NoneComesRound
<1>3. UNCHANGED <<given, got, last_mid, held, outp, threaded, protocol, sock, breaks, in_quota>>
  BY DEF MessageWrite, BrokerRead, Offline, client, config, session
<1>4. Ids' = Ids
  BY <1>3 DEF Ids
<1>5. ASSUME out_quota' \in 0..MaxInflight, dropped' \subseteq Ids, online' \in BOOLEAN,
             inflight' \in Seq(Messages), queued' \in Seq(Messages),
             up' \in Seq(Packets(UpKinds)), down' \in Seq(Packets(DownKinds)),
             sock = "none" => down' = <<>>
      PROVE  LineTypes'
  <2>1. TypeOK'
    BY <1>2, <1>3, <1>4, <1>5 DEF TypeOK
  <2> QED
    BY <1>1, <1>3, <1>5, <2>1 DEF LineTypes
<1>6. CASE MessageWrite
  <2>1. /\ inflight' \in Seq(Messages) /\ queued' \in Seq(Messages)
        /\ \E pk \in Seq(Packets(DownKinds)) : down' = IF Current THEN down \o pk ELSE down
    BY <1>1, <1>6, WrittenSession DEF Writes
  <2>2. down' \in Seq(Packets(DownKinds)) /\ (sock = "none" => down' = <<>>)
    BY <1>1, <1>3, <2>1, WriteTypes
  <2>3. out_quota' \in 0..MaxInflight
    <3>1. out_quota' = out_quota - Lower(out_quota, Len(queued))
      BY <1>6 DEF MessageWrite
    <3>2. Len(queued) \in Nat
      BY <1>1, SessionTypes
    <3> QED
      BY <1>2, <3>1, <3>2 DEF Lower
  <2>4. dropped' \subseteq Ids
    <3>1. dropped' = dropped \cup {inflight[i].id : i \in
                                     {j \in 1..Len(inflight) : Gone(inflight[j])}}
      BY <1>6 DEF MessageWrite
    <3>2. \A i \in 1..Len(inflight) : inflight[i].id \in Ids
      BY DEF ExchangeInv, FitInv, InFlight, Fits
    <3> QED
      BY <1>2, <3>1, <3>2
  <2>5. up' = up /\ online' = online /\ online \in BOOLEAN
    BY <1>1, <1>6 DEF MessageWrite, LineTypes
  <2> QED
    BY <1>2, <1>5, <2>1, <2>2, <2>3, <2>4, <2>5
<1>7. CASE BrokerRead
  <2>1. /\ up # <<>> /\ up' = Tail(up) /\ dropped' = dropped
        /\ \/ ReadsConnect \/ ReadsNothing
           \/ ReadsAck(Head(up)) \/ ReadsPubrec(Head(up))
    BY <1>7, BrokerReadCases DEF BrokerRead
  <2>2. up' \in Seq(Packets(UpKinds)) /\ Head(up) \in Packets(UpKinds)
    BY <1>1, <2>1, BrokerReads
  <2>3. CASE ReadsConnect
    <3>1. HandleConnect
      BY <2>3 DEF ReadsConnect
    <3>2. inflight' \in Seq(Messages) /\ queued' \in Seq(Messages)
      BY <1>1, <3>1, ResumedSession
    <3>3. online' = TRUE /\ out_quota' \in 0..MaxInflight
      <4>1. Len(queued) \in Nat
        BY <1>1, SessionTypes
      <4> QED
        BY <1>2, <3>1, <4>1 DEF HandleConnect, Lower
    <3>4. down' \in Seq(Packets(DownKinds)) /\ (sock = "none" => down' = <<>>)
      <4>1. Ack("CONNACK", 0) \in Packets(DownKinds)
        BY AckTypes DEF DownKinds
      <4>2. Append(down, Ack("CONNACK", 0)) \in Seq(Packets(DownKinds))
        BY <1>2, <4>1, AppendFacts
      <4> QED
        BY <1>2, <3>1, <4>2 DEF HandleConnect
    <3> QED
      BY <1>2, <1>5, <2>1, <2>2, <3>2, <3>3, <3>4
  <2>4. CASE ReadsNothing
    <3>1. UNCHANGED <<inflight, queued, out_quota, online, down>> /\ online \in BOOLEAN
      BY <1>1, <2>4 DEF ReadsNothing, session, LineTypes
    <3> QED
      BY <1>2, <1>5, <2>1, <2>2, <3>1
  <2>5. CASE ReadsAck(Head(up))
    <3> DEFINE mid == Head(up).mid
    <3>1. Deletes(mid)
      BY <2>5 DEF ReadsAck
    <3> HIDE DEF mid
    <3>2. inflight' \in Seq(Messages) /\ queued' \in Seq(Messages)
          /\ Len(Without(inflight, mid)) \in Nat
      BY <1>1, <3>1, DeletedSession DEF Deletes
    <3>3. out_quota' \in 0..MaxInflight
      <4>1. Lower(Len(queued), FreePlaces(mid)) \in Nat
        <5>1. Len(queued) \in Nat
          BY <1>1, SessionTypes
        <5>2. FreePlaces(mid) \in Nat
          BY <1>2, <3>2 DEF FreePlaces, Lower
        <5> QED
          BY <5>1, <5>2 DEF Lower
      <4>2. out_quota' = Up(out_quota) - Lower(Lower(Len(queued), FreePlaces(mid)), Up(out_quota))
        BY <3>1 DEF Deletes
      <4> HIDE DEF mid
      <4>3. \A n \in Nat : Up(out_quota) - Lower(n, Up(out_quota)) \in 0..MaxInflight
        BY <1>2 DEF Up, Lower
      <4> QED
        BY <4>1, <4>2, <4>3
    <3>4. UNCHANGED <<online, down>> /\ online \in BOOLEAN
      BY <1>1, <3>1 DEF Deletes, LineTypes
    <3> QED
      BY <1>2, <1>5, <2>1, <2>2, <3>2, <3>3, <3>4
  <2>6. CASE ReadsPubrec(Head(up))
    <3> DEFINE mid == Head(up).mid
    <3>1. /\ inflight' = [i \in 1..Len(inflight) |->
               IF i \in At(inflight, mid) THEN [inflight[i] EXCEPT !.state = "wait_for_pubcomp"]
                                          ELSE inflight[i]]
          /\ Write(<<Ack("PUBREL", mid)>>) /\ UNCHANGED <<queued, out_quota, online>>
      BY <2>6 DEF ReadsPubrec
    <3>2. mid \in Nat
      BY <2>2 DEF Packets
    <3> HIDE DEF mid
    <3>3. inflight' \in Seq(Messages)
      <4>1. /\ Len(inflight) \in Nat
            /\ \A i \in 1..Len(inflight) : inflight[i] \in Messages
        BY <1>1, SessionTypes
      <4>2. \A m \in Messages : [m EXCEPT !.state = "wait_for_pubcomp"] \in Messages
        BY DEF Messages, Releasing
      <4>3. inflight' \in [1..Len(inflight) -> Messages]
        BY <3>1, <4>1, <4>2
      <4> QED
        BY <4>1, <4>3, SequenceOf
    <3>4. down' \in Seq(Packets(DownKinds)) /\ (sock = "none" => down' = <<>>)
      <4>1. Ack("PUBREL", mid) \in Packets(DownKinds)
        BY <3>2, AckTypes DEF DownKinds
      <4>2. <<Ack("PUBREL", mid)>> \in Seq(Packets(DownKinds))
        BY <4>1
      <4>3. down' = IF Current THEN down \o <<Ack("PUBREL", mid)>> ELSE down
        BY <3>1 DEF Write
      <4> QED
        BY <1>1, <1>3, <4>2, <4>3, WriteTypes
    <3>5. online' \in BOOLEAN
      BY <1>1, <3>1 DEF LineTypes
    <3> QED
      BY <1>2, <1>5, <2>1, <2>2, <3>1, <3>3, <3>4, <3>5
  <2> QED
    BY <2>1, <2>3, <2>4, <2>5, <2>6
<1>8. CASE Offline
  BY <1>2, <1>5, <1>8 DEF Offline, session
<1> QED
  BY <1>6, <1>7, <1>8

LEMMA ClientTypes ==
  ASSUME NoneComesRound, ExchangeInv,
         Connect \/ ClientRead \/ ClientWrite \/ Break \/ Expire \/ UNCHANGED vars
  PROVE  LineTypes'
<1>1. LineTypes
  BY DEF ExchangeInv
<1>2. /\ out_quota \in 0..MaxInflight /\ dropped \subseteq Ids
      /\ in_quota \in 0..MaxInflight /\ sock \in {"none", "connected", "active"}
      /\ MaxInflight \in Nat /\ up \in Seq(Packets(UpKinds)) /\ outp \in Seq(Packets(Answers))
      /\ held \in Seq(Copy) /\ got \in Seq(Nat) /\ Len(got) = Len(given) /\ breaks \in Nat
      /\ down \in Seq(Packets(DownKinds)) /\ (sock = "none" => down = <<>>)
      /\ ~threaded => outp = <<>>
  BY <1>1 DEF LineTypes, TypeOK, NoneComesRound
<1>3. UNCHANGED <<given, last_mid, dropped, inflight, queued, out_quota, online, threaded, protocol>>
  BY DEF Connect, ClientRead, ClientWrite, Break, Expire, vars, client, config, session
<1>4. Ids' = Ids
  BY <1>3 DEF Ids
<1>5. ASSUME in_quota' \in 0..MaxInflight, sock' \in {"none", "connected", "active"},
             held' \in Seq(Copy), got' \in Seq(Nat), Len(got') = Len(given), breaks' \in Nat,
             up' \in Seq(Packets(UpKinds)), outp' \in Seq(Packets(Answers)),
             down' \in Seq(Packets(DownKinds)), sock' = "none" => down' = <<>>,
             ~threaded => outp' = <<>>
      PROVE  LineTypes'
  <2>1. TypeOK'
    BY <1>2, <1>3, <1>4, <1>5 DEF TypeOK
  <2> QED
    BY <1>1, <1>3, <1>5, <2>1 DEF LineTypes
<1>6. <<>> \in Seq(Packets(Answers)) /\ <<>> \in Seq(Packets(DownKinds))
  OBVIOUS
<1>7. CASE Connect
  <2>1. /\ sock' = "connected" /\ up' = Append(up, Ack("CONNECT", 0)) /\ outp' = <<>>
        /\ in_quota' = MaxInflight - Lower(MaxInflight, Len(held))
        /\ UNCHANGED <<held, got, down, breaks>>
    BY <1>7 DEF Connect
  <2>2. up' \in Seq(Packets(UpKinds))
    <3>1. Ack("CONNECT", 0) \in Packets(UpKinds)
      BY AckTypes DEF UpKinds
    <3> QED
      BY <1>2, <2>1, <3>1, AppendFacts
  <2>3. in_quota' \in 0..MaxInflight
    <3>1. Len(held) \in Nat
      BY <1>1, SessionTypes
    <3> QED
      BY <1>2, <2>1, <3>1 DEF Lower
  <2> QED
    BY <1>2, <1>5, <1>6, <2>1, <2>2, <2>3
<1>8. CASE ClientRead
  <2> DEFINE p == Head(down)
  <2>1. /\ down # <<>> /\ sock # "none" /\ breaks' = breaks
    BY <1>8 DEF ClientRead
  <2>2. p \in Packets(DownKinds) /\ Tail(down) \in Seq(Packets(DownKinds))
    BY <1>1, <2>1, ClientReads
  <2>3. \/ TakesConnack(p) \/ TakesQoS1(p) \/ TakesQoS2(p)
        \/ TakesPubrel(p) \/ RefusesPublish(p) \/ RefusesPubrel(p)
    BY <1>8, ClientReadCases
  <2> HIDE DEF p
  <2>4. p.mid \in Nat /\ p.id \in Nat
    BY <2>2 DEF Packets
  <2>5. CASE TakesConnack(p)
    BY <1>2, <1>5, <2>1, <2>2, <2>5 DEF TakesConnack, Takes
  <2>6. CASE TakesQoS1(p)
    <3>1. /\ up' \in Seq(Packets(UpKinds)) /\ outp' \in Seq(Packets(Answers))
          /\ ~threaded => outp' = <<>>
      <4>1. Reply(Ack("PUBACK", p.mid))
        BY <2>6 DEF TakesQoS1
      <4> QED
        BY <1>1, <2>4, <4>1, ReplyTypes DEF Answers
    <3>2. got' \in Seq(Nat) /\ Len(got') = Len(given)
      <4>1. Callback({p.id})
        BY <2>6 DEF TakesQoS1
      <4> QED
        BY <1>1, <4>1, CalledBack
    <3>3. in_quota' \in 0..MaxInflight
      BY <1>2, <2>6 DEF TakesQoS1, Up, Down
    <3>4. down' = Tail(down) /\ UNCHANGED <<held, sock>>
      BY <2>6 DEF TakesQoS1, Takes
    <3> QED
      BY <1>2, <1>5, <2>1, <2>2, <3>1, <3>2, <3>3, <3>4
  <2>7. CASE TakesQoS2(p)
    <3>1. /\ up' \in Seq(Packets(UpKinds)) /\ outp' \in Seq(Packets(Answers))
          /\ ~threaded => outp' = <<>>
      <4>1. Reply(Ack("PUBREC", p.mid))
        BY <2>7 DEF TakesQoS2
      <4> QED
        BY <1>1, <2>4, <4>1, ReplyTypes DEF Answers
    <3>2. held' \in Seq(Copy)
      <4>1. [id |-> p.id, mid |-> p.mid] \in Copy
        BY <2>4 DEF Copy
      <4>2. held' = Append(held, [id |-> p.id, mid |-> p.mid])
        BY <2>7 DEF TakesQoS2
      <4> QED
        BY <1>2, <4>1, <4>2, AppendFacts
    <3>3. in_quota' \in 0..MaxInflight
      BY <1>2, <2>7 DEF TakesQoS2, Up, Down
    <3>4. down' = Tail(down) /\ UNCHANGED <<got, sock>>
      BY <2>7 DEF TakesQoS2, Takes
    <3> QED
      BY <1>2, <1>5, <2>1, <2>2, <3>1, <3>2, <3>3, <3>4
  <2>8. CASE TakesPubrel(p)
    <3>1. /\ up' \in Seq(Packets(UpKinds)) /\ outp' \in Seq(Packets(Answers))
          /\ ~threaded => outp' = <<>>
      <4>1. Reply(Ack("PUBCOMP", p.mid))
        BY <2>8 DEF TakesPubrel
      <4> QED
        BY <1>1, <2>4, <4>1, ReplyTypes DEF Answers
    <3>2. held' \in Seq(Copy)
      BY <1>1, <2>8, TakenCopy
    <3>3. got' \in Seq(Nat) /\ Len(got') = Len(given)
      <4>1. Callback({held[First(p)].id})
        BY <2>8 DEF TakesPubrel
      <4> QED
        BY <1>1, <4>1, CalledBack
    <3>4. in_quota' \in 0..MaxInflight
      BY <1>2, <2>8 DEF TakesPubrel, Up
    <3>5. down' = Tail(down) /\ UNCHANGED sock
      BY <2>8 DEF TakesPubrel, Takes
    <3> QED
      BY <1>2, <1>5, <2>1, <2>2, <3>1, <3>2, <3>3, <3>4, <3>5
  <2>9. CASE RefusesPublish(p)
    BY <1>2, <1>5, <1>6, <2>1, <2>9 DEF RefusesPublish, Close
  <2>10. CASE RefusesPubrel(p)
    <3>1. /\ up' \in Seq(Packets(UpKinds)) /\ outp' \in Seq(Packets(Answers))
          /\ ~threaded => outp' = <<>>
      <4>1. Reply(Ack("PUBCOMP", p.mid))
        BY <2>10 DEF RefusesPubrel
      <4> QED
        BY <1>1, <2>4, <4>1, ReplyTypes DEF Answers
    <3>2. in_quota' \in 0..MaxInflight
      BY <1>2, <2>10 DEF RefusesPubrel, Up
    <3>3. down' = <<>> /\ sock' = "none" /\ UNCHANGED <<held, got>>
      BY <2>10 DEF RefusesPubrel, Close
    <3> QED
      BY <1>2, <1>5, <1>6, <2>1, <3>1, <3>2, <3>3
  <2> QED
    BY <2>3, <2>5, <2>6, <2>7, <2>8, <2>9, <2>10
<1>9. CASE ClientWrite
  <2>1. /\ up' = up \o outp /\ outp' = <<>>
        /\ UNCHANGED <<sock, held, in_quota, got, down, breaks>>
    BY <1>9 DEF ClientWrite
  <2>2. up' \in Seq(Packets(UpKinds))
    <3>1. Packets(Answers) \subseteq Packets(UpKinds)
      BY DEF Packets, UpKinds
    <3>2. outp \in Seq(Packets(UpKinds))
      BY <1>2, <3>1
    <3> QED
      BY <1>2, <2>1, <3>2, ConcatFacts
  <2> QED
    BY <1>2, <1>5, <1>6, <2>1, <2>2
<1>10. CASE Break
  <2>1. /\ sock' = "none" /\ down' = <<>> /\ breaks' = breaks + 1
        /\ UNCHANGED <<held, in_quota, outp, got>>
    BY <1>10 DEF Break
  <2>2. PICK n \in 0..Len(up) : up' = SubSeq(up, 1, n)
    BY <1>10 DEF Break
  <2>3. up' \in Seq(Packets(UpKinds))
    BY <1>2, <2>2, PrefixFacts
  <2> QED
    BY <1>2, <1>5, <1>6, <2>1, <2>3
<1>11. CASE Expire \/ UNCHANGED vars
  BY <1>2, <1>5, <1>11 DEF Expire, vars, client
<1> QED
  BY <1>7, <1>8, <1>9, <1>10, <1>11

LEMMA TypesStep ==
  ASSUME NoneComesRound, ExchangeInv, [Next]_vars
  PROVE  LineTypes'
<1>1. CASE \E qos \in 1..2, expires \in Expiring : Send(qos, expires)
  BY <1>1, SendTypes
<1>2. CASE MessageWrite \/ BrokerRead \/ Offline
  BY <1>2, BrokerTypes
<1>3. CASE Connect \/ ClientRead \/ ClientWrite \/ Break \/ Expire \/ UNCHANGED vars
  BY <1>3, ClientTypes
<1> QED
  BY <1>1, <1>2, <1>3 DEF Next, Broker

-----------------------------------------------------------------------------
(* What each action makes of the line. *)
LEMMA LineAfter == LineTypes' => LineParts'
BY LineFacts, PTL

LEMMA BrokerWrites ==
  ASSUME LineTypes, LineTypes', up' = up, Unwritten' = Unwritten, NEW pk, Len(pk) \in Nat,
         Len(down') = Len(down) + Len(pk), \A a \in 1..Len(down) : down'[a] = down[a],
         \A a \in 1..Len(pk) : down'[Len(down) + a] = pk[a]
  PROVE  Follows({}, 0, 0, pk)
<1>1. LineParts /\ LineParts'
  BY LineFacts, LineAfter
<1>2. Unread' = Unread /\ Unread \in Nat /\ Len(down) \in Nat /\ Len(Line) = Unread + Len(down)
  BY <1>1 DEF Unread, LineParts
<1>3. Len(Line') = Len(Line) + Len(pk)
  BY <1>1, <1>2 DEF LineParts
<1>4. ASSUME NEW a \in 1..Len(Line) PROVE Line'[a] = Line[a]
  <2>1. CASE a <= Len(up)
    BY <1>1, <2>1 DEF LineParts
  <2>2. CASE Len(up) < a /\ a <= Unread
    <3>1. a - Len(up) \in 1..Len(Unwritten) /\ Len(up) + (a - Len(up)) = a
      BY <1>1, <2>2 DEF LineParts
    <3>2. Line[a] = Unwritten[a - Len(up)] /\ Line'[a] = Unwritten[a - Len(up)]
      BY ZenonT(40), <1>1, <3>1 DEF LineParts
    <3> QED
      BY <3>2
  <2>3. CASE Unread < a
    <3>1. a - Unread \in 1..Len(down) /\ Unread + (a - Unread) = a /\ a - Unread \in 1..Len(down')
      BY <1>2, <2>3
    <3>2. Line[Unread + (a - Unread)] = down[a - Unread]
      BY <1>1, <3>1 DEF LineParts
    <3>3. Line'[Unread' + (a - Unread)] = down'[a - Unread]
      BY <1>1, <3>1 DEF LineParts
    <3> QED
      BY <1>2, <3>1, <3>2, <3>3
  <2> QED
    BY <1>1, <1>2, <2>1, <2>2, <2>3 DEF LineParts
<1>5. ASSUME NEW a \in 1..Len(pk) PROVE Line'[Len(Line) + a] = pk[a]
  <2>1. Len(down) + a \in 1..Len(down') /\ Len(Line) + a = Unread + (Len(down) + a)
    BY <1>2
  <2>2. Line'[Unread + (Len(down) + a)] = down'[Len(down) + a]
    BY <1>1, <1>2, <2>1 DEF LineParts
  <2> QED
    BY <2>1, <2>2
<1> QED
  BY <1>3, <1>4, <1>5, LineGrows

LEMMA BrokerReadsOne ==
  ASSUME LineTypes, LineTypes', up # <<>>, up' = Tail(up), Unwritten' = Unwritten,
         NEW pk, Len(pk) \in Nat,
         Len(down') = Len(down) + Len(pk), \A a \in 1..Len(down) : down'[a] = down[a],
         \A a \in 1..Len(pk) : down'[Len(down) + a] = pk[a]
  PROVE  Follows({1}, 0, 0, pk)
<1>1. LineParts /\ LineParts'
  BY LineFacts, LineAfter
<1>2. /\ Len(up) \in Nat \ {0} /\ Len(up') = Len(up) - 1
      /\ \A i \in 1..Len(up) - 1 : up'[i] = up[i + 1]
  BY BrokerReads
<1>3. /\ Unread' = Unread - 1 /\ Unread \in Nat /\ Len(down) \in Nat
      /\ Len(Line) = Unread + Len(down) /\ Len(up) <= Unread
  BY <1>1, <1>2 DEF Unread, LineParts
<1>4. Len(Line') = Len(Line) - 1 + Len(pk) /\ 1 \in 1..Len(Line)
  BY <1>1, <1>2, <1>3 DEF LineParts
<1>5. ASSUME NEW a \in 1..Len(Line) - 1 PROVE Line'[a] = Line[a + 1]
  <2>1. CASE a < Len(up)
    <3>1. a \in 1..Len(up') /\ a + 1 \in 1..Len(up) /\ a \in 1..Len(up) - 1
      BY <1>2, <2>1
    <3>2. Line'[a] = up'[a] /\ Line[a + 1] = up[a + 1]
      BY <1>1, <3>1 DEF LineParts
    <3> QED
      BY <1>2, <3>1, <3>2
  <2>2. CASE Len(up) <= a /\ a < Unread
    <3>1. /\ a + 1 - Len(up) \in 1..Len(Unwritten) /\ Len(up) + (a + 1 - Len(up)) = a + 1
          /\ Len(up') + (a + 1 - Len(up)) = a
      BY <1>1, <1>2, <2>2 DEF LineParts
    <3>2. Line[a + 1] = Unwritten[a + 1 - Len(up)] /\ Line'[a] = Unwritten[a + 1 - Len(up)]
      BY SMTT(30), <1>1, <3>1 DEF LineParts
    <3> QED
      BY <3>2
  <2>3. CASE Unread <= a
    <3>1. /\ a + 1 - Unread \in 1..Len(down) /\ Unread + (a + 1 - Unread) = a + 1
          /\ Unread' + (a + 1 - Unread) = a
      BY <1>3, <2>3
    <3>2. a + 1 - Unread \in 1..Len(down')
      BY <1>3, <3>1
    <3>3. Line[Unread + (a + 1 - Unread)] = down[a + 1 - Unread]
      BY <1>1, <3>1 DEF LineParts
    <3>4. Line'[Unread' + (a + 1 - Unread)] = down'[a + 1 - Unread]
      BY <1>1, <3>2 DEF LineParts
    <3>5. down'[a + 1 - Unread] = down[a + 1 - Unread]
      BY <3>1
    <3> QED
      BY <3>1, <3>3, <3>4, <3>5
  <2> QED
    BY <1>3, <2>1, <2>2, <2>3, <1>2
<1>6. ASSUME NEW a \in 1..Len(pk) PROVE Line'[Len(Line) - 1 + a] = pk[a]
  <2>1. Len(down) + a \in 1..Len(down') /\ Len(Line) - 1 + a = Unread' + (Len(down) + a)
    BY <1>3
  <2>2. Line'[Unread' + (Len(down) + a)] = down'[Len(down) + a]
    BY <1>1, <2>1 DEF LineParts
  <2> QED
    BY <2>1, <2>2
<1>7. \A a \in 1..Len(Line) - 1 : Line'[a] = IF a < 1 THEN Line[a] ELSE Line[a + 1]
  BY <1>3, <1>5
<1> QED
  BY <1>4, <1>6, <1>7, LineTaken

(* A connection that the client has closed, or that broke. *)
LEMMA ClosedLine ==
  ASSUME LineTypes', sock' = "none"
  PROVE  Len(Line') = Len(up') /\ \A a \in 1..Len(up') : Line'[a] = up'[a]
<1>1. LineParts' /\ down' = <<>> /\ Unwritten' = <<>>
  BY LineAfter DEF LineTypes, Unwritten
<1> QED
  BY <1>1 DEF LineParts, Unread

LEMMA ReplyLine ==
  ASSUME LineTypes, LineTypes', NEW r, Reply(r), sock # "none", sock' = sock, down # <<>>,
         down' = Tail(down), threaded' = threaded
  PROVE  Follows({}, Unread + 1, r, <<>>)
<1>1. LineParts /\ LineParts'
  BY LineFacts, LineAfter
<1>2. /\ Len(down) \in Nat \ {0} /\ Len(down') = Len(down) - 1
      /\ \A i \in 1..Len(down) - 1 : down'[i] = down[i + 1]
  BY ClientReads
<1>3. Unwritten = outp /\ Unwritten' = outp' /\ up \in Seq(Packets(UpKinds)) /\ (~threaded => outp = <<>>)
      /\ outp \in Seq(Packets(Answers))
  BY DEF Unwritten, LineTypes
<1>4. /\ Unread' = Unread + 1 /\ Unread \in Nat /\ Len(Line) = Unread + Len(down)
      /\ Line'[Unread + 1] = r /\ \A a \in 1..Unread : Line'[a] = Line[a]
  <2>1. CASE threaded
    <3>1. outp' = Append(outp, r) /\ up' = up
      BY <2>1 DEF Reply
    <3>2. Len(outp') = Len(outp) + 1 /\ outp'[Len(outp) + 1] = r
          /\ \A i \in 1..Len(outp) : outp'[i] = outp[i]
      BY <1>3, <3>1
    <3>3. Unread' = Unread + 1 /\ Unread \in Nat /\ Len(Line) = Unread + Len(down)
      BY <1>1, <1>3, <3>1, <3>2 DEF LineParts, Unread
    <3>4. Line'[Unread + 1] = r
      <4>1. Len(outp) + 1 \in 1..Len(Unwritten') /\ Len(up') + (Len(outp) + 1) = Unread + 1
        BY <1>1, <1>3, <3>1, <3>2 DEF LineParts
      <4>2. Line'[Len(up') + (Len(outp) + 1)] = Unwritten'[Len(outp) + 1]
        BY <1>1, <4>1 DEF LineParts
      <4> QED
        BY <1>3, <3>2, <4>1, <4>2
    <3>5. ASSUME NEW a \in 1..Unread PROVE Line'[a] = Line[a]
      <4>1. CASE a <= Len(up)
        BY SMTT(30), <1>1, <3>1, <4>1 DEF LineParts
      <4>2. CASE Len(up) < a
        <5>1. /\ a - Len(up) \in 1..Len(Unwritten) /\ Len(up) + (a - Len(up)) = a
              /\ a - Len(up) \in 1..Len(Unwritten')
          BY <1>1, <1>3, <3>1, <3>2, <4>2 DEF LineParts
        <5>2. Line[a] = Unwritten[a - Len(up)] /\ Line'[a] = Unwritten'[a - Len(up)]
          BY <1>1, <3>1, <5>1 DEF LineParts
        <5> QED
          BY <1>3, <3>2, <5>1, <5>2
      <4> QED
        BY <1>1, <4>1, <4>2 DEF LineParts
    <3> QED
      BY <3>3, <3>4, <3>5
  <2>2. CASE ~threaded
    <3>1. up' = Append(up, r) /\ outp' = outp /\ Len(outp) = 0
      BY <1>3, <2>2 DEF Reply
    <3>2. Len(up') = Len(up) + 1 /\ up'[Len(up) + 1] = r
          /\ \A i \in 1..Len(up) : up'[i] = up[i]
      BY <1>3, <3>1
    <3>3. /\ Unread' = Unread + 1 /\ Unread = Len(up) /\ Unread \in Nat
          /\ Len(Line) = Unread + Len(down)
      BY <1>1, <1>3, <3>1, <3>2 DEF LineParts, Unread
    <3>4. Line'[Unread + 1] = r /\ \A a \in 1..Unread : Line'[a] = Line[a]
      <4>1. \A a \in 1..Unread + 1 : Line'[a] = up'[a]
        BY <1>1, <3>2, <3>3 DEF LineParts
      <4>2. \A a \in 1..Unread : Line[a] = up[a]
        BY <1>1, <3>3 DEF LineParts
      <4> QED
        BY <3>2, <3>3, <4>1, <4>2
    <3> QED
      BY <3>3, <3>4
  <2> QED
    BY <2>1, <2>2
<1>5. Len(Line') = Len(Line)
  <2>1. Len(Line') = Unread' + Len(down')
    BY <1>1 DEF LineParts
  <2> QED
    BY <1>2, <1>4, <2>1
<1>6. ASSUME NEW a \in 1..Len(Line) PROVE Line'[a] = IF a = Unread + 1 THEN r ELSE Line[a]
  <2>1. CASE a <= Unread
    BY <1>4, <2>1
  <2>2. CASE a = Unread + 1
    BY <1>4, <2>2
  <2>3. CASE a > Unread + 1
    <3>1. /\ a - Unread - 1 \in 1..Len(down') /\ Unread' + (a - Unread - 1) = a
          /\ a - Unread - 1 \in 1..Len(down) - 1
          /\ a - Unread \in 1..Len(down) /\ Unread + (a - Unread) = a
      BY <1>2, <1>4, <2>3
    <3>2. Line'[a] = down'[a - Unread - 1] /\ Line[a] = down[a - Unread]
      BY <1>1, <3>1 DEF LineParts
    <3>3. down'[a - Unread - 1] = down[a - Unread - 1 + 1] /\ a - Unread - 1 + 1 = a - Unread
      BY <1>2, <1>4, <3>1
    <3> QED
      BY <1>4, <2>3, <3>2, <3>3
  <2> QED
    BY <1>4, <2>1, <2>2, <2>3
<1> QED
  BY <1>5, <1>6, LineAnswered

LEMMA WrittenDown ==
  ASSUME LineTypes, NEW pk \in Seq(Packets(DownKinds)), NEW b \in BOOLEAN,
         down' = IF b THEN down \o pk ELSE down
  PROVE  LET new == IF b THEN pk ELSE <<>>
         IN /\ Len(new) \in Nat /\ Len(down') = Len(down) + Len(new)
            /\ \A a \in 1..Len(down) : down'[a] = down[a]
            /\ \A a \in 1..Len(new) : down'[Len(down) + a] = new[a]
<1>1. down \in Seq(Packets(DownKinds)) /\ Len(down) \in Nat
  BY LenProperties DEF LineTypes
<1>2. CASE b
  <2>1. /\ Len(down) \in Nat /\ Len(pk) \in Nat /\ Len(down \o pk) = Len(down) + Len(pk)
        /\ \A i \in 1..Len(down) : (down \o pk)[i] = down[i]
        /\ \A i \in 1..Len(pk) : (down \o pk)[Len(down) + i] = pk[i]
    BY <1>1, ConcatFacts
  <2> QED
    BY <1>2, <2>1
<1>3. CASE ~b
  BY <1>1, <1>3
<1> QED
  BY <1>2, <1>3

LEMMA WriteLine ==
  ASSUME LineTypes, LineTypes', MessageWrite, NEW pk, NEW f, Writes(pk, f),
         down' = IF Current THEN down \o pk ELSE down
  PROVE  Follows({}, 0, 0, IF Current THEN pk ELSE <<>>)
<1> DEFINE new == IF Current THEN pk ELSE <<>>
<1>1. up' = up /\ Unwritten' = Unwritten
  BY DEF MessageWrite, client, Unwritten
<1>2. pk \in Seq(Packets(DownKinds)) /\ Current \in BOOLEAN
  BY DEF Writes, Current
<1>3. /\ Len(new) \in Nat /\ Len(down') = Len(down) + Len(new)
      /\ \A a \in 1..Len(down) : down'[a] = down[a]
      /\ \A a \in 1..Len(new) : down'[Len(down) + a] = new[a]
  BY <1>2, WrittenDown
<1> HIDE DEF new
<1>4. Follows({}, 0, 0, new)
  BY <1>1, <1>3, BrokerWrites
<1> QED
  BY <1>4 DEF new

LEMMA ConnectLine ==
  ASSUME LineTypes, LineTypes', ReadsConnect
  PROVE  Follows({1}, 0, 0, IF sock = "none" THEN <<>> ELSE <<Ack("CONNACK", 0)>>)
<1> DEFINE pk == <<Ack("CONNACK", 0)>>
           new == IF sock = "none" THEN <<>> ELSE pk
<1>1. up # <<>> /\ up' = Tail(up) /\ Unwritten' = Unwritten
  BY DEF ReadsConnect, client, Unwritten
<1>2. down' = IF sock = "none" THEN down ELSE Append(down, Ack("CONNACK", 0))
  BY DEF ReadsConnect, HandleConnect
<1>3. Ack("CONNACK", 0) \in Packets(DownKinds)
  BY AckTypes DEF DownKinds
<1>4. /\ Len(new) \in Nat /\ Len(down') = Len(down) + Len(new)
      /\ \A a \in 1..Len(down) : down'[a] = down[a]
      /\ \A a \in 1..Len(new) : down'[Len(down) + a] = new[a]
  <2>1. down \in Seq(Packets(DownKinds)) /\ Len(down) \in Nat
    BY LenProperties DEF LineTypes
  <2>2. CASE sock = "none"
    BY <1>2, <2>1, <2>2
  <2>3. CASE sock # "none"
    <3>1. /\ Len(Append(down, Ack("CONNACK", 0))) = Len(down) + 1
          /\ \A i \in 1..Len(down) : Append(down, Ack("CONNACK", 0))[i] = down[i]
          /\ Append(down, Ack("CONNACK", 0))[Len(down) + 1] = Ack("CONNACK", 0)
      BY <1>3, <2>1, AppendFacts
    <3>2. Len(new) = 1 /\ new[1] = Ack("CONNACK", 0)
      BY <2>3
    <3> HIDE DEF new
    <3> QED
      BY <1>2, <2>1, <2>3, <3>1, <3>2
  <2> QED
    BY <2>2, <2>3
<1> HIDE DEF new
<1>5. Follows({1}, 0, 0, new)
  BY <1>1, <1>4, BrokerReadsOne
<1> QED
  BY <1>5 DEF new

LEMMA AckLine ==
  ASSUME LineTypes, LineTypes', ReadsNothing \/ \E p : ReadsAck(p)
  PROVE  Follows({1}, 0, 0, <<>>)
<1>1. up # <<>> /\ up' = Tail(up) /\ Unwritten' = Unwritten /\ down' = down
  BY DEF ReadsNothing, ReadsAck, Deletes, client, Unwritten
<1>2. /\ Len(<<>>) \in Nat /\ Len(down') = Len(down) + Len(<<>>)
      /\ \A a \in 1..Len(down) : down'[a] = down[a]
      /\ \A a \in 1..Len(<<>>) : down'[Len(down) + a] = <<>>[a]
  <2>1. Len(down) \in Nat
    BY LenProperties DEF LineTypes
  <2> QED
    BY <1>1, <2>1
<1> QED
  BY <1>1, <1>2, BrokerReadsOne

LEMMA PubrecLine ==
  ASSUME LineTypes, LineTypes', NEW p \in Packets(UpKinds), ReadsPubrec(p)
  PROVE  Follows({1}, 0, 0, IF Current THEN <<Ack("PUBREL", p.mid)>> ELSE <<>>)
<1> DEFINE pk == <<Ack("PUBREL", p.mid)>>
           new == IF Current THEN pk ELSE <<>>
<1>1. up # <<>> /\ up' = Tail(up) /\ Unwritten' = Unwritten
  BY DEF ReadsPubrec, client, Unwritten
<1>2. pk \in Seq(Packets(DownKinds)) /\ Current \in BOOLEAN
  <2>1. Ack("PUBREL", p.mid) \in Packets(DownKinds)
    BY AckTypes DEF DownKinds, Packets
  <2> QED
    BY <2>1 DEF Current
<1>3. down' = IF Current THEN down \o pk ELSE down
  BY DEF ReadsPubrec, Write
<1>4. /\ Len(new) \in Nat /\ Len(down') = Len(down) + Len(new)
      /\ \A a \in 1..Len(down) : down'[a] = down[a]
      /\ \A a \in 1..Len(new) : down'[Len(down) + a] = new[a]
  <2> HIDE DEF pk
  <2> QED
    BY <1>2, <1>3, WrittenDown
<1> HIDE DEF new
<1>5. Follows({1}, 0, 0, new)
  BY <1>1, <1>4, BrokerReadsOne
<1> QED
  BY <1>5 DEF new

LEMMA NewConnectionLine ==
  ASSUME LineTypes, LineTypes', Connect
  PROVE  Follows({}, 0, 0, <<Ack("CONNECT", 0)>>)
<1>1. /\ sock = "none" /\ up' = Append(up, Ack("CONNECT", 0)) /\ outp' = <<>>
      /\ sock' = "connected" /\ down' = <<>> /\ down = <<>>
  BY DEF Connect, LineTypes
<1>2. Unwritten = <<>> /\ Unwritten' = <<>>
  BY <1>1 DEF Unwritten
<1>3. LineParts /\ LineParts'
  BY LineFacts, LineAfter
<1>4. Len(up') = Len(up) + 1 /\ up'[Len(up) + 1] = Ack("CONNECT", 0)
      /\ \A i \in 1..Len(up) : up'[i] = up[i]
  <2>1. up \in Seq(Packets(UpKinds))
    BY DEF LineTypes
  <2> QED
    BY <1>1, <2>1
<1>5. Len(Line) = Len(up) /\ Len(up) \in Nat /\ Len(Line') = Len(Line) + 1
  BY <1>1, <1>2, <1>3, <1>4 DEF LineParts
<1>6. \A a \in 1..Len(Line) : Line'[a] = Line[a]
  BY <1>3, <1>4, <1>5 DEF LineParts
<1>7. Line'[Len(Line) + 1] = Ack("CONNECT", 0)
  BY <1>3, <1>4, <1>5 DEF LineParts
<1> DEFINE new == <<Ack("CONNECT", 0)>>
<1>8. Len(new) = 1 /\ new[1] = Ack("CONNECT", 0)
  OBVIOUS
<1> HIDE DEF new
<1>9. Follows({}, 0, 0, new)
  <2>1. Len(new) \in Nat /\ Len(Line') = Len(Line) + Len(new)
    BY <1>5, <1>8
  <2>2. \A a \in 1..Len(new) : Line'[Len(Line) + a] = new[a]
    BY <1>5, <1>7, <1>8
  <2> QED
    BY <1>6, <2>1, <2>2, LineGrows
<1> QED
  BY <1>9 DEF new

LEMMA ConnackLine ==
  ASSUME LineTypes, LineTypes', NEW p, TakesConnack(p)
  PROVE  Follows({Unread + 1}, 0, 0, <<>>)
<1>1. /\ down # <<>> /\ down' = Tail(down) /\ up' = up /\ Unwritten' = Unwritten
  BY DEF TakesConnack, Takes, Unwritten
<1>2. LineParts /\ LineParts'
  BY LineFacts, LineAfter
<1>3. /\ Len(down) \in Nat \ {0} /\ Len(down') = Len(down) - 1 /\ Unread \in Nat
      /\ \A i \in 1..Len(down) - 1 : down'[i] = down[i + 1]
      /\ Unread + 1 \in 1..Len(Line)
  BY <1>1, ClientReads
<1>4. Unread' = Unread /\ Len(Line) = Unread + Len(down) /\ Len(Line') = Len(Line) - 1
  BY <1>1, <1>2, <1>3 DEF LineParts, Unread
<1>5. ASSUME NEW a \in 1..Len(Line) - 1
      PROVE  Line'[a] = IF a < Unread + 1 THEN Line[a] ELSE Line[a + 1]
  <2>1. CASE a <= Len(up)
    <3>1. Line'[a] = up[a] /\ Line[a] = up[a] /\ a <= Unread
      BY <1>1, <1>2, <2>1 DEF LineParts
    <3> QED
      BY <1>3, <3>1
  <2>2. CASE Len(up) < a /\ a <= Unread
    <3>1. a - Len(up) \in 1..Len(Unwritten) /\ Len(up) + (a - Len(up)) = a
      BY <1>2, <2>2 DEF LineParts
    <3>2. Line[a] = Unwritten[a - Len(up)] /\ Line'[a] = Unwritten[a - Len(up)]
      BY ZenonT(40), <1>1, <1>2, <3>1 DEF LineParts
    <3> QED
      BY <1>3, <2>2, <3>2
  <2>3. CASE Unread < a
    <3>1. /\ a - Unread \in 1..Len(down') /\ Unread' + (a - Unread) = a
          /\ a - Unread \in 1..Len(down) - 1
          /\ a - Unread + 1 \in 1..Len(down) /\ Unread + (a - Unread + 1) = a + 1
      BY <1>3, <1>4, <2>3
    <3>2. Line'[Unread' + (a - Unread)] = down'[a - Unread]
      BY <1>2, <3>1 DEF LineParts
    <3>3. Line[Unread + (a - Unread + 1)] = down[a - Unread + 1]
      BY <1>2, <3>1 DEF LineParts
    <3>4. down'[a - Unread] = down[a - Unread + 1]
      BY <1>3, <3>1
    <3> QED
      BY <1>3, <2>3, <3>1, <3>2, <3>3, <3>4
  <2> QED
    BY SMTT(30), <1>2, <1>3, <2>1, <2>2, <2>3 DEF LineParts
<1>6. Len(<<>>) = 0
  OBVIOUS
<1> QED
  BY SMTT(30), <1>3, <1>4, <1>5, <1>6, LineTaken

(* packet__write, by the thread: each packet stays where it is. *)
LEMMA WrittenLine ==
  ASSUME LineTypes, LineTypes', ClientWrite
  PROVE  Follows({}, 0, 0, <<>>)
<1>1. /\ sock # "none" /\ sock' = sock /\ up' = up \o outp /\ outp' = <<>> /\ down' = down
  BY DEF ClientWrite
<1>2. Unwritten = outp /\ Unwritten' = <<>>
  BY <1>1 DEF Unwritten
<1>3. LineParts /\ LineParts'
  BY LineFacts, LineAfter
<1>4. /\ Len(up') = Len(up) + Len(outp)
      /\ \A i \in 1..Len(up) : up'[i] = up[i]
      /\ \A i \in 1..Len(outp) : up'[Len(up) + i] = outp[i]
  <2>1. Packets(Answers) \subseteq Packets(UpKinds)
    BY DEF Packets, UpKinds
  <2>2. up \in Seq(Packets(UpKinds)) /\ outp \in Seq(Packets(Answers))
    BY DEF LineTypes
  <2>3. up \in Seq(Packets(UpKinds)) /\ outp \in Seq(Packets(UpKinds))
    BY <2>1, <2>2
  <2>4. /\ Len(up \o outp) = Len(up) + Len(outp)
        /\ \A i \in 1..Len(up) : (up \o outp)[i] = up[i]
        /\ \A i \in 1..Len(outp) : (up \o outp)[Len(up) + i] = outp[i]
    BY <2>3, ConcatFacts
  <2> QED
    BY <1>1, <2>4
<1>5. /\ Len(up) \in Nat /\ Len(outp) \in Nat /\ Len(down) \in Nat /\ Len(up') = Unread
      /\ Unread = Len(up) + Len(outp) /\ Unread' = Unread
      /\ Len(Line) = Unread + Len(down) /\ Len(Line') = Unread + Len(down)
  <2>1. Len(<<>>) = 0
    OBVIOUS
  <2> QED
    BY <1>1, <1>2, <1>3, <1>4, <2>1 DEF LineParts
<1>6. ASSUME NEW a \in 1..Len(Line) PROVE Line'[a] = IF a = 0 THEN 0 ELSE Line[a]
  <2>1. CASE a <= Len(up)
    <3>1. Line'[a] = up'[a] /\ Line[a] = up[a] /\ up'[a] = up[a]
      BY <1>3, <1>4, <1>5, <2>1 DEF LineParts
    <3> QED
      BY <3>1
  <2>2. CASE Len(up) < a /\ a <= Unread
    <3>1. a - Len(up) \in 1..Len(outp) /\ Len(up) + (a - Len(up)) = a /\ a \in 1..Len(up')
      BY <1>5, <2>2
    <3>2. Line[Len(up) + (a - Len(up))] = outp[a - Len(up)]
      BY <1>2, <1>3, <3>1 DEF LineParts
    <3>3. up'[Len(up) + (a - Len(up))] = outp[a - Len(up)]
      BY <1>4, <3>1
    <3>4. Line'[a] = up'[a]
      BY <1>3, <3>1 DEF LineParts
    <3> QED
      BY <3>1, <3>2, <3>3, <3>4
  <2>3. CASE Unread < a
    <3>1. a - Unread \in 1..Len(down) /\ Unread + (a - Unread) = a
      BY <1>5, <2>3
    <3>2. Line[Unread + (a - Unread)] = down[a - Unread]
      BY <1>3, <3>1 DEF LineParts
    <3>3. Line'[Unread' + (a - Unread)] = down'[a - Unread]
      BY <1>1, <1>3, <3>1 DEF LineParts
    <3> QED
      BY <1>1, <1>5, <3>1, <3>2, <3>3
  <2> QED
    BY <1>5, <2>1, <2>2, <2>3
<1>7. Len(Line') = Len(Line)
  BY <1>5
<1>8. Follows({}, 0, 0, <<>>)
  BY <1>6, <1>7, LineAnswered
<1> QED
  BY <1>8

(* What is left of a connection that broke, or that the client closed.     *)
LEMMA BrokenLine ==
  ASSUME LineTypes, LineTypes', Break
  PROVE  /\ \E n \in 0..Len(up) : up' = SubSeq(up, 1, n)
         /\ \E n \in 0..Len(Line) : Follows({b \in 1..Len(Line) : b > n}, 0, 0, <<>>)
<1>1. sock' = "none" /\ \E n \in 0..Len(up) : up' = SubSeq(up, 1, n)
  BY DEF Break
<1>2. PICK n \in 0..Len(up) : up' = SubSeq(up, 1, n)
  BY <1>1
<1>3. LineParts
  BY LineFacts
<1>4. up \in Seq(Packets(UpKinds))
  BY DEF LineTypes
<1>5. Len(up') = n /\ \A i \in 1..n : up'[i] = up[i]
  BY <1>2, <1>4, PrefixFacts
<1>6. Len(Line') = Len(up') /\ \A a \in 1..Len(up') : Line'[a] = up'[a]
  BY <1>1, ClosedLine
<1>7. n \in 0..Len(Line) /\ Len(Line') = n
  BY <1>3, <1>5, <1>6 DEF LineParts
<1>8. \A a \in 1..n : Line'[a] = IF a = 0 THEN 0 ELSE Line[a]
  <2>1. \A a \in 1..n : a # 0 /\ a \in 1..Len(up) /\ a \in 1..Len(up')
    BY <1>3, <1>5 DEF LineParts
  <2>2. \A a \in 1..n : Line'[a] = up[a] /\ Line[a] = up[a]
    BY <1>3, <1>5, <1>6, <2>1 DEF LineParts
  <2> QED
    BY <2>1, <2>2
<1>9. Follows({b \in 1..Len(Line) : b > n}, 0, 0, <<>>)
  BY <1>7, <1>8, LineCut
<1> QED
  BY <1>1, <1>7, <1>9

LEMMA RefusedLine ==
  ASSUME LineTypes, LineTypes', sock' = "none", up' = up
  PROVE  Follows({b \in 1..Len(Line) : b > Len(up)}, 0, 0, <<>>)
<1>1. LineParts
  BY LineFacts
<1>2. Len(Line') = Len(up') /\ \A a \in 1..Len(up') : Line'[a] = up'[a]
  BY ClosedLine
<1>3. Len(up) \in 0..Len(Line) /\ Len(Line') = Len(up)
  BY <1>1, <1>2 DEF LineParts
<1>4. \A a \in 1..Len(up) : Line'[a] = IF a = 0 THEN 0 ELSE Line[a]
  BY <1>1, <1>2 DEF LineParts
<1> QED
  BY <1>3, <1>4, LineCut

LEMMA RefusedAnswerLine ==
  ASSUME LineTypes, LineTypes', ~threaded, NEW r, up' = Append(up, r), sock' = "none", down # <<>>
  PROVE  /\ Unread = Len(up)
         /\ Follows({b \in 1..Len(Line) : b > Unread + 1}, Unread + 1, r, <<>>)
<1>1. LineParts
  BY LineFacts
<1>2. Len(Line') = Len(up') /\ \A a \in 1..Len(up') : Line'[a] = up'[a]
  BY ClosedLine
<1>3. Unread = Len(up) /\ Unread \in Nat
  <2>1. Unwritten = <<>>
    BY DEF LineTypes, Unwritten
  <2>2. Len(Unwritten) = 0
    BY <2>1
  <2> QED
    BY <1>1, <2>2 DEF LineParts
<1>4. Len(up') = Unread + 1 /\ up'[Unread + 1] = r
      /\ \A i \in 1..Unread : up'[i] = up[i]
  <2>1. up \in Seq(Packets(UpKinds))
    BY DEF LineTypes
  <2> QED
    BY <1>3, <2>1
<1>5. Unread + 1 \in 0..Len(Line)
  BY <1>3, ClientReads
<1>6. \A a \in 1..Unread + 1 : Line'[a] = IF a = Unread + 1 THEN r ELSE Line[a]
  BY <1>1, <1>2, <1>3, <1>4 DEF LineParts
<1>7. Len(Line') = Unread + 1
  BY <1>2, <1>4
<1> QED
  BY <1>3, <1>5, <1>6, <1>7, LineCut

-----------------------------------------------------------------------------
(* What moves on the line stays unique, and behind CONNECT comes nothing.  *)
LEMMA LineMembers ==
  ASSUME LineTypes, NEW gone, NEW c, NEW r, NEW s, Follows(gone, c, r, s)
  PROVE  /\ \A a \in 1..Len(Line') :
              \/ \E b \in 1..Len(Line) : b \notin gone /\ b # c /\ Line'[a] = Line[b]
              \/ c \in 1..Len(Line) /\ c \notin gone /\ Line'[a] = r
              \/ \E i \in 1..Len(s) : Line'[a] = s[i]
         /\ \A b \in 1..Len(Line) : b \notin gone =>
              \E a \in 1..Len(Line') : Line'[a] = IF b = c THEN r ELSE Line[b]
         /\ \A i \in 1..Len(s) : \E a \in 1..Len(Line') : Line'[a] = s[i]
<1>1. PICK l, e : Moves(l, e, gone, c, r, s)
  BY DEF Follows
<1>2. /\ l \in Nat /\ Len(s) \in Nat /\ Len(Line') = l + Len(s)
      /\ \A a \in 1..l : /\ e[a] \in 1..Len(Line) /\ e[a] \notin gone
                         /\ Line'[a] = IF e[a] = c THEN r ELSE Line[e[a]]
      /\ \A b \in 1..Len(Line) : b \notin gone => \E a \in 1..l : e[a] = b
      /\ \A a \in 1..Len(s) : Line'[l + a] = s[a]
  BY <1>1 DEF Moves
<1>3. ASSUME NEW a \in 1..Len(Line')
      PROVE  \/ \E b \in 1..Len(Line) : b \notin gone /\ b # c /\ Line'[a] = Line[b]
             \/ c \in 1..Len(Line) /\ c \notin gone /\ Line'[a] = r
             \/ \E i \in 1..Len(s) : Line'[a] = s[i]
  <2>1. CASE a <= l
    BY <1>2, <2>1
  <2>2. CASE a > l
    <3>1. a - l \in 1..Len(s) /\ l + (a - l) = a
      BY <1>2, <2>2
    <3> QED
      BY <1>2, <3>1
  <2> QED
    BY <1>2, <2>1, <2>2
<1>4. \A b \in 1..Len(Line) : b \notin gone =>
        \E a \in 1..Len(Line') : Line'[a] = IF b = c THEN r ELSE Line[b]
  BY <1>2
<1>5. \A i \in 1..Len(s) : l + i \in 1..Len(Line') /\ Line'[l + i] = s[i]
  BY <1>2
<1> QED
  BY <1>3, <1>4, <1>5

(* s may be written behind what is not gone. *)
Writable(gone, s) ==
  /\ \A i \in 1..Len(s) : s[i].mid # 0 =>
       \A b \in 1..Len(Line) :
         b \notin gone => Line[b].mid # s[i].mid /\ Line[b].kind # "CONNECT"
  /\ \A i, j \in 1..Len(s) : s[i].mid = s[j].mid /\ s[i].mid # 0 => i = j
  /\ \A i, j \in 1..Len(s) : i <= j /\ s[i].kind = "CONNECT" => s[j].mid = 0
Answering(c, r) ==
  c \in 1..Len(Line) => r.mid = Line[c].mid /\ r.kind # "CONNECT"

LEMMA LineInvKept ==
  ASSUME LineTypes, OneEach, ConnectLast, NEW gone, NEW c, NEW r, NEW s,
         Follows(gone, c, r, s), Writable(gone, s), Answering(c, r)
  PROVE  OneEach' /\ ConnectLast'
<1>1. PICK l, e : Moves(l, e, gone, c, r, s)
  BY DEF Follows
<1>2. /\ l \in Nat /\ Len(s) \in Nat /\ Len(Line') = l + Len(s) /\ Len(Line) \in Nat
      /\ \A a \in 1..l : /\ e[a] \in 1..Len(Line) /\ e[a] \notin gone
                         /\ Line'[a] = IF e[a] = c THEN r ELSE Line[e[a]]
      /\ \A a, b \in 1..l : a < b => e[a] < e[b]
      /\ \A a \in 1..Len(s) : Line'[l + a] = s[a]
  BY <1>1, LineFacts, LenProperties DEF Moves, LineParts
<1>3. \A a \in 1..l : /\ Line'[a].mid = Line[e[a]].mid
                      /\ Line'[a].kind = "CONNECT" => Line[e[a]].kind = "CONNECT"
  BY <1>2 DEF Answering
<1>4. \A a \in 1..Len(Line') : a \in 1..l \/ (a > l /\ a - l \in 1..Len(s) /\ Line'[a] = s[a - l])
  <2> SUFFICES ASSUME NEW a \in 1..Len(Line'), a > l
               PROVE  a - l \in 1..Len(s) /\ Line'[a] = s[a - l]
    BY <1>2
  <2>1. a - l \in 1..Len(s) /\ l + (a - l) = a
    BY <1>2
  <2> QED
    BY <1>2, <2>1
<1>5. \A a, b \in 1..l : e[a] = e[b] => a = b
  <2> SUFFICES ASSUME NEW a \in 1..l, NEW b \in 1..l, e[a] = e[b], a # b PROVE FALSE
    OBVIOUS
  <2>1. e[a] \in 1..Len(Line)
    BY <1>2
  <2>2. a < b \/ b < a
    BY <1>2
  <2> QED
    BY <1>2, <2>1, <2>2
<1>20. ASSUME NEW a \in 1..l, NEW i \in 1..Len(s), s[i].mid # 0
      PROVE  Line[e[a]].mid # s[i].mid /\ Line[e[a]].kind # "CONNECT"
  <2>1. e[a] \in 1..Len(Line) /\ e[a] \notin gone
    BY <1>2
  <2> QED
    BY <1>20, <2>1 DEF Writable
<1>6. OneEach'
  <2> SUFFICES ASSUME NEW a \in 1..Len(Line'), NEW b \in 1..Len(Line'),
                      Line'[a].mid = Line'[b].mid, Line'[a].mid # 0
               PROVE  a = b
    BY DEF OneEach
  <2>1. CASE a \in 1..l /\ b \in 1..l
    BY <1>2, <1>3, <1>5, <2>1 DEF OneEach
  <2>2. CASE a \in 1..l /\ b > l
    <3>1. b - l \in 1..Len(s) /\ Line'[b] = s[b - l]
      BY <1>2, <1>4, <2>2
    <3>2. s[b - l].mid # 0 => Line[e[a]].mid # s[b - l].mid
      BY <1>20, <2>2, <3>1
    <3>3. Line'[a].mid = Line[e[a]].mid
      BY <1>3, <2>2
    <3> QED
      BY <3>1, <3>2, <3>3
  <2>3. CASE a > l /\ b \in 1..l
    <3>1. a - l \in 1..Len(s) /\ Line'[a] = s[a - l]
      BY <1>2, <1>4, <2>3
    <3>2. s[a - l].mid # 0 => Line[e[b]].mid # s[a - l].mid
      BY <1>20, <2>3, <3>1
    <3>3. Line'[b].mid = Line[e[b]].mid
      BY <1>3, <2>3
    <3> QED
      BY <3>1, <3>2, <3>3
  <2>4. CASE a > l /\ b > l
    <3>1. /\ a - l \in 1..Len(s) /\ b - l \in 1..Len(s)
          /\ Line'[a] = s[a - l] /\ Line'[b] = s[b - l]
      BY <1>2, <1>4, <2>4
    <3>2. s[a - l].mid = s[b - l].mid /\ s[a - l].mid # 0
      BY <3>1
    <3>3. a - l = b - l
      BY <3>1, <3>2 DEF Writable
    <3> QED
      BY <1>2, <3>3
  <2> QED
    BY <1>2, <1>4, <2>1, <2>2, <2>3, <2>4
<1>7. ConnectLast'
  <2> SUFFICES ASSUME NEW a \in 1..Len(Line'), NEW b \in 1..Len(Line'),
                      a <= b, Line'[a].kind = "CONNECT"
               PROVE  Line'[b].mid = 0
    BY DEF ConnectLast
  <2>1. CASE a \in 1..l /\ b \in 1..l
    <3>1. e[a] <= e[b] /\ Line[e[a]].kind = "CONNECT"
      BY <1>2, <1>3, <2>1
    <3> QED
      BY <1>2, <1>3, <2>1, <3>1 DEF ConnectLast
  <2>2. CASE a \in 1..l /\ b > l
    <3>1. Line[e[a]].kind = "CONNECT"
      BY <1>3, <2>2
    <3>2. b - l \in 1..Len(s) /\ Line'[b] = s[b - l]
      BY <1>2, <1>4, <2>2
    <3>3. s[b - l].mid = 0
      BY <1>20, <2>2, <3>1, <3>2
    <3> QED
      BY <3>2, <3>3
  <2>3. CASE a > l /\ b > l
    <3>1. a - l \in 1..Len(s) /\ b - l \in 1..Len(s) /\ a - l <= b - l
          /\ s[a - l].kind = "CONNECT" /\ Line'[b] = s[b - l]
      BY <1>2, <1>4, <2>3
    <3> QED
      BY <3>1 DEF Writable
  <2> QED
    BY <1>2, <1>4, <2>1, <2>2, <2>3
<1> QED
  BY <1>6, <1>7

-----------------------------------------------------------------------------
(* What moves in the session stays distinct and fits what was given. *)
LEMMA MovedFields ==
  ASSUME NEW m \in Messages
  PROVE  /\ ToPublish(m).id = m.id /\ ToPublish(m).mid = m.mid /\ ToPublish(m).qos = m.qos
         /\ ToPublish(m).dup = m.dup
         /\ ToPublish(m).state = IF m.qos = 1 THEN "publish_qos1" ELSE "publish_qos2"
         /\ Sent(m).id = m.id /\ Sent(m).mid = m.mid /\ Sent(m).qos = m.qos
         /\ Resumed(m).id = m.id /\ Resumed(m).mid = m.mid /\ Resumed(m).qos = m.qos
         /\ Resumed(m).dup = m.dup
<1>1. /\ ToPublish(m).id = m.id /\ ToPublish(m).mid = m.mid /\ ToPublish(m).qos = m.qos
      /\ ToPublish(m).dup = m.dup
      /\ ToPublish(m).state = IF m.qos = 1 THEN "publish_qos1" ELSE "publish_qos2"
  BY DEF Messages, ToPublish
<1>2. Sent(m).id = m.id /\ Sent(m).mid = m.mid /\ Sent(m).qos = m.qos
  BY DEF Messages, Sent
<1>3. /\ Resumed(m).id = m.id /\ Resumed(m).mid = m.mid /\ Resumed(m).qos = m.qos
      /\ Resumed(m).dup = m.dup
  BY <1>1 DEF Messages, Resumed
<1> QED
  BY <1>1, <1>2, <1>3

LEMMA SentStates ==
  ASSUME NEW m \in Messages, InFlight(m)
  PROVE  /\ m.state \in Unsent \cup Waiting \cup {"wait_for_pubcomp"}
         /\ m.state = "publish_qos1" => Sent(m).state = "wait_for_puback" /\ Sent(m).dup
         /\ m.state = "publish_qos2" => Sent(m).state = "wait_for_pubrec" /\ Sent(m).dup
         /\ m.state = "resend_pubrel" => Sent(m).state = "wait_for_pubcomp" /\ Sent(m).dup = m.dup
         /\ m.state \notin Unsent => Sent(m) = m
         /\ Packet(m).mid = m.mid
         /\ m.state = "resend_pubrel" => Packet(m).kind = "PUBREL"
         /\ m.state # "resend_pubrel" =>
              /\ Packet(m).kind = "PUBLISH" /\ Packet(m).id = m.id /\ Packet(m).qos = m.qos
              /\ Packet(m).dup = m.dup
<1>1. m.state \in Unsent \cup Waiting \cup {"wait_for_pubcomp"}
  BY DEF InFlight, StateFits, Unsent, Waiting, Releasing, Messages
<1>2. /\ m.state = "publish_qos1" => Sent(m).state = "wait_for_puback" /\ Sent(m).dup
      /\ m.state = "publish_qos2" => Sent(m).state = "wait_for_pubrec" /\ Sent(m).dup
      /\ m.state = "resend_pubrel" => Sent(m).state = "wait_for_pubcomp" /\ Sent(m).dup = m.dup
      /\ m.state \notin Unsent => Sent(m) = m
  BY DEF Sent, Messages, Unsent
<1>3. /\ Packet(m).mid = m.mid
      /\ m.state = "resend_pubrel" => Packet(m).kind = "PUBREL"
      /\ m.state # "resend_pubrel" =>
           /\ Packet(m).kind = "PUBLISH" /\ Packet(m).id = m.id /\ Packet(m).qos = m.qos
           /\ Packet(m).dup = m.dup
  BY DEF Packet, Ack, Pkt
<1> QED
  BY <1>1, <1>2, <1>3

LEMMA ResumedStates ==
  ASSUME NEW m \in Messages, InFlight(m)
  PROVE  /\ m.state = "wait_for_pubcomp" => Resumed(m).state = "resend_pubrel"
         /\ m.state # "wait_for_pubcomp" =>
              Resumed(m).state = IF m.qos = 1 THEN "publish_qos1" ELSE "publish_qos2"
BY DEF InFlight, StateFits, Resumed, ToPublish, Releasing, Messages

LEMMA CarriedSession ==
  ASSUME LineTypes, Distinct, given' = given, NEW l, NEW e, NEW n, Carries(l, e, n),
         \A i \in 1..Len(inflight) : InFlight(inflight[i]),
         \A i \in 1..Len(queued) : InQueue(queued[i]),
         \A i \in 1..l : /\ inflight'[i].id = inflight[e[i]].id
                         /\ inflight'[i].mid = inflight[e[i]].mid
                         /\ inflight'[i].qos = inflight[e[i]].qos /\ StateFits(inflight'[i])
  PROVE  /\ Distinct'
         /\ \A i \in 1..Len(inflight') : InFlight(inflight[i])'
         /\ \A i \in 1..Len(queued') : InQueue(queued[i])'
         /\ \A i \in 1..Len(inflight') :
              \/ i \in 1..l
              \/ /\ i > l /\ i - l \in 1..n /\ i - l \in 1..Len(queued)
                 /\ inflight'[i] = ToPublish(queued[i - l])
         /\ \A i \in 1..Len(queued') : n + i \in 1..Len(queued) /\ queued'[i] = queued[n + i]
<1>1. /\ Len(inflight) \in Nat /\ Len(queued) \in Nat
      /\ \A i \in 1..Len(inflight) : inflight[i] \in Messages
      /\ \A i \in 1..Len(queued) : queued[i] \in Messages
  BY SessionTypes
<1>2. /\ l \in Nat /\ n \in 0..Len(queued)
      /\ Len(inflight') = l + n /\ Len(queued') = Len(queued) - n
      /\ \A i \in 1..l : e[i] \in 1..Len(inflight)
      /\ \A i, j \in 1..l : i < j => e[i] < e[j]
      /\ \A i \in 1..n : inflight'[l + i] = ToPublish(queued[i])
      /\ \A i \in 1..Len(queued') : queued'[i] = queued[n + i]
  BY DEF Carries
<1>3. ASSUME NEW i \in 1..Len(inflight')
      PROVE  \/ i \in 1..l
             \/ /\ i > l /\ i - l \in 1..n /\ i - l \in 1..Len(queued)
                /\ inflight'[i] = ToPublish(queued[i - l])
  <2>1. CASE i <= l
    BY <1>2, <2>1
  <2>2. CASE i > l
    <3>1. i - l \in 1..n /\ i - l \in 1..Len(queued) /\ l + (i - l) = i
      BY <1>1, <1>2, <2>2
    <3> QED
      BY <1>2, <2>2, <3>1
  <2> QED
    BY <1>2, <2>1, <2>2
<1>4. \A i \in 1..Len(queued') : n + i \in 1..Len(queued) /\ queued'[i] = queued[n + i]
  BY <1>1, <1>2
<1>5. \A i \in 1..Len(queued) :
        /\ ToPublish(queued[i]).id = queued[i].id /\ ToPublish(queued[i]).mid = queued[i].mid
        /\ ToPublish(queued[i]).qos = queued[i].qos
        /\ ToPublish(queued[i]).state =
             IF queued[i].qos = 1 THEN "publish_qos1" ELSE "publish_qos2"
  BY <1>1, MovedFields
<1>12. ASSUME NEW i \in 1..Len(inflight'), i > l
       PROVE  /\ i - l \in 1..n /\ i - l \in 1..Len(queued)
              /\ inflight'[i] = ToPublish(queued[i - l])
              /\ inflight'[i].id = queued[i - l].id
  <2>1. i \notin 1..l
    BY <1>2, <1>12
  <2>2. /\ i - l \in 1..n /\ i - l \in 1..Len(queued)
        /\ inflight'[i] = ToPublish(queued[i - l])
    BY <1>3, <2>1
  <2> QED
    BY <1>5, <2>2
<1>6. \A i, j \in 1..l : e[i] = e[j] => i = j
  <2> SUFFICES ASSUME NEW i \in 1..l, NEW j \in 1..l, e[i] = e[j], i # j PROVE FALSE
    OBVIOUS
  <2>1. e[i] \in 1..Len(inflight)
    BY <1>2
  <2>2. i < j \/ j < i
    BY <1>2
  <2> QED
    BY <1>1, <1>2, <2>1, <2>2
<1>7. /\ \A i, j \in 1..Len(inflight) : inflight[i].id = inflight[j].id => i = j
      /\ \A i, j \in 1..Len(queued) : queued[i].id = queued[j].id => i = j
      /\ \A i \in 1..Len(inflight), j \in 1..Len(queued) : inflight[i].id # queued[j].id
  BY DEF Distinct
<1>8. Distinct'
  <2>1. ASSUME NEW i \in 1..Len(inflight'), NEW j \in 1..Len(inflight'),
               inflight'[i].id = inflight'[j].id
        PROVE  i = j
    <3>1. CASE i \in 1..l /\ j \in 1..l
      BY SMTT(30), <1>2, <1>6, <1>7, <2>1, <3>1
    <3>2. CASE i \in 1..l /\ j > l
      <4>1. e[i] \in 1..Len(inflight) /\ j - l \in 1..Len(queued)
            /\ inflight[e[i]].id = queued[j - l].id
        BY <1>2, <1>12, <2>1, <3>2
      <4> QED
        BY <1>7, <4>1
    <3>3. CASE i > l /\ j \in 1..l
      <4>1. e[j] \in 1..Len(inflight) /\ i - l \in 1..Len(queued)
            /\ inflight[e[j]].id = queued[i - l].id
        BY <1>2, <1>12, <2>1, <3>3
      <4> QED
        BY <1>7, <4>1
    <3>4. CASE i > l /\ j > l
      <4>1. i - l \in 1..Len(queued) /\ j - l \in 1..Len(queued)
            /\ queued[i - l].id = queued[j - l].id
        BY <1>2, <1>12, <2>1, <3>4
      <4>2. i - l = j - l
        BY <1>7, <4>1
      <4> QED
        BY <1>2, <4>2
    <3> QED
      BY <1>2, <1>3, <3>1, <3>2, <3>3, <3>4
  <2>2. ASSUME NEW i \in 1..Len(queued'), NEW j \in 1..Len(queued'), queued'[i].id = queued'[j].id
        PROVE  i = j
    <3>1. n + i = n + j
      BY SMTT(30), <1>4, <1>7, <2>2
    <3> QED
      BY <1>2, <3>1
  <2>3. ASSUME NEW i \in 1..Len(inflight'), NEW j \in 1..Len(queued')
        PROVE  inflight'[i].id # queued'[j].id
    <3>1. n + j \in 1..Len(queued) /\ queued'[j] = queued[n + j]
      BY <1>4
    <3>2. CASE i \in 1..l
      <4>1. e[i] \in 1..Len(inflight) /\ inflight'[i].id = inflight[e[i]].id
        BY <1>2, <3>2
      <4> QED
        BY <1>7, <3>1, <4>1
    <3>3. CASE i > l
      <4>1. i - l \in 1..n /\ i - l \in 1..Len(queued) /\ inflight'[i].id = queued[i - l].id
        BY <1>12, <3>3
      <4>2. i - l # n + j
        BY <1>2, <4>1
      <4> QED
        BY <1>7, <3>1, <4>1, <4>2
    <3> QED
      BY <1>2, <3>2, <3>3
  <2> QED
    BY <2>1, <2>2, <2>3 DEF Distinct
<1>9. Ids' = Ids
  BY DEF Ids
<1>10. ASSUME NEW i \in 1..Len(inflight') PROVE InFlight(inflight[i])'
  <2>1. CASE i \in 1..l
    <3>1. Fits(inflight[e[i]])
      BY <1>2, <2>1 DEF InFlight
    <3> QED
      BY <1>9, <2>1, <3>1 DEF InFlight, Fits
  <2>2. CASE i > l
    <3>1. i - l \in 1..Len(queued) /\ inflight'[i] = ToPublish(queued[i - l])
      BY <1>12, <2>2
    <3>2. Fits(queued[i - l])
      BY <3>1 DEF InQueue
    <3>3. Fits(inflight[i])'
      BY <1>5, <1>9, <3>1, <3>2 DEF Fits
    <3>4. StateFits(inflight'[i])
      BY <1>5, <3>1 DEF StateFits
    <3> QED
      BY <3>3, <3>4 DEF InFlight, StateFits
  <2> QED
    BY <1>2, <2>1, <2>2
<1>11. \A i \in 1..Len(queued') : InQueue(queued[i])'
  <2> SUFFICES ASSUME NEW i \in 1..Len(queued') PROVE InQueue(queued[i])'
    OBVIOUS
  <2>1. n + i \in 1..Len(queued) /\ queued'[i] = queued[n + i]
    BY <1>4
  <2>2. InQueue(queued[n + i])
    BY <2>1
  <2> QED
    BY <1>9, <2>1, <2>2 DEF InQueue, Fits
<1> QED
  BY <1>3, <1>4, <1>8, <1>10, <1>11

-----------------------------------------------------------------------------
(* ExchangeInv. *)
LEMMA ExchangeInit == NoneComesRound /\ Init => ExchangeInv
<1> SUFFICES ASSUME NoneComesRound, Init PROVE ExchangeInv
  OBVIOUS
<1> USE DEF Init, NoneComesRound
<1>1. LineTypes
  <2>1. TypeOK
    BY DEF TypeOK
  <2>2. threaded \in BOOLEAN /\ (threaded => protocol # "v5")
    OBVIOUS
  <2>3. /\ <<>> \in Seq([qos : 1..2, expires : BOOLEAN]) /\ <<>> \in Seq(Nat)
        /\ <<>> \in Seq(Messages) /\ <<>> \in Seq(Copy) /\ <<>> \in Seq(Packets(UpKinds))
        /\ <<>> \in Seq(Packets(Answers)) /\ <<>> \in Seq(Packets(DownKinds)) /\ Len(<<>>) = 0
    OBVIOUS
  <2>4. /\ given = <<>> /\ got = <<>> /\ inflight = <<>> /\ queued = <<>> /\ held = <<>>
        /\ up = <<>> /\ outp = <<>> /\ down = <<>> /\ breaks = 0 /\ online = FALSE
        /\ sock = "none" /\ last_mid = 0 /\ 0 <= MaxGiven
    OBVIOUS
  <2> HIDE DEF Init, NoneComesRound
  <2>5. breaks \in Nat /\ online \in BOOLEAN /\ Len(given) = 0 /\ Len(got) = 0
    BY <2>3, <2>4
  <2> QED
    BY <2>1, <2>2, <2>3, <2>4, <2>5 DEF LineTypes
<1>2. Len(Line) = 0
  <2>1. Unwritten = <<>>
    BY DEF Unwritten
  <2>2. Len(<<>>) = 0
    OBVIOUS
  <2> QED
    BY <1>1, <2>1, <2>2, LineFacts DEF LineParts
<1>3. Len(inflight) = 0 /\ Len(queued) = 0 /\ Len(held) = 0
  OBVIOUS
<1>4. FitInv /\ Distinct /\ StateInv
  BY <1>2, <1>3 DEF FitInv, Distinct, StateInv
<1>5. LineInv
  BY <1>2 DEF LineInv, OneEach, ConnectLast, Current
<1> QED
  BY <1>1, <1>4, <1>5 DEF ExchangeInv

LEMMA SameFits ==
  ASSUME Ids \subseteq Ids', \A k \in Ids : given'[k] = given[k]
  PROVE  /\ \A p : FitsPacket(p) => FitsPacket(p)'
         /\ \A h : FitsCopy(h) => FitsCopy(h)'
         /\ \A m : InFlight(m) => InFlight(m)'
         /\ \A m : InQueue(m) => InQueue(m)'
<1>1. \A p : FitsPacket(p) => FitsPacket(p)'
  BY DEF FitsPacket
<1>2. \A h : FitsCopy(h) => FitsCopy(h)'
  BY DEF FitsCopy
<1>3. \A m : Fits(m) => Fits(m)'
  BY DEF Fits
<1> QED
  BY <1>1, <1>2, <1>3 DEF InFlight, InQueue, StateFits

LEMMA SessionIds ==
  ASSUME ExchangeInv
  PROVE  /\ \A i \in 1..Len(inflight) : /\ inflight[i].id = inflight[i].mid
                                        /\ inflight[i].id \in Ids /\ inflight[i].mid # 0
         /\ \A i \in 1..Len(queued) : /\ queued[i].id = queued[i].mid
                                      /\ queued[i].id \in Ids /\ queued[i].mid # 0
<1>1. \A k \in Ids : k # 0
  BY SessionTypes DEF Ids, ExchangeInv
<1> QED
  BY <1>1 DEF ExchangeInv, FitInv, InFlight, InQueue, Fits

(* A step that leaves the session alone. *)
LEMMA QuietSession ==
  ASSUME ExchangeInv, LineTypes', given' = given, inflight' = inflight, queued' = queued,
         NEW gone, NEW c, NEW r, NEW s, Follows(gone, c, r, s),
         c \in 1..Len(Line) =>
           /\ r.mid = Line[c].mid /\ r.kind # "CONNECT" /\ FitsPacket(r)
           /\ (r.kind \in FirstKinds <=> Line[c].kind \in FirstKinds),
         Len(s) \in 0..1, \A i \in 1..Len(s) : FitsPacket(s[i]) /\ s[i].mid = 0,
         \A i \in 1..Len(held') : FitsCopy(held'[i]),
         ~online' => ~Current' /\ (~online \/ Len(Line') = 0)
  PROVE  ExchangeInv'
<1>1. LineTypes /\ FitInv /\ Distinct /\ LineInv /\ StateInv
  BY DEF ExchangeInv
<1>2. \A a \in 1..Len(Line') :
        \/ \E b \in 1..Len(Line) : b \notin gone /\ b # c /\ Line'[a] = Line[b]
        \/ c \in 1..Len(Line) /\ c \notin gone /\ Line'[a] = r
        \/ \E i \in 1..Len(s) : Line'[a] = s[i]
  BY <1>1, LineMembers
<1>3. Ids' = Ids
  BY DEF Ids
<1>4. FitInv'
  <2>1. \A a \in 1..Len(Line') : FitsPacket(Line'[a])
    BY <1>1, <1>2 DEF FitInv
  <2>2. /\ \A p : FitsPacket(p) => FitsPacket(p)'
        /\ \A h : FitsCopy(h) => FitsCopy(h)'
        /\ \A m : InFlight(m) => InFlight(m)'
        /\ \A m : InQueue(m) => InQueue(m)'
    BY <1>3, SameFits
  <2>3. \A a \in 1..Len(Line') : FitsPacket(Line[a])'
    BY <1>3, <2>1 DEF FitsPacket
  <2>4. \A i \in 1..Len(held') : FitsCopy(held[i])'
    BY <1>3 DEF FitsCopy
  <2>5. \A i \in 1..Len(inflight') : InFlight(inflight[i])'
    BY <1>1, <1>3 DEF FitInv, InFlight, Fits, StateFits
  <2>6. \A i \in 1..Len(queued') : InQueue(queued[i])'
    BY <1>1, <1>3 DEF FitInv, InQueue, Fits
  <2> QED
    BY <2>3, <2>4, <2>5, <2>6 DEF FitInv
<1>5. Distinct'
  BY <1>1 DEF Distinct
<1>6. LineInv'
  <2>1. Writable(gone, s) /\ Answering(c, r)
    BY DEF Writable, Answering
  <2>2. OneEach' /\ ConnectLast'
    BY <1>1, <2>1, LineInvKept DEF LineInv
  <2>3. ASSUME ~online' PROVE ~Current' /\ \A a \in 1..Len(Line') : Line'[a].mid = 0
    <3>1. CASE ~online
      <4>1. \A b \in 1..Len(Line) : Line[b].mid = 0
        BY <1>1, <3>1 DEF LineInv
      <4> QED
        BY <1>2, <2>3, <4>1
    <3>2. CASE Len(Line') = 0
      BY <2>3, <3>2
    <3> QED
      BY <2>3, <3>1, <3>2
  <2> QED
    BY <2>2, <2>3 DEF LineInv
<1>7. StateInv'
  <2> SUFFICES ASSUME NEW a \in 1..Len(Line')
               PROVE  /\ \A i \in 1..Len(queued') : queued'[i].mid # Line'[a].mid
                      /\ \A i \in 1..Len(inflight') : Answerable(Line'[a], inflight'[i])
    BY DEF StateInv, Answerable
  <2>1. CASE \E b \in 1..Len(Line) : Line'[a] = Line[b]
    BY <1>1, <2>1 DEF StateInv
  <2>2. CASE c \in 1..Len(Line) /\ Line'[a] = r
    BY <1>1, <2>2 DEF StateInv, Answerable
  <2>3. CASE \E i \in 1..Len(s) : Line'[a] = s[i]
    BY <2>3, SessionIds DEF Answerable
  <2> QED
    BY <1>2, <2>1, <2>2, <2>3
<1> QED
  BY <1>4, <1>5, <1>6, <1>7 DEF ExchangeInv

(* The packet the client reads, and its answer. *)
LEMMA ReadPacket ==
  ASSUME ExchangeInv, down # <<>>, NEW p, p = Head(down)
  PROVE  /\ p = Line[Unread + 1] /\ Unread + 1 \in 1..Len(Line) /\ Unread \in Nat
         /\ FitsPacket(p) /\ p \in Packets(DownKinds)
         /\ p.kind \in {"PUBLISH", "PUBREL"} =>
              /\ p.mid # 0 /\ p.mid \in Ids /\ p.mid \in Nat /\ online
              /\ \A i \in 1..Len(up) : up[i].kind # "CONNECT"
<1>1. /\ p = Line[Unread + 1] /\ Unread + 1 \in 1..Len(Line) /\ Unread \in Nat
      /\ p \in Packets(DownKinds) /\ LineTypes
  BY ClientReads DEF ExchangeInv
<1>2. FitsPacket(p)
  BY <1>1 DEF ExchangeInv, FitInv
<1>3. ASSUME p.kind \in {"PUBLISH", "PUBREL"} PROVE p.mid # 0 /\ p.mid \in Ids /\ p.mid \in Nat
  BY <1>1, <1>2, <1>3 DEF FitsPacket, Packets
<1>4. ASSUME p.mid # 0 PROVE online
  BY <1>1, <1>4 DEF ExchangeInv, LineInv
<1>5. ASSUME p.mid # 0, NEW i \in 1..Len(up) PROVE up[i].kind # "CONNECT"
  <2>1. LineParts
    BY <1>1, LineFacts
  <2>2. i \in 1..Len(Line) /\ Line[i] = up[i] /\ i <= Unread + 1
    BY <2>1 DEF LineParts
  <2> QED
    BY <1>1, <1>5, <2>2 DEF ExchangeInv, LineInv, ConnectLast
<1> QED
  BY <1>1, <1>2, <1>3, <1>4, <1>5

LEMMA AnswerFits ==
  ASSUME NEW p, FitsPacket(p), p.mid # 0, p.mid \in Nat
  PROVE  /\ p.kind = "PUBLISH" /\ p.qos = 1 => FitsPacket(Ack("PUBACK", p.mid))
         /\ p.kind = "PUBLISH" /\ p.qos = 2 => FitsPacket(Ack("PUBREC", p.mid))
         /\ p.kind = "PUBREL" => FitsPacket(Ack("PUBCOMP", p.mid))
         /\ p.kind = "PUBREC" => FitsPacket(Ack("PUBREL", p.mid))
<1>1. \A kind : Ack(kind, p.mid).kind = kind /\ Ack(kind, p.mid).mid = p.mid
  BY AckTypes
<1>2. p.mid \in Ids
  BY DEF FitsPacket
<1>3. ASSUME NEW kind, kind \in {"PUBACK", "PUBREC", "PUBREL", "PUBCOMP"},
             given[p.mid].qos = IF kind = "PUBACK" THEN 1 ELSE 2
      PROVE  FitsPacket(Ack(kind, p.mid))
  <2> DEFINE r == Ack(kind, p.mid)
  <2>1. r.kind = kind /\ r.mid = p.mid
    BY <1>1
  <2> HIDE DEF r
  <2>2. FitsPacket(r)
    BY <1>2, <1>3, <2>1 DEF FitsPacket
  <2> QED
    BY <2>2 DEF r
<1> QED
  BY <1>3 DEF FitsPacket

LEMMA CurrentStays ==
  ASSUME ~Current, \/ sock' = "none"
                   \/ \E i \in 1..Len(up') : up'[i].kind = "CONNECT"
                   \/ /\ (sock' = "none" <=> sock = "none")
                      /\ \A i \in 1..Len(up) : up[i].kind = "CONNECT" =>
                           \E j \in 1..Len(up') : up'[j].kind = "CONNECT"
  PROVE  ~Current'
BY DEF Current

LEMMA ReadExchange ==
  ASSUME NoneComesRound, ExchangeInv, ClientRead, LineTypes'
  PROVE  ExchangeInv'
<1> DEFINE p == Head(down)
           c == Unread + 1
<1>1. sock # "none" /\ down # <<>> /\ LineTypes /\ FitInv
  BY DEF ClientRead, ExchangeInv
<1>2. /\ p = Line[c] /\ c \in 1..Len(Line) /\ Unread \in Nat
      /\ FitsPacket(p) /\ p \in Packets(DownKinds)
      /\ p.kind \in {"PUBLISH", "PUBREL"} => p.mid # 0 /\ p.mid \in Ids /\ p.mid \in Nat /\ online
  BY <1>1, ReadPacket
<1>3. \/ TakesConnack(p) \/ TakesQoS1(p) \/ TakesQoS2(p)
      \/ TakesPubrel(p) \/ RefusesPublish(p) \/ RefusesPubrel(p)
  BY ClientReadCases
<1> HIDE DEF p, c
<1>4. /\ given' = given /\ inflight' = inflight /\ queued' = queued /\ online' = online
      /\ threaded' = threaded
  BY DEF ClientRead, session, config
<1>5. \A i \in 1..Len(held) : FitsCopy(held[i])
  BY <1>1 DEF FitInv
<1>6. Len(<<>>) = 0
  OBVIOUS
<1>7. ASSUME NEW gone, NEW k, NEW r, Follows(gone, k, r, <<>>),
             k \in 1..Len(Line) => /\ k = c /\ p.kind \in {"PUBLISH", "PUBREL"}
                                   /\ r.mid = p.mid /\ r.kind # "CONNECT" /\ FitsPacket(r)
                                   /\ (r.kind \in FirstKinds <=> p.kind \in FirstKinds),
             \A i \in 1..Len(held') : FitsCopy(held'[i]),
             ~online => ~Current'
      PROVE  ExchangeInv'
  BY <1>2, <1>4, <1>6, <1>7, QuietSession
<1>8. CASE TakesConnack(p)
  <2>1. Follows({Unread + 1}, 0, 0, <<>>)
    BY <1>1, <1>8, ConnackLine
  <2>2. ~online => ~Current'
    <3>1. sock' # "none" /\ up' = up
      BY <1>8 DEF TakesConnack
    <3>2. ~online => ~Current
      BY DEF ExchangeInv, LineInv
    <3> QED
      BY <1>1, <3>1, <3>2 DEF Current
  <2>3. held' = held
    BY <1>8 DEF TakesConnack
  <2> QED
    BY <1>5, <1>7, <2>1, <2>2, <2>3
<1>9. ASSUME NEW kind \in {"PUBACK", "PUBREC", "PUBCOMP"}, Reply(Ack(kind, p.mid)), Takes(p),
             sock' = sock, p.kind \in {"PUBLISH", "PUBREL"}, FitsPacket(Ack(kind, p.mid)),
             kind \in FirstKinds <=> p.kind \in FirstKinds,
             \A i \in 1..Len(held') : FitsCopy(held'[i])
      PROVE  ExchangeInv'
  <2> DEFINE r == Ack(kind, p.mid)
  <2>1. Follows({}, c, r, <<>>)
    <3>1. down' = Tail(down)
      BY <1>9 DEF Takes
    <3> QED
      BY <1>1, <1>4, <1>9, <3>1, ReplyLine DEF c
  <2>2. r.mid = p.mid /\ r.kind = kind
    BY <1>2, <1>9, AckTypes
  <2> HIDE DEF r
  <2>3. FitsPacket(r) /\ r.kind # "CONNECT" /\ (r.kind \in FirstKinds <=> p.kind \in FirstKinds)
    BY <1>9, <2>2 DEF r
  <2> QED
    BY <1>2, <1>7, <1>9, <2>1, <2>2, <2>3
<1>10. CASE TakesQoS1(p)
  <2>1. /\ Reply(Ack("PUBACK", p.mid)) /\ Takes(p) /\ sock' = sock /\ held' = held
        /\ p.kind = "PUBLISH" /\ p.qos = 1
    BY <1>10 DEF TakesQoS1
  <2>2. FitsPacket(Ack("PUBACK", p.mid))
    BY <1>2, <2>1, AnswerFits
  <2> QED
    BY <1>5, <1>9, <2>1, <2>2 DEF FirstKinds
<1>11. CASE TakesQoS2(p)
  <2>1. /\ Reply(Ack("PUBREC", p.mid)) /\ Takes(p) /\ sock' = sock
        /\ p.kind = "PUBLISH" /\ p.qos = 2
        /\ held' = Append(held, [id |-> p.id, mid |-> p.mid])
    BY <1>11 DEF TakesQoS2
  <2>2. FitsPacket(Ack("PUBREC", p.mid))
    BY <1>2, <2>1, AnswerFits
  <2>3. \A i \in 1..Len(held') : FitsCopy(held'[i])
    <3>1. FitsCopy([id |-> p.id, mid |-> p.mid])
      BY <1>2, <2>1 DEF FitsPacket, FitsCopy
    <3>2. /\ Len(held') = Len(held) + 1 /\ Len(held) \in Nat
          /\ \A i \in 1..Len(held) : held'[i] = held[i]
          /\ held'[Len(held) + 1] = [id |-> p.id, mid |-> p.mid]
      <4>1. held \in Seq(Copy) /\ Len(held) \in Nat
        BY <1>1, LenProperties DEF LineTypes
      <4> QED
        BY <2>1, <4>1
    <3>3. \A i \in 1..Len(held') : i \in 1..Len(held) \/ i = Len(held) + 1
      BY <3>2
    <3> QED
      BY <1>5, <3>1, <3>2, <3>3
  <2> QED
    BY <1>9, <2>1, <2>2, <2>3 DEF FirstKinds
<1>12. CASE TakesPubrel(p)
  <2>1. /\ Reply(Ack("PUBCOMP", p.mid)) /\ Takes(p) /\ sock' = sock /\ p.kind = "PUBREL"
    BY <1>12 DEF TakesPubrel
  <2>2. FitsPacket(Ack("PUBCOMP", p.mid))
    BY <1>2, <2>1, AnswerFits
  <2>3. \A i \in 1..Len(held') : FitsCopy(held'[i])
    <3>1. /\ Len(held') = Len(held) - 1 /\ Len(held) \in Nat
          /\ \A i \in 1..Len(held) - 1 :
               held'[i] = IF i < First(p) THEN held[i] ELSE held[i + 1]
      BY <1>1, <1>12, TakenCopy, SessionTypes
    <3>2. \A i \in 1..Len(held') : /\ i \in 1..Len(held) /\ i + 1 \in 1..Len(held)
                                   /\ i \in 1..Len(held) - 1
      BY <3>1
    <3> QED
      BY <1>5, <3>1, <3>2
  <2> QED
    BY <1>9, <2>1, <2>2, <2>3 DEF FirstKinds
<1>13. CASE RefusesPublish(p)
  <2>1. sock' = "none" /\ up' = up /\ held' = held
    BY <1>13 DEF RefusesPublish, Close
  <2>2. Follows({b \in 1..Len(Line) : b > Len(up)}, 0, 0, <<>>)
    BY <1>1, <2>1, RefusedLine
  <2>3. ~Current'
    BY <2>1 DEF Current
  <2> QED
    BY <1>5, <1>7, <2>1, <2>2, <2>3
<1>14. CASE RefusesPubrel(p)
  <2>1. /\ sock' = "none" /\ held' = held /\ p.kind = "PUBREL" /\ Reply(Ack("PUBCOMP", p.mid))
    BY <1>14 DEF RefusesPubrel, Close
  <2>2. ~Current'
    BY <2>1 DEF Current
  <2>3. CASE threaded
    <3>1. up' = up
      BY <2>1, <2>3 DEF Reply
    <3>2. Follows({b \in 1..Len(Line) : b > Len(up)}, 0, 0, <<>>)
      BY <1>1, <2>1, <3>1, RefusedLine
    <3> QED
      BY <1>5, <1>7, <2>1, <2>2, <3>2
  <2>4. CASE ~threaded
    <3> DEFINE r == Ack("PUBCOMP", p.mid)
               G == {b \in 1..Len(Line) : b > Unread + 1}
    <3>1. up' = Append(up, r)
      BY <2>1, <2>4 DEF Reply
    <3>2. Follows(G, c, r, <<>>)
      BY <1>1, <2>1, <2>4, <3>1, RefusedAnswerLine DEF c
    <3>3. r.mid = p.mid /\ r.kind = "PUBCOMP" /\ FitsPacket(r)
      BY <1>2, <2>1, AckTypes, AnswerFits
    <3> HIDE DEF r, G
    <3> QED
      BY <1>2, <1>5, <1>7, <2>1, <2>2, <3>2, <3>3 DEF FirstKinds
  <2> QED
    BY <2>3, <2>4
<1> QED
  BY <1>3, <1>8, <1>10, <1>11, <1>12, <1>13, <1>14

LEMMA QuietExchange ==
  ASSUME NoneComesRound, ExchangeInv, LineTypes',
         \/ Connect \/ ClientWrite \/ Break \/ Expire \/ Offline \/ ReadsNothing
         \/ UNCHANGED vars
  PROVE  ExchangeInv'
<1>1. LineTypes /\ FitInv /\ (~online => ~Current)
  BY DEF ExchangeInv, LineInv
<1>2. /\ given' = given /\ inflight' = inflight /\ queued' = queued /\ held' = held
  BY DEF Connect, ClientWrite, Break, Expire, Offline, ReadsNothing, vars, session, client
<1>3. \A i \in 1..Len(held') : FitsCopy(held'[i])
  BY <1>1, <1>2 DEF FitInv
<1>4. Len(<<>>) = 0 /\ Len(Line) \in Nat
  BY <1>1, LineFacts, LenProperties DEF LineParts
<1>5. ASSUME NEW gone, Follows(gone, 0, 0, <<>>),
             ~online' => ~Current' /\ (~online \/ Len(Line') = 0)
      PROVE  ExchangeInv'
  <2>1. 0 \notin 1..Len(Line)
    BY <1>4
  <2> QED
    BY <1>2, <1>3, <1>4, <1>5, <2>1, QuietSession
<1>6. CASE Connect
  <2> DEFINE s == <<Ack("CONNECT", 0)>>
  <2>1. Follows({}, 0, 0, s)
    BY <1>1, <1>6, NewConnectionLine
  <2>2. Len(s) = 1 /\ s[1] = Ack("CONNECT", 0)
    OBVIOUS
  <2>3. FitsPacket(Ack("CONNECT", 0)) /\ Ack("CONNECT", 0).mid = 0
    BY DEF FitsPacket, Ack, Pkt
  <2> HIDE DEF s
  <2>4. Len(s) \in 0..1 /\ \A i \in 1..Len(s) : FitsPacket(s[i]) /\ s[i].mid = 0
    BY <2>2, <2>3
  <2>5. online' = online /\ up' = Append(up, Ack("CONNECT", 0))
    BY <1>6 DEF Connect
  <2>6. ~Current'
    <3>1. up \in Seq(Packets(UpKinds))
      BY <1>1 DEF LineTypes
    <3>2. /\ Len(up) + 1 \in 1..Len(up') /\ up'[Len(up) + 1] = Ack("CONNECT", 0)
      BY <2>5, <3>1
    <3>3. Ack("CONNECT", 0).kind = "CONNECT"
      BY DEF Ack, Pkt
    <3> QED
      BY <3>2, <3>3 DEF Current
  <2>7. 0 \notin 1..Len(Line)
    BY <1>4
  <2> QED
    BY <1>2, <1>3, <2>1, <2>4, <2>5, <2>6, <2>7, QuietSession
<1>7. CASE ClientWrite
  <2>1. Follows({}, 0, 0, <<>>)
    BY <1>1, <1>7, WrittenLine
  <2>2. online' = online /\ sock' = sock /\ up' = up \o outp
    BY <1>7 DEF ClientWrite
  <2>3. ~Current => ~Current'
    <3>1. Packets(Answers) \subseteq Packets(UpKinds)
      BY DEF Packets, UpKinds
    <3>2. up \in Seq(Packets(UpKinds)) /\ outp \in Seq(Packets(Answers))
      BY <1>1 DEF LineTypes
    <3>3. up \in Seq(Packets(UpKinds)) /\ outp \in Seq(Packets(UpKinds))
      BY <3>1, <3>2
    <3>4. /\ Len(up \o outp) = Len(up) + Len(outp) /\ Len(up) \in Nat /\ Len(outp) \in Nat
          /\ \A i \in 1..Len(up) : (up \o outp)[i] = up[i]
      BY <3>3, ConcatFacts
    <3>5. \A i \in 1..Len(up) : i \in 1..Len(up') /\ up'[i] = up[i]
      BY <2>2, <3>4
    <3> QED
      BY <2>2, <3>5 DEF Current
  <2> QED
    BY <1>1, <1>5, <2>1, <2>2, <2>3
<1>8. CASE Break
  <2>1. PICK n \in 0..Len(Line) : Follows({b \in 1..Len(Line) : b > n}, 0, 0, <<>>)
    BY <1>1, <1>8, BrokenLine
  <2>2. online' = online /\ sock' = "none"
    BY <1>8 DEF Break
  <2>3. ~Current'
    BY <2>2 DEF Current
  <2> QED
    BY <1>5, <2>1, <2>2, <2>3
<1>9. CASE Expire \/ Offline \/ UNCHANGED vars
  <2>1. UNCHANGED <<up, down, outp, sock>>
    BY <1>9 DEF Expire, Offline, vars, client
  <2>2. Line' = Line /\ Current' = Current
    BY <2>1 DEF Line, Unwritten, Current
  <2>3. Follows({}, 0, 0, <<>>)
    BY <1>1, <2>2, LineKept
  <2>4. ~online' => ~Current' /\ (~online \/ Len(Line') = 0)
    <3>1. CASE Offline
      <4>1. sock = "none" /\ up = <<>>
        BY <3>1 DEF Offline
      <4>2. Unwritten = <<>> /\ down = <<>>
        BY <1>1, <4>1 DEF Unwritten, LineTypes
      <4>3. Len(Line) = 0
        <5>1. Len(Line) = Len(up) + Len(Unwritten) + Len(down)
          BY <1>1, LineFacts DEF LineParts
        <5> QED
          BY <1>4, <4>1, <4>2, <5>1
      <4> QED
        BY <2>2, <4>1, <4>3 DEF Current
    <3>2. CASE Expire \/ UNCHANGED vars
      <4>1. online' = online
        BY <3>2 DEF Expire, vars
      <4> QED
        BY <1>1, <2>2, <4>1
    <3> QED
      BY <1>9, <3>1, <3>2
  <2> QED
    BY <1>5, <2>3, <2>4
<1>10. CASE ReadsNothing
  <2>1. Follows({1}, 0, 0, <<>>)
    BY <1>1, <1>10, AckLine
  <2>2. /\ up # <<>> /\ up' = Tail(up) /\ ~online /\ Head(up).kind # "CONNECT"
        /\ online' = online /\ sock' = sock
    BY <1>10 DEF ReadsNothing, client
  <2>3. ~Current'
    <3>1. /\ Len(up) \in Nat \ {0} /\ Head(up) = up[1] /\ Len(up') = Len(up) - 1
          /\ \A i \in 1..Len(up) - 1 : up'[i] = up[i + 1]
      BY <1>1, <2>2, BrokerReads
    <3>2. ASSUME NEW i \in 1..Len(up), up[i].kind = "CONNECT"
          PROVE  \E j \in 1..Len(up') : up'[j].kind = "CONNECT"
      <4>1. i # 1
        BY <2>2, <3>1, <3>2
      <4>2. i - 1 \in 1..Len(up') /\ up'[i - 1] = up[i]
        BY <3>1, <4>1
      <4> QED
        BY <3>2, <4>2
    <3> QED
      BY <1>1, <2>2, <3>2 DEF Current
  <2> QED
    BY <1>5, <2>1, <2>2, <2>3
<1> QED
  BY <1>6, <1>7, <1>8, <1>9, <1>10

(* A step that moves messages of the session, and writes about them. *)
LEMMA CarriedExchange ==
  ASSUME ExchangeInv, LineTypes', given' = given, held' = held,
         NEW l, NEW e, NEW n, Carries(l, e, n),
         \A i \in 1..l : /\ inflight'[i].id = inflight[e[i]].id
                         /\ inflight'[i].mid = inflight[e[i]].mid
                         /\ inflight'[i].qos = inflight[e[i]].qos /\ StateFits(inflight'[i]),
         NEW gone, NEW s, Follows(gone, 0, 0, s), Writable(gone, s),
         \A i \in 1..Len(s) : FitsPacket(s[i]),
         \A i \in 1..l, b \in 1..Len(Line) :
           b \notin gone /\ inflight[e[i]].mid = Line[b].mid =>
             inflight'[i].state = inflight[e[i]].state,
         \A a \in 1..Len(s) : /\ \A i \in 1..Len(inflight') : Answerable(s[a], inflight'[i])
                              /\ \A i \in 1..Len(queued') : queued'[i].mid # s[a].mid,
         ~online' => ~Current' /\ \A a \in 1..Len(Line') : Line'[a].mid = 0
  PROVE  ExchangeInv'
<1>1. LineTypes /\ FitInv /\ Distinct /\ LineInv /\ StateInv
  BY DEF ExchangeInv
<1>2. Len(Line) \in Nat /\ 0 \notin 1..Len(Line)
  BY <1>1, LineFacts DEF LineParts
<1>3. \A a \in 1..Len(Line') :
        \/ \E b \in 1..Len(Line) : b \notin gone /\ Line'[a] = Line[b]
        \/ \E i \in 1..Len(s) : Line'[a] = s[i]
  <2>1. \A a \in 1..Len(Line') :
          \/ \E b \in 1..Len(Line) : b \notin gone /\ b # 0 /\ Line'[a] = Line[b]
          \/ 0 \in 1..Len(Line) /\ 0 \notin gone /\ Line'[a] = 0
          \/ \E i \in 1..Len(s) : Line'[a] = s[i]
    BY <1>1, LineMembers
  <2> QED
    BY <1>2, <2>1
<1>4. Ids' = Ids
  BY DEF Ids
<1>5. /\ \A i \in 1..Len(inflight) : InFlight(inflight[i])
      /\ \A i \in 1..Len(queued) : InQueue(queued[i])
  BY <1>1 DEF FitInv
<1>6. /\ Distinct'
      /\ \A i \in 1..Len(inflight') : InFlight(inflight[i])'
      /\ \A i \in 1..Len(queued') : InQueue(queued[i])'
      /\ \A i \in 1..Len(inflight') :
           \/ i \in 1..l
           \/ /\ i > l /\ i - l \in 1..n /\ i - l \in 1..Len(queued)
              /\ inflight'[i] = ToPublish(queued[i - l])
      /\ \A i \in 1..Len(queued') : n + i \in 1..Len(queued) /\ queued'[i] = queued[n + i]
  BY <1>1, <1>5, CarriedSession
<1>7. FitInv'
  <2>1. \A a \in 1..Len(Line') : FitsPacket(Line'[a])
    BY <1>1, <1>3 DEF FitInv
  <2>2. \A a \in 1..Len(Line') : FitsPacket(Line[a])'
    BY <1>4, <2>1 DEF FitsPacket
  <2>3. \A i \in 1..Len(held') : FitsCopy(held[i])'
    BY <1>1, <1>4 DEF FitInv, FitsCopy
  <2> QED
    BY <1>6, <2>2, <2>3 DEF FitInv
<1>8. LineInv'
  <2>1. Answering(0, 0)
    BY <1>2 DEF Answering
  <2>2. OneEach' /\ ConnectLast'
    BY <1>1, <2>1, LineInvKept DEF LineInv
  <2> QED
    BY <2>2 DEF LineInv
<1>9. StateInv'
  <2> SUFFICES ASSUME NEW a \in 1..Len(Line')
               PROVE  /\ \A i \in 1..Len(queued') : queued'[i].mid # Line'[a].mid
                      /\ \A i \in 1..Len(inflight') : Answerable(Line'[a], inflight'[i])
    BY DEF StateInv, Answerable
  <2>1. CASE \E b \in 1..Len(Line) : b \notin gone /\ Line'[a] = Line[b]
    <3>1. PICK b \in 1..Len(Line) : b \notin gone /\ Line'[a] = Line[b]
      BY <2>1
    <3>2. /\ \A i \in 1..Len(queued) : queued[i].mid # Line[b].mid
          /\ \A i \in 1..Len(inflight) : Answerable(Line[b], inflight[i])
      BY <1>1 DEF StateInv
    <3>3. ASSUME NEW i \in 1..Len(inflight') PROVE Answerable(Line'[a], inflight'[i])
      <4>1. CASE i \in 1..l
        <5>1. /\ e[i] \in 1..Len(inflight) /\ inflight'[i].mid = inflight[e[i]].mid
              /\ (inflight[e[i]].mid = Line[b].mid => inflight'[i].state = inflight[e[i]].state)
          BY <3>1, <4>1 DEF Carries
        <5>2. Answerable(Line[b], inflight[e[i]])
          BY <3>2, <5>1
        <5> QED
          BY <3>1, <5>1, <5>2 DEF Answerable
      <4>2. CASE /\ i - l \in 1..Len(queued) /\ inflight'[i] = ToPublish(queued[i - l])
        <5>1. queued[i - l] \in Messages
          BY <1>1, <4>2, SessionTypes
        <5>2. inflight'[i].mid = queued[i - l].mid
          BY <4>2, <5>1, MovedFields
        <5>3. queued[i - l].mid # Line[b].mid
          BY <3>2, <4>2
        <5> QED
          BY <3>1, <5>2, <5>3 DEF Answerable
      <4> QED
        BY <1>6, <4>1, <4>2
    <3> QED
      BY <1>6, <3>1, <3>2, <3>3
  <2>2. CASE \E i \in 1..Len(s) : Line'[a] = s[i]
    BY <2>2
  <2> QED
    BY <1>3, <2>1, <2>2
<1> QED
  BY <1>6, <1>7, <1>8, <1>9 DEF ExchangeInv

LEMMA WriteExchange ==
  ASSUME NoneComesRound, ExchangeInv, MessageWrite, LineTypes'
  PROVE  ExchangeInv'
<1>1. LineTypes /\ FitInv /\ Distinct /\ LineInv /\ StateInv
  BY DEF ExchangeInv
<1>2. UNCHANGED <<given, held, online, sock, up, got>>
  BY DEF MessageWrite, client
<1>3. PICK l, e : /\ Carries(l, e, Lower(out_quota, Len(queued)))
                  /\ KeepsUnlessGone(l, e)
  BY <1>1, WrittenSession
<1>4. PICK pk, f : Writes(pk, f) /\ down' = IF Current THEN down \o pk ELSE down
  BY <1>1, WrittenSession
<1> DEFINE s == IF Current THEN pk ELSE <<>>
<1>5. Follows({}, 0, 0, s)
  BY <1>1, <1>4, WriteLine
<1>6. /\ Len(pk) \in Nat /\ Len(<<>>) = 0
      /\ \A i \in 1..Len(pk) : Due(f[i]) /\ pk[i] = Packet(inflight[f[i]])
      /\ \A i, j \in 1..Len(pk) : i < j => f[i] < f[j]
  BY <1>4, LenProperties DEF Writes
<1>7. (s = pk /\ Current) \/ Len(s) = 0
  BY <1>6
<1> HIDE DEF s
<1>8. \A j \in 1..Len(inflight) : inflight[j] \in Messages /\ InFlight(inflight[j])
  BY <1>1, SessionTypes DEF FitInv
<1>9. \A i \in 1..l :
        /\ e[i] \in 1..Len(inflight) /\ inflight'[i] = Sent(inflight[e[i]])
        /\ inflight'[i].id = inflight[e[i]].id /\ inflight'[i].mid = inflight[e[i]].mid
        /\ inflight'[i].qos = inflight[e[i]].qos /\ StateFits(inflight'[i])
  <2> SUFFICES ASSUME NEW i \in 1..l
               PROVE  /\ e[i] \in 1..Len(inflight) /\ inflight'[i] = Sent(inflight[e[i]])
                      /\ inflight'[i].id = inflight[e[i]].id /\ inflight'[i].mid = inflight[e[i]].mid
                      /\ inflight'[i].qos = inflight[e[i]].qos /\ StateFits(inflight'[i])
    OBVIOUS
  <2>1. e[i] \in 1..Len(inflight) /\ inflight'[i] = Sent(inflight[e[i]])
    BY <1>3 DEF Carries, KeepsUnlessGone
  <2>2. inflight[e[i]] \in Messages /\ InFlight(inflight[e[i]])
    BY <1>8, <2>1
  <2>3. /\ inflight'[i].id = inflight[e[i]].id /\ inflight'[i].mid = inflight[e[i]].mid
        /\ inflight'[i].qos = inflight[e[i]].qos
    BY <2>1, <2>2, MovedFields
  <2>4. StateFits(inflight'[i])
    <3>1. StateFits(inflight[e[i]])
      BY <2>2 DEF InFlight
    <3> QED
      BY <2>1, <2>2, <2>3, <3>1, SentStates DEF StateFits, Unsent, Waiting, Releasing
  <2> QED
    BY <2>1, <2>3, <2>4
<1>10. ASSUME NEW i \in 1..Len(s)
       PROVE  /\ f[i] \in 1..Len(inflight) /\ s[i] = Packet(inflight[f[i]])
              /\ inflight[f[i]].state \in Unsent /\ s[i].mid = inflight[f[i]].mid /\ Current
              /\ inflight[f[i]] \in Messages /\ InFlight(inflight[f[i]])
              /\ ~Gone(inflight[f[i]])
  <2>1. s = pk /\ Current
    BY <1>7
  <2>2. Due(f[i]) /\ s[i] = Packet(inflight[f[i]])
    BY <1>6, <2>1
  <2>3. f[i] \in 1..Len(inflight) /\ inflight[f[i]].state \in Unsent /\ ~Gone(inflight[f[i]])
    BY <2>2 DEF Due
  <2>4. inflight[f[i]] \in Messages /\ InFlight(inflight[f[i]])
    BY <1>8, <2>3
  <2>5. Packet(inflight[f[i]]).mid = inflight[f[i]].mid
    BY <2>4, SentStates
  <2> QED
    BY <2>1, <2>2, <2>3, <2>4, <2>5
<1>11. \A i \in 1..Len(s) : FitsPacket(s[i])
  <2> SUFFICES ASSUME NEW i \in 1..Len(s) PROVE FitsPacket(s[i])
    OBVIOUS
  <2> DEFINE m == inflight[f[i]]
  <2>1. /\ s[i] = Packet(m) /\ m.state \in Unsent /\ m \in Messages /\ InFlight(m)
    BY <1>10
  <2> HIDE DEF m
  <2>2. /\ m.id = m.mid /\ m.id \in Ids /\ m.qos = given[m.id].qos /\ StateFits(m) /\ m.mid # 0
        /\ m.qos \in 1..2
    BY <2>1 DEF InFlight, Fits, Ids, Messages
  <2>3. CASE m.state = "resend_pubrel"
    <3>1. m.qos = 2
      BY <2>2, <2>3 DEF StateFits
    <3>2. s[i].kind = "PUBREL" /\ s[i].mid = m.mid
      BY <2>1, <2>3, SentStates
    <3> QED
      BY <2>2, <3>1, <3>2 DEF FitsPacket
  <2>4. CASE m.state # "resend_pubrel"
    <3>1. /\ s[i].kind = "PUBLISH" /\ s[i].mid = m.mid /\ s[i].id = m.id /\ s[i].qos = m.qos
      BY <2>1, <2>4, SentStates
    <3> QED
      BY <2>2, <3>1 DEF FitsPacket
  <2> QED
    BY <2>3, <2>4
<1>12. \A j \in 1..Len(inflight), b \in 1..Len(Line) :
         inflight[j].mid = Line[b].mid => inflight[j].state \notin Unsent
  BY <1>1 DEF StateInv, Answerable, Unsent, Waiting
<1>13. \A i, j \in 1..Len(inflight) : inflight[i].mid = inflight[j].mid => i = j
  BY <1>1, <1>8 DEF Distinct, InFlight, Fits
<1>14. Writable({}, s)
  <2>1. ASSUME NEW i \in 1..Len(s), NEW b \in 1..Len(Line)
        PROVE  Line[b].mid # s[i].mid /\ Line[b].kind # "CONNECT"
    <3>1. Line[b].mid # s[i].mid
      BY <1>10, <1>12
    <3>2. Line[b].kind # "CONNECT"
      <4>1. \A x \in 1..Len(up) : up[x].kind # "CONNECT"
        BY <1>10 DEF Current
      <4> QED
        BY <1>1, <4>1, LineFacts DEF LineParts, Answers, DownKinds
    <3> QED
      BY <3>1, <3>2
  <2>2. ASSUME NEW i \in 1..Len(s), NEW j \in 1..Len(s), s[i].mid = s[j].mid PROVE i = j
    <3>1. f[i] = f[j]
      BY SMTT(30), <1>10, <1>13, <2>2
    <3>2. s = pk
      BY <1>7, <2>2
    <3>3. i \in 1..Len(pk) /\ j \in 1..Len(pk) /\ f[i] \in Nat
      BY <1>10, <3>2
    <3> QED
      BY <1>6, <3>1, <3>3
  <2>3. \A i \in 1..Len(s) : s[i].kind # "CONNECT"
    BY <1>10, SentStates
  <2> QED
    BY <2>1, <2>2, <2>3 DEF Writable
<1>15. \A i \in 1..l, b \in 1..Len(Line) :
         b \notin {} /\ inflight[e[i]].mid = Line[b].mid =>
           inflight'[i].state = inflight[e[i]].state
  <2> SUFFICES ASSUME NEW i \in 1..l, NEW b \in 1..Len(Line), inflight[e[i]].mid = Line[b].mid
               PROVE  inflight'[i].state = inflight[e[i]].state
    OBVIOUS
  <2>1. e[i] \in 1..Len(inflight) /\ inflight'[i] = Sent(inflight[e[i]])
    BY <1>9
  <2>2. inflight[e[i]].state \notin Unsent /\ inflight[e[i]] \in Messages /\ InFlight(inflight[e[i]])
    BY <1>8, <1>12, <2>1
  <2> QED
    BY <2>1, <2>2, SentStates
<1>16. ASSUME NEW a \in 1..Len(s)
       PROVE  /\ \A i \in 1..Len(inflight') : Answerable(s[a], inflight'[i])
              /\ \A i \in 1..Len(queued') : queued'[i].mid # s[a].mid
  <2> DEFINE m == inflight[f[a]]
             n == Lower(out_quota, Len(queued))
  <2>1. /\ f[a] \in 1..Len(inflight) /\ s[a] = Packet(m) /\ m.state \in Unsent
        /\ m \in Messages /\ InFlight(m) /\ ~Gone(m) /\ s[a].mid = m.mid
    BY <1>10
  <2>2. \A i \in 1..Len(queued) : /\ queued[i].mid # m.mid /\ queued[i] \in Messages
                                  /\ ToPublish(queued[i]).mid = queued[i].mid
    <3>1. \A i \in 1..Len(queued) : InQueue(queued[i]) /\ queued[i] \in Messages
      BY <1>1, SessionTypes DEF FitInv
    <3>2. \A i \in 1..Len(queued) : queued[i].id # m.id
      BY <1>1, <2>1 DEF Distinct
    <3>3. m.id = m.mid
      BY <2>1 DEF InFlight, Fits
    <3>4. \A i \in 1..Len(queued) : queued[i].mid # m.mid
      BY <3>1, <3>2, <3>3 DEF InQueue, Fits
    <3> QED
      BY <3>1, <3>4, MovedFields
  <2>3. /\ \A i \in 1..Len(inflight') :
             \/ i \in 1..l
             \/ i - l \in 1..Len(queued) /\ inflight'[i] = ToPublish(queued[i - l])
        /\ \A i \in 1..Len(queued') : n + i \in 1..Len(queued) /\ queued'[i] = queued[n + i]
    <3>1. \A i \in 1..l : /\ inflight'[i].id = inflight[e[i]].id
                          /\ inflight'[i].mid = inflight[e[i]].mid
                          /\ inflight'[i].qos = inflight[e[i]].qos /\ StateFits(inflight'[i])
      BY <1>9
    <3>2. /\ \A i \in 1..Len(inflight) : InFlight(inflight[i])
          /\ \A i \in 1..Len(queued) : InQueue(queued[i])
      BY <1>1 DEF FitInv
    <3> QED
      BY <1>1, <1>2, <1>3, <3>1, <3>2, CarriedSession
  <2> HIDE DEF n
  <2>4. ASSUME NEW i \in 1..Len(inflight') PROVE Answerable(s[a], inflight'[i])
    <3>1. CASE i \in 1..l
      <4>1. /\ e[i] \in 1..Len(inflight) /\ inflight'[i] = Sent(inflight[e[i]])
            /\ inflight'[i].mid = inflight[e[i]].mid
        BY <1>9, <3>1
      <4>2. CASE inflight[e[i]].mid = m.mid
        <5>1. e[i] = f[a]
          BY <1>13, <2>1, <4>1, <4>2
        <5>2. inflight'[i] = Sent(m)
          BY <4>1, <5>1
        <5>3. m \in Messages /\ InFlight(m) /\ m.state \in Unsent /\ s[a] = Packet(m)
          BY <2>1
        <5> HIDE DEF m
        <5>4. \/ s[a].kind = "PUBREL" /\ inflight'[i].state = "wait_for_pubcomp"
              \/ s[a].kind = "PUBLISH" /\ inflight'[i].state \in Waiting
          BY <5>2, <5>3, SentStates DEF Unsent, Waiting
        <5> QED
          BY <5>4 DEF Answerable, FirstKinds
      <4>3. CASE inflight[e[i]].mid # m.mid
        BY <2>1, <4>1, <4>3 DEF Answerable
      <4> QED
        BY <4>2, <4>3
    <3>2. CASE i - l \in 1..Len(queued) /\ inflight'[i] = ToPublish(queued[i - l])
      BY <2>1, <2>2, <3>2 DEF Answerable
    <3> QED
      BY <2>3, <3>1, <3>2
  <2>5. \A i \in 1..Len(queued') : queued'[i].mid # s[a].mid
    BY <2>1, <2>2, <2>3
  <2> QED
    BY <2>4, <2>5
<1>17. online'
  BY <1>2 DEF MessageWrite
<1> DEFINE n == Lower(out_quota, Len(queued))
<1>18. Carries(l, e, n)
  BY <1>3
<1>19. \A i \in 1..l : /\ inflight'[i].id = inflight[e[i]].id
                       /\ inflight'[i].mid = inflight[e[i]].mid
                       /\ inflight'[i].qos = inflight[e[i]].qos /\ StateFits(inflight'[i])
  BY <1>9
<1> HIDE DEF n
<1> QED
  BY <1>2, <1>5, <1>11, <1>14, <1>15, <1>16, <1>17, <1>18, <1>19, CarriedExchange

LEMMA ConnectExchange ==
  ASSUME NoneComesRound, ExchangeInv, ReadsConnect, LineTypes'
  PROVE  ExchangeInv' /\ \A b \in 1..Len(Line) : Line[b].mid = 0
<1>1. LineTypes /\ FitInv /\ Distinct /\ LineInv /\ StateInv
  BY DEF ExchangeInv
<1>2. UNCHANGED <<given, held, sock>> /\ online' /\ up # <<>> /\ HandleConnect
  BY DEF ReadsConnect, HandleConnect, client
<1> DEFINE s == IF sock = "none" THEN <<>> ELSE <<Ack("CONNACK", 0)>>
           n == Lower(MaxInflight, Len(queued))
<1>3. Follows({1}, 0, 0, s)
  BY <1>1, ConnectLine
<1>4. Len(s) \in 0..1 /\ \A i \in 1..Len(s) : s[i] = Ack("CONNACK", 0)
  OBVIOUS
<1> HIDE DEF s
<1>5. \A i \in 1..Len(s) : s[i].mid = 0 /\ s[i].kind = "CONNACK" /\ FitsPacket(s[i])
  BY <1>4 DEF FitsPacket, Ack, Pkt
<1>6. PICK e : /\ Carries(Len(inflight), e, n)
               /\ \A i \in 1..Len(inflight) : e[i] = i /\ inflight'[i] = Resumed(inflight[i])
  BY <1>1, <1>2, ResumedSession DEF ResumesAll
<1> HIDE DEF n
<1>7. \A b \in 1..Len(Line) : Line[b].mid = 0
  <2>1. Head(up) = Line[1] /\ 1 \in 1..Len(Line) /\ Head(up).kind = "CONNECT"
    BY <1>1, <1>2, BrokerReads DEF ReadsConnect
  <2> QED
    BY <1>1, <2>1 DEF LineInv, ConnectLast
<1>8. \A i \in 1..Len(inflight) :
        /\ inflight'[i].id = inflight[e[i]].id /\ inflight'[i].mid = inflight[e[i]].mid
        /\ inflight'[i].qos = inflight[e[i]].qos /\ StateFits(inflight'[i])
        /\ inflight[e[i]].mid # 0
  <2> SUFFICES ASSUME NEW i \in 1..Len(inflight)
               PROVE  /\ inflight'[i].id = inflight[e[i]].id /\ inflight'[i].mid = inflight[e[i]].mid
                      /\ inflight'[i].qos = inflight[e[i]].qos /\ StateFits(inflight'[i])
                      /\ inflight[e[i]].mid # 0
    OBVIOUS
  <2>1. e[i] = i /\ inflight'[i] = Resumed(inflight[i])
    BY <1>6
  <2>2. inflight[i] \in Messages /\ InFlight(inflight[i]) /\ inflight[i].mid # 0
    BY <1>1, SessionTypes, SessionIds DEF FitInv
  <2>3. /\ inflight'[i].id = inflight[i].id /\ inflight'[i].mid = inflight[i].mid
        /\ inflight'[i].qos = inflight[i].qos
    BY <2>1, <2>2, MovedFields
  <2>4. StateFits(inflight'[i])
    <3>1. StateFits(inflight[i]) /\ inflight[i].qos \in 1..2
      BY <2>2 DEF InFlight, Messages
    <3> QED
      BY <2>1, <2>2, <2>3, <3>1, ResumedStates DEF StateFits, Releasing
  <2> QED
    BY <2>1, <2>2, <2>3, <2>4
<1>9. \A i \in 1..Len(inflight') : inflight'[i].mid # 0
  <2>1. \A i \in 1..Len(inflight') :
          \/ i \in 1..Len(inflight)
          \/ i - Len(inflight) \in 1..Len(queued)
               /\ inflight'[i] = ToPublish(queued[i - Len(inflight)])
    <3>1. /\ \A i \in 1..Len(inflight) : InFlight(inflight[i])
          /\ \A i \in 1..Len(queued) : InQueue(queued[i])
      BY <1>1 DEF FitInv
    <3> QED
      BY <1>1, <1>2, <1>6, <1>8, <3>1, CarriedSession
  <2>2. \A i \in 1..Len(queued) : ToPublish(queued[i]).mid # 0
    BY <1>1, SessionTypes, SessionIds, MovedFields
  <2>3. \A i \in 1..Len(inflight) : inflight'[i].mid # 0
    BY <1>8
  <2> QED
    BY <2>1, <2>2, <2>3
<1>10. \A i \in 1..Len(queued') : queued'[i].mid # 0
  <2>1. \A i \in 1..Len(queued') : n + i \in 1..Len(queued) /\ queued'[i] = queued[n + i]
    <3>1. Len(queued) \in Nat /\ n \in 0..Len(queued) /\ Len(queued') = Len(queued) - n
      BY <1>1, <1>6, SessionTypes DEF Carries
    <3> QED
      BY <1>6, <3>1 DEF Carries
  <2> QED
    BY <2>1, SessionIds
<1>11. Writable({1}, s)
  BY <1>4, <1>5 DEF Writable
<1>12. \A a \in 1..Len(s) : /\ \A i \in 1..Len(inflight') : Answerable(s[a], inflight'[i])
                            /\ \A i \in 1..Len(queued') : queued'[i].mid # s[a].mid
  BY <1>5, <1>9, <1>10 DEF Answerable
<1>13. \A i \in 1..Len(s) : FitsPacket(s[i])
  BY <1>5
<1>14. \A i \in 1..Len(inflight), b \in 1..Len(Line) :
         b \notin {1} /\ inflight[e[i]].mid = Line[b].mid =>
           inflight'[i].state = inflight[e[i]].state
  BY <1>7, <1>8
<1> QED
  <2>1. \A i \in 1..Len(inflight) : /\ inflight'[i].id = inflight[e[i]].id
                                      /\ inflight'[i].mid = inflight[e[i]].mid
                                      /\ inflight'[i].qos = inflight[e[i]].qos
                                      /\ StateFits(inflight'[i])
    BY <1>8
  <2>2. ~online' => ~Current' /\ \A a \in 1..Len(Line') : Line'[a].mid = 0
    BY <1>2
  <2>3. ExchangeInv /\ LineTypes' /\ given' = given /\ held' = held
    BY <1>2
  <2>4. ExchangeInv'
    BY <1>3, <1>6, <1>11, <1>12, <1>13, <1>14, <2>1, <2>2, <2>3, CarriedExchange, SMTT(30)
  <2> QED
    BY <1>7, <2>4

LEMMA AckExchange ==
  ASSUME NoneComesRound, ExchangeInv, NEW p, ReadsAck(p), LineTypes'
  PROVE  ExchangeInv'
<1>1. LineTypes /\ FitInv /\ Distinct /\ LineInv /\ StateInv
  BY DEF ExchangeInv
<1>2. UNCHANGED <<given, held, sock, online>> /\ online
  BY DEF ReadsAck, Deletes, client
<1>3. Follows({1}, 0, 0, <<>>)
  BY <1>1, AckLine
<1>4. /\ inflight' = Without(inflight, p.mid)
                       \o Map(ToPublish, SubSeq(queued, 1, Lower(Len(queued), FreePlaces(p.mid))))
      /\ queued' = SubSeq(queued, Lower(Len(queued), FreePlaces(p.mid)) + 1, Len(queued))
  BY DEF ReadsAck, Deletes
<1> DEFINE l == Len(Without(inflight, p.mid))
           n == Lower(Len(queued), FreePlaces(p.mid))
<1>5. PICK e : Carries(l, e, n) /\ RemainsBut(l, e, p.mid)
  BY <1>1, <1>4, DeletedSession
<1> HIDE DEF l, n
<1>6. \A i \in 1..l : /\ e[i] \in 1..Len(inflight) /\ inflight'[i] = inflight[e[i]]
                      /\ StateFits(inflight[e[i]])
  BY <1>1, <1>5 DEF RemainsBut, Carries, FitInv, InFlight
<1>7. \A i \in 1..l : /\ inflight'[i].id = inflight[e[i]].id /\ inflight'[i].mid = inflight[e[i]].mid
                      /\ inflight'[i].qos = inflight[e[i]].qos /\ StateFits(inflight'[i])
  BY <1>6
<1>8. Len(<<>>) = 0
  OBVIOUS
<1>9. Writable({1}, <<>>)
  BY <1>8 DEF Writable
<1>10. \A i \in 1..l, b \in 1..Len(Line) :
         b \notin {1} /\ inflight[e[i]].mid = Line[b].mid =>
           inflight'[i].state = inflight[e[i]].state
  BY <1>6
<1> QED
  BY <1>2, <1>3, <1>5, <1>7, <1>8, <1>9, <1>10, CarriedExchange

LEMMA NoConnect ==
  ASSUME LineTypes, Current, NEW b \in 1..Len(Line)
  PROVE  Line[b].kind # "CONNECT"
<1>1. \A x \in 1..Len(up) : up[x].kind # "CONNECT"
  BY DEF Current
<1>2. /\ Line[b].kind \in UpKinds /\ Line[b] = up[b] /\ b \in 1..Len(up)
      \/ Line[b].kind \in Answers \/ Line[b].kind \in DownKinds
  <2>1. LineParts
    BY LineFacts
  <2> QED
    BY <2>1 DEF LineParts
<1> QED
  BY <1>1, <1>2 DEF Answers, DownKinds

LEMMA PubrecExchange ==
  ASSUME NoneComesRound, ExchangeInv, ReadsPubrec(Head(up)), LineTypes'
  PROVE  ExchangeInv'
<1>1. LineTypes /\ FitInv /\ Distinct /\ LineInv /\ StateInv
  BY DEF ExchangeInv
<1> DEFINE p == Head(up)
<1>2. /\ UNCHANGED <<given, held, sock, online, queued>> /\ online /\ up # <<>>
      /\ p.kind = "PUBREC"
      /\ inflight' = [i \in 1..Len(inflight) |->
           IF i \in At(inflight, p.mid) THEN [inflight[i] EXCEPT !.state = "wait_for_pubcomp"]
                                        ELSE inflight[i]]
  BY DEF ReadsPubrec, client
<1>3. p = Line[1] /\ 1 \in 1..Len(Line) /\ p \in Packets(UpKinds)
  BY <1>1, <1>2, BrokerReads
<1>4. FitsPacket(p) /\ p.mid \in Nat
  BY <1>1, <1>3 DEF FitInv, Packets
<1>5. p.mid # 0
  BY <1>2, <1>4 DEF FitsPacket
<1>6. \A i \in At(inflight, p.mid) : inflight[i].qos = 2
  BY <1>2, AnswersFit
<1>7. ReadsPubrec(p)
  OBVIOUS
<1> HIDE DEF p
<1> DEFINE s == IF Current THEN <<Ack("PUBREL", p.mid)>> ELSE <<>>
           l == Len(inflight)
           e == [i \in 1..l |-> i]
<1>8. Follows({1}, 0, 0, s)
  BY <1>1, <1>3, <1>7, PubrecLine
<1>9. /\ Len(s) \in 0..1 /\ \A i \in 1..Len(s) : s[i] = Ack("PUBREL", p.mid) /\ Current
      /\ \A i \in 1..Len(s) : i = 1
  OBVIOUS
<1> HIDE DEF s
<1>10. l \in Nat /\ Len(queued) \in Nat
  BY <1>1, SessionTypes
<1>11. Len(inflight') = l
  BY <1>2, <1>10
<1>12. Carries(l, e, 0)
  BY <1>2, <1>10, <1>11 DEF Carries
<1>13. \A i \in 1..l :
         /\ e[i] = i
         /\ inflight'[i] = IF inflight[i].mid = p.mid
                             THEN [inflight[i] EXCEPT !.state = "wait_for_pubcomp"]
                             ELSE inflight[i]
  BY <1>2 DEF At
<1> HIDE DEF l, e
<1>14. l = Len(inflight)
  BY DEF l
<1>15. \A i \in 1..l : /\ inflight'[i].id = inflight[e[i]].id /\ inflight'[i].mid = inflight[e[i]].mid
                       /\ inflight'[i].qos = inflight[e[i]].qos /\ StateFits(inflight'[i])
  <2> SUFFICES ASSUME NEW i \in 1..l
               PROVE  /\ inflight'[i].id = inflight[i].id /\ inflight'[i].mid = inflight[i].mid
                      /\ inflight'[i].qos = inflight[i].qos /\ StateFits(inflight'[i])
    BY <1>13
  <2>1. inflight[i] \in Messages /\ StateFits(inflight[i])
    BY <1>1, <1>14, SessionTypes DEF FitInv, InFlight
  <2>2. inflight[i].mid = p.mid => inflight[i].qos = 2
    BY <1>6, <1>14 DEF At
  <2> QED
    BY <1>13, <2>1, <2>2 DEF Messages, StateFits, Releasing
<1>16. Ack("PUBREL", p.mid).mid = p.mid /\ Ack("PUBREL", p.mid).kind = "PUBREL"
  BY DEF Ack, Pkt
<1>17. FitsPacket(Ack("PUBREL", p.mid))
  BY <1>2, <1>4, <1>5, AnswerFits
<1>18. \A b \in 1..Len(Line) : b # 1 => Line[b].mid # p.mid
  BY <1>1, <1>3, <1>5 DEF LineInv, OneEach
<1>19. Writable({1}, s)
  BY <1>1, <1>9, <1>16, <1>18, NoConnect DEF Writable
<1>20. \A i \in 1..Len(s) : FitsPacket(s[i])
  BY <1>9, <1>17
<1>21. \A i \in 1..l, b \in 1..Len(Line) :
         b \notin {1} /\ inflight[e[i]].mid = Line[b].mid =>
           inflight'[i].state = inflight[e[i]].state
  BY <1>13, <1>18
<1>22. \A a \in 1..Len(s) : /\ \A i \in 1..Len(inflight') : Answerable(s[a], inflight'[i])
                            /\ \A i \in 1..Len(queued') : queued'[i].mid # s[a].mid
  <2>1. \A i \in 1..Len(queued') : queued'[i].mid # p.mid
    BY <1>1, <1>2, <1>3 DEF StateInv
  <2>2. ASSUME NEW i \in 1..Len(inflight'), inflight'[i].mid = p.mid
        PROVE  inflight'[i].state = "wait_for_pubcomp"
    <3>1. i \in 1..l /\ i \in 1..Len(inflight)
      BY <1>11, <1>14
    <3>2. inflight[i] \in Messages
      BY <1>1, <3>1, SessionTypes
    <3>3. inflight[i].mid = p.mid
      BY <1>13, <1>15, <2>2, <3>1
    <3> QED
      BY <1>13, <3>1, <3>2, <3>3 DEF Messages
  <2> QED
    BY <1>9, <1>16, <2>1, <2>2 DEF Answerable, FirstKinds
<1>23. given' = given /\ held' = held /\ online'
  BY <1>2
<1> QED
  BY <1>8, <1>12, <1>15, <1>19, <1>20, <1>21, <1>22, <1>23, CarriedExchange

LEMMA SendExchange ==
  ASSUME NoneComesRound, ExchangeInv, NEW qos \in 1..2, NEW expires \in Expiring,
         Send(qos, expires), LineTypes'
  PROVE  ExchangeInv'
<1>1. LineTypes /\ FitInv /\ Distinct /\ LineInv /\ StateInv
  BY DEF ExchangeInv
<1>2. UNCHANGED <<held, sock, online, outp, up, down>>
  BY DEF Send
<1>3. Line' = Line /\ Current' = Current
  BY <1>2 DEF Line, Unwritten, Current
<1> DEFINE m == NewMessage(qos)
           k == Len(given) + 1
<1>4. /\ Len(given) \in Nat /\ Ids' = Ids \cup {k} /\ k \notin Ids
      /\ \A j \in Ids : given'[j] = given[j]
      /\ given'[k] = [qos |-> qos, expires |-> expires]
  BY <1>1, GivenMessage DEF Ids
<1>5. /\ m \in Messages /\ m.id = k /\ m.mid = k /\ m.qos = qos /\ m.state = "queued" /\ ~m.dup
  BY <1>1, InsertedMessage DEF NewMessage
<1>6. /\ ToPublish(m).id = k /\ ToPublish(m).mid = k /\ ToPublish(m).qos = qos
      /\ ToPublish(m).state = IF qos = 1 THEN "publish_qos1" ELSE "publish_qos2"
  BY <1>5, MovedFields
<1>7. \/ /\ queued' = queued /\ inflight' = Append(inflight, ToPublish(m))
      \/ inflight' = inflight /\ queued' = Append(queued, m)
      \/ inflight' = inflight /\ queued' = queued
  BY <1>1, InsertedMessage
<1>8. \A x : (x = ToPublish(m) => InFlight(x)') /\ (x = m => InQueue(x)')
  <2>1. (\A x : x \in Ids' <=> x \in Ids \cup {k}) /\ given'[k].qos = qos
    BY <1>4
  <2> HIDE DEF m, k
  <2> QED
    BY <1>5, <1>6, <2>1 DEF InFlight, InQueue, Fits, StateFits
<1>9. Ids \subseteq Ids' /\ \A j \in Ids : given'[j] = given[j]
  BY <1>4
<1>10. /\ \A p : FitsPacket(p) => FitsPacket(p)'
       /\ \A h : FitsCopy(h) => FitsCopy(h)'
       /\ \A x : InFlight(x) => InFlight(x)'
       /\ \A x : InQueue(x) => InQueue(x)'
  BY <1>9, SameFits
<1> DEFINE y == ToPublish(m)
<1>11. y \in Messages
  BY <1>5, MovedTypes
<1>12. inflight \in Seq(Messages) /\ queued \in Seq(Messages)
  BY <1>1 DEF LineTypes
<1> HIDE DEF y, m
<1>13. /\ Len(inflight) \in Nat /\ Len(Append(inflight, y)) = Len(inflight) + 1
       /\ \A i \in 1..Len(inflight) : Append(inflight, y)[i] = inflight[i]
       /\ Append(inflight, y)[Len(inflight) + 1] = y
  BY <1>11, <1>12, AppendFacts
<1>14. /\ Len(queued) \in Nat /\ Len(Append(queued, m)) = Len(queued) + 1
       /\ \A i \in 1..Len(queued) : Append(queued, m)[i] = queued[i]
       /\ Append(queued, m)[Len(queued) + 1] = m
  BY <1>5, <1>12, AppendFacts
<1>15. \A i \in 1..Len(inflight') :
         \/ i \in 1..Len(inflight) /\ inflight'[i] = inflight[i]
         \/ i = Len(inflight) + 1 /\ inflight'[i] = y /\ queued' = queued
  BY <1>7, <1>13 DEF y
<1>16. \A i \in 1..Len(queued') :
         \/ i \in 1..Len(queued) /\ queued'[i] = queued[i]
         \/ i = Len(queued) + 1 /\ queued'[i] = m /\ inflight' = inflight
  BY <1>7, <1>14
<1>17. y.id = k /\ y.mid = k /\ m.id = k /\ m.mid = k /\ m.state = "queued" /\ ~m.dup
       /\ \A x : (x = y => InFlight(x)') /\ (x = m => InQueue(x)')
  BY <1>5, <1>6, <1>8 DEF y
<1>18. /\ \A i \in 1..Len(inflight) : inflight[i].id # k /\ InFlight(inflight[i])
       /\ \A i \in 1..Len(queued) : queued[i].id # k /\ InQueue(queued[i])
       /\ \A a \in 1..Len(Line) : FitsPacket(Line[a]) /\ Line[a].mid # k
  <2>1. \A a \in 1..Len(Line) : Line[a].mid = 0 \/ Line[a].mid \in Ids
    BY <1>1 DEF FitInv, FitsPacket
  <2>2. k # 0
    BY <1>4
  <2> HIDE DEF k
  <2> QED
    BY <1>1, <1>4, <2>1, <2>2 DEF FitInv, InFlight, InQueue, Fits
<1> HIDE DEF k
<1>19. FitInv'
  <2>1. \A i \in 1..Len(inflight') : InFlight(inflight[i])'
    <3> SUFFICES ASSUME NEW i \in 1..Len(inflight') PROVE InFlight(inflight[i])'
      OBVIOUS
    <3>1. CASE i \in 1..Len(inflight) /\ inflight'[i] = inflight[i]
      <4>1. \A x : x = inflight[i] => InFlight(x)'
        BY <1>10, <1>18, <3>1
      <4> QED
        BY <3>1, <4>1 DEF InFlight, Fits, StateFits
    <3>2. CASE inflight'[i] = y
      BY <1>17, <3>2 DEF InFlight, Fits, StateFits
    <3> QED
      BY <1>15, <3>1, <3>2
  <2>2. \A i \in 1..Len(queued') : InQueue(queued[i])'
    <3> SUFFICES ASSUME NEW i \in 1..Len(queued') PROVE InQueue(queued[i])'
      OBVIOUS
    <3>1. CASE i \in 1..Len(queued) /\ queued'[i] = queued[i]
      <4>1. \A x : x = queued[i] => InQueue(x)'
        BY <1>10, <1>18, <3>1
      <4> QED
        BY <3>1, <4>1 DEF InQueue, Fits
    <3>2. CASE queued'[i] = m
      BY <1>17, <3>2 DEF InQueue, Fits
    <3> QED
      BY <1>16, <3>1, <3>2
  <2>3. \A i \in 1..Len(held') : FitsCopy(held[i])'
    <3>1. \A i \in 1..Len(held) : \A x : x = held[i] => FitsCopy(x)'
      BY <1>1, <1>10 DEF FitInv
    <3> QED
      BY <1>2, <3>1 DEF FitsCopy
  <2>4. \A a \in 1..Len(Line') : FitsPacket(Line[a])'
    <3>1. \A a \in 1..Len(Line) : \A x : x = Line[a] => FitsPacket(x)'
      BY <1>10, <1>18
    <3> QED
      BY <1>3, <3>1 DEF FitsPacket
  <2> QED
    BY <2>1, <2>2, <2>3, <2>4 DEF FitInv
<1>20. Distinct'
  <2>1. /\ \A i, j \in 1..Len(inflight) : inflight[i].id = inflight[j].id => i = j
        /\ \A i, j \in 1..Len(queued) : queued[i].id = queued[j].id => i = j
        /\ \A i \in 1..Len(inflight), j \in 1..Len(queued) : inflight[i].id # queued[j].id
    BY <1>1 DEF Distinct
  <2>2. ASSUME NEW i \in 1..Len(inflight'), NEW j \in 1..Len(inflight'),
               inflight'[i].id = inflight'[j].id
        PROVE  i = j
    BY <1>15, <1>17, <1>18, <2>1, <2>2
  <2>3. ASSUME NEW i \in 1..Len(queued'), NEW j \in 1..Len(queued'),
               queued'[i].id = queued'[j].id
        PROVE  i = j
    BY <1>16, <1>17, <1>18, <2>1, <2>3
  <2>4. ASSUME NEW i \in 1..Len(inflight'), NEW j \in 1..Len(queued')
        PROVE  inflight'[i].id # queued'[j].id
    BY <1>15, <1>16, <1>17, <1>18, <2>1
  <2> QED
    BY <2>2, <2>3, <2>4 DEF Distinct
<1>21. LineInv'
  BY <1>1, <1>2, <1>3 DEF LineInv, OneEach, ConnectLast
<1>22. StateInv'
  BY SMTT(30), <1>1, <1>3, <1>15, <1>16, <1>17, <1>18 DEF StateInv, Answerable
<1> QED
  BY <1>19, <1>20, <1>21, <1>22 DEF ExchangeInv

LEMMA ExchangeStep ==
  ASSUME NoneComesRound, ExchangeInv, [Next]_vars
  PROVE  ExchangeInv'
<1>1. LineTypes'
  BY TypesStep
<1>2. CASE \E qos \in 1..2, expires \in Expiring : Send(qos, expires)
  BY <1>1, <1>2, SendExchange
<1>3. CASE BrokerRead
  <2>1. \A p : ReadsAck(p) => ExchangeInv'
    BY <1>1, AckExchange
  <2> QED
    BY <1>1, <1>3, <2>1, BrokerReadCases, ConnectExchange, QuietExchange, PubrecExchange
<1>4. CASE MessageWrite
  BY <1>1, <1>4, WriteExchange
<1>5. CASE ClientRead
  BY <1>1, <1>5, ReadExchange
<1>6. CASE Connect \/ ClientWrite \/ Break \/ Expire \/ Offline \/ UNCHANGED vars
  BY <1>1, <1>6, QuietExchange
<1> QED
  BY <1>2, <1>3, <1>4, <1>5, <1>6 DEF Next, Broker

-----------------------------------------------------------------------------
(* What has become of message k: where it is in the session, and whether   *)
(* it is marked as sent; its packet, and whether that one is; how often    *)
(* the client has it on its list.                                          *)
Numbered == {"PUBLISH", "PUBACK", "PUBREC", "PUBREL", "PUBCOMP"}
States == Publishing \cup Waiting \cup Releasing
Phase ==
  [k \in Ids |->
     IF \E i \in 1..Len(inflight) : inflight[i].id = k
       THEN inflight[CHOOSE i \in 1..Len(inflight) : inflight[i].id = k].state
       ELSE IF \E i \in 1..Len(queued) : queued[i].id = k THEN "queued" ELSE "none"]
Marked == [k \in Ids |-> \E i \in 1..Len(inflight) : inflight[i].id = k /\ inflight[i].dup]
Token ==
  [k \in Ids |->
     IF \E a \in 1..Len(Line) : Line[a].mid = k
       THEN Line[CHOOSE a \in 1..Len(Line) : Line[a].mid = k].kind ELSE "none"]
Repeat == [k \in Ids |-> \E a \in 1..Len(Line) : Line[a].mid = k /\ Line[a].dup]
Copies == [k \in Ids |-> Cardinality({i \in 1..Len(held) : held[i].id = k})]

InSessionView ==
  /\ \A i \in 1..Len(inflight) :
       /\ inflight[i].id \in Ids /\ inflight[i].mid = inflight[i].id /\ inflight[i].mid # 0
       /\ Phase[inflight[i].id] = inflight[i].state /\ inflight[i].state \in States
       /\ Marked[inflight[i].id] = inflight[i].dup
  /\ \A i \in 1..Len(queued) :
       /\ queued[i].id \in Ids /\ queued[i].mid = queued[i].id /\ queued[i].mid # 0
       /\ Phase[queued[i].id] = "queued" /\ ~Marked[queued[i].id]
  /\ \A k \in Ids :
       \/ \E i \in 1..Len(inflight) : inflight[i].id = k
       \/ /\ \E i \in 1..Len(queued) : queued[i].id = k
          /\ \A i \in 1..Len(inflight) : inflight[i].id # k
       \/ /\ Phase[k] = "none" /\ ~Marked[k]
          /\ \A i \in 1..Len(inflight) : inflight[i].id # k
          /\ \A i \in 1..Len(queued) : queued[i].id # k
OnLineView ==
  /\ \A a \in 1..Len(Line) : Line[a].mid # 0 =>
       /\ Line[a].mid \in Ids /\ Line[a].kind \in Numbered
       /\ Token[Line[a].mid] = Line[a].kind /\ Repeat[Line[a].mid] = Line[a].dup
  /\ \A k \in Ids :
       \/ k # 0 /\ \E a \in 1..Len(Line) : Line[a].mid = k
       \/ /\ Token[k] = "none" /\ ~Repeat[k]
          /\ \A a \in 1..Len(Line) : Line[a].mid # k
(* The parts fit each other, and the QoS of the message. *)
Fitting(k) ==
  /\ Phase[k] \in {"none", "queued"} \cup States /\ Token[k] \in {"none"} \cup Numbered
  /\ Marked[k] \in BOOLEAN /\ Repeat[k] \in BOOLEAN
  /\ Copies[k] \in Nat /\ got[k] \in Nat /\ given[k].qos \in 1..2
  /\ Token[k] \in FirstKinds => Phase[k] \in Waiting \cup {"none"}
  /\ Token[k] \in {"PUBREL", "PUBCOMP"} => Phase[k] \in {"wait_for_pubcomp", "none"}
  /\ given[k].qos = 1 => /\ Token[k] \in {"none", "PUBLISH", "PUBACK"}
                         /\ Phase[k] \in {"none", "queued", "publish_qos1", "wait_for_puback"}
  /\ given[k].qos = 2 => /\ Token[k] # "PUBACK"
                         /\ Phase[k] \notin {"publish_qos1", "wait_for_puback"}
View == InSessionView /\ OnLineView /\ \A k \in Ids : Fitting(k)

LEMMA SessionShown == ExchangeInv => InSessionView
<1> SUFFICES ASSUME ExchangeInv PROVE InSessionView
  OBVIOUS
<1>1. LineTypes /\ FitInv /\ Distinct
  BY DEF ExchangeInv
<1>2. \A i \in 1..Len(inflight) :
        /\ inflight[i] \in Messages /\ inflight[i].id \in Ids
        /\ inflight[i].mid = inflight[i].id /\ inflight[i].mid # 0
  BY <1>1, SessionTypes, SessionIds
<1>3. \A i \in 1..Len(queued) :
        /\ queued[i].id \in Ids /\ queued[i].mid = queued[i].id /\ queued[i].mid # 0
  BY SessionIds
<1>4. ASSUME NEW i \in 1..Len(inflight)
      PROVE  /\ Phase[inflight[i].id] = inflight[i].state /\ inflight[i].state \in States
             /\ Marked[inflight[i].id] = inflight[i].dup
  <2> DEFINE k == inflight[i].id
             j == CHOOSE j \in 1..Len(inflight) : inflight[j].id = k
  <2>1. k \in Ids /\ \E x \in 1..Len(inflight) : inflight[x].id = k
    BY <1>2
  <2>2. j \in 1..Len(inflight) /\ inflight[j].id = k
    BY <2>1
  <2>3. j = i
    BY <1>1, <2>2 DEF Distinct
  <2>4. Phase[k] = inflight[i].state
    BY <2>1, <2>3 DEF Phase
  <2>5. Marked[k] = (\E x \in 1..Len(inflight) : inflight[x].id = k /\ inflight[x].dup)
    BY <2>1 DEF Marked
  <2>6. \A x \in 1..Len(inflight) : inflight[x].id = k => x = i
    BY <1>1 DEF Distinct
  <2>7. inflight[i].dup \in BOOLEAN /\ inflight[i].state \in {"queued"} \cup States
    BY <1>2 DEF Messages, States
  <2>8. inflight[i].state \in States
    <3>1. StateFits(inflight[i]) /\ inflight[i].qos \in 1..2
      BY <1>1, <1>2 DEF FitInv, InFlight, Messages
    <3> QED
      BY <3>1 DEF StateFits, States, Publishing, Waiting, Releasing
  <2>9. Marked[k] = inflight[i].dup
    BY <2>5, <2>6, <2>7
  <2> QED
    BY <2>4, <2>8, <2>9
<1>5. ASSUME NEW k \in Ids, \A i \in 1..Len(inflight) : inflight[i].id # k
      PROVE  /\ ~Marked[k]
             /\ Phase[k] = IF \E i \in 1..Len(queued) : queued[i].id = k THEN "queued" ELSE "none"
  BY <1>5 DEF Phase, Marked
<1>6. ASSUME NEW i \in 1..Len(queued)
      PROVE  Phase[queued[i].id] = "queued" /\ ~Marked[queued[i].id]
  <2>1. \A j \in 1..Len(inflight) : inflight[j].id # queued[i].id
    BY <1>1 DEF Distinct
  <2> QED
    BY <1>3, <1>5, <2>1
<1>7. ASSUME NEW k \in Ids
      PROVE  \/ \E i \in 1..Len(inflight) : inflight[i].id = k
             \/ /\ \E i \in 1..Len(queued) : queued[i].id = k
                /\ \A i \in 1..Len(inflight) : inflight[i].id # k
             \/ /\ Phase[k] = "none" /\ ~Marked[k]
                /\ \A i \in 1..Len(inflight) : inflight[i].id # k
                /\ \A i \in 1..Len(queued) : queued[i].id # k
  BY <1>5
<1> QED
  BY <1>2, <1>3, <1>4, <1>6, <1>7 DEF InSessionView

LEMMA LineShown == ExchangeInv => OnLineView
<1> SUFFICES ASSUME ExchangeInv PROVE OnLineView
  OBVIOUS
<1>1. LineTypes /\ FitInv /\ OneEach /\ LineParts
  BY LineFacts DEF ExchangeInv, LineInv
<1>2. ASSUME NEW a \in 1..Len(Line), Line[a].mid # 0
      PROVE  /\ Line[a].mid \in Ids /\ Line[a].kind \in Numbered
             /\ Token[Line[a].mid] = Line[a].kind /\ Repeat[Line[a].mid] = Line[a].dup
  <2> DEFINE k == Line[a].mid
             b == CHOOSE b \in 1..Len(Line) : Line[b].mid = k
  <2>1. Line[a] \in AnyPacket /\ FitsPacket(Line[a])
    BY <1>1 DEF LineParts, FitInv
  <2>2. k \in Ids /\ Line[a].kind \in Numbered /\ Line[a].dup \in BOOLEAN
    BY <1>2, <2>1 DEF FitsPacket, AnyPacket, Packets, UpKinds, DownKinds, Answers, Numbered
  <2>3. \A x \in 1..Len(Line) : Line[x].mid = k => x = a
    BY <1>1, <1>2 DEF OneEach
  <2>4. b \in 1..Len(Line) /\ Line[b].mid = k
    OBVIOUS
  <2>5. b = a
    BY <2>3, <2>4
  <2>6. Token[k] = Line[a].kind
    BY <2>2, <2>5 DEF Token
  <2>7. Repeat[k] = (\E x \in 1..Len(Line) : Line[x].mid = k /\ Line[x].dup)
    BY <2>2 DEF Repeat
  <2>8. Repeat[k] = Line[a].dup
    BY <2>2, <2>3, <2>7
  <2> QED
    BY <2>2, <2>6, <2>8
<1>3. \A k \in Ids : \/ k # 0 /\ \E a \in 1..Len(Line) : Line[a].mid = k
                     \/ /\ Token[k] = "none" /\ ~Repeat[k]
                        /\ \A a \in 1..Len(Line) : Line[a].mid # k
  BY DEF Token, Repeat, Ids
<1> QED
  BY <1>2, <1>3 DEF OnLineView

LEMMA CopyCount ==
  ASSUME LineTypes, NEW k \in Ids
  PROVE  /\ Copies[k] \in Nat /\ IsFiniteSet({i \in 1..Len(held) : held[i].id = k})
         /\ Copies[k] > 0 <=> Held(k)
<1> DEFINE H == {i \in 1..Len(held) : held[i].id = k}
<1>1. Len(held) \in Nat /\ H \in SUBSET (1..Len(held))
  BY SessionTypes
<1>2. IsFiniteSet(H) /\ Cardinality(H) \in Nat
  BY <1>1, FiniteRange
<1>3. Copies[k] = Cardinality(H)
  BY DEF Copies
<1>4. Cardinality(H) = 0 <=> H = {}
  BY <1>2, FS_EmptySet
<1>5. H = {} <=> ~Held(k)
  BY DEF Held
<1> QED
  BY <1>2, <1>3, <1>4, <1>5

LEMMA ViewFacts == ExchangeInv => View
<1> SUFFICES ASSUME ExchangeInv PROVE View
  OBVIOUS
<1>1. LineTypes /\ FitInv /\ StateInv
  BY DEF ExchangeInv
<1>2. InSessionView /\ OnLineView
  BY SessionShown, LineShown
<1>3. ASSUME NEW k \in Ids PROVE Fitting(k)
  <2>1. /\ Copies[k] \in Nat /\ got[k] \in Nat /\ given[k] \in [qos : 1..2, expires : BOOLEAN]
    BY <1>1, CopyCount, ElementOfSeq DEF LineTypes, Ids
  <2>2. \/ \E i \in 1..Len(inflight) : inflight[i].id = k
        \/ Phase[k] = "queued" /\ \E i \in 1..Len(queued) : queued[i].id = k
        \/ Phase[k] = "none"
    BY <1>2 DEF InSessionView
  <2>3. Marked[k] \in BOOLEAN /\ Repeat[k] \in BOOLEAN
    BY DEF Marked, Repeat
  <2>4. /\ Phase[k] \in {"none", "queued"} \cup States
        /\ given[k].qos = 1 => Phase[k] \in {"none", "queued", "publish_qos1", "wait_for_puback"}
        /\ given[k].qos = 2 => Phase[k] \notin {"publish_qos1", "wait_for_puback"}
    <3>1. CASE \E i \in 1..Len(inflight) : inflight[i].id = k
      <4>1. PICK i \in 1..Len(inflight) : inflight[i].id = k
        BY <3>1
      <4>2. /\ Phase[k] = inflight[i].state /\ inflight[i].state \in States
            /\ inflight[i].qos = given[k].qos /\ StateFits(inflight[i])
        BY <1>1, <1>2, <4>1 DEF InSessionView, FitInv, InFlight, Fits
      <4> QED
        BY <4>2 DEF StateFits, Releasing
    <3>2. CASE Phase[k] \in {"none", "queued"}
      BY <3>2
    <3> QED
      BY <2>2, <3>1, <3>2
  <2>5. \/ \E a \in 1..Len(Line) : Line[a].mid = k /\ k # 0
        \/ Token[k] = "none"
    BY <1>2 DEF OnLineView
  <2>6. /\ Token[k] \in {"none"} \cup Numbered
        /\ given[k].qos = 1 => Token[k] \in {"none", "PUBLISH", "PUBACK"}
        /\ given[k].qos = 2 => Token[k] # "PUBACK"
        /\ Token[k] \in FirstKinds => Phase[k] \in Waiting \cup {"none"}
        /\ Token[k] \in {"PUBREL", "PUBCOMP"} => Phase[k] \in {"wait_for_pubcomp", "none"}
    <3>1. CASE \E a \in 1..Len(Line) : Line[a].mid = k /\ k # 0
      <4>1. PICK a \in 1..Len(Line) : Line[a].mid = k /\ k # 0
        BY <3>1
      <4>2. Token[k] = Line[a].kind /\ Line[a].kind \in Numbered /\ FitsPacket(Line[a])
        BY <1>1, <1>2, <4>1 DEF OnLineView, FitInv
      <4>3. /\ Token[k] = "PUBACK" => given[k].qos = 1
            /\ Token[k] \in {"PUBREC", "PUBREL", "PUBCOMP"} => given[k].qos = 2
        BY <4>1, <4>2 DEF FitsPacket
      <4>4. Phase[k] = "none" \/ Phase[k] \in IF Token[k] \in FirstKinds THEN Waiting
                                                                        ELSE {"wait_for_pubcomp"}
        <5>1. CASE \E i \in 1..Len(inflight) : inflight[i].id = k
          <6>1. PICK i \in 1..Len(inflight) : inflight[i].id = k
            BY <5>1
          <6>2. Answerable(Line[a], inflight[i]) /\ inflight[i].mid = k
                /\ Phase[k] = inflight[i].state
            BY <1>1, <1>2, <6>1 DEF StateInv, InSessionView
          <6> QED
            BY <4>1, <4>2, <6>2 DEF Answerable
        <5>2. CASE \E i \in 1..Len(queued) : queued[i].id = k
          BY <1>1, <1>2, <4>1, <5>2 DEF StateInv, InSessionView
        <5> QED
          BY <2>2, <5>1, <5>2
      <4> QED
        BY <4>2, <4>3, <4>4 DEF Numbered, FirstKinds
    <3>2. CASE Token[k] = "none"
      BY <3>2 DEF FirstKinds
    <3> QED
      BY <2>5, <3>1, <3>2
  <2> QED
    BY <2>1, <2>3, <2>4, <2>6 DEF Fitting
<1> QED
  BY <1>2, <1>3 DEF View

LEMMA ViewAfter == ExchangeInv' => View' /\ LineTypes'
BY ViewFacts, PTL DEF ExchangeInv

(* What a step makes of message k. *)
Stays(k) == Phase'[k] = Phase[k] /\ Marked'[k] = Marked[k]
Advances(k) ==
  \/ Stays(k)
  \/ Phase[k] = "queued" /\ Phase'[k] \in Publishing /\ ~Marked'[k]
KeepsToken(k) == Token'[k] = Token[k] /\ Repeat'[k] = Repeat[k]
KeepsCopies(k) == Copies'[k] = Copies[k] /\ got'[k] = got[k]

LEMMA SameSession ==
  ASSUME given' = given, inflight' = inflight, queued' = queued
  PROVE  \A k \in Ids : Stays(k)
<1>1. Phase' = Phase /\ Marked' = Marked
  BY DEF Phase, Marked, Ids
<1> QED
  BY <1>1 DEF Stays

LEMMA CarriedView ==
  ASSUME ExchangeInv, ExchangeInv', given' = given, NEW l, NEW e, NEW n, Carries(l, e, n),
         \A i \in 1..l : inflight'[i].id = inflight[e[i]].id,
         NEW k \in Ids
  PROVE  \/ \E i \in 1..l :
              /\ e[i] \in 1..Len(inflight) /\ inflight[e[i]].id = k
              /\ Phase[k] = inflight[e[i]].state /\ Marked[k] = inflight[e[i]].dup
              /\ Phase'[k] = inflight'[i].state /\ Marked'[k] = inflight'[i].dup
         \/ Phase[k] = "queued" /\ Advances(k)
         \/ /\ Phase[k] \in States /\ Phase'[k] = "none" /\ ~Marked'[k]
            /\ \E j \in 1..Len(inflight) : inflight[j].id = k /\ \A i \in 1..l : e[i] # j
         \/ Phase[k] = "none" /\ Stays(k)
<1>1. LineTypes /\ LineTypes' /\ View /\ View' /\ Distinct /\ FitInv
  BY ViewFacts, ViewAfter DEF ExchangeInv
<1>2. Ids' = Ids
  BY DEF Ids
<1>3. /\ l \in Nat /\ n \in 0..Len(queued) /\ Len(queued) \in Nat
      /\ Len(inflight') = l + n /\ Len(queued') = Len(queued) - n
      /\ \A i \in 1..l : e[i] \in 1..Len(inflight)
      /\ \A i \in 1..n : inflight'[l + i] = ToPublish(queued[i])
      /\ \A i \in 1..Len(queued') : queued'[i] = queued[n + i]
  BY <1>1, SessionTypes DEF Carries
<1>4. /\ \A i \in 1..Len(inflight) :
           Phase[inflight[i].id] = inflight[i].state /\ inflight[i].state \in States
           /\ Marked[inflight[i].id] = inflight[i].dup
      /\ \A i \in 1..Len(queued) : Phase[queued[i].id] = "queued" /\ ~Marked[queued[i].id]
      /\ \/ \E i \in 1..Len(inflight) : inflight[i].id = k
         \/ \E i \in 1..Len(queued) : queued[i].id = k
         \/ /\ Phase[k] = "none" /\ ~Marked[k]
            /\ \A i \in 1..Len(inflight) : inflight[i].id # k
            /\ \A i \in 1..Len(queued) : queued[i].id # k
  BY <1>1 DEF View, InSessionView
<1>5. /\ \A i \in 1..Len(inflight') :
           Phase'[inflight'[i].id] = inflight'[i].state /\ Marked'[inflight'[i].id] = inflight'[i].dup
      /\ \A i \in 1..Len(queued') : Phase'[queued'[i].id] = "queued" /\ ~Marked'[queued'[i].id]
      /\ \/ \E i \in 1..Len(inflight') : inflight'[i].id = k
         \/ \E i \in 1..Len(queued') : queued'[i].id = k
         \/ Phase'[k] = "none" /\ ~Marked'[k]
  BY <1>1, <1>2 DEF View, InSessionView
<1>6. \A i \in 1..Len(queued) : /\ queued[i] \in Messages /\ ~queued[i].dup
                                /\ ToPublish(queued[i]).id = queued[i].id
                                /\ ToPublish(queued[i]).dup = queued[i].dup
                                /\ ToPublish(queued[i]).state \in Publishing
  BY <1>1, SessionTypes, MovedFields DEF FitInv, InQueue, Publishing
<1>7. \A i \in 1..Len(inflight') :
        \/ i \in 1..l
        \/ i - l \in 1..Len(queued) /\ inflight'[i] = ToPublish(queued[i - l])
  <2> SUFFICES ASSUME NEW i \in 1..Len(inflight'), i \notin 1..l
               PROVE  i - l \in 1..Len(queued) /\ inflight'[i] = ToPublish(queued[i - l])
    OBVIOUS
  <2>1. i - l \in 1..n /\ l + (i - l) = i
    BY <1>3
  <2>2. inflight'[l + (i - l)] = ToPublish(queued[i - l])
    BY <1>3, <2>1
  <2> QED
    BY <1>3, <2>1, <2>2
<1>8. \A i \in 1..Len(queued') : n + i \in 1..Len(queued) /\ queued'[i] = queued[n + i]
  BY <1>3
<1>9. CASE \E j \in 1..Len(inflight) : inflight[j].id = k
  <2>1. PICK j \in 1..Len(inflight) : inflight[j].id = k
    BY <1>9
  <2>2. Phase[k] = inflight[j].state /\ Phase[k] \in States /\ Marked[k] = inflight[j].dup
    BY <1>4, <2>1
  <2>3. CASE \E i \in 1..l : e[i] = j
    <3>1. PICK i \in 1..l : e[i] = j
      BY <2>3
    <3>2. i \in 1..Len(inflight') /\ inflight'[i].id = k /\ e[i] \in 1..Len(inflight)
      BY <1>3, <2>1, <3>1
    <3>3. Phase'[k] = inflight'[i].state /\ Marked'[k] = inflight'[i].dup
      BY <1>5, <3>2
    <3> QED
      BY <2>1, <2>2, <3>1, <3>2, <3>3
  <2>4. CASE \A i \in 1..l : e[i] # j
    <3>1. \A i \in 1..Len(inflight') : inflight'[i].id # k
      <4>1. \A i \in 1..l : inflight'[i].id # k
        <5> SUFFICES ASSUME NEW i \in 1..l, inflight'[i].id = k PROVE FALSE
          OBVIOUS
        <5>1. e[i] \in 1..Len(inflight) /\ e[i] # j /\ inflight[e[i]].id = k
          BY <1>3, <2>4
        <5> QED
          BY <1>1, <2>1, <5>1 DEF Distinct
      <4>2. \A i \in 1..Len(queued) : ToPublish(queued[i]).id # k
        BY <1>1, <1>6, <2>1 DEF Distinct
      <4> QED
        BY <1>7, <4>1, <4>2
    <3>2. \A i \in 1..Len(queued') : queued'[i].id # k
      BY <1>1, <1>8, <2>1 DEF Distinct
    <3>3. Phase'[k] = "none" /\ ~Marked'[k]
      BY <1>5, <3>1, <3>2
    <3> QED
      BY <2>1, <2>2, <2>4, <3>3
  <2> QED
    BY <2>3, <2>4
<1>10. CASE \E i \in 1..Len(queued) : queued[i].id = k
  <2>1. PICK i \in 1..Len(queued) : queued[i].id = k
    BY <1>10
  <2>2. Phase[k] = "queued" /\ ~Marked[k]
    BY <1>4, <2>1
  <2>3. CASE i <= n
    <3>1. i \in 1..n /\ l + i \in 1..Len(inflight')
      BY <1>3, <2>3
    <3>2. inflight'[l + i] = ToPublish(queued[i])
      BY <1>3, <3>1
    <3>3. Phase'[k] \in Publishing /\ ~Marked'[k]
      BY <1>5, <1>6, <2>1, <3>1, <3>2
    <3> QED
      BY <2>2, <3>3 DEF Advances
  <2>4. CASE i > n
    <3>1. i - n \in 1..Len(queued') /\ n + (i - n) = i
      BY <1>3, <2>4
    <3>2. queued'[i - n] = queued[n + (i - n)]
      BY <1>3, <3>1
    <3>3. Phase'[k] = "queued" /\ ~Marked'[k]
      BY <1>5, <2>1, <3>1, <3>2
    <3>4. Marked'[k] = Marked[k]
      BY <1>1, <1>2, <2>2, <3>3 DEF View, Fitting
    <3> QED
      BY <2>2, <3>3, <3>4 DEF Advances, Stays
  <2> QED
    BY <1>3, <2>3, <2>4
<1>11. CASE /\ Phase[k] = "none" /\ ~Marked[k]
            /\ \A i \in 1..Len(inflight) : inflight[i].id # k
            /\ \A i \in 1..Len(queued) : queued[i].id # k
  <2>1. \A i \in 1..Len(inflight') : inflight'[i].id # k
    <3>1. \A i \in 1..l : e[i] \in 1..Len(inflight) /\ inflight'[i].id = inflight[e[i]].id
      BY <1>3
    <3>2. \A i \in 1..l : inflight'[i].id # k
      BY <1>11, <3>1
    <3>3. \A i \in 1..Len(queued) : ToPublish(queued[i]).id # k
      BY <1>6, <1>11
    <3> QED
      BY <1>7, <3>2, <3>3
  <2>2. \A i \in 1..Len(queued') : queued'[i].id # k
    BY <1>8, <1>11
  <2>3. Phase'[k] = "none" /\ ~Marked'[k]
    BY <1>5, <2>1, <2>2
  <2>4. Marked'[k] = Marked[k]
    BY <1>1, <1>2, <1>11, <2>3 DEF View, Fitting
  <2> QED
    BY <1>11, <2>3, <2>4 DEF Stays
<1> QED
  BY <1>4, <1>9, <1>10, <1>11

LEMMA SameLine ==
  ASSUME given' = given, Line' = Line
  PROVE  \A k \in Ids : KeepsToken(k)
<1>1. Token' = Token /\ Repeat' = Repeat
  BY DEF Token, Repeat, Ids
<1> QED
  BY <1>1 DEF KeepsToken

LEMMA SameCopies ==
  ASSUME given' = given, held' = held, got' = got
  PROVE  \A k \in Ids : KeepsCopies(k)
<1>1. Copies' = Copies
  BY DEF Copies, Ids
<1> QED
  BY <1>1 DEF KeepsCopies

(* The packet of message k comes new, or there is none. *)
ComesWith(k, s) ==
  \/ \E i \in 1..Len(s) : s[i].mid = k /\ Token'[k] = s[i].kind /\ Repeat'[k] = s[i].dup
  \/ (\A i \in 1..Len(s) : s[i].mid # k) /\ Token'[k] = "none" /\ ~Repeat'[k]

LEMMA FollowedView ==
  ASSUME ExchangeInv, ExchangeInv', given' = given, NEW gone, NEW c, NEW r, NEW s,
         Follows(gone, c, r, s), c \in 1..Len(Line) => r.mid = Line[c].mid, NEW k \in Ids
  PROVE  \/ \E b \in 1..Len(Line) :
              /\ Line[b].mid = k /\ Token[k] = Line[b].kind
              /\ \/ b \notin gone /\ b # c /\ KeepsToken(k)
                 \/ b \notin gone /\ b = c /\ Token'[k] = r.kind /\ Repeat'[k] = r.dup
                 \/ b \in gone /\ ComesWith(k, s)
         \/ /\ Token[k] = "none" /\ ~Repeat[k] /\ \A b \in 1..Len(Line) : Line[b].mid # k
            /\ ComesWith(k, s)
<1>1. LineTypes /\ View /\ View'
  BY ViewFacts, ViewAfter DEF ExchangeInv
<1>2. Ids' = Ids /\ k # 0
  BY DEF Ids
<1>3. /\ \A a \in 1..Len(Line) : Line[a].mid = k =>
           Token[k] = Line[a].kind /\ Repeat[k] = Line[a].dup
      /\ \/ \E a \in 1..Len(Line) : Line[a].mid = k
         \/ Token[k] = "none" /\ ~Repeat[k] /\ \A a \in 1..Len(Line) : Line[a].mid # k
  BY <1>1, <1>2 DEF View, OnLineView
<1>4. /\ \A a \in 1..Len(Line') : Line'[a].mid = k =>
           Token'[k] = Line'[a].kind /\ Repeat'[k] = Line'[a].dup
      /\ \/ \E a \in 1..Len(Line') : Line'[a].mid = k
         \/ Token'[k] = "none" /\ ~Repeat'[k]
  BY <1>1, <1>2 DEF View, OnLineView
<1>5. /\ \A a \in 1..Len(Line') :
           \/ \E b \in 1..Len(Line) : b \notin gone /\ b # c /\ Line'[a] = Line[b]
           \/ c \in 1..Len(Line) /\ c \notin gone /\ Line'[a] = r
           \/ \E i \in 1..Len(s) : Line'[a] = s[i]
      /\ \A b \in 1..Len(Line) : b \notin gone =>
           \E a \in 1..Len(Line') : Line'[a] = IF b = c THEN r ELSE Line[b]
      /\ \A i \in 1..Len(s) : \E a \in 1..Len(Line') : Line'[a] = s[i]
  BY <1>1, LineMembers
<1>6. \A a, b \in 1..Len(Line) : Line[a].mid = k /\ Line[b].mid = k => a = b
  BY <1>2 DEF ExchangeInv, LineInv, OneEach
<1>7. ASSUME \A b \in 1..Len(Line) : Line[b].mid = k => b \in gone
      PROVE  ComesWith(k, s)
  <2>1. CASE \E i \in 1..Len(s) : s[i].mid = k
    <3>1. PICK i \in 1..Len(s) : s[i].mid = k
      BY <2>1
    <3>2. PICK a \in 1..Len(Line') : Line'[a] = s[i]
      BY <1>5
    <3> QED
      BY <1>4, <3>1, <3>2 DEF ComesWith
  <2>2. CASE \A i \in 1..Len(s) : s[i].mid # k
    <3>1. \A a \in 1..Len(Line') : Line'[a].mid # k
      BY <1>5, <1>7, <2>2
    <3> QED
      BY <1>4, <2>2, <3>1 DEF ComesWith
  <2> QED
    BY <2>1, <2>2
<1>8. CASE \E b \in 1..Len(Line) : Line[b].mid = k
  <2>1. PICK b \in 1..Len(Line) : Line[b].mid = k
    BY <1>8
  <2>2. Token[k] = Line[b].kind /\ Repeat[k] = Line[b].dup
    BY <1>3, <2>1
  <2>3. CASE b \notin gone
    <3>1. PICK a \in 1..Len(Line') : Line'[a] = IF b = c THEN r ELSE Line[b]
      BY <1>5, <2>3
    <3>2. Line'[a].mid = k
      BY <2>1, <3>1
    <3>3. Token'[k] = Line'[a].kind /\ Repeat'[k] = Line'[a].dup
      BY <1>4, <3>2
    <3>4. CASE b = c
      BY <2>1, <2>2, <2>3, <3>1, <3>3, <3>4
    <3>5. CASE b # c
      BY <2>1, <2>2, <2>3, <3>1, <3>3, <3>5 DEF KeepsToken
    <3> QED
      BY <3>4, <3>5
  <2>4. CASE b \in gone
    <3>1. ComesWith(k, s)
      BY <1>6, <1>7, <2>1, <2>4
    <3> QED
      BY <2>1, <2>2, <2>4, <3>1
  <2> QED
    BY <2>3, <2>4
<1>9. CASE \A b \in 1..Len(Line) : Line[b].mid # k
  <2>1. ComesWith(k, s)
    BY <1>7, <1>9
  <2> QED
    BY <1>3, <1>9, <2>1
<1> QED
  BY <1>8, <1>9

(* db__message_write. *)
NotDue(k) == Advances(k) /\ Phase[k] \notin Unsent /\ KeepsToken(k)
Expires(k) ==
  /\ late /\ given[k].expires
  /\ Phase[k] \in States /\ Phase'[k] = "none" /\ ~Marked'[k] /\ k \in dropped' /\ KeepsToken(k)
Publishes(k) ==
  /\ Phase[k] \in Publishing /\ Phase'[k] \in Waiting /\ Marked'[k] /\ Token[k] = "none"
  /\ IF Current THEN Token'[k] = "PUBLISH" /\ Repeat'[k] = Marked[k] ELSE Token'[k] = "none"
Releases(k) ==
  /\ Phase[k] = "resend_pubrel" /\ Phase'[k] = "wait_for_pubcomp" /\ Marked'[k] = Marked[k]
  /\ Token[k] = "none" /\ Token'[k] = IF Current THEN "PUBREL" ELSE "none"

LEMMA WrittenView ==
  ASSUME NoneComesRound, ExchangeInv, ExchangeInv', MessageWrite, NEW k \in Ids
  PROVE  /\ KeepsCopies(k)
         /\ NotDue(k) \/ Expires(k) \/ Publishes(k) \/ Releases(k)
<1>1. LineTypes /\ LineTypes' /\ FitInv /\ View /\ View' /\ Distinct
  BY ViewFacts, ViewAfter DEF ExchangeInv
<1>2. UNCHANGED <<given, held, got>>
  BY DEF MessageWrite, client
<1>3. KeepsCopies(k)
  BY <1>2, SameCopies
<1>4. PICK l, e : /\ Carries(l, e, Lower(out_quota, Len(queued)))
                  /\ KeepsUnlessGone(l, e)
  BY <1>1, WrittenSession
<1>5. PICK pk, f : Writes(pk, f) /\ down' = IF Current THEN down \o pk ELSE down
  BY <1>1, WrittenSession
<1> DEFINE s == IF Current THEN pk ELSE <<>>
<1>6. Follows({}, 0, 0, s)
  BY <1>1, <1>5, WriteLine
<1>7. /\ Len(pk) \in Nat /\ Len(<<>>) = 0
      /\ \A i \in 1..Len(pk) : Due(f[i]) /\ pk[i] = Packet(inflight[f[i]])
      /\ \A j : Due(j) => \E i \in 1..Len(pk) : f[i] = j
  BY <1>5, LenProperties DEF Writes
<1>8. (Current => s = pk) /\ (~Current => Len(s) = 0)
  BY <1>7
<1> HIDE DEF s
<1>9. \A j \in 1..Len(inflight) : inflight[j] \in Messages /\ InFlight(inflight[j])
  BY <1>1, SessionTypes DEF FitInv
<1>10. \A i \in 1..l : /\ e[i] \in 1..Len(inflight) /\ inflight'[i] = Sent(inflight[e[i]])
                       /\ ~Gone(inflight[e[i]]) /\ inflight'[i].id = inflight[e[i]].id
  <2>1. \A i \in 1..l : /\ e[i] \in 1..Len(inflight) /\ inflight'[i] = Sent(inflight[e[i]])
                        /\ ~Gone(inflight[e[i]])
    BY <1>4 DEF Carries, KeepsUnlessGone
  <2> QED
    BY <1>9, <2>1, MovedFields
<1>11. ASSUME NEW y \in 1..Len(s), s[y].mid = k
       PROVE  /\ Current /\ Due(f[y]) /\ f[y] \in 1..Len(inflight) /\ inflight[f[y]].id = k
              /\ s[y] = Packet(inflight[f[y]]) /\ ~Gone(inflight[f[y]])
              /\ inflight[f[y]].state \in Unsent
  <2>1. Current /\ s = pk
    BY <1>8
  <2>2. Due(f[y]) /\ s[y] = Packet(inflight[f[y]])
    BY <1>7, <2>1
  <2>3. f[y] \in 1..Len(inflight) /\ ~Gone(inflight[f[y]]) /\ inflight[f[y]].state \in Unsent
    BY <2>2 DEF Due
  <2>4. inflight[f[y]].mid = k /\ inflight[f[y]].id = k
    BY <1>9, <1>11, <2>2, <2>3, SentStates DEF InFlight, Fits
  <2> QED
    BY <2>1, <2>2, <2>3, <2>4
<1>12. \/ KeepsToken(k)
       \/ Token[k] = "none" /\ ~Repeat[k] /\ ComesWith(k, s)
  <2>1. Len(Line) \in Nat /\ 0 \notin 1..Len(Line)
    BY <1>1, LineFacts DEF LineParts
  <2> QED
    BY <1>2, <1>6, <2>1, FollowedView
<1>13. ASSUME \A y \in 1..Len(s) : s[y].mid # k PROVE KeepsToken(k)
  <2>1. Repeat[k] \in BOOLEAN /\ Repeat'[k] \in BOOLEAN
    <3>1. Ids' = Ids
      BY <1>2 DEF Ids
    <3> QED
      BY <1>1, <3>1 DEF View, Fitting
  <2> QED
    BY <1>12, <1>13, <2>1 DEF ComesWith, KeepsToken
<1>14. Fitting(k)
  BY <1>1 DEF View
<1>15. \A i, j \in 1..Len(inflight) : inflight[i].id = inflight[j].id => i = j
  BY <1>1 DEF Distinct
<1>16. \A i \in 1..Len(inflight) : Phase[inflight[i].id] = inflight[i].state
  BY <1>1 DEF View, InSessionView
<1> DEFINE n == Lower(out_quota, Len(queued))
<1>17. Carries(l, e, n)
  BY <1>4
<1> HIDE DEF n
<1>18. \/ \E i \in 1..l :
            /\ e[i] \in 1..Len(inflight) /\ inflight[e[i]].id = k
            /\ Phase[k] = inflight[e[i]].state /\ Marked[k] = inflight[e[i]].dup
            /\ Phase'[k] = inflight'[i].state /\ Marked'[k] = inflight'[i].dup
       \/ Phase[k] = "queued" /\ Advances(k)
       \/ /\ Phase[k] \in States /\ Phase'[k] = "none" /\ ~Marked'[k]
          /\ \E j \in 1..Len(inflight) : inflight[j].id = k /\ \A i \in 1..l : e[i] # j
       \/ Phase[k] = "none" /\ Stays(k)
  BY <1>2, <1>10, <1>17, CarriedView
<1>19. CASE \E i \in 1..l :
              /\ e[i] \in 1..Len(inflight) /\ inflight[e[i]].id = k
              /\ Phase[k] = inflight[e[i]].state /\ Marked[k] = inflight[e[i]].dup
              /\ Phase'[k] = inflight'[i].state /\ Marked'[k] = inflight'[i].dup
  <2>1. PICK i \in 1..l :
          /\ e[i] \in 1..Len(inflight) /\ inflight[e[i]].id = k
          /\ Phase[k] = inflight[e[i]].state /\ Marked[k] = inflight[e[i]].dup
          /\ Phase'[k] = inflight'[i].state /\ Marked'[k] = inflight'[i].dup
    BY <1>19
  <2> DEFINE m == inflight[e[i]]
  <2>2. /\ m \in Messages /\ InFlight(m) /\ inflight'[i] = Sent(m) /\ ~Gone(m) /\ m.id = k
        /\ Phase[k] = m.state /\ Marked[k] = m.dup /\ m.mid = m.id
    BY <1>9, <1>10, <2>1 DEF InFlight, Fits
  <2>3. \A y \in 1..Len(s) : s[y].mid = k =>
          s[y] = Packet(m) /\ m.state \in Unsent /\ Current
    <3> SUFFICES ASSUME NEW y \in 1..Len(s), s[y].mid = k
                 PROVE  s[y] = Packet(m) /\ m.state \in Unsent /\ Current
      OBVIOUS
    <3>1. f[y] = e[i]
      BY <1>11, <1>15, <2>1
    <3> QED
      BY <1>11, <3>1
  <2>4. Due(e[i]) <=> m.state \in Unsent
    BY <2>1, <2>2 DEF Due
  <2>5. m.state \in Unsent /\ Current => \E y \in 1..Len(s) : s[y].mid = k
    <3> SUFFICES ASSUME m.state \in Unsent, Current PROVE \E y \in 1..Len(s) : s[y].mid = k
      OBVIOUS
    <3>1. PICK y \in 1..Len(pk) : f[y] = e[i]
      BY <1>7, <2>4
    <3>2. s = pk /\ pk[y] = Packet(m)
      BY <1>7, <1>8, <3>1
    <3>3. Packet(m).mid = k
      BY <2>2, SentStates
    <3> QED
      BY <3>1, <3>2, <3>3
  <2> HIDE DEF m
  <2>6. CASE m.state \notin Unsent
    <3>1. Sent(m) = m
      BY <2>2, <2>6, SentStates
    <3>2. Stays(k)
      BY <2>1, <2>2, <3>1 DEF Stays
    <3>3. KeepsToken(k)
      BY <1>13, <2>3, <2>6
    <3> QED
      BY <1>3, <2>2, <2>6, <3>2, <3>3 DEF NotDue, Advances
  <2>7. CASE m.state \in Unsent
    <3>1. Token[k] = "none"
      BY <1>14, <2>2, <2>7
      DEF Fitting, Unsent, Waiting, Publishing, Numbered, FirstKinds
    <3>2. \/ Current /\ Token'[k] = Packet(m).kind /\ Repeat'[k] = Packet(m).dup
          \/ ~Current /\ Token'[k] = "none"
      <4>1. CASE Current
        <5>1. \E y \in 1..Len(s) : s[y].mid = k
          BY <2>5, <2>7, <4>1
        <5>2. \/ \E y \in 1..Len(s) :
                   s[y].mid = k /\ Token'[k] = s[y].kind /\ Repeat'[k] = s[y].dup
              \/ KeepsToken(k)
          BY <1>12, <5>1 DEF ComesWith
        <5>3. ~KeepsToken(k)
          <6>1. PICK y \in 1..Len(s) : s[y].mid = k
            BY <5>1
          <6>2. PICK a \in 1..Len(Line') : Line'[a] = s[y]
            BY <1>1, <1>6, LineMembers
          <6>3. Line'[a].mid = k /\ k # 0 /\ Ids' = Ids
            BY <1>2, <6>1, <6>2 DEF Ids
          <6>4. Token'[k] \in Numbered
            BY <1>1, <6>3 DEF View, OnLineView
          <6> QED
            BY <3>1, <6>4 DEF KeepsToken, Numbered
        <5> QED
          BY <2>3, <4>1, <5>2, <5>3
      <4>2. CASE ~Current
        <5>1. KeepsToken(k)
          BY <1>13, <2>3, <4>2
        <5> QED
          BY <3>1, <4>2, <5>1 DEF KeepsToken
      <4> QED
        BY <4>1, <4>2
    <3>3. CASE m.state = "resend_pubrel"
      <4>1. Sent(m).state = "wait_for_pubcomp" /\ Sent(m).dup = m.dup /\ Packet(m).kind = "PUBREL"
        BY <2>2, <3>3, SentStates
      <4>2. Releases(k)
        BY <2>1, <2>2, <3>1, <3>2, <3>3, <4>1 DEF Releases
      <4> QED
        BY <1>3, <4>2
    <3>4. CASE m.state \in Publishing
      <4>1. /\ Sent(m).state \in Waiting /\ Sent(m).dup /\ Packet(m).kind = "PUBLISH"
            /\ Packet(m).dup = m.dup
        BY <2>2, <3>4, SentStates DEF Publishing, Waiting
      <4>2. Publishes(k)
        BY <2>1, <2>2, <3>1, <3>2, <3>4, <4>1 DEF Publishes
      <4> QED
        BY <1>3, <4>2
    <3> QED
      BY <2>7, <3>3, <3>4 DEF Unsent, Publishing
  <2> QED
    BY <2>6, <2>7
<1>20. CASE Phase[k] \in {"queued", "none"} /\ Advances(k)
  <2>1. Phase[k] \notin Unsent
    BY <1>20 DEF Unsent
  <2>2. KeepsToken(k)
    BY <1>11, <1>13, <1>16, <2>1
  <2> QED
    BY <1>3, <1>20, <2>1, <2>2 DEF NotDue
<1>21. CASE /\ Phase[k] \in States /\ Phase'[k] = "none" /\ ~Marked'[k]
            /\ \E j \in 1..Len(inflight) : inflight[j].id = k /\ \A i \in 1..l : e[i] # j
  <2>1. PICK j \in 1..Len(inflight) : inflight[j].id = k /\ \A i \in 1..l : e[i] # j
    BY <1>21
  <2>2. Gone(inflight[j])
    BY <1>4, <2>1 DEF KeepsUnlessGone
  <2>3. late /\ given[k].expires
    BY <2>1, <2>2 DEF Gone
  <2>4. k \in dropped'
    <3>1. dropped' = dropped \cup {inflight[i].id : i \in
                                      {x \in 1..Len(inflight) : Gone(inflight[x])}}
      BY DEF MessageWrite
    <3> QED
      BY <2>1, <2>2, <3>1
  <2>5. KeepsToken(k)
    <3>1. \A y \in 1..Len(s) : s[y].mid # k
      BY <1>11, <1>15, <2>1, <2>2
    <3> QED
      BY <1>13, <3>1
  <2> QED
    BY <1>3, <1>21, <2>3, <2>4, <2>5 DEF Expires
<1> QED
  BY <1>18, <1>19, <1>20, <1>21 DEF Advances

(* connect__on_authorised. *)
Resumes(k) ==
  \/ Phase[k] \in {"none", "queued"} /\ Advances(k)
  \/ Phase[k] = "wait_for_pubcomp" /\ Phase'[k] = "resend_pubrel" /\ Marked'[k] = Marked[k]
  \/ /\ Phase[k] \in Publishing \cup Waiting \cup {"resend_pubrel"}
     /\ Phase'[k] \in Publishing /\ Marked'[k] = Marked[k]

LEMMA ConnectView ==
  ASSUME NoneComesRound, ExchangeInv, ExchangeInv', ReadsConnect, NEW k \in Ids
  PROVE  KeepsCopies(k) /\ Resumes(k) /\ Token[k] = "none" /\ Token'[k] = "none"
<1>1. LineTypes /\ LineTypes' /\ FitInv /\ View /\ View'
  BY ViewFacts, ViewAfter DEF ExchangeInv
<1>2. UNCHANGED <<given, held, got, sock>> /\ up # <<>> /\ HandleConnect
  BY DEF ReadsConnect, client
<1>3. KeepsCopies(k)
  BY <1>2, SameCopies
<1>4. \A b \in 1..Len(Line) : Line[b].mid = 0
  BY <1>1, ConnectExchange
<1> DEFINE s == IF sock = "none" THEN <<>> ELSE <<Ack("CONNACK", 0)>>
           n == Lower(MaxInflight, Len(queued))
<1>5. Follows({1}, 0, 0, s)
  BY <1>1, ConnectLine
<1>6. \A i \in 1..Len(s) : s[i] = Ack("CONNACK", 0)
  OBVIOUS
<1> HIDE DEF s
<1>7. \A i \in 1..Len(s) : s[i].mid = 0
  BY <1>6 DEF Ack, Pkt
<1>8. PICK e : /\ Carries(Len(inflight), e, n)
               /\ \A i \in 1..Len(inflight) : e[i] = i /\ inflight'[i] = Resumed(inflight[i])
  BY <1>1, <1>2, ResumedSession DEF ResumesAll
<1> HIDE DEF n
<1>9. Ids' = Ids /\ k # 0
  BY <1>2 DEF Ids
<1>10. Token[k] = "none" /\ Token'[k] = "none"
  <2>1. \A a \in 1..Len(Line') : Line'[a].mid = 0
    <3>1. Len(Line) \in Nat /\ 0 \notin 1..Len(Line)
      BY <1>1, LineFacts DEF LineParts
    <3>2. \A a \in 1..Len(Line') :
            \/ \E b \in 1..Len(Line) : b \notin {1} /\ b # 0 /\ Line'[a] = Line[b]
            \/ 0 \in 1..Len(Line) /\ 0 \notin {1} /\ Line'[a] = 0
            \/ \E i \in 1..Len(s) : Line'[a] = s[i]
      BY <1>1, <1>5, LineMembers
    <3> QED
      BY <1>4, <1>7, <3>1, <3>2
  <2> QED
    BY <1>1, <1>4, <1>9, <2>1 DEF View, OnLineView
<1>11. \A i \in 1..Len(inflight) : /\ inflight[i] \in Messages /\ InFlight(inflight[i])
                                   /\ inflight'[i] = Resumed(inflight[i])
  BY <1>1, <1>8, SessionTypes DEF FitInv
<1>12. \A i \in 1..Len(inflight) : inflight'[i].id = inflight[e[i]].id
  BY <1>8, <1>11, MovedFields
<1>13. \/ \E i \in 1..Len(inflight) :
            /\ e[i] \in 1..Len(inflight) /\ inflight[e[i]].id = k
            /\ Phase[k] = inflight[e[i]].state /\ Marked[k] = inflight[e[i]].dup
            /\ Phase'[k] = inflight'[i].state /\ Marked'[k] = inflight'[i].dup
       \/ Phase[k] = "queued" /\ Advances(k)
       \/ /\ Phase[k] \in States /\ Phase'[k] = "none" /\ ~Marked'[k]
          /\ \E j \in 1..Len(inflight) : inflight[j].id = k /\ \A i \in 1..Len(inflight) : e[i] # j
       \/ Phase[k] = "none" /\ Stays(k)
  BY <1>2, <1>8, <1>12, CarriedView
<1>14. Resumes(k)
  <2>1. CASE \E i \in 1..Len(inflight) :
               /\ e[i] \in 1..Len(inflight) /\ inflight[e[i]].id = k
               /\ Phase[k] = inflight[e[i]].state /\ Marked[k] = inflight[e[i]].dup
               /\ Phase'[k] = inflight'[i].state /\ Marked'[k] = inflight'[i].dup
    <3>1. PICK i \in 1..Len(inflight) :
            /\ Phase[k] = inflight[e[i]].state /\ Marked[k] = inflight[e[i]].dup
            /\ Phase'[k] = inflight'[i].state /\ Marked'[k] = inflight'[i].dup
      BY <2>1
    <3> DEFINE m == inflight[i]
    <3>2. /\ m \in Messages /\ InFlight(m) /\ Phase[k] = m.state /\ Marked[k] = m.dup
          /\ Phase'[k] = Resumed(m).state /\ Marked'[k] = Resumed(m).dup /\ m.state \in States
      BY <1>1, <1>8, <1>11, <3>1 DEF View, InSessionView
    <3> HIDE DEF m
    <3> QED
      BY <3>2, MovedFields, ResumedStates
      DEF Resumes, States, Publishing, Waiting, Releasing
  <2>2. ~(\E j \in 1..Len(inflight) : inflight[j].id = k /\ \A i \in 1..Len(inflight) : e[i] # j)
    BY <1>8
  <2> QED
    BY <1>13, <2>1, <2>2 DEF Resumes, Advances
<1> QED
  BY <1>3, <1>10, <1>14

(* db__message_delete_outgoing. *)
Ends(k, kinds) == Token[k] \in kinds /\ Token'[k] = "none" /\ Phase'[k] = "none" /\ ~Marked'[k]

LEMMA AckView ==
  ASSUME NoneComesRound, ExchangeInv, ExchangeInv', ReadsAck(Head(up)), NEW k \in Ids
  PROVE  /\ KeepsCopies(k)
         /\ IF k = Head(up).mid THEN Ends(k, {"PUBACK", "PUBCOMP"})
                                ELSE Advances(k) /\ KeepsToken(k)
<1>1. LineTypes /\ LineTypes' /\ FitInv /\ View /\ View' /\ StateInv
  BY ViewFacts, ViewAfter DEF ExchangeInv
<1> DEFINE p == Head(up)
<1>2. /\ UNCHANGED <<given, held, got, sock>> /\ up # <<>> /\ p.kind \in {"PUBACK", "PUBCOMP"}
      /\ inflight' = Without(inflight, p.mid)
                       \o Map(ToPublish, SubSeq(queued, 1, Lower(Len(queued), FreePlaces(p.mid))))
      /\ queued' = SubSeq(queued, Lower(Len(queued), FreePlaces(p.mid)) + 1, Len(queued))
  BY DEF ReadsAck, Deletes, client
<1>3. KeepsCopies(k)
  BY <1>2, SameCopies
<1>4. p = Line[1] /\ 1 \in 1..Len(Line) /\ p \in Packets(UpKinds)
  BY <1>1, <1>2, BrokerReads
<1>5. Follows({1}, 0, 0, <<>>)
  BY <1>1, AckLine
<1> HIDE DEF p
<1> DEFINE l == Len(Without(inflight, p.mid))
           n == Lower(Len(queued), FreePlaces(p.mid))
<1>6. PICK e : Carries(l, e, n) /\ RemainsBut(l, e, p.mid)
  BY <1>1, <1>2, DeletedSession
<1> HIDE DEF l, n
<1>7. \A i \in 1..l : /\ e[i] \in 1..Len(inflight) /\ inflight'[i] = inflight[e[i]]
                      /\ inflight[e[i]].mid # p.mid
  BY <1>6 DEF RemainsBut, Carries
<1>8. \A i \in 1..l : inflight'[i].id = inflight[e[i]].id
  BY <1>7
<1>9. \/ \E i \in 1..l :
           /\ e[i] \in 1..Len(inflight) /\ inflight[e[i]].id = k
           /\ Phase[k] = inflight[e[i]].state /\ Marked[k] = inflight[e[i]].dup
           /\ Phase'[k] = inflight'[i].state /\ Marked'[k] = inflight'[i].dup
      \/ Phase[k] = "queued" /\ Advances(k)
      \/ /\ Phase[k] \in States /\ Phase'[k] = "none" /\ ~Marked'[k]
         /\ \E j \in 1..Len(inflight) : inflight[j].id = k /\ \A i \in 1..l : e[i] # j
      \/ Phase[k] = "none" /\ Stays(k)
  <2>1. given' = given /\ Carries(l, e, n)
    BY <1>2, <1>6
  <2> QED
    BY <1>8, <2>1, CarriedView
<1>10. /\ \A i \in 1..Len(inflight) : inflight[i].mid = inflight[i].id
       /\ \A i \in 1..Len(queued) : queued[i].mid = queued[i].id /\ queued[i].mid # p.mid
       /\ Fitting(k)
       /\ \/ \E i \in 1..Len(inflight) : inflight[i].id = k
          \/ \E i \in 1..Len(queued) : queued[i].id = k
          \/ Phase[k] = "none" /\ ~Marked[k]
  BY <1>1, <1>4 DEF View, InSessionView, StateInv
<1>11. Len(<<>>) = 0 /\ Len(Line) \in Nat /\ 0 \notin 1..Len(Line)
  BY <1>1, LineFacts DEF LineParts
<1>12. \/ \E b \in 1..Len(Line) :
            /\ Line[b].mid = k /\ Token[k] = Line[b].kind
            /\ \/ b \notin {1} /\ KeepsToken(k)
               \/ b \in {1} /\ ComesWith(k, <<>>)
       \/ /\ Token[k] = "none" /\ ~Repeat[k] /\ \A b \in 1..Len(Line) : Line[b].mid # k
          /\ ComesWith(k, <<>>)
  BY <1>2, <1>5, <1>11, FollowedView
<1>13. ComesWith(k, <<>>) => Token'[k] = "none" /\ ~Repeat'[k]
  BY <1>11 DEF ComesWith
<1>14. Ids' = Ids /\ k # 0
  BY <1>2 DEF Ids
<1>15. Repeat[k] \in BOOLEAN /\ Repeat'[k] \in BOOLEAN /\ Marked[k] \in BOOLEAN /\ Marked'[k] \in BOOLEAN
  BY <1>1, <1>14 DEF View, Fitting
<1>16. CASE k = p.mid
  <2>1. \A b \in 1..Len(Line) : Line[b].mid = k => b = 1
    BY <1>4, <1>14, <1>16 DEF ExchangeInv, LineInv, OneEach
  <2>2. Token[k] \in {"PUBACK", "PUBCOMP"} /\ Token'[k] = "none"
    BY <1>2, <1>4, <1>12, <1>13, <1>16, <2>1
  <2>3. ~(\E i \in 1..l : e[i] \in 1..Len(inflight) /\ inflight[e[i]].id = k)
    BY <1>7, <1>10, <1>16
  <2>4. Phase[k] # "queued"
    BY <1>10, <2>2 DEF Fitting, FirstKinds, Waiting
  <2>5. Phase'[k] = "none" /\ ~Marked'[k]
    <3>1. CASE Phase[k] = "none" /\ Stays(k)
      <4>1. ~Marked[k]
        <5>1. \A i \in 1..Len(inflight) : inflight[i].id = k => inflight[i].state # "none"
          BY <1>1 DEF View, InSessionView, States, Publishing, Waiting, Releasing
        <5>2. ~(\E i \in 1..Len(inflight) : inflight[i].id = k)
          BY <1>1, <3>1, <5>1 DEF View, InSessionView
        <5> QED
          BY <1>10, <1>16, <5>2
      <4> QED
        BY <1>15, <3>1, <4>1 DEF Stays
    <3> QED
      BY <1>9, <2>3, <2>4, <3>1
  <2> QED
    BY <1>3, <1>16, <2>2, <2>5 DEF Ends, p
<1>17. CASE k # p.mid
  <2>1. KeepsToken(k)
    BY <1>4, <1>12, <1>13, <1>15, <1>17 DEF KeepsToken
  <2>2. Advances(k)
    <3>1. CASE \E i \in 1..l :
                 /\ e[i] \in 1..Len(inflight) /\ inflight[e[i]].id = k
                 /\ Phase[k] = inflight[e[i]].state /\ Marked[k] = inflight[e[i]].dup
                 /\ Phase'[k] = inflight'[i].state /\ Marked'[k] = inflight'[i].dup
      BY <1>7, <3>1 DEF Advances, Stays
    <3>2. ~(\E j \in 1..Len(inflight) : inflight[j].id = k /\ \A i \in 1..l : e[i] # j)
      BY <1>6, <1>10, <1>17 DEF RemainsBut
    <3> QED
      BY <1>9, <3>1, <3>2 DEF Advances
  <2> QED
    BY <1>3, <1>17, <2>1, <2>2 DEF p
<1> QED
  BY <1>16, <1>17

(* handle__pubrec. *)
Answers2(k) ==
  /\ Token[k] = "PUBREC" /\ Token'[k] = IF Current THEN "PUBREL" ELSE "none"
  /\ Phase'[k] = IF Phase[k] = "none" THEN "none" ELSE "wait_for_pubcomp"
  /\ Marked'[k] = Marked[k]

LEMMA PubrecView ==
  ASSUME NoneComesRound, ExchangeInv, ExchangeInv', ReadsPubrec(Head(up)), NEW k \in Ids
  PROVE  /\ KeepsCopies(k)
         /\ IF k = Head(up).mid THEN Answers2(k) ELSE Stays(k) /\ KeepsToken(k)
<1>1. LineTypes /\ LineTypes' /\ FitInv /\ View /\ View' /\ StateInv
  BY ViewFacts, ViewAfter DEF ExchangeInv
<1> DEFINE p == Head(up)
<1>2. /\ UNCHANGED <<given, held, got, sock, queued>> /\ up # <<>> /\ p.kind = "PUBREC"
      /\ inflight' = [i \in 1..Len(inflight) |->
           IF i \in At(inflight, p.mid) THEN [inflight[i] EXCEPT !.state = "wait_for_pubcomp"]
                                        ELSE inflight[i]]
      /\ ReadsPubrec(p)
  BY DEF ReadsPubrec, client
<1>3. KeepsCopies(k)
  BY <1>2, SameCopies
<1>4. p = Line[1] /\ 1 \in 1..Len(Line) /\ p \in Packets(UpKinds)
  BY <1>1, <1>2, BrokerReads
<1> HIDE DEF p
<1> DEFINE s == IF Current THEN <<Ack("PUBREL", p.mid)>> ELSE <<>>
<1>5. Follows({1}, 0, 0, s)
  BY <1>1, <1>2, <1>4, PubrecLine
<1>6. /\ Current => Len(s) = 1 /\ s[1] = Ack("PUBREL", p.mid)
      /\ ~Current => Len(s) = 0
  OBVIOUS
<1> HIDE DEF s
<1>7. Ack("PUBREL", p.mid).mid = p.mid /\ Ack("PUBREL", p.mid).kind = "PUBREL"
  BY DEF Ack, Pkt
<1>8. Len(Line) \in Nat /\ 0 \notin 1..Len(Line)
  BY <1>1, LineFacts DEF LineParts
<1>9. \/ \E b \in 1..Len(Line) :
           /\ Line[b].mid = k /\ Token[k] = Line[b].kind
           /\ \/ b \notin {1} /\ KeepsToken(k)
              \/ b \in {1} /\ ComesWith(k, s)
      \/ /\ Token[k] = "none" /\ ~Repeat[k] /\ \A b \in 1..Len(Line) : Line[b].mid # k
         /\ ComesWith(k, s)
  BY <1>2, <1>5, <1>8, FollowedView
<1>10. Ids' = Ids /\ k # 0
  BY <1>2 DEF Ids
<1>11. Repeat[k] \in BOOLEAN /\ Repeat'[k] \in BOOLEAN /\ Marked[k] \in BOOLEAN /\ Marked'[k] \in BOOLEAN
  BY <1>1, <1>10 DEF View, Fitting
<1>12. /\ Len(inflight) \in Nat /\ Len(inflight') = Len(inflight)
       /\ \A i \in 1..Len(inflight) :
            /\ inflight[i] \in Messages
            /\ inflight'[i] = IF inflight[i].mid = p.mid
                                THEN [inflight[i] EXCEPT !.state = "wait_for_pubcomp"]
                                ELSE inflight[i]
  BY <1>1, <1>2, SessionTypes DEF At
<1>13. \A i \in 1..Len(inflight) :
         /\ inflight'[i].id = inflight[i].id /\ inflight'[i].dup = inflight[i].dup
         /\ inflight'[i].state = IF inflight[i].mid = p.mid THEN "wait_for_pubcomp"
                                                            ELSE inflight[i].state
         /\ inflight[i].mid = inflight[i].id
         /\ Phase[inflight[i].id] = inflight[i].state /\ Marked[inflight[i].id] = inflight[i].dup
         /\ Phase'[inflight[i].id] = inflight'[i].state /\ Marked'[inflight[i].id] = inflight'[i].dup
         /\ inflight[i].state # "none"
  <2> SUFFICES ASSUME NEW i \in 1..Len(inflight)
               PROVE  /\ inflight'[i].id = inflight[i].id /\ inflight'[i].dup = inflight[i].dup
                      /\ inflight'[i].state = IF inflight[i].mid = p.mid THEN "wait_for_pubcomp"
                                                                         ELSE inflight[i].state
                      /\ inflight[i].mid = inflight[i].id
                      /\ Phase[inflight[i].id] = inflight[i].state
                      /\ Marked[inflight[i].id] = inflight[i].dup
                      /\ Phase'[inflight[i].id] = inflight'[i].state
                      /\ Marked'[inflight[i].id] = inflight'[i].dup
                      /\ inflight[i].state # "none"
    OBVIOUS
  <2>1. /\ inflight'[i].id = inflight[i].id /\ inflight'[i].dup = inflight[i].dup
        /\ inflight'[i].state = IF inflight[i].mid = p.mid THEN "wait_for_pubcomp"
                                                           ELSE inflight[i].state
    BY <1>12 DEF Messages
  <2>2. /\ inflight[i].mid = inflight[i].id
        /\ Phase[inflight[i].id] = inflight[i].state /\ Marked[inflight[i].id] = inflight[i].dup
        /\ inflight[i].state # "none"
    BY <1>1 DEF View, InSessionView, States, Publishing, Waiting, Releasing
  <2>3. i \in 1..Len(inflight')
    BY <1>12
  <2>4. Phase'[inflight'[i].id] = inflight'[i].state /\ Marked'[inflight'[i].id] = inflight'[i].dup
    BY <1>1, <2>3 DEF View, InSessionView
  <2> QED
    BY <2>1, <2>2, <2>4
<1>14. ASSUME \A i \in 1..Len(inflight) : inflight[i].id # k
       PROVE  Stays(k)
  <2>1. \A i \in 1..Len(inflight') : inflight'[i].id # k
    BY <1>12, <1>13, <1>14
  <2>2. CASE \E i \in 1..Len(queued) : queued[i].id = k
    <3>1. Phase[k] = "queued" /\ Phase'[k] = "queued" /\ ~Marked[k] /\ ~Marked'[k]
      BY <1>1, <1>2, <2>2 DEF View, InSessionView
    <3> QED
      BY <1>11, <3>1 DEF Stays
  <2>3. CASE \A i \in 1..Len(queued) : queued[i].id # k
    <3>1. Phase[k] = "none" /\ ~Marked[k]
      BY <1>1, <1>14, <2>3 DEF View, InSessionView
    <3>2. Phase'[k] = "none" /\ ~Marked'[k]
      <4>1. \A i \in 1..Len(queued') : queued'[i].id # k
        <5>1. queued' = queued
          BY <1>2
        <5> QED
          BY <2>3, <5>1
      <4>2. k \in Ids'
        BY <1>10
      <4>3. InSessionView'
        BY <1>1 DEF View
      <4> QED
        BY <2>1, <4>1, <4>2, <4>3 DEF InSessionView
    <3> QED
      BY <1>11, <3>1, <3>2 DEF Stays
  <2> QED
    BY <2>2, <2>3
<1>15. CASE k = p.mid
  <2>1. \A b \in 1..Len(Line) : Line[b].mid = k => b = 1
    BY <1>4, <1>10, <1>15 DEF ExchangeInv, LineInv, OneEach
  <2>2. Token[k] = "PUBREC" /\ ComesWith(k, s)
    BY <1>2, <1>4, <1>9, <1>15, <2>1
  <2>3. Token'[k] = IF Current THEN "PUBREL" ELSE "none"
    BY <1>6, <1>7, <1>15, <2>2 DEF ComesWith
  <2>4. /\ Phase'[k] = IF Phase[k] = "none" THEN "none" ELSE "wait_for_pubcomp"
        /\ Marked'[k] = Marked[k]
    <3>1. CASE \E i \in 1..Len(inflight) : inflight[i].id = k
      BY <1>13, <1>15, <3>1
    <3>2. CASE \A i \in 1..Len(inflight) : inflight[i].id # k
      <4>1. Stays(k)
        BY <1>14, <3>2
      <4>2. Phase[k] = "none"
        <5>1. \A i \in 1..Len(queued) : queued[i].id # k
          BY <1>1, <1>4, <1>15 DEF View, InSessionView, StateInv
        <5> QED
          BY <1>1, <3>2, <5>1 DEF View, InSessionView
      <4> QED
        BY <4>1, <4>2 DEF Stays
    <3> QED
      BY <3>1, <3>2
  <2> QED
    BY <1>3, <1>15, <2>2, <2>3, <2>4 DEF Answers2, p
<1>16. CASE k # p.mid
  <2>1. \A i \in 1..Len(s) : s[i].mid # k
    BY <1>6, <1>7, <1>16
  <2>2. KeepsToken(k)
    BY <1>4, <1>9, <1>11, <1>16, <2>1 DEF KeepsToken, ComesWith
  <2>3. Stays(k)
    <3>1. CASE \E i \in 1..Len(inflight) : inflight[i].id = k
      BY <1>13, <1>16, <3>1 DEF Stays
    <3> QED
      BY <1>14, <3>1
  <2> QED
    BY <1>3, <1>16, <2>2, <2>3 DEF p
<1> QED
  BY <1>15, <1>16

(* subs__send. *)
LEMMA SentView ==
  ASSUME NoneComesRound, ExchangeInv, ExchangeInv', NEW qos \in 1..2, NEW expires \in Expiring,
         Send(qos, expires)
  PROVE  /\ Ids' = Ids \cup {Len(given) + 1} /\ Len(given) + 1 \notin Ids
         /\ \A k \in Ids : /\ given'[k] = given[k]
                           /\ Stays(k) /\ KeepsToken(k) /\ KeepsCopies(k)
         /\ LET k == Len(given) + 1
            IN /\ Token'[k] = "none" /\ ~Repeat'[k] /\ Copies'[k] = 0 /\ got'[k] = 0
               /\ ~Marked'[k] /\ given'[k] = [qos |-> qos, expires |-> expires]
               /\ \/ Phase'[k] \in {"queued"} \cup Publishing
                  \/ Phase'[k] = "none" /\ k \in dropped'
         /\ dropped \subseteq dropped'
<1>1. LineTypes /\ LineTypes' /\ FitInv /\ View /\ View' /\ StateInv
  BY ViewFacts, ViewAfter DEF ExchangeInv
<1>2. UNCHANGED <<held, sock, online, outp, up, down>>
  BY DEF Send
<1>3. Line' = Line
  BY <1>2 DEF Line, Unwritten
<1> DEFINE m == NewMessage(qos)
           new == Len(given) + 1
<1>4. /\ Len(given) \in Nat /\ Ids' = Ids \cup {new} /\ new \notin Ids /\ new # 0
      /\ \A j \in Ids : given'[j] = given[j] /\ got'[j] = got[j]
      /\ given'[new] = [qos |-> qos, expires |-> expires] /\ got'[new] = 0
  <2>1. /\ Len(given) \in Nat /\ Ids' = Ids \cup {new}
        /\ \A j \in Ids : given'[j] = given[j] /\ got'[j] = got[j]
        /\ given'[new] = [qos |-> qos, expires |-> expires] /\ got'[new] = 0
    BY <1>1, GivenMessage
  <2>2. new \notin Ids /\ new # 0
    BY <2>1 DEF Ids
  <2> QED
    BY <2>1, <2>2
<1>5. /\ m \in Messages /\ m.id = new /\ ~m.dup /\ m.state = "queued"
      /\ inflight \in Seq(Messages) /\ queued \in Seq(Messages)
  BY <1>1, InsertedMessage DEF NewMessage, LineTypes
<1> DEFINE y == ToPublish(m)
<1>6. y \in Messages /\ y.id = new /\ ~y.dup /\ y.state \in Publishing
  BY <1>5, MovedFields, MovedTypes DEF Publishing
<1>7. \/ /\ UNCHANGED <<queued, dropped>> /\ inflight' = Append(inflight, y)
      \/ UNCHANGED <<inflight, dropped>> /\ queued' = Append(queued, m)
      \/ UNCHANGED <<inflight, queued>> /\ dropped' = dropped \cup {new}
  BY <1>1, InsertedMessage
<1> HIDE DEF y, m, new
<1>8. /\ Len(inflight) \in Nat /\ Len(Append(inflight, y)) = Len(inflight) + 1
      /\ \A i \in 1..Len(inflight) : Append(inflight, y)[i] = inflight[i]
      /\ Append(inflight, y)[Len(inflight) + 1] = y
  BY <1>5, <1>6, AppendFacts
<1>9. /\ Len(queued) \in Nat /\ Len(Append(queued, m)) = Len(queued) + 1
      /\ \A i \in 1..Len(queued) : Append(queued, m)[i] = queued[i]
      /\ Append(queued, m)[Len(queued) + 1] = m
  BY <1>5, AppendFacts
<1>10. /\ \A i \in 1..Len(inflight') :
            \/ i \in 1..Len(inflight) /\ inflight'[i] = inflight[i]
            \/ i = Len(inflight) + 1 /\ inflight'[i] = y
       /\ \A i \in 1..Len(inflight) : i \in 1..Len(inflight') /\ inflight'[i] = inflight[i]
  BY <1>7, <1>8
<1>11. /\ \A i \in 1..Len(queued') :
            \/ i \in 1..Len(queued) /\ queued'[i] = queued[i]
            \/ i = Len(queued) + 1 /\ queued'[i] = m
       /\ \A i \in 1..Len(queued) : i \in 1..Len(queued') /\ queued'[i] = queued[i]
  BY <1>7, <1>9
<1>12. /\ \A i \in 1..Len(inflight) :
            Phase[inflight[i].id] = inflight[i].state /\ Marked[inflight[i].id] = inflight[i].dup
       /\ \A i \in 1..Len(queued) : Phase[queued[i].id] = "queued" /\ ~Marked[queued[i].id]
       /\ \A k \in Ids :
            \/ \E i \in 1..Len(inflight) : inflight[i].id = k
            \/ \E i \in 1..Len(queued) : queued[i].id = k
            \/ /\ Phase[k] = "none" /\ ~Marked[k]
               /\ \A i \in 1..Len(inflight) : inflight[i].id # k
               /\ \A i \in 1..Len(queued) : queued[i].id # k
  BY <1>1 DEF View, InSessionView
<1>13. /\ \A i \in 1..Len(inflight') :
            Phase'[inflight'[i].id] = inflight'[i].state /\ Marked'[inflight'[i].id] = inflight'[i].dup
       /\ \A i \in 1..Len(queued') : Phase'[queued'[i].id] = "queued" /\ ~Marked'[queued'[i].id]
       /\ \A k \in Ids' :
            \/ \E i \in 1..Len(inflight') : inflight'[i].id = k
            \/ \E i \in 1..Len(queued') : queued'[i].id = k
            \/ Phase'[k] = "none" /\ ~Marked'[k]
  BY <1>1 DEF View, InSessionView
<1>14. ASSUME NEW k \in Ids PROVE given'[k] = given[k] /\ Stays(k) /\ KeepsToken(k) /\ KeepsCopies(k)
  <2>1. k \in Ids' /\ k # new
    BY <1>4
  <2>2. Marked[k] \in BOOLEAN /\ Marked'[k] \in BOOLEAN
    BY <1>1, <2>1 DEF View, Fitting
  <2>3. Stays(k)
    <3>1. CASE \E i \in 1..Len(inflight) : inflight[i].id = k
      BY <1>10, <1>12, <1>13, <3>1 DEF Stays
    <3>2. CASE \E i \in 1..Len(queued) : queued[i].id = k
      <4>1. Phase[k] = "queued" /\ ~Marked[k] /\ Phase'[k] = "queued" /\ ~Marked'[k]
        BY <1>11, <1>12, <1>13, <3>2
      <4> QED
        BY <2>2, <4>1 DEF Stays
    <3>3. CASE /\ Phase[k] = "none" /\ ~Marked[k]
               /\ \A i \in 1..Len(inflight) : inflight[i].id # k
               /\ \A i \in 1..Len(queued) : queued[i].id # k
      <4>1. \A i \in 1..Len(inflight') : inflight'[i].id # k
        BY <1>6, <1>10, <2>1, <3>3
      <4>2. \A i \in 1..Len(queued') : queued'[i].id # k
        BY <1>5, <1>11, <2>1, <3>3
      <4>3. Phase'[k] = "none" /\ ~Marked'[k]
        BY <1>13, <2>1, <4>1, <4>2
      <4> QED
        BY <2>2, <3>3, <4>3 DEF Stays
    <3> QED
      BY <1>12, <3>1, <3>2, <3>3
  <2>4. KeepsToken(k)
    BY <1>3, <2>1 DEF KeepsToken, Token, Repeat
  <2>5. KeepsCopies(k)
    BY <1>2, <1>4, <2>1 DEF KeepsCopies, Copies
  <2> QED
    BY <1>4, <2>3, <2>4, <2>5
<1>15. new \in Ids'
  BY <1>4
<1>16. Token'[new] = "none" /\ ~Repeat'[new]
  <2>1. \A b \in 1..Len(Line') : Line'[b].mid # new
    BY <1>1, <1>3, <1>4 DEF View, OnLineView
  <2> QED
    BY <1>1, <1>15, <2>1 DEF View, OnLineView
<1>17. Copies'[new] = 0
  <2>1. \A i \in 1..Len(held') : held'[i].id # new
    BY <1>1, <1>2, <1>4 DEF FitInv, FitsCopy
  <2>2. {i \in 1..Len(held') : held'[i].id = new} = {}
    BY <2>1
  <2>3. Copies'[new] = Cardinality({i \in 1..Len(held') : held'[i].id = new})
    BY <1>15 DEF Copies
  <2> QED
    BY <2>2, <2>3, FS_EmptySet
<1>18. /\ ~Marked'[new]
       /\ \/ Phase'[new] \in {"queued"} \cup Publishing
          \/ Phase'[new] = "none" /\ new \in dropped'
  <2>1. CASE inflight' = Append(inflight, y)
    <3>1. Len(inflight) + 1 \in 1..Len(inflight') /\ inflight'[Len(inflight) + 1] = y
      BY <1>8, <2>1
    <3>2. Phase'[new] = y.state /\ Marked'[new] = y.dup
      BY <1>6, <1>13, <3>1
    <3> QED
      BY <1>6, <3>2
  <2>2. CASE queued' = Append(queued, m)
    <3>1. Len(queued) + 1 \in 1..Len(queued') /\ queued'[Len(queued) + 1] = m
      BY <1>9, <2>2
    <3> QED
      BY <1>5, <1>13, <3>1
  <2>3. CASE UNCHANGED <<inflight, queued>> /\ dropped' = dropped \cup {new}
    <3>1. /\ \A i \in 1..Len(inflight') : inflight'[i].id # new
          /\ \A i \in 1..Len(queued') : queued'[i].id # new
      BY <1>1, <1>4, <2>3 DEF View, InSessionView
    <3> QED
      BY <1>13, <1>15, <2>3, <3>1
  <2> QED
    BY <1>7, <2>1, <2>2, <2>3
<1>19. dropped \subseteq dropped'
  BY <1>7
<1> QED
  BY <1>4, <1>14, <1>16, <1>17, <1>18, <1>19 DEF new

(* What nobody reads, and what is about no message. *)
LEMMA QuietLineView ==
  ASSUME ExchangeInv, ExchangeInv', given' = given, NEW gone, NEW s, Follows(gone, 0, 0, s),
         \A b \in 1..Len(Line) : b \in gone => Line[b].mid = 0,
         \A i \in 1..Len(s) : s[i].mid = 0,
         NEW k \in Ids
  PROVE  KeepsToken(k)
<1>1. LineTypes /\ View /\ View'
  BY ViewFacts, ViewAfter DEF ExchangeInv
<1>2. Ids' = Ids /\ k # 0 /\ Len(Line) \in Nat /\ 0 \notin 1..Len(Line)
  BY <1>1, LineFacts DEF Ids, LineParts
<1>3. \/ \E b \in 1..Len(Line) :
           /\ Line[b].mid = k /\ Token[k] = Line[b].kind
           /\ \/ b \notin gone /\ KeepsToken(k)
              \/ b \in gone /\ ComesWith(k, s)
      \/ /\ Token[k] = "none" /\ ~Repeat[k] /\ \A b \in 1..Len(Line) : Line[b].mid # k
         /\ ComesWith(k, s)
  BY <1>2, FollowedView
<1>4. Repeat[k] \in BOOLEAN /\ Repeat'[k] \in BOOLEAN
  BY <1>1, <1>2 DEF View, Fitting
<1> QED
  BY <1>2, <1>3, <1>4 DEF KeepsToken, ComesWith

Silent ==
  \/ Connect \/ ClientWrite \/ Expire \/ Offline \/ ReadsNothing
  \/ TakesConnack(Head(down)) \/ UNCHANGED vars

LEMMA QuietFollows ==
  ASSUME ExchangeInv, LineTypes', Silent
  PROVE  \E gone, s : /\ Follows(gone, 0, 0, s)
                      /\ \A b \in 1..Len(Line) : b \in gone => Line[b].mid = 0
                      /\ \A i \in 1..Len(s) : s[i].mid = 0 /\ s[i].kind = "CONNECT"
<1> DEFINE Result(gone, s) ==
             /\ Follows(gone, 0, 0, s)
             /\ \A b \in 1..Len(Line) : b \in gone => Line[b].mid = 0
             /\ \A i \in 1..Len(s) : s[i].mid = 0 /\ s[i].kind = "CONNECT"
<1>1. LineTypes /\ LineTypes' /\ FitInv /\ LineInv
  BY DEF ExchangeInv
<1>2. Len(<<>>) = 0
  OBVIOUS
<1>3. CASE Connect
  <2> DEFINE s == <<Ack("CONNECT", 0)>>
  <2>1. Follows({}, 0, 0, s)
    BY <1>1, <1>3, NewConnectionLine
  <2>2. \A i \in 1..Len(s) : s[i].mid = 0 /\ s[i].kind = "CONNECT"
    BY DEF Ack, Pkt
  <2> HIDE DEF s
  <2> QED
    BY <2>1, <2>2
<1>4. CASE ClientWrite
  <2>1. Follows({}, 0, 0, <<>>)
    BY <1>1, <1>4, WrittenLine
  <2> QED
    BY <1>2, <2>1
<1>5. CASE Expire \/ Offline \/ UNCHANGED vars
  <2>1. UNCHANGED <<up, down, outp, sock>>
    BY <1>5 DEF Expire, Offline, vars, client
  <2>2. Line' = Line
    BY <2>1 DEF Line, Unwritten
  <2>3. Follows({}, 0, 0, <<>>)
    BY <1>1, <2>2, LineKept
  <2> QED
    BY <1>2, <2>3
<1>6. CASE ReadsNothing
  <2>1. Follows({1}, 0, 0, <<>>)
    BY <1>1, <1>6, AckLine
  <2>2. \A b \in 1..Len(Line) : b \in {1} => Line[b].mid = 0
    BY <1>1, <1>6 DEF LineInv, ReadsNothing
  <2> QED
    BY <1>2, <2>1, <2>2
<1>7. CASE TakesConnack(Head(down))
  <2> DEFINE p == Head(down)
  <2>1. TakesConnack(p) /\ p.kind = "CONNACK" /\ down # <<>>
    BY <1>7 DEF TakesConnack, Takes
  <2>2. p = Line[Unread + 1] /\ FitsPacket(p)
    BY <2>1, ReadPacket
  <2> HIDE DEF p
  <2>3. Follows({Unread + 1}, 0, 0, <<>>)
    BY <1>1, <2>1, ConnackLine
  <2>4. \A b \in 1..Len(Line) : b \in {Unread + 1} => Line[b].mid = 0
    BY <2>1, <2>2 DEF FitsPacket
  <2> QED
    BY <1>2, <2>3, <2>4
<1> QED
  BY <1>3, <1>4, <1>5, <1>6, <1>7 DEF Silent

LEMMA QuietView ==
  ASSUME NoneComesRound, ExchangeInv, ExchangeInv', Silent
  PROVE  /\ given' = given /\ inflight' = inflight /\ queued' = queued
         /\ \A k \in Ids : Stays(k) /\ KeepsToken(k) /\ KeepsCopies(k)
<1>1. LineTypes /\ LineTypes'
  BY ViewAfter DEF ExchangeInv
<1>2. /\ given' = given /\ inflight' = inflight /\ queued' = queued /\ held' = held /\ got' = got
  BY DEF Silent, Connect, ClientWrite, Expire, Offline, ReadsNothing, TakesConnack, Takes,
         ClientSide, vars, session, client
<1>3. \A k \in Ids : Stays(k) /\ KeepsCopies(k)
  BY <1>2, SameSession, SameCopies
<1>4. PICK gone, s : /\ Follows(gone, 0, 0, s)
                     /\ \A b \in 1..Len(Line) : b \in gone => Line[b].mid = 0
                     /\ \A i \in 1..Len(s) : s[i].mid = 0
  BY <1>1, QuietFollows
<1>5. \A k \in Ids : KeepsToken(k)
  BY <1>2, <1>4, QuietLineView
<1> QED
  BY <1>2, <1>3, <1>5

(* What the client reads and answers. *)
LEMMA AnsweredToken ==
  ASSUME NoneComesRound, ExchangeInv, ExchangeInv', NEW p, Takes(p),
         NEW kind \in Answers, Reply(Ack(kind, p.mid)), sock' = sock,
         p.kind \in {"PUBLISH", "PUBREL"}, NEW k \in Ids
  PROVE  /\ p.mid \in Ids /\ Stays(k)
         /\ IF k = p.mid THEN Token[k] = p.kind /\ Repeat[k] = p.dup /\ Token'[k] = kind
                         ELSE KeepsToken(k)
<1>1. LineTypes /\ LineTypes' /\ View /\ View'
  BY ViewFacts, ViewAfter DEF ExchangeInv
<1>2. /\ given' = given /\ inflight' = inflight /\ queued' = queued /\ threaded' = threaded
      /\ sock # "none" /\ down # <<>> /\ p = Head(down) /\ down' = Tail(down)
  BY DEF Takes, ClientSide, session, config
<1>3. Stays(k)
  BY <1>2, SameSession
<1>4. /\ p = Line[Unread + 1] /\ Unread + 1 \in 1..Len(Line) /\ p.mid \in Ids /\ p.mid # 0
      /\ p.mid \in Nat
  BY <1>2, ReadPacket
<1> DEFINE r == Ack(kind, p.mid)
<1>5. Follows({}, Unread + 1, r, <<>>)
  BY <1>1, <1>2, ReplyLine
<1>6. r.mid = p.mid /\ r.kind = kind
  BY DEF Ack, Pkt
<1> HIDE DEF r
<1> DEFINE c == Unread + 1
<1>7. c \in 1..Len(Line) => r.mid = Line[c].mid
  BY <1>4, <1>6
<1>8. Follows({}, c, r, <<>>)
  BY <1>5
<1>9. c \in 1..Len(Line) /\ Line[c] = p
  BY <1>4
<1> HIDE DEF c
<1>10. \/ \E b \in 1..Len(Line) :
            /\ Line[b].mid = k /\ Token[k] = Line[b].kind
            /\ \/ b # c /\ KeepsToken(k)
               \/ b = c /\ Token'[k] = r.kind /\ Repeat'[k] = r.dup
       \/ /\ Token[k] = "none" /\ ~Repeat[k] /\ \A b \in 1..Len(Line) : Line[b].mid # k
          /\ ComesWith(k, <<>>)
  BY <1>2, <1>7, <1>8, FollowedView
<1>11. k # 0 /\ Ids' = Ids /\ Len(<<>>) = 0
  BY <1>2 DEF Ids
<1>12. \A b \in 1..Len(Line) : Line[b].mid = p.mid => b = c
  BY <1>4, <1>9 DEF ExchangeInv, LineInv, OneEach
<1>13. CASE k = p.mid
  <2>1. Token'[k] = r.kind /\ Token[k] = Line[c].kind
    BY <1>9, <1>10, <1>12, <1>13
  <2>2. Repeat[k] = Line[c].dup
    BY <1>1, <1>9, <1>11, <1>13 DEF View, OnLineView
  <2> QED
    BY <1>3, <1>4, <1>6, <1>9, <1>13, <2>1, <2>2
<1>14. CASE k # p.mid
  <2>1. Repeat[k] \in BOOLEAN /\ Repeat'[k] \in BOOLEAN
    BY <1>1, <1>11 DEF View, Fitting
  <2>2. KeepsToken(k)
    BY <1>9, <1>10, <1>11, <1>14, <2>1 DEF KeepsToken, ComesWith
  <2> QED
    BY <1>3, <1>4, <1>14, <2>2
<1> QED
  BY <1>13, <1>14

LEMMA CopiesAppended ==
  ASSUME LineTypes, NEW h \in Copy, held' = Append(held, h), given' = given, NEW k \in Ids
  PROVE  Copies'[k] = IF k = h.id THEN Copies[k] + 1 ELSE Copies[k]
<1> DEFINE H == {i \in 1..Len(held) : held[i].id = k}
           l == Len(held)
<1>1. held \in Seq(Copy)
  BY DEF LineTypes
<1>2. /\ l \in Nat /\ Len(held') = l + 1 /\ held'[l + 1] = h
      /\ \A i \in 1..l : held'[i] = held[i]
  BY <1>1, AppendFacts
<1>3. Ids' = Ids
  BY DEF Ids
<1>4. Copies[k] = Cardinality(H) /\ Copies'[k] = Cardinality({i \in 1..Len(held') : held'[i].id = k})
  BY <1>3 DEF Copies
<1>5. IsFiniteSet(H) /\ Cardinality(H) \in Nat
  BY CopyCount DEF Copies
<1> HIDE DEF l
<1>6. H = {i \in 1..l : held[i].id = k}
  BY DEF l
<1> HIDE DEF H
<1>7. CASE k = h.id
  <2>1. {i \in 1..Len(held') : held'[i].id = k} = H \cup {l + 1}
    BY <1>2, <1>6, <1>7
  <2>2. l + 1 \notin H
    BY <1>2, <1>6
  <2>3. Cardinality(H \cup {l + 1}) = Cardinality(H) + 1
    BY <1>5, <2>2, FS_AddElement
  <2> QED
    BY <1>4, <1>7, <2>1, <2>3
<1>8. CASE k # h.id
  <2>1. {i \in 1..Len(held') : held'[i].id = k} = H
    BY <1>2, <1>6, <1>8
  <2> QED
    BY <1>4, <1>8, <2>1
<1> QED
  BY <1>7, <1>8

LEMMA CopiesTaken ==
  ASSUME LineTypes, LineTypes', NEW x \in 1..Len(held), Len(held') = Len(held) - 1, given' = given,
         \A i \in 1..Len(held) - 1 : held'[i] = IF i < x THEN held[i] ELSE held[i + 1],
         NEW k \in Ids
  PROVE  Copies[k] = IF k = held[x].id THEN Copies'[k] + 1 ELSE Copies'[k]
<1> DEFINE H == {i \in 1..Len(held) : held[i].id = k}
           G == {i \in 1..Len(held') : held'[i].id = k}
           l == Len(held)
           f == [i \in H \ {x} |-> IF i < x THEN i ELSE i - 1]
<1>1. l \in Nat /\ Ids' = Ids
  BY SessionTypes DEF Ids
<1>2. Copies[k] = Cardinality(H) /\ Copies'[k] = Cardinality(G)
  BY <1>1 DEF Copies
<1>3. IsFiniteSet(H) /\ Cardinality(H) \in Nat
  BY <1>1, FiniteRange
<1> HIDE DEF l
<1>4. /\ H = {i \in 1..l : held[i].id = k} /\ x \in 1..l /\ Len(held') = l - 1
      /\ G = {i \in 1..l - 1 : held'[i].id = k}
      /\ \A i \in 1..l - 1 : held'[i] = IF i < x THEN held[i] ELSE held[i + 1]
  BY DEF l
<1> HIDE DEF H, G
<1>5. f \in [H \ {x} -> G]
  <2> SUFFICES ASSUME NEW i \in H \ {x} PROVE (IF i < x THEN i ELSE i - 1) \in G
    OBVIOUS
  <2>1. i \in 1..l /\ held[i].id = k /\ i # x
    BY <1>4
  <2>2. CASE i < x
    <3>1. i \in 1..l - 1 /\ held'[i] = held[i]
      BY <1>1, <1>4, <2>1, <2>2
    <3> QED
      BY <1>4, <2>1, <2>2, <3>1
  <2>3. CASE ~(i < x)
    <3>1. i - 1 \in 1..l - 1 /\ ~(i - 1 < x) /\ (i - 1) + 1 = i
      BY <1>1, <1>4, <2>1, <2>3
    <3>2. held'[i - 1] = held[(i - 1) + 1]
      BY <1>4, <3>1
    <3> QED
      BY <1>4, <2>1, <2>3, <3>1, <3>2
  <2> QED
    BY <2>2, <2>3
<1>6. \A i, j \in H \ {x} : f[i] = f[j] => i = j
  BY <1>1, <1>4
<1>7. \A y \in G : \E i \in H \ {x} : f[i] = y
  <2> SUFFICES ASSUME NEW y \in G PROVE \E i \in H \ {x} : f[i] = y
    OBVIOUS
  <2>1. y \in 1..l - 1 /\ held'[y].id = k
    BY <1>4
  <2>2. CASE y < x
    <3>1. y \in H \ {x} /\ f[y] = y
      BY <1>1, <1>4, <2>1, <2>2
    <3> QED
      BY <3>1
  <2>3. CASE ~(y < x)
    <3>1. y + 1 \in H \ {x}
      BY <1>1, <1>4, <2>1, <2>3
    <3>2. f[y + 1] = y
      BY <1>1, <1>4, <2>1, <2>3, <3>1
    <3> QED
      BY <3>1, <3>2
  <2> QED
    BY <2>2, <2>3
<1> HIDE DEF f
<1>8. f \in Bijection(H \ {x}, G)
  BY <1>5, <1>6, <1>7, Fun_IsBij
<1>9. ExistsBijection(H \ {x}, G)
  BY <1>8, Fun_ExistsBij
<1>10. IsFiniteSet(H \ {x})
  BY <1>3, FS_RemoveElement
<1>11. Cardinality(G) = Cardinality(H \ {x})
  BY <1>9, <1>10, FS_Bijection
<1>12. CASE k = held[x].id
  <2>1. x \in H
    BY <1>4, <1>12
  <2> QED
    <3>1. Cardinality(H \ {x}) = Cardinality(H) - 1
      BY <1>3, <2>1, FS_RemoveElement
    <3> QED
      BY <1>2, <1>3, <1>11, <1>12, <3>1
<1>13. CASE k # held[x].id
  <2>1. H \ {x} = H
    BY <1>4, <1>13
  <2> QED
    BY <1>2, <1>11, <1>13, <2>1
<1> QED
  BY <1>12, <1>13

(* handle__publish and handle__pubrel. *)
Passes(k) ==
  /\ Token[k] = "PUBLISH" /\ Token'[k] = "PUBACK" /\ given[k].qos = 1
  /\ got'[k] = got[k] + 1 /\ Copies'[k] = Copies[k]
Keeps(k) ==
  /\ Token[k] = "PUBLISH" /\ Token'[k] = "PUBREC" /\ given[k].qos = 2
  /\ got'[k] = got[k] /\ Copies'[k] = Copies[k] + 1
Delivers(k) ==
  /\ Token[k] = "PUBREL" /\ Token'[k] = "PUBCOMP"
  /\ got'[k] = got[k] + 1 /\ Copies[k] = Copies'[k] + 1

LEMMA TakenView ==
  ASSUME NoneComesRound, ExchangeInv, ExchangeInv', NEW p,
         TakesQoS1(p) \/ TakesQoS2(p) \/ TakesPubrel(p), NEW k \in Ids
  PROVE  /\ Stays(k) /\ p.mid \in Ids /\ Repeat[p.mid] = p.dup
         /\ \/ k = p.mid /\ (Passes(k) \/ Keeps(k) \/ Delivers(k))
            \/ k # p.mid /\ KeepsToken(k) /\ KeepsCopies(k)
<1>1. LineTypes /\ LineTypes' /\ FitInv
  BY ViewAfter DEF ExchangeInv
<1>2. /\ given' = given /\ down # <<>> /\ p = Head(down) /\ Takes(p)
      /\ p.kind \in {"PUBLISH", "PUBREL"} /\ sock' = sock /\ sock # "none"
  BY DEF TakesQoS1, TakesQoS2, TakesPubrel, Takes, ClientSide
<1>3. p.mid \in Ids /\ FitsPacket(p) /\ p.mid # 0 /\ p.mid \in Nat
  BY <1>2, ReadPacket
<1>4. p.kind = "PUBLISH" => p.id = p.mid /\ p.qos = given[p.mid].qos
  BY <1>3 DEF FitsPacket
<1>5. ASSUME NEW kind \in Answers, Reply(Ack(kind, p.mid))
      PROVE  /\ Stays(k)
             /\ IF k = p.mid THEN Token[k] = p.kind /\ Repeat[k] = p.dup /\ Token'[k] = kind
                             ELSE KeepsToken(k)
             /\ Repeat[p.mid] = p.dup
  <2>1. \A j \in Ids : /\ Stays(j)
                       /\ IF j = p.mid THEN Token[j] = p.kind /\ Repeat[j] = p.dup /\ Token'[j] = kind
                                       ELSE KeepsToken(j)
    BY <1>2, <1>5, AnsweredToken
  <2> QED
    BY <1>3, <2>1
<1>6. CASE TakesQoS1(p)
  <2>1. /\ p.kind = "PUBLISH" /\ p.qos = 1 /\ Reply(Ack("PUBACK", p.mid))
        /\ Callback({p.id}) /\ held' = held
    BY <1>6 DEF TakesQoS1
  <2>2. \A j \in Ids : got'[j] = IF j = p.id THEN got[j] + 1 ELSE got[j]
    BY <1>1, <2>1, CalledBack
  <2>3. Copies' = Copies
    BY <1>2, <2>1 DEF Copies, Ids
  <2>4. "PUBACK" \in Answers
    BY DEF Answers
  <2> QED
    BY <1>3, <1>4, <1>5, <2>1, <2>2, <2>3, <2>4 DEF Passes, KeepsCopies
<1>7. CASE TakesQoS2(p)
  <2>1. /\ p.kind = "PUBLISH" /\ p.qos = 2 /\ Reply(Ack("PUBREC", p.mid))
        /\ got' = got /\ held' = Append(held, [id |-> p.id, mid |-> p.mid])
    BY <1>7 DEF TakesQoS2
  <2> DEFINE h == [id |-> p.id, mid |-> p.mid]
  <2>2. h \in Copy /\ h.id = p.mid
    BY <1>3, <1>4, <2>1 DEF Copy
  <2> HIDE DEF h
  <2>3. held' = Append(held, h)
    BY <2>1 DEF h
  <2>4. Copies'[k] = IF k = p.mid THEN Copies[k] + 1 ELSE Copies[k]
    BY <1>1, <1>2, <2>2, <2>3, CopiesAppended
  <2>5. "PUBREC" \in Answers
    BY DEF Answers
  <2> QED
    BY <1>3, <1>4, <1>5, <2>1, <2>4, <2>5 DEF Keeps, KeepsCopies
<1>8. CASE TakesPubrel(p)
  <2> DEFINE x == First(p)
  <2>1. /\ p.kind = "PUBREL" /\ Reply(Ack("PUBCOMP", p.mid)) /\ Callback({held[x].id})
    BY <1>8 DEF TakesPubrel
  <2>2. /\ x \in 1..Len(held) /\ held[x].mid = p.mid /\ Len(held') = Len(held) - 1
        /\ \A i \in 1..Len(held) - 1 : held'[i] = IF i < x THEN held[i] ELSE held[i + 1]
    BY <1>1, <1>8, TakenCopy
  <2> HIDE DEF x
  <2>3. held[x].id = p.mid
    BY <1>1, <2>2 DEF FitInv, FitsCopy
  <2>4. \A j \in Ids : got'[j] = IF j = held[x].id THEN got[j] + 1 ELSE got[j]
    BY <1>1, <2>1, CalledBack
  <2>5. Copies[k] = IF k = held[x].id THEN Copies'[k] + 1 ELSE Copies'[k]
    BY <1>1, <1>2, <2>2, CopiesTaken
  <2>6. "PUBCOMP" \in Answers
    BY DEF Answers
  <2> QED
    BY <1>3, <1>5, <2>1, <2>3, <2>4, <2>5, <2>6 DEF Delivers, KeepsCopies
<1> QED
  BY <1>6, <1>7, <1>8

(* A connection that breaks, or that the client closes. *)
Stale ==
  \E a \in 1..Len(up) :
    up[a].kind = "CONNECT" /\ (sock = "none" \/ \E b \in a + 1..Len(up) : up[b].kind = "CONNECT")
Loses(k) == KeepsToken(k) \/ Token'[k] = "none"

LEMMA BreakView ==
  ASSUME NoneComesRound, ExchangeInv, ExchangeInv', Break, NEW k \in Ids
  PROVE  /\ Stays(k) /\ KeepsCopies(k) /\ Loses(k)
         /\ (\E a \in 1..Len(up') : up'[a].kind = "CONNECT") => KeepsToken(k)
<1>1. LineTypes /\ LineTypes' /\ LineParts
  BY ViewAfter, LineFacts DEF ExchangeInv
<1>2. /\ given' = given /\ inflight' = inflight /\ queued' = queued /\ held' = held /\ got' = got
      /\ sock' = "none"
  BY DEF Break, session
<1>3. Stays(k) /\ KeepsCopies(k)
  BY <1>2, SameSession, SameCopies
<1>4. PICK n \in 0..Len(up) : up' = SubSeq(up, 1, n)
  BY <1>1, BrokenLine
<1>5. /\ Len(up') = n /\ \A a \in 1..n : up'[a] = up[a]
  <2>1. up \in Seq(Packets(UpKinds))
    BY <1>1 DEF LineTypes
  <2> QED
    BY <1>4, <2>1, PrefixFacts
<1>6. Len(Line') = n /\ \A a \in 1..n : Line'[a] = Line[a]
  <2>1. Len(Line') = Len(up') /\ \A a \in 1..Len(up') : Line'[a] = up'[a]
    BY <1>1, <1>2, ClosedLine
  <2>2. \A a \in 1..n : Line[a] = up[a]
    BY <1>1 DEF LineParts
  <2> QED
    BY <1>5, <2>1, <2>2
<1>7. n \in 0..Len(Line) /\ Len(Line) \in Nat /\ 0 \notin 1..Len(Line)
  BY <1>1 DEF LineParts
<1> DEFINE gone == {b \in 1..Len(Line) : b > n}
<1>8. Follows(gone, 0, 0, <<>>)
  <2>1. \A a \in 1..n : Line'[a] = IF a = 0 THEN 0 ELSE Line[a]
    BY <1>6
  <2> QED
    BY <1>1, <1>6, <1>7, <2>1, LineCut
<1>9. Len(<<>>) = 0 /\ \A i \in 1..Len(<<>>) : <<>>[i].mid = 0
  OBVIOUS
<1>10. Loses(k)
  <2> HIDE DEF gone
  <2>1. \/ \E b \in 1..Len(Line) :
             /\ Line[b].mid = k /\ Token[k] = Line[b].kind
             /\ \/ b \notin gone /\ KeepsToken(k)
                \/ b \in gone /\ ComesWith(k, <<>>)
        \/ /\ Token[k] = "none" /\ ~Repeat[k] /\ \A b \in 1..Len(Line) : Line[b].mid # k
           /\ ComesWith(k, <<>>)
    BY <1>2, <1>7, <1>8, FollowedView
  <2> QED
    BY <1>9, <2>1 DEF Loses, ComesWith
<1>11. ASSUME NEW a \in 1..Len(up'), up'[a].kind = "CONNECT" PROVE KeepsToken(k)
  <2>1. a \in 1..Len(Line) /\ a <= n /\ Line[a].kind = "CONNECT"
    <3>1. a \in 1..n /\ a \in 1..Len(up) /\ up[a].kind = "CONNECT"
      BY <1>1, <1>4, <1>5, <1>11 DEF LineParts
    <3>2. Line[a] = up[a]
      BY <1>1, <3>1 DEF LineParts
    <3> QED
      BY <1>7, <3>1, <3>2
  <2>2. \A b \in 1..Len(Line) : b \in gone => Line[b].mid = 0
    BY <1>7, <2>1 DEF ExchangeInv, LineInv, ConnectLast
  <2> HIDE DEF gone
  <2> QED
    BY <1>2, <1>8, <1>9, <2>2, QuietLineView
<1> QED
  BY <1>3, <1>10, <1>11

LEMMA RefusedPublishView ==
  ASSUME NoneComesRound, ExchangeInv, ExchangeInv', NEW p, RefusesPublish(p), NEW k \in Ids
  PROVE  /\ ~threaded /\ Stays(k) /\ KeepsCopies(k)
         /\ KeepsToken(k) \/ (Token[k] \in {"PUBLISH", "PUBREL"} /\ Token'[k] = "none")
<1>1. LineTypes /\ LineTypes' /\ LineParts
  BY ViewAfter, LineFacts DEF ExchangeInv
<1>2. /\ given' = given /\ inflight' = inflight /\ queued' = queued /\ held' = held /\ got' = got
      /\ sock' = "none" /\ up' = up /\ protocol = "v5" /\ outp' = outp /\ sock # "none"
  BY DEF RefusesPublish, ClientSide, session, Close
<1>3. ~threaded /\ outp = <<>>
  BY <1>1, <1>2 DEF LineTypes
<1>4. Stays(k) /\ KeepsCopies(k)
  BY <1>2, SameSession, SameCopies
<1> DEFINE gone == {b \in 1..Len(Line) : b > Len(up)}
<1>5. Follows(gone, 0, 0, <<>>)
  BY <1>1, <1>2, RefusedLine
<1>6. \A b \in gone : Line[b].kind \in DownKinds
  <2>1. Len(Unwritten) = 0
    BY <1>3 DEF Unwritten
  <2> QED
    BY <1>1, <2>1 DEF LineParts
<1> HIDE DEF gone
<1>7. Len(<<>>) = 0 /\ Len(Line) \in Nat /\ 0 \notin 1..Len(Line)
  BY <1>1 DEF LineParts
<1>8. \/ \E b \in 1..Len(Line) :
           /\ Line[b].mid = k /\ Token[k] = Line[b].kind
           /\ \/ b \notin gone /\ KeepsToken(k)
              \/ b \in gone /\ ComesWith(k, <<>>)
      \/ /\ Token[k] = "none" /\ ~Repeat[k] /\ \A b \in 1..Len(Line) : Line[b].mid # k
         /\ ComesWith(k, <<>>)
  BY <1>2, <1>5, <1>7, FollowedView
<1>9. Ids' = Ids
  BY <1>2 DEF Ids
<1>10. Token[k] \in {"none"} \cup Numbered /\ Repeat[k] \in BOOLEAN /\ Repeat'[k] \in BOOLEAN
  BY <1>9, ViewFacts, ViewAfter DEF View, Fitting
<1> QED
  BY <1>3, <1>4, <1>6, <1>7, <1>8, <1>10 DEF ComesWith, DownKinds, Numbered, KeepsToken

(* A PUBREL whose message the client has not: what the thread has yet to   *)
(* write is lost, too, and nothing that a first answer awaits stands there. *)
Unheld(b) == Line[b].kind = "PUBREL" /\ Copies[Line[b].mid] = 0
Ahead == \A b \in 1..Len(Line) : Unheld(b) => \A a \in 1..b - 1 : Line[a].kind \notin FirstKinds

LEMMA RefusedPubrelView ==
  ASSUME NoneComesRound, ExchangeInv, ExchangeInv', Ahead, NEW p, RefusesPubrel(p)
  PROVE  /\ p.mid \in Ids /\ Token[p.mid] = "PUBREL" /\ Copies[p.mid] = 0
         /\ ~threaded => Token'[p.mid] = "PUBCOMP"
         /\ \A k \in Ids :
              /\ Stays(k) /\ KeepsCopies(k)
              /\ threaded => Token'[k] \notin FirstKinds
              /\ \/ k = p.mid /\ Token'[k] \in {"PUBCOMP", "none"}
                 \/ KeepsToken(k)
                 \/ Token[k] \in {"PUBLISH", "PUBREL"} /\ Token'[k] = "none"
                 \/ threaded /\ Token[k] = "PUBCOMP" /\ Token'[k] = "none"
<1>1. LineTypes /\ LineTypes' /\ LineParts /\ FitInv /\ View
  BY ViewFacts, ViewAfter, LineFacts DEF ExchangeInv
<1>2. /\ given' = given /\ inflight' = inflight /\ queued' = queued /\ held' = held /\ got' = got
      /\ sock' = "none" /\ sock # "none" /\ p = Head(down) /\ down # <<>> /\ p.kind = "PUBREL"
      /\ At(held, p.mid) = {} /\ Reply(Ack("PUBCOMP", p.mid)) /\ threaded' = threaded
  BY DEF RefusesPubrel, ClientSide, session, config, Close
<1>3. /\ p = Line[Unread + 1] /\ Unread + 1 \in 1..Len(Line) /\ Unread \in Nat
      /\ p.mid \in Ids /\ p.mid # 0
  BY <1>2, ReadPacket
<1>4. \A k \in Ids : Stays(k) /\ KeepsCopies(k)
  BY <1>2, SameSession, SameCopies
<1>5. ~Held(p.mid)
  BY <1>1, <1>2 DEF Held, At, FitInv, FitsCopy
<1>6. Copies[p.mid] = 0
  <2>1. Copies[p.mid] \in Nat /\ (Copies[p.mid] > 0 <=> Held(p.mid))
    BY <1>1, <1>3, CopyCount
  <2> QED
    BY <1>5, <2>1
<1>7. Token[p.mid] = "PUBREL"
  BY <1>1, <1>2, <1>3 DEF View, OnLineView
<1>8. \A a \in 1..Unread : Line[a].kind \notin FirstKinds
  BY <1>2, <1>3, <1>6 DEF Ahead, Unheld
<1>9. Len(<<>>) = 0 /\ Len(Line) \in Nat /\ 0 \notin 1..Len(Line)
  BY <1>1 DEF LineParts
<1>10. Ids' = Ids
  BY <1>2 DEF Ids
<1>11. ASSUME NEW k \in Ids
       PROVE  /\ Token[k] \in {"none"} \cup Numbered
              /\ Repeat[k] \in BOOLEAN /\ Repeat'[k] \in BOOLEAN
  BY <1>10, ViewFacts, ViewAfter DEF View, Fitting
<1>12. CASE threaded
  <2> DEFINE gone == {b \in 1..Len(Line) : b > Len(up)}
  <2>1. up' = up
    BY <1>2, <1>12 DEF Reply
  <2>2. Follows(gone, 0, 0, <<>>)
    BY <1>1, <1>2, <2>1, RefusedLine
  <2>3. \A b \in 1..Len(Line) :
          /\ b \in gone => Line[b].kind \in DownKinds \cup (Answers \ FirstKinds)
          /\ b \notin gone => Line[b].kind \notin FirstKinds
    <3> SUFFICES ASSUME NEW b \in 1..Len(Line)
                 PROVE  /\ b \in gone => Line[b].kind \in DownKinds \cup (Answers \ FirstKinds)
                        /\ b \notin gone => Line[b].kind \notin FirstKinds
      OBVIOUS
    <3>1. CASE b > Unread
      BY <1>1, <1>3, <3>1 DEF LineParts
    <3>2. CASE b <= Unread
      <4>1. Line[b].kind \notin FirstKinds
        BY <1>3, <1>8, <3>2
      <4>2. b > Len(up) => Line[b].kind \in Answers
        BY <1>1, <3>2 DEF LineParts
      <4> QED
        BY <4>1, <4>2
    <3> QED
      BY <1>3, <3>1, <3>2
  <2> HIDE DEF gone
  <2>4. ASSUME NEW k \in Ids
        PROVE  \/ \E b \in 1..Len(Line) :
                    /\ Line[b].mid = k /\ Token[k] = Line[b].kind
                    /\ \/ b \notin gone /\ KeepsToken(k)
                       \/ b \in gone /\ ComesWith(k, <<>>)
               \/ /\ Token[k] = "none" /\ ~Repeat[k] /\ \A b \in 1..Len(Line) : Line[b].mid # k
                  /\ ComesWith(k, <<>>)
    BY <1>2, <1>9, <2>2, FollowedView
  <2>5. ASSUME NEW k \in Ids
        PROVE  /\ threaded => Token'[k] \notin FirstKinds
               /\ \/ KeepsToken(k)
                  \/ Token[k] \in {"PUBLISH", "PUBREL"} /\ Token'[k] = "none"
                  \/ threaded /\ Token[k] = "PUBCOMP" /\ Token'[k] = "none"
    <3>1. CASE \E b \in 1..Len(Line) :
                 /\ Line[b].mid = k /\ Token[k] = Line[b].kind
                 /\ \/ b \notin gone /\ KeepsToken(k)
                    \/ b \in gone /\ ComesWith(k, <<>>)
      <4>1. PICK b \in 1..Len(Line) :
              /\ Line[b].mid = k /\ Token[k] = Line[b].kind
              /\ \/ b \notin gone /\ KeepsToken(k)
                 \/ b \in gone /\ ComesWith(k, <<>>)
        BY <3>1
      <4> QED
        BY <1>9, <1>11, <1>12, <2>3, <4>1
        DEF ComesWith, KeepsToken, DownKinds, Answers, FirstKinds, Numbered
    <3>2. CASE Token[k] = "none" /\ ~Repeat[k] /\ ComesWith(k, <<>>)
      BY <1>9, <1>11, <3>2 DEF ComesWith, KeepsToken, FirstKinds
    <3> QED
      BY <2>4, <3>1, <3>2
  <2>6. Token'[p.mid] \in {"PUBCOMP", "none"} \/ KeepsToken(p.mid)
    BY <1>3, <1>7, <2>5
  <2> QED
    BY <1>3, <1>4, <1>6, <1>7, <1>12, <2>5
<1>13. CASE ~threaded
  <2> DEFINE gone == {b \in 1..Len(Line) : b > Unread + 1}
             c == Unread + 1
             r == Ack("PUBCOMP", p.mid)
  <2>1. up' = Append(up, r)
    BY <1>2, <1>13 DEF Reply
  <2>2. Follows(gone, c, r, <<>>)
    BY <1>1, <1>2, <1>13, <2>1, RefusedAnswerLine
  <2>3. r.mid = p.mid /\ r.kind = "PUBCOMP"
    BY DEF Ack, Pkt
  <2> HIDE DEF r
  <2>4. /\ \A b \in gone : Line[b].kind \in DownKinds
        /\ c \in 1..Len(Line) /\ c \notin gone /\ Line[c] = p
    BY <1>1, <1>3 DEF LineParts
  <2> HIDE DEF gone, c
  <2>5. c \in 1..Len(Line) => r.mid = Line[c].mid
    BY <2>3, <2>4
  <2>6. ASSUME NEW k \in Ids
        PROVE  \/ \E b \in 1..Len(Line) :
                    /\ Line[b].mid = k /\ Token[k] = Line[b].kind
                    /\ \/ b \notin gone /\ b # c /\ KeepsToken(k)
                       \/ b \notin gone /\ b = c /\ Token'[k] = r.kind /\ Repeat'[k] = r.dup
                       \/ b \in gone /\ ComesWith(k, <<>>)
               \/ /\ Token[k] = "none" /\ ~Repeat[k] /\ \A b \in 1..Len(Line) : Line[b].mid # k
                  /\ ComesWith(k, <<>>)
    BY <1>2, <2>2, <2>5, FollowedView
  <2>7. \A b \in 1..Len(Line) : Line[b].mid = p.mid => b = c
    BY <1>3, <2>4 DEF ExchangeInv, LineInv, OneEach
  <2>8. Token'[p.mid] = "PUBCOMP"
    BY <1>3, <2>3, <2>4, <2>6, <2>7
  <2>9. ASSUME NEW k \in Ids, k # p.mid
        PROVE  \/ KeepsToken(k)
               \/ Token[k] \in {"PUBLISH", "PUBREL"} /\ Token'[k] = "none"
    BY <1>9, <1>11, <2>4, <2>6, <2>9 DEF ComesWith, KeepsToken, DownKinds, Numbered
  <2> QED
    BY <1>3, <1>4, <1>6, <1>7, <1>13, <2>8, <2>9
<1> QED
  BY <1>12, <1>13

(* What each step does to the connection. *)
LEMMA SameSide ==
  ASSUME up' = up, sock' = sock \/ (sock # "none" /\ sock' # "none")
  PROVE  (Current' <=> Current) /\ (Stale' => Stale)
BY DEF Current, Stale

LEMMA BrokerReadSide ==
  ASSUME LineTypes, up # <<>>, up' = Tail(up), sock' = sock
  PROVE  /\ Stale' => Stale
         /\ Head(up).kind # "CONNECT" => (Current' <=> Current)
         /\ Head(up).kind = "CONNECT" => ~Current /\ (~Current' => Stale)
<1>1. /\ Len(up) \in Nat \ {0} /\ Head(up) = up[1] /\ Len(up') = Len(up) - 1
      /\ \A i \in 1..Len(up) - 1 : up'[i] = up[i + 1]
  BY BrokerReads
<1>2. \A i \in 1..Len(up') : i + 1 \in 1..Len(up) /\ up'[i] = up[i + 1]
  BY <1>1
<1>3. \A i \in 1..Len(up) : i # 1 => i - 1 \in 1..Len(up') /\ up'[i - 1] = up[i]
  <2> SUFFICES ASSUME NEW i \in 1..Len(up), i # 1
               PROVE  i - 1 \in 1..Len(up') /\ up'[i - 1] = up[i]
    OBVIOUS
  <2>1. i - 1 \in 1..Len(up) - 1 /\ (i - 1) + 1 = i
    BY <1>1
  <2>2. up'[i - 1] = up[(i - 1) + 1]
    BY <1>1, <2>1
  <2> QED
    BY <1>1, <2>1, <2>2
<1>4. Stale' => Stale
  <2> SUFFICES ASSUME Stale' PROVE Stale
    OBVIOUS
  <2>1. PICK a \in 1..Len(up') :
          /\ up'[a].kind = "CONNECT"
          /\ sock' = "none" \/ \E b \in a + 1..Len(up') : up'[b].kind = "CONNECT"
    BY DEF Stale
  <2>2. a + 1 \in 1..Len(up) /\ up[a + 1].kind = "CONNECT"
    BY <1>2, <2>1
  <2>3. ASSUME NEW b \in a + 1..Len(up'), up'[b].kind = "CONNECT"
        PROVE  b + 1 \in (a + 1) + 1..Len(up) /\ up[b + 1].kind = "CONNECT"
    <3>1. b \in 1..Len(up') /\ b >= a + 1 /\ b \in Nat /\ a \in Nat
      BY <1>1
    <3> QED
      BY <1>1, <1>2, <2>3, <3>1
  <2> QED
    BY <2>1, <2>2, <2>3 DEF Stale
<1>5. ASSUME Head(up).kind # "CONNECT" PROVE Current' <=> Current
  <2>1. ASSUME NEW i \in 1..Len(up), up[i].kind = "CONNECT"
        PROVE  \E j \in 1..Len(up') : up'[j].kind = "CONNECT"
    <3>1. i # 1
      BY <1>1, <1>5, <2>1
    <3>2. i - 1 \in 1..Len(up') /\ up'[i - 1] = up[i]
      BY <1>3, <3>1
    <3> QED
      BY <2>1, <3>2
  <2>2. ASSUME NEW i \in 1..Len(up'), up'[i].kind = "CONNECT"
        PROVE  \E j \in 1..Len(up) : up[j].kind = "CONNECT"
    BY <1>2, <2>2
  <2> QED
    BY <2>1, <2>2 DEF Current
<1>6. ASSUME Head(up).kind = "CONNECT" PROVE ~Current /\ (~Current' => Stale)
  <2>1. 1 \in 1..Len(up) /\ up[1].kind = "CONNECT"
    BY <1>1, <1>6
  <2>2. ASSUME NEW i \in 1..Len(up'), up'[i].kind = "CONNECT"
        PROVE  i + 1 \in 1 + 1..Len(up) /\ up[i + 1].kind = "CONNECT"
    BY <1>1, <1>2, <2>2
  <2> QED
    BY <2>1, <2>2 DEF Current, Stale
<1> QED
  BY <1>4, <1>5, <1>6

LEMMA ConnectSide ==
  ASSUME LineTypes, Connect
  PROVE  ~Current /\ ~Current' /\ (Stale' => Stale)
<1>1. /\ sock = "none" /\ sock' = "connected" /\ up' = Append(up, Ack("CONNECT", 0))
      /\ up \in Seq(Packets(UpKinds))
  BY DEF Connect, LineTypes
<1>2. Ack("CONNECT", 0) \in Packets(UpKinds) /\ Ack("CONNECT", 0).kind = "CONNECT"
  <2>1. 0 \in Nat /\ "CONNECT" \in UpKinds
    BY DEF UpKinds
  <2> QED
    BY <2>1 DEF Ack, Pkt, Packets
<1>3. /\ Len(up) \in Nat /\ Len(up') = Len(up) + 1
      /\ \A i \in 1..Len(up) : up'[i] = up[i]
      /\ up'[Len(up) + 1] = Ack("CONNECT", 0)
  BY <1>1, <1>2, AppendFacts
<1>4. ~Current'
  <2>1. Len(up) + 1 \in 1..Len(up')
    BY <1>3
  <2> QED
    BY <1>2, <1>3, <2>1 DEF Current
<1>5. ASSUME Stale' PROVE Stale
  <2>1. PICK a \in 1..Len(up') :
          /\ up'[a].kind = "CONNECT"
          /\ sock' = "none" \/ \E b \in a + 1..Len(up') : up'[b].kind = "CONNECT"
    BY <1>5 DEF Stale
  <2>2. PICK b \in a + 1..Len(up') : up'[b].kind = "CONNECT"
    BY <1>1, <2>1
  <2>3. a \in 1..Len(up) /\ up[a].kind = "CONNECT"
    BY <1>3, <2>1, <2>2
  <2> QED
    BY <1>1, <2>3 DEF Stale
<1> QED
  BY <1>1, <1>4, <1>5 DEF Current

LEMMA AppendSide ==
  ASSUME LineTypes, NEW s \in Seq(Packets(Answers)), up' = up \o s
  PROVE  /\ \A i \in 1..Len(up') : up'[i].kind = "CONNECT" => i \in 1..Len(up) /\ up'[i] = up[i]
         /\ \A i \in 1..Len(up) : i \in 1..Len(up') /\ up'[i] = up[i]
<1>1. Packets(Answers) \subseteq Packets(UpKinds)
  BY DEF Packets, UpKinds
<1>2. up \in Seq(Packets(UpKinds)) /\ s \in Seq(Packets(UpKinds))
  BY <1>1 DEF LineTypes
<1>3. /\ Len(up') = Len(up) + Len(s) /\ Len(up) \in Nat /\ Len(s) \in Nat
      /\ \A i \in 1..Len(up) : up'[i] = up[i]
      /\ \A i \in 1..Len(s) : up'[Len(up) + i] = s[i]
  BY <1>2, ConcatFacts
<1>4. \A i \in 1..Len(s) : s[i].kind \in Answers
  <2> SUFFICES ASSUME NEW i \in 1..Len(s) PROVE s[i].kind \in Answers
    OBVIOUS
  <2>1. s[i] \in Packets(Answers)
    BY ElementOfSeq
  <2> QED
    BY <2>1 DEF Packets
<1>5. ASSUME NEW i \in 1..Len(up'), up'[i].kind = "CONNECT", i \notin 1..Len(up) PROVE FALSE
  <2>1. i - Len(up) \in 1..Len(s) /\ Len(up) + (i - Len(up)) = i
    BY <1>3, <1>5
  <2>2. up'[Len(up) + (i - Len(up))] = s[i - Len(up)]
    BY <1>3, <2>1
  <2> QED
    BY <1>4, <1>5, <2>1, <2>2 DEF Answers
<1> QED
  BY <1>3, <1>5

LEMMA ThreadSide ==
  ASSUME LineTypes, ClientWrite
  PROVE  (Current' <=> Current) /\ (Stale' => Stale)
<1>1. sock # "none" /\ sock' = sock /\ up' = up \o outp /\ outp \in Seq(Packets(Answers))
  BY DEF ClientWrite, LineTypes
<1>2. /\ \A i \in 1..Len(up') : up'[i].kind = "CONNECT" => i \in 1..Len(up) /\ up'[i] = up[i]
      /\ \A i \in 1..Len(up) : i \in 1..Len(up') /\ up'[i] = up[i]
      /\ Len(up) \in Nat
  BY <1>1, AppendSide, SessionTypes
<1>3. Current' <=> Current
  BY <1>1, <1>2 DEF Current
<1>4. ASSUME Stale' PROVE Stale
  <2>1. PICK a \in 1..Len(up') :
          up'[a].kind = "CONNECT" /\ \E b \in a + 1..Len(up') : up'[b].kind = "CONNECT"
    BY <1>1, <1>4 DEF Stale
  <2>2. PICK b \in a + 1..Len(up') : up'[b].kind = "CONNECT"
    BY <2>1
  <2>3. a \in 1..Len(up) /\ up[a].kind = "CONNECT"
    BY <1>2, <2>1
  <2>4. b \in a + 1..Len(up) /\ up[b].kind = "CONNECT"
    BY <1>2, <2>2, <2>3
  <2> QED
    BY <2>3, <2>4 DEF Stale
<1> QED
  BY <1>3, <1>4

(* A packet about a message is read only on the connection that is current. *)
LEMMA ReadSide ==
  ASSUME ExchangeInv, sock # "none", down # <<>>, Head(down).kind \in {"PUBLISH", "PUBREL"}
  PROVE  /\ Current /\ ~Stale
         /\ \A kind \in Answers, mid \in Nat :
              Reply(Ack(kind, mid)) /\ sock' = sock => Current' /\ ~Stale'
         /\ \A kind \in Answers, mid \in Nat :
              (up' = up \/ Reply(Ack(kind, mid))) /\ sock' = "none" => ~Current' /\ ~Stale'
<1>1. \A i \in 1..Len(up) : up[i].kind # "CONNECT"
  BY ReadPacket
<1>2. LineTypes
  BY DEF ExchangeInv
<1>3. ASSUME NEW kind \in Answers, NEW mid \in Nat, Reply(Ack(kind, mid))
      PROVE  \A i \in 1..Len(up') : up'[i].kind # "CONNECT"
  <2>1. CASE up' = up
    BY <1>1, <2>1
  <2>2. CASE up' = Append(up, Ack(kind, mid))
    <3> DEFINE r == Ack(kind, mid)
    <3>1. r \in Packets(UpKinds) /\ r.kind = kind
      BY AckTypes DEF UpKinds
    <3>2. up \in Seq(Packets(UpKinds))
      BY <1>2 DEF LineTypes
    <3> HIDE DEF r
    <3>3. up' = Append(up, r)
      BY <2>2 DEF r
    <3>4. /\ Len(up') = Len(up) + 1 /\ Len(up) \in Nat
          /\ \A i \in 1..Len(up) : up'[i] = up[i]
          /\ up'[Len(up) + 1] = r
      BY <3>1, <3>2, <3>3, AppendFacts
    <3> QED
      BY <1>1, <3>1, <3>4 DEF Answers
  <2> QED
    BY <1>3, <2>1, <2>2 DEF Reply
<1> QED
  BY <1>1, <1>3 DEF Current, Stale

LEMMA BreakSide ==
  ASSUME Break
  PROVE  /\ ~Current' /\ (Stale' => \E a \in 1..Len(up') : up'[a].kind = "CONNECT")
         /\ breaks' = breaks + 1
BY DEF Break, Current, Stale

-----------------------------------------------------------------------------
(* The order of the messages and of their packets.                         *)
Resend == \E k \in Ids : Phase[k] = "resend_pubrel"
AnyUnheld == \E k \in Ids : Token[k] = "PUBREL" /\ Copies[k] = 0
Quiet == Resend => \A k \in Ids : Token[k] = "none" /\ Phase[k] # "wait_for_pubcomp"
Waits ==
  Current => \A k \in Ids : /\ Phase[k] \in Waiting => Token[k] \in FirstKinds
                            /\ Phase[k] = "wait_for_pubcomp" => Token[k] \in LastKinds
Front ==
  \A i, j \in 1..Len(inflight) :
    i < j /\ inflight[j].state \in Releasing => inflight[i].state \in Releasing
Sequential ==
  \A i, j \in 1..Len(inflight) : \A b \in 1..Len(Line) :
    i < j /\ Line[b].mid = inflight[j].mid =>
      \/ Line[b].kind \in FirstKinds /\ inflight[i].state \in Releasing
      \/ \E a \in 1..b - 1 : Line[a].mid = inflight[i].mid
OrderInv == Quiet /\ Waits /\ Front /\ Sequential /\ Ahead

(* The messages at e remain in flight, and others follow them. *)
Joins(l, e) ==
  /\ l \in Nat /\ Len(inflight') \in Nat /\ l <= Len(inflight')
  /\ \A i \in 1..l : /\ e[i] \in 1..Len(inflight) /\ inflight'[i].mid = inflight[e[i]].mid
                     /\ inflight[e[i]].state \in Releasing => inflight'[i].state \in Releasing
  /\ \A i, j \in 1..l : i < j => e[i] < e[j]
  /\ \A i \in 1..Len(inflight') : i > l => inflight'[i].state \in Publishing

LEMMA SameJoins ==
  ASSUME LineTypes, inflight' = inflight
  PROVE  \E l, e : Joins(l, e)
<1>1. Len(inflight) \in Nat
  BY SessionTypes
<1>2. Joins(Len(inflight), [i \in 1..Len(inflight) |-> i])
  BY <1>1 DEF Joins
<1> QED
  BY <1>2

LEMMA FrontKept ==
  ASSUME Front, NEW l, NEW e, Joins(l, e),
         \A i \in 1..l : inflight'[i].state \in Releasing => inflight[e[i]].state \in Releasing
  PROVE  Front'
<1> SUFFICES ASSUME NEW i \in 1..Len(inflight'), NEW j \in 1..Len(inflight'),
                    i < j, inflight'[j].state \in Releasing
             PROVE  inflight'[i].state \in Releasing
  BY DEF Front
<1>1. j \in 1..l /\ i \in 1..l
  BY DEF Joins, Publishing, Releasing
<1>2. /\ e[i] \in 1..Len(inflight) /\ e[j] \in 1..Len(inflight) /\ e[i] < e[j]
      /\ inflight[e[j]].state \in Releasing
  BY <1>1 DEF Joins
<1>3. inflight[e[i]].state \in Releasing
  BY <1>2 DEF Front
<1> QED
  BY <1>1, <1>3 DEF Joins

(* Packets that answer each other are of one kind, as far as order goes. *)
Alike(c, r) ==
  c \in 1..Len(Line) =>
    /\ r.mid = Line[c].mid /\ r.kind # "PUBREL"
    /\ r.kind \in FirstKinds <=> Line[c].kind \in FirstKinds
(* Nobody who remains loses a packet to gone, but for one to whom it was   *)
(* the first answer, and unless gone holds everything from there on.       *)
Spares(l, e, gone) ==
  \A a \in 1..Len(Line), i \in 1..l :
    a \in gone /\ Line[a].mid = inflight[e[i]].mid =>
      \/ inflight'[i].state \in Releasing /\ inflight[e[i]].state \notin Releasing
      \/ \A b \in 1..Len(Line) : b > a => b \in gone
(* What is written is in order. *)
InTurn(l, e, gone, s) ==
  \A x \in 1..Len(s) : \A i, j \in 1..l : i < j /\ s[x].mid = inflight[e[j]].mid =>
    \/ s[x].kind \in FirstKinds /\ inflight'[i].state \in Releasing
    \/ \E a \in 1..Len(Line) : a \notin gone /\ Line[a].mid = inflight[e[i]].mid
    \/ \E y \in 1..x - 1 : s[y].mid = inflight[e[i]].mid

LEMMA SequentialKept ==
  ASSUME ExchangeInv, ExchangeInv', Front, Sequential, NEW l, NEW e, Joins(l, e),
         NEW gone, NEW c, NEW r, NEW s, Follows(gone, c, r, s), Alike(c, r),
         Spares(l, e, gone), InTurn(l, e, gone, s)
  PROVE  Sequential'
<1> SUFFICES ASSUME NEW i \in 1..Len(inflight'), NEW j \in 1..Len(inflight'),
                    NEW b \in 1..Len(Line'),
                    i < j, Line'[b].mid = inflight'[j].mid,
                    ~(Line'[b].kind \in FirstKinds /\ inflight'[i].state \in Releasing)
             PROVE  \E a \in 1..b - 1 : Line'[a].mid = inflight'[i].mid
  BY DEF Sequential
<1>1. PICK n, f : Moves(n, f, gone, c, r, s)
  BY DEF Follows
<1>2. inflight'[j].state \in Waiting \cup {"wait_for_pubcomp"}
  BY DEF ExchangeInv, StateInv, Answerable
<1>3. i \in 1..l /\ j \in 1..l
  BY <1>2 DEF Joins, Publishing, Waiting
<1>4. /\ e[i] \in 1..Len(inflight) /\ e[j] \in 1..Len(inflight) /\ e[i] < e[j]
      /\ inflight'[i].mid = inflight[e[i]].mid /\ inflight'[j].mid = inflight[e[j]].mid
      /\ inflight[e[i]].state \in Releasing => inflight'[i].state \in Releasing
  BY <1>3 DEF Joins
<1>5. n \in Nat /\ Len(s) \in Nat /\ Len(Line') = n + Len(s)
  BY <1>1 DEF Moves
<1>6. ASSUME NEW a \in 1..Len(Line), a \notin gone, Line[a].mid = inflight[e[i]].mid
      PROVE  \E x \in 1..n : f[x] = a /\ Line'[x].mid = inflight'[i].mid
  <2>1. PICK x \in 1..n : f[x] = a
    BY <1>1, <1>6 DEF Moves
  <2>2. Line'[x] = IF a = c THEN r ELSE Line[a]
    BY <1>1, <2>1 DEF Moves
  <2> QED
    BY <1>4, <1>6, <2>1, <2>2 DEF Alike
<1>7. CASE b <= n
  <2>1. /\ f[b] \in 1..Len(Line) /\ f[b] \notin gone
        /\ Line'[b] = IF f[b] = c THEN r ELSE Line[f[b]]
    BY <1>1, <1>7 DEF Moves
  <2>2. /\ Line[f[b]].mid = inflight[e[j]].mid
        /\ Line[f[b]].kind \in FirstKinds <=> Line'[b].kind \in FirstKinds
    BY <1>4, <2>1 DEF Alike
  <2>3. PICK a \in 1..f[b] - 1 : Line[a].mid = inflight[e[i]].mid
    BY <1>4, <2>1, <2>2 DEF Sequential
  <2>4. a \in 1..Len(Line) /\ a < f[b]
    BY <2>1
  <2>5. a \notin gone
    <3> SUFFICES ASSUME a \in gone, inflight'[i].state \in Releasing,
                        inflight[e[i]].state \notin Releasing
                 PROVE  FALSE
      BY <1>3, <2>1, <2>3, <2>4 DEF Spares
    <3>1. Line[f[b]].kind \notin FirstKinds
      BY <2>2
    <3>2. inflight[e[j]].state = "wait_for_pubcomp"
      BY <1>4, <2>1, <2>2, <3>1 DEF ExchangeInv, StateInv, Answerable
    <3> QED
      BY <1>4, <3>2 DEF Front, Releasing
  <2>6. PICK x \in 1..n : f[x] = a /\ Line'[x].mid = inflight'[i].mid
    BY <1>6, <2>3, <2>4, <2>5
  <2>7. x < b
    <3>1. ~(b < x)
      BY <1>1, <1>5, <1>7, <2>1, <2>4, <2>6 DEF Moves
    <3>2. x # b
      BY <2>1, <2>4, <2>6
    <3> QED
      BY <1>5, <3>1, <3>2
  <2>8. x \in 1..b - 1
    BY <1>5, <2>7
  <2> QED
    BY <2>6, <2>8
<1>8. CASE b > n
  <2>1. b - n \in 1..Len(s) /\ n + (b - n) = b
    BY <1>5, <1>8
  <2>2. Line'[b] = s[b - n]
    BY <1>1, <2>1 DEF Moves
  <2>3. \/ \E a \in 1..Len(Line) : a \notin gone /\ Line[a].mid = inflight[e[i]].mid
        \/ \E y \in 1..(b - n) - 1 : s[y].mid = inflight[e[i]].mid
    BY <1>3, <1>4, <2>1, <2>2 DEF InTurn
  <2>4. CASE \E a \in 1..Len(Line) : a \notin gone /\ Line[a].mid = inflight[e[i]].mid
    <3>1. PICK x \in 1..n : Line'[x].mid = inflight'[i].mid
      BY <1>6, <2>4
    <3>2. x \in 1..b - 1
      BY <1>5, <1>8
    <3> QED
      BY <3>1, <3>2
  <2>5. CASE \E y \in 1..(b - n) - 1 : s[y].mid = inflight[e[i]].mid
    <3>1. PICK y \in 1..(b - n) - 1 : s[y].mid = inflight[e[i]].mid
      BY <2>5
    <3>2. y \in 1..Len(s) /\ n + y \in 1..b - 1
      BY <1>5, <2>1
    <3>3. Line'[n + y] = s[y]
      BY <1>1, <3>2 DEF Moves
    <3> QED
      BY <1>4, <3>1, <3>2, <3>3
  <2> QED
    BY <2>3, <2>4, <2>5
<1> QED
  BY <1>5, <1>7, <1>8

LEMMA AheadKept ==
  ASSUME ExchangeInv', Ahead, given' = given,
         NEW gone, NEW c, NEW r, NEW s, Follows(gone, c, r, s), Alike(c, r),
         \A k \in Ids : Token'[k] = "PUBREL" /\ Copies'[k] = 0 => Copies[k] = 0,
         \A x \in 1..Len(s) : s[x].kind = "PUBREL" /\ Copies'[s[x].mid] = 0 =>
           /\ \A a \in 1..Len(Line) : Line[a].kind \notin FirstKinds
           /\ \A y \in 1..x - 1 : s[y].kind \notin FirstKinds
  PROVE  Ahead'
<1> SUFFICES ASSUME NEW b \in 1..Len(Line'), Line'[b].kind = "PUBREL", Copies'[Line'[b].mid] = 0,
                    NEW a \in 1..b - 1
             PROVE  Line'[a].kind \notin FirstKinds
  BY DEF Ahead, Unheld
<1>1. PICK n, f : Moves(n, f, gone, c, r, s)
  BY DEF Follows
<1>2. n \in Nat /\ Len(s) \in Nat /\ Len(Line') = n + Len(s) /\ a \in 1..Len(Line') /\ a < b
  <2>1. n \in Nat /\ Len(s) \in Nat /\ Len(Line') = n + Len(s)
    BY <1>1 DEF Moves
  <2> QED
    BY <2>1
<1>3. ASSUME NEW x \in 1..n
      PROVE  /\ f[x] \in 1..Len(Line) /\ f[x] \notin gone
             /\ Line'[x] = IF f[x] = c THEN r ELSE Line[f[x]]
             /\ Line[f[x]].kind \notin FirstKinds => Line'[x].kind \notin FirstKinds
  <2>1. /\ f[x] \in 1..Len(Line) /\ f[x] \notin gone
        /\ Line'[x] = IF f[x] = c THEN r ELSE Line[f[x]]
    BY <1>1 DEF Moves
  <2> QED
    BY <2>1 DEF Alike
<1>4. CASE b <= n
  <2>1. a \in 1..n /\ b \in 1..n
    BY <1>2, <1>4
  <2>2. f[a] < f[b]
    BY <1>1, <1>2, <2>1 DEF Moves
  <2>3. f[b] # c /\ Line'[b] = Line[f[b]] /\ f[b] \in 1..Len(Line)
    BY <1>3, <2>1 DEF Alike
  <2>4. Line[f[b]].mid \in Ids /\ Token'[Line[f[b]].mid] = "PUBREL"
    <3>1. View' /\ FitInv' /\ Ids' = Ids
      BY ViewAfter DEF ExchangeInv, Ids
    <3>2. Line'[b].mid # 0
      BY <3>1 DEF FitInv, FitsPacket
    <3> QED
      BY <2>3, <3>1, <3>2 DEF View, OnLineView
  <2>5. Copies[Line[f[b]].mid] = 0 /\ Line[f[b]].kind = "PUBREL"
    BY <2>3, <2>4
  <2>6. f[a] \in 1..f[b] - 1
    BY <1>3, <2>1, <2>2, <2>3
  <2>7. Line[f[a]].kind \notin FirstKinds
    BY <2>3, <2>5, <2>6 DEF Ahead, Unheld
  <2> QED
    BY <1>3, <2>1, <2>7
<1>5. CASE b > n
  <2>1. b - n \in 1..Len(s) /\ n + (b - n) = b
    BY <1>2, <1>5
  <2>2. Line'[b] = s[b - n]
    BY <1>1, <2>1 DEF Moves
  <2>3. /\ \A x \in 1..Len(Line) : Line[x].kind \notin FirstKinds
        /\ \A y \in 1..(b - n) - 1 : s[y].kind \notin FirstKinds
    BY <2>1, <2>2
  <2>4. CASE a <= n
    BY <1>2, <1>3, <2>3, <2>4
  <2>5. CASE a > n
    <3>1. a - n \in 1..(b - n) - 1 /\ a - n \in 1..Len(s) /\ n + (a - n) = a
      BY <1>2, <2>1, <2>5
    <3>2. Line'[a] = s[a - n]
      BY <1>1, <3>1 DEF Moves
    <3> QED
      BY <2>3, <3>1, <3>2
  <2> QED
    BY <1>2, <2>4, <2>5
<1> QED
  BY <1>2, <1>4, <1>5

LEMMA QuietSide ==
  ASSUME LineTypes, Silent
  PROVE  /\ (Current' <=> Current) /\ (Stale' => Stale)
         /\ breaks' = breaks /\ threaded' = threaded /\ dropped' = dropped
<1>1. breaks' = breaks /\ threaded' = threaded /\ dropped' = dropped
  BY DEF Silent, Connect, ClientWrite, Expire, Offline, ReadsNothing, TakesConnack, Takes,
         ClientSide, vars, config
<1>2. CASE Connect
  BY <1>1, <1>2, ConnectSide
<1>3. CASE ClientWrite
  BY <1>1, <1>3, ThreadSide
<1>4. CASE Expire \/ Offline \/ UNCHANGED vars
  <2>1. up' = up /\ sock' = sock
    BY <1>4 DEF Expire, Offline, vars, client
  <2> QED
    BY <1>1, <2>1, SameSide
<1>5. CASE TakesConnack(Head(down))
  <2>1. up' = up /\ sock # "none" /\ sock' # "none"
    BY <1>5 DEF TakesConnack, Takes
  <2> QED
    BY <1>1, <2>1, SameSide
<1>6. CASE ReadsNothing
  <2>1. up # <<>> /\ up' = Tail(up) /\ sock' = sock /\ Head(up).kind # "CONNECT"
    BY <1>6 DEF ReadsNothing, client
  <2> QED
    BY <1>1, <1>6, <2>1, BrokerReadSide
<1> QED
  BY <1>2, <1>3, <1>4, <1>5, <1>6 DEF Silent

(* Where no message changes its phase or its packet, but some may go.      *)
LEMMA StillWaits ==
  ASSUME Quiet, Waits, Ids' = Ids, Current' => Current,
         \A k \in Ids : Phase'[k] = Phase[k],
         \A k \in Ids : \/ Token'[k] = Token[k]
                        \/ /\ Current' /\ Token[k] = "PUBLISH" /\ Token'[k] \in FirstKinds
                           /\ Phase[k] # "wait_for_pubcomp"
                        \/ /\ Current' /\ Token[k] = "PUBREL" /\ Token'[k] \in LastKinds
                           /\ Phase[k] \notin Waiting
                        \/ ~Current' /\ Token[k] # "none"
                        \/ Token'[k] = "none" /\ ~Current'
  PROVE  Quiet' /\ Waits'
<1>1. (Resend' <=> Resend)
  BY DEF Resend
<1>2. Quiet'
  BY <1>1 DEF Quiet, FirstKinds
<1>3. Waits'
  BY DEF Waits, FirstKinds, LastKinds, Waiting
<1> QED
  BY <1>2, <1>3

LEMMA NothingInTurn ==
  ASSUME ExchangeInv, NEW s, \A x \in 1..Len(s) : s[x].mid = 0, NEW l, NEW e, Joins(l, e),
         NEW gone
  PROVE  InTurn(l, e, gone, s)
<1>1. \A j \in 1..Len(inflight) : inflight[j].mid # 0
  BY ViewFacts DEF View, InSessionView
<1> QED
  BY <1>1 DEF InTurn, Joins

LEMMA NothingAnswered ==
  ASSUME LineTypes, NEW r
  PROVE  Alike(0, r)
BY DEF Alike

LEMMA NothingSpared ==
  ASSUME ExchangeInv, NEW gone, NEW l, NEW e, Joins(l, e),
         (\A b \in 1..Len(Line) : b \in gone => Line[b].mid = 0)
           \/ \E n \in 0..Len(Line) : gone = {b \in 1..Len(Line) : b > n}
  PROVE  Spares(l, e, gone)
<1>1. \A j \in 1..Len(inflight) : inflight[j].mid # 0
  BY ViewFacts DEF View, InSessionView
<1>2. CASE \A b \in 1..Len(Line) : b \in gone => Line[b].mid = 0
  BY <1>1, <1>2 DEF Spares, Joins
<1>3. CASE \E n \in 0..Len(Line) : gone = {b \in 1..Len(Line) : b > n}
  <2>1. Len(Line) \in Nat
    BY LineFacts DEF ExchangeInv, LineParts
  <2>2. PICK n \in 0..Len(Line) : gone = {b \in 1..Len(Line) : b > n}
    BY <1>3
  <2>3. \A a, b \in 1..Len(Line) : a \in gone /\ b > a => b \in gone
    BY <2>1, <2>2
  <2> QED
    BY <2>3 DEF Spares
<1> QED
  BY <1>2, <1>3

(* The session stays; what moves on the line is alike. *)
LEMMA SameOrder ==
  ASSUME ExchangeInv, ExchangeInv', OrderInv, given' = given, inflight' = inflight,
         NEW gone, NEW c, NEW r, NEW s, Follows(gone, c, r, s), Alike(c, r),
         \A b \in 1..Len(s) : s[b].mid = 0 /\ s[b].kind \notin FirstKinds \cup {"PUBREL"},
         (\A b \in 1..Len(Line) : b \in gone => Line[b].mid = 0)
           \/ \E n \in 0..Len(Line) : gone = {b \in 1..Len(Line) : b > n},
         \A k \in Ids : Token'[k] = "PUBREL" /\ Copies'[k] = 0 => Copies[k] = 0
  PROVE  Front' /\ Sequential' /\ Ahead'
<1>1. PICK l, e : Joins(l, e)
  BY SameJoins DEF ExchangeInv
<1>2. Front'
  BY DEF OrderInv, Front
<1>3. Spares(l, e, gone)
  BY <1>1, NothingSpared
<1>4. InTurn(l, e, gone, s)
  BY <1>1, NothingInTurn
<1>5. Sequential'
  BY <1>1, <1>3, <1>4, SequentialKept DEF OrderInv
<1>6. Ahead'
  BY AheadKept DEF OrderInv
<1> QED
  BY <1>2, <1>5, <1>6

LEMMA QuietOrder ==
  ASSUME NoneComesRound, ExchangeInv, ExchangeInv', OrderInv, Silent
  PROVE  OrderInv'
<1>1. LineTypes /\ LineTypes'
  BY ViewAfter DEF ExchangeInv
<1>2. /\ given' = given /\ inflight' = inflight
      /\ \A k \in Ids : Stays(k) /\ KeepsToken(k) /\ KeepsCopies(k)
  BY QuietView
<1>3. Current' <=> Current
  BY <1>1, QuietSide
<1>4. PICK gone, s : /\ Follows(gone, 0, 0, s)
                     /\ \A b \in 1..Len(Line) : b \in gone => Line[b].mid = 0
                     /\ \A i \in 1..Len(s) : s[i].mid = 0 /\ s[i].kind = "CONNECT"
  BY <1>1, QuietFollows
<1>5. \A b \in 1..Len(s) : s[b].mid = 0 /\ s[b].kind \notin FirstKinds \cup {"PUBREL"}
  BY <1>4 DEF FirstKinds
<1>6. Front' /\ Sequential' /\ Ahead'
  <2>1. Alike(0, 0)
    BY <1>1, NothingAnswered
  <2>2. \A k \in Ids : Token'[k] = "PUBREL" /\ Copies'[k] = 0 => Copies[k] = 0
    BY <1>2 DEF KeepsCopies
  <2> QED
    BY <1>2, <1>4, <1>5, <2>1, <2>2, SameOrder
<1>7. Quiet' /\ Waits'
  <2>1. Ids' = Ids
    BY <1>2 DEF Ids
  <2> QED
    BY <1>2, <1>3, <2>1, StillWaits DEF OrderInv, Stays, KeepsToken
<1> QED
  BY <1>6, <1>7 DEF OrderInv

LEMMA SendSide ==
  ASSUME NEW qos, NEW expires, Send(qos, expires)
  PROVE  /\ (Current' <=> Current) /\ (Stale' => Stale) /\ Line' = Line
         /\ breaks' = breaks /\ threaded' = threaded
<1>1. UNCHANGED <<sock, up, outp, down, breaks, threaded>>
  BY DEF Send, config
<1>2. Line' = Line
  BY <1>1 DEF Line, Unwritten
<1> QED
  BY <1>1, <1>2, SameSide

LEMMA SendOrder ==
  ASSUME NoneComesRound, ExchangeInv, ExchangeInv', OrderInv,
         NEW qos \in 1..2, NEW expires \in Expiring, Send(qos, expires)
  PROVE  OrderInv'
<1> DEFINE new == Len(given) + 1
<1>1. LineTypes /\ LineTypes' /\ View
  BY ViewFacts, ViewAfter DEF ExchangeInv
<1>2. (Current' <=> Current) /\ Line' = Line
  BY SendSide
<1>3. /\ Ids' = Ids \cup {new} /\ new \notin Ids
      /\ \A k \in Ids : Stays(k) /\ KeepsToken(k) /\ KeepsCopies(k)
      /\ Token'[new] = "none"
      /\ Phase'[new] \in {"queued"} \cup Publishing \/ Phase'[new] = "none"
  BY SentView
<1> HIDE DEF new
<1>4. Resend' => Resend
  <2>1. Phase'[new] # "resend_pubrel"
    BY <1>3 DEF Publishing
  <2> QED
    BY <1>3, <2>1 DEF Resend, Stays
<1>5. Quiet'
  BY <1>3, <1>4 DEF OrderInv, Quiet, Stays, KeepsToken, Publishing
<1>6. Waits'
  BY <1>2, <1>3 DEF OrderInv, Waits, Stays, KeepsToken, Publishing, Waiting
<1>7. \E l, e : /\ Joins(l, e)
                /\ \A i \in 1..l : inflight'[i] = inflight[e[i]]
  <2>1. CASE inflight' = inflight
    <3>1. Len(inflight) \in Nat
      BY <1>1, SessionTypes
    <3>2. Joins(Len(inflight), [i \in 1..Len(inflight) |-> i])
      BY <2>1, <3>1 DEF Joins
    <3> QED
      BY <2>1, <3>2
  <2>2. CASE inflight' = Append(inflight, ToPublish(NewMessage(qos)))
    <3> DEFINE m == ToPublish(NewMessage(qos))
               l == Len(inflight)
               e == [i \in 1..l |-> i]
    <3>1. NewMessage(qos) \in Messages
      BY <1>1, InsertedMessage
    <3>2. m \in Messages /\ m.state \in Publishing
      BY <3>1, MovedTypes DEF ToPublish, Publishing, Messages
    <3> HIDE DEF m
    <3>3. inflight \in Seq(Messages) /\ inflight' = Append(inflight, m)
      BY <1>1, <2>2 DEF LineTypes, m
    <3>4. /\ l \in Nat /\ Len(inflight') = l + 1
          /\ \A i \in 1..l : inflight'[i] = inflight[i]
          /\ inflight'[l + 1] = m
      BY <3>2, <3>3, AppendFacts
    <3>5. \A i \in 1..Len(inflight') : i > l => i = l + 1
      BY <3>4
    <3> HIDE DEF l
    <3>6. \A i \in 1..l : e[i] = i /\ i \in 1..Len(inflight)
      BY DEF l
    <3>7. /\ \A i \in 1..l : e[i] \in 1..Len(inflight) /\ inflight'[i] = inflight[e[i]]
          /\ \A i, j \in 1..l : i < j => e[i] < e[j]
          /\ \A i \in 1..Len(inflight') : i > l => inflight'[i].state \in Publishing
      BY <3>2, <3>4, <3>5, <3>6
    <3> HIDE DEF e
    <3>8. Joins(l, e)
      BY <3>4, <3>7 DEF Joins
    <3> QED
      BY <3>7, <3>8
  <2> QED
    BY <1>1, <2>1, <2>2, InsertedMessage
<1>8. PICK l, e : Joins(l, e) /\ \A i \in 1..l : inflight'[i] = inflight[e[i]]
  BY <1>7
<1>9. Front'
  BY <1>8, FrontKept DEF OrderInv
<1>10. Sequential'
  <2>1. Follows({}, 0, 0, <<>>) /\ Alike(0, 0)
    BY <1>1, <1>2, LineKept, NothingAnswered
  <2>2. Spares(l, e, {})
    BY DEF Spares
  <2>3. InTurn(l, e, {}, <<>>)
    BY <1>8, NothingInTurn
  <2> QED
    BY <1>8, <2>1, <2>2, <2>3, SequentialKept DEF OrderInv
<1>11. Ahead'
  <2> SUFFICES ASSUME NEW b \in 1..Len(Line), Line[b].kind = "PUBREL", Copies'[Line[b].mid] = 0,
                      NEW a \in 1..b - 1
               PROVE  Line[a].kind \notin FirstKinds
    BY <1>2 DEF Ahead, Unheld
  <2>1. Line[b].mid \in Ids
    BY DEF ExchangeInv, FitInv, FitsPacket
  <2>2. Copies[Line[b].mid] = 0
    BY <1>3, <2>1 DEF KeepsCopies
  <2> QED
    BY <2>2 DEF OrderInv, Ahead, Unheld
<1> QED
  BY <1>5, <1>6, <1>9, <1>10, <1>11 DEF OrderInv

(* The connection breaks, or the client closes it. *)
LEMMA BreakOrder ==
  ASSUME NoneComesRound, ExchangeInv, ExchangeInv', OrderInv, Break
  PROVE  OrderInv'
<1>1. LineTypes /\ LineTypes'
  BY ViewAfter DEF ExchangeInv
<1>2. given' = given /\ inflight' = inflight
  BY DEF Break, session
<1>3. \A k \in Ids : Stays(k) /\ KeepsCopies(k) /\ Loses(k)
  BY BreakView
<1>4. ~Current'
  BY BreakSide
<1>5. PICK n \in 0..Len(Line) : Follows({b \in 1..Len(Line) : b > n}, 0, 0, <<>>)
  BY <1>1, BrokenLine
<1>6. Front' /\ Sequential' /\ Ahead'
  <2> DEFINE gone == {b \in 1..Len(Line) : b > n}
  <2>1. Follows(gone, 0, 0, <<>>) /\ Alike(0, 0)
    BY <1>1, <1>5, NothingAnswered
  <2>2. \E x \in 0..Len(Line) : gone = {b \in 1..Len(Line) : b > x}
    OBVIOUS
  <2>3. \A b \in 1..Len(<<>>) : <<>>[b].mid = 0 /\ <<>>[b].kind \notin FirstKinds \cup {"PUBREL"}
    OBVIOUS
  <2>4. \A k \in Ids : Token'[k] = "PUBREL" /\ Copies'[k] = 0 => Copies[k] = 0
    BY <1>3 DEF KeepsCopies
  <2> HIDE DEF gone
  <2> QED
    BY <1>2, <2>1, <2>2, <2>3, <2>4, SameOrder
<1>7. Quiet' /\ Waits'
  <2>1. Ids' = Ids
    BY <1>2 DEF Ids
  <2> QED
    BY <1>3, <1>4, <2>1, StillWaits DEF OrderInv, Stays, Loses, KeepsToken
<1> QED
  BY <1>6, <1>7 DEF OrderInv

LEMMA RefusedPublishOrder ==
  ASSUME NoneComesRound, ExchangeInv, ExchangeInv', OrderInv, NEW p, RefusesPublish(p)
  PROVE  OrderInv' /\ ~Current' /\ ~Stale' /\ Current /\ ~Stale
<1>1. LineTypes /\ LineTypes' /\ LineParts
  BY ViewAfter, LineFacts DEF ExchangeInv
<1>2. /\ given' = given /\ inflight' = inflight /\ sock' = "none" /\ up' = up
      /\ sock # "none" /\ down # <<>> /\ p = Head(down) /\ p.kind = "PUBLISH"
  BY DEF RefusesPublish, ClientSide, session, Close
<1>3. \A k \in Ids : /\ Stays(k) /\ KeepsCopies(k)
                     /\ KeepsToken(k) \/ (Token[k] \in {"PUBLISH", "PUBREL"} /\ Token'[k] = "none")
  BY RefusedPublishView
<1>4. Current /\ ~Stale /\ ~Current' /\ ~Stale'
  <2>1. "PUBACK" \in Answers /\ 0 \in Nat
    BY DEF Answers
  <2> QED
    BY <1>2, <2>1, ReadSide
<1>5. Follows({b \in 1..Len(Line) : b > Len(up)}, 0, 0, <<>>)
  BY <1>1, <1>2, RefusedLine
<1>6. Front' /\ Sequential' /\ Ahead'
  <2> DEFINE gone == {b \in 1..Len(Line) : b > Len(up)}
  <2>1. Follows(gone, 0, 0, <<>>) /\ Alike(0, 0)
    BY <1>1, <1>5, NothingAnswered
  <2>2. \E x \in 0..Len(Line) : gone = {b \in 1..Len(Line) : b > x}
    BY <1>1 DEF LineParts
  <2>3. \A b \in 1..Len(<<>>) : <<>>[b].mid = 0 /\ <<>>[b].kind \notin FirstKinds \cup {"PUBREL"}
    OBVIOUS
  <2>4. \A k \in Ids : Token'[k] = "PUBREL" /\ Copies'[k] = 0 => Copies[k] = 0
    BY <1>3 DEF KeepsCopies
  <2> HIDE DEF gone
  <2> QED
    BY <1>2, <2>1, <2>2, <2>3, <2>4, SameOrder
<1>7. Quiet' /\ Waits'
  <2>1. Ids' = Ids
    BY <1>2 DEF Ids
  <2> QED
    BY <1>3, <1>4, <2>1, StillWaits DEF OrderInv, Stays, KeepsToken
<1> QED
  BY <1>4, <1>6, <1>7 DEF OrderInv

LEMMA RefusedPubrelOrder ==
  ASSUME NoneComesRound, ExchangeInv, ExchangeInv', OrderInv, NEW p, RefusesPubrel(p)
  PROVE  OrderInv' /\ ~Current' /\ ~Stale' /\ Current /\ ~Stale
<1>1. LineTypes /\ LineTypes' /\ LineParts
  BY ViewAfter, LineFacts DEF ExchangeInv
<1>2. /\ given' = given /\ inflight' = inflight /\ sock' = "none"
      /\ sock # "none" /\ down # <<>> /\ p = Head(down) /\ p.kind = "PUBREL"
      /\ Reply(Ack("PUBCOMP", p.mid))
  BY DEF RefusesPubrel, ClientSide, session, Close
<1>3. /\ p.mid \in Ids /\ Token[p.mid] = "PUBREL"
      /\ \A k \in Ids :
           /\ Stays(k) /\ KeepsCopies(k)
           /\ \/ k = p.mid /\ Token'[k] \in {"PUBCOMP", "none"}
              \/ KeepsToken(k)
              \/ Token[k] \in {"PUBLISH", "PUBREL"} /\ Token'[k] = "none"
              \/ threaded /\ Token[k] = "PUBCOMP" /\ Token'[k] = "none"
  BY RefusedPubrelView DEF OrderInv
<1>4. /\ p = Line[Unread + 1] /\ Unread + 1 \in 1..Len(Line) /\ Unread \in Nat
      /\ p.mid \in Nat
  BY <1>2, ReadPacket
<1>5. Current /\ ~Stale /\ ~Current' /\ ~Stale'
  <2>1. "PUBCOMP" \in Answers
    BY DEF Answers
  <2> QED
    BY <1>2, <1>4, <2>1, ReadSide
<1>6. \A k \in Ids : Token'[k] = "PUBREL" /\ Copies'[k] = 0 => Copies[k] = 0
  BY <1>3 DEF KeepsCopies
<1>7. \A b \in 1..Len(<<>>) : <<>>[b].mid = 0 /\ <<>>[b].kind \notin FirstKinds \cup {"PUBREL"}
  OBVIOUS
<1>8. ASSUME threaded PROVE Front' /\ Sequential' /\ Ahead'
  <2> DEFINE gone == {b \in 1..Len(Line) : b > Len(up)}
  <2>1. up' = up
    BY <1>2, <1>8 DEF Reply
  <2>2. Follows(gone, 0, 0, <<>>) /\ Alike(0, 0)
    BY <1>1, <1>2, <2>1, RefusedLine, NothingAnswered
  <2>3. \E x \in 0..Len(Line) : gone = {b \in 1..Len(Line) : b > x}
    BY <1>1 DEF LineParts
  <2> HIDE DEF gone
  <2> QED
    BY <1>2, <1>6, <1>7, <2>2, <2>3, SameOrder
<1>9. ASSUME ~threaded PROVE Front' /\ Sequential' /\ Ahead'
  <2> DEFINE gone == {b \in 1..Len(Line) : b > Unread + 1}
             c == Unread + 1
             r == Ack("PUBCOMP", p.mid)
  <2>1. up' = Append(up, r)
    BY <1>2, <1>9 DEF Reply
  <2>2. Follows(gone, c, r, <<>>)
    BY <1>1, <1>2, <1>9, <2>1, RefusedAnswerLine
  <2>3. r.mid = p.mid /\ r.kind = "PUBCOMP"
    BY DEF Ack, Pkt
  <2>4. \E x \in 0..Len(Line) : gone = {b \in 1..Len(Line) : b > x}
    BY <1>1, <1>4
  <2> HIDE DEF gone, r
  <2>5. Alike(c, r)
    BY <1>2, <1>4, <2>3 DEF Alike, FirstKinds
  <2> HIDE DEF c
  <2> QED
    BY <1>2, <1>6, <1>7, <2>2, <2>4, <2>5, SameOrder
<1>10. Quiet' /\ Waits'
  <2>1. Ids' = Ids
    BY <1>2 DEF Ids
  <2>2. \A k \in Ids : Phase'[k] = Phase[k]
    BY <1>3 DEF Stays
  <2>3. ASSUME NEW k \in Ids
        PROVE  Token'[k] = Token[k] \/ (~Current' /\ Token[k] # "none")
    BY <1>3, <1>5 DEF KeepsToken
  <2> QED
    BY <1>5, <2>1, <2>2, <2>3, StillWaits DEF OrderInv
<1> QED
  BY <1>5, <1>8, <1>9, <1>10 DEF OrderInv

LEMMA TakenOrder ==
  ASSUME NoneComesRound, ExchangeInv, ExchangeInv', OrderInv, NEW p,
         TakesQoS1(p) \/ TakesQoS2(p) \/ TakesPubrel(p)
  PROVE  OrderInv' /\ Current' /\ Current /\ ~Stale /\ ~Stale'
<1>1. LineTypes /\ LineTypes' /\ View
  BY ViewFacts, ViewAfter DEF ExchangeInv
<1>2. /\ given' = given /\ inflight' = inflight /\ sock' = sock /\ Takes(p)
      /\ sock # "none" /\ down # <<>> /\ p = Head(down) /\ down' = Tail(down)
      /\ p.kind \in {"PUBLISH", "PUBREL"} /\ threaded' = threaded
  BY DEF TakesQoS1, TakesQoS2, TakesPubrel, Takes, ClientSide, session, config
<1>3. PICK kind \in Answers : /\ Reply(Ack(kind, p.mid))
                              /\ kind \in FirstKinds <=> p.kind = "PUBLISH"
  BY DEF TakesQoS1, TakesQoS2, TakesPubrel, Answers, FirstKinds
<1>4. \A k \in Ids : /\ Stays(k)
                     /\ \/ k = p.mid /\ (Passes(k) \/ Keeps(k) \/ Delivers(k))
                        \/ k # p.mid /\ KeepsToken(k) /\ KeepsCopies(k)
  BY TakenView
<1>5. /\ p = Line[Unread + 1] /\ Unread + 1 \in 1..Len(Line) /\ Unread \in Nat
      /\ p.mid \in Nat
  BY <1>2, ReadPacket
<1>6. Current /\ Current' /\ ~Stale /\ ~Stale'
  BY <1>2, <1>3, <1>5, ReadSide
<1>7. \A k \in Ids : Token'[k] = "PUBREL" /\ Copies'[k] = 0 => Copies[k] = 0
  BY <1>4 DEF KeepsCopies, Passes, Keeps, Delivers
<1>8. Front' /\ Sequential' /\ Ahead'
  <2> DEFINE c == Unread + 1
             r == Ack(kind, p.mid)
  <2>1. Follows({}, c, r, <<>>)
    BY <1>1, <1>2, <1>3, ReplyLine
  <2>2. r.mid = p.mid /\ r.kind = kind
    BY DEF Ack, Pkt
  <2> HIDE DEF r
  <2>3. Alike(c, r)
    BY <1>2, <1>3, <1>5, <2>2 DEF Alike, FirstKinds, Answers
  <2>4. \A b \in 1..Len(<<>>) : <<>>[b].mid = 0 /\ <<>>[b].kind \notin FirstKinds \cup {"PUBREL"}
    OBVIOUS
  <2> HIDE DEF c
  <2> QED
    BY <1>2, <1>7, <2>1, <2>3, <2>4, SameOrder
<1>9. Quiet' /\ Waits'
  <2>1. Ids' = Ids
    BY <1>2 DEF Ids
  <2>2. \A k \in Ids : Phase'[k] = Phase[k]
    BY <1>4 DEF Stays
  <2>3. ASSUME NEW k \in Ids
        PROVE  \/ Token'[k] = Token[k]
               \/ /\ Current' /\ Token[k] = "PUBLISH" /\ Token'[k] \in FirstKinds
                  /\ Phase[k] # "wait_for_pubcomp"
               \/ /\ Current' /\ Token[k] = "PUBREL" /\ Token'[k] \in LastKinds
                  /\ Phase[k] \notin Waiting
    <3>1. /\ Token[k] = "PUBREL" => Phase[k] \notin Waiting
          /\ Token[k] = "PUBLISH" => Phase[k] # "wait_for_pubcomp"
      BY <1>1 DEF View, Fitting, Waiting, FirstKinds
    <3> QED
      BY <1>4, <1>6, <3>1 DEF KeepsToken, Passes, Keeps, Delivers, FirstKinds, LastKinds
  <2> QED
    BY <1>6, <2>1, <2>2, <2>3, StillWaits DEF OrderInv
<1> QED
  BY <1>6, <1>8, <1>9 DEF OrderInv

LEMMA AckOrder ==
  ASSUME NoneComesRound, ExchangeInv, ExchangeInv', OrderInv, ReadsAck(Head(up))
  PROVE  OrderInv' /\ (Current' <=> Current) /\ (Stale' => Stale)
<1>1. LineTypes /\ LineTypes' /\ View
  BY ViewFacts, ViewAfter DEF ExchangeInv
<1> DEFINE p == Head(up)
<1>2. /\ UNCHANGED <<given, sock>> /\ up # <<>> /\ up' = Tail(up) /\ p.kind \in {"PUBACK", "PUBCOMP"}
      /\ inflight' = Without(inflight, p.mid)
                       \o Map(ToPublish, SubSeq(queued, 1, Lower(Len(queued), FreePlaces(p.mid))))
      /\ queued' = SubSeq(queued, Lower(Len(queued), FreePlaces(p.mid)) + 1, Len(queued))
  BY DEF ReadsAck, Deletes, client
<1>3. p = Line[1] /\ 1 \in 1..Len(Line)
  BY <1>1, <1>2, BrokerReads
<1>4. (Current' <=> Current) /\ (Stale' => Stale)
  BY <1>1, <1>2, BrokerReadSide
<1>5. \A k \in Ids : /\ KeepsCopies(k)
                     /\ IF k = p.mid THEN Ends(k, {"PUBACK", "PUBCOMP"})
                                     ELSE Advances(k) /\ KeepsToken(k)
  BY AckView
<1>6. p.mid \in Ids
  BY <1>2, <1>3 DEF ExchangeInv, FitInv, FitsPacket
<1>7. Ids' = Ids
  BY <1>2 DEF Ids
<1> HIDE DEF p
<1>8. PICK l, e : /\ Carries(l, e, Lower(Len(queued), FreePlaces(p.mid)))
                  /\ RemainsBut(l, e, p.mid)
  BY <1>1, <1>2, DeletedSession
<1>9. /\ Joins(l, e) /\ \A i \in 1..l : /\ inflight'[i] = inflight[e[i]]
                                        /\ inflight[e[i]].mid # p.mid
  <2> DEFINE n == Lower(Len(queued), FreePlaces(p.mid))
  <2>1. Carries(l, e, n)
    BY <1>8
  <2> HIDE DEF n
  <2>8. Len(queued) \in Nat
    BY <1>1, SessionTypes
  <2>9. /\ l \in Nat /\ n \in 0..Len(queued) /\ Len(inflight') = l + n
        /\ \A i \in 1..l : e[i] \in 1..Len(inflight)
        /\ \A i, j \in 1..l : i < j => e[i] < e[j]
        /\ \A i \in 1..n : inflight'[l + i] = ToPublish(queued[i])
    BY <2>1 DEF Carries
  <2>2. /\ l \in Nat /\ Len(queued) \in Nat /\ n \in Nat /\ Len(inflight') = l + n
        /\ \A i \in 1..l : e[i] \in 1..Len(inflight)
        /\ \A i, j \in 1..l : i < j => e[i] < e[j]
        /\ \A i \in 1..n : inflight'[l + i] = ToPublish(queued[i]) /\ i \in 1..Len(queued)
    BY <2>8, <2>9
  <2>3. ASSUME NEW i \in 1..Len(inflight'), i > l PROVE inflight'[i].state \in Publishing
    <3>1. i - l \in 1..n /\ l + (i - l) = i
      BY <2>2, <2>3
    <3>2. inflight'[i] = ToPublish(queued[i - l]) /\ queued[i - l] \in Messages
      BY <1>1, <2>2, <3>1, SessionTypes
    <3> QED
      BY <3>2 DEF ToPublish, Publishing, Messages
  <2>4. \A i \in 1..l : inflight'[i] = inflight[e[i]] /\ inflight[e[i]].mid # p.mid
    BY <1>8 DEF RemainsBut
  <2>5. Len(inflight') \in Nat /\ l <= Len(inflight')
    BY <2>2
  <2>6. Joins(l, e)
    BY <2>2, <2>3, <2>4, <2>5 DEF Joins
  <2> QED
    BY <2>4, <2>6
<1>10. Front'
  BY <1>9, FrontKept DEF OrderInv
<1>11. Follows({1}, 0, 0, <<>>) /\ Alike(0, 0)
  BY <1>1, AckLine, NothingAnswered DEF p
<1>12. Sequential'
  <2>1. Spares(l, e, {1})
    BY <1>3, <1>9 DEF Spares
  <2>2. InTurn(l, e, {1}, <<>>)
    BY <1>9, NothingInTurn
  <2> QED
    BY <1>9, <1>11, <2>1, <2>2, SequentialKept DEF OrderInv
<1>13. Ahead'
  <2>1. \A k \in Ids : Token'[k] = "PUBREL" /\ Copies'[k] = 0 => Copies[k] = 0
    BY <1>5 DEF KeepsCopies
  <2> QED
    BY <1>2, <1>11, <2>1, AheadKept DEF OrderInv
<1>14. ~Resend
  BY <1>5, <1>6 DEF OrderInv, Quiet, Ends
<1>15. Quiet'
  <2>1. ~Resend'
    BY <1>5, <1>7, <1>14 DEF Resend, Advances, Stays, Ends, Publishing
  <2> QED
    BY <2>1 DEF Quiet
<1>16. Waits'
  BY <1>4, <1>5, <1>7 DEF OrderInv, Waits, Advances, Stays, KeepsToken, Ends, Publishing, Waiting
<1> QED
  BY <1>4, <1>10, <1>12, <1>13, <1>15, <1>16 DEF OrderInv

LEMMA PubrecOrder ==
  ASSUME NoneComesRound, ExchangeInv, ExchangeInv', OrderInv, ReadsPubrec(Head(up)),
         \A k \in Ids : Token[k] = "PUBREC" => Copies[k] > 0
  PROVE  OrderInv' /\ (Current' <=> Current) /\ (Stale' => Stale)
<1>1. LineTypes /\ LineTypes' /\ View
  BY ViewFacts, ViewAfter DEF ExchangeInv
<1> DEFINE p == Head(up)
<1>2. /\ UNCHANGED <<given, sock>> /\ up # <<>> /\ up' = Tail(up) /\ p.kind = "PUBREC"
  BY DEF ReadsPubrec, client
<1>3. inflight' = [i \in 1..Len(inflight) |->
        IF i \in At(inflight, p.mid) THEN [inflight[i] EXCEPT !.state = "wait_for_pubcomp"]
                                     ELSE inflight[i]]
  BY DEF ReadsPubrec
<1>4. p = Line[1] /\ 1 \in 1..Len(Line) /\ p \in Packets(UpKinds)
  BY <1>1, <1>2, BrokerReads
<1>5. (Current' <=> Current) /\ (Stale' => Stale)
  BY <1>1, <1>2, BrokerReadSide
<1>6. \A k \in Ids : /\ KeepsCopies(k)
                     /\ IF k = p.mid THEN Answers2(k) ELSE Stays(k) /\ KeepsToken(k)
  BY PubrecView
<1>7. p.mid \in Ids /\ p.mid # 0
  BY <1>2, <1>4 DEF ExchangeInv, FitInv, FitsPacket
<1>8. Ids' = Ids
  BY <1>2 DEF Ids
<1>9. Token[p.mid] = "PUBREC"
  BY <1>6, <1>7 DEF Answers2
<1>10. Follows({1}, 0, 0, IF Current THEN <<Ack("PUBREL", p.mid)>> ELSE <<>>)
  BY <1>1, <1>4, PubrecLine
<1> DEFINE s == IF Current THEN <<Ack("PUBREL", p.mid)>> ELSE <<>>
<1>11. \A x \in 1..Len(s) : s[x].kind = "PUBREL" /\ s[x].mid = p.mid
  BY DEF Ack, Pkt
<1>12. Follows({1}, 0, 0, s) /\ Alike(0, 0)
  BY <1>1, <1>10, NothingAnswered
<1> HIDE DEF s
<1>13. /\ Len(inflight) \in Nat /\ Len(inflight') = Len(inflight)
       /\ \A i \in 1..Len(inflight) :
            /\ inflight'[i].mid = inflight[i].mid
            /\ IF inflight[i].mid = p.mid THEN inflight'[i].state = "wait_for_pubcomp"
                                          ELSE inflight'[i].state = inflight[i].state
  <2>1. Len(inflight) \in Nat /\ \A i \in 1..Len(inflight) : inflight[i] \in Messages
    BY <1>1, SessionTypes
  <2>2. DOMAIN inflight' = 1..Len(inflight)
    BY <1>3
  <2>3. Len(inflight') = Len(inflight)
    <3>1. inflight' \in Seq(Messages)
      BY <1>1 DEF LineTypes
    <3> QED
      BY <2>1, <2>2, <3>1, LenProperties
  <2> QED
    BY <1>3, <2>1, <2>3 DEF At, Messages
<1> HIDE DEF p
<1> DEFINE l == Len(inflight)
           e == [i \in 1..l |-> i]
<1>14. Joins(l, e)
  BY <1>13 DEF Joins, Releasing
<1>15. Front'
  <2> SUFFICES ASSUME NEW i \in 1..Len(inflight), NEW j \in 1..Len(inflight),
                      i < j, inflight'[j].state \in Releasing
               PROVE  inflight'[i].state \in Releasing
    BY <1>13 DEF Front
  <2>1. CASE inflight[j].mid = p.mid
    <3>1. Line[1].kind \in FirstKinds /\ Line[1].mid = inflight[j].mid
      BY <1>2, <1>4, <2>1 DEF FirstKinds
    <3>2. \/ Line[1].kind \in FirstKinds /\ inflight[i].state \in Releasing
          \/ \E a \in 1..1 - 1 : Line[a].mid = inflight[i].mid
      BY <1>4, <3>1 DEF OrderInv, Sequential
    <3>3. inflight[i].state \in Releasing
      BY <3>2
    <3> QED
      BY <1>13, <3>3 DEF Releasing
  <2>2. CASE inflight[j].mid # p.mid
    <3>1. inflight[i].state \in Releasing
      BY <1>13, <2>2 DEF OrderInv, Front
    <3> QED
      BY <1>13, <3>1 DEF Releasing
  <2> QED
    BY <2>1, <2>2
<1>16. ~Resend
  BY <1>7, <1>9 DEF OrderInv, Quiet
<1>17. Sequential'
  <2>1. Spares(l, e, {1})
    <3> SUFFICES ASSUME NEW i \in 1..l, Line[1].mid = inflight[e[i]].mid
                 PROVE  inflight'[i].state \in Releasing /\ inflight[e[i]].state \notin Releasing
      BY DEF Spares
    <3>1. e[i] = i
      OBVIOUS
    <3>2. inflight[i].state \in Waiting
      BY <1>2, <1>4, <3>1 DEF ExchangeInv, StateInv, Answerable, FirstKinds
    <3> QED
      BY <1>4, <1>13, <3>1, <3>2 DEF Releasing, Waiting
  <2>2. InTurn(l, e, {1}, s)
    <3> SUFFICES ASSUME NEW x \in 1..Len(s), NEW i \in 1..l, NEW j \in 1..l, i < j,
                        s[x].mid = inflight[e[j]].mid
                 PROVE  \E a \in 1..Len(Line) : a \notin {1} /\ Line[a].mid = inflight[e[i]].mid
      BY DEF InTurn
    <3>1. e[i] = i /\ e[j] = j /\ i \in 1..Len(inflight) /\ j \in 1..Len(inflight)
      OBVIOUS
    <3> HIDE DEF e, l
    <3>2. inflight[j].mid = p.mid /\ Current
      BY <1>11, <3>1 DEF s
    <3>3. inflight'[j].state \in Releasing
      BY <1>13, <3>1, <3>2 DEF Releasing
    <3>4. inflight'[i].state \in Releasing
      BY <1>13, <1>15, <3>1, <3>3 DEF Front
    <3>5. inflight[i].mid # p.mid
      BY <1>1, <3>1, <3>2 DEF View, InSessionView, ExchangeInv, Distinct
    <3>6. inflight[i].state \in Releasing
      BY <1>13, <3>1, <3>4, <3>5
    <3> DEFINE k == inflight[i].id
    <3>7. k \in Ids /\ Phase[k] = inflight[i].state /\ k = inflight[i].mid
      BY <1>1, <3>1 DEF View, InSessionView
    <3>8. Phase[k] = "wait_for_pubcomp"
      BY <1>16, <3>6, <3>7 DEF Resend, Releasing
    <3>9. Token[k] \in LastKinds
      BY <3>2, <3>7, <3>8 DEF OrderInv, Waits
    <3> HIDE DEF k
    <3>10. PICK a \in 1..Len(Line) : Line[a].mid = k
      BY <1>1, <3>7, <3>9 DEF View, OnLineView, LastKinds
    <3> QED
      BY <1>4, <3>1, <3>5, <3>7, <3>10
  <2> HIDE DEF e, l
  <2> QED
    BY <1>12, <1>14, <2>1, <2>2, SequentialKept DEF OrderInv
<1>18. Ahead'
  <2>1. \A k \in Ids : Token'[k] = "PUBREL" /\ Copies'[k] = 0 => Copies[k] = 0
    BY <1>6 DEF KeepsCopies
  <2>2. Copies'[p.mid] # 0
    <3>1. Copies[p.mid] > 0 /\ Copies'[p.mid] = Copies[p.mid]
      BY <1>6, <1>7, <1>9 DEF KeepsCopies
    <3> QED
      BY <3>1
  <2>3. \A x \in 1..Len(s) : ~(s[x].kind = "PUBREL" /\ Copies'[s[x].mid] = 0)
    BY <1>11, <2>2
  <2> QED
    BY <1>2, <1>12, <2>1, <2>3, AheadKept DEF OrderInv
<1>19. Quiet'
  <2>1. ~Resend'
    BY <1>6, <1>8, <1>16 DEF Resend, Stays, Answers2
  <2> QED
    BY <2>1 DEF Quiet
<1>20. Waits'
  BY <1>5, <1>6, <1>8 DEF OrderInv, Waits, Stays, KeepsToken, Answers2, Waiting, LastKinds
<1> QED
  BY <1>5, <1>15, <1>17, <1>18, <1>19, <1>20 DEF OrderInv

LEMMA ConnectOrder ==
  ASSUME NoneComesRound, ExchangeInv, ExchangeInv', OrderInv, ReadsConnect
  PROVE  OrderInv' /\ ~Current /\ (~Current' => Stale) /\ (Stale' => Stale)
<1>1. LineTypes /\ LineTypes' /\ View
  BY ViewFacts, ViewAfter DEF ExchangeInv
<1>2. UNCHANGED <<given, sock>> /\ up # <<>> /\ up' = Tail(up) /\ HandleConnect
      /\ Head(up).kind = "CONNECT"
  BY DEF ReadsConnect, client
<1>3. ~Current /\ (~Current' => Stale) /\ (Stale' => Stale)
  BY <1>1, <1>2, BrokerReadSide
<1>4. \A k \in Ids : KeepsCopies(k) /\ Resumes(k) /\ Token[k] = "none" /\ Token'[k] = "none"
  BY ConnectView
<1>5. Ids' = Ids
  BY <1>2 DEF Ids
<1>6. PICK e : /\ Carries(Len(inflight), e, Lower(MaxInflight, Len(queued)))
               /\ \A i \in 1..Len(inflight) : e[i] = i /\ inflight'[i] = Resumed(inflight[i])
  BY <1>1, <1>2, ResumedSession DEF ResumesAll
<1> DEFINE l == Len(inflight)
<1>7. \A i \in 1..l : inflight[i] \in Messages /\ InFlight(inflight[i])
  BY <1>1, SessionTypes DEF ExchangeInv, FitInv
<1>8. ASSUME NEW i \in 1..l
      PROVE  inflight'[i].mid = inflight[i].mid
             /\ (inflight'[i].state \in Releasing <=> inflight[i].state = "wait_for_pubcomp")
  <2>1. inflight'[i] = Resumed(inflight[i])
    BY <1>6
  <2> QED
    BY <1>7, <2>1 DEF Resumed, ToPublish, InFlight, StateFits, Releasing, Messages
<1>9. /\ l \in Nat /\ Len(inflight') \in Nat /\ l <= Len(inflight')
      /\ \A i \in 1..Len(inflight') : i > l => inflight'[i].state \in Publishing
  <2> DEFINE n == Lower(MaxInflight, Len(queued))
  <2>1. Carries(l, e, n)
    BY <1>6
  <2> HIDE DEF n
  <2>2. /\ l \in Nat /\ Len(queued) \in Nat /\ n \in Nat /\ Len(inflight') = l + n
        /\ \A i \in 1..n : inflight'[l + i] = ToPublish(queued[i]) /\ i \in 1..Len(queued)
    BY SMTT(30), <1>1, <2>1, SessionTypes DEF Carries
  <2>3. ASSUME NEW i \in 1..Len(inflight'), i > l PROVE inflight'[i].state \in Publishing
    <3>1. i - l \in 1..n /\ l + (i - l) = i
      BY <2>2, <2>3
    <3>2. inflight'[i] = ToPublish(queued[i - l]) /\ queued[i - l] \in Messages
      BY <1>1, <2>2, <3>1, SessionTypes
    <3> QED
      BY <3>2 DEF ToPublish, Publishing, Messages
  <2> QED
    BY <2>2, <2>3
<1>10. Front'
  <2> SUFFICES ASSUME NEW i \in 1..Len(inflight'), NEW j \in 1..Len(inflight'),
                      i < j, inflight'[j].state \in Releasing
               PROVE  inflight'[i].state \in Releasing
    BY DEF Front
  <2>1. j \in 1..l /\ i \in 1..l
    BY <1>9 DEF Publishing, Releasing
  <2>2. inflight[j].state = "wait_for_pubcomp"
    BY <1>8, <2>1
  <2>3. inflight[i].state \in Releasing
    BY <2>1, <2>2 DEF OrderInv, Front, Releasing
  <2>4. inflight[i].state # "resend_pubrel"
    <3> SUFFICES ASSUME inflight[i].state = "resend_pubrel" PROVE FALSE
      OBVIOUS
    <3>1. /\ inflight[i].id \in Ids /\ Phase[inflight[i].id] = "resend_pubrel"
          /\ inflight[j].id \in Ids /\ Phase[inflight[j].id] = "wait_for_pubcomp"
      BY <1>1, <2>1, <2>2 DEF View, InSessionView
    <3> QED
      BY <3>1 DEF OrderInv, Quiet, Resend
  <2> QED
    BY <1>8, <2>1, <2>3, <2>4 DEF Releasing
<1>11. \A a \in 1..Len(Line') : Line'[a].kind \notin Numbered
  <2> SUFFICES ASSUME NEW a \in 1..Len(Line'), Line'[a].kind \in Numbered PROVE FALSE
    OBVIOUS
  <2>1. View' /\ FitInv'
    BY ViewAfter DEF ExchangeInv
  <2>2. Line'[a].mid # 0
    BY <2>1 DEF FitInv, FitsPacket, Numbered
  <2>3. Line'[a].mid \in Ids /\ Token'[Line'[a].mid] = Line'[a].kind
    BY <1>5, <2>1, <2>2 DEF View, OnLineView
  <2> QED
    BY <1>4, <2>3 DEF Numbered
<1>12. Sequential'
  <2> SUFFICES ASSUME NEW j \in 1..Len(inflight'), NEW b \in 1..Len(Line'),
                      Line'[b].mid = inflight'[j].mid
               PROVE  FALSE
    BY DEF Sequential
  <2>1. View'
    BY ViewAfter
  <2>2. Line'[b].mid # 0
    BY <2>1 DEF View, InSessionView
  <2> QED
    BY <1>11, <2>1, <2>2 DEF View, OnLineView
<1>13. Ahead'
  BY <1>11 DEF Ahead, Unheld, Numbered
<1>14. Quiet'
  BY <1>4, <1>5 DEF Quiet, Resumes, Advances, Stays, Publishing
<1>15. Waits'
  BY <1>4, <1>5 DEF Waits, Resumes, Advances, Stays, Publishing, Waiting
<1> QED
  BY <1>3, <1>10, <1>12, <1>13, <1>14, <1>15 DEF OrderInv

LEMMA WriteSide ==
  ASSUME MessageWrite
  PROVE  /\ (Current' <=> Current) /\ (Stale' => Stale)
         /\ breaks' = breaks /\ threaded' = threaded /\ dropped \subseteq dropped'
<1>1. /\ UNCHANGED <<up, sock, breaks, threaded>> /\ dropped \subseteq dropped'
  BY DEF MessageWrite, config, client
<1> QED
  BY <1>1, SameSide

LEMMA WriteOrder ==
  ASSUME NoneComesRound, ExchangeInv, ExchangeInv', OrderInv, MessageWrite
  PROVE  OrderInv'
<1>1. LineTypes /\ LineTypes' /\ View /\ Distinct
  BY ViewFacts, ViewAfter DEF ExchangeInv
<1>2. given' = given
  BY DEF MessageWrite
<1>3. Ids' = Ids
  BY <1>2 DEF Ids
<1>4. Current' <=> Current
  BY WriteSide
<1>5. \A k \in Ids : KeepsCopies(k) /\ (NotDue(k) \/ Expires(k) \/ Publishes(k) \/ Releases(k))
  BY WrittenView
<1>6. PICK l, e : /\ Carries(l, e, Lower(out_quota, Len(queued)))
                  /\ KeepsUnlessGone(l, e)
  BY <1>1, WrittenSession
<1>7. PICK pk, f : Writes(pk, f) /\ down' = IF Current THEN down \o pk ELSE down
  BY <1>1, WrittenSession
<1> DEFINE s == IF Current THEN pk ELSE <<>>
<1>8. Follows({}, 0, 0, s) /\ Alike(0, 0)
  BY <1>1, <1>7, WriteLine, NothingAnswered
<1>9. ASSUME NEW x \in 1..Len(s)
      PROVE  /\ Current /\ s[x] = pk[x] /\ x \in 1..Len(pk) /\ pk[x] = Packet(inflight[f[x]])
             /\ Due(f[x]) /\ \A y \in 1..x - 1 : y \in 1..Len(s)
  <2>1. Current /\ s = pk
    BY <1>9
  <2>2. Len(pk) \in Nat
    BY <1>7, LenProperties DEF Writes
  <2> QED
    BY <1>7, <2>1, <2>2 DEF Writes
<1> HIDE DEF s
<1>10. \A i \in 1..Len(inflight) : /\ inflight[i] \in Messages /\ InFlight(inflight[i])
                                   /\ inflight[i].state \in States
                                   /\ inflight[i].id = inflight[i].mid /\ inflight[i].id \in Ids
  BY <1>1, SessionTypes, SessionIds DEF ExchangeInv, FitInv, View, InSessionView
<1>11. ASSUME NEW j, Due(j)
       PROVE  /\ j \in 1..Len(inflight)
              /\ IF inflight[j].state = "resend_pubrel"
                   THEN Packet(inflight[j]).kind = "PUBREL"
                   ELSE inflight[j].state \in Publishing /\ Packet(inflight[j]).kind = "PUBLISH"
              /\ Packet(inflight[j]).mid = inflight[j].mid
  BY <1>11 DEF Due, Packet, Ack, Pkt, Unsent, Publishing
<1>12. /\ Joins(l, e)
       /\ \A i \in 1..l : /\ inflight'[i].state \in Releasing => inflight[e[i]].state \in Releasing
                          /\ ~Gone(inflight[e[i]])
  <2> DEFINE n == Lower(out_quota, Len(queued))
  <2>1. Carries(l, e, n)
    BY <1>6
  <2> HIDE DEF n
  <2>2. /\ l \in Nat /\ Len(queued) \in Nat /\ n \in Nat /\ Len(inflight') = l + n
        /\ \A i \in 1..l : e[i] \in 1..Len(inflight)
        /\ \A i, j \in 1..l : i < j => e[i] < e[j]
        /\ \A i \in 1..n : inflight'[l + i] = ToPublish(queued[i]) /\ i \in 1..Len(queued)
    BY <1>1, <2>1, SessionTypes DEF Carries
  <2>3. ASSUME NEW i \in 1..Len(inflight'), i > l PROVE inflight'[i].state \in Publishing
    <3>1. i - l \in 1..n /\ l + (i - l) = i
      BY <2>2, <2>3
    <3>2. inflight'[i] = ToPublish(queued[i - l]) /\ queued[i - l] \in Messages
      BY <1>1, <2>2, <3>1, SessionTypes
    <3> QED
      BY <3>2 DEF ToPublish, Publishing, Messages
  <2>4. ASSUME NEW i \in 1..l
        PROVE  /\ inflight'[i].mid = inflight[e[i]].mid
               /\ inflight'[i].state \in Releasing <=> inflight[e[i]].state \in Releasing
               /\ ~Gone(inflight[e[i]])
    <3>1. inflight'[i] = Sent(inflight[e[i]]) /\ ~Gone(inflight[e[i]])
      BY <1>6 DEF KeepsUnlessGone
    <3>2. inflight[e[i]] \in Messages
      BY <1>10, <2>2
    <3> QED
      BY <3>1, <3>2 DEF Sent, Releasing, Messages
  <2>5. Len(inflight') \in Nat /\ l <= Len(inflight')
    BY <2>2
  <2>6. Joins(l, e)
    BY <2>2, <2>3, <2>4, <2>5 DEF Joins
  <2> QED
    BY <2>4, <2>6
<1>13. Front'
  BY <1>12, FrontKept DEF OrderInv
<1>14. InTurn(l, e, {}, s)
  <2> SUFFICES ASSUME NEW x \in 1..Len(s), NEW i \in 1..l, NEW j \in 1..l, i < j,
                      s[x].mid = inflight[e[j]].mid,
                      ~(s[x].kind \in FirstKinds /\ inflight'[i].state \in Releasing)
               PROVE  \/ \E a \in 1..Len(Line) : Line[a].mid = inflight[e[i]].mid
                      \/ \E y \in 1..x - 1 : s[y].mid = inflight[e[i]].mid
    BY DEF InTurn
  <2>1. /\ Current /\ s[x] = Packet(inflight[f[x]]) /\ Due(f[x]) /\ x \in 1..Len(pk)
        /\ f[x] \in 1..Len(inflight) /\ s[x].mid = inflight[f[x]].mid
    BY <1>9, <1>11
  <2>2. /\ e[i] \in 1..Len(inflight) /\ e[j] \in 1..Len(inflight) /\ e[i] < e[j]
        /\ inflight[e[i]].state \in Releasing => inflight'[i].state \in Releasing
        /\ ~Gone(inflight[e[i]])
    BY <1>12 DEF Joins
  <2>3. f[x] = e[j]
    BY <1>1, <1>10, <2>1, <2>2 DEF Distinct
  <2>4. inflight[e[i]].state \in Unsent \cup Waiting
    <3>1. CASE s[x].kind \in FirstKinds
      BY <1>10, <2>2, <3>1 DEF States, Publishing, Unsent
    <3>2. CASE s[x].kind \notin FirstKinds
      <4>1. inflight[f[x]].state = "resend_pubrel"
        BY <1>11, <2>1, <3>2 DEF FirstKinds
      <4>2. Phase[inflight[f[x]].id] = "resend_pubrel" /\ inflight[f[x]].id \in Ids
        BY <1>1, <2>1, <4>1 DEF View, InSessionView
      <4>3. inflight[e[i]].state # "wait_for_pubcomp"
        <5>1. inflight[e[i]].id \in Ids
              /\ Phase[inflight[e[i]].id] = inflight[e[i]].state
          BY <1>1, <2>2 DEF View, InSessionView
        <5>2. Resend /\ Quiet
          BY <4>2 DEF OrderInv, Resend
        <5>3. \A k \in Ids : Phase[k] # "wait_for_pubcomp"
          BY ONLY <5>2 DEF Quiet
        <5> QED
          BY <5>1, <5>3
      <4> QED
        BY <1>10, <2>2, <4>3 DEF States, Publishing, Releasing, Unsent
    <3> QED
      BY <3>1, <3>2
  <2>5. CASE inflight[e[i]].state \in Unsent
    <3>1. Due(e[i])
      BY <2>2, <2>5 DEF Due
    <3>2. PICK y \in 1..Len(pk) : f[y] = e[i]
      BY <1>7, <3>1 DEF Writes
    <3>3. Len(pk) \in Nat /\ e[i] \in Nat /\ e[j] \in Nat
      BY <1>7, <2>2, LenProperties DEF Writes
    <3>4. ~(x < y) /\ x # y
      <4>1. x < y => f[x] < f[y]
        BY <1>7, <2>1, <3>2 DEF Writes
      <4>2. f[y] < f[x] /\ f[x] \in Nat /\ f[y] \in Nat
        BY <2>2, <2>3, <3>2, <3>3
      <4> QED
        BY <4>1, <4>2
    <3>5. y \in 1..x - 1
      BY <2>1, <3>2, <3>3, <3>4
    <3>6. y \in 1..Len(s)
      BY <1>9, <3>5
    <3>7. s[y] = Packet(inflight[e[i]])
      BY <1>9, <3>2, <3>6
    <3>8. s[y].mid = inflight[e[i]].mid
      BY <1>11, <3>1, <3>7
    <3> QED
      BY <3>5, <3>8
  <2>6. CASE inflight[e[i]].state \in Waiting
    <3> DEFINE k == inflight[e[i]].id
    <3>1. k \in Ids /\ Phase[k] \in Waiting /\ k = inflight[e[i]].mid
      BY <1>1, <1>10, <2>2, <2>6 DEF View, InSessionView
    <3>2. Token[k] \in FirstKinds
      BY <2>1, <3>1 DEF OrderInv, Waits
    <3> HIDE DEF k
    <3>3. PICK a \in 1..Len(Line) : Line[a].mid = k
      BY <1>1, <3>1, <3>2 DEF View, OnLineView, FirstKinds
    <3> QED
      BY <3>1, <3>3
  <2> QED
    BY <2>4, <2>5, <2>6
<1>15. Sequential'
  <2>1. Spares(l, e, {})
    BY DEF Spares
  <2> QED
    BY <1>8, <1>12, <1>14, <2>1, SequentialKept DEF OrderInv
<1>16. ASSUME NEW x \in 1..Len(s), s[x].kind = "PUBREL"
       PROVE  /\ \A a \in 1..Len(Line) : Line[a].kind \notin FirstKinds
              /\ \A y \in 1..x - 1 : s[y].kind \notin FirstKinds
  <2>1. /\ Due(f[x]) /\ f[x] \in 1..Len(inflight) /\ inflight[f[x]].state = "resend_pubrel"
        /\ x \in 1..Len(pk)
    <3>1. s[x] = Packet(inflight[f[x]]) /\ Due(f[x]) /\ x \in 1..Len(pk)
      BY <1>9
    <3> QED
      BY <1>11, <1>16, <3>1
  <2>2. Resend
    BY <1>1, <1>10, <2>1 DEF Resend, View, InSessionView
  <2>3. ASSUME NEW a \in 1..Len(Line), Line[a].kind \in FirstKinds PROVE FALSE
    <3>1. Line[a].mid # 0
      BY <2>3 DEF ExchangeInv, FitInv, FitsPacket, FirstKinds
    <3>2. Line[a].mid \in Ids /\ Token[Line[a].mid] = Line[a].kind
      BY <1>1, <3>1 DEF View, OnLineView
    <3> QED
      BY <2>2, <2>3, <3>2 DEF OrderInv, Quiet, FirstKinds
  <2>4. ASSUME NEW y \in 1..x - 1 PROVE s[y].kind \notin FirstKinds
    <3>1. y \in 1..Len(s)
      BY <1>9
    <3>2. /\ s[y] = Packet(inflight[f[y]]) /\ Due(f[y]) /\ y \in 1..Len(pk)
          /\ f[y] \in 1..Len(inflight)
      BY <1>9, <1>11, <3>1
    <3>3. y < x
      BY <1>7, <2>1, LenProperties DEF Writes
    <3>4. f[y] < f[x]
      BY <1>7, <2>1, <3>2, <3>3 DEF Writes
    <3>5. inflight[f[y]].state \in Releasing
      BY <2>1, <3>2, <3>4 DEF OrderInv, Front, Releasing
    <3>6. inflight[f[y]].state \notin Publishing
      BY <3>5 DEF Releasing, Publishing
    <3> QED
      BY <1>11, <3>2, <3>6 DEF FirstKinds
  <2> QED
    BY <2>3, <2>4
<1>17. Ahead'
  <2>1. \A k \in Ids : Token'[k] = "PUBREL" /\ Copies'[k] = 0 => Copies[k] = 0
    BY <1>5 DEF KeepsCopies
  <2> QED
    BY <1>2, <1>8, <1>16, <2>1, AheadKept DEF OrderInv
<1>18. Quiet'
  <2>1. ~Resend'
    BY <1>3, <1>5 DEF Resend, NotDue, Advances, Stays, Expires, Publishes, Releases, Unsent,
                      Publishing, Waiting
  <2> QED
    BY <2>1 DEF Quiet
<1>19. Waits'
  <2> SUFFICES ASSUME Current', NEW k \in Ids
               PROVE  /\ Phase'[k] \in Waiting => Token'[k] \in FirstKinds
                      /\ Phase'[k] = "wait_for_pubcomp" => Token'[k] \in LastKinds
    BY <1>3 DEF Waits
  <2>1. CASE NotDue(k)
    BY <1>4, <2>1 DEF OrderInv, Waits, NotDue, Advances, Stays, KeepsToken, Publishing, Waiting
  <2>2. CASE Publishes(k)
    BY <1>4, <2>2 DEF Publishes, FirstKinds, Waiting
  <2>3. CASE Expires(k) \/ Releases(k)
    BY <1>4, <2>3 DEF Expires, Releases, Waiting, LastKinds
  <2> QED
    BY <1>5, <2>1, <2>2, <2>3
<1> QED
  BY <1>13, <1>15, <1>17, <1>18, <1>19 DEF OrderInv

-----------------------------------------------------------------------------
(* What was sent is somewhere until on_message was called for it.          *)
Safe(k) ==
  /\ Token[k] = "PUBREC" => Copies[k] > 0
  /\ Token[k] = "PUBREL" \/ Phase[k] \in Releasing => got[k] > 0 \/ Copies[k] > 0
  /\ Token[k] \in {"PUBACK", "PUBCOMP"} => got[k] > 0
  /\ k \in dropped \/ Phase[k] # "none" \/ got[k] > 0

(* How often the client has seen a message, against the connections that   *)
(* broke.  To publish it again takes a connection that broke since it was  *)
(* last seen; to publish it again after PUBREC, a CONNECT that is read     *)
(* twice: Unsure, a connection the broker knows of may be gone.            *)
Seen(k) == got[k] + Copies[k]
Two(k) == got[k] >= 1 /\ Copies[k] >= 1 => breaks >= 2
Unsure == Stale \/ (Resend /\ ~Current)
Unreleased == {"queued"} \cup Publishing \cup Waiting
Bounded(k) ==
  /\ Seen(k) <= 1 + breaks
  /\ Phase[k] \in Unreleased /\ Token[k] \notin {"PUBACK", "PUBREC"} => Seen(k) <= breaks
  /\ Token[k] = "PUBLISH" => Seen(k) <= breaks
  /\ Unsure => Seen(k) <= breaks
  /\ threaded /\ ~Current /\ Token[k] = "PUBREC" => Seen(k) <= breaks
  /\ threaded /\ (~Current \/ Resend \/ AnyUnheld) /\ Phase[k] \in Releasing => Seen(k) <= breaks
Once(k) ==
  given[k].qos = 2 =>
    /\ Phase[k] \in Unreleased \/ Token[k] \in {"PUBLISH", "PUBREC"} => got[k] = 0 \/ breaks >= 2
    /\ Phase[k] \in Releasing /\ Token[k] # "PUBCOMP" /\ got[k] > 0 =>
         /\ breaks >= 1
         /\ Stale \/ (Phase[k] = "resend_pubrel" /\ ~Current) => breaks >= 2
    /\ Phase[k] \in States /\ Token[k] # "PUBCOMP" => Two(k)
    /\ Token[k] = "PUBREL" => Two(k)
    /\ got[k] >= 2 => breaks >= 2
(* What was never sent has never been seen. *)
Unmarked(k) ==
  /\ Phase[k] = "queued" => Seen(k) = 0
  /\ Phase[k] \in States /\ ~Marked[k] => Phase[k] \in Publishing /\ Seen(k) = 0
  /\ Token[k] = "PUBLISH" /\ ~Repeat[k] => Seen(k) = 0
Told(k) == Safe(k) /\ Bounded(k) /\ Once(k) /\ Unmarked(k)
CountInv == (Stale => breaks >= 1) /\ \A k \in Ids : Told(k)
ReceiveInv == ExchangeInv /\ OrderInv /\ CountInv

LEMMA BothFitting ==
  ASSUME ExchangeInv, ExchangeInv', given' = given, NEW k \in Ids
  PROVE  /\ Fitting(k) /\ Fitting(k)' /\ k \in Ids' /\ breaks \in Nat /\ breaks' \in Nat
         /\ Ids' = Ids
<1>1. View /\ View' /\ LineTypes /\ LineTypes'
  BY ViewFacts, ViewAfter DEF ExchangeInv
<1>2. Ids' = Ids
  BY DEF Ids
<1> QED
  BY <1>1, <1>2 DEF View, LineTypes

(* A step that leaves message k alone, and makes nothing less sure.        *)
LEMMA UntoldKept ==
  ASSUME NEW k, Told(k), Stays(k), KeepsToken(k), KeepsCopies(k), given'[k] = given[k],
         Current' <=> Current, Stale' => Stale, Resend' => Resend,
         AnyUnheld' => AnyUnheld \/ Resend,
         breaks' = breaks, threaded' = threaded, dropped \subseteq dropped'
  PROVE  Told(k)'
<1>1. Seen(k)' = Seen(k) /\ (Two(k)' <=> Two(k)) /\ (Unsure' => Unsure)
  BY DEF Seen, KeepsCopies, Two, Unsure
<1>2. Safe(k)'
  BY DEF Told, Safe, Stays, KeepsToken, KeepsCopies
<1>3. Bounded(k)'
  BY <1>1 DEF Told, Bounded, Stays, KeepsToken, KeepsCopies
<1>4. Once(k)'
  BY <1>1 DEF Told, Once, Stays, KeepsToken, KeepsCopies
<1>5. Unmarked(k)'
  BY <1>1 DEF Told, Unmarked, Stays, KeepsToken, KeepsCopies
<1> QED
  BY <1>2, <1>3, <1>4, <1>5 DEF Told

LEMMA QuietCounts ==
  ASSUME NoneComesRound, ReceiveInv, ExchangeInv', Silent
  PROVE  CountInv'
<1>1. LineTypes
  BY DEF ReceiveInv, ExchangeInv
<1>2. /\ given' = given
      /\ \A k \in Ids : Stays(k) /\ KeepsToken(k) /\ KeepsCopies(k)
  BY QuietView DEF ReceiveInv
<1>3. /\ (Current' <=> Current) /\ (Stale' => Stale)
      /\ breaks' = breaks /\ threaded' = threaded /\ dropped' = dropped
  BY <1>1, QuietSide
<1>4. Ids' = Ids
  BY <1>2 DEF Ids
<1>5. (Resend' => Resend) /\ (AnyUnheld' => AnyUnheld)
  BY <1>2, <1>4 DEF Resend, AnyUnheld, Stays, KeepsToken, KeepsCopies
<1>6. \A k \in Ids : Told(k)'
  BY <1>2, <1>3, <1>5, UntoldKept DEF ReceiveInv, CountInv
<1> QED
  BY <1>3, <1>4, <1>6 DEF ReceiveInv, CountInv

LEMMA SendCounts ==
  ASSUME NoneComesRound, ReceiveInv, ExchangeInv',
         NEW qos \in 1..2, NEW expires \in Expiring, Send(qos, expires)
  PROVE  CountInv'
<1> DEFINE new == Len(given) + 1
<1>1. /\ Ids' = Ids \cup {new}
      /\ \A k \in Ids : /\ given'[k] = given[k]
                        /\ Stays(k) /\ KeepsToken(k) /\ KeepsCopies(k)
      /\ Token'[new] = "none" /\ ~Repeat'[new] /\ Copies'[new] = 0 /\ got'[new] = 0
      /\ Phase'[new] \in {"queued"} \cup Publishing \/ (Phase'[new] = "none" /\ new \in dropped')
      /\ dropped \subseteq dropped'
  BY SentView DEF ReceiveInv
<1>2. /\ (Current' <=> Current) /\ (Stale' => Stale)
      /\ breaks' = breaks /\ threaded' = threaded
  BY SendSide
<1>3. breaks \in Nat
  BY DEF ReceiveInv, ExchangeInv, LineTypes
<1> HIDE DEF new
<1>4. (Resend' => Resend) /\ (AnyUnheld' => AnyUnheld)
  BY <1>1 DEF Resend, AnyUnheld, Stays, KeepsToken, KeepsCopies, Publishing
<1>5. \A k \in Ids : Told(k)'
  BY <1>1, <1>2, <1>4, UntoldKept DEF ReceiveInv, CountInv
<1>6. \A k : k = new => Told(k)'
  <2> SUFFICES ASSUME NEW k, k = new PROVE Told(k)'
    OBVIOUS
  <2>1. Seen(k)' = 0 /\ Two(k)'
    BY <1>1 DEF Seen, Two
  <2>2. Safe(k)' /\ Unmarked(k)'
    BY <1>1, <2>1 DEF Safe, Unmarked, Publishing, Releasing, States, Waiting
  <2>3. Bounded(k)'
    BY <1>2, <1>3, <2>1 DEF Bounded
  <2>4. Once(k)'
    BY <1>1, <2>1 DEF Once
  <2> QED
    BY <2>2, <2>3, <2>4 DEF Told
<1> QED
  BY <1>1, <1>2, <1>5, <1>6 DEF ReceiveInv, CountInv

LEMMA AdvancedKept ==
  ASSUME NEW k, Told(k), Fitting(k), Advances(k), KeepsToken(k), KeepsCopies(k),
         given'[k] = given[k], breaks \in Nat,
         Current' <=> Current, Stale' => Stale, Resend' => Resend,
         AnyUnheld' => AnyUnheld \/ Resend,
         breaks' = breaks, threaded' = threaded, dropped \subseteq dropped'
  PROVE  Told(k)'
<1>1. CASE Stays(k)
  BY <1>1, UntoldKept
<1>2. CASE Phase[k] = "queued" /\ Phase'[k] \in Publishing
  <2>1. Seen(k) = 0 /\ Token[k] = "none"
    BY <1>2 DEF Told, Unmarked, Fitting, FirstKinds, Waiting, States, Publishing, Numbered
  <2>2. got'[k] = 0 /\ Copies'[k] = 0 /\ Seen(k)' = 0 /\ Two(k)'
    BY <2>1 DEF Fitting, Seen, KeepsCopies, Two
  <2>3. Token'[k] = "none"
    BY <2>1 DEF KeepsToken
  <2>4. Phase'[k] \notin {"queued", "none"} \cup Releasing
    BY <1>2 DEF Publishing, Releasing
  <2>5. Safe(k)'
    BY <2>3, <2>4 DEF Safe
  <2>6. Bounded(k)'
    BY <2>2 DEF Bounded
  <2>7. Once(k)'
    BY <2>2 DEF Once
  <2>8. Unmarked(k)'
    BY <1>2, <2>2 DEF Unmarked
  <2> QED
    BY <2>5, <2>6, <2>7, <2>8 DEF Told
<1> QED
  BY <1>1, <1>2 DEF Advances

LEMMA WriteCounts ==
  ASSUME NoneComesRound, ReceiveInv, ExchangeInv', MessageWrite
  PROVE  CountInv'
<1>1. given' = given
  BY DEF MessageWrite
<1>2. \A k \in Ids : /\ KeepsCopies(k)
                     /\ NotDue(k) \/ Expires(k) \/ Publishes(k) \/ Releases(k)
  BY WrittenView DEF ReceiveInv
<1>3. /\ (Current' <=> Current) /\ (Stale' => Stale)
      /\ breaks' = breaks /\ threaded' = threaded /\ dropped \subseteq dropped'
  BY WriteSide
<1>4. Ids' = Ids /\ breaks \in Nat
  BY <1>1 DEF Ids, ReceiveInv, ExchangeInv, LineTypes
<1>5. ~Resend'
  BY <1>2, <1>4 DEF Resend, NotDue, Advances, Stays, Expires, Publishes, Releases, Unsent,
                    Publishing, Waiting
<1>6. AnyUnheld' => AnyUnheld \/ Resend
  BY <1>2, <1>4 DEF AnyUnheld, Resend, KeepsCopies, NotDue, KeepsToken, Expires, Publishes,
                    Releases
<1>7. ASSUME NEW k \in Ids PROVE Told(k)'
  <2>1. Told(k) /\ Fitting(k) /\ KeepsCopies(k) /\ given'[k] = given[k]
    BY <1>1, <1>2, BothFitting DEF ReceiveInv, CountInv
  <2>2. Seen(k)' = Seen(k) /\ (Two(k)' <=> Two(k)) /\ (Unsure' => Unsure)
    BY <1>3, <1>5, <2>1 DEF Seen, KeepsCopies, Two, Unsure
  <2>3. CASE NotDue(k)
    BY <1>3, <1>4, <1>5, <1>6, <2>1, <2>3, AdvancedKept DEF NotDue
  <2>4. CASE Expires(k)
    <3>1. Safe(k)'
      BY <2>1, <2>4 DEF Expires, Told, Safe, KeepsToken, KeepsCopies, Releasing
    <3>2. Bounded(k)'
      BY <1>3, <2>1, <2>2, <2>4
      DEF Expires, Told, Bounded, KeepsToken, Releasing, Unreleased, Publishing, Waiting
    <3>3. Once(k)'
      BY <1>3, <2>1, <2>2, <2>4
      DEF Expires, Told, Once, KeepsToken, KeepsCopies, Releasing, Unreleased, Publishing, Waiting,
          States
    <3>4. Unmarked(k)'
      BY <2>1, <2>2, <2>4 DEF Expires, Told, Unmarked, KeepsToken, States, Publishing, Waiting,
                              Releasing
    <3> QED
      BY <3>1, <3>2, <3>3, <3>4 DEF Told
  <2>5. CASE Publishes(k)
    <3>1. /\ Phase[k] \in Publishing /\ Phase'[k] \in Waiting /\ Marked'[k] /\ Token[k] = "none"
          /\ Token'[k] = "none" \/ (Token'[k] = "PUBLISH" /\ Repeat'[k] = Marked[k])
      BY <2>5 DEF Publishes
    <3>2. Seen(k) <= breaks
      BY <2>1, <3>1 DEF Told, Bounded, Unreleased
    <3>3. Safe(k)'
      BY <3>1 DEF Safe, Waiting, Releasing
    <3>4. Bounded(k)'
      BY <1>3, <1>4, <2>1, <2>2, <3>1, <3>2
      DEF Told, Bounded, Releasing, Waiting
    <3>5. Once(k)'
      BY <1>3, <2>1, <2>2, <3>1 DEF Told, Once, KeepsCopies, Releasing, Unreleased, Waiting, States
    <3>6. Unmarked(k)'
      BY <2>1, <2>2, <3>1 DEF Told, Unmarked, Waiting, States
    <3> QED
      BY <3>3, <3>4, <3>5, <3>6 DEF Told
  <2>6. CASE Releases(k)
    <3>1. /\ Phase[k] = "resend_pubrel" /\ Phase'[k] = "wait_for_pubcomp" /\ Marked'[k] = Marked[k]
          /\ Token[k] = "none" /\ Token'[k] \in {"none", "PUBREL"} /\ Resend
      BY <2>6 DEF Releases, Resend
    <3>2. Safe(k)'
      BY <2>1, <3>1 DEF Told, Safe, Releasing, KeepsCopies
    <3>3. Bounded(k)'
      BY <1>3, <2>1, <2>2, <3>1 DEF Told, Bounded, Releasing, Unreleased, Publishing, Waiting
    <3>4. Once(k)'
      BY <1>3, <2>1, <2>2, <3>1
      DEF Told, Once, KeepsCopies, Releasing, Unreleased, Publishing, Waiting, States
    <3>5. Unmarked(k)'
      BY <2>1, <3>1 DEF Told, Unmarked, Releasing, Publishing, States
    <3> QED
      BY <3>2, <3>3, <3>4, <3>5 DEF Told
  <2> QED
    BY <1>2, <2>3, <2>4, <2>5, <2>6
<1> QED
  BY <1>3, <1>4, <1>7 DEF ReceiveInv, CountInv

LEMMA ConnectCounts ==
  ASSUME NoneComesRound, ReceiveInv, ExchangeInv', ReadsConnect
  PROVE  CountInv'
<1>1. given' = given /\ breaks' = breaks /\ threaded' = threaded /\ dropped' = dropped
  BY DEF ReadsConnect, config
<1>2. \A k \in Ids : KeepsCopies(k) /\ Resumes(k) /\ Token[k] = "none" /\ Token'[k] = "none"
  BY ConnectView DEF ReceiveInv
<1>3. ~Current /\ (~Current' => Stale) /\ (Stale' => Stale)
  BY ConnectOrder DEF ReceiveInv
<1>4. Ids' = Ids /\ breaks \in Nat
  BY <1>1 DEF Ids, ReceiveInv, ExchangeInv, LineTypes
<1>5. ~AnyUnheld'
  BY <1>2, <1>4 DEF AnyUnheld
<1>6. Unsure' => Stale
  BY <1>3 DEF Unsure
<1>7. ASSUME NEW k \in Ids PROVE Told(k)'
  <2>1. Told(k) /\ Fitting(k) /\ KeepsCopies(k) /\ given'[k] = given[k]
    BY <1>1, <1>2, BothFitting DEF ReceiveInv, CountInv
  <2>2. Token[k] = "none" /\ Token'[k] = "none" /\ Resumes(k)
    BY <1>2
  <2>3. Seen(k)' = Seen(k) /\ (Two(k)' <=> Two(k)) /\ (Unsure' => Unsure)
    BY <1>1, <1>6, <2>1 DEF Seen, KeepsCopies, Two, Unsure
  <2>4. Bounded(k) /\ Once(k) /\ Unmarked(k) /\ Safe(k)
    BY <2>1 DEF Told
  <2>5. Fitting(k) /\ got[k] \in Nat /\ Copies[k] \in Nat
    BY <2>1 DEF Fitting
  <2>6. CASE Phase[k] \in {"none", "queued"} /\ Stays(k)
    <3>1. Phase'[k] = Phase[k] /\ Phase[k] \notin States
      BY <2>6 DEF Stays, States, Publishing, Waiting, Releasing
    <3>2. Safe(k)'
      BY <1>1, <2>1, <2>2, <2>4, <3>1 DEF Safe, KeepsCopies, States
    <3>3. Bounded(k)'
      BY <1>1, <2>2, <2>3, <2>4, <3>1 DEF Bounded, States
    <3>4. Once(k)'
      BY <1>1, <2>1, <2>2, <2>3, <2>4, <3>1 DEF Once, KeepsCopies, States
    <3>5. Unmarked(k)'
      BY <2>2, <2>3, <2>4, <3>1 DEF Unmarked
    <3> QED
      BY <3>2, <3>3, <3>4, <3>5 DEF Told
  <2>7. CASE Phase[k] = "queued" /\ Phase'[k] \in Publishing
    <3>1. Seen(k) = 0 /\ got[k] = 0 /\ Copies[k] = 0
      BY <2>4, <2>5, <2>7 DEF Unmarked, Seen
    <3>2. Phase'[k] \notin {"none", "queued"} \cup Releasing
      BY <2>7 DEF Publishing, Releasing
    <3>3. Safe(k)'
      BY <2>2, <3>2 DEF Safe
    <3>4. Bounded(k)'
      BY <1>1, <1>4, <2>3, <3>1 DEF Bounded
    <3>5. Once(k)'
      BY <2>1, <3>1 DEF Once, KeepsCopies, Two
    <3>6. Unmarked(k)'
      BY <2>3, <2>7, <3>1 DEF Unmarked
    <3> QED
      BY <3>3, <3>4, <3>5, <3>6 DEF Told
  <2>8. CASE /\ Phase[k] = "wait_for_pubcomp" /\ Phase'[k] = "resend_pubrel"
             /\ Marked'[k] = Marked[k]
    <3>1. Safe(k)'
      BY <2>1, <2>2, <2>4, <2>8 DEF Safe, KeepsCopies, Releasing
    <3>2. Bounded(k)'
      BY <1>1, <1>3, <2>2, <2>3, <2>4, <2>8
      DEF Bounded, Releasing, Unreleased, Publishing, Waiting
    <3>3. Once(k)'
      BY <1>1, <1>3, <2>1, <2>2, <2>3, <2>4, <2>8
      DEF Once, KeepsCopies, Releasing, Unreleased, Publishing, Waiting, States
    <3>4. Unmarked(k)'
      BY <2>2, <2>4, <2>8 DEF Unmarked, States, Releasing, Publishing
    <3> QED
      BY <3>1, <3>2, <3>3, <3>4 DEF Told
  <2>9. CASE /\ Phase[k] \in Publishing \cup Waiting \cup {"resend_pubrel"}
             /\ Phase'[k] \in Publishing /\ Marked'[k] = Marked[k]
    <3>1. Phase'[k] \notin {"none", "queued"} \cup Releasing
      BY <2>9 DEF Publishing, Releasing
    <3>2. Seen(k) <= breaks
      <4>1. CASE Phase[k] = "resend_pubrel"
        BY <1>3, <2>4, <4>1 DEF Bounded, Unsure, Resend
      <4>2. CASE Phase[k] \in Unreleased
        BY <2>2, <2>4, <4>2 DEF Bounded
      <4> QED
        BY <2>9, <4>1, <4>2 DEF Unreleased
    <3>3. given[k].qos = 2 => got[k] = 0 \/ breaks >= 2
      <4>1. CASE Phase[k] = "resend_pubrel"
        BY <1>3, <2>2, <2>4, <2>5, <4>1 DEF Once, Releasing
      <4>2. CASE Phase[k] \in Unreleased
        BY <2>4, <4>2 DEF Once
      <4> QED
        BY <2>9, <4>1, <4>2 DEF Unreleased
    <3>4. Safe(k)'
      BY <2>2, <3>1 DEF Safe
    <3>5. Bounded(k)'
      BY <1>1, <1>4, <2>2, <2>3, <2>4, <3>1, <3>2 DEF Bounded
    <3>6. Once(k)'
      BY <1>1, <2>1, <2>2, <2>3, <2>4, <2>5, <3>1, <3>3 DEF Once, KeepsCopies, Two
    <3>7. Unmarked(k)'
      BY <2>2, <2>3, <2>4, <2>9, <3>1 DEF Unmarked, States, Releasing
    <3> QED
      BY <3>4, <3>5, <3>6, <3>7 DEF Told
  <2> QED
    BY <2>2, <2>6, <2>7, <2>8, <2>9 DEF Resumes, Advances
<1> QED
  BY <1>1, <1>3, <1>4, <1>7 DEF ReceiveInv, CountInv

LEMMA AckCounts ==
  ASSUME NoneComesRound, ReceiveInv, ExchangeInv', ReadsAck(Head(up))
  PROVE  CountInv'
<1> DEFINE p == Head(up)
<1>1. given' = given /\ breaks' = breaks /\ threaded' = threaded /\ dropped' = dropped
      /\ p.kind \in {"PUBACK", "PUBCOMP"} /\ up # <<>>
  BY DEF ReadsAck, config
<1>2. \A k \in Ids : /\ KeepsCopies(k)
                     /\ IF k = p.mid THEN Ends(k, {"PUBACK", "PUBCOMP"})
                                     ELSE Advances(k) /\ KeepsToken(k)
  BY AckView DEF ReceiveInv
<1>3. (Current' <=> Current) /\ (Stale' => Stale)
  BY AckOrder DEF ReceiveInv
<1>4. Ids' = Ids /\ breaks \in Nat
  BY <1>1 DEF Ids, ReceiveInv, ExchangeInv, LineTypes
<1>5. p.mid \in Ids
  <2>1. p = Line[1] /\ 1 \in 1..Len(Line)
    BY <1>1, BrokerReads DEF ReceiveInv, ExchangeInv
  <2> HIDE DEF p
  <2> QED
    BY <1>1, <2>1 DEF ReceiveInv, ExchangeInv, FitInv, FitsPacket
<1> HIDE DEF p
<1>6. ~Resend
  BY <1>2, <1>5 DEF ReceiveInv, OrderInv, Quiet, Ends
<1>7. ~Resend'
  BY <1>2, <1>4, <1>6 DEF Resend, Advances, Stays, Ends, Publishing
<1>8. AnyUnheld' => AnyUnheld
  BY <1>2, <1>4 DEF AnyUnheld, KeepsToken, KeepsCopies, Ends
<1>9. ASSUME NEW k \in Ids PROVE Told(k)'
  <2>1. Told(k) /\ Fitting(k) /\ KeepsCopies(k) /\ given'[k] = given[k]
    BY <1>1, <1>2, BothFitting DEF ReceiveInv, CountInv
  <2>2. CASE k # p.mid
    BY <1>1, <1>2, <1>3, <1>4, <1>7, <1>8, <2>1, <2>2, AdvancedKept
  <2>3. CASE k = p.mid
    <3>1. Token[k] \in {"PUBACK", "PUBCOMP"} /\ Token'[k] = "none" /\ Phase'[k] = "none"
      BY <1>2, <2>3 DEF Ends
    <3>2. Seen(k)' = Seen(k) /\ (Two(k)' <=> Two(k)) /\ (Unsure' => Unsure)
      BY <1>1, <1>3, <1>7, <2>1 DEF Seen, KeepsCopies, Two, Unsure
    <3>3. Safe(k)'
      BY <2>1, <3>1 DEF Told, Safe, KeepsCopies, Releasing
    <3>4. Bounded(k)'
      BY <1>1, <2>1, <3>1, <3>2 DEF Told, Bounded, Unreleased, Releasing, Publishing, Waiting
    <3>5. Once(k)'
      BY <1>1, <2>1, <3>1, <3>2
      DEF Told, Once, KeepsCopies, Unreleased, Releasing, Publishing, Waiting, States
    <3>6. Unmarked(k)'
      BY <3>1 DEF Unmarked, States, Releasing, Publishing, Waiting
    <3> QED
      BY <3>3, <3>4, <3>5, <3>6 DEF Told
  <2> QED
    BY <2>2, <2>3
<1> QED
  BY <1>1, <1>3, <1>4, <1>9 DEF ReceiveInv, CountInv

LEMMA PubrecCounts ==
  ASSUME NoneComesRound, ReceiveInv, ExchangeInv', ReadsPubrec(Head(up))
  PROVE  CountInv' /\ OrderInv' /\ ~Resend' /\ ~AnyUnheld'
<1> DEFINE p == Head(up)
<1>1. given' = given /\ breaks' = breaks /\ threaded' = threaded /\ dropped' = dropped
      /\ p.kind = "PUBREC" /\ up # <<>>
  BY DEF ReadsPubrec, config
<1>2. \A k \in Ids : /\ KeepsCopies(k)
                     /\ IF k = p.mid THEN Answers2(k) ELSE Stays(k) /\ KeepsToken(k)
  BY PubrecView DEF ReceiveInv
<1>3. (Current' <=> Current) /\ (Stale' => Stale) /\ OrderInv'
  <2>1. \A k \in Ids : Token[k] = "PUBREC" => Copies[k] > 0
    BY DEF ReceiveInv, CountInv, Told, Safe
  <2> QED
    BY <2>1, PubrecOrder DEF ReceiveInv
<1>4. Ids' = Ids /\ breaks \in Nat
  BY <1>1 DEF Ids, ReceiveInv, ExchangeInv, LineTypes
<1>5. p.mid \in Ids /\ p = Line[1] /\ 1 \in 1..Len(Line)
  <2>1. p = Line[1] /\ 1 \in 1..Len(Line)
    BY <1>1, BrokerReads DEF ReceiveInv, ExchangeInv
  <2> HIDE DEF p
  <2> QED
    BY <1>1, <2>1 DEF ReceiveInv, ExchangeInv, FitInv, FitsPacket
<1> HIDE DEF p
<1>6. ~Resend
  BY <1>2, <1>5 DEF ReceiveInv, OrderInv, Quiet, Answers2
<1>7. ~Resend'
  BY <1>2, <1>4, <1>6 DEF Resend, Stays, Answers2
<1>8. ~AnyUnheld
  <2> SUFFICES ASSUME NEW k \in Ids, Token[k] = "PUBREL", Copies[k] = 0 PROVE FALSE
    BY DEF AnyUnheld
  <2>1. View
    BY ViewFacts DEF ReceiveInv
  <2>2. PICK b \in 1..Len(Line) : Line[b].mid = k /\ k # 0
    BY <2>1 DEF View, OnLineView
  <2>3. Line[b].kind = "PUBREL"
    BY <2>1, <2>2 DEF View, OnLineView
  <2>4. b # 1
    BY <1>1, <1>5, <2>3
  <2>5. 1 \in 1..b - 1
    BY <2>4
  <2>6. Line[1].kind \notin FirstKinds
    BY <2>2, <2>3, <2>5 DEF ReceiveInv, OrderInv, Ahead, Unheld
  <2> QED
    BY <1>1, <1>5, <2>6 DEF FirstKinds
<1>9. ~AnyUnheld'
  <2> SUFFICES ASSUME NEW k \in Ids, Token'[k] = "PUBREL", Copies'[k] = 0 PROVE FALSE
    BY <1>4 DEF AnyUnheld
  <2>1. Copies[k] = 0
    BY <1>2 DEF KeepsCopies
  <2>2. Token[k] # "PUBREC"
    <3>1. Safe(k)
      BY DEF ReceiveInv, CountInv, Told
    <3> QED
      BY <2>1, <3>1 DEF Safe
  <2>3. Token[k] = "PUBREL"
    BY <1>2, <2>2 DEF Answers2, KeepsToken
  <2> QED
    BY <1>8, <2>1, <2>3 DEF AnyUnheld
<1>10. ASSUME NEW k \in Ids PROVE Told(k)'
  <2>1. Told(k) /\ Fitting(k) /\ KeepsCopies(k) /\ given'[k] = given[k]
    BY <1>1, <1>2, BothFitting DEF ReceiveInv, CountInv
  <2>2. CASE k # p.mid
    BY <1>1, <1>2, <1>3, <1>4, <1>7, <1>9, <2>1, <2>2, UntoldKept
  <2>3. CASE k = p.mid
    <3>1. /\ Token[k] = "PUBREC" /\ Token'[k] \in {"PUBREL", "none"}
          /\ Phase'[k] \in {"none", "wait_for_pubcomp"} /\ Phase[k] \in Waiting \cup {"none"}
          /\ Phase[k] = "none" <=> Phase'[k] = "none"
          /\ Marked'[k] = Marked[k]
      <4>1. Token[k] = "PUBREC" /\ Phase[k] \in Waiting \cup {"none"}
        BY <1>2, <2>1, <2>3 DEF Answers2, Fitting, FirstKinds
      <4> QED
        BY <1>2, <2>3, <4>1 DEF Answers2
    <3>2. Seen(k)' = Seen(k) /\ (Two(k)' <=> Two(k)) /\ (Unsure' => Unsure)
      BY <1>1, <1>3, <1>7, <2>1 DEF Seen, KeepsCopies, Two, Unsure
    <3>3. /\ Bounded(k) /\ Once(k) /\ Unmarked(k) /\ Safe(k)
          /\ got[k] \in Nat /\ Copies[k] \in Nat /\ given[k].qos \in 1..2
      BY <2>1 DEF Told, Fitting
    <3>4. Copies[k] > 0
      BY <3>1, <3>3 DEF Safe
    <3>5. Safe(k)'
      BY <1>1, <2>1, <3>1, <3>3, <3>4 DEF Safe, KeepsCopies, Waiting
    <3>6. Bounded(k)'
      BY <1>1, <1>3, <1>7, <1>9, <3>1, <3>2, <3>3
      DEF Bounded, Unreleased, Publishing, Waiting
    <3>7. Once(k)'
      <4>1. given[k].qos = 2 => got[k] = 0 \/ breaks >= 2
        BY <3>1, <3>3 DEF Once
      <4> QED
        BY <1>1, <1>4, <2>1, <3>1, <3>2, <3>3, <4>1
        DEF Once, KeepsCopies, Two, Unreleased, Publishing, Waiting
    <3>8. Unmarked(k)'
      BY <3>1, <3>3 DEF Unmarked, States, Publishing, Waiting
    <3> QED
      BY <3>5, <3>6, <3>7, <3>8 DEF Told
  <2> QED
    BY <2>2, <2>3
<1> QED
  BY <1>1, <1>3, <1>4, <1>7, <1>9, <1>10 DEF ReceiveInv, CountInv

LEMMA TakenCounts ==
  ASSUME NoneComesRound, ReceiveInv, ExchangeInv', NEW p,
         TakesQoS1(p) \/ TakesQoS2(p) \/ TakesPubrel(p)
  PROVE  CountInv'
<1>1. given' = given /\ breaks' = breaks /\ threaded' = threaded /\ dropped' = dropped
  BY DEF TakesQoS1, TakesQoS2, TakesPubrel, Takes, ClientSide, config
<1>2. /\ p.mid \in Ids
      /\ \A k \in Ids : /\ Stays(k)
                        /\ \/ k = p.mid /\ (Passes(k) \/ Keeps(k) \/ Delivers(k))
                           \/ k # p.mid /\ KeepsToken(k) /\ KeepsCopies(k)
  <2>1. \A k \in Ids : /\ Stays(k) /\ p.mid \in Ids
                       /\ \/ k = p.mid /\ (Passes(k) \/ Keeps(k) \/ Delivers(k))
                          \/ k # p.mid /\ KeepsToken(k) /\ KeepsCopies(k)
    BY TakenView DEF ReceiveInv
  <2>2. p.mid \in Ids
    <3>1. down # <<>> /\ p = Head(down) /\ p.kind \in {"PUBLISH", "PUBREL"}
      BY DEF TakesQoS1, TakesQoS2, TakesPubrel, Takes
    <3> QED
      BY <3>1, ReadPacket DEF ReceiveInv
  <2> QED
    BY <2>1, <2>2
<1>3. Current /\ Current' /\ ~Stale /\ ~Stale'
  BY TakenOrder DEF ReceiveInv
<1>4. Ids' = Ids /\ breaks \in Nat
  BY <1>1 DEF Ids, ReceiveInv, ExchangeInv, LineTypes
<1>5. ~Resend
  BY <1>2 DEF ReceiveInv, OrderInv, Quiet, Passes, Keeps, Delivers
<1>6. ~Resend'
  BY <1>2, <1>4, <1>5 DEF Resend, Stays
<1>7. AnyUnheld' => AnyUnheld
  BY <1>2, <1>4 DEF AnyUnheld, KeepsToken, KeepsCopies, Passes, Keeps, Delivers
<1>8. ASSUME NEW k \in Ids PROVE Told(k)'
  <2>1. Told(k) /\ Fitting(k) /\ Stays(k) /\ given'[k] = given[k] /\ ~Unsure'
    BY <1>1, <1>2, <1>3, <1>6, BothFitting DEF ReceiveInv, CountInv, Unsure
  <2>2. /\ Bounded(k) /\ Once(k) /\ Unmarked(k) /\ Safe(k)
        /\ got[k] \in Nat /\ Copies[k] \in Nat /\ given[k].qos \in 1..2
        /\ Phase'[k] = Phase[k] /\ Marked'[k] = Marked[k]
    BY <2>1 DEF Told, Fitting, Stays
  <2>3. CASE k # p.mid
    BY <1>1, <1>2, <1>3, <1>6, <1>7, <2>1, <2>3, UntoldKept
  <2>4. CASE Passes(k)
    <3>1. /\ Token[k] = "PUBLISH" /\ Token'[k] = "PUBACK" /\ given[k].qos = 1
          /\ got'[k] = got[k] + 1 /\ Copies'[k] = Copies[k]
          /\ Phase[k] \in Waiting \cup {"none"} /\ Seen(k)' = Seen(k) + 1
      BY <2>1, <2>2, <2>4 DEF Passes, Fitting, FirstKinds, Seen
    <3>2. Phase[k] \notin {"queued"} \cup Releasing \cup Publishing
      BY <3>1 DEF Waiting, Releasing, Publishing
    <3>3. Safe(k)'
      BY <2>2, <3>1, <3>2 DEF Safe
    <3>4. Bounded(k)'
      <4>1. Seen(k) <= breaks /\ Seen(k) \in Nat
        BY <2>2, <3>1 DEF Bounded, Seen
      <4> QED
        BY <1>1, <1>3, <1>4, <2>1, <2>2, <3>1, <3>2, <4>1 DEF Bounded
    <3>5. Once(k)'
      BY <2>1, <3>1 DEF Once
    <3>6. Unmarked(k)'
      BY <2>2, <3>1, <3>2 DEF Unmarked, States, Waiting
    <3> QED
      BY <3>3, <3>4, <3>5, <3>6 DEF Told
  <2>5. CASE Keeps(k)
    <3>1. /\ Token[k] = "PUBLISH" /\ Token'[k] = "PUBREC" /\ given[k].qos = 2
          /\ got'[k] = got[k] /\ Copies'[k] = Copies[k] + 1
          /\ Phase[k] \in Waiting \cup {"none"} /\ Seen(k)' = Seen(k) + 1
      BY <2>1, <2>2, <2>5 DEF Keeps, Fitting, FirstKinds, Seen
    <3>2. Phase[k] \notin {"queued"} \cup Releasing \cup Publishing
      BY <3>1 DEF Waiting, Releasing, Publishing
    <3>3. Safe(k)'
      BY <1>1, <2>2, <3>1, <3>2 DEF Safe
    <3>4. Bounded(k)'
      <4>1. Seen(k) <= breaks /\ Seen(k) \in Nat
        BY <2>2, <3>1 DEF Bounded, Seen
      <4> QED
        BY <1>1, <1>3, <1>4, <2>1, <2>2, <3>1, <3>2, <4>1 DEF Bounded
    <3>5. Once(k)'
      <4>1. got[k] = 0 \/ breaks >= 2
        BY <2>2, <3>1 DEF Once
      <4> QED
        BY <1>1, <1>4, <2>1, <2>2, <3>1, <3>2, <4>1 DEF Once, Two
    <3>6. Unmarked(k)'
      BY <2>2, <3>1, <3>2 DEF Unmarked, States, Waiting
    <3> QED
      BY <3>3, <3>4, <3>5, <3>6 DEF Told
  <2>6. CASE Delivers(k)
    <3>1. /\ Token[k] = "PUBREL" /\ Token'[k] = "PUBCOMP"
          /\ got'[k] = got[k] + 1 /\ Copies[k] = Copies'[k] + 1
          /\ Phase[k] \in {"wait_for_pubcomp", "none"} /\ Copies'[k] \in Nat
          /\ given[k].qos = 2
      BY <1>1, <2>1, <2>6, BothFitting DEF ReceiveInv, Delivers, Fitting
    <3>2. Seen(k)' = Seen(k)
      BY <2>2, <3>1 DEF Seen
    <3>3. Phase[k] \notin {"queued"} \cup Waiting \cup Publishing
      BY <3>1 DEF Waiting, Publishing
    <3>4. Safe(k)'
      BY <2>2, <3>1 DEF Safe
    <3>5. Bounded(k)'
      BY <1>1, <1>3, <1>6, <1>7, <2>1, <2>2, <3>1, <3>2, <3>3 DEF Bounded, Unreleased
    <3>6. Once(k)'
      <4>1. got[k] >= 1 => breaks >= 2
        BY <2>2, <3>1 DEF Once, Two
      <4> QED
        BY <1>1, <2>1, <2>2, <3>1, <3>3, <4>1 DEF Once, Unreleased
    <3>7. Unmarked(k)'
      BY <2>2, <3>1, <3>3 DEF Unmarked, States
    <3> QED
      BY <3>4, <3>5, <3>6, <3>7 DEF Told
  <2> QED
    BY <1>2, <2>3, <2>4, <2>5, <2>6
<1> QED
  BY <1>3, <1>4, <1>8 DEF CountInv

LEMMA BreakCounts ==
  ASSUME NoneComesRound, ReceiveInv, ExchangeInv', Break
  PROVE  CountInv'
<1>1. given' = given /\ threaded' = threaded /\ dropped' = dropped
  BY DEF Break, config
<1>2. \A k \in Ids : /\ Stays(k) /\ KeepsCopies(k) /\ Loses(k)
                     /\ (\E a \in 1..Len(up') : up'[a].kind = "CONNECT") => KeepsToken(k)
  BY BreakView DEF ReceiveInv
<1>3. /\ ~Current' /\ (Stale' => \A k \in Ids : KeepsToken(k))
      /\ breaks' = breaks + 1
  BY <1>2, BreakSide
<1>4. Ids' = Ids /\ breaks \in Nat
  BY <1>1 DEF Ids, ReceiveInv, ExchangeInv, LineTypes
<1>5. ASSUME NEW k \in Ids PROVE Told(k)'
  <2>1. Told(k) /\ Fitting(k) /\ Stays(k) /\ KeepsCopies(k) /\ Loses(k) /\ given'[k] = given[k]
    BY <1>1, <1>2, BothFitting DEF ReceiveInv, CountInv
  <2>2. /\ Bounded(k) /\ Once(k) /\ Unmarked(k) /\ Safe(k)
        /\ got[k] \in Nat /\ Copies[k] \in Nat /\ given[k].qos \in 1..2
        /\ Phase'[k] = Phase[k] /\ Marked'[k] = Marked[k]
        /\ got'[k] = got[k] /\ Copies'[k] = Copies[k] /\ Seen(k)' = Seen(k)
        /\ Token'[k] = "none" \/ (Token'[k] = Token[k] /\ Repeat'[k] = Repeat[k])
    BY <2>1 DEF Told, Fitting, Stays, KeepsCopies, Loses, KeepsToken, Seen
  <2>3. Safe(k)'
    BY <1>1, <2>2 DEF Safe
  <2>4. Bounded(k)'
    <3>1. Seen(k) <= breaks' /\ Seen(k) <= 1 + breaks'
      BY <1>3, <1>4, <2>2 DEF Bounded, Seen
    <3> QED
      BY <2>2, <3>1 DEF Bounded
  <2>5. Once(k)'
    <3>1. ASSUME given[k].qos = 2, Phase[k] \in Releasing, Token'[k] # "PUBCOMP", got[k] > 0,
                 Stale' \/ Phase[k] = "resend_pubrel"
          PROVE  breaks >= 1
      <4>1. Token[k] # "PUBCOMP"
        <5>1. CASE Stale'
          BY <1>3, <3>1, <5>1 DEF KeepsToken
        <5>2. CASE Phase[k] = "resend_pubrel"
          BY <5>2 DEF ReceiveInv, OrderInv, Quiet, Resend
        <5> QED
          BY <3>1, <5>1, <5>2
      <4> QED
        BY <2>2, <3>1, <4>1 DEF Once
    <3>2. ASSUME given[k].qos = 2, got[k] >= 1, Copies[k] >= 1
          PROVE  breaks >= 1
      BY <1>4, <2>2, <3>2 DEF Bounded, Seen
    <3>3. given[k].qos = 2 => Two(k)'
      BY <1>3, <1>4, <2>2, <3>2 DEF Two
    <3>4. breaks >= 2 => breaks' >= 2
      BY <1>3, <1>4
    <3>5. breaks' >= 1 /\ (breaks >= 1 => breaks' >= 2)
      BY <1>3, <1>4
    <3> QED
      BY <2>1, <2>2, <3>1, <3>3, <3>4, <3>5 DEF Once
  <2>6. Unmarked(k)'
    BY <2>2 DEF Unmarked
  <2> QED
    BY <2>3, <2>4, <2>5, <2>6 DEF Told
<1> QED
  BY <1>3, <1>4, <1>5 DEF CountInv

LEMMA RefusedPublishCounts ==
  ASSUME NoneComesRound, ReceiveInv, ExchangeInv', NEW p, RefusesPublish(p)
  PROVE  CountInv'
<1>1. given' = given /\ breaks' = breaks /\ threaded' = threaded /\ dropped' = dropped
  BY DEF RefusesPublish, ClientSide, config
<1>2. \A k \in Ids : /\ ~threaded /\ Stays(k) /\ KeepsCopies(k)
                     /\ KeepsToken(k) \/ (Token[k] \in {"PUBLISH", "PUBREL"} /\ Token'[k] = "none")
  BY RefusedPublishView DEF ReceiveInv
<1>3. Current /\ ~Current' /\ ~Stale /\ ~Stale'
  BY RefusedPublishOrder DEF ReceiveInv
<1>4. Ids' = Ids /\ breaks \in Nat
  BY <1>1 DEF Ids, ReceiveInv, ExchangeInv, LineTypes
<1>5. ~Resend
  <2>1. p = Line[Unread + 1] /\ Unread + 1 \in 1..Len(Line) /\ p.kind = "PUBLISH"
    BY ReadPacket DEF RefusesPublish, ReceiveInv
  <2>2. p.mid \in Ids /\ Token[p.mid] = "PUBLISH"
    <3>1. p.mid \in Ids /\ p.mid # 0
      BY ReadPacket DEF RefusesPublish, ReceiveInv
    <3> QED
      BY <2>1, <3>1, ViewFacts DEF ReceiveInv, View, OnLineView
  <2> QED
    BY <2>2 DEF ReceiveInv, OrderInv, Quiet
<1>6. ~Resend'
  BY <1>2, <1>4, <1>5 DEF Resend, Stays
<1>7. ASSUME NEW k \in Ids PROVE Told(k)'
  <2>1. Told(k) /\ Fitting(k) /\ given'[k] = given[k] /\ ~Unsure'
    BY <1>1, <1>2, <1>3, <1>6, BothFitting DEF ReceiveInv, CountInv, Unsure
  <2>2. /\ Bounded(k) /\ Once(k) /\ Unmarked(k) /\ Safe(k)
        /\ got[k] \in Nat /\ Copies[k] \in Nat /\ given[k].qos \in 1..2
        /\ Phase'[k] = Phase[k] /\ Marked'[k] = Marked[k] /\ ~threaded'
        /\ got'[k] = got[k] /\ Copies'[k] = Copies[k] /\ Seen(k)' = Seen(k)
        /\ (Two(k)' <=> Two(k)) /\ Phase'[k] # "resend_pubrel"
        /\ \/ Token'[k] = Token[k] /\ Repeat'[k] = Repeat[k]
           \/ Token[k] \in {"PUBLISH", "PUBREL"} /\ Token'[k] = "none"
    BY <1>1, <1>2, <1>4, <1>6, <2>1 DEF Told, Fitting, Stays, KeepsCopies, KeepsToken, Seen, Two,
                                        Resend
  <2>3. Token[k] = "PUBREL" => Phase[k] \notin Unreleased
    BY <2>1 DEF Fitting, Unreleased, Publishing, Waiting
  <2>4. Safe(k)'
    BY <1>1, <2>2 DEF Safe
  <2>5. Bounded(k)'
    BY <1>1, <2>1, <2>2, <2>3 DEF Bounded
  <2>6. Once(k)'
    BY <1>1, <1>3, <2>1, <2>2, <2>3 DEF Once
  <2>7. Unmarked(k)'
    BY <2>2 DEF Unmarked
  <2> QED
    BY <2>4, <2>5, <2>6, <2>7 DEF Told
<1> QED
  BY <1>3, <1>4, <1>7 DEF CountInv

LEMMA RefusedPubrelCounts ==
  ASSUME NoneComesRound, ReceiveInv, ExchangeInv', NEW p, RefusesPubrel(p)
  PROVE  CountInv'
<1>1. given' = given /\ breaks' = breaks /\ threaded' = threaded /\ dropped' = dropped
  BY DEF RefusesPubrel, ClientSide, config
<1>2. /\ p.mid \in Ids /\ Token[p.mid] = "PUBREL" /\ Copies[p.mid] = 0
      /\ ~threaded => Token'[p.mid] = "PUBCOMP"
      /\ \A k \in Ids :
           /\ Stays(k) /\ KeepsCopies(k)
           /\ threaded => Token'[k] \notin FirstKinds
           /\ \/ k = p.mid /\ Token'[k] \in {"PUBCOMP", "none"}
              \/ KeepsToken(k)
              \/ Token[k] \in {"PUBLISH", "PUBREL"} /\ Token'[k] = "none"
              \/ threaded /\ Token[k] = "PUBCOMP" /\ Token'[k] = "none"
  BY RefusedPubrelView DEF ReceiveInv, OrderInv
<1>3. Current /\ ~Current' /\ ~Stale /\ ~Stale'
  BY RefusedPubrelOrder DEF ReceiveInv
<1>4. Ids' = Ids /\ breaks \in Nat
  BY <1>1 DEF Ids, ReceiveInv, ExchangeInv, LineTypes
<1>5. ~Resend /\ AnyUnheld
  BY <1>2 DEF ReceiveInv, OrderInv, Quiet, AnyUnheld
<1>6. ~Resend'
  BY <1>2, <1>4, <1>5 DEF Resend, Stays
<1>7. ASSUME NEW k \in Ids PROVE Told(k)'
  <2>1. Told(k) /\ Fitting(k) /\ given'[k] = given[k] /\ ~Unsure'
    BY <1>1, <1>2, <1>3, <1>6, BothFitting DEF ReceiveInv, CountInv, Unsure
  <2>2. /\ Bounded(k) /\ Once(k) /\ Unmarked(k) /\ Safe(k)
        /\ got[k] \in Nat /\ Copies[k] \in Nat /\ given[k].qos \in 1..2
        /\ Phase'[k] = Phase[k] /\ Marked'[k] = Marked[k]
        /\ got'[k] = got[k] /\ Copies'[k] = Copies[k] /\ Seen(k)' = Seen(k)
        /\ (Two(k)' <=> Two(k)) /\ Phase'[k] # "resend_pubrel"
    BY <1>1, <1>2, <1>4, <1>6, <2>1 DEF Told, Fitting, Stays, KeepsCopies, Seen, Two, Resend
  <2>3. \/ Token'[k] = Token[k] /\ Repeat'[k] = Repeat[k]
        \/ Token[k] \in {"PUBLISH", "PUBREL"} /\ Token'[k] = "none"
        \/ Token[k] = "PUBREL" /\ Token'[k] = "PUBCOMP" /\ got[k] > 0
        \/ threaded /\ Token[k] = "PUBCOMP" /\ Token'[k] = "none"
    <3>1. CASE k = p.mid /\ Token'[k] \in {"PUBCOMP", "none"}
      BY <1>2, <2>2, <3>1 DEF Safe
    <3> QED
      BY <1>2, <3>1 DEF KeepsToken
  <2>4. Token[k] \in {"PUBREL", "PUBCOMP"} => Phase[k] \in {"wait_for_pubcomp", "none"}
    BY <2>1 DEF Fitting
  <2>5. Token[k] \in {"PUBREL", "PUBCOMP"} => Phase[k] \notin Unreleased
    BY <2>4 DEF Unreleased, Publishing, Waiting
  <2>6. threaded /\ Phase[k] \in Releasing => Seen(k) <= breaks
    BY <1>5, <2>2 DEF Bounded
  <2>7. Safe(k)'
    BY <1>1, <2>2, <2>3 DEF Safe
  <2>8. Bounded(k)'
    <3>1. threaded => Token'[k] # "PUBREC"
      BY <1>2 DEF FirstKinds
    <3> QED
      BY <1>1, <2>1, <2>2, <2>3, <2>5, <2>6, <3>1 DEF Bounded
  <2>9. Once(k)'
    <3>1. threaded /\ Phase[k] \in Releasing => /\ got[k] > 0 => breaks >= 1
                                                /\ Two(k)
      BY <1>4, <2>2, <2>6 DEF Seen, Two
    <3>2. Phase[k] \in States /\ Token[k] = "PUBCOMP" => Phase[k] \in Releasing
      BY <2>4 DEF States, Publishing, Waiting, Releasing
    <3> QED
      BY <1>1, <1>3, <2>1, <2>2, <2>3, <2>5, <3>1, <3>2 DEF Once
  <2>10. Unmarked(k)'
    BY <2>2, <2>3 DEF Unmarked
  <2> QED
    BY <2>7, <2>8, <2>9, <2>10 DEF Told
<1> QED
  BY <1>3, <1>4, <1>7 DEF CountInv

-----------------------------------------------------------------------------
LEMMA ReceiveInit == NoneComesRound /\ Init => ReceiveInv
<1> SUFFICES ASSUME NoneComesRound, Init PROVE ReceiveInv
  OBVIOUS
<1>1. ExchangeInv
  BY ExchangeInit
<1>2. /\ given = <<>> /\ inflight = <<>> /\ up = <<>> /\ down = <<>> /\ sock = "none"
      /\ outp = <<>>
  BY DEF Init
<1>3. Ids = {} /\ Len(inflight) = 0 /\ Len(up) = 0
  BY <1>2 DEF Ids
<1>4. Line = <<>> /\ Len(Line) = 0
  BY <1>2 DEF Line, Unwritten
<1>5. OrderInv
  BY <1>3, <1>4 DEF OrderInv, Quiet, Waits, Front, Sequential, Ahead
<1>6. CountInv
  BY <1>3 DEF CountInv, Stale
<1> QED
  BY <1>1, <1>5, <1>6 DEF ReceiveInv

LEMMA ReceiveStep ==
  ASSUME NoneComesRound, ReceiveInv, [Next]_vars
  PROVE  ReceiveInv'
<1>1. ExchangeInv /\ OrderInv
  BY DEF ReceiveInv
<1>2. ExchangeInv'
  BY <1>1, ExchangeStep
<1>3. CASE \E qos \in 1..2, expires \in Expiring : Send(qos, expires)
  BY <1>1, <1>2, <1>3, SendOrder, SendCounts DEF ReceiveInv
<1>4. CASE Silent
  BY <1>1, <1>2, <1>4, QuietOrder, QuietCounts DEF ReceiveInv
<1>5. CASE BrokerRead
  BY <1>1, <1>2, <1>4, <1>5, BrokerReadCases, ConnectOrder, ConnectCounts, AckOrder, AckCounts,
     PubrecCounts DEF ReceiveInv, Silent
<1>6. CASE MessageWrite
  BY <1>1, <1>2, <1>6, WriteOrder, WriteCounts DEF ReceiveInv
<1>7. CASE ClientRead
  <2> DEFINE p == Head(down)
  <2>1. \/ TakesConnack(p) \/ TakesQoS1(p) \/ TakesQoS2(p)
        \/ TakesPubrel(p) \/ RefusesPublish(p) \/ RefusesPubrel(p)
    BY <1>1, <1>7, ClientReadCases
  <2>2. TakesConnack(p) => Silent
    BY DEF Silent
  <2> HIDE DEF p
  <2> QED
    BY <1>1, <1>2, <1>4, <2>1, <2>2, TakenOrder, TakenCounts, RefusedPublishOrder,
       RefusedPublishCounts, RefusedPubrelOrder, RefusedPubrelCounts DEF ReceiveInv
<1>8. CASE Break
  BY <1>1, <1>2, <1>8, BreakOrder, BreakCounts DEF ReceiveInv
<1>9. CASE Connect \/ ClientWrite \/ Expire \/ Offline \/ UNCHANGED vars
  BY <1>4, <1>9 DEF Silent
<1> QED
  BY <1>3, <1>5, <1>6, <1>7, <1>8, <1>9 DEF Next, Broker

-----------------------------------------------------------------------------
LEMMA Received ==
  ReceiveInv => TypeOK /\ KeptUntilReceived /\ CopiesTakeBreaks /\ DupMarksRepeats
<1> SUFFICES ASSUME ReceiveInv
             PROVE  TypeOK /\ KeptUntilReceived /\ CopiesTakeBreaks /\ DupMarksRepeats
  OBVIOUS
<1>1. LineTypes /\ View /\ breaks \in Nat
  BY ViewFacts DEF ReceiveInv, ExchangeInv, LineTypes
<1>2. TypeOK
  BY <1>1 DEF LineTypes
<1>3. \A k \in Ids : /\ Safe(k) /\ Bounded(k) /\ Once(k) /\ Unmarked(k)
                     /\ got[k] \in Nat /\ Copies[k] \in Nat
  BY <1>1 DEF ReceiveInv, CountInv, Told, View, Fitting
<1>4. KeptUntilReceived
  <2> SUFFICES ASSUME NEW k \in Ids, Phase[k] # "none" PROVE k \in InSession
    BY <1>3 DEF KeptUntilReceived, Safe
  <2>1. \/ \E i \in 1..Len(inflight) : inflight[i].id = k
        \/ \E i \in 1..Len(queued) : queued[i].id = k
    BY <1>1 DEF View, InSessionView
  <2> QED
    BY <2>1 DEF InSession
<1>5. CopiesTakeBreaks
  <2> SUFFICES ASSUME NEW k \in Ids
               PROVE  /\ got[k] <= 1 + breaks
                      /\ given[k].qos = 2 /\ breaks <= 1 => got[k] <= 1
    BY DEF CopiesTakeBreaks
  <2>1. got[k] + Copies[k] <= 1 + breaks
    BY <1>3 DEF Bounded, Seen
  <2>2. given[k].qos = 2 /\ got[k] >= 2 => breaks >= 2
    BY <1>3 DEF Once
  <2> QED
    BY <1>1, <1>3, <2>1, <2>2
<1>6. DupMarksRepeats
  <2> DEFINE p == Head(down)
  <2> SUFFICES ASSUME down # <<>>, p.kind = "PUBLISH", ~p.dup
               PROVE  got[p.id] = 0 /\ \A i \in 1..Len(held) : held[i].id # p.id
    BY DEF DupMarksRepeats
  <2>1. /\ p = Line[Unread + 1] /\ Unread + 1 \in 1..Len(Line)
        /\ p.mid # 0 /\ p.mid \in Ids /\ FitsPacket(p)
    BY ReadPacket DEF ReceiveInv
  <2> HIDE DEF p
  <2>2. p.id = p.mid
    BY <2>1 DEF FitsPacket
  <2>3. Token[p.mid] = "PUBLISH" /\ ~Repeat[p.mid]
    BY <1>1, <2>1 DEF View, OnLineView
  <2>4. got[p.mid] + Copies[p.mid] = 0
    BY <1>3, <2>1, <2>3 DEF Unmarked, Seen
  <2>5. got[p.mid] = 0 /\ Copies[p.mid] = 0
    BY <1>3, <2>1, <2>4
  <2>6. ~Held(p.mid)
    <3>1. Copies[p.mid] > 0 <=> Held(p.mid)
      BY <1>1, <2>1, CopyCount
    <3> QED
      BY <2>5, <3>1
  <2> QED
    BY <2>2, <2>5, <2>6 DEF Held
<1> QED
  BY <1>2, <1>4, <1>5, <1>6

-----------------------------------------------------------------------------
(* On the first connection, of a client that does not close it and of      *)
(* messages that do not expire: the quota and the messages in flight are   *)
(* the limit together, and whoever is answered is in flight.               *)
OneConnection == Protocols = {"v311"} /\ Expiring = {FALSE}

Known ==
  /\ protocol = "v311"
  /\ \A k \in Ids : ~given[k].expires /\ (Token[k] # "none" => Phase[k] # "none")
AtFirst ==
  breaks = 0 =>
    /\ ~Resend /\ ~AnyUnheld /\ (~Current => inflight = <<>> /\ ~online)
    /\ out_quota + Len(inflight) <= MaxInflight
LimitInv == Known /\ AtFirst

LEMMA FewerPlaces ==
  ASSUME NEW N \in Nat, NEW l \in Nat, NEW S \in SUBSET (1..N), NEW e,
         \A i \in 1..l : e[i] \in S, \A i, j \in 1..l : i < j => e[i] < e[j]
  PROVE  l <= Cardinality(S)
<1> DEFINE f == [i \in 1..l |-> e[i]]
<1>1. IsFiniteSet(S)
  BY FiniteRange
<1>2. \A i, j \in 1..l : e[i] = e[j] => i = j
  <2> SUFFICES ASSUME NEW i \in 1..l, NEW j \in 1..l, e[i] = e[j], i # j PROVE FALSE
    OBVIOUS
  <2>1. e[i] \in 1..N /\ e[j] \in 1..N
    OBVIOUS
  <2>2. i < j \/ j < i
    OBVIOUS
  <2>3. i < j => e[i] < e[j]
    OBVIOUS
  <2>4. j < i => e[j] < e[i]
    OBVIOUS
  <2> QED
    BY <2>1, <2>2, <2>3, <2>4
<1>3. f \in Injection(1..l, S)
  BY <1>2 DEF Injection, IsInjective
<1>4. Cardinality(1..l) <= Cardinality(S)
  BY <1>1, <1>3, FS_Injection
<1>5. Cardinality(1..l) = l
  BY FS_Interval
<1> QED
  BY <1>4, <1>5

LEMMA FewerInFlight ==
  ASSUME LineTypes, NEW l, NEW e, NEW n, Carries(l, e, n)
  PROVE  /\ l <= Len(inflight)
         /\ \A hit \in 1..Len(inflight) : (\A i \in 1..l : e[i] # hit) => l <= Len(inflight) - 1
<1>1. Len(inflight) \in Nat
  BY SessionTypes
<1>2. /\ l \in Nat /\ \A i \in 1..l : e[i] \in 1..Len(inflight)
      /\ \A i, j \in 1..l : i < j => e[i] < e[j]
  BY DEF Carries
<1>3. IsFiniteSet(1..Len(inflight)) /\ Cardinality(1..Len(inflight)) = Len(inflight)
  BY SMTT(30), <1>1, FS_Interval
<1>4. l <= Cardinality(1..Len(inflight))
  BY <1>1, <1>2, FewerPlaces
<1>5. ASSUME NEW hit \in 1..Len(inflight), \A i \in 1..l : e[i] # hit
      PROVE  l <= Len(inflight) - 1
  <2> DEFINE S == 1..Len(inflight) \ {hit}
  <2>1. \A i \in 1..l : e[i] \in S
    BY <1>2, <1>5
  <2>2. S \in SUBSET (1..Len(inflight))
    OBVIOUS
  <2>3. Cardinality(S) = Cardinality(1..Len(inflight)) - 1
    BY <1>3, FS_RemoveElement
  <2> HIDE DEF S
  <2>4. l <= Cardinality(S)
    BY <1>1, <1>2, <2>1, <2>2, FewerPlaces
  <2> QED
    BY <1>3, <2>3, <2>4
<1> QED
  BY <1>3, <1>4, <1>5

(* What no step but those of the broker changes. *)
LEMMA KnownKept ==
  ASSUME OneConnection, Known, protocol' = protocol, given' = given,
         \A k \in Ids : /\ Phase'[k] = "none" => Phase[k] = "none" \/ Token'[k] = "none"
                        /\ Token[k] = "none" => Token'[k] = "none" \/ Phase'[k] # "none"
  PROVE  Known'
<1>1. Ids' = Ids
  BY DEF Ids
<1> QED
  BY <1>1 DEF Known

LEMMA QuietLimit ==
  ASSUME NoneComesRound, OneConnection, ReceiveInv, ExchangeInv', LimitInv, Silent
  PROVE  LimitInv'
<1>1. /\ given' = given /\ inflight' = inflight
      /\ \A k \in Ids : Stays(k) /\ KeepsToken(k) /\ KeepsCopies(k)
  BY QuietView DEF ReceiveInv
<1>2. /\ protocol' = protocol /\ out_quota' = out_quota /\ (online' => online)
      /\ (Current' <=> Current) /\ breaks' = breaks
  <2>1. (Current' <=> Current) /\ breaks' = breaks
    BY QuietSide DEF ReceiveInv, ExchangeInv
  <2>2. protocol' = protocol /\ out_quota' = out_quota /\ (online' => online)
    BY DEF Silent, Connect, ClientWrite, Expire, Offline, ReadsNothing, TakesConnack, Takes,
           ClientSide, vars, session, config
  <2> QED
    BY <2>1, <2>2
<1>3. Ids' = Ids
  BY <1>1 DEF Ids
<1>4. Known'
  BY <1>1, <1>2, KnownKept DEF LimitInv, Stays, KeepsToken
<1>5. (Resend' => Resend) /\ (AnyUnheld' => AnyUnheld)
  BY <1>1, <1>3 DEF Resend, AnyUnheld, Stays, KeepsToken, KeepsCopies
<1> QED
  BY <1>1, <1>2, <1>4, <1>5 DEF LimitInv, AtFirst

LEMMA SendLimit ==
  ASSUME NoneComesRound, OneConnection, ReceiveInv, ExchangeInv', LimitInv,
         NEW qos \in 1..2, NEW expires \in Expiring, Send(qos, expires)
  PROVE  LimitInv'
<1> DEFINE new == Len(given) + 1
<1>1. /\ Ids' = Ids \cup {new} /\ new \notin Ids
      /\ \A k \in Ids : /\ given'[k] = given[k]
                        /\ Stays(k) /\ KeepsToken(k) /\ KeepsCopies(k)
      /\ Token'[new] = "none" /\ given'[new] = [qos |-> qos, expires |-> expires]
      /\ Phase'[new] \in {"queued", "none"} \cup Publishing
  BY SentView DEF ReceiveInv
<1>2. ~given'[new].expires
  BY <1>1 DEF OneConnection
<1>3. LineTypes /\ Len(inflight) \in Nat /\ out_quota \in 0..MaxInflight
  BY SessionTypes DEF ReceiveInv, ExchangeInv, LineTypes, TypeOK
<1>4. /\ protocol' = protocol /\ (Current' <=> Current) /\ breaks' = breaks /\ online' = online
  BY SendSide DEF Send, config
<1>5. Known'
  BY <1>1, <1>2, <1>4 DEF LimitInv, Known, Stays, KeepsToken
<1>6. (Resend' => Resend) /\ (AnyUnheld' => AnyUnheld)
  BY <1>1 DEF Resend, AnyUnheld, Stays, KeepsToken, KeepsCopies, Publishing
<1>7. \/ /\ online /\ Len(inflight') = Len(inflight) + 1 /\ out_quota' = out_quota - 1
      \/ inflight' = inflight /\ out_quota' <= out_quota
  <2>1. /\ \/ /\ online /\ out_quota > 0 /\ dropped' = dropped
              /\ inflight' = Append(inflight, ToPublish(NewMessage(qos)))
           \/ inflight' = inflight
        /\ out_quota' = IF new \in dropped' THEN out_quota ELSE Down(out_quota)
    BY <1>3, InsertedMessage
  <2>2. new \notin dropped
    BY <1>1, <1>3 DEF LineTypes, TypeOK
  <2>3. out_quota' <= out_quota
    BY <1>3, <2>1 DEF Down, NoneComesRound
  <2>4. ASSUME online, out_quota > 0, dropped' = dropped,
               inflight' = Append(inflight, ToPublish(NewMessage(qos)))
        PROVE  Len(inflight') = Len(inflight) + 1 /\ out_quota' = out_quota - 1
    <3>1. inflight \in Seq(Messages)
      BY <1>3 DEF LineTypes
    <3>2. Len(inflight') = Len(inflight) + 1
      BY <2>4, <3>1
    <3> QED
      BY <1>3, <2>1, <2>2, <2>4, <3>2 DEF Down, NoneComesRound
  <2> QED
    BY <2>1, <2>3, <2>4
<1>8. out_quota' \in 0..MaxInflight
  BY ViewAfter DEF LineTypes, TypeOK
<1>9. MaxInflight \in Nat
  BY DEF NoneComesRound
<1>10. AtFirst'
  <2> SUFFICES ASSUME breaks' = 0
               PROVE  /\ ~Resend' /\ ~AnyUnheld' /\ (~Current' => inflight' = <<>> /\ ~online')
                      /\ out_quota' + Len(inflight') <= MaxInflight
    BY DEF AtFirst
  <2>1. /\ ~Resend /\ ~AnyUnheld /\ (~Current => inflight = <<>> /\ ~online)
        /\ out_quota + Len(inflight) <= MaxInflight
    BY <1>4 DEF LimitInv, AtFirst
  <2>2. out_quota' + Len(inflight') <= MaxInflight
    BY <1>3, <1>7, <1>8, <1>9, <2>1
  <2> QED
    BY <1>4, <1>6, <1>7, <2>1, <2>2
<1> QED
  BY <1>5, <1>10 DEF LimitInv

LEMMA WriteLimit ==
  ASSUME NoneComesRound, OneConnection, ReceiveInv, ExchangeInv', LimitInv, MessageWrite
  PROVE  LimitInv'
<1>1. /\ given' = given /\ protocol' = protocol /\ online' = online /\ online
      /\ out_quota' = out_quota - Lower(out_quota, Len(queued))
  BY DEF MessageWrite, config
<1>2. (Current' <=> Current) /\ breaks' = breaks
  BY WriteSide
<1>3. /\ LineTypes /\ Len(inflight) \in Nat /\ Len(queued) \in Nat
      /\ out_quota \in 0..MaxInflight /\ MaxInflight \in Nat /\ Ids' = Ids
  BY <1>1, SessionTypes DEF ReceiveInv, ExchangeInv, LineTypes, TypeOK, NoneComesRound, Ids
<1>4. \A k \in Ids : KeepsCopies(k) /\ (NotDue(k) \/ Publishes(k) \/ Releases(k))
  <2> SUFFICES ASSUME NEW k \in Ids
               PROVE  KeepsCopies(k) /\ (NotDue(k) \/ Publishes(k) \/ Releases(k))
    OBVIOUS
  <2>1. KeepsCopies(k) /\ (NotDue(k) \/ Expires(k) \/ Publishes(k) \/ Releases(k))
    BY WrittenView DEF ReceiveInv
  <2>2. ~Expires(k)
    BY DEF LimitInv, Known, Expires
  <2> QED
    BY <2>1, <2>2
<1>5. Known'
  <2>1. ASSUME NEW k \in Ids
        PROVE  /\ Phase'[k] = "none" => Phase[k] = "none"
               /\ Token[k] = "none" => Token'[k] = "none" \/ Phase'[k] # "none"
    BY <1>4
    DEF NotDue, Publishes, Releases, Advances, Stays, KeepsToken, Publishing, Waiting
  <2> QED
    BY <1>1, <2>1, KnownKept DEF LimitInv
<1>6. PICK l, e : Carries(l, e, Lower(out_quota, Len(queued)))
  BY <1>3, WrittenSession
<1>7. l <= Len(inflight)
  BY <1>3, <1>6, FewerInFlight
<1>8. Len(inflight') = l + Lower(out_quota, Len(queued)) /\ l \in Nat
  BY <1>6 DEF Carries
<1>9. ASSUME breaks' = 0
      PROVE  /\ ~Resend' /\ ~AnyUnheld' /\ (~Current' => inflight' = <<>> /\ ~online')
             /\ out_quota' + Len(inflight') <= MaxInflight
  <2>1. /\ ~Resend /\ ~AnyUnheld /\ (~Current => inflight = <<>> /\ ~online)
        /\ out_quota + Len(inflight) <= MaxInflight
    BY <1>2, <1>9 DEF LimitInv, AtFirst
  <2>2. out_quota' + Len(inflight') <= MaxInflight
    BY <1>1, <1>3, <1>7, <1>8, <2>1 DEF Lower
  <2>3. \A k \in Ids : ~Releases(k)
    BY <2>1 DEF Releases, Resend
  <2>4. ~Resend'
    BY <1>3, <1>4, <2>1, <2>3
    DEF Resend, NotDue, Publishes, Advances, Stays, Publishing, Waiting
  <2>5. ~AnyUnheld'
    BY <1>3, <1>4, <2>1, <2>3 DEF AnyUnheld, NotDue, Publishes, KeepsToken, KeepsCopies
  <2> QED
    BY <1>1, <1>2, <2>1, <2>2, <2>4, <2>5
<1> QED
  BY <1>5, <1>9 DEF LimitInv, AtFirst

LEMMA ConnectLimit ==
  ASSUME NoneComesRound, OneConnection, ReceiveInv, ExchangeInv', LimitInv, ReadsConnect
  PROVE  LimitInv'
<1>1. /\ given' = given /\ protocol' = protocol /\ breaks' = breaks /\ sock' = sock
      /\ up # <<>> /\ up' = Tail(up) /\ Head(up).kind = "CONNECT" /\ HandleConnect
  BY DEF ReadsConnect, config, client
<1>2. LineTypes /\ View /\ Ids' = Ids /\ Len(queued) \in Nat /\ MaxInflight \in Nat
  BY <1>1, SessionTypes, ViewFacts DEF ReceiveInv, ExchangeInv, NoneComesRound, Ids
<1>3. ~Current /\ (~Current' => Stale) /\ (Stale' => Stale)
  BY <1>1, <1>2, BrokerReadSide
<1>4. \A k \in Ids : /\ KeepsCopies(k) /\ Resumes(k)
                     /\ Token[k] = "none" /\ Token'[k] = "none"
  BY ConnectView DEF ReceiveInv
<1>5. Known'
  BY <1>1, <1>4, KnownKept DEF LimitInv
<1>6. ASSUME breaks' = 0
      PROVE  /\ ~Resend' /\ ~AnyUnheld' /\ (~Current' => inflight' = <<>> /\ ~online')
             /\ out_quota' + Len(inflight') <= MaxInflight
  <2>1. inflight = <<>> /\ breaks = 0
    BY <1>1, <1>3, <1>6 DEF LimitInv, AtFirst
  <2>2. Current'
    BY <1>2, <1>3, <2>1 DEF ReceiveInv, CountInv, LineTypes
  <2>3. \A k \in Ids : Phase[k] \in {"none", "queued"}
    BY <1>2, <2>1 DEF View, InSessionView
  <2>4. \A k \in Ids : Phase'[k] # "resend_pubrel"
    BY <1>4, <2>3 DEF Resumes, Advances, Stays, Publishing, Waiting
  <2>5. ~Resend' /\ ~AnyUnheld'
    BY <1>2, <1>4, <2>4 DEF Resend, AnyUnheld
  <2>6. PICK e : Carries(Len(inflight), e, Lower(MaxInflight, Len(queued)))
    BY <1>1, <1>2, ResumedSession DEF ResumesAll
  <2>7. Len(inflight') = Lower(MaxInflight, Len(queued))
    BY <1>2, <2>1, <2>6 DEF Carries, Lower
  <2>8. out_quota' = MaxInflight - Lower(MaxInflight, Len(queued))
    BY <1>1 DEF HandleConnect
  <2>9. out_quota' + Len(inflight') <= MaxInflight
    BY <1>2, <2>7, <2>8 DEF Lower
  <2> QED
    BY <2>2, <2>5, <2>9
<1> QED
  BY <1>5, <1>6 DEF LimitInv, AtFirst

(* Who is answered was in flight: the place it leaves is one of the limit. *)
(* Who is answered leaves. *)
LEMMA AckLeaves ==
  ASSUME NoneComesRound, ReceiveInv, ExchangeInv', LimitInv, ReadsAck(Head(up))
  PROVE  Len(Without(inflight, Head(up).mid)) <= Len(inflight) - 1
<1> DEFINE p == Head(up)
           left == Without(inflight, p.mid)
           n == Lower(Len(queued), FreePlaces(p.mid))
<1>1. up # <<>> /\ up' = Tail(up) /\ p.kind \in {"PUBACK", "PUBCOMP"}
  BY DEF ReadsAck
<1>2. /\ inflight' = left \o Map(ToPublish, SubSeq(queued, 1, n))
      /\ queued' = SubSeq(queued, n + 1, Len(queued))
  BY DEF ReadsAck, Deletes
<1>3. LineTypes /\ View /\ Len(inflight) \in Nat
  BY SessionTypes, ViewFacts DEF ReceiveInv, ExchangeInv
<1>4. p.mid \in Ids
  <2>1. p = Line[1] /\ 1 \in 1..Len(Line)
    BY <1>1, <1>3, BrokerReads
  <2> HIDE DEF p
  <2> QED
    BY <1>1, <2>1 DEF ReceiveInv, ExchangeInv, FitInv, FitsPacket
<1> HIDE DEF p
<1>5. Ends(p.mid, {"PUBACK", "PUBCOMP"})
  BY <1>4, AckView DEF ReceiveInv, p
<1>6. PICK hit \in 1..Len(inflight) : inflight[hit].id = p.mid /\ inflight[hit].mid = p.mid
  <2>1. Token[p.mid] # "none" /\ Fitting(p.mid) /\ Token[p.mid] \in {"PUBACK", "PUBCOMP"}
    BY <1>3, <1>4, <1>5 DEF Ends, View
  <2>2. Phase[p.mid] \notin {"none", "queued"}
    BY <1>4, <2>1 DEF LimitInv, Known, Fitting, FirstKinds, Waiting
  <2> QED
    BY <1>3, <1>4, <2>2 DEF View, InSessionView
<1>7. PICK e : /\ Carries(Len(left), e, n) /\ RemainsBut(Len(left), e, p.mid)
               /\ Len(left) \in Nat
  BY <1>2, <1>3, DeletedSession
<1>8. \A i \in 1..Len(left) : e[i] # hit
  BY <1>6, <1>7 DEF RemainsBut
<1>9. Len(left) <= Len(inflight) - 1
  <2> HIDE DEF left, n
  <2> QED
    BY <1>3, <1>6, <1>7, <1>8, FewerInFlight
<1> QED
  BY <1>9 DEF p

LEMMA AckLimit ==
  ASSUME NoneComesRound, OneConnection, ReceiveInv, ExchangeInv', LimitInv, ReadsAck(Head(up))
  PROVE  LimitInv'
<1> DEFINE p == Head(up)
           left == Without(inflight, p.mid)
           n == Lower(Len(queued), FreePlaces(p.mid))
<1>1. /\ given' = given /\ protocol' = protocol /\ breaks' = breaks /\ sock' = sock
      /\ up # <<>> /\ up' = Tail(up) /\ p.kind \in {"PUBACK", "PUBCOMP"}
      /\ online /\ online' = online
  BY DEF ReadsAck, Deletes, config, client
<1>2. /\ inflight' = left \o Map(ToPublish, SubSeq(queued, 1, n))
      /\ queued' = SubSeq(queued, n + 1, Len(queued))
      /\ out_quota' = Up(out_quota) - Lower(n, Up(out_quota))
  BY DEF ReadsAck, Deletes
<1>3. /\ LineTypes /\ View /\ Ids' = Ids /\ MaxInflight \in Nat
      /\ Len(queued) \in Nat /\ Len(inflight) \in Nat /\ out_quota \in 0..MaxInflight
  BY <1>1, SessionTypes, ViewFacts
  DEF ReceiveInv, ExchangeInv, LineTypes, TypeOK, NoneComesRound, Ids
<1>4. (Current' <=> Current) /\ (Stale' => Stale)
  BY <1>1, <1>3, BrokerReadSide
<1>5. \A k \in Ids : /\ KeepsCopies(k)
                     /\ IF k = p.mid THEN Ends(k, {"PUBACK", "PUBCOMP"})
                                     ELSE Advances(k) /\ KeepsToken(k)
  BY AckView DEF ReceiveInv
<1>6. p.mid \in Ids /\ p = Line[1] /\ 1 \in 1..Len(Line)
  <2>1. p = Line[1] /\ 1 \in 1..Len(Line)
    BY <1>1, <1>3, BrokerReads
  <2> HIDE DEF p
  <2> QED
    BY <1>1, <2>1 DEF ReceiveInv, ExchangeInv, FitInv, FitsPacket
<1> HIDE DEF p
<1>7. Known'
  <2>1. ASSUME NEW k \in Ids
        PROVE  /\ Phase'[k] = "none" => Phase[k] = "none" \/ Token'[k] = "none"
               /\ Token[k] = "none" => Token'[k] = "none" \/ Phase'[k] # "none"
    BY <1>5 DEF Ends, Advances, Stays, KeepsToken, Publishing
  <2> QED
    BY <1>1, <2>1, KnownKept DEF LimitInv
<1>9. PICK e : Carries(Len(left), e, n) /\ Len(left) \in Nat
  BY <1>2, <1>3, DeletedSession
<1>10. Len(left) <= Len(inflight) - 1
  BY AckLeaves DEF p
<1> DEFINE l == Len(left)
<1> HIDE DEF l
<1>11. l \in Nat /\ l <= Len(inflight) - 1
  BY <1>9, <1>10 DEF l
<1>12. Len(inflight') = l + n
  BY <1>9 DEF Carries, l
<1>13. FreePlaces(p.mid) = MaxInflight - Lower(MaxInflight, l)
  BY DEF FreePlaces, l
<1>14. n = Lower(Len(queued), MaxInflight - Lower(MaxInflight, l))
  BY <1>13
<1> HIDE DEF left, n
<1>15. ASSUME breaks' = 0
       PROVE  /\ ~Resend' /\ ~AnyUnheld' /\ (~Current' => inflight' = <<>> /\ ~online')
              /\ out_quota' + Len(inflight') <= MaxInflight
  <2>1. /\ ~Resend /\ ~AnyUnheld /\ Current /\ out_quota + Len(inflight) <= MaxInflight
    BY <1>1, <1>15 DEF LimitInv, AtFirst
  <2>2. n \in Nat /\ l + n <= MaxInflight
    BY <1>3, <1>11, <1>14, <2>1 DEF Lower
  <2>3. out_quota' + Len(inflight') <= MaxInflight
    <3> DEFINE u == Up(out_quota)
    <3>1. u \in Nat /\ u <= out_quota + 1
      BY <1>3 DEF Up
    <3>2. out_quota' = u - Lower(n, u)
      BY <1>2
    <3> HIDE DEF u
    <3>3. u - Lower(n, u) + (l + n) <= MaxInflight
      BY <1>3, <1>11, <2>1, <2>2, <3>1 DEF Lower
    <3> QED
      BY <1>12, <3>2, <3>3
  <2>4. ~Resend' /\ ~AnyUnheld'
    BY <1>3, <1>5, <2>1
    DEF Resend, AnyUnheld, Ends, Advances, Stays, KeepsToken, KeepsCopies, Publishing
  <2> QED
    BY <1>4, <2>1, <2>3, <2>4
<1> QED
  BY <1>7, <1>15 DEF LimitInv, AtFirst

LEMMA PubrecLimit ==
  ASSUME NoneComesRound, OneConnection, ReceiveInv, ExchangeInv', LimitInv,
         ReadsPubrec(Head(up))
  PROVE  LimitInv'
<1> DEFINE p == Head(up)
<1>1. /\ given' = given /\ protocol' = protocol /\ breaks' = breaks /\ sock' = sock
      /\ up # <<>> /\ up' = Tail(up) /\ p.kind = "PUBREC"
      /\ online /\ online' = online /\ out_quota' = out_quota
      /\ inflight' = [i \in 1..Len(inflight) |->
           IF i \in At(inflight, p.mid) THEN [inflight[i] EXCEPT !.state = "wait_for_pubcomp"]
                                        ELSE inflight[i]]
  BY DEF ReadsPubrec, config, client
<1>2. LineTypes /\ Len(inflight) \in Nat
  BY SessionTypes DEF ReceiveInv, ExchangeInv
<1>3. Current' <=> Current
  BY <1>1, <1>2, BrokerReadSide
<1>4. \A k \in Ids : /\ KeepsCopies(k)
                     /\ IF k = p.mid THEN Answers2(k) ELSE Stays(k) /\ KeepsToken(k)
  BY PubrecView DEF ReceiveInv
<1> HIDE DEF p
<1>5. ~Resend' /\ ~AnyUnheld'
  BY PubrecCounts
<1>6. Len(inflight') = Len(inflight)
  BY <1>1, <1>2
<1>7. Known'
  <2>1. ASSUME NEW k \in Ids
        PROVE  /\ Phase'[k] = "none" => Phase[k] = "none" \/ Token'[k] = "none"
               /\ Token[k] = "none" => Token'[k] = "none" \/ Phase'[k] # "none"
    BY <1>4 DEF Answers2, Stays, KeepsToken
  <2> QED
    BY <1>1, <2>1, KnownKept DEF LimitInv
<1> QED
  BY <1>1, <1>3, <1>5, <1>6, <1>7 DEF LimitInv, AtFirst

LEMMA TakenLimit ==
  ASSUME NoneComesRound, OneConnection, ReceiveInv, ExchangeInv', LimitInv, NEW p,
         TakesQoS1(p) \/ TakesQoS2(p) \/ TakesPubrel(p)
  PROVE  LimitInv'
<1>1. /\ given' = given /\ protocol' = protocol /\ breaks' = breaks
      /\ inflight' = inflight /\ out_quota' = out_quota
  BY DEF TakesQoS1, TakesQoS2, TakesPubrel, Takes, ClientSide, config, session
<1>2. \A k \in Ids : /\ Stays(k)
                     /\ \/ k = p.mid /\ (Passes(k) \/ Keeps(k) \/ Delivers(k))
                        \/ k # p.mid /\ KeepsToken(k) /\ KeepsCopies(k)
  BY TakenView DEF ReceiveInv
<1>3. Current'
  BY TakenOrder DEF ReceiveInv
<1>4. Ids' = Ids
  BY <1>1 DEF Ids
<1>5. (Resend' => Resend) /\ (AnyUnheld' => AnyUnheld)
  BY <1>2, <1>4
  DEF Resend, AnyUnheld, Stays, KeepsToken, KeepsCopies, Passes, Keeps, Delivers
<1>6. Known'
  <2>1. ASSUME NEW k \in Ids
        PROVE  /\ Phase'[k] = "none" => Phase[k] = "none" \/ Token'[k] = "none"
               /\ Token[k] = "none" => Token'[k] = "none" \/ Phase'[k] # "none"
    BY <1>2 DEF Stays, KeepsToken, Passes, Keeps, Delivers
  <2> QED
    BY <1>1, <2>1, KnownKept DEF LimitInv
<1> QED
  BY <1>1, <1>3, <1>5, <1>6 DEF LimitInv, AtFirst

LEMMA BreakLimit ==
  ASSUME NoneComesRound, OneConnection, ReceiveInv, ExchangeInv', LimitInv, Break
  PROVE  LimitInv'
<1>1. given' = given /\ protocol' = protocol /\ breaks' = breaks + 1 /\ breaks \in Nat
  BY DEF Break, config, ReceiveInv, ExchangeInv, LineTypes
<1>2. \A k \in Ids : Stays(k) /\ Loses(k)
  BY BreakView DEF ReceiveInv
<1>3. Known'
  BY <1>1, <1>2, KnownKept DEF LimitInv, Stays, Loses, KeepsToken
<1> QED
  BY <1>1, <1>3 DEF LimitInv, AtFirst

LEMMA RefusedPubrelLimit ==
  ASSUME NoneComesRound, OneConnection, ReceiveInv, ExchangeInv', LimitInv, NEW p,
         RefusesPubrel(p)
  PROVE  LimitInv'
<1>1. given' = given /\ protocol' = protocol /\ breaks' = breaks
  BY DEF RefusesPubrel, ClientSide, config
<1>2. /\ p.mid \in Ids /\ Token[p.mid] = "PUBREL" /\ Copies[p.mid] = 0
      /\ \A k \in Ids : /\ Stays(k)
                        /\ \/ k = p.mid
                           \/ KeepsToken(k) \/ Token'[k] = "none"
  BY RefusedPubrelView DEF ReceiveInv, OrderInv
<1>3. AnyUnheld
  BY <1>2 DEF AnyUnheld
<1>4. Known'
  <2>1. ASSUME NEW k \in Ids
        PROVE  /\ Phase'[k] = "none" => Phase[k] = "none" \/ Token'[k] = "none"
               /\ Token[k] = "none" => Token'[k] = "none" \/ Phase'[k] # "none"
    BY <1>2 DEF Stays, KeepsToken
  <2> QED
    BY <1>1, <2>1, KnownKept DEF LimitInv
<1> QED
  BY <1>1, <1>3, <1>4 DEF LimitInv, AtFirst

LEMMA LimitInit == NoneComesRound /\ OneConnection /\ Init => LimitInv
<1> SUFFICES ASSUME NoneComesRound, OneConnection, Init PROVE LimitInv
  OBVIOUS
<1>1. /\ given = <<>> /\ inflight = <<>> /\ protocol = "v311" /\ ~online
      /\ out_quota = MaxInflight /\ MaxInflight \in Nat
  BY DEF Init, OneConnection, NoneComesRound
<1>2. Ids = {} /\ Len(inflight) = 0
  BY <1>1 DEF Ids
<1> QED
  BY <1>1, <1>2 DEF LimitInv, Known, AtFirst, Resend, AnyUnheld

LEMMA LimitStep ==
  ASSUME NoneComesRound, OneConnection, ReceiveInv, LimitInv, [Next]_vars
  PROVE  LimitInv'
<1>1. ExchangeInv /\ OrderInv
  BY DEF ReceiveInv
<1>2. ExchangeInv'
  BY <1>1, ExchangeStep
<1>3. CASE \E qos \in 1..2, expires \in Expiring : Send(qos, expires)
  BY <1>2, <1>3, SendLimit
<1>4. CASE Silent
  BY <1>2, <1>4, QuietLimit
<1>5. CASE BrokerRead
  BY <1>1, <1>2, <1>4, <1>5, BrokerReadCases, ConnectLimit, AckLimit, PubrecLimit DEF Silent
<1>6. CASE MessageWrite
  BY <1>2, <1>6, WriteLimit
<1>7. CASE ClientRead
  <2> DEFINE p == Head(down)
  <2>1. \/ TakesConnack(p) \/ TakesQoS1(p) \/ TakesQoS2(p)
        \/ TakesPubrel(p) \/ RefusesPublish(p) \/ RefusesPubrel(p)
    BY <1>1, <1>7, ClientReadCases
  <2>2. TakesConnack(p) => Silent
    BY DEF Silent
  <2> HIDE DEF p
  <2>3. ~RefusesPublish(p)
    BY DEF RefusesPublish, LimitInv, Known
  <2> QED
    BY <1>2, <1>4, <2>1, <2>2, <2>3, TakenLimit, RefusedPubrelLimit
<1>8. CASE Break
  BY <1>2, <1>8, BreakLimit
<1>9. CASE Connect \/ ClientWrite \/ Expire \/ Offline \/ UNCHANGED vars
  BY <1>4, <1>9 DEF Silent
<1> QED
  BY <1>3, <1>5, <1>6, <1>7, <1>8, <1>9 DEF Next, Broker

LEMMA WithinLimit == NoneComesRound /\ ReceiveInv /\ LimitInv => FirstLimit
<1> SUFFICES ASSUME NoneComesRound, ReceiveInv, LimitInv, breaks = 0
             PROVE  Len(inflight) <= MaxInflight
  BY DEF FirstLimit
<1>1. out_quota \in Nat /\ Len(inflight) \in Nat
  BY SessionTypes DEF ReceiveInv, ExchangeInv, LineTypes, TypeOK
<1>2. out_quota + Len(inflight) <= MaxInflight
  BY DEF LimitInv, AtFirst
<1>3. MaxInflight \in Nat
  BY DEF NoneComesRound
<1> QED
  BY <1>1, <1>2, <1>3

-----------------------------------------------------------------------------
(* No message is lost between broker and client, whatever is repeated: a   *)
(* message the broker had room for is in the session until on_message was  *)
(* called for it, a second call takes a connection that broke (two, for    *)
(* QoS 2), and whatever the client had before comes with DUP.              *)
THEOREM SubscriberGetsAll ==
  NoneComesRound => (Spec => [](TypeOK /\ KeptUntilReceived /\ CopiesTakeBreaks /\ DupMarksRepeats))
<1> SUFFICES ASSUME NoneComesRound
             PROVE  Spec => [](TypeOK /\ KeptUntilReceived /\ CopiesTakeBreaks /\ DupMarksRepeats)
  OBVIOUS
<1>1. Init => ReceiveInv
  BY ReceiveInit
<1>2. ReceiveInv /\ [Next]_vars => ReceiveInv'
  BY ReceiveStep
<1> QED
  BY <1>1, <1>2, Received, PTL DEF Spec

(* On the first connection the messages in flight keep the limit.          *)
THEOREM FirstLimitKept == NoneComesRound /\ OneConnection => (Spec => []FirstLimit)
<1> SUFFICES ASSUME NoneComesRound, OneConnection PROVE Spec => []FirstLimit
  OBVIOUS
<1>1. Init => ReceiveInv /\ LimitInv
  BY ReceiveInit, LimitInit
<1>2. ReceiveInv /\ LimitInv /\ [Next]_vars => (ReceiveInv /\ LimitInv)'
  BY ReceiveStep, LimitStep
<1> QED
  BY <1>1, <1>2, WithinLimit, PTL DEF Spec
-----------------------------------------------------------------------------
(* The order of the messages in the session: those in flight, then those   *)
(* in the queue.                                                           *)
Stands(x, k) ==
  \/ x \in 1..Len(inflight) /\ inflight[x].id = k
  \/ x - Len(inflight) \in 1..Len(queued) /\ queued[x - Len(inflight)].id = k
Precedes(i, j) == \E x, y \in Nat : x < y /\ Stands(x, i) /\ Stands(y, j)

LEMMA BeforeShown == LineTypes => \A i, j : Before(i, j) => Precedes(i, j)
<1> SUFFICES ASSUME LineTypes, NEW i, NEW j, Before(i, j)
             PROVE  Precedes(i, j)
  OBVIOUS
<1> DEFINE s == inflight \o queued
           l == Len(inflight)
<1>1. inflight \in Seq(Messages) /\ queued \in Seq(Messages)
  BY DEF LineTypes
<1>2. /\ l \in Nat /\ Len(queued) \in Nat /\ Len(s) = l + Len(queued)
      /\ \A x \in 1..l : s[x] = inflight[x]
      /\ \A x \in 1..Len(queued) : s[l + x] = queued[x]
  BY <1>1, ConcatFacts
<1>3. PICK y \in 1..Len(s) : \E x \in 1..y - 1 : s[x].id = i /\ s[y].id = j
  BY DEF Before
<1>4. PICK x \in 1..y - 1 : s[x].id = i /\ s[y].id = j
  BY <1>3
<1> HIDE DEF s
<1>5. x \in 1..Len(s) /\ x \in Nat /\ y \in Nat /\ x < y
  BY <1>2, <1>3, <1>4
<1>6. ASSUME NEW z \in 1..Len(s) PROVE Stands(z, s[z].id)
  <2>1. CASE z \in 1..l
    BY <1>2, <2>1 DEF Stands
  <2>2. CASE z \notin 1..l
    <3>1. z - l \in 1..Len(queued) /\ l + (z - l) = z
      BY <1>2, <1>6, <2>2
    <3>2. s[z] = queued[z - l]
      BY <1>2, <3>1
    <3> QED
      BY <3>1, <3>2 DEF Stands
  <2> QED
    BY <2>1, <2>2
<1> QED
  BY <1>3, <1>4, <1>5, <1>6 DEF Precedes

LEMMA BeforeShownAfter == LineTypes' => (\A i, j : Before(i, j) => Precedes(i, j))'
BY BeforeShown, PTL

LEMMA StandsOnce ==
  ASSUME LineTypes, Distinct, NEW k, NEW x \in Nat, NEW y \in Nat, Stands(x, k), Stands(y, k)
  PROVE  x = y
<1>1. Len(inflight) \in Nat /\ Len(queued) \in Nat
  BY SessionTypes
<1>2. CASE x \in 1..Len(inflight) /\ y \in 1..Len(inflight)
  BY <1>1, <1>2 DEF Stands, Distinct
<1>3. CASE x \notin 1..Len(inflight) /\ y \notin 1..Len(inflight)
  <2>1. x - Len(inflight) = y - Len(inflight)
    BY <1>1, <1>3 DEF Stands, Distinct
  <2> QED
    BY <1>1, <2>1
<1>4. CASE ~(x \in 1..Len(inflight) <=> y \in 1..Len(inflight))
  BY SMTT(30), <1>1, <1>4 DEF Stands, Distinct
<1> QED
  BY <1>2, <1>3, <1>4

(* Who comes later did so before. *)
NoneOvertakes == \A i, j \in Ids : Precedes(i, j)' => Precedes(i, j)

LEMMA CarriedInOrder ==
  ASSUME LineTypes, LineTypes', NEW l, NEW e, NEW n, Carries(l, e, n),
         \A a \in 1..l : inflight'[a].id = inflight[e[a]].id
  PROVE  NoneOvertakes
<1> DEFINE p == Len(inflight)
           q == Len(queued)
<1>1. /\ p \in Nat /\ q \in Nat /\ l \in Nat /\ n \in 0..q
      /\ Len(inflight') = l + n /\ Len(queued') = q - n
      /\ \A a \in 1..q : queued[a] \in Messages
  BY SessionTypes DEF Carries
<1>2. ASSUME NEW k, NEW x \in Nat, Stands(x, k)'
      PROVE  \/ x \in 1..l /\ Stands(e[x], k) /\ e[x] \in 1..p
             \/ x > l /\ Stands(p + (x - l), k)
  <2>1. CASE x \in 1..l
    <3>1. x \in 1..Len(inflight') /\ inflight'[x].id = k
      BY <1>1, <1>2, <2>1 DEF Stands
    <3>2. e[x] \in 1..p /\ inflight[e[x]].id = k
      BY <2>1, <3>1 DEF Carries
    <3> QED
      BY <2>1, <3>2 DEF Stands
  <2>2. CASE x \notin 1..l /\ x \in 1..Len(inflight')
    <3>1. x - l \in 1..n /\ l + (x - l) = x /\ x > l /\ x - l \in 1..q
      BY <1>1, <2>2
    <3>2. inflight'[x] = ToPublish(queued[x - l]) /\ inflight'[x].id = k
      <4>1. \A z \in 1..n : inflight'[l + z] = ToPublish(queued[z])
        BY DEF Carries
      <4>2. x - Len(inflight') \notin 1..Len(queued')
        BY <1>1, <2>2
      <4> QED
        BY <1>2, <3>1, <4>1, <4>2 DEF Stands
    <3>3. queued[x - l].id = k
      BY <1>1, <3>1, <3>2 DEF ToPublish, Messages
    <3>4. (p + (x - l)) - p = x - l
      BY <1>1
    <3> QED
      BY <3>1, <3>3, <3>4 DEF Stands
  <2>3. CASE x \notin 1..Len(inflight')
    <3>1. x - Len(inflight') \in 1..Len(queued') /\ queued'[x - Len(inflight')].id = k
      BY <1>2, <2>3 DEF Stands
    <3>2. /\ x - l \in 1..q /\ n + (x - Len(inflight')) = x - l /\ x > l
          /\ (p + (x - l)) - p = x - l
      BY <1>1, <3>1
    <3>3. queued'[x - Len(inflight')] = queued[n + (x - Len(inflight'))]
      BY <3>1 DEF Carries
    <3> QED
      BY <3>1, <3>2, <3>3 DEF Stands
  <2> QED
    BY <2>1, <2>2, <2>3
<1> SUFFICES ASSUME NEW i \in Ids, NEW j \in Ids, NEW x \in Nat, NEW y \in Nat,
                    x < y, Stands(x, i)', Stands(y, j)'
             PROVE  Precedes(i, j)
  BY DEF NoneOvertakes, Precedes
<1>3. /\ \/ x \in 1..l /\ Stands(e[x], i) /\ e[x] \in 1..p
         \/ x > l /\ Stands(p + (x - l), i)
      /\ \/ y \in 1..l /\ Stands(e[y], j) /\ e[y] \in 1..p
         \/ y > l /\ Stands(p + (y - l), j)
  BY <1>2
<1>4. CASE x \in 1..l /\ y \in 1..l
  <2>1. e[x] < e[y] /\ e[x] \in Nat /\ e[y] \in Nat
    BY <1>1, <1>3, <1>4 DEF Carries
  <2> QED
    BY <1>1, <1>3, <1>4, <2>1 DEF Precedes
<1>5. CASE x \in 1..l /\ y > l
  <2> DEFINE v == e[x]
  <2>3. v \in 1..p
    BY <1>1, <1>3, <1>5
  <2> HIDE DEF v
  <2>4. v < p + (y - l) /\ v \in Nat /\ p + (y - l) \in Nat
    <3>1. l \in Nat /\ p \in Nat /\ y > l
      BY <1>1, <1>5
    <3> HIDE DEF p
    <3>2. y - l \in Nat /\ y - l > 0
      BY <3>1
    <3> QED
      BY <2>3, <3>1, <3>2
  <2>1. e[x] < p + (y - l) /\ e[x] \in Nat /\ p + (y - l) \in Nat
    BY <2>4 DEF v
  <2>2. Stands(e[x], i) /\ Stands(p + (y - l), j)
    BY <1>1, <1>3, <1>5
  <2> QED
    BY <2>1, <2>2 DEF Precedes
<1>6. CASE x > l /\ y > l
  <2>1. p + (x - l) < p + (y - l) /\ p + (x - l) \in Nat /\ p + (y - l) \in Nat
    BY <1>1, <1>6
  <2>2. Stands(p + (x - l), i) /\ Stands(p + (y - l), j)
    BY <1>1, <1>3, <1>6
  <2> QED
    BY <2>1, <2>2 DEF Precedes
<1> QED
  BY <1>1, <1>3, <1>4, <1>5, <1>6

(* Whoever stays where it is. *)
LEMMA StandingInOrder ==
  ASSUME LineTypes, LineTypes', Len(inflight') = Len(inflight), queued' = queued,
         \A a \in 1..Len(inflight) : inflight'[a].id = inflight[a].id
  PROVE  NoneOvertakes
<1> DEFINE e == [a \in 1..Len(inflight) |-> a]
<1>1. Len(inflight) \in Nat /\ Len(queued) \in Nat /\ \A a \in 1..Len(inflight) : e[a] = a
  BY SessionTypes
<1> HIDE DEF e
<1>2. Carries(Len(inflight), e, 0)
  BY <1>1 DEF Carries
<1>3. \A a \in 1..Len(inflight) : inflight'[a].id = inflight[e[a]].id
  BY <1>1
<1> QED
  BY <1>2, <1>3, CarriedInOrder

LEMMA SameInOrder ==
  ASSUME LineTypes, LineTypes', inflight' = inflight, queued' = queued
  PROVE  NoneOvertakes
BY StandingInOrder

(* subs__send: what comes stands behind those whose place it may take. *)
LEMMA SentInOrder ==
  ASSUME NoneComesRound, ExchangeInv, NEW qos \in 1..2, NEW expires \in Expiring,
         Send(qos, expires)
  PROVE  NoneOvertakes
<1> DEFINE p == Len(inflight)
           m == NewMessage(qos)
<1>1. LineTypes /\ p \in Nat /\ Len(queued) \in Nat /\ Len(given) \in Nat
  BY SessionTypes DEF ExchangeInv
<1>2. m.id = Len(given) + 1 /\ ToPublish(m).id = Len(given) + 1 /\ m \in Messages
  <2>1. m \in Messages
    BY <1>1, InsertedMessage
  <2>2. m.id = Len(given) + 1
    BY DEF NewMessage
  <2> HIDE DEF m
  <2> QED
    BY <2>1, <2>2 DEF ToPublish, Messages
<1>3. m.id \notin Ids /\ ToPublish(m).id \notin Ids
  BY <1>1, <1>2 DEF Ids
<1>4. \/ inflight' = Append(inflight, ToPublish(m)) /\ queued' = queued
      \/ inflight' = inflight /\ queued' = Append(queued, m)
      \/ inflight' = inflight /\ queued' = queued
  BY <1>1, InsertedMessage
<1>5. inflight \in Seq(Messages) /\ queued \in Seq(Messages)
  BY <1>1 DEF LineTypes
<1> HIDE DEF m
<1>6. ASSUME NEW k \in Ids, NEW x \in Nat, Stands(x, k)'
      PROVE  Stands(IF x <= p THEN x ELSE (x + p) - Len(inflight'), k)
             /\ (x > p => (x + p) - Len(inflight') > p)
  <2>1. CASE inflight' = Append(inflight, ToPublish(m)) /\ queued' = queued
    <3>1. /\ Len(inflight') = p + 1 /\ inflight'[p + 1] = ToPublish(m)
          /\ \A z \in 1..p : inflight'[z] = inflight[z]
      BY <1>5, <2>1, AppendFacts
    <3>2. CASE x \in 1..Len(inflight')
      <4>1. inflight'[x].id = k
        BY <1>1, <1>6, <2>1, <3>1, <3>2 DEF Stands
      <4>2. x # p + 1
        BY <1>3, <3>1, <4>1
      <4>3. x \in 1..p
        BY <1>1, <3>1, <3>2, <4>2
      <4> QED
        BY <1>1, <3>1, <4>1, <4>3 DEF Stands
    <3>3. CASE x \notin 1..Len(inflight')
      <4>1. x - Len(inflight') \in 1..Len(queued) /\ queued[x - Len(inflight')].id = k
        BY <1>6, <2>1, <3>3 DEF Stands
      <4>2. x > p /\ (x + p) - Len(inflight') > p
            /\ ((x + p) - Len(inflight')) - p = x - Len(inflight')
        BY <1>1, <3>1, <4>1
      <4> QED
        BY <1>1, <4>1, <4>2 DEF Stands
    <3> QED
      BY <3>2, <3>3
  <2>2. CASE inflight' = inflight
    <3>1. (x + p) - Len(inflight') = x
      BY <1>1, <2>2
    <3>2. Stands(x, k)
      <4>1. CASE x \in 1..p
        BY <1>1, <1>6, <2>2, <4>1 DEF Stands
      <4>2. CASE x \notin 1..p
        <5>1. x - p \in 1..Len(queued') /\ queued'[x - p].id = k
          BY <1>6, <2>2, <4>2 DEF Stands
        <5>2. x - p \in 1..Len(queued) /\ queued[x - p].id = k
          <6>1. CASE queued' = queued
            BY <5>1, <6>1
          <6>2. CASE queued' = Append(queued, m)
            <7>1. /\ Len(queued') = Len(queued) + 1 /\ queued'[Len(queued) + 1] = m
                  /\ \A z \in 1..Len(queued) : queued'[z] = queued[z]
              BY <1>5, <6>2, AppendFacts
            <7>2. x - p # Len(queued) + 1
              BY <1>3, <5>1, <7>1
            <7>3. x - p \in 1..Len(queued)
              <8> DEFINE z == x - p
              <8>1. z \in 1..(Len(queued) + 1) /\ z # Len(queued) + 1
                BY <5>1, <7>1, <7>2
              <8> HIDE DEF z
              <8>2. z \in 1..Len(queued)
                BY <1>1, <8>1
              <8> QED
                BY <8>2 DEF z
            <7> QED
              BY <5>1, <7>1, <7>3
          <6>3. queued' = queued \/ queued' = Append(queued, m)
            <7>1. Append(inflight, ToPublish(m)) # inflight
              <8>1. Len(Append(inflight, ToPublish(m))) = p + 1
                BY <1>5, AppendFacts
              <8> QED
                BY <1>1, <8>1
            <7> QED
              BY <1>4, <2>2, <7>1
          <6> QED
            BY <6>1, <6>2, <6>3
        <5> QED
          BY <5>2 DEF Stands
      <4> QED
        BY <4>1, <4>2
    <3> QED
      BY <1>1, <3>1, <3>2
  <2> QED
    BY <1>4, <2>1, <2>2
<1>7. Len(inflight') \in Nat /\ p <= Len(inflight')
  <2>1. Len(Append(inflight, ToPublish(m))) = p + 1
    BY <1>5, AppendFacts
  <2> QED
    BY <1>1, <1>4, <2>1
<1> SUFFICES ASSUME NEW i \in Ids, NEW j \in Ids, NEW x \in Nat, NEW y \in Nat,
                    x < y, Stands(x, i)', Stands(y, j)'
             PROVE  Precedes(i, j)
  BY DEF NoneOvertakes, Precedes
<1> DEFINE v == IF x <= p THEN x ELSE (x + p) - Len(inflight')
           w == IF y <= p THEN y ELSE (y + p) - Len(inflight')
<1>8. /\ Stands(v, i) /\ (x > p => (x + p) - Len(inflight') > p)
      /\ Stands(w, j) /\ (y > p => (y + p) - Len(inflight') > p)
  BY <1>6
<1>9. v \in Nat /\ w \in Nat /\ v < w
  BY <1>1, <1>7, <1>8
<1> HIDE DEF v, w
<1> QED
  BY <1>8, <1>9 DEF Precedes

LEMMA StepInOrder ==
  ASSUME NoneComesRound, ReceiveInv, [Next]_vars
  PROVE  NoneOvertakes
<1>1. ExchangeInv /\ ExchangeInv' /\ LineTypes /\ LineTypes'
  BY ReceiveStep DEF ReceiveInv, ExchangeInv
<1>2. /\ Len(inflight) \in Nat /\ Len(queued) \in Nat
      /\ \A a \in 1..Len(inflight) : inflight[a] \in Messages
  BY <1>1, SessionTypes
<1>3. CASE \E qos \in 1..2, expires \in Expiring : Send(qos, expires)
  BY <1>1, <1>3, SentInOrder
<1>4. CASE ReadsConnect
  <2>1. PICK e : /\ Carries(Len(inflight), e, Lower(MaxInflight, Len(queued)))
                 /\ \A a \in 1..Len(inflight) : e[a] = a /\ inflight'[a] = Resumed(inflight[a])
    BY <1>1, <1>4, ResumedSession DEF ReadsConnect, ResumesAll
  <2>2. \A a \in 1..Len(inflight) : inflight'[a].id = inflight[e[a]].id
    <3>1. \A m \in Messages : Resumed(m).id = m.id
      BY DEF Resumed, ToPublish, Messages
    <3> QED
      BY <1>2, <2>1, <3>1
  <2> QED
    BY <1>1, <2>1, <2>2, CarriedInOrder
<1>5. CASE ReadsAck(Head(up))
  <2> DEFINE mid == Head(up).mid
             l == Len(Without(inflight, mid))
             n == Lower(Len(queued), FreePlaces(mid))
  <2>1. PICK e : Carries(l, e, n) /\ RemainsBut(l, e, mid)
    BY <1>1, <1>5, DeletedSession DEF ReadsAck, Deletes
  <2> HIDE DEF l, n, mid
  <2>2. \A a \in 1..l : inflight'[a].id = inflight[e[a]].id
    BY <2>1 DEF RemainsBut
  <2> QED
    BY <1>1, <2>1, <2>2, CarriedInOrder
<1>6. CASE ReadsPubrec(Head(up))
  <2>1. /\ queued' = queued
        /\ inflight' = [i \in 1..Len(inflight) |->
             IF i \in At(inflight, Head(up).mid)
               THEN [inflight[i] EXCEPT !.state = "wait_for_pubcomp"] ELSE inflight[i]]
    BY <1>6 DEF ReadsPubrec
  <2>2. Len(inflight') = Len(inflight)
    <3>1. DOMAIN inflight' = 1..Len(inflight)
      BY <2>1
    <3>2. inflight' \in Seq(Messages)
      BY <1>1 DEF LineTypes
    <3> QED
      BY <1>2, <3>1, <3>2, LenProperties
  <2>3. \A a \in 1..Len(inflight) : inflight'[a].id = inflight[a].id
    BY <1>2, <2>1 DEF Messages
  <2> QED
    BY <1>1, <2>1, <2>2, <2>3, StandingInOrder
<1>7. CASE MessageWrite
  <2>1. PICK l, e : /\ Carries(l, e, Lower(out_quota, Len(queued)))
                    /\ KeepsUnlessGone(l, e)
    BY <1>1, <1>7, WrittenSession
  <2>2. \A a \in 1..l : inflight'[a].id = inflight[e[a]].id
    <3>1. \A m \in Messages : Sent(m).id = m.id
      BY DEF Sent, Messages
    <3> QED
      BY <1>2, <2>1, <3>1 DEF KeepsUnlessGone, Carries
  <2> QED
    BY <1>1, <2>1, <2>2, CarriedInOrder
<1>8. CASE inflight' = inflight /\ queued' = queued
  BY <1>1, <1>8, SameInOrder
<1>9. CASE BrokerRead
  <2>1. ReadsNothing => inflight' = inflight /\ queued' = queued
    BY DEF ReadsNothing, session
  <2> QED
    BY <1>1, <1>4, <1>5, <1>6, <1>8, <1>9, <2>1, BrokerReadCases
<1>10. CASE Connect \/ ClientRead \/ ClientWrite \/ Break \/ Expire \/ Offline \/ UNCHANGED vars
  BY <1>8, <1>10 DEF Connect, ClientRead, ClientWrite, Break, Expire, Offline, vars, session
<1> QED
  BY <1>3, <1>7, <1>9, <1>10 DEF Next, Broker

(* on_message is called for what was read, and for nothing else. *)
LEMMA CopyPassedOn ==
  ASSUME NoneComesRound, ReceiveInv, [Next]_vars, NEW k \in Ids, got'[k] # got[k]
  PROVE  /\ k = Head(down).mid /\ down # <<>>
         /\ \/ Token[k] = "PUBLISH" /\ given[k].qos = 1
            \/ Token[k] = "PUBREL"
<1>1. ExchangeInv /\ ExchangeInv' /\ Ahead
  BY ReceiveStep DEF ReceiveInv, OrderInv
<1>2. CASE \E qos \in 1..2, expires \in Expiring : Send(qos, expires)
  BY <1>1, <1>2, SentView DEF KeepsCopies
<1>3. CASE Silent
  BY <1>1, <1>3, QuietView DEF KeepsCopies
<1>4. CASE BrokerRead
  <2>1. CASE ReadsConnect
    BY <1>1, <2>1, ConnectView DEF KeepsCopies
  <2>2. CASE ReadsAck(Head(up))
    BY <1>1, <2>2, AckView DEF KeepsCopies
  <2>3. CASE ReadsPubrec(Head(up))
    BY <1>1, <2>3, PubrecView DEF KeepsCopies
  <2> QED
    BY <1>1, <1>3, <1>4, <2>1, <2>2, <2>3, BrokerReadCases DEF Silent
<1>5. CASE MessageWrite
  BY <1>1, <1>5, WrittenView DEF KeepsCopies
<1>6. CASE ClientRead
  <2> DEFINE p == Head(down)
  <2>1. \/ TakesConnack(p) \/ TakesQoS1(p) \/ TakesQoS2(p)
        \/ TakesPubrel(p) \/ RefusesPublish(p) \/ RefusesPubrel(p)
    BY <1>1, <1>6, ClientReadCases
  <2>2. TakesConnack(p) => Silent
    BY DEF Silent
  <2>3. down # <<>>
    BY <1>6 DEF ClientRead
  <2> HIDE DEF p
  <2>4. CASE TakesQoS1(p) \/ TakesQoS2(p) \/ TakesPubrel(p)
    <3>1. \/ k = p.mid /\ (Passes(k) \/ Keeps(k) \/ Delivers(k))
          \/ k # p.mid /\ KeepsToken(k) /\ KeepsCopies(k)
      BY <1>1, <2>4, TakenView
    <3> QED
      BY <2>3, <3>1 DEF Passes, Keeps, Delivers, KeepsCopies, p
  <2>5. CASE RefusesPublish(p)
    BY <1>1, <2>5, RefusedPublishView DEF KeepsCopies
  <2>6. CASE RefusesPubrel(p)
    BY <1>1, <2>6, RefusedPubrelView DEF KeepsCopies
  <2> QED
    BY <1>3, <2>1, <2>2, <2>4, <2>5, <2>6
<1>7. CASE Break
  BY <1>1, <1>7, BreakView DEF KeepsCopies
<1>8. CASE Connect \/ ClientWrite \/ Expire \/ Offline \/ UNCHANGED vars
  BY <1>3, <1>8 DEF Silent
<1> QED
  BY <1>2, <1>4, <1>5, <1>6, <1>7, <1>8 DEF Next, Broker

(* Of two messages of one QoS in flight, the first has been passed on when *)
(* the second is.                                                          *)
LEMMA PassedOnInTurn ==
  ASSUME NoneComesRound, ReceiveInv, [Next]_vars, NEW i \in Ids, NEW j \in Ids,
         Precedes(i, j), Arrives(i, j)
  PROVE  got'[i] > 0
<1> DEFINE p == Head(down)
           b == Unread + 1
<1>1. LineTypes /\ View /\ FitInv /\ Distinct /\ ExchangeInv /\ OrderInv /\ LineParts
  BY ViewFacts, LineFacts DEF ReceiveInv, ExchangeInv
<1>2. got[j] = 0 /\ got'[j] # got[j] /\ given[i].qos = given[j].qos
  <2>1. got[j] \in Nat
    BY <1>1 DEF View, Fitting
  <2> QED
    BY <2>1 DEF Arrives
<1>3. /\ j = p.mid /\ down # <<>>
      /\ \/ Token[j] = "PUBLISH" /\ given[j].qos = 1
         \/ Token[j] = "PUBREL"
  BY <1>2, CopyPassedOn
<1>4. PICK x, y \in Nat : x < y /\ Stands(x, i) /\ Stands(y, j)
  BY DEF Precedes
<1>5. Phase[j] # "queued"
  BY <1>1, <1>3 DEF View, Fitting, FirstKinds, Waiting
<1>6. /\ x \in 1..Len(inflight) /\ inflight[x].id = i
      /\ y \in 1..Len(inflight) /\ inflight[y].id = j
  <2>1. y \in 1..Len(inflight) /\ inflight[y].id = j
    BY <1>1, <1>4, <1>5 DEF Stands, View, InSessionView
  <2>2. Len(inflight) \in Nat /\ Len(queued) \in Nat
    BY <1>1, SessionTypes
  <2>3. x <= Len(inflight) /\ x - Len(inflight) \notin 1..Len(queued)
    BY <1>4, <2>1, <2>2
  <2> QED
    BY <1>4, <2>1, <2>3 DEF Stands
<1>7. /\ inflight[x].mid = i /\ inflight[y].mid = j /\ i # 0 /\ j # 0
      /\ Phase[i] = inflight[x].state /\ Phase[j] = inflight[y].state
      /\ Phase[i] \in States /\ Phase[j] \in States
  BY <1>1, <1>6 DEF View, InSessionView
<1>8. p = Line[b] /\ b \in 1..Len(Line) /\ p.mid # 0
  <2> HIDE DEF p
  <2>1. p = Line[Unread + 1] /\ Unread + 1 \in 1..Len(Line)
    <3>1. p = Head(down)
      BY DEF p
    <3> QED
      BY <1>1, <1>3, <3>1, ReadPacket
  <2> QED
    BY <1>3, <1>7, <2>1
<1>9. Token[j] = Line[b].kind /\ Line[b].mid = inflight[y].mid
  BY <1>1, <1>3, <1>7, <1>8 DEF View, OnLineView
<1>10. \/ Line[b].kind \in FirstKinds /\ inflight[x].state \in Releasing
       \/ \E a \in 1..b - 1 : Line[a].mid = inflight[x].mid
  BY <1>1, <1>4, <1>6, <1>8, <1>9 DEF OrderInv, Sequential
<1> HIDE DEF p, b
<1>11. ~(Line[b].kind \in FirstKinds /\ inflight[x].state \in Releasing)
  <2> SUFFICES ASSUME Line[b].kind \in FirstKinds, inflight[x].state \in Releasing PROVE FALSE
    OBVIOUS
  <2>1. given[j].qos = 1
    BY <1>3, <1>9 DEF FirstKinds
  <2>2. given[i].qos = 1
    BY <1>2, <2>1
  <2>3. Phase[i] \in {"none", "queued", "publish_qos1", "wait_for_puback"}
    BY <1>1, <2>2 DEF View, Fitting
  <2> QED
    BY <1>7, <2>3 DEF Releasing
<1>12. PICK a \in 1..b - 1 : Line[a].mid = i
  BY <1>7, <1>10, <1>11
<1>13. Line[a].kind \in Answers /\ Token[i] = Line[a].kind
  <2>1. a \in 1..Len(Line) /\ a \in 1..Unread
    BY <1>1, <1>8, <1>12 DEF LineParts, b
  <2>2. FitsPacket(Line[a])
    BY <1>1, <2>1 DEF FitInv
  <2>3. Line[a].kind \in UpKinds
    BY <1>1, <2>1 DEF LineParts, UpKinds
  <2> QED
    BY <1>1, <1>7, <1>12, <2>1, <2>2, <2>3 DEF FitsPacket, UpKinds, Answers, View, OnLineView
<1>14. Token[i] # "PUBREC"
  <2> SUFFICES ASSUME Token[i] = "PUBREC" PROVE FALSE
    OBVIOUS
  <2>1. given[i].qos # 1 /\ Phase[i] \in Waiting
    BY <1>1, <1>7 DEF View, Fitting, FirstKinds, States, Publishing, Waiting, Releasing
  <2>2. Token[j] = "PUBREL"
    BY <1>2, <1>3, <2>1
  <2>3. Phase[j] = "wait_for_pubcomp"
    BY <1>1, <1>7, <2>2 DEF View, Fitting, States, Publishing, Waiting, Releasing
  <2>4. inflight[x].state \in Releasing
    BY <1>1, <1>4, <1>6, <1>7, <2>3 DEF OrderInv, Front, Releasing
  <2> QED
    BY <1>7, <2>1, <2>4 DEF Releasing, Waiting
<1>15. got[i] > 0
  BY <1>13, <1>14 DEF Answers, ReceiveInv, CountInv, Told, Safe
<1>16. got'[i] = got[i]
  <2>1. i # j
    BY <1>1, <1>4, <1>6 DEF Distinct
  <2> QED
    BY <1>3, <2>1, CopyPassedOn DEF p
<1> QED
  BY <1>15, <1>16

LEMMA OrderStep ==
  ASSUME NoneComesRound, ReceiveInv, [Next]_vars
  PROVE  StaysInOrder
<1>1. LineTypes /\ LineTypes' /\ Distinct /\ NoneOvertakes
  BY ReceiveStep, StepInOrder DEF ReceiveInv, ExchangeInv
<1> SUFFICES ASSUME NEW i \in Ids, NEW j \in Ids, Before(i, j)
             PROVE  ~Before(j, i)' /\ (Arrives(i, j) => i \in dropped' \/ got'[i] > 0)
  BY DEF StaysInOrder
<1>2. Precedes(i, j)
  BY <1>1, BeforeShown
<1>3. ~Before(j, i)'
  <2> SUFFICES ASSUME Before(j, i)' PROVE FALSE
    OBVIOUS
  <2>2. Precedes(j, i)'
    BY <1>1, BeforeShownAfter
  <2>3. Precedes(j, i)
    BY <1>1, <2>2 DEF NoneOvertakes
  <2>4. PICK x, y \in Nat : x < y /\ Stands(x, i) /\ Stands(y, j)
    BY <1>2 DEF Precedes
  <2>5. PICK v, w \in Nat : v < w /\ Stands(v, j) /\ Stands(w, i)
    BY <2>3 DEF Precedes
  <2>6. x = w /\ y = v
    BY <1>1, <2>4, <2>5, StandsOnce
  <2> QED
    BY <2>4, <2>5, <2>6
<1> QED
  BY <1>2, <1>3, PassedOnInTurn

(* The order of the session holds over every break: a message that waits   *)
(* is never overtaken, and one that follows it is not passed on before it  *)
(* (connect__on_authorised, db__message_write, db__message_delete_outgoing)*)
THEOREM OrderKept == NoneComesRound => (Spec => [][StaysInOrder]_vars)
<1> SUFFICES ASSUME NoneComesRound PROVE Spec => [][StaysInOrder]_vars
  OBVIOUS
<1>1. Init => ReceiveInv
  BY ReceiveInit
<1>2. ReceiveInv /\ [Next]_vars => ReceiveInv' /\ StaysInOrder
  BY ReceiveStep, OrderStep
<1> QED
  BY <1>1, <1>2, PTL DEF Spec
-----------------------------------------------------------------------------
(* On the first connection the queue is left in the order it was filled:   *)
(* nothing is in it while there is room in flight, so that nobody who      *)
(* comes stands before those who wait.                                     *)
FirstQueue == online /\ queued # <<>> => out_quota = 0
FirstOrder ==
  breaks = 0 => FirstQueue /\ \A i, j \in Ids : Precedes(i, j) => i < j

LEMMA FirstBreaks ==
  ASSUME LineTypes, [Next]_vars
  PROVE  breaks \in Nat /\ breaks' \in Nat /\ (breaks' = 0 => breaks = 0 /\ ~Break)
<1>1. breaks \in Nat
  BY DEF LineTypes
<1>2. breaks' = breaks + 1 \/ breaks' = breaks
  BY DEF Next, Broker, Send, BrokerRead, MessageWrite, Offline, Connect, ClientRead, ClientWrite,
         Break, Expire, vars
<1>3. Break => breaks' = breaks + 1
  BY DEF Break
<1> QED
  BY <1>1, <1>2, <1>3

LEMMA Remaining ==
  ASSUME LineTypes, LineTypes', NEW l, NEW e, NEW n, Carries(l, e, n), queued' # <<>>
  PROVE  n \in Nat /\ n < Len(queued) /\ queued # <<>>
<1>1. Len(queued) \in Nat /\ n \in 0..Len(queued) /\ Len(queued') = Len(queued) - n
  BY SessionTypes DEF Carries
<1>2. queued' \in Seq(Messages) /\ queued \in Seq(Messages)
  BY DEF LineTypes
<1>3. Len(queued') \in Nat /\ Len(queued') # 0
  BY <1>2, LenProperties, EmptySeq
<1>4. n < Len(queued) /\ n \in Nat
  BY <1>1, <1>3
<1>5. queued # <<>>
  <2>1. Len(<<>>) = 0
    OBVIOUS
  <2> QED
    BY <1>1, <1>4, <2>1
<1> QED
  BY <1>4, <1>5

LEMMA AckQueue ==
  ASSUME NoneComesRound, OneConnection, ReceiveInv, ExchangeInv', LimitInv, ReadsAck(Head(up)),
         breaks = 0, FirstQueue
  PROVE  FirstQueue'
<1> DEFINE mid == Head(up).mid
           l == Len(Without(inflight, mid))
           n == Lower(Len(queued), FreePlaces(mid))
<1>1. /\ LineTypes /\ LineTypes' /\ MaxInflight \in Nat
      /\ Len(queued) \in Nat /\ Len(inflight) \in Nat /\ out_quota \in 0..MaxInflight
  BY SessionTypes DEF ReceiveInv, ExchangeInv, LineTypes, TypeOK, NoneComesRound
<1>2. /\ online /\ online' = online /\ out_quota' = Up(out_quota) - Lower(n, Up(out_quota))
  BY DEF ReadsAck, Deletes
<1>3. PICK e : Carries(l, e, n) /\ l \in Nat
  BY <1>1, DeletedSession DEF ReadsAck, Deletes
<1>4. l <= Len(inflight) - 1
  BY AckLeaves
<1>5. out_quota + Len(inflight) <= MaxInflight
  BY DEF LimitInv, AtFirst
<1>6. n = Lower(Len(queued), MaxInflight - Lower(MaxInflight, l))
  BY DEF FreePlaces
<1> HIDE DEF l, n
<1> SUFFICES ASSUME queued' # <<>> PROVE out_quota' = 0
  BY DEF FirstQueue
<1>7. n \in Nat /\ n < Len(queued) /\ queued # <<>>
  BY <1>1, <1>3, Remaining
<1>8. out_quota = 0
  BY <1>2, <1>7 DEF FirstQueue
<1>9. l < MaxInflight
  BY <1>1, <1>3, <1>4, <1>5, <1>8
<1>10. n >= 1
  BY <1>1, <1>3, <1>6, <1>7, <1>9 DEF Lower
<1>11. Up(out_quota) = 1
  BY <1>1, <1>3, <1>8, <1>9 DEF Up
<1> QED
  BY <1>2, <1>7, <1>10, <1>11 DEF Lower

LEMMA FirstQueueStep ==
  ASSUME NoneComesRound, OneConnection, ReceiveInv, LimitInv, [Next]_vars, ~Break,
         breaks = 0, FirstQueue
  PROVE  FirstQueue'
<1>1. ExchangeInv /\ ExchangeInv' /\ LineTypes /\ LineTypes' /\ MaxInflight \in Nat
  BY ReceiveStep DEF ReceiveInv, ExchangeInv, NoneComesRound
<1>2. Len(queued) \in Nat /\ out_quota \in 0..MaxInflight
  BY <1>1, SessionTypes DEF LineTypes, TypeOK
<1>3. CASE \E qos \in 1..2, expires \in Expiring : Send(qos, expires)
  <2>1. PICK qos \in 1..2, expires \in Expiring : Send(qos, expires)
    BY <1>3
  <2>2. /\ online' = online /\ out_quota' \in {out_quota, Down(out_quota)}
        /\ online /\ out_quota > 0 => queued' = queued
    BY <2>1 DEF Send, Insert
  <2> QED
    BY <1>2, <2>2 DEF FirstQueue, Down
<1>4. CASE ReadsConnect
  <2> DEFINE n == Lower(MaxInflight, Len(queued))
  <2>1. PICK e : Carries(Len(inflight), e, n)
    BY <1>1, <1>4, ResumedSession DEF ReadsConnect, ResumesAll
  <2>2. out_quota' = MaxInflight - n
    BY <1>4 DEF ReadsConnect, HandleConnect
  <2>3. queued' # <<>> => n < Len(queued)
    <3> HIDE DEF n
    <3> QED
      BY <1>1, <2>1, Remaining
  <2> QED
    BY <1>1, <1>2, <2>2, <2>3 DEF FirstQueue, Lower
<1>5. CASE ReadsAck(Head(up))
  BY <1>1, <1>5, AckQueue
<1>6. CASE MessageWrite
  <2> DEFINE n == Lower(out_quota, Len(queued))
  <2>1. PICK l, e : Carries(l, e, n)
    BY <1>1, <1>6, WrittenSession
  <2>2. out_quota' = out_quota - n
    BY <1>6 DEF MessageWrite
  <2>3. queued' # <<>> => n < Len(queued)
    <3> HIDE DEF n
    <3> QED
      BY <1>1, <2>1, Remaining
  <2> QED
    BY <1>1, <1>2, <2>2, <2>3 DEF FirstQueue, Lower
<1>7. CASE queued' = queued /\ out_quota' = out_quota /\ (online' => online)
  BY <1>7 DEF FirstQueue
<1>8. CASE BrokerRead
  <2>1. ReadsNothing => queued' = queued /\ out_quota' = out_quota /\ (online' => online)
    BY DEF ReadsNothing, session
  <2>2. ReadsPubrec(Head(up)) =>
          queued' = queued /\ out_quota' = out_quota /\ (online' => online)
    BY DEF ReadsPubrec
  <2> QED
    BY <1>1, <1>4, <1>5, <1>7, <1>8, <2>1, <2>2, BrokerReadCases
<1>9. CASE Connect \/ ClientRead \/ ClientWrite \/ Expire \/ Offline \/ UNCHANGED vars
  BY <1>7, <1>9 DEF Connect, ClientRead, ClientWrite, Expire, Offline, vars, session
<1> QED
  BY <1>3, <1>6, <1>8, <1>9 DEF Next, Broker

(* What comes stands last. *)
LEMMA SentLast ==
  ASSUME NoneComesRound, ReceiveInv, NEW qos \in 1..2, NEW expires \in Expiring,
         Send(qos, expires), FirstQueue,
         NEW g, g = Len(given) + 1, NEW x \in Nat, NEW y \in Nat, NEW k,
         Stands(x, g)', Stands(y, k)'
  PROVE  y <= x
<1> DEFINE m == NewMessage(qos)
<1>1. /\ LineTypes /\ View /\ inflight \in Seq(Messages) /\ queued \in Seq(Messages)
      /\ Len(given) \in Nat /\ Len(inflight) \in Nat /\ Len(queued) \in Nat
  BY SessionTypes, ViewFacts DEF ReceiveInv, ExchangeInv, LineTypes
<1>2. /\ m \in Messages /\ ToPublish(m) \in Messages
      /\ \/ inflight' = Append(inflight, ToPublish(m)) /\ queued' = queued
            /\ online /\ out_quota > 0
         \/ inflight' = inflight /\ queued' = Append(queued, m)
         \/ inflight' = inflight /\ queued' = queued
  BY <1>1, InsertedMessage, MovedTypes
<1>3. g \notin Ids
  BY <1>1 DEF Ids
<1>4. ~Stands(x, g)
  BY <1>1, <1>3 DEF Stands, View, InSessionView
<1> HIDE DEF m
<1>6. CASE inflight' = Append(inflight, ToPublish(m)) /\ queued' = queued
           /\ online /\ out_quota > 0
  <2>1. queued = <<>>
    BY <1>1, <1>6 DEF FirstQueue
  <2>2. Len(queued) = 0
    BY <2>1
  <2>3. /\ Len(inflight') = Len(inflight) + 1
        /\ \A z \in 1..Len(inflight) : inflight'[z] = inflight[z]
    BY <1>1, <1>2, <1>6, AppendFacts
  <2>4. x \in 1..Len(inflight') /\ inflight'[x].id = g
    BY <1>6, <2>2 DEF Stands
  <2>5. x \notin 1..Len(inflight)
    BY <1>4, <2>3, <2>4 DEF Stands
  <2>6. y \in 1..Len(inflight')
    BY <1>6, <2>2 DEF Stands
  <2> QED
    BY <1>1, <2>3, <2>4, <2>5, <2>6
<1>7. CASE inflight' = inflight /\ queued' = Append(queued, m)
  <2>1. /\ Len(queued') = Len(queued) + 1
        /\ \A z \in 1..Len(queued) : queued'[z] = queued[z]
    BY <1>1, <1>2, <1>7, AppendFacts
  <2>2. x - Len(inflight) \in 1..Len(queued') /\ queued'[x - Len(inflight)].id = g
    BY <1>4, <1>7 DEF Stands
  <2>3. x - Len(inflight) \notin 1..Len(queued)
    BY <1>4, <2>1, <2>2 DEF Stands
  <2>4. x = Len(inflight) + Len(queued) + 1
    <3> DEFINE z == x - Len(inflight)
    <3>1. z \in 1..(Len(queued) + 1) /\ z \notin 1..Len(queued)
      BY <2>1, <2>2, <2>3
    <3> HIDE DEF z
    <3>2. z = Len(queued) + 1
      BY <1>1, <3>1
    <3> QED
      BY <1>1, <3>2 DEF z
  <2>5. y \in 1..Len(inflight) \/ y - Len(inflight) \in 1..(Len(queued) + 1)
    BY <1>7, <2>1 DEF Stands
  <2> QED
    BY <1>1, <2>4, <2>5
<1>8. CASE inflight' = inflight /\ queued' = queued
  BY <1>4, <1>8 DEF Stands
<1> QED
  BY <1>2, <1>6, <1>7, <1>8

LEMMA FirstOrderStep ==
  ASSUME NoneComesRound, OneConnection, ReceiveInv, LimitInv, FirstOrder, [Next]_vars
  PROVE  FirstOrder'
<1>1. LineTypes /\ NoneOvertakes /\ Len(given) \in Nat
  BY StepInOrder, SessionTypes DEF ReceiveInv, ExchangeInv
<1> SUFFICES ASSUME breaks' = 0
             PROVE  FirstQueue' /\ \A i, j \in Ids' : Precedes(i, j)' => i < j
  BY DEF FirstOrder
<1>2. breaks = 0 /\ ~Break
  BY <1>1, FirstBreaks
<1>3. FirstQueue /\ \A i, j \in Ids : Precedes(i, j) => i < j
  BY <1>2 DEF FirstOrder
<1>4. FirstQueue'
  BY <1>2, <1>3, FirstQueueStep
<1>5. ASSUME NEW i \in Ids', NEW j \in Ids', Precedes(i, j)'
      PROVE  i < j
  <2>1. CASE i \in Ids /\ j \in Ids
    BY <1>1, <1>3, <1>5, <2>1 DEF NoneOvertakes
  <2>2. CASE ~(i \in Ids /\ j \in Ids)
    <3>1. ~UNCHANGED given
      BY <1>5, <2>2 DEF Ids
    <3>2. PICK qos \in 1..2, expires \in Expiring : Send(qos, expires)
      BY <3>1 DEF Next, Broker, BrokerRead, MessageWrite, Offline, Connect, ClientRead,
                  ClientWrite, Break, Expire, vars
    <3>3. Ids' = Ids \cup {Len(given) + 1}
      <4>1. Len(given') = Len(given) + 1
        BY <1>1, <3>2, GivenMessage
      <4> QED
        BY <1>1, <4>1 DEF Ids
    <3>4. PICK x, y \in Nat : x < y /\ Stands(x, i)' /\ Stands(y, j)'
      BY <1>5 DEF Precedes
    <3>5. i # Len(given) + 1
      <4> SUFFICES ASSUME i = Len(given) + 1 PROVE FALSE
        OBVIOUS
      <4>2. y <= x
        BY <1>3, <3>2, <3>4, SentLast
      <4> QED
        BY <3>4, <4>2
    <3>6. i \in Ids /\ j = Len(given) + 1
      BY <1>5, <2>2, <3>3, <3>5
    <3> QED
      BY <1>1, <3>6 DEF Ids
  <2> QED
    BY <2>1, <2>2
<1> QED
  BY <1>4, <1>5

LEMMA FirstOrderInit == NoneComesRound /\ Init => FirstOrder
<1> SUFFICES ASSUME NoneComesRound, Init PROVE FirstOrder
  OBVIOUS
<1>1. queued = <<>> /\ given = <<>>
  BY DEF Init
<1> QED
  BY <1>1 DEF FirstOrder, FirstQueue, Ids

LEMMA FirstOrderHolds ==
  ASSUME NoneComesRound, OneConnection, ReceiveInv, LimitInv, FirstOrder, [Next]_vars
  PROVE  FirstInOrder
<1>1. LineTypes /\ View
  BY ViewFacts DEF ReceiveInv, ExchangeInv
<1> SUFFICES ASSUME breaks = 0, NEW i \in Ids, NEW j \in Ids, i < j, Arrives(i, j),
                    i \notin dropped'
             PROVE  got'[i] > 0
  BY DEF FirstInOrder
<1>2. i \notin dropped
  <2>1. dropped \subseteq dropped'
    BY DEF Next, Broker, Send, Insert, BrokerRead, MessageWrite, Offline, Connect, ClientRead,
           ClientWrite, Break, Expire, vars
  <2> QED
    BY <2>1
<1>3. got[i] \in Nat /\ got[j] \in Nat /\ i # j
  BY <1>1 DEF View, Fitting, Ids
<1>4. got'[j] # got[j]
  BY <1>3 DEF Arrives
<1>5. j = Head(down).mid /\ Token[j] \in {"PUBLISH", "PUBREL"}
  BY <1>4, CopyPassedOn
<1>6. got'[i] = got[i]
  BY <1>3, <1>5, CopyPassedOn
<1>7. CASE got[i] > 0
  BY <1>6, <1>7
<1>8. CASE ~(got[i] > 0)
  <2>1. Phase[i] # "none"
    BY <1>2, <1>8 DEF ReceiveInv, CountInv, Told, Safe
  <2>2. Phase[j] # "none"
    BY <1>5 DEF LimitInv, Known
  <2>3. ASSUME NEW k \in Ids, Phase[k] # "none"
        PROVE  \E x \in Nat : Stands(x, k)
    <3>1. \/ \E x \in 1..Len(inflight) : inflight[x].id = k
          \/ \E x \in 1..Len(queued) : queued[x].id = k
      BY <1>1, <2>3 DEF View, InSessionView
    <3>2. Len(inflight) \in Nat
      BY <1>1, SessionTypes
    <3>3. CASE \E x \in 1..Len(inflight) : inflight[x].id = k
      BY <3>3 DEF Stands
    <3>4. CASE \E x \in 1..Len(queued) : queued[x].id = k
      <4>1. PICK x \in 1..Len(queued) : queued[x].id = k
        BY <3>4
      <4>2. x + Len(inflight) \in Nat /\ (x + Len(inflight)) - Len(inflight) = x
        BY <3>2
      <4>3. Stands(x + Len(inflight), k)
        BY <4>1, <4>2 DEF Stands
      <4> QED
        BY <4>2, <4>3
    <3> QED
      BY <3>1, <3>3, <3>4
  <2>4. PICK x, y \in Nat : Stands(x, i) /\ Stands(y, j)
    BY <2>1, <2>2, <2>3
  <2>5. ~(y < x)
    <3> SUFFICES ASSUME y < x PROVE FALSE
      OBVIOUS
    <3>1. Precedes(j, i)
      BY <2>4 DEF Precedes
    <3>2. j < i
      BY <3>1 DEF FirstOrder
    <3> QED
      BY <3>2 DEF Ids
  <2>6. x # y
    <3>1. Len(inflight) \in Nat
      BY <1>1, SessionTypes
    <3>2. ~(x \in 1..Len(inflight) /\ x - Len(inflight) \in 1..Len(queued))
      BY <3>1
    <3> QED
      BY <1>3, <2>4, <3>2 DEF Stands
  <2>7. Precedes(i, j)
    BY <2>4, <2>5, <2>6 DEF Precedes
  <2> QED
    BY <2>7, PassedOnInTurn
<1> QED
  BY <1>3, <1>7, <1>8

(* Until a connection breaks, the messages of one QoS are passed on in the *)
(* order they came to the broker: of a client of MQTT 3.1.1 and messages   *)
(* that do not expire.                                                     *)
THEOREM FirstOrderKept == NoneComesRound /\ OneConnection => (Spec => [][FirstInOrder]_vars)
<1> SUFFICES ASSUME NoneComesRound, OneConnection PROVE Spec => [][FirstInOrder]_vars
  OBVIOUS
<1>1. Init => ReceiveInv /\ LimitInv /\ FirstOrder
  BY ReceiveInit, LimitInit, FirstOrderInit
<1>2. ReceiveInv /\ LimitInv /\ FirstOrder /\ [Next]_vars
        => (ReceiveInv /\ LimitInv /\ FirstOrder)' /\ FirstInOrder
  BY ReceiveStep, LimitStep, FirstOrderStep, FirstOrderHolds
<1> QED
  BY <1>1, <1>2, PTL DEF Spec
=============================================================================
