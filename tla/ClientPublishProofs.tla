------------------------ MODULE ClientPublishProofs -------------------------
(***************************************************************************)
(* For any number of messages, identifiers and connections: with room for  *)
(* all messages in flight, what libmosquitto and the broker do about lost  *)
(* and repeated packets implements Delivery.  With any room, list, session *)
(* and quotas are what TypeOK, KeptUntilAcked and OnePerIdentifier say,    *)
(* and AckedIsSafe holds as long as no identifier is given out twice.      *)
(***************************************************************************)
EXTENDS ClientPublish, SequenceTheorems, FiniteSetTheorems, FunctionTheorems,
        WellFoundedInduction, TLAPS

-----------------------------------------------------------------------------
(* A finite set of numbers has a largest one, by which it can be listed in *)
(* order.                                                                  *)
LEMMA HasMaximum ==
  ASSUME NEW N \in Nat, NEW T \in SUBSET (1..N), T # {}
  PROVE  \E x \in T : \A y \in T : y <= x
<1> DEFINE above(x) == {y \in T : y >= x}
           A == {above(x) : x \in T}
           R == StrictSubsetOrdering(1..N)
<1>1. IsFiniteSet(1..N)
  BY FS_Interval
<1>2. IsWellFoundedOn(R, SUBSET (1..N))
  BY <1>1, FS_FiniteSubsetsOfFinite, FS_StrictSubsetOrderingWellFounded
<1>3. A \subseteq SUBSET (1..N) /\ A # {}
  OBVIOUS
<1> HIDE DEF A, R
<1>4. \E a \in A : \A b \in A : <<b, a>> \notin R
  BY <1>2, <1>3, WFMin
<1>5. PICK x \in T : \A y \in T : <<above(y), above(x)>> \notin R
  BY <1>4 DEF A
<1>6. ASSUME NEW y \in T, y > x PROVE FALSE
  <2>1. x \in Nat /\ y \in Nat /\ \A z \in T : z \in Nat
    OBVIOUS
  <2>2. above(y) \subseteq above(x) /\ x \in above(x) /\ x \notin above(y)
    <3>1. \A z \in T : z >= y => z >= x
      BY <1>6, <2>1
    <3>2. x >= x /\ ~(x >= y)
      BY <1>6, <2>1
    <3> QED
      BY <3>1, <3>2
  <2>3. <<above(y), above(x)>> \in R
    BY <2>2 DEF R, StrictSubsetOrdering
  <2> QED
    BY <1>5, <2>3
<1> QED
  BY <1>6

Ascending(e, I) ==
  /\ e \in [1..Cardinality(I) -> I]
  /\ \A i, j \in 1..Cardinality(I) : i < j => e[i] < e[j]

LEMMA FiniteRange ==
  ASSUME NEW N \in Nat, NEW I \in SUBSET (1..N)
  PROVE  IsFiniteSet(I) /\ Cardinality(I) \in Nat
<1>1. IsFiniteSet(1..N)
  BY FS_Interval
<1>2. IsFiniteSet(I)
  BY <1>1, FS_Subset
<1> QED
  BY <1>2, FS_CardinalityType

LEMMA IntervalFacts ==
  ASSUME NEW c \in Nat
  PROVE  IsFiniteSet(1..c) /\ Cardinality(1..c) = c
<1>1. IsFiniteSet(1..c) /\ Cardinality(1..c) = IF 1 <= c THEN c - 1 + 1 ELSE 0
  BY FS_Interval
<1> QED
  BY <1>1

LEMMA CanBeListed ==
  ASSUME NEW N \in Nat, NEW I \in SUBSET (1..N)
  PROVE  \E e : Ascending(e, I)
<1> DEFINE Bad == {T \in SUBSET (1..N) : ~\E e : Ascending(e, T)}
           R == StrictSubsetOrdering(1..N)
<1>1. IsFiniteSet(1..N) /\ \A T \in SUBSET (1..N) : IsFiniteSet(T)
  BY FiniteRange, FS_Interval
<1>2. IsWellFoundedOn(R, SUBSET (1..N))
  BY <1>1, FS_FiniteSubsetsOfFinite, FS_StrictSubsetOrderingWellFounded
<1> SUFFICES ASSUME Bad # {} PROVE FALSE
  OBVIOUS
<1> HIDE DEF R
<1>3. PICK T \in Bad : \A U \in Bad : <<U, T>> \notin R
  BY <1>2, WFMin
<1>4. T # {}
  <2> SUFFICES ASSUME T = {} PROVE FALSE
    OBVIOUS
  <2>1. Cardinality(T) = 0
    BY FS_EmptySet
  <2>2. Ascending([i \in {} |-> i], T)
    BY <2>1 DEF Ascending
  <2> QED
    BY <2>2
<1>5. PICK m \in T : \A y \in T : y <= m
  BY <1>4, HasMaximum
<1> DEFINE U == T \ {m}
           c == Cardinality(U)
<1>6. IsFiniteSet(U) /\ c \in Nat /\ Cardinality(T) = c + 1
  <2>1. IsFiniteSet(T)
    BY <1>1
  <2>2. IsFiniteSet(U) /\ Cardinality(U) = Cardinality(T) - 1
    BY <2>1, FS_RemoveElement
  <2> QED
    BY <2>1, <2>2, FS_CardinalityType
<1>7. <<U, T>> \in R
  BY DEF R, StrictSubsetOrdering
<1>8. PICK e : Ascending(e, U)
  BY <1>3, <1>7
<1> HIDE DEF U, c
<1> DEFINE d == [i \in 1..c + 1 |-> IF i = c + 1 THEN m ELSE e[i]]
<1>9. \A i \in 1..c : e[i] \in T /\ e[i] < m
  <2>1. \A x \in U : x \in T /\ x # m /\ x \in Nat /\ m \in Nat
    BY DEF U
  <2> QED
    BY <1>5, <1>8, <2>1 DEF Ascending, c
<1>10. d \in [1..c + 1 -> T]
  BY <1>6, <1>9
<1>11. \A i, j \in 1..c + 1 : i < j => d[i] < d[j]
  <2> SUFFICES ASSUME NEW i \in 1..c + 1, NEW j \in 1..c + 1, i < j PROVE d[i] < d[j]
    OBVIOUS
  <2>1. i \in 1..c /\ d[i] = e[i]
    BY <1>6
  <2>2. CASE j = c + 1
    BY <1>9, <2>1, <2>2
  <2>3. CASE j # c + 1
    BY <1>6, <1>8, <2>1, <2>3 DEF Ascending, c
  <2> QED
    BY <2>2, <2>3
<1>12. Ascending(d, T)
  BY <1>6, <1>10, <1>11 DEF Ascending
<1> QED
  BY <1>12

LEMMA InOrderFacts ==
  ASSUME NEW N \in Nat, NEW I \in SUBSET (1..N)
  PROVE  /\ Cardinality(I) \in Nat
         /\ \A n \in 1..Cardinality(I) : InOrder(I)[n] \in I
         /\ \A m, n \in 1..Cardinality(I) : m < n => InOrder(I)[m] < InOrder(I)[n]
         /\ \A i \in I : \E n \in 1..Cardinality(I) : InOrder(I)[n] = i
<1> DEFINE c == Cardinality(I)
           e == InOrder(I)
<1>1. IsFiniteSet(I) /\ c \in Nat
  BY FiniteRange
<1>2. Ascending(e, I)
  <2>1. PICK d : Ascending(d, I)
    BY CanBeListed
  <2> QED
    BY <2>1 DEF Ascending, InOrder
<1> HIDE DEF c, e
<1>3. e \in [1..c -> I] /\ \A i, j \in 1..c : i < j => e[i] < e[j]
  BY <1>2 DEF Ascending, c
<1>4. e \in Injection(1..c, I)
  <2>1. \A i, j \in 1..c : e[i] = e[j] => i = j
    <3> SUFFICES ASSUME NEW i \in 1..c, NEW j \in 1..c, e[i] = e[j], i # j PROVE FALSE
      OBVIOUS
    <3>1. e[i] \in 1..N
      BY <1>3
    <3>2. i < j \/ j < i
      BY <1>1
    <3> QED
      BY <1>1, <1>3, <3>1, <3>2
  <2> QED
    BY <1>3, <2>1 DEF Injection, IsInjective
<1>5. Cardinality(1..c) = c
  BY <1>1, FS_Interval
<1>6. e \in Surjection(1..c, I)
  BY <1>1, <1>4, <1>5, FS_Injection DEF c
<1> QED
  BY <1>1, <1>3, <1>6 DEF Surjection, c, e

LEMMA SequenceOf ==
  ASSUME NEW S, NEW n \in Nat, NEW f \in [1..n -> S]
  PROVE  f \in Seq(S) /\ Len(f) = n
OBVIOUS

LEMMA PickFacts ==
  ASSUME NEW S, NEW s \in Seq(S), NEW I \in SUBSET (1..Len(s))
  PROVE  /\ Pick(s, I) \in Seq(S) /\ Len(Pick(s, I)) = Cardinality(I)
         /\ \A n \in 1..Len(Pick(s, I)) :
              InOrder(I)[n] \in I /\ Pick(s, I)[n] = s[InOrder(I)[n]]
         /\ \A m, n \in 1..Len(Pick(s, I)) : m < n => InOrder(I)[m] < InOrder(I)[n]
         /\ \A i \in I : \E n \in 1..Len(Pick(s, I)) : InOrder(I)[n] = i
<1> DEFINE c == Cardinality(I)
           e == InOrder(I)
<1>1. Len(s) \in Nat /\ \A i \in 1..Len(s) : s[i] \in S
  BY LenProperties, ElementOfSeq
<1>2. /\ c \in Nat /\ \A n \in 1..c : e[n] \in I
      /\ \A m, n \in 1..c : m < n => e[m] < e[n]
      /\ \A i \in I : \E n \in 1..c : e[n] = i
  BY <1>1, InOrderFacts
<1>3. Pick(s, I) = [n \in 1..c |-> s[e[n]]]
  BY DEF Pick
<1> HIDE DEF c, e
<1>4. [n \in 1..c |-> s[e[n]]] \in [1..c -> S]
  BY <1>1, <1>2
<1>5. \A n \in 1..c : [k \in 1..c |-> s[e[k]]][n] = s[e[n]]
  OBVIOUS
<1>6. Pick(s, I) \in Seq(S) /\ Len(Pick(s, I)) = c
  BY <1>2, <1>3, <1>4, SequenceOf
<1> QED
  BY <1>2, <1>3, <1>5, <1>6 DEF c, e

LEMMA AppendFacts ==
  ASSUME NEW S, NEW q \in Seq(S), NEW x \in S
  PROVE  /\ Append(q, x) \in Seq(S) /\ Len(q) \in Nat /\ Len(Append(q, x)) = Len(q) + 1
         /\ \A i \in 1..Len(q) : Append(q, x)[i] = q[i]
         /\ Append(q, x)[Len(q) + 1] = x
BY AppendProperties

LEMMA TailFacts ==
  ASSUME NEW S, NEW q \in Seq(S), q # <<>>
  PROVE  /\ Tail(q) \in Seq(S) /\ Len(Tail(q)) = Len(q) - 1
         /\ Len(q) \in Nat \ {0} /\ Head(q) = q[1] /\ q[1] \in S
         /\ \A i \in 1..Len(q) - 1 : Tail(q)[i] = q[i + 1]
<1>1. Len(q) \in Nat \ {0}
  BY EmptySeq
<1> QED
  BY <1>1, HeadTailProperties, ElementOfSeq

LEMMA ConcatFacts ==
  ASSUME NEW S, NEW q \in Seq(S), NEW s \in Seq(S)
  PROVE  /\ q \o s \in Seq(S) /\ Len(q) \in Nat /\ Len(s) \in Nat
         /\ Len(q \o s) = Len(q) + Len(s)
         /\ \A i \in 1..Len(q) : (q \o s)[i] = q[i]
         /\ \A i \in 1..Len(s) : (q \o s)[Len(q) + i] = s[i]
BY ConcatProperties, LenProperties

LEMMA PrefixFacts ==
  ASSUME NEW S, NEW q \in Seq(S), NEW n \in 0..Len(q)
  PROVE  /\ SubSeq(q, 1, n) \in Seq(S) /\ Len(SubSeq(q, 1, n)) = n
         /\ \A i \in 1..n : SubSeq(q, 1, n)[i] = q[i]
BY SubSeqProperties, LenProperties, ElementOfSeq
-----------------------------------------------------------------------------
(* Room for every message: at the client, and in the session, which the    *)
(* broker keeps.                                                           *)
RoomForAll ==
  /\ MaxGiven \in Nat /\ MaxMid \in Nat \ {0} /\ SendMaximum \in Nat /\ MaxInflight \in Nat
  /\ MaxGiven <= SendMaximum /\ MaxGiven <= MaxInflight /\ CleanSession = {FALSE}

Messages == [id : Nat, mid : Nat \ {0}, qos : 1..2, state : States]
Sessions == [id : Nat, mid : Nat \ {0}]

(* CONNECT and CONNACK are what has no message identifier. *)
UpPackets ==
  {p \in [kind : {"CONNECT", "PUBLISH", "PUBREL"}, mid : Nat, id : Nat, qos : Nat] :
     p.mid = 0 <=> p.kind = "CONNECT"}
DownPackets ==
  {p \in [kind : {"CONNACK", "PUBACK", "PUBREC", "PUBCOMP"}, mid : Nat, id : Nat, qos : Nat] :
     p.mid = 0 <=> p.kind = "CONNACK"}

LineTypes ==
  /\ given \in Seq(1..2) /\ released \in Seq(Nat) /\ Len(released) = Len(given)
  /\ Len(given) <= MaxGiven /\ acked \subseteq Ids
  /\ out \in Seq(Messages) /\ last_mid \in 0..MaxMid
  /\ sock \in {"none", "connected", "active"} /\ clean = FALSE
  /\ up \in Seq(UpPackets) /\ down \in Seq(DownPackets)
  /\ inflight \in Seq(Sessions) /\ queued = <<>> /\ in_quota \in Nat

Entries(q) == {q[j] : j \in 1..Len(q)}
Listed == Entries(out)

(* The client's list: one entry for each message that is not acknowledged, *)
(* under an identifier of its own.                                         *)
Unique(q) == \A i, j \in 1..Len(q) : i # j => q[i].id # q[j].id /\ q[i].mid # q[j].mid
ListInv ==
  /\ Unique(out)
  /\ \A m \in Listed : m.id \in Ids /\ m.qos = given[m.id]
  /\ KeptUntilAcked

(* PUBREC was received for m, so that PUBREL is sent for it. *)
HasPubrec(m) == m.state \in Unreleased
ToRetry(m) == m.state \in Unpublished \cup Unreleased

InUp(mid) == \E i \in 1..Len(up) : up[i].mid = mid
InDown(mid) == \E i \in 1..Len(down) : down[i].mid = mid
PublishInUp(mid) == \E i \in 1..Len(up) : up[i].mid = mid /\ up[i].kind = "PUBLISH"
NoConnect == \A i \in 1..Len(up) : up[i].kind # "CONNECT"

(* A packet of the connection that is open, not of an older one. *)
Current(i) == sock # "none" /\ \A j \in i..Len(up) : up[j].kind # "CONNECT"
OnLine(mid) == \E i \in 1..Len(up) : Current(i) /\ up[i].mid = mid

(* What the client does not send, and sends again after CONNACK, is not on *)
(* its way; a message is not published any more once PUBREC was received.  *)
MessageInv(m) ==
  /\ m.qos = 1 => ~HasPubrec(m)
  /\ HasPubrec(m) => ~PublishInUp(m.mid)
  /\ m.state = "invalid" => ~InUp(m.mid) /\ ~InDown(m.mid)
  /\ sock = "connected" /\ ToRetry(m) => ~OnLine(m.mid) /\ ~InDown(m.mid)

(* Every packet belongs to an entry of the list L. *)
UpInv(L, p) ==
  /\ p.kind = "PUBLISH" => \E m \in L : m.id = p.id /\ m.mid = p.mid /\ m.qos = p.qos
  /\ p.kind = "PUBREL" => \E m \in L : m.mid = p.mid /\ HasPubrec(m)
DownInv(L, p) ==
  /\ p.kind = "PUBACK" => \E m \in L : m.mid = p.mid /\ m.qos = 1
  /\ p.kind = "PUBREC" => \E m \in L : m.mid = p.mid /\ m.qos = 2 /\ ~HasPubrec(m)
  /\ p.kind = "PUBCOMP" => \E m \in L : m.mid = p.mid /\ HasPubrec(m)

(* Of each exchange one packet is under way on a connection, the others of *)
(* its identifier are older than the CONNECT.                              *)
OneEach ==
  \A i, j \in 1..Len(up) : Current(i) /\ Current(j) /\ up[i].mid = up[j].mid => i = j
AnswersLast(d) ==
  \A i \in 1..Len(d) : d[i].kind # "CONNACK" =>
    /\ \A j \in 1..Len(up) : up[j].mid # d[i].mid
    /\ \A j \in 1..Len(d) : j # i => d[j].mid # d[i].mid

ConnectionInv ==
  /\ down # <<>> => sock # "none" /\ NoConnect
  /\ sock = "active" => NoConnect
  /\ sock = "connected" => ~NoConnect \/ (down # <<>> /\ down[1].kind = "CONNACK")
  /\ \A i \in 1..Len(down) : down[i].kind = "CONNACK" => i = 1 /\ sock = "connected"

LineInv ==
  /\ \A m \in Listed : MessageInv(m)
  /\ \A i \in 1..Len(up) : UpInv(Listed, up[i])
  /\ \A i \in 1..Len(down) : DownInv(Listed, down[i])
  /\ OneEach /\ AnswersLast(down) /\ ConnectionInv

InSession(m) == \E i \in 1..Len(inflight) : inflight[i].id = m.id /\ inflight[i].mid = m.mid
Answered(kind, mid) == \E i \in 1..Len(down) : down[i].kind = kind /\ down[i].mid = mid

(* What was passed on of a message, and what answers it may have. *)
PassedInv(m) ==
  /\ m.qos = 2 /\ HasPubrec(m) => released[m.id] > 0 \/ InSession(m)
  /\ m.qos = 2 /\ ~HasPubrec(m) => released[m.id] = 0
  /\ Answered("PUBACK", m.mid) \/ Answered("PUBCOMP", m.mid) => released[m.id] > 0
  /\ Answered("PUBREC", m.mid) => InSession(m)

SessionInv ==
  /\ \A m \in Listed : PassedInv(m)
  /\ \A i \in 1..Len(inflight) :
       \E m \in Listed : /\ m.id = inflight[i].id /\ m.mid = inflight[i].mid /\ m.qos = 2
                         /\ released[m.id] = 0
  /\ \A i, j \in 1..Len(inflight) : i # j => inflight[i].mid # inflight[j].mid
  /\ MaxInflight <= in_quota + Len(inflight)

DeliveryInv == LineTypes /\ ListInv /\ LineInv /\ SessionInv

-----------------------------------------------------------------------------
(* What happens to the packets under way: the client sends s, ...          *)
LEMMA SentFacts ==
  ASSUME up \in Seq(UpPackets), NEW s \in Seq(UpPackets), up' = up \o s,
         sock # "none", sock' # "none", \A n \in 1..Len(s) : s[n].kind # "CONNECT"
  PROVE  /\ up' \in Seq(UpPackets)
         /\ \A i \in 1..Len(up') : \/ i \in 1..Len(up) /\ up'[i] = up[i]
                                   \/ \E n \in 1..Len(s) : up'[i] = s[n]
         /\ \A mid : InUp(mid)' => InUp(mid) \/ \E n \in 1..Len(s) : s[n].mid = mid
         /\ \A mid : PublishInUp(mid)' => \/ PublishInUp(mid)
                                          \/ \E n \in 1..Len(s) : /\ s[n].mid = mid
                                                                  /\ s[n].kind = "PUBLISH"
         /\ \A mid : OnLine(mid)' => OnLine(mid) \/ \E n \in 1..Len(s) : s[n].mid = mid
         /\ NoConnect' <=> NoConnect
         /\ /\ OneEach
            /\ \A n \in 1..Len(s) : ~OnLine(s[n].mid)
            /\ \A m, n \in 1..Len(s) : s[m].mid = s[n].mid => m = n
            => OneEach'
<1>1. /\ up' \in Seq(UpPackets) /\ Len(up) \in Nat /\ Len(s) \in Nat
      /\ Len(up') = Len(up) + Len(s)
      /\ \A i \in 1..Len(up) : up'[i] = up[i]
      /\ \A i \in 1..Len(s) : up'[Len(up) + i] = s[i]
  BY ConcatFacts
<1>2. ASSUME NEW i \in 1..Len(up')
      PROVE  \/ i \in 1..Len(up) /\ up'[i] = up[i]
             \/ i - Len(up) \in 1..Len(s) /\ up'[i] = s[i - Len(up)] /\ i > Len(up)
  <2>1. CASE i <= Len(up)
    BY <1>1, <2>1
  <2>2. CASE i > Len(up)
    <3>1. i - Len(up) \in 1..Len(s) /\ Len(up) + (i - Len(up)) = i
      BY <1>1, <2>2
    <3> QED
      BY <1>1, <2>2, <3>1
  <2> QED
    BY <1>1, <2>1, <2>2
<1>3. \A i \in 1..Len(up) : i \in 1..Len(up')
  BY <1>1
<1>4. \A i \in 1..Len(up) : Current(i)' => Current(i)
  <2> SUFFICES ASSUME NEW i \in 1..Len(up), Current(i)', NEW j \in i..Len(up)
               PROVE  up[j].kind # "CONNECT"
    BY DEF Current
  <2>1. j \in i..Len(up') /\ j \in 1..Len(up)
    BY <1>1
  <2> QED
    BY <1>1, <2>1 DEF Current
<1>5. NoConnect' <=> NoConnect
  BY <1>1, <1>2, <1>3 DEF NoConnect
<1>6. /\ \A mid : InUp(mid)' => InUp(mid) \/ \E n \in 1..Len(s) : s[n].mid = mid
      /\ \A mid : PublishInUp(mid)' => \/ PublishInUp(mid)
                                       \/ \E n \in 1..Len(s) : /\ s[n].mid = mid
                                                               /\ s[n].kind = "PUBLISH"
      /\ \A mid : OnLine(mid)' => OnLine(mid) \/ \E n \in 1..Len(s) : s[n].mid = mid
  <2>1. \A mid : InUp(mid)' => InUp(mid) \/ \E n \in 1..Len(s) : s[n].mid = mid
    BY <1>2 DEF InUp
  <2>2. \A mid : PublishInUp(mid)' => \/ PublishInUp(mid)
                                      \/ \E n \in 1..Len(s) : /\ s[n].mid = mid
                                                              /\ s[n].kind = "PUBLISH"
    BY <1>2 DEF PublishInUp
  <2>3. \A mid : OnLine(mid)' => OnLine(mid) \/ \E n \in 1..Len(s) : s[n].mid = mid
    BY <1>2, <1>4 DEF OnLine
  <2> QED
    BY <2>1, <2>2, <2>3
<1>7. ASSUME OneEach, \A n \in 1..Len(s) : ~OnLine(s[n].mid),
             \A m, n \in 1..Len(s) : s[m].mid = s[n].mid => m = n
      PROVE  OneEach'
  <2> SUFFICES ASSUME NEW i \in 1..Len(up'), NEW j \in 1..Len(up'), Current(i)', Current(j)',
                      up'[i].mid = up'[j].mid
               PROVE  i = j
    BY DEF OneEach
  <2>1. CASE i \in 1..Len(up) /\ j \in 1..Len(up)
    BY <1>1, <1>4, <1>7, <2>1 DEF OneEach
  <2>2. CASE i \in 1..Len(up) /\ j > Len(up)
    <3>1. OnLine(up[i].mid)
      BY <1>4, <2>2 DEF OnLine
    <3>2. j - Len(up) \in 1..Len(s) /\ up'[j] = s[j - Len(up)]
      BY <1>1, <1>2, <2>2
    <3> QED
      BY <1>1, <1>7, <2>2, <3>1, <3>2
  <2>3. CASE i > Len(up) /\ j \in 1..Len(up)
    <3>1. OnLine(up[j].mid)
      BY <1>4, <2>3 DEF OnLine
    <3>2. i - Len(up) \in 1..Len(s) /\ up'[i] = s[i - Len(up)]
      BY <1>1, <1>2, <2>3
    <3> QED
      BY <1>1, <1>7, <2>3, <3>1, <3>2
  <2>4. CASE i > Len(up) /\ j > Len(up)
    <3>1. /\ i - Len(up) \in 1..Len(s) /\ up'[i] = s[i - Len(up)]
          /\ j - Len(up) \in 1..Len(s) /\ up'[j] = s[j - Len(up)]
      BY <1>1, <1>2, <2>4
    <3>2. i - Len(up) = j - Len(up)
      BY <1>7, <3>1
    <3> QED
      BY <1>1, <3>2
  <2> QED
    BY <1>1, <2>1, <2>2, <2>3, <2>4
<1> QED
  BY <1>1, <1>2, <1>5, <1>6, <1>7

(* ... the broker reads a packet, ...                                      *)
LEMMA ReadFacts ==
  ASSUME up \in Seq(UpPackets), up # <<>>, up' = Tail(up), sock' = sock
  PROVE  /\ up' \in Seq(UpPackets) /\ Head(up) = up[1] /\ up[1] \in UpPackets
         /\ 1 \in 1..Len(up)
         /\ \A i \in 1..Len(up') : \E j \in 1..Len(up) : up'[i] = up[j]
         /\ \A mid : InUp(mid)' => InUp(mid)
         /\ \A mid : PublishInUp(mid)' => PublishInUp(mid)
         /\ \A mid : OnLine(mid)' => OnLine(mid)
         /\ NoConnect => NoConnect'
         /\ up[1].kind # "CONNECT" /\ ~NoConnect => ~NoConnect'
         /\ OneEach => OneEach'
         /\ \A mid : OneEach /\ Current(1) /\ mid = up[1].mid => ~OnLine(mid)'
         /\ Current(1) => NoConnect /\ \A i \in 1..Len(up') : Current(i)'
         /\ NoConnect' /\ sock # "none" => \A i \in 1..Len(up') : Current(i)'
         /\ ~(\E i \in 2..Len(up) : up[i].kind = "CONNECT") <=> NoConnect'
<1>1. /\ up' \in Seq(UpPackets) /\ Len(up') = Len(up) - 1
      /\ Len(up) \in Nat \ {0} /\ Head(up) = up[1] /\ up[1] \in UpPackets
      /\ \A i \in 1..Len(up) - 1 : up'[i] = up[i + 1]
  BY TailFacts
<1>2. \A i \in 1..Len(up') : i + 1 \in 1..Len(up) /\ up'[i] = up[i + 1]
  BY <1>1
<1>3. \A j \in 2..Len(up) : j - 1 \in 1..Len(up') /\ up'[j - 1] = up[j]
  <2> SUFFICES ASSUME NEW j \in 2..Len(up)
               PROVE  j - 1 \in 1..Len(up') /\ up'[j - 1] = up[j]
    OBVIOUS
  <2>1. j - 1 \in 1..Len(up) - 1 /\ (j - 1) + 1 = j
    BY <1>1
  <2> QED
    BY <1>1, <2>1
<1>4. \A i \in 1..Len(up') : Current(i)' => Current(i + 1)
  <2> SUFFICES ASSUME NEW i \in 1..Len(up'), Current(i)', NEW j \in (i + 1)..Len(up)
               PROVE  sock # "none" /\ up[j].kind # "CONNECT"
    BY DEF Current
  <2>1. j \in 2..Len(up) /\ j - 1 \in i..Len(up')
    BY <1>1
  <2> QED
    BY <1>3, <2>1 DEF Current
<1>5. NoConnect' <=> \A i \in 2..Len(up) : up[i].kind # "CONNECT"
  <2>1. \A i \in 1..Len(up') : i + 1 \in 2..Len(up)
    BY <1>1
  <2> QED
    BY <1>2, <1>3, <2>1 DEF NoConnect
<1>6. (NoConnect => NoConnect') /\ (up[1].kind # "CONNECT" /\ ~NoConnect => ~NoConnect')
  <2>1. \A i \in 1..Len(up) : i = 1 \/ i \in 2..Len(up)
    BY <1>1
  <2>2. \A i \in 2..Len(up) : i \in 1..Len(up)
    BY <1>1
  <2> QED
    BY <1>5, <2>1, <2>2 DEF NoConnect
<1>7. /\ \A mid : InUp(mid)' => InUp(mid)
      /\ \A mid : PublishInUp(mid)' => PublishInUp(mid)
      /\ \A mid : OnLine(mid)' => OnLine(mid)
  <2>1. \A mid : InUp(mid)' => InUp(mid)
    BY <1>2 DEF InUp
  <2>2. \A mid : PublishInUp(mid)' => PublishInUp(mid)
    BY <1>2 DEF PublishInUp
  <2>3. \A mid : OnLine(mid)' => OnLine(mid)
    BY <1>2, <1>4 DEF OnLine
  <2> QED
    BY <2>1, <2>2, <2>3
<1>8. ASSUME OneEach PROVE OneEach'
  <2> SUFFICES ASSUME NEW i \in 1..Len(up'), NEW j \in 1..Len(up'), Current(i)', Current(j)',
                      up'[i].mid = up'[j].mid
               PROVE  i = j
    BY DEF OneEach
  <2>1. i + 1 = j + 1
    BY <1>2, <1>4, <1>8 DEF OneEach
  <2> QED
    BY <1>1, <2>1
<1>9. ASSUME OneEach, Current(1), NEW mid, mid = up[1].mid PROVE ~OnLine(mid)'
  <2> SUFFICES ASSUME NEW i \in 1..Len(up'), Current(i)', up'[i].mid = up[1].mid
               PROVE  FALSE
    BY <1>9 DEF OnLine
  <2>1. i + 1 = 1
    BY <1>1, <1>2, <1>4, <1>9 DEF OneEach
  <2> QED
    BY <1>1, <2>1
<1>10. Current(1) => NoConnect
  BY DEF Current, NoConnect
<1>11. NoConnect' /\ sock # "none" => \A i \in 1..Len(up') : Current(i)'
  <2> SUFFICES ASSUME NoConnect', sock # "none", NEW i \in 1..Len(up'), NEW j \in i..Len(up')
               PROVE  sock' # "none" /\ up'[j].kind # "CONNECT"
    BY DEF Current
  <2>1. j \in 1..Len(up')
    BY <1>1
  <2> QED
    BY <2>1 DEF NoConnect
<1>12. Current(1) => sock # "none"
  BY DEF Current
<1>13. Current(1) => NoConnect /\ \A i \in 1..Len(up') : Current(i)'
  BY <1>6, <1>10, <1>11, <1>12
<1>14. ~(\E i \in 2..Len(up) : up[i].kind = "CONNECT") <=> NoConnect'
  BY <1>5
<1> QED
  BY <1>1, <1>2, <1>6, <1>7, <1>8, <1>9, <1>11, <1>13, <1>14

(* ... and answers it, if it came on this connection.                      *)
LEMMA AnswerLine ==
  ASSUME up \in Seq(UpPackets), down \in Seq(DownPackets), LineInv,
         up # <<>>, up' = Tail(up), UNCHANGED <<sock, out>>, up[1].kind # "CONNECT",
         NEW x \in DownPackets, x.mid = up[1].mid, DownInv(Listed, x),
         down' = IF sock = "none" \/ \E i \in 2..Len(up) : up[i].kind = "CONNECT"
                   THEN down ELSE Append(down, x)
  PROVE  /\ LineInv' /\ up' \in Seq(UpPackets) /\ down' \in Seq(DownPackets)
         /\ \A kind, mid : Answered(kind, mid)' => \/ Answered(kind, mid)
                                                   \/ x.kind = kind /\ x.mid = mid
<1>1. Listed' = Listed
  BY DEF Listed, Entries
<1>2. OneEach /\ AnswersLast(down) /\ ConnectionInv
  BY DEF LineInv
<1>3. OneEach' /\ up' \in Seq(UpPackets)
  BY <1>2, ReadFacts
<1>6. \A i \in 1..Len(up') : UpInv(Listed, up[i])'
  <2> SUFFICES ASSUME NEW i \in 1..Len(up') PROVE UpInv(Listed, up'[i])
    BY <1>1
  <2>1. PICK j \in 1..Len(up) : up'[i] = up[j]
    BY ReadFacts
  <2> QED
    BY <2>1 DEF LineInv
<1>7. \A i \in 1..Len(down) : down[i] \in DownPackets
  BY ElementOfSeq
<1>8. CASE sock = "none" \/ \E i \in 2..Len(up) : up[i].kind = "CONNECT"
  <2>1. down' = down
    BY <1>8
  <2>2. \A m \in Listed : MessageInv(m)'
    <3> SUFFICES ASSUME NEW m \in Listed PROVE MessageInv(m)'
      OBVIOUS
    <3>1. MessageInv(m)
      BY DEF LineInv
    <3>2. /\ InUp(m.mid)' => InUp(m.mid)
          /\ PublishInUp(m.mid)' => PublishInUp(m.mid)
          /\ OnLine(m.mid)' => OnLine(m.mid)
      BY ReadFacts
    <3>3. InDown(m.mid)' <=> InDown(m.mid)
      BY <2>1 DEF InDown
    <3> QED
      BY <3>1, <3>2, <3>3 DEF MessageInv
  <2>3. AnswersLast(down)'
    <3>1. \A i \in 1..Len(up') : \E j \in 1..Len(up) : up'[i] = up[j]
      BY ReadFacts
    <3> QED
      BY <1>2, <2>1, <3>1 DEF AnswersLast
  <2>4. ConnectionInv'
    <3>1. (NoConnect => NoConnect') /\ (~NoConnect => ~NoConnect')
      BY ReadFacts
    <3> QED
      BY <1>2, <2>1, <3>1 DEF ConnectionInv
  <2>5. \A i \in 1..Len(down') : DownInv(Listed, down[i])'
    BY <1>1, <2>1 DEF LineInv
  <2>6. \A kind, mid : Answered(kind, mid)' => Answered(kind, mid)
    BY <2>1 DEF Answered
  <2> QED
    BY <1>1, <1>3, <1>6, <2>1, <2>2, <2>3, <2>4, <2>5, <2>6 DEF LineInv
<1>9. CASE ~(sock = "none" \/ \E i \in 2..Len(up) : up[i].kind = "CONNECT")
  <2>1. /\ down' \in Seq(DownPackets) /\ Len(down) \in Nat /\ Len(down') = Len(down) + 1
        /\ \A i \in 1..Len(down) : down'[i] = down[i]
        /\ down'[Len(down) + 1] = x
    <3>1. down' = Append(down, x)
      BY <1>9
    <3> QED
      BY <3>1, AppendFacts
  <2>2. \A i \in 1..Len(down') : \/ i \in 1..Len(down) /\ down'[i] = down[i]
                                 \/ i = Len(down) + 1 /\ down'[i] = x
    BY <2>1
  <2>3. Current(1)
    <3> SUFFICES ASSUME NEW j \in 1..Len(up) PROVE up[j].kind # "CONNECT"
      BY <1>9 DEF Current
    <3>1. j = 1 \/ j \in 2..Len(up)
      OBVIOUS
    <3> QED
      BY <1>9, <3>1
  <2>4. NoConnect /\ NoConnect' /\ 1 \in 1..Len(up)
    BY <2>3, ReadFacts
  <2>5. InUp(x.mid) /\ OnLine(x.mid)
    BY <2>3, <2>4 DEF InUp, OnLine
  <2>6. \A i \in 1..Len(up') : up'[i].mid # x.mid
    <3>1. \A i \in 1..Len(up') : Current(i)'
      BY <2>3, ReadFacts
    <3>2. \A mid : mid = up[1].mid => ~OnLine(mid)'
      BY <1>2, <2>3, ReadFacts
    <3>3. PICK mid : mid = up[1].mid
      OBVIOUS
    <3>4. ~OnLine(mid)'
      BY <3>2, <3>3
    <3> QED
      BY <3>1, <3>3, <3>4 DEF OnLine
  <2>7. x.mid # 0 /\ x.kind # "CONNACK" /\ x.kind \in {"PUBACK", "PUBREC", "PUBCOMP"}
    <3>1. up[1].mid # 0
      BY SMTT(30), <2>4, ElementOfSeq DEF UpPackets
    <3> QED
      BY <3>1 DEF DownPackets
  <2>8. \A i \in 1..Len(down) : down[i].mid # x.mid
    <3> SUFFICES ASSUME NEW i \in 1..Len(down) PROVE down[i].mid # x.mid
      OBVIOUS
    <3>1. CASE down[i].kind = "CONNACK"
      BY <1>7, <2>7, <3>1 DEF DownPackets
    <3>2. CASE down[i].kind # "CONNACK"
      BY <1>2, <2>4, <3>2 DEF AnswersLast
    <3> QED
      BY <3>1, <3>2
  <2>9. \A mid : InDown(mid)' => InDown(mid) \/ mid = x.mid
    BY <2>2 DEF InDown
  <2>10. \A m \in Listed : MessageInv(m)'
    <3> SUFFICES ASSUME NEW m \in Listed PROVE MessageInv(m)'
      OBVIOUS
    <3>1. MessageInv(m)
      BY DEF LineInv
    <3>2. /\ InUp(m.mid)' => InUp(m.mid)
          /\ PublishInUp(m.mid)' => PublishInUp(m.mid)
          /\ OnLine(m.mid)' => OnLine(m.mid)
      BY ReadFacts
    <3>3. m.state = "invalid" => ~InDown(m.mid)'
      BY <2>5, <2>9, <3>1 DEF MessageInv
    <3>4. sock = "connected" /\ ToRetry(m) => ~InDown(m.mid)'
      BY <2>5, <2>9, <3>1 DEF MessageInv
    <3>5. (HasPubrec(m)' <=> HasPubrec(m)) /\ (ToRetry(m)' <=> ToRetry(m))
      BY DEF HasPubrec, ToRetry
    <3> QED
      BY <3>1, <3>2, <3>3, <3>4, <3>5 DEF MessageInv
  <2>11. AnswersLast(down)'
    <3> SUFFICES ASSUME NEW i \in 1..Len(down'), down'[i].kind # "CONNACK"
                 PROVE  /\ \A j \in 1..Len(up') : up'[j].mid # down'[i].mid
                        /\ \A j \in 1..Len(down') : j # i => down'[j].mid # down'[i].mid
      BY DEF AnswersLast
    <3>1. CASE i \in 1..Len(down) /\ down'[i] = down[i]
      <4>1. /\ \A j \in 1..Len(up) : up[j].mid # down[i].mid
            /\ \A j \in 1..Len(down) : j # i => down[j].mid # down[i].mid
        BY <1>2, <3>1 DEF AnswersLast
      <4>2. \A j \in 1..Len(up') : \E n \in 1..Len(up) : up'[j] = up[n]
        BY ReadFacts
      <4> QED
        BY <2>2, <2>8, <3>1, <4>1, <4>2
    <3>2. CASE i = Len(down) + 1 /\ down'[i] = x
      BY <2>1, <2>2, <2>6, <2>8, <3>2
    <3> QED
      BY <2>2, <3>1, <3>2
  <2>12. ConnectionInv'
    <3>1. sock' # "none"
      BY <1>9
    <3>2. down # <<>> => 1 \in 1..Len(down)
      BY <2>1, EmptySeq
    <3>3. sock = "connected" => down' # <<>> /\ down'[1].kind = "CONNACK"
      <4> SUFFICES ASSUME sock = "connected" PROVE down' # <<>> /\ down'[1].kind = "CONNACK"
        OBVIOUS
      <4>1. down # <<>> /\ down[1].kind = "CONNACK"
        BY <1>2, <2>4 DEF ConnectionInv
      <4> QED
        BY <2>1, <3>2, <4>1, EmptySeq
    <3>4. \A i \in 1..Len(down') : down'[i].kind = "CONNACK" => i = 1 /\ sock = "connected"
      BY <1>2, <2>2, <2>7 DEF ConnectionInv
    <3> QED
      BY <2>4, <3>1, <3>3, <3>4 DEF ConnectionInv
  <2>13. \A i \in 1..Len(down') : DownInv(Listed, down[i])'
    <3> SUFFICES ASSUME NEW i \in 1..Len(down') PROVE DownInv(Listed, down'[i])
      BY <1>1
    <3> QED
      BY <2>2 DEF LineInv
  <2>14. \A kind, mid : Answered(kind, mid)' => \/ Answered(kind, mid)
                                                \/ x.kind = kind /\ x.mid = mid
    BY <2>2 DEF Answered
  <2> QED
    BY <1>1, <1>3, <1>6, <2>1, <2>10, <2>11, <2>12, <2>13, <2>14 DEF LineInv
<1> QED
  BY <1>8, <1>9

-----------------------------------------------------------------------------
(* The broker.  An entry of the list is known by its message and by its    *)
(* identifier.                                                             *)
LEMMA EntryFacts ==
  ASSUME LineTypes, ListInv
  PROVE  /\ \A m \in Listed : /\ m \in Messages /\ m.id \in Ids /\ m.id \notin acked
                              /\ m.qos = given[m.id]
         /\ \A m, n \in Listed : m.id = n.id \/ m.mid = n.mid => m = n
<1>1. \A m \in Listed : m \in Messages
  BY ElementOfSeq DEF Listed, Entries, LineTypes
<1>2. ASSUME NEW m \in Listed PROVE m.id \in Ids /\ m.id \notin acked /\ m.qos = given[m.id]
  <2>1. m.id \in Ids /\ m.qos = given[m.id]
    BY DEF ListInv
  <2>2. PICK i \in 1..Len(out) : m = out[i]
    BY DEF Listed, Entries
  <2> QED
    BY <2>1, <2>2 DEF ListInv, KeptUntilAcked
<1>3. \A m, n \in Listed : m.id = n.id \/ m.mid = n.mid => m = n
  BY DEF Listed, Entries, ListInv, Unique
<1> QED
  BY <1>1, <1>2, <1>3

LEMMA CountFacts ==
  ASSUME LineTypes
  PROVE  /\ Len(given) \in Nat /\ Len(released) = Len(given)
         /\ \A k \in Ids : released[k] \in Nat
         /\ released = [k \in Ids |-> released[k]]
         /\ Len(inflight) \in Nat /\ in_quota \in Nat
         /\ \A i \in 1..Len(inflight) : inflight[i] \in Sessions
<1>1. Len(given) \in Nat /\ Len(inflight) \in Nat /\ Len(released) \in Nat
  BY LenProperties DEF LineTypes
<1>2. \A k \in Ids : released[k] \in Nat
  BY ElementOfSeq DEF LineTypes, Ids
<1>3. \A i \in 1..Len(inflight) : inflight[i] \in Sessions
  BY ElementOfSeq DEF LineTypes
<1>4. released = [k \in Ids |-> released[k]]
  BY LenProperties DEF LineTypes, Ids
<1> QED
  BY <1>1, <1>2, <1>3, <1>4 DEF LineTypes

LEMMA SameList ==
  ASSUME ListInv, UNCHANGED <<given, acked, out>>
  PROVE  ListInv'
BY DEF ListInv, KeptUntilAcked, Unique, Listed, Entries, Ids

(* Answering with one packet. *)
LEMMA ReplyOne ==
  ASSUME down \in Seq(DownPackets), NEW x \in DownPackets, Reply(<<x>>)
  PROVE  down' = IF sock = "none" \/ \E i \in 2..Len(up) : up[i].kind = "CONNECT"
                   THEN down ELSE Append(down, x)
<1>1. down \o <<x>> = Append(down, x)
  BY AppendIsConcat
<1> QED
  BY <1>1 DEF Reply

(* The broker reads a PUBLISH of QoS 1: passed on at once.                 *)
LEMMA Publish1Step ==
  ASSUME RoomForAll, DeliveryInv, up # <<>>, up' = Tail(up), UNCHANGED <<client, breaks>>,
         Head(up).kind = "PUBLISH", Head(up).qos = 1, HandlePublish1(Head(up))
  PROVE  DeliveryInv' /\ \E k \in DOMAIN given : Abstract!Release(k)
<1>1. LineTypes /\ ListInv /\ LineInv /\ SessionInv
  BY DEF DeliveryInv
<1>2. up \in Seq(UpPackets) /\ down \in Seq(DownPackets)
  BY <1>1 DEF LineTypes
<1>3. Head(up) = up[1] /\ 1 \in 1..Len(up) /\ up[1] \in UpPackets
  BY <1>2, TailFacts
<1>4. PICK m \in Listed : m.id = up[1].id /\ m.mid = up[1].mid /\ m.qos = 1
  BY <1>1, <1>3 DEF LineInv, UpInv
<1> DEFINE x == Ack("PUBACK", m.mid)
<1>5. /\ m \in Messages /\ m.id \in Ids /\ m.id \notin acked /\ m.qos = given[m.id]
      /\ \A n \in Listed : n \in Messages /\ n.id \in Ids
      /\ \A n \in Listed : m.id = n.id \/ m.mid = n.mid => m = n
  BY <1>1, EntryFacts
<1>6. /\ x \in DownPackets /\ x.mid = m.mid /\ x.kind = "PUBACK" /\ DownInv(Listed, x)
  BY <1>4, <1>5 DEF DownPackets, Ack, Pkt, Messages, DownInv
<1> HIDE DEF x
<1>7. ~Has(Held, m.mid)
  <2> SUFFICES ASSUME NEW i \in 1..Len(inflight), inflight[i].mid = m.mid PROVE FALSE
    BY <1>1, ConcatEmptySeq DEF Has, Held, LineTypes
  <2>1. PICK n \in Listed : n.mid = inflight[i].mid /\ n.qos = 2
    BY <1>1 DEF SessionInv
  <2> QED
    BY <1>4, <1>5, <2>1
<1>8. released' = [released EXCEPT ![m.id] = @ + 1]
  BY <1>3, <1>4, <1>7 DEF HandlePublish1, Stored, Release
<1>9. Reply(<<x>>) /\ UNCHANGED <<inflight, queued>>
  BY <1>3, <1>4 DEF HandlePublish1, x
<1>10. UNCHANGED <<given, out, last_mid, sock, acked, clean>>
  BY DEF client
<1>11. /\ LineInv' /\ up' \in Seq(UpPackets) /\ down' \in Seq(DownPackets)
       /\ \A kind, mid : Answered(kind, mid)' => \/ Answered(kind, mid)
                                                 \/ x.kind = kind /\ x.mid = mid
  <2>1. down' = IF sock = "none" \/ \E i \in 2..Len(up) : up[i].kind = "CONNECT"
                  THEN down ELSE Append(down, x)
    BY <1>2, <1>6, <1>9, ReplyOne
  <2> QED
    BY <1>1, <1>2, <1>3, <1>4, <1>6, <1>10, <2>1, AnswerLine
<1>12. in_quota <= in_quota' \/ MaxInflight <= in_quota'
  BY <1>1, <1>3 DEF HandlePublish1, Up, Down, LineTypes, RoomForAll
<1>13. in_quota' \in Nat
  BY <1>1, <1>3 DEF HandlePublish1, Up, Down, LineTypes, RoomForAll
<1>14. /\ released' \in Seq(Nat) /\ Len(released') = Len(released)
       /\ released'[m.id] > 0
       /\ \A k \in Ids : k # m.id => released'[k] = released[k]
  <2>1. /\ \A k \in Ids : released[k] \in Nat
        /\ Len(released) = Len(given) /\ released \in Seq(Nat)
    BY <1>1, CountFacts DEF LineTypes
  <2>2. m.id \in 1..Len(released) /\ released[m.id] + 1 \in Nat
    BY <1>5, <2>1 DEF Ids
  <2> QED
    BY <1>5, <1>8, <2>1, <2>2, ExceptSeq DEF Ids
<1>15. LineTypes'
  BY <1>1, <1>9, <1>10, <1>11, <1>13, <1>14 DEF LineTypes, Ids
<1>16. ListInv'
  BY <1>1, <1>10, SameList
<1>17. Listed' = Listed
  BY <1>10 DEF Listed, Entries
<1>18. SessionInv'
  <2>1. ASSUME NEW n \in Listed PROVE PassedInv(n)'
    <3>1. PassedInv(n)
      BY <1>1 DEF SessionInv
    <3>2. InSession(n)' <=> InSession(n)
      BY <1>9 DEF InSession
    <3>3. HasPubrec(n)' <=> HasPubrec(n)
      BY DEF HasPubrec
    <3>4. /\ Answered("PUBACK", n.mid)' => Answered("PUBACK", n.mid) \/ n = m
          /\ Answered("PUBCOMP", n.mid)' => Answered("PUBCOMP", n.mid)
          /\ Answered("PUBREC", n.mid)' => Answered("PUBREC", n.mid)
      BY <1>5, <1>6, <1>11
    <3>5. CASE n = m
      BY <1>4, <1>14, <3>1, <3>2, <3>4, <3>5 DEF PassedInv
    <3>6. CASE n # m
      <4>1. released'[n.id] = released[n.id]
        BY <1>5, <1>14, <3>6
      <4> QED
        BY <3>1, <3>2, <3>3, <3>4, <3>6, <4>1 DEF PassedInv
    <3> QED
      BY <3>5, <3>6
  <2>2. ASSUME NEW i \in 1..Len(inflight)
        PROVE  \E n \in Listed : /\ n.id = inflight[i].id /\ n.mid = inflight[i].mid
                                 /\ n.qos = 2 /\ released'[n.id] = 0
    <3>1. PICK n \in Listed : /\ n.id = inflight[i].id /\ n.mid = inflight[i].mid /\ n.qos = 2
                              /\ released[n.id] = 0
      BY <1>1 DEF SessionInv
    <3>2. n # m
      BY <1>4, <3>1
    <3> QED
      BY <1>5, <1>14, <3>1, <3>2
  <2>3. MaxInflight <= in_quota' + Len(inflight')
    <3>1. MaxInflight <= in_quota + Len(inflight) /\ Len(inflight) \in Nat /\ in_quota \in Nat
      BY <1>1, CountFacts DEF SessionInv, LineTypes
    <3> QED
      BY <1>9, <1>12, <1>13, <3>1 DEF RoomForAll
  <2> QED
    BY <1>1, <1>9, <1>17, <2>1, <2>2, <2>3 DEF SessionInv
<1>19. Abstract!Release(m.id)
  BY <1>4, <1>5, <1>8, <1>10 DEF Abstract!Release
<1> QED
  BY <1>5, <1>11, <1>15, <1>16, <1>18, <1>19 DEF DeliveryInv, Ids

(* The messages of the session are distinct, and each is on the list.      *)
LEMMA SessionFacts ==
  ASSUME LineTypes, ListInv, SessionInv
  PROVE  /\ Held = inflight
         /\ \A i \in 1..Len(inflight) :
              \E n \in Listed : /\ n.id = inflight[i].id /\ n.mid = inflight[i].mid
                                /\ n.qos = 2 /\ released[n.id] = 0
         /\ \A i, j \in 1..Len(inflight) :
              inflight[i].id = inflight[j].id \/ inflight[i].mid = inflight[j].mid => i = j
<1>1. Held = inflight
  BY ConcatEmptySeq DEF LineTypes, Held
<1>2. \A i \in 1..Len(inflight) :
        \E n \in Listed : /\ n.id = inflight[i].id /\ n.mid = inflight[i].mid
                          /\ n.qos = 2 /\ released[n.id] = 0
  BY DEF SessionInv
<1>3. ASSUME NEW i \in 1..Len(inflight), NEW j \in 1..Len(inflight),
             inflight[i].id = inflight[j].id \/ inflight[i].mid = inflight[j].mid
      PROVE  i = j
  <2>1. PICK m \in Listed : m.id = inflight[i].id /\ m.mid = inflight[i].mid
    BY <1>2
  <2>2. PICK n \in Listed : n.id = inflight[j].id /\ n.mid = inflight[j].mid
    BY <1>2
  <2>3. m = n
    BY <1>3, <2>1, <2>2, EntryFacts
  <2> QED
    BY <2>1, <2>2, <2>3 DEF SessionInv
<1> QED
  BY <1>1, <1>2, <1>3

(* There is a place for a message that the session does not hold yet.      *)
LEMMA PlaceLeft ==
  ASSUME RoomForAll, LineTypes, ListInv, SessionInv, NEW k \in Ids,
         \A i \in 1..Len(inflight) : inflight[i].id # k
  PROVE  in_quota > 0
<1> DEFINE n == Len(inflight)
           T == Ids \ {k}
           f == [i \in 1..n |-> inflight[i].id]
<1>1. n \in Nat /\ Len(given) \in Nat /\ in_quota \in Nat
  BY CountFacts
<1>2. /\ IsFiniteSet(Ids) /\ Cardinality(Ids) = Len(given)
      /\ IsFiniteSet(1..n) /\ Cardinality(1..n) = n
  BY <1>1, IntervalFacts DEF Ids
<1>3. IsFiniteSet(T) /\ Cardinality(T) = Len(given) - 1
  BY <1>2, FS_RemoveElement
<1>4. \A i \in 1..n : inflight[i].id \in T
  <2> SUFFICES ASSUME NEW i \in 1..n PROVE inflight[i].id \in T
    OBVIOUS
  <2>1. PICK m \in Listed : m.id = inflight[i].id
    BY SessionFacts
  <2> QED
    BY <2>1, EntryFacts
<1>5. f \in Injection(1..n, T)
  <2>1. f \in [1..n -> T]
    BY <1>4
  <2>2. \A i, j \in 1..n : f[i] = f[j] => i = j
    BY SessionFacts
  <2> QED
    BY <2>1, <2>2 DEF Injection, IsInjective
<1>6. n <= Len(given) - 1
  <2> HIDE DEF f, T
  <2>1. Cardinality(1..n) <= Cardinality(T)
    BY <1>2, <1>3, <1>5, FS_Injection
  <2> QED
    BY <1>2, <1>3, <2>1
<1>7. MaxInflight <= in_quota + n /\ Len(given) <= MaxGiven /\ MaxGiven <= MaxInflight
  BY DEF SessionInv, LineTypes, RoomForAll
<1> QED
  BY <1>1, <1>6, <1>7 DEF RoomForAll

(* The broker reads a PUBLISH of QoS 2: held once, answered each time.     *)
LEMMA Publish2Step ==
  ASSUME RoomForAll, DeliveryInv, up # <<>>, up' = Tail(up), UNCHANGED <<client, breaks>>,
         Head(up).kind = "PUBLISH", Head(up).qos = 2, HandlePublish2(Head(up))
  PROVE  DeliveryInv' /\ UNCHANGED <<given, released, acked>>
<1>1. LineTypes /\ ListInv /\ LineInv /\ SessionInv
  BY DEF DeliveryInv
<1>2. up \in Seq(UpPackets) /\ down \in Seq(DownPackets)
  BY <1>1 DEF LineTypes
<1>3. Head(up) = up[1] /\ 1 \in 1..Len(up) /\ up[1] \in UpPackets
  BY <1>2, TailFacts
<1>4. PICK m \in Listed : m.id = up[1].id /\ m.mid = up[1].mid /\ m.qos = 2
  BY <1>1, <1>3 DEF LineInv, UpInv
<1> DEFINE x == Ack("PUBREC", m.mid)
           h == [id |-> m.id, mid |-> m.mid]
<1>5. /\ m \in Messages /\ m.id \in Ids /\ m.qos = given[m.id]
      /\ \A n \in Listed : n \in Messages /\ n.id \in Ids
      /\ \A n \in Listed : m.id = n.id \/ m.mid = n.mid => m = n
  BY <1>1, EntryFacts
<1>6. ~HasPubrec(m)
  <2>1. PublishInUp(m.mid)
    BY <1>3, <1>4 DEF PublishInUp
  <2> QED
    BY <1>1, <2>1 DEF LineInv, MessageInv
<1>7. released[m.id] = 0
  BY <1>1, <1>4, <1>6 DEF SessionInv, PassedInv
<1>8. x \in DownPackets /\ x.mid = m.mid /\ x.kind = "PUBREC" /\ DownInv(Listed, x)
  BY <1>4, <1>5, <1>6 DEF DownPackets, Ack, Pkt, Messages, DownInv
<1>9. h \in Sessions /\ h.id = m.id /\ h.mid = m.mid
  BY <1>5 DEF Sessions, Messages
<1>10. UNCHANGED <<given, out, last_mid, sock, acked, clean, released, in_quota>>
  BY DEF client, HandlePublish2
<1>11. /\ Len(inflight) \in Nat /\ in_quota \in Nat /\ inflight \in Seq(Sessions)
       /\ \A i \in 1..Len(inflight) : inflight[i] \in Sessions
  BY <1>1, CountFacts DEF LineTypes
<1>12. /\ Reply(<<x>>) /\ queued' = queued
       /\ \/ inflight' = inflight /\ \E i \in 1..Len(inflight) : inflight[i].mid = m.mid
          \/ /\ inflight' = Append(inflight, h)
             /\ \A i \in 1..Len(inflight) : inflight[i].mid # m.mid
  <2>1. Held = inflight
    BY <1>1, SessionFacts
  <2>2. CASE Has(Held, m.mid)
    BY <1>3, <1>4, <2>1, <2>2 DEF HandlePublish2, Has, x
  <2>3. CASE ~Has(Held, m.mid)
    <3>1. \A i \in 1..Len(inflight) : inflight[i].mid # m.mid
      BY <2>1, <2>3 DEF Has
    <3>2. \A i \in 1..Len(inflight) : inflight[i].id # m.id
      <4> SUFFICES ASSUME NEW i \in 1..Len(inflight), inflight[i].id = m.id PROVE FALSE
        OBVIOUS
      <4>1. PICK n \in Listed : n.id = inflight[i].id /\ n.mid = inflight[i].mid
        BY <1>1, SessionFacts
      <4> QED
        BY <1>5, <3>1, <4>1
    <3>3. in_quota > 0 /\ in_quota # 0
      BY <1>1, <1>5, <1>11, <3>2, PlaceLeft
    <3>4. Insert(up[1])
      BY <1>3, <1>4, <2>3 DEF HandlePublish2
    <3> QED
      BY <1>4, <3>1, <3>3, <3>4 DEF Insert, x, h
  <2> QED
    BY <2>2, <2>3
<1> HIDE DEF x, h
<1>13. /\ LineInv' /\ up' \in Seq(UpPackets) /\ down' \in Seq(DownPackets)
       /\ \A kind, mid : Answered(kind, mid)' => \/ Answered(kind, mid)
                                                 \/ x.kind = kind /\ x.mid = mid
  <2>1. down' = IF sock = "none" \/ \E i \in 2..Len(up) : up[i].kind = "CONNECT"
                  THEN down ELSE Append(down, x)
    BY <1>2, <1>8, <1>12, ReplyOne
  <2> QED
    BY <1>1, <1>2, <1>3, <1>4, <1>8, <1>10, <2>1, AnswerLine
<1>14. /\ inflight' \in Seq(Sessions) /\ Len(inflight') \in Nat
       /\ Len(inflight) <= Len(inflight')
       /\ \A i \in 1..Len(inflight) : i \in 1..Len(inflight') /\ inflight'[i] = inflight[i]
       /\ \E i \in 1..Len(inflight') : inflight'[i].mid = m.mid /\ inflight'[i].id = m.id
       /\ \A i \in 1..Len(inflight') :
            \/ i \in 1..Len(inflight) /\ inflight'[i] = inflight[i]
            \/ /\ inflight'[i] = h /\ i = Len(inflight) + 1
               /\ \A j \in 1..Len(inflight) : inflight[j].mid # m.mid
  <2>1. CASE inflight' = Append(inflight, h) /\ \A i \in 1..Len(inflight) : inflight[i].mid # m.mid
    <3>1. /\ Append(inflight, h) \in Seq(Sessions)
          /\ Len(Append(inflight, h)) = Len(inflight) + 1
          /\ \A i \in 1..Len(inflight) : Append(inflight, h)[i] = inflight[i]
          /\ Append(inflight, h)[Len(inflight) + 1] = h
      BY <1>9, <1>11, AppendFacts
    <3>2. Len(inflight) + 1 \in 1..Len(inflight') /\ Len(inflight') = Len(inflight) + 1
      BY <1>11, <2>1, <3>1
    <3>3. \A i \in 1..Len(inflight') : i \in 1..Len(inflight) \/ i = Len(inflight) + 1
      BY <1>11, <3>2
    <3>4. \A i \in 1..Len(inflight) : i \in 1..Len(inflight')
      BY <1>11, <3>2
    <3>5. \A i \in 1..Len(inflight) : inflight'[i] = inflight[i]
      BY <2>1, <3>1
    <3>6. inflight'[Len(inflight) + 1] = h
      BY <2>1, <3>1
    <3>7. \E i \in 1..Len(inflight') : inflight'[i].mid = m.mid /\ inflight'[i].id = m.id
      BY <1>9, <3>2, <3>6
    <3>8. \A i \in 1..Len(inflight') :
            \/ i \in 1..Len(inflight) /\ inflight'[i] = inflight[i]
            \/ /\ inflight'[i] = h /\ i = Len(inflight) + 1
               /\ \A j \in 1..Len(inflight) : inflight[j].mid # m.mid
      BY <2>1, <3>3, <3>5, <3>6
    <3>9. Len(inflight') \in Nat /\ Len(inflight) <= Len(inflight')
      BY <1>11, <3>2
    <3>10. inflight' \in Seq(Sessions)
      BY <2>1, <3>1
    <3> QED
      BY <3>4, <3>5, <3>7, <3>8, <3>9, <3>10
  <2>2. CASE inflight' = inflight /\ \E i \in 1..Len(inflight) : inflight[i].mid = m.mid
    <3>1. PICK i \in 1..Len(inflight) : inflight[i].mid = m.mid
      BY <2>2
    <3>2. PICK n \in Listed : n.id = inflight[i].id /\ n.mid = inflight[i].mid
      BY <1>1, SessionFacts
    <3>3. inflight[i].id = m.id
      BY <1>5, <3>1, <3>2
    <3> QED
      BY <1>11, <2>2, <3>1, <3>3
  <2> QED
    BY <1>12, <2>1, <2>2
<1>15. LineTypes'
  <2>1. queued' = queued /\ inflight' \in Seq(Sessions)
    BY <1>12, <1>14
  <2> QED
    BY <1>1, <1>10, <1>13, <2>1 DEF LineTypes, Ids
<1>16. ListInv'
  BY <1>1, <1>10, SameList
<1>17. Listed' = Listed
  BY <1>10 DEF Listed, Entries
<1>18. SessionInv'
  <2>1. ASSUME NEW n \in Listed PROVE PassedInv(n)'
    <3>1. PassedInv(n)
      BY <1>1 DEF SessionInv
    <3>2. InSession(n) => InSession(n)'
      BY <1>14 DEF InSession
    <3>3. HasPubrec(n)' <=> HasPubrec(n)
      BY DEF HasPubrec
    <3>4. /\ Answered("PUBACK", n.mid)' => Answered("PUBACK", n.mid)
          /\ Answered("PUBCOMP", n.mid)' => Answered("PUBCOMP", n.mid)
          /\ Answered("PUBREC", n.mid)' => Answered("PUBREC", n.mid) \/ n = m
      BY <1>5, <1>8, <1>13
    <3>5. InSession(m)'
      BY <1>14 DEF InSession
    <3> QED
      BY <1>10, <3>1, <3>2, <3>3, <3>4, <3>5 DEF PassedInv
  <2>2. ASSUME NEW i \in 1..Len(inflight')
        PROVE  \E n \in Listed : /\ n.id = inflight'[i].id /\ n.mid = inflight'[i].mid
                                 /\ n.qos = 2 /\ released'[n.id] = 0
    <3>1. CASE i \in 1..Len(inflight) /\ inflight'[i] = inflight[i]
      BY <1>1, <1>10, <3>1 DEF SessionInv
    <3>2. CASE inflight'[i] = h
      BY <1>4, <1>7, <1>9, <1>10, <3>2
    <3> QED
      BY <1>14, <3>1, <3>2
  <2>3. MaxInflight <= in_quota' + Len(inflight')
    <3>1. MaxInflight <= in_quota + Len(inflight)
      BY <1>1 DEF SessionInv
    <3> QED
      BY <1>10, <1>11, <1>14, <3>1 DEF RoomForAll
  <2>4. \A i, j \in 1..Len(inflight') : i # j => inflight'[i].mid # inflight'[j].mid
    <3> SUFFICES ASSUME NEW i \in 1..Len(inflight'), NEW j \in 1..Len(inflight'), i # j
                 PROVE  inflight'[i].mid # inflight'[j].mid
      OBVIOUS
    <3>1. \/ i \in 1..Len(inflight) /\ inflight'[i] = inflight[i]
          \/ /\ inflight'[i] = h /\ i = Len(inflight) + 1
             /\ \A n \in 1..Len(inflight) : inflight[n].mid # m.mid
      BY <1>14
    <3>2. \/ j \in 1..Len(inflight) /\ inflight'[j] = inflight[j]
          \/ /\ inflight'[j] = h /\ j = Len(inflight) + 1
             /\ \A n \in 1..Len(inflight) : inflight[n].mid # m.mid
      BY <1>14
    <3>3. \A k, n \in 1..Len(inflight) : k # n => inflight[k].mid # inflight[n].mid
      BY <1>1 DEF SessionInv
    <3>4. h.mid = m.mid
      BY <1>9
    <3>5. CASE i \in 1..Len(inflight) /\ j \in 1..Len(inflight)
      BY <1>11, <3>1, <3>2, <3>3, <3>5
    <3>6. CASE i = Len(inflight) + 1 \/ j = Len(inflight) + 1
      BY <1>11, <3>1, <3>2, <3>4, <3>6
    <3> QED
      BY <3>1, <3>2, <3>5, <3>6
  <2> QED
    BY <1>17, <2>1, <2>2, <2>3, <2>4 DEF SessionInv
<1> QED
  BY <1>10, <1>13, <1>15, <1>16, <1>18 DEF DeliveryInv

LEMMA WithoutFacts ==
  ASSUME NEW S, NEW s \in Seq(S), NEW mid
  PROVE  /\ Without(s, mid) \in Seq(S)
         /\ Len(Without(s, mid)) = Cardinality({i \in 1..Len(s) : s[i].mid # mid})
         /\ \A n \in 1..Len(Without(s, mid)) :
              \E i \in 1..Len(s) : s[i].mid # mid /\ Without(s, mid)[n] = s[i]
         /\ (\A i, j \in 1..Len(s) : s[i].mid = s[j].mid => i = j) =>
              \A m, n \in 1..Len(Without(s, mid)) :
                Without(s, mid)[m].mid = Without(s, mid)[n].mid => m = n
         /\ \A i \in 1..Len(s) : s[i].mid # mid =>
              \E n \in 1..Len(Without(s, mid)) : Without(s, mid)[n] = s[i]
<1> DEFINE I == {i \in 1..Len(s) : s[i].mid # mid}
           p == Without(s, mid)
           e == InOrder(I)
<1>1. p = Pick(s, I)
  BY DEF Without
<1>2. I \in SUBSET (1..Len(s))
  OBVIOUS
<1>3. \A i \in 1..Len(s) : s[i].mid # mid <=> i \in I
  OBVIOUS
<1>4. \A i \in I : i \in 1..Len(s) /\ s[i].mid # mid
  OBVIOUS
<1> SUFFICES /\ p \in Seq(S) /\ Len(p) = Cardinality(I)
             /\ \A n \in 1..Len(p) : \E i \in 1..Len(s) : s[i].mid # mid /\ p[n] = s[i]
             /\ (\A i, j \in 1..Len(s) : s[i].mid = s[j].mid => i = j) =>
                  \A m, n \in 1..Len(p) : p[m].mid = p[n].mid => m = n
             /\ \A i \in 1..Len(s) : s[i].mid # mid => \E n \in 1..Len(p) : p[n] = s[i]
  OBVIOUS
<1> HIDE DEF I, p, e
<1>5. /\ p \in Seq(S) /\ Len(p) = Cardinality(I)
      /\ \A n \in 1..Len(p) : e[n] \in I /\ p[n] = s[e[n]]
      /\ \A m, n \in 1..Len(p) : m < n => e[m] < e[n]
      /\ \A i \in I : \E n \in 1..Len(p) : e[n] = i
  <2>1. /\ Pick(s, I) \in Seq(S) /\ Len(Pick(s, I)) = Cardinality(I)
        /\ \A n \in 1..Len(Pick(s, I)) :
             InOrder(I)[n] \in I /\ Pick(s, I)[n] = s[InOrder(I)[n]]
        /\ \A m, n \in 1..Len(Pick(s, I)) : m < n => InOrder(I)[m] < InOrder(I)[n]
        /\ \A i \in I : \E n \in 1..Len(Pick(s, I)) : InOrder(I)[n] = i
    BY <1>2, PickFacts
  <2> QED
    BY <1>1, <2>1 DEF e
<1>6. \A n \in 1..Len(p) : \E i \in 1..Len(s) : s[i].mid # mid /\ p[n] = s[i]
  BY <1>4, <1>5
<1>7. ASSUME \A i, j \in 1..Len(s) : s[i].mid = s[j].mid => i = j,
             NEW m \in 1..Len(p), NEW n \in 1..Len(p), p[m].mid = p[n].mid
      PROVE  m = n
  <2>1. e[m] = e[n] /\ e[m] \in 1..Len(s)
    BY <1>4, <1>5, <1>7
  <2>2. ~(m < n) /\ ~(n < m)
    BY <1>5, <2>1
  <2> QED
    BY <2>2
<1>8. \A i \in 1..Len(s) : s[i].mid # mid => \E n \in 1..Len(p) : p[n] = s[i]
  BY <1>3, <1>5
<1>9. (\A i, j \in 1..Len(s) : s[i].mid = s[j].mid => i = j) =>
        \A m, n \in 1..Len(p) : p[m].mid = p[n].mid => m = n
  BY <1>7
<1> QED
  BY <1>5, <1>6, <1>8, <1>9

LEMMA WithoutFrom ==
  ASSUME NEW S, NEW s \in Seq(S), NEW mid, NEW n \in 1..Len(Without(s, mid))
  PROVE  \E i \in 1..Len(s) : s[i].mid # mid /\ Without(s, mid)[n] = s[i]
<1>1. \A k \in 1..Len(Without(s, mid)) :
        \E i \in 1..Len(s) : s[i].mid # mid /\ Without(s, mid)[k] = s[i]
  BY WithoutFacts
<1> QED
  BY <1>1

LEMMA WithoutKeeps ==
  ASSUME NEW S, NEW s \in Seq(S), NEW mid, NEW i \in 1..Len(s), s[i].mid # mid
  PROVE  \E n \in 1..Len(Without(s, mid)) : Without(s, mid)[n] = s[i]
<1>1. \A k \in 1..Len(s) : s[k].mid # mid =>
        \E n \in 1..Len(Without(s, mid)) : Without(s, mid)[n] = s[k]
  BY WithoutFacts
<1> QED
  BY <1>1

LEMMA WithoutUnique ==
  ASSUME NEW S, NEW s \in Seq(S), NEW mid,
         \A i, j \in 1..Len(s) : s[i].mid = s[j].mid => i = j
  PROVE  \A m, n \in 1..Len(Without(s, mid)) :
           Without(s, mid)[m].mid = Without(s, mid)[n].mid => m = n
BY WithoutFacts

(* The broker reads PUBREL: what the session holds is passed on.           *)
LEMMA PubrelFrame ==
  ASSUME RoomForAll, DeliveryInv, NEW p, HandlePubrel(p)
  PROVE  /\ released' = [k \in Ids |-> released[k] + Cardinality({k} \cap
                           {inflight[i].id : i \in {j \in 1..Len(inflight) :
                                                      inflight[j].mid = p.mid}})]
         /\ inflight' = Without(inflight, p.mid) /\ queued' = <<>>
         /\ in_quota' = Up(in_quota, MaxInflight)
         /\ Reply(<<Ack("PUBCOMP", p.mid)>>)
<1> DEFINE n == Lower(Len(queued), MaxInflight - Lower(MaxInflight, Len(inflight)))
<1>1. LineTypes /\ queued = <<>> /\ in_quota \in Nat /\ Len(inflight) \in Nat
  BY CountFacts DEF DeliveryInv, LineTypes
<1>2. n = 0
  <2>1. Len(queued) = 0
    BY <1>1
  <2>2. MaxInflight - Lower(MaxInflight, Len(inflight)) >= 0
    BY <1>1 DEF Lower, RoomForAll
  <2> QED
    BY <2>1, <2>2, <1>1 DEF Lower, RoomForAll
<1>3. SubSeq(queued, 1, n) = <<>> /\ SubSeq(queued, n + 1, Len(queued)) = <<>>
  <2>1. Len(queued) = 0
    BY <1>1
  <2> QED
    BY <1>2, <2>1, SubSeqEmpty
<1>4. in_quota - Lower(in_quota, n) = in_quota
  BY <1>1, <1>2 DEF Lower
<1>5. Map(LAMBDA m : Ack("PUBREC", m.mid), SubSeq(queued, 1, n)) = <<>>
  <2>1. \A q : q = <<>> => Map(LAMBDA m : Ack("PUBREC", m.mid), q) = <<>>
    <3> SUFFICES ASSUME NEW q, q = <<>>
                 PROVE  [i \in 1..Len(q) |-> Ack("PUBREC", q[i].mid)] = <<>>
      BY DEF Map
    <3>1. 1..Len(q) = {}
      OBVIOUS
    <3> QED
      BY <3>1
  <2> QED
    BY <1>3, <2>1
<1>6. Without(inflight, p.mid) \o <<>> = Without(inflight, p.mid)
  <2>1. Without(inflight, p.mid) \in Seq(Sessions)
    BY <1>1, WithoutFacts DEF LineTypes
  <2> QED
    BY <2>1, ConcatEmptySeq
<1>7. Append(<<>>, Ack("PUBCOMP", p.mid)) = <<Ack("PUBCOMP", p.mid)>>
  OBVIOUS
<1>8. inflight' = Without(inflight, p.mid) \o SubSeq(queued, 1, n)
  BY DEF HandlePubrel
<1>9. queued' = SubSeq(queued, n + 1, Len(queued))
  BY DEF HandlePubrel
<1>10. in_quota' = Up(in_quota - Lower(in_quota, n), MaxInflight)
  BY DEF HandlePubrel
<1>11. Reply(Append(Map(LAMBDA m : Ack("PUBREC", m.mid), SubSeq(queued, 1, n)),
                    Ack("PUBCOMP", p.mid)))
  BY DEF HandlePubrel
<1>12. released' = [k \in Ids |-> released[k] + Cardinality({k} \cap
                           {inflight[i].id : i \in {j \in 1..Len(inflight) :
                                                      inflight[j].mid = p.mid}})]
  BY DEF HandlePubrel
<1> HIDE DEF n
<1> QED
  BY <1>3, <1>4, <1>5, <1>6, <1>7, <1>8, <1>9, <1>10, <1>11, <1>12

LEMMA PubrelStep ==
  ASSUME RoomForAll, DeliveryInv, up # <<>>, up' = Tail(up), UNCHANGED <<client, breaks>>,
         Head(up).kind = "PUBREL", HandlePubrel(Head(up))
  PROVE  /\ DeliveryInv'
         /\ \/ UNCHANGED <<given, released, acked>>
            \/ \E k \in DOMAIN given : Abstract!Release(k)
<1>1. LineTypes /\ ListInv /\ LineInv /\ SessionInv
  BY DEF DeliveryInv
<1>2. up \in Seq(UpPackets) /\ down \in Seq(DownPackets)
  BY <1>1 DEF LineTypes
<1>3. Head(up) = up[1] /\ 1 \in 1..Len(up) /\ up[1] \in UpPackets
  BY <1>2, TailFacts
<1>4. PICK m \in Listed : m.mid = up[1].mid /\ HasPubrec(m)
  BY <1>1, <1>3 DEF LineInv, UpInv
<1> DEFINE x == Ack("PUBCOMP", m.mid)
           At == {j \in 1..Len(inflight) : inflight[j].mid = m.mid}
           hit == {inflight[i].id : i \in At}
<1>5. /\ m \in Messages /\ m.id \in Ids /\ m.id \notin acked /\ m.qos = given[m.id]
      /\ \A n \in Listed : n \in Messages /\ n.id \in Ids
      /\ \A n \in Listed : m.id = n.id \/ m.mid = n.mid => m = n
  BY <1>1, EntryFacts
<1>6. m.qos = 2
  <2>1. m.qos # 1
    BY <1>1, <1>4 DEF LineInv, MessageInv
  <2> QED
    BY <1>5, <2>1 DEF Messages
<1>7. x \in DownPackets /\ x.mid = m.mid /\ x.kind = "PUBCOMP" /\ DownInv(Listed, x)
  BY <1>4, <1>5 DEF DownPackets, Ack, Pkt, Messages, DownInv
<1>8. /\ released' = [k \in Ids |-> released[k] + Cardinality({k} \cap hit)]
      /\ inflight' = Without(inflight, m.mid) /\ queued' = <<>>
      /\ in_quota' = Up(in_quota, MaxInflight)
      /\ Reply(<<x>>)
  <2> DEFINE p == Head(up)
  <2>1. p.mid = m.mid
    BY <1>3, <1>4
  <2> HIDE DEF p
  <2>2. /\ released' = [k \in Ids |-> released[k] + Cardinality({k} \cap
                            {inflight[i].id : i \in {j \in 1..Len(inflight) :
                                                       inflight[j].mid = p.mid}})]
        /\ inflight' = Without(inflight, p.mid) /\ queued' = <<>>
        /\ in_quota' = Up(in_quota, MaxInflight)
        /\ Reply(<<Ack("PUBCOMP", p.mid)>>)
    <3>1. HandlePubrel(p)
      BY DEF p
    <3> QED
      BY <3>1, PubrelFrame
  <2> QED
    BY <2>1, <2>2
<1>9. UNCHANGED <<given, out, last_mid, sock, acked, clean>>
  BY DEF client
<1>10. /\ Len(inflight) \in Nat /\ in_quota \in Nat /\ inflight \in Seq(Sessions)
       /\ Len(given) \in Nat /\ Len(released) = Len(given)
       /\ \A k \in Ids : released[k] \in Nat
       /\ released = [k \in Ids |-> released[k]]
  BY <1>1, CountFacts DEF LineTypes
<1> HIDE DEF x
<1>11. /\ LineInv' /\ up' \in Seq(UpPackets) /\ down' \in Seq(DownPackets)
       /\ \A kind, mid : Answered(kind, mid)' => \/ Answered(kind, mid)
                                                 \/ x.kind = kind /\ x.mid = mid
  <2>1. down' = IF sock = "none" \/ \E i \in 2..Len(up) : up[i].kind = "CONNECT"
                  THEN down ELSE Append(down, x)
    BY <1>2, <1>7, <1>8, ReplyOne
  <2> QED
    BY <1>1, <1>2, <1>3, <1>4, <1>7, <1>9, <2>1, AnswerLine
<1>12. \A i \in At : inflight[i].id = m.id /\ \A j \in At : j = i
  <2> SUFFICES ASSUME NEW i \in At PROVE inflight[i].id = m.id /\ \A j \in At : j = i
    OBVIOUS
  <2>1. PICK n \in Listed : n.id = inflight[i].id /\ n.mid = inflight[i].mid
    BY <1>1, SessionFacts
  <2>2. n = m
    BY <1>5, <2>1
  <2>3. \A j \in At : j = i
    BY <1>1, SessionFacts
  <2> QED
    BY <2>1, <2>2, <2>3
(* Either the session holds the message, in one place, or not. *)
<1>13. \/ At = {} /\ hit = {} /\ ~InSession(m)
       \/ At # {} /\ hit = {m.id} /\ InSession(m) /\ released[m.id] = 0
  <2>1. CASE At = {}
    BY <2>1 DEF InSession
  <2>2. CASE At # {}
    <3>1. PICK i \in At : TRUE
      BY <2>2
    <3>2. hit = {m.id}
      BY <1>12, <3>1
    <3>3. InSession(m)
      BY <1>12, <3>1 DEF InSession
    <3>4. PICK n \in Listed : n.id = inflight[i].id /\ released[n.id] = 0
      BY <1>1, SessionFacts
    <3> QED
      BY <1>12, <2>2, <3>1, <3>2, <3>3, <3>4
  <2> QED
    BY <2>1, <2>2
<1>14. \A k \in Ids : released'[k] = released[k] + IF k \in hit THEN 1 ELSE 0
  <2> SUFFICES ASSUME NEW k \in Ids
               PROVE  released'[k] = released[k] + IF k \in hit THEN 1 ELSE 0
    OBVIOUS
  <2> HIDE DEF hit
  <2>1. released'[k] = released[k] + Cardinality({k} \cap hit)
    BY <1>8
  <2>2. CASE k \in hit
    <3>1. {k} \cap hit = {k}
      BY <2>2
    <3> QED
      BY <2>1, <2>2, <3>1, FS_Singleton
  <2>3. CASE k \notin hit
    <3>1. {k} \cap hit = {}
      BY <2>3
    <3> QED
      BY <2>1, <2>3, <3>1, FS_EmptySet
  <2> QED
    BY <2>2, <2>3
<1> HIDE DEF hit
<1>15. released' \in Seq(Nat) /\ Len(released') = Len(released)
  <2> DEFINE f == [k \in 1..Len(given) |-> released[k] + Cardinality({k} \cap hit)]
  <2>1. released' = f
    BY <1>8 DEF Ids
  <2>2. \A k \in 1..Len(given) : released'[k] \in Nat
    BY <1>10, <1>14 DEF Ids
  <2>3. f \in [1..Len(given) -> Nat]
    BY <2>1, <2>2
  <2> HIDE DEF f
  <2>4. f \in Seq(Nat) /\ Len(f) = Len(given)
    BY <1>10, <2>3, SequenceOf
  <2> QED
    BY <1>10, <2>1, <2>4
<1>16. UNCHANGED released \/ Abstract!Release(m.id)
  <2>1. CASE hit = {}
    <3>1. \A k \in Ids : released'[k] = released[k]
      BY <1>10, <1>14, <2>1
    <3>2. released \in Seq(Nat)
      BY <1>1 DEF LineTypes
    <3> QED
      BY <1>10, <1>15, <3>1, <3>2, SeqEqual DEF Ids
  <2>2. CASE hit = {m.id} /\ released[m.id] = 0
    <3> DEFINE r == [released EXCEPT ![m.id] = @ + 1]
    <3>1. released \in Seq(Nat) /\ m.id \in 1..Len(released) /\ released[m.id] + 1 \in Nat
      BY <1>1, <1>5, <1>10 DEF LineTypes, Ids
    <3>2. /\ r \in Seq(Nat) /\ Len(r) = Len(released)
          /\ \A k \in 1..Len(released) : r[k] = IF k = m.id THEN released[m.id] + 1 ELSE released[k]
      BY <3>1, ExceptSeq
    <3> HIDE DEF r
    <3>3. \A k \in 1..Len(released') : released'[k] = r[k]
      <4> SUFFICES ASSUME NEW k \in 1..Len(released') PROVE released'[k] = r[k]
        OBVIOUS
      <4>1. k \in Ids /\ k \in 1..Len(released)
        BY <1>10, <1>15 DEF Ids
      <4>2. released[k] \in Nat
        BY <3>1, <4>1, ElementOfSeq
      <4>3. released'[k] = IF k = m.id THEN released[k] + 1 ELSE released[k]
        BY <1>14, <2>2, <4>1, <4>2
      <4> QED
        BY <3>2, <4>1, <4>3
    <3>4. released' = r
      BY <1>15, <3>2, <3>3, SeqEqual
    <3> QED
      BY <1>5, <1>9, <2>2, <3>4 DEF Abstract!Release, r
  <2> QED
    BY <1>13, <2>1, <2>2
<1>17. LineTypes'
  <2>1. inflight' \in Seq(Sessions)
    BY <1>8, <1>10, WithoutFacts
  <2>2. in_quota' \in Nat
    BY <1>8, <1>10 DEF Up, RoomForAll
  <2> QED
    BY <1>1, <1>8, <1>9, <1>11, <1>15, <2>1, <2>2 DEF LineTypes, Ids
<1>18. ListInv'
  BY <1>1, <1>9, SameList
<1>19. Listed' = Listed
  BY <1>9 DEF Listed, Entries
<1>20. inflight' \in Seq(Sessions) /\ Len(inflight') \in Nat
  <2>1. inflight' \in Seq(Sessions)
    BY <1>8, <1>10, WithoutFacts
  <2> QED
    BY <2>1, LenProperties
<1>21. /\ \A i \in 1..Len(inflight) : inflight[i].mid # m.mid =>
            \E n \in 1..Len(inflight') : inflight'[n] = inflight[i]
       /\ \A n \in 1..Len(inflight') :
            \E i \in 1..Len(inflight) : inflight[i].mid # m.mid /\ inflight'[n] = inflight[i]
       /\ \A j, n \in 1..Len(inflight') : inflight'[j].mid = inflight'[n].mid => j = n
  <2> DEFINE w == Without(inflight, m.mid)
  <2>0. inflight \in Seq(Sessions)
    BY <1>10
  <2>1. ASSUME NEW i \in 1..Len(inflight), inflight[i].mid # m.mid
        PROVE  \E n \in 1..Len(w) : w[n] = inflight[i]
    BY <2>0, <2>1, WithoutKeeps
  <2>2. ASSUME NEW n \in 1..Len(w)
        PROVE  \E i \in 1..Len(inflight) : inflight[i].mid # m.mid /\ w[n] = inflight[i]
    BY <2>0, WithoutFrom
  <2>3. \A i, j \in 1..Len(inflight) : inflight[i].mid = inflight[j].mid => i = j
    BY <1>1, SessionFacts
  <2>4. \A j, n \in 1..Len(w) : w[j].mid = w[n].mid => j = n
    BY <2>0, <2>3, WithoutUnique
  <2>5. w = inflight'
    BY <1>8
  <2> HIDE DEF w
  <2> QED
    BY <2>1, <2>2, <2>4, <2>5
<1>22. SessionInv'
  <2>1. ASSUME NEW n \in Listed PROVE PassedInv(n)'
    <3>1. PassedInv(n)
      BY <1>1 DEF SessionInv
    <3>2. n # m => (InSession(n) => InSession(n)')
      <4> SUFFICES ASSUME n # m, NEW i \in 1..Len(inflight),
                          inflight[i].id = n.id, inflight[i].mid = n.mid
                   PROVE  InSession(n)'
        BY DEF InSession
      <4>1. inflight[i].mid # m.mid
        BY <1>5
      <4> QED
        BY <1>21, <4>1 DEF InSession
    <3>3. HasPubrec(n)' <=> HasPubrec(n)
      BY DEF HasPubrec
    <3>4. /\ Answered("PUBACK", n.mid)' => Answered("PUBACK", n.mid)
          /\ Answered("PUBCOMP", n.mid)' => Answered("PUBCOMP", n.mid) \/ n = m
          /\ Answered("PUBREC", n.mid)' => Answered("PUBREC", n.mid)
      BY <1>5, <1>7, <1>11
    <3>5. /\ released[n.id] \in Nat /\ released'[n.id] >= released[n.id]
          /\ n # m => released'[n.id] = released[n.id]
      <4>1. /\ released[n.id] \in Nat
            /\ released'[n.id] = released[n.id] + IF n.id \in hit THEN 1 ELSE 0
        BY <1>5, <1>10, <1>14
      <4>2. n # m => n.id \notin hit
        BY <1>5, <1>13
      <4> QED
        BY <4>1, <4>2
    <3>6. CASE n = m
      <4>1. released'[m.id] > 0
        BY <1>4, <1>5, <1>6, <1>10, <1>13, <1>14, <3>1, <3>6 DEF PassedInv
      <4>2. ~Answered("PUBREC", m.mid)
        <5> SUFFICES ASSUME NEW i \in 1..Len(down), down[i].mid = m.mid, down[i].kind = "PUBREC"
                     PROVE  FALSE
          BY DEF Answered
        <5>1. \A j \in 1..Len(up) : up[j].mid # down[i].mid
          BY <1>1 DEF LineInv, AnswersLast
        <5> QED
          BY <1>3, <1>4, <5>1
      <4> QED
        BY <1>4, <3>3, <3>4, <3>6, <4>1, <4>2 DEF PassedInv
    <3>7. CASE n # m
      BY <3>1, <3>2, <3>3, <3>4, <3>5, <3>7 DEF PassedInv
    <3> QED
      BY <3>6, <3>7
  <2>2. ASSUME NEW i \in 1..Len(inflight')
        PROVE  \E n \in Listed : /\ n.id = inflight'[i].id /\ n.mid = inflight'[i].mid
                                 /\ n.qos = 2 /\ released'[n.id] = 0
    <3>1. PICK j \in 1..Len(inflight) : inflight[j].mid # m.mid /\ inflight'[i] = inflight[j]
      BY <1>21
    <3>2. PICK n \in Listed : /\ n.id = inflight[j].id /\ n.mid = inflight[j].mid
                              /\ n.qos = 2 /\ released[n.id] = 0
      BY <1>1, <3>1 DEF SessionInv
    <3>3. n.id \notin hit
      BY <1>5, <1>13, <3>1, <3>2
    <3>4. released'[n.id] = 0
      BY <1>5, <1>14, <3>2, <3>3
    <3> QED
      BY <3>1, <3>2, <3>4
  <2>3. MaxInflight <= in_quota' + Len(inflight')
    <3>1. MaxInflight <= in_quota + Len(inflight)
      BY <1>1 DEF SessionInv
    <3>2. Len(inflight') >= Len(inflight) - 1
      <4> DEFINE I == {i \in 1..Len(inflight) : inflight[i].mid # m.mid}
      <4>1. Len(inflight') = Cardinality(I)
        <5>1. Len(Without(inflight, m.mid)) = Cardinality(I)
          BY <1>10, WithoutFacts
        <5> QED
          BY <1>8, <5>1
      <4>2. IsFiniteSet(1..Len(inflight)) /\ Cardinality(1..Len(inflight)) = Len(inflight)
        BY <1>10, IntervalFacts
      <4>3. CASE At = {}
        <5>1. I = 1..Len(inflight)
          BY <4>3
        <5> HIDE DEF I
        <5> QED
          BY <1>10, <4>1, <4>2, <5>1
      <4>4. CASE At # {}
        <5>1. PICK i \in At : TRUE
          BY <4>4
        <5>2. I = (1..Len(inflight)) \ {i}
          BY <1>12, <5>1
        <5>3. Cardinality(I) = Len(inflight) - 1
          BY <4>2, <5>1, <5>2, FS_RemoveElement
        <5> QED
          BY <1>10, <4>1, <5>3
      <4> QED
        BY <4>3, <4>4
    <3> QED
      BY <1>8, <1>10, <1>20, <3>1, <3>2 DEF Up, RoomForAll
  <2>4. \A i, j \in 1..Len(inflight') : i # j => inflight'[i].mid # inflight'[j].mid
    BY <1>21
  <2> QED
    BY <1>19, <2>1, <2>2, <2>3, <2>4 DEF SessionInv
<1> QED
  BY <1>5, <1>9, <1>11, <1>16, <1>17, <1>18, <1>22 DEF DeliveryInv, Ids

(* The broker reads CONNECT: the session is taken up again as it was.      *)
LEMMA ConnectFrame ==
  ASSUME RoomForAll, DeliveryInv, HandleConnect
  PROVE  /\ inflight' = inflight /\ queued' = <<>> /\ in_quota' \in Nat
         /\ MaxInflight <= in_quota' + Len(inflight)
         /\ Reply(<<Bare("CONNACK")>>) /\ UNCHANGED released
<1>1. /\ LineTypes /\ queued = <<>> /\ clean = FALSE /\ Len(inflight) \in Nat
      /\ inflight \in Seq(Sessions)
  BY CountFacts DEF DeliveryInv, LineTypes
<1>2. inflight \o queued = inflight /\ inflight \o <<>> = inflight
  BY <1>1, ConcatEmptySeq
<1>3. CASE inflight = <<>>
  BY <1>1, <1>2, <1>3 DEF HandleConnect, RoomForAll
<1>4. CASE inflight # <<>>
  <2> DEFINE quota == MaxInflight - Lower(MaxInflight, Len(inflight))
             n == Lower(quota, Len(queued))
  <2>1. ResumeSession
    BY <1>1, <1>2, <1>4 DEF HandleConnect
  <2>2. quota \in Nat /\ Len(queued) = 0 /\ MaxInflight <= quota + Len(inflight)
    BY <1>1 DEF Lower, RoomForAll
  <2>3. n = 0
    BY <2>2 DEF Lower
  <2>4. SubSeq(queued, 1, n) = <<>> /\ SubSeq(queued, n + 1, Len(queued)) = <<>>
    BY <2>2, <2>3, SubSeqEmpty
  <2>5. /\ inflight' = inflight \o SubSeq(queued, 1, n)
        /\ queued' = SubSeq(queued, n + 1, Len(queued))
        /\ in_quota' = quota - n
    BY <2>1 DEF ResumeSession
  <2> HIDE DEF quota, n
  <2>6. inflight' = inflight /\ queued' = <<>> /\ in_quota' = quota
    BY <1>2, <2>2, <2>3, <2>4, <2>5
  <2> QED
    BY <2>2, <2>6 DEF HandleConnect
<1> QED
  BY <1>3, <1>4

LEMMA ConnectLine ==
  ASSUME up \in Seq(UpPackets), down \in Seq(DownPackets), LineInv, \A m \in Listed : m.mid # 0,
         up # <<>>, up' = Tail(up), UNCHANGED <<sock, out>>, up[1].kind = "CONNECT",
         sock \in {"none", "connected", "active"},
         Reply(<<Bare("CONNACK")>>)
  PROVE  /\ LineInv' /\ up' \in Seq(UpPackets) /\ down' \in Seq(DownPackets)
         /\ \A kind, mid : kind # "CONNACK" /\ Answered(kind, mid)' => Answered(kind, mid)
<1> DEFINE x == Bare("CONNACK")
<1>1. Listed' = Listed
  BY DEF Listed, Entries
<1>2. OneEach /\ AnswersLast(down) /\ ConnectionInv
  BY DEF LineInv
<1>3. /\ OneEach' /\ up' \in Seq(UpPackets) /\ 1 \in 1..Len(up)
      /\ ~(\E i \in 2..Len(up) : up[i].kind = "CONNECT") <=> NoConnect'
  BY <1>2, ReadFacts
<1>4. x \in DownPackets /\ x.kind = "CONNACK" /\ x.mid = 0
  BY DEF DownPackets, Bare, Pkt
<1>5. \A i \in 1..Len(up') : UpInv(Listed, up[i])'
  <2> SUFFICES ASSUME NEW i \in 1..Len(up') PROVE UpInv(Listed, up'[i])
    BY <1>1
  <2>1. PICK j \in 1..Len(up) : up'[i] = up[j]
    BY ReadFacts
  <2> QED
    BY <2>1 DEF LineInv
<1>6. down = <<>> /\ sock # "active"
  BY <1>2, <1>3 DEF ConnectionInv, NoConnect
<1>7. down' = IF sock = "none" \/ ~NoConnect' THEN <<>> ELSE <<x>>
  <2>1. down' = IF sock = "none" \/ \E i \in 2..Len(up) : up[i].kind = "CONNECT"
                  THEN down ELSE Append(down, x)
    BY <1>4, ReplyOne
  <2> QED
    BY <1>3, <1>6, <2>1
<1> HIDE DEF x
<1>8. /\ down' \in Seq(DownPackets) /\ \A i \in 1..Len(down') : i = 1 /\ down'[i] = x
      /\ down' # <<>> <=> sock # "none" /\ NoConnect'
      /\ sock = "none" \/ ~NoConnect' \/ down'[1] = x
  BY <1>4, <1>7
<1>9. \A m \in Listed : MessageInv(m)'
  <2> SUFFICES ASSUME NEW m \in Listed PROVE MessageInv(m)'
    OBVIOUS
  <2>1. MessageInv(m)
    BY DEF LineInv
  <2>2. /\ InUp(m.mid)' => InUp(m.mid)
        /\ PublishInUp(m.mid)' => PublishInUp(m.mid)
        /\ OnLine(m.mid)' => OnLine(m.mid)
    BY ReadFacts
  <2>3. ~InDown(m.mid)'
    BY <1>4, <1>8 DEF InDown
  <2>4. (HasPubrec(m)' <=> HasPubrec(m)) /\ (ToRetry(m)' <=> ToRetry(m))
    BY DEF HasPubrec, ToRetry
  <2> QED
    BY <2>1, <2>2, <2>3, <2>4 DEF MessageInv
<1>10. AnswersLast(down)'
  BY <1>4, <1>8 DEF AnswersLast
<1>11. ConnectionInv'
  <2>1. sock = "connected" \/ (sock = "none" /\ down' = <<>>)
    BY <1>6, <1>8
  <2>2. \A i \in 1..Len(down') : i = 1 /\ down' # <<>>
    BY <1>8
  <2> QED
    BY <1>4, <1>8, <2>1, <2>2 DEF ConnectionInv
<1>12. \A i \in 1..Len(down') : DownInv(Listed, down[i])'
  <2> SUFFICES ASSUME NEW i \in 1..Len(down') PROVE DownInv(Listed, down'[i])
    BY <1>1
  <2> QED
    BY <1>4, <1>8 DEF DownInv
<1>13. \A kind, mid : kind # "CONNACK" /\ Answered(kind, mid)' => Answered(kind, mid)
  BY <1>4, <1>8 DEF Answered
<1> QED
  BY <1>1, <1>3, <1>5, <1>8, <1>9, <1>10, <1>11, <1>12, <1>13 DEF LineInv

LEMMA ConnectStep ==
  ASSUME RoomForAll, DeliveryInv, up # <<>>, up' = Tail(up), UNCHANGED <<client, breaks>>,
         Head(up).kind = "CONNECT", HandleConnect
  PROVE  DeliveryInv' /\ UNCHANGED <<given, released, acked>>
<1>1. LineTypes /\ ListInv /\ LineInv /\ SessionInv
  BY DEF DeliveryInv
<1>2. up \in Seq(UpPackets) /\ down \in Seq(DownPackets)
  BY <1>1 DEF LineTypes
<1>3. UNCHANGED <<given, out, last_mid, sock, acked, clean>> /\ Head(up) = up[1]
  BY <1>2, TailFacts DEF client
<1>4. /\ inflight' = inflight /\ queued' = <<>> /\ in_quota' \in Nat
      /\ MaxInflight <= in_quota' + Len(inflight)
      /\ Reply(<<Bare("CONNACK")>>) /\ UNCHANGED released
  BY ConnectFrame
<1>5. \A m \in Listed : m.mid # 0
  BY <1>1, EntryFacts DEF Messages
<1>6. /\ LineInv' /\ up' \in Seq(UpPackets) /\ down' \in Seq(DownPackets)
      /\ \A kind, mid : kind # "CONNACK" /\ Answered(kind, mid)' => Answered(kind, mid)
  BY <1>1, <1>2, <1>3, <1>4, <1>5, ConnectLine DEF LineTypes
<1>7. LineTypes'
  BY <1>1, <1>3, <1>4, <1>6 DEF LineTypes, Ids
<1>8. ListInv'
  BY <1>1, <1>3, SameList
<1>9. Listed' = Listed
  BY <1>3 DEF Listed, Entries
<1>10. SessionInv'
  <2>1. ASSUME NEW n \in Listed PROVE PassedInv(n)'
    <3>1. PassedInv(n)
      BY <1>1 DEF SessionInv
    <3>2. (InSession(n) <=> InSession(n)') /\ (HasPubrec(n)' <=> HasPubrec(n))
      BY <1>4 DEF InSession, HasPubrec
    <3>3. /\ Answered("PUBACK", n.mid)' => Answered("PUBACK", n.mid)
          /\ Answered("PUBCOMP", n.mid)' => Answered("PUBCOMP", n.mid)
          /\ Answered("PUBREC", n.mid)' => Answered("PUBREC", n.mid)
      BY <1>6
    <3> QED
      BY <1>4, <3>1, <3>2, <3>3 DEF PassedInv
  <2> QED
    BY <1>1, <1>4, <1>9, <2>1 DEF SessionInv
<1> QED
  BY <1>3, <1>4, <1>6, <1>7, <1>8, <1>10 DEF DeliveryInv

AbstractStep == Abstract!Next \/ UNCHANGED <<given, released, acked>>

LEMMA BrokerStep ==
  ASSUME RoomForAll, DeliveryInv, BrokerRead \/ BrokerWrite
  PROVE  DeliveryInv' /\ AbstractStep
<1>1. CASE BrokerRead
  <2>1. up # <<>> /\ up' = Tail(up) /\ UNCHANGED <<client, breaks>>
    BY <1>1 DEF BrokerRead
  <2>2. CASE Head(up).kind = "CONNECT" /\ HandleConnect
    BY <2>1, <2>2, ConnectStep DEF AbstractStep
  <2>3. CASE Head(up).kind = "PUBLISH" /\ Head(up).qos = 1 /\ HandlePublish1(Head(up))
    BY <2>1, <2>3, Publish1Step DEF AbstractStep, Abstract!Next
  <2>4. CASE Head(up).kind = "PUBLISH" /\ Head(up).qos = 2 /\ HandlePublish2(Head(up))
    BY <2>1, <2>4, Publish2Step DEF AbstractStep
  <2>5. CASE Head(up).kind = "PUBREL" /\ HandlePubrel(Head(up))
    BY <2>1, <2>5, PubrelStep DEF AbstractStep, Abstract!Next
  <2> QED
    BY <1>1, <2>2, <2>3, <2>4, <2>5 DEF BrokerRead
<1>2. CASE BrokerWrite
  BY <1>2 DEF BrokerWrite, DeliveryInv, LineTypes
<1> QED
  BY <1>1, <1>2

-----------------------------------------------------------------------------
(* The client.                                                             *)
Same(m, n) == m.id = n.id /\ m.mid = n.mid /\ m.qos = n.qos

LEMMA ListKept ==
  ASSUME NEW q \in Seq(Messages), Unique(q), Len(out') = Len(q),
         \A i \in 1..Len(q) : Same(q[i], out'[i]),
         \A m \in Entries(q) : m.id \in Ids' /\ m.qos = given'[m.id],
         \A k \in Ids' : k \in acked' <=> \A i \in 1..Len(q) : q[i].id # k
  PROVE  ListInv'
<1>1. Unique(out)'
  BY DEF Unique, Same
<1>2. KeptUntilAcked'
  BY DEF KeptUntilAcked, Same
<1>3. \A m \in Listed' : m.id \in Ids' /\ m.qos = given'[m.id]
  <2> SUFFICES ASSUME NEW i \in 1..Len(out')
               PROVE  out'[i].id \in Ids' /\ out'[i].qos = given'[out'[i].id]
    BY DEF Listed, Entries
  <2>1. q[i] \in Entries(q)
    BY DEF Entries
  <2> QED
    BY <2>1 DEF Same
<1> QED
  BY <1>1, <1>2, <1>3 DEF ListInv

(* The session does not change; an entry keeps its state, or holds what    *)
(* the session holds, or is new.                                           *)
LEMMA SessionKept ==
  ASSUME LineTypes, ListInv, SessionInv, UNCHANGED <<inflight, in_quota>>,
         \A k \in Ids : released'[k] = released[k],
         \A kind, mid : kind # "CONNACK" /\ Answered(kind, mid)' => Answered(kind, mid),
         \A n \in Listed' :
           \/ \E m \in Listed : /\ Same(m, n)
                                /\ \/ HasPubrec(n) <=> HasPubrec(m)
                                   \/ HasPubrec(n) /\ InSession(m)
           \/ ~HasPubrec(n) /\ released'[n.id] = 0 /\ ~InDown(n.mid),
         \A m \in Listed : m.qos = 2 /\ released[m.id] = 0 => \E n \in Listed' : Same(m, n)
  PROVE  SessionInv'
<1>1. \A m \in Listed : m.id \in Ids
  BY EntryFacts
<1>2. ASSUME NEW n \in Listed' PROVE PassedInv(n)'
  <2>1. /\ Answered("PUBACK", n.mid)' => Answered("PUBACK", n.mid)
        /\ Answered("PUBCOMP", n.mid)' => Answered("PUBCOMP", n.mid)
        /\ Answered("PUBREC", n.mid)' => Answered("PUBREC", n.mid)
    OBVIOUS
  <2>2. HasPubrec(n)' <=> HasPubrec(n)
    BY DEF HasPubrec
  <2>3. CASE ~HasPubrec(n) /\ released'[n.id] = 0 /\ ~InDown(n.mid)
    <3>1. /\ ~Answered("PUBACK", n.mid) /\ ~Answered("PUBCOMP", n.mid)
          /\ ~Answered("PUBREC", n.mid)
      BY <2>3 DEF Answered, InDown
    <3> QED
      BY <2>1, <2>2, <2>3, <3>1 DEF PassedInv
  <2>4. CASE \E m \in Listed : /\ Same(m, n)
                               /\ \/ HasPubrec(n) <=> HasPubrec(m)
                                  \/ HasPubrec(n) /\ InSession(m)
    <3>1. PICK m \in Listed : /\ Same(m, n)
                              /\ \/ HasPubrec(n) <=> HasPubrec(m)
                                 \/ HasPubrec(n) /\ InSession(m)
      BY <2>4
    <3>2. PassedInv(m) /\ m.id = n.id /\ m.mid = n.mid /\ m.qos = n.qos
      BY <3>1 DEF SessionInv, Same
    <3>3. InSession(n)' <=> InSession(m)
      BY <3>2 DEF InSession
    <3>4. released'[n.id] = released[m.id]
      BY <1>1, <3>2
    <3> QED
      BY <2>1, <2>2, <3>1, <3>2, <3>3, <3>4 DEF PassedInv
  <2> QED
    BY <2>3, <2>4
<1>3. ASSUME NEW i \in 1..Len(inflight)
      PROVE  \E n \in Listed' : /\ n.id = inflight[i].id /\ n.mid = inflight[i].mid /\ n.qos = 2
                                /\ released'[n.id] = 0
  <2>1. PICK m \in Listed : /\ m.id = inflight[i].id /\ m.mid = inflight[i].mid /\ m.qos = 2
                            /\ released[m.id] = 0
    BY DEF SessionInv
  <2>2. PICK n \in Listed' : Same(m, n)
    BY <2>1
  <2> QED
    BY <1>1, <2>1, <2>2 DEF Same
<1> QED
  BY <1>2, <1>3 DEF SessionInv

(* All that is listed fits in what the client may have in flight.          *)
LEMMA ListFits ==
  ASSUME RoomForAll, LineTypes, ListInv
  PROVE  Len(out) \in Nat /\ Len(out) <= SendMaximum
<1> DEFINE n == Len(out)
           f == [i \in 1..n |-> out[i].id]
<1>1. n \in Nat /\ Len(given) \in Nat
  BY LenProperties DEF LineTypes
<1>2. /\ IsFiniteSet(Ids) /\ Cardinality(Ids) = Len(given)
      /\ IsFiniteSet(1..n) /\ Cardinality(1..n) = n
  BY <1>1, IntervalFacts DEF Ids
<1>3. \A i \in 1..n : out[i].id \in Ids
  BY DEF ListInv, Listed, Entries
<1>4. f \in Injection(1..n, Ids)
  <2>1. f \in [1..n -> Ids]
    BY <1>3
  <2>2. \A i, j \in 1..n : f[i] = f[j] => i = j
    BY DEF ListInv, Unique
  <2> QED
    BY <2>1, <2>2 DEF Injection, IsInjective
<1>5. n <= Len(given)
  <2> HIDE DEF f
  <2>1. Cardinality(1..n) <= Cardinality(Ids)
    BY <1>2, <1>4, FS_Injection
  <2> QED
    BY <1>2, <2>1
<1>6. Len(given) <= MaxGiven /\ MaxGiven <= SendMaximum
  BY DEF LineTypes, RoomForAll
<1> QED
  BY <1>1, <1>5, <1>6 DEF RoomForAll

(* The connection breaks. *)
LEMMA BreakStep ==
  ASSUME RoomForAll, DeliveryInv, Break
  PROVE  DeliveryInv' /\ UNCHANGED <<given, released, acked>>
<1>1. LineTypes /\ ListInv /\ LineInv /\ SessionInv
  BY DEF DeliveryInv
<1>2. /\ sock' = "none" /\ down' = <<>>
      /\ UNCHANGED <<given, out, last_mid, acked, clean, inflight, queued, in_quota, released>>
  BY DEF Break, session
<1>3. PICK k \in 0..Len(up) : up' = SubSeq(up, 1, k)
  BY DEF Break
<1>4. up' \in Seq(UpPackets) /\ \A i \in 1..Len(up') : i \in 1..Len(up) /\ up'[i] = up[i]
  <2>1. up \in Seq(UpPackets) /\ Len(up) \in Nat
    BY <1>1, LenProperties DEF LineTypes
  <2> QED
    BY <1>3, <2>1, PrefixFacts
<1>5. Listed' = Listed
  BY <1>2 DEF Listed, Entries
<1>6. LineTypes'
  <2>1. down' \in Seq(DownPackets) /\ sock' \in {"none", "connected", "active"}
    BY <1>2
  <2> QED
    BY <1>1, <1>2, <1>4, <2>1 DEF LineTypes, Ids
<1>7. ListInv'
  BY <1>1, <1>2, SameList
<1>8. LineInv'
  <2>1. ASSUME NEW m \in Listed PROVE MessageInv(m)'
    <3>1. MessageInv(m)
      BY <1>1 DEF LineInv
    <3>2. (InUp(m.mid)' => InUp(m.mid)) /\ (PublishInUp(m.mid)' => PublishInUp(m.mid))
      BY <1>4 DEF InUp, PublishInUp
    <3>3. ~InDown(m.mid)'
      BY <1>2 DEF InDown
    <3>4. (HasPubrec(m)' <=> HasPubrec(m)) /\ (ToRetry(m)' <=> ToRetry(m))
      BY DEF HasPubrec, ToRetry
    <3> QED
      BY <1>2, <3>1, <3>2, <3>3, <3>4 DEF MessageInv
  <2>2. \A i \in 1..Len(up') : UpInv(Listed', up'[i])
    BY <1>1, <1>4, <1>5 DEF LineInv
  <2>3. \A i \in 1..Len(down') : DownInv(Listed', down'[i])
    BY <1>2
  <2>4. OneEach'
    BY <1>2 DEF OneEach, Current
  <2>5. AnswersLast(down)'
    BY <1>2 DEF AnswersLast
  <2>6. ConnectionInv'
    BY <1>2 DEF ConnectionInv
  <2> QED
    BY <1>5, <2>1, <2>2, <2>3, <2>4, <2>5, <2>6 DEF LineInv
<1>9. SessionInv'
  <2>1. \A kind, mid : ~Answered(kind, mid)'
    BY <1>2 DEF Answered
  <2>2. \A n \in Listed' : \E m \in Listed : Same(m, n) /\ (HasPubrec(n) <=> HasPubrec(m))
    BY <1>5 DEF Same
  <2>3. \A m \in Listed : \E n \in Listed' : Same(m, n)
    BY <1>5 DEF Same
  <2> QED
    BY <1>1, <1>2, <2>1, <2>2, <2>3, SessionKept
<1> QED
  BY <1>2, <1>6, <1>7, <1>8, <1>9 DEF DeliveryInv

LEMMA ResumedFacts ==
  ASSUME NEW m \in Messages, m.qos = 1 => ~HasPubrec(m)
  PROVE  /\ Resumed(m) \in Messages /\ Same(m, Resumed(m))
         /\ HasPubrec(Resumed(m)) <=> HasPubrec(m)
         /\ Resumed(m).state = "invalid" => m.state = "invalid"
<1> DEFINE st == CASE m.qos = 1 -> "publish_qos1"
                   [] m.state = "wait_for_pubrec" -> "publish_qos2"
                   [] m.state = "wait_for_pubcomp" -> "resend_pubrel"
                   [] OTHER -> m.state
<1>1. st \in States /\ (st \in Unreleased <=> m.state \in Unreleased)
      /\ (st = "invalid" => m.state = "invalid")
  <2>1. m.qos \in 1..2 /\ m.state \in States
    BY DEF Messages
  <2>2. CASE m.qos = 1
    BY <2>1, <2>2 DEF States, Unreleased, HasPubrec
  <2>3. CASE m.qos # 1 /\ m.state = "wait_for_pubrec"
    BY <2>1, <2>3 DEF States, Unreleased
  <2>4. CASE m.qos # 1 /\ m.state = "wait_for_pubcomp"
    BY <2>1, <2>4 DEF States, Unreleased
  <2>5. CASE m.qos # 1 /\ m.state # "wait_for_pubrec" /\ m.state # "wait_for_pubcomp"
    BY <2>1, <2>5
  <2> QED
    BY <2>2, <2>3, <2>4, <2>5
<1>2. Resumed(m) = [m EXCEPT !.state = st]
  BY DEF Resumed
<1> HIDE DEF st
<1>3. /\ Resumed(m) \in Messages /\ Resumed(m).state = st
      /\ Resumed(m).id = m.id /\ Resumed(m).mid = m.mid /\ Resumed(m).qos = m.qos
  BY <1>1, <1>2 DEF Messages
<1> QED
  BY <1>1, <1>3 DEF Same, HasPubrec

(* The client connects again, or tries to. *)
LEMMA ReconnectStep ==
  ASSUME RoomForAll, DeliveryInv, Reconnect
  PROVE  DeliveryInv' /\ UNCHANGED <<given, released, acked>>
<1>1. LineTypes /\ ListInv /\ LineInv /\ SessionInv
  BY DEF DeliveryInv
<1>2. /\ sock = "none" /\ ConnectionInv
      /\ UNCHANGED <<given, last_mid, acked, clean, inflight, queued, in_quota, released>>
  BY <1>1 DEF Reconnect, session, LineInv
<1>3. out \in Seq(Messages) /\ Len(out) \in Nat /\ Len(out) <= SendMaximum
  BY <1>1, ListFits DEF LineTypes
<1>4. \A i \in 1..Len(out) : out[i] \in Listed /\ out[i] \in Messages
  BY <1>3, ElementOfSeq DEF Listed, Entries
<1>5. \A m \in Listed : /\ Resumed(m) \in Messages /\ Same(m, Resumed(m))
                        /\ HasPubrec(Resumed(m)) <=> HasPubrec(m)
                        /\ Resumed(m).state = "invalid" => m.state = "invalid"
  <2> SUFFICES ASSUME NEW m \in Listed
               PROVE  /\ Resumed(m) \in Messages /\ Same(m, Resumed(m))
                      /\ HasPubrec(Resumed(m)) <=> HasPubrec(m)
                      /\ Resumed(m).state = "invalid" => m.state = "invalid"
    OBVIOUS
  <2>1. m \in Messages
    BY <1>1, EntryFacts
  <2>2. m.qos = 1 => ~HasPubrec(m)
    BY <1>1 DEF LineInv, MessageInv
  <2> QED
    BY <2>1, <2>2, ResumedFacts
<1>6. /\ out' \in Seq(Messages) /\ Len(out') = Len(out)
      /\ \A i \in 1..Len(out) : out'[i] = Resumed(out[i])
  <2> DEFINE f == [i \in 1..Len(out) |-> IF i <= SendMaximum THEN Resumed(out[i])
                                           ELSE [out[i] EXCEPT !.state = "invalid"]]
  <2>1. out' = f
    BY DEF Reconnect, ReconnectReset
  <2>2. \A i \in 1..Len(out) : f[i] = Resumed(out[i])
    BY <1>3 DEF RoomForAll
  <2>3. f \in [1..Len(out) -> Messages]
    <3>1. \A i \in 1..Len(out) : f[i] \in Messages
      BY <1>4, <1>5, <2>2
    <3> QED
      BY <3>1
  <2> HIDE DEF f
  <2>4. f \in Seq(Messages) /\ Len(f) = Len(out)
    BY <1>3, <2>3, SequenceOf
  <2> QED
    BY <2>1, <2>2, <2>4
<1>7. /\ \A n \in Listed' : \E m \in Listed : n = Resumed(m)
      /\ \A m \in Listed : Resumed(m) \in Listed'
  BY <1>6 DEF Listed, Entries
<1>8. down = <<>> /\ down' = <<>> /\ sock' \in {"none", "connected"}
  BY <1>2 DEF Reconnect, ConnectionInv
<1>9. up \in Seq(UpPackets) /\ Len(up) \in Nat /\ Bare("CONNECT") \in UpPackets
      /\ Bare("CONNECT").mid = 0 /\ Bare("CONNECT").kind = "CONNECT"
  BY <1>1, LenProperties DEF LineTypes, UpPackets, Bare, Pkt
<1>10. /\ up' \in Seq(UpPackets)
       /\ \A i \in 1..Len(up') : \/ i \in 1..Len(up) /\ up'[i] = up[i]
                                 \/ up'[i].mid = 0 /\ up'[i].kind = "CONNECT"
       /\ \A i \in 1..Len(up') : ~Current(i)'
       /\ sock' = "connected" => ~NoConnect'
  <2>1. CASE sock' = "none"
    <3>1. up' = up
      BY <2>1 DEF Reconnect
    <3> QED
      BY <1>9, <2>1, <3>1 DEF Current
  <2>2. CASE sock' # "none"
    <3>1. up' = Append(up, Bare("CONNECT"))
      BY <1>2, <2>2 DEF Reconnect
    <3>2. /\ up' \in Seq(UpPackets) /\ Len(up') = Len(up) + 1
          /\ \A i \in 1..Len(up) : up'[i] = up[i]
          /\ up'[Len(up) + 1] = Bare("CONNECT")
      BY <1>9, <3>1, AppendFacts
    <3>3. Len(up) + 1 \in 1..Len(up') /\ \A i \in 1..Len(up') : Len(up) + 1 \in i..Len(up')
      BY <1>9, <3>2
    <3>4. \A i \in 1..Len(up') : i \in 1..Len(up) \/ i = Len(up) + 1
      BY <1>9, <3>2
    <3>5. ~NoConnect' /\ \A i \in 1..Len(up') : ~Current(i)'
      BY <1>9, <3>2, <3>3 DEF NoConnect, Current
    <3> QED
      BY <1>9, <3>2, <3>4, <3>5
  <2> QED
    BY <2>1, <2>2
<1>11. LineTypes'
  <2>1. down' \in Seq(DownPackets) /\ sock' \in {"none", "connected", "active"}
    BY <1>8
  <2> QED
    BY <1>1, <1>2, <1>6, <1>10, <2>1 DEF LineTypes, Ids
<1>12. ListInv'
  <2>1. Unique(out) /\ \A i \in 1..Len(out) : Same(out[i], out'[i])
    BY <1>1, <1>4, <1>5, <1>6 DEF ListInv
  <2>2. \A m \in Entries(out) : m.id \in Ids' /\ m.qos = given'[m.id]
    BY <1>1, <1>2 DEF ListInv, Listed, Ids
  <2>3. \A k \in Ids' : k \in acked' <=> \A i \in 1..Len(out) : out[i].id # k
    BY <1>1, <1>2 DEF ListInv, KeptUntilAcked, Ids
  <2> QED
    BY <1>3, <1>6, <2>1, <2>2, <2>3, ListKept
<1>13. LineInv'
  <2>1. ASSUME NEW n \in Listed' PROVE MessageInv(n)'
    <3>1. PICK m \in Listed : n = Resumed(m)
      BY <1>7
    <3>2. MessageInv(m) /\ m.mid # 0
      BY <1>1, EntryFacts DEF LineInv, Messages
    <3>3. /\ n.mid = m.mid /\ n.qos = m.qos /\ (HasPubrec(n) <=> HasPubrec(m))
          /\ n.state = "invalid" => m.state = "invalid"
      BY <1>5, <3>1 DEF Same
    <3>4. (InUp(n.mid)' => InUp(m.mid)) /\ (PublishInUp(n.mid)' => PublishInUp(m.mid))
      BY <1>10, <3>2, <3>3 DEF InUp, PublishInUp
    <3>5. ~InDown(n.mid)' /\ ~OnLine(n.mid)'
      BY <1>8, <1>10 DEF InDown, OnLine
    <3>6. (HasPubrec(n)' <=> HasPubrec(n)) /\ (ToRetry(n)' <=> ToRetry(n))
      BY DEF HasPubrec, ToRetry
    <3> QED
      BY <3>2, <3>3, <3>4, <3>5, <3>6 DEF MessageInv
  <2>2. ASSUME NEW i \in 1..Len(up') PROVE UpInv(Listed', up'[i])
    <3>1. CASE i \in 1..Len(up) /\ up'[i] = up[i]
      <4>1. UpInv(Listed, up[i])
        BY <1>1, <3>1 DEF LineInv
      <4>2. \A m \in Listed : \E n \in Listed' : Same(m, n) /\ (HasPubrec(n) <=> HasPubrec(m))
        BY <1>5, <1>7
      <4> QED
        BY <3>1, <4>1, <4>2 DEF UpInv, Same
    <3>2. CASE up'[i].kind = "CONNECT"
      BY <3>2 DEF UpInv
    <3> QED
      BY <1>10, <3>1, <3>2
  <2>3. \A i \in 1..Len(down') : DownInv(Listed', down'[i])
    BY <1>8
  <2>4. OneEach'
    BY <1>10 DEF OneEach
  <2>5. AnswersLast(down)'
    BY <1>8 DEF AnswersLast
  <2>6. ConnectionInv'
    BY <1>8, <1>10 DEF ConnectionInv
  <2> QED
    BY <2>1, <2>2, <2>3, <2>4, <2>5, <2>6 DEF LineInv
<1>14. SessionInv'
  <2>1. \A kind, mid : ~Answered(kind, mid)'
    BY <1>8 DEF Answered
  <2>2. \A n \in Listed' : \E m \in Listed : Same(m, n) /\ (HasPubrec(n) <=> HasPubrec(m))
    BY <1>5, <1>7
  <2>3. \A m \in Listed : \E n \in Listed' : Same(m, n)
    BY <1>5, <1>7
  <2> QED
    BY <1>1, <1>2, <2>1, <2>2, <2>3, SessionKept
<1> QED
  BY <1>2, <1>11, <1>12, <1>13, <1>14 DEF DeliveryInv

(* The client reads a packet. *)
LEMMA ReadDown ==
  ASSUME LineTypes, LineInv, down # <<>>, down' = Tail(down)
  PROVE  /\ down' \in Seq(DownPackets) /\ 1 \in 1..Len(down) /\ Head(down) = down[1]
         /\ down[1] \in DownPackets /\ NoConnect /\ sock # "none"
         /\ \A i \in 1..Len(down') : \E j \in 1..Len(down) : down'[i] = down[j]
         /\ \A i \in 1..Len(down') : down'[i].kind # "CONNACK"
         /\ \A mid : InDown(mid)' => InDown(mid)
         /\ \A kind, mid : Answered(kind, mid)' => Answered(kind, mid)
         /\ AnswersLast(down')
         /\ down[1].kind = "CONNACK" => sock = "connected"
         /\ down[1].kind # "CONNACK" =>
              /\ sock = "active"
              /\ \A j \in 1..Len(up) : up[j].mid # down[1].mid
              /\ \A i \in 1..Len(down') : down'[i].mid # down[1].mid
<1>1. ConnectionInv /\ AnswersLast(down)
  BY DEF LineInv
<1>2. /\ down' \in Seq(DownPackets) /\ Len(down') = Len(down) - 1 /\ Len(down) \in Nat \ {0}
      /\ Head(down) = down[1] /\ down[1] \in DownPackets
      /\ \A i \in 1..Len(down) - 1 : down'[i] = down[i + 1]
  BY TailFacts DEF LineTypes
<1>3. /\ 1 \in 1..Len(down)
      /\ \A i \in 1..Len(down') : i + 1 \in 2..Len(down) /\ down'[i] = down[i + 1]
  BY <1>2
<1>4. \A j \in 2..Len(down) : j \in 1..Len(down) /\ j # 1
  BY <1>2
<1>5. \A i \in 1..Len(down') : \E j \in 1..Len(down) : down'[i] = down[j]
  BY <1>3, <1>4
<1>6. \A i \in 1..Len(down') : down'[i].kind # "CONNACK"
  BY <1>1, <1>3, <1>4 DEF ConnectionInv
<1>7. /\ \A mid : InDown(mid)' => InDown(mid)
      /\ \A kind, mid : Answered(kind, mid)' => Answered(kind, mid)
  BY <1>5 DEF InDown, Answered
<1>8. AnswersLast(down')
  <2> SUFFICES ASSUME NEW i \in 1..Len(down')
               PROVE  /\ \A j \in 1..Len(up) : up[j].mid # down'[i].mid
                      /\ \A j \in 1..Len(down') : j # i => down'[j].mid # down'[i].mid
    BY DEF AnswersLast
  <2>1. i + 1 \in 1..Len(down) /\ down'[i] = down[i + 1] /\ down[i + 1].kind # "CONNACK"
    BY <1>3, <1>4, <1>6
  <2>2. /\ \A j \in 1..Len(up) : up[j].mid # down[i + 1].mid
        /\ \A j \in 1..Len(down) : j # i + 1 => down[j].mid # down[i + 1].mid
    BY <1>1, <2>1 DEF AnswersLast
  <2>3. \A j \in 1..Len(down') : j # i => j + 1 # i + 1 /\ j + 1 \in 1..Len(down)
    BY <1>2
  <2> QED
    BY <1>3, <2>1, <2>2, <2>3
<1>9. down[1].kind # "CONNACK" =>
        /\ \A j \in 1..Len(up) : up[j].mid # down[1].mid
        /\ \A i \in 1..Len(down') : down'[i].mid # down[1].mid
  BY <1>1, <1>3, <1>4 DEF AnswersLast
<1>10. /\ NoConnect /\ sock # "none"
       /\ down[1].kind = "CONNACK" => sock = "connected"
       /\ down[1].kind # "CONNACK" => sock = "active"
  BY <1>1, <1>3 DEF ConnectionInv, LineTypes
<1> QED
  BY <1>2, <1>3, <1>5, <1>6, <1>7, <1>8, <1>9, <1>10

(* What message__retry_check sends: one packet for each message that has   *)
(* to be sent again.                                                       *)
LEMMA RetriesFacts ==
  ASSUME LineTypes, ListInv
  PROVE  /\ Retries \in Seq(UpPackets)
         /\ \A n \in 1..Len(Retries) : /\ Retries[n].kind \in {"PUBLISH", "PUBREL"}
                                       /\ \E m \in Listed : ToRetry(m) /\ Retries[n] = Retry(m)
         /\ \A k, n \in 1..Len(Retries) : Retries[k].mid = Retries[n].mid => k = n
         /\ \A m \in Listed : Retry(m).mid = m.mid
<1> DEFINE I == {i \in 1..Len(out) : out[i].state \in Unpublished \cup Unreleased}
           p == Pick(out, I)
           r == [n \in 1..Len(p) |-> Retry(p[n])]
           e == InOrder(I)
<1>1. Retries = r
  BY DEF Retries, Map
<1>2. out \in Seq(Messages) /\ I \in SUBSET (1..Len(out))
  BY DEF LineTypes
<1>3. \A i \in I : i \in 1..Len(out) /\ out[i] \in Listed /\ ToRetry(out[i])
  BY DEF Listed, Entries, ToRetry
<1> HIDE DEF I, p, e
<1>4. /\ p \in Seq(Messages) /\ Len(p) \in Nat
      /\ \A n \in 1..Len(p) : e[n] \in I /\ p[n] = out[e[n]]
      /\ \A m, n \in 1..Len(p) : m < n => e[m] < e[n]
  <2>1. /\ p \in Seq(Messages)
        /\ \A n \in 1..Len(p) : e[n] \in I /\ p[n] = out[e[n]]
        /\ \A m, n \in 1..Len(p) : m < n => e[m] < e[n]
    BY <1>2, PickFacts DEF p, e
  <2> QED
    BY <2>1, LenProperties
<1>5. \A m \in Listed : /\ Retry(m) \in UpPackets /\ Retry(m).mid = m.mid
                        /\ Retry(m).kind \in {"PUBLISH", "PUBREL"}
  <2> SUFFICES ASSUME NEW m \in Listed
               PROVE  /\ Retry(m) \in UpPackets /\ Retry(m).mid = m.mid
                      /\ Retry(m).kind \in {"PUBLISH", "PUBREL"}
    OBVIOUS
  <2>1. m.id \in Nat /\ m.mid \in Nat \ {0} /\ m.qos \in Nat
    BY EntryFacts DEF Messages
  <2> QED
    BY <2>1 DEF Retry, PUBLISH, Ack, Pkt, UpPackets
<1>6. \A n \in 1..Len(p) : p[n] \in Listed /\ ToRetry(p[n]) /\ r[n] = Retry(p[n])
  BY <1>3, <1>4
<1>7. r \in [1..Len(p) -> UpPackets]
  BY <1>5, <1>6
<1> HIDE DEF r
<1>8. r \in Seq(UpPackets) /\ Len(r) = Len(p)
  BY <1>4, <1>7, SequenceOf
<1>9. ASSUME NEW k \in 1..Len(r), NEW n \in 1..Len(r), r[k].mid = r[n].mid PROVE k = n
  <2>1. out[e[k]].mid = out[e[n]].mid /\ e[k] \in 1..Len(out) /\ e[n] \in 1..Len(out)
    BY <1>3, <1>4, <1>5, <1>6, <1>8, <1>9
  <2>2. e[k] = e[n]
    BY <2>1 DEF ListInv, Unique
  <2>3. ~(k < n) /\ ~(n < k)
    BY <1>4, <1>8, <2>1, <2>2
  <2> QED
    BY <1>4, <1>8, <2>3
<1> QED
  BY <1>1, <1>5, <1>6, <1>8, <1>9

LEMMA ConnackStep ==
  ASSUME RoomForAll, DeliveryInv, down # <<>>, down' = Tail(down), Head(down).kind = "CONNACK",
         HandleConnack, UNCHANGED <<given, last_mid, clean, session, released, breaks>>
  PROVE  DeliveryInv' /\ UNCHANGED <<given, released, acked>>
<1>1. LineTypes /\ ListInv /\ LineInv /\ SessionInv /\ OneEach
  BY DEF DeliveryInv, LineInv
<1>2. /\ sock' = "active" /\ up' = up \o Retries
      /\ UNCHANGED <<given, out, last_mid, acked, clean, inflight, queued, in_quota, released>>
  BY DEF HandleConnack, session
<1>3. /\ down' \in Seq(DownPackets) /\ NoConnect /\ sock = "connected"
      /\ \A i \in 1..Len(down') : \E j \in 1..Len(down) : down'[i] = down[j]
      /\ \A i \in 1..Len(down') : down'[i].kind # "CONNACK"
      /\ \A mid : InDown(mid)' => InDown(mid)
      /\ \A kind, mid : Answered(kind, mid)' => Answered(kind, mid)
      /\ AnswersLast(down')
  BY <1>1, ReadDown
<1> DEFINE s == Retries
<1>4. /\ s \in Seq(UpPackets)
      /\ \A n \in 1..Len(s) : /\ s[n].kind \in {"PUBLISH", "PUBREL"}
                              /\ \E m \in Listed : ToRetry(m) /\ s[n] = Retry(m)
      /\ \A k, n \in 1..Len(s) : s[k].mid = s[n].mid => k = n
      /\ \A m \in Listed : Retry(m).mid = m.mid
  BY <1>1, RetriesFacts
<1>5. \A m \in Listed : ToRetry(m) => ~OnLine(m.mid) /\ ~InDown(m.mid)
  BY <1>1, <1>3 DEF LineInv, MessageInv
<1>6. Listed' = Listed /\ \A m, n \in Listed : m.mid = n.mid => m = n
  BY <1>1, <1>2, EntryFacts DEF Listed, Entries
<1>7. UNCHANGED <<given, acked, out>> /\ up \in Seq(UpPackets) /\ up' = up \o s
  BY <1>1, <1>2 DEF LineTypes
<1> HIDE DEF s
<1>8. \A n \in 1..Len(s) : s[n].kind # "CONNECT" /\ ~OnLine(s[n].mid)
  BY <1>4, <1>5
<1>9. /\ up' \in Seq(UpPackets)
      /\ \A i \in 1..Len(up') : \/ i \in 1..Len(up) /\ up'[i] = up[i]
                                \/ \E n \in 1..Len(s) : up'[i] = s[n]
      /\ \A mid : InUp(mid)' => InUp(mid) \/ \E n \in 1..Len(s) : s[n].mid = mid
      /\ \A mid : PublishInUp(mid)' => \/ PublishInUp(mid)
                                       \/ \E n \in 1..Len(s) : /\ s[n].mid = mid
                                                               /\ s[n].kind = "PUBLISH"
      /\ NoConnect' /\ OneEach'
  <2>1. sock # "none" /\ sock' # "none" /\ \A n \in 1..Len(s) : s[n].kind # "CONNECT"
    BY <1>2, <1>3, <1>8
  <2> QED
    BY <1>1, <1>3, <1>4, <1>7, <1>8, <2>1, SentFacts
<1>10. LineTypes'
  <2>1. sock' \in {"none", "connected", "active"}
    BY <1>2
  <2> QED
    BY <1>1, <1>2, <1>3, <1>9, <2>1 DEF LineTypes, Ids
<1>11. ListInv'
  BY <1>1, <1>7, SameList
<1>12. LineInv'
  <2>1. ASSUME NEW m \in Listed PROVE MessageInv(m)'
    <3>1. MessageInv(m)
      BY <1>1 DEF LineInv
    <3>2. HasPubrec(m) => ~PublishInUp(m.mid)'
      <4> SUFFICES ASSUME HasPubrec(m), NEW n \in 1..Len(s), s[n].mid = m.mid,
                          s[n].kind = "PUBLISH"
                   PROVE  FALSE
        BY <1>9, <3>1 DEF MessageInv
      <4>1. s[n] = Retry(m)
        BY <1>4, <1>6
      <4>2. Retry(m) = Ack("PUBREL", m.mid)
        BY DEF Retry, HasPubrec, Unreleased, Unpublished
      <4> QED
        BY <4>1, <4>2 DEF Ack, Pkt
    <3>3. m.state = "invalid" => ~InUp(m.mid)'
      <4> SUFFICES ASSUME m.state = "invalid", NEW n \in 1..Len(s), s[n].mid = m.mid PROVE FALSE
        BY <1>9, <3>1 DEF MessageInv
      <4>1. ToRetry(m)
        BY <1>4, <1>6
      <4> QED
        BY <4>1 DEF ToRetry, Unpublished, Unreleased
    <3>4. m.state = "invalid" => ~InDown(m.mid)'
      BY <1>3, <3>1 DEF MessageInv
    <3>5. (HasPubrec(m)' <=> HasPubrec(m)) /\ (ToRetry(m)' <=> ToRetry(m))
      BY DEF HasPubrec, ToRetry
    <3> QED
      BY <1>2, <3>1, <3>2, <3>3, <3>4, <3>5 DEF MessageInv
  <2>2. ASSUME NEW i \in 1..Len(up') PROVE UpInv(Listed, up'[i])
    <3>1. CASE i \in 1..Len(up) /\ up'[i] = up[i]
      BY <1>1, <3>1 DEF LineInv
    <3>2. CASE \E n \in 1..Len(s) : up'[i] = s[n]
      <4>1. PICK m \in Listed : ToRetry(m) /\ up'[i] = Retry(m)
        BY <1>4, <3>2
      <4> QED
        BY <4>1 DEF UpInv, Retry, PUBLISH, Ack, Pkt, ToRetry, HasPubrec
    <3> QED
      BY <1>9, <3>1, <3>2
  <2>3. \A i \in 1..Len(down') : DownInv(Listed, down'[i])
    BY <1>1, <1>3 DEF LineInv
  <2>4. AnswersLast(down)'
    <3> SUFFICES ASSUME NEW i \in 1..Len(down')
                 PROVE  /\ \A j \in 1..Len(up') : up'[j].mid # down'[i].mid
                        /\ \A j \in 1..Len(down') : j # i => down'[j].mid # down'[i].mid
      BY DEF AnswersLast
    <3>1. /\ \A j \in 1..Len(up) : up[j].mid # down'[i].mid
          /\ \A j \in 1..Len(down') : j # i => down'[j].mid # down'[i].mid
      BY <1>3 DEF AnswersLast
    <3>2. PICK mid : mid = down'[i].mid
      OBVIOUS
    <3>3. InDown(mid)
      <4>1. InDown(mid)'
        BY <3>2 DEF InDown
      <4> QED
        BY <1>3, <4>1
    <3>4. \A n \in 1..Len(s) : s[n].mid # mid
      BY <1>4, <1>5, <3>3
    <3> QED
      BY <1>9, <3>1, <3>2, <3>4
  <2>5. ConnectionInv'
    BY <1>2, <1>3, <1>9 DEF ConnectionInv
  <2> QED
    BY <1>6, <1>9, <2>1, <2>2, <2>3, <2>4, <2>5 DEF LineInv
<1>13. SessionInv'
  <2>1. \A n \in Listed' : \E m \in Listed : Same(m, n) /\ (HasPubrec(n) <=> HasPubrec(m))
    BY <1>6 DEF Same
  <2>2. \A m \in Listed : \E n \in Listed' : Same(m, n)
    BY <1>6 DEF Same
  <2> QED
    BY <1>1, <1>2, <1>3, <2>1, <2>2, SessionKept
<1> QED
  BY <1>2, <1>10, <1>11, <1>12, <1>13 DEF DeliveryInv

LEMMA PubrecStep ==
  ASSUME RoomForAll, DeliveryInv, down # <<>>, down' = Tail(down), Head(down).kind = "PUBREC",
         HandlePubrec(Head(down)), UNCHANGED <<given, last_mid, clean, session, released, breaks>>
  PROVE  DeliveryInv' /\ UNCHANGED <<given, released, acked>>
<1>1. LineTypes /\ ListInv /\ LineInv /\ SessionInv /\ OneEach
  BY DEF DeliveryInv, LineInv
<1>2. /\ down' \in Seq(DownPackets) /\ NoConnect /\ sock = "active" /\ 1 \in 1..Len(down)
      /\ Head(down) = down[1] /\ down[1] \in DownPackets
      /\ \A i \in 1..Len(down') : \E j \in 1..Len(down) : down'[i] = down[j]
      /\ \A i \in 1..Len(down') : down'[i].kind # "CONNACK"
      /\ \A mid : InDown(mid)' => InDown(mid)
      /\ \A kind, mid : Answered(kind, mid)' => Answered(kind, mid)
      /\ AnswersLast(down')
      /\ \A j \in 1..Len(up) : up[j].mid # down[1].mid
      /\ \A i \in 1..Len(down') : down'[i].mid # down[1].mid
  BY <1>1, ReadDown
<1>3. PICK m \in Listed : m.mid = down[1].mid /\ m.qos = 2 /\ ~HasPubrec(m)
  BY <1>1, <1>2 DEF LineInv, DownInv
<1>4. InSession(m)
  <2>1. Answered("PUBREC", m.mid)
    BY <1>2, <1>3 DEF Answered
  <2> QED
    BY <1>1, <2>1 DEF SessionInv, PassedInv
<1>5. /\ \A n \in Listed : n \in Messages /\ (n.id = m.id \/ n.mid = m.mid => n = m)
      /\ m \in Messages
  BY <1>1, EntryFacts
<1> DEFINE Noted(n) == IF n.mid = m.mid THEN [n EXCEPT !.state = "wait_for_pubcomp"] ELSE n
           x == Ack("PUBREL", m.mid)
<1>6. ASSUME NEW i \in 1..Len(out), out[i].mid = down[1].mid PROVE out[i].qos = 2
  BY <1>3, <1>5, <1>6 DEF Listed, Entries
<1>7. /\ out' = [i \in 1..Len(out) |-> IF out[i].mid = down[1].mid
                      THEN [out[i] EXCEPT !.state = "wait_for_pubcomp"]
                      ELSE out[i]]
      /\ up' = Append(up, Ack("PUBREL", down[1].mid))
      /\ UNCHANGED <<sock, acked>>
  BY <1>2, <1>6 DEF HandlePubrec
<1>8. UNCHANGED <<given, last_mid, acked, clean, sock, inflight, queued, in_quota, released>>
  BY <1>7 DEF session
<1>9. \A n \in Listed : /\ Noted(n) \in Messages /\ Same(n, Noted(n))
                        /\ (HasPubrec(Noted(n)) <=> HasPubrec(n)) \/ (n = m /\ HasPubrec(Noted(n)))
                        /\ n # m => Noted(n) = n
                        /\ n = m => Noted(n).state = "wait_for_pubcomp"
  <2> SUFFICES ASSUME NEW n \in Listed
               PROVE  /\ Noted(n) \in Messages /\ Same(n, Noted(n))
                      /\ (HasPubrec(Noted(n)) <=> HasPubrec(n)) \/ (n = m /\ HasPubrec(Noted(n)))
                      /\ n # m => Noted(n) = n
                      /\ n = m => Noted(n).state = "wait_for_pubcomp"
    OBVIOUS
  <2>1. CASE n = m
    <3>1. Noted(n) = [m EXCEPT !.state = "wait_for_pubcomp"]
      BY <2>1
    <3>2. /\ Noted(n) \in Messages /\ Noted(n).state = "wait_for_pubcomp"
          /\ Noted(n).id = m.id /\ Noted(n).mid = m.mid /\ Noted(n).qos = m.qos
      BY <1>5, <3>1 DEF Messages, States
    <3> QED
      BY <2>1, <3>2 DEF Same, HasPubrec, Unreleased
  <2>2. CASE n # m
    <3>1. Noted(n) = n
      BY <1>5, <2>2
    <3> QED
      BY <1>5, <2>2, <3>1 DEF Same
  <2> QED
    BY <2>1, <2>2
<1>10. out \in Seq(Messages) /\ Len(out) \in Nat /\ \A i \in 1..Len(out) : out[i] \in Listed
  BY <1>1, LenProperties DEF LineTypes, Listed, Entries
<1>11. /\ out' \in Seq(Messages) /\ Len(out') = Len(out)
       /\ \A i \in 1..Len(out) : out'[i] = Noted(out[i])
  <2> DEFINE f == [i \in 1..Len(out) |-> Noted(out[i])]
  <2>1. out' = f
    BY <1>3, <1>7
  <2>2. f \in [1..Len(out) -> Messages]
    BY <1>9, <1>10
  <2>3. \A i \in 1..Len(out) : f[i] = Noted(out[i])
    OBVIOUS
  <2> HIDE DEF f, Noted
  <2>4. f \in Seq(Messages) /\ Len(f) = Len(out)
    BY <1>10, <2>2, SequenceOf
  <2> QED
    BY <2>1, <2>3, <2>4
<1>12. /\ x \in UpPackets /\ x.mid = m.mid /\ x.kind = "PUBREL" /\ m.mid # 0
       /\ up \in Seq(UpPackets) /\ up' = up \o <<x>>
       /\ \A n \in 1..Len(<<x>>) : <<x>>[n] = x /\ n = 1
       /\ <<x>> \in Seq(UpPackets)
  <2>1. x \in UpPackets /\ x.mid = m.mid /\ x.kind = "PUBREL" /\ m.mid # 0
    BY <1>5 DEF UpPackets, Ack, Pkt, Messages
  <2>2. up \in Seq(UpPackets) /\ up' = Append(up, x)
    BY <1>1, <1>3, <1>7 DEF LineTypes
  <2> HIDE DEF x
  <2>3. up' = up \o <<x>>
    BY <2>1, <2>2, AppendIsConcat
  <2> QED
    BY <2>1, <2>2, <2>3
<1> HIDE DEF Noted, x
<1>13. /\ up' \in Seq(UpPackets)
       /\ \A i \in 1..Len(up') : \/ i \in 1..Len(up) /\ up'[i] = up[i]
                                 \/ up'[i] = x
       /\ \A mid : InUp(mid)' => InUp(mid) \/ mid = m.mid
       /\ \A mid : PublishInUp(mid)' => PublishInUp(mid)
       /\ NoConnect' /\ OneEach'
  <2>1. sock # "none" /\ sock' # "none"
    BY <1>2, <1>7
  <2>2. ~OnLine(x.mid)
    BY <1>2, <1>3, <1>12 DEF OnLine
  <2> DEFINE s == <<x>>
  <2>3. /\ s \in Seq(UpPackets) /\ up' = up \o s
        /\ \A n \in 1..Len(s) : /\ s[n].kind # "CONNECT" /\ s[n].kind # "PUBLISH" /\ s[n] = x
                                /\ s[n].mid = m.mid
        /\ \A k, n \in 1..Len(s) : k = n
        /\ \A n \in 1..Len(s) : ~OnLine(s[n].mid)
    BY <1>12, <2>2
  <2> HIDE DEF s
  <2>4. /\ up' \in Seq(UpPackets)
        /\ \A i \in 1..Len(up') : \/ i \in 1..Len(up) /\ up'[i] = up[i]
                                  \/ \E n \in 1..Len(s) : up'[i] = s[n]
        /\ \A mid : InUp(mid)' => InUp(mid) \/ \E n \in 1..Len(s) : s[n].mid = mid
        /\ \A mid : PublishInUp(mid)' => \/ PublishInUp(mid)
                                         \/ \E n \in 1..Len(s) : /\ s[n].mid = mid
                                                                 /\ s[n].kind = "PUBLISH"
        /\ (NoConnect' <=> NoConnect) /\ OneEach'
    BY <1>1, <1>12, <2>1, <2>3, SentFacts
  <2> QED
    BY <1>2, <2>3, <2>4
<1>14. (\A n \in Listed' : \E k \in Listed : n = Noted(k)) /\ \A k \in Listed : Noted(k) \in Listed'
  BY <1>11 DEF Listed, Entries
<1>15. LineTypes'
  BY <1>1, <1>2, <1>8, <1>11, <1>13 DEF LineTypes, Ids
<1>16. ListInv'
  <2>1. Unique(out) /\ \A i \in 1..Len(out) : Same(out[i], out'[i])
    BY <1>1, <1>9, <1>10, <1>11 DEF ListInv
  <2>2. \A k \in Entries(out) : k.id \in Ids' /\ k.qos = given'[k.id]
    BY <1>1, <1>8 DEF ListInv, Listed, Ids
  <2>3. \A k \in Ids' : k \in acked' <=> \A i \in 1..Len(out) : out[i].id # k
    BY <1>1, <1>8 DEF ListInv, KeptUntilAcked, Ids
  <2> QED
    BY <1>10, <1>11, <2>1, <2>2, <2>3, ListKept
<1>17. LineInv'
  <2>1. ASSUME NEW n \in Listed' PROVE MessageInv(n)'
    <3>1. PICK k \in Listed : n = Noted(k)
      BY <1>14
    <3>2. MessageInv(k)
      BY <1>1 DEF LineInv
    <3>3. (HasPubrec(n)' <=> HasPubrec(n)) /\ (ToRetry(n)' <=> ToRetry(n))
      BY DEF HasPubrec, ToRetry
    <3>4. CASE k = m
      <4>1. n.mid = m.mid /\ n.qos = 2 /\ n.state = "wait_for_pubcomp"
        BY <1>3, <1>9, <3>1, <3>4 DEF Same
      <4>2. ~PublishInUp(m.mid)
        BY <1>2, <1>3 DEF PublishInUp
      <4> QED
        BY <1>2, <1>8, <1>13, <3>3, <4>1, <4>2 DEF MessageInv
    <3>5. CASE k # m
      <4>1. n = k /\ k.mid # m.mid
        BY <1>5, <1>9, <3>1, <3>5
      <4>2. /\ InUp(k.mid)' => InUp(k.mid)
            /\ PublishInUp(k.mid)' => PublishInUp(k.mid)
            /\ InDown(k.mid)' => InDown(k.mid)
        BY <1>2, <1>13, <4>1
      <4> QED
        BY <1>2, <1>8, <3>2, <3>3, <4>1, <4>2 DEF MessageInv
    <3> QED
      BY <3>4, <3>5
  <2>2. \A k \in Listed : /\ Noted(k) \in Listed' /\ Same(k, Noted(k))
                          /\ HasPubrec(k) => HasPubrec(Noted(k))
                          /\ k.mid # m.mid => Noted(k) = k
    BY <1>9, <1>14
  <2>3. ASSUME NEW i \in 1..Len(up') PROVE UpInv(Listed', up'[i])
    <3>1. CASE i \in 1..Len(up) /\ up'[i] = up[i]
      <4>1. UpInv(Listed, up[i])
        BY <1>1, <3>1 DEF LineInv
      <4> QED
        BY <2>2, <3>1, <4>1 DEF UpInv, Same
    <3>2. CASE up'[i] = x
      <4>1. Noted(m).mid = m.mid /\ HasPubrec(Noted(m)) /\ Noted(m) \in Listed'
        BY <1>9, <2>2 DEF Same, HasPubrec, Unreleased
      <4> QED
        BY <1>12, <3>2, <4>1 DEF UpInv
    <3> QED
      BY <1>13, <3>1, <3>2
  <2>4. ASSUME NEW i \in 1..Len(down') PROVE DownInv(Listed', down'[i])
    <3>1. DownInv(Listed, down'[i]) /\ down'[i].mid # m.mid
      BY <1>1, <1>2, <1>3 DEF LineInv
    <3>2. \A k \in Listed : k.mid = down'[i].mid => k \in Listed'
      BY <2>2, <3>1
    <3> QED
      BY <3>1, <3>2 DEF DownInv
  <2>5. AnswersLast(down)'
    <3> SUFFICES ASSUME NEW i \in 1..Len(down')
                 PROVE  /\ \A j \in 1..Len(up') : up'[j].mid # down'[i].mid
                        /\ \A j \in 1..Len(down') : j # i => down'[j].mid # down'[i].mid
      BY DEF AnswersLast
    <3>1. /\ \A j \in 1..Len(up) : up[j].mid # down'[i].mid
          /\ \A j \in 1..Len(down') : j # i => down'[j].mid # down'[i].mid
      BY <1>2 DEF AnswersLast
    <3> QED
      BY <1>2, <1>3, <1>12, <1>13, <3>1
  <2>6. ConnectionInv'
    BY <1>2, <1>8, <1>13 DEF ConnectionInv
  <2> QED
    BY <1>13, <2>1, <2>3, <2>4, <2>5, <2>6 DEF LineInv
<1>18. SessionInv'
  <2>1. \A n \in Listed' : \E k \in Listed : /\ Same(k, n)
                                             /\ \/ HasPubrec(n) <=> HasPubrec(k)
                                                \/ HasPubrec(n) /\ InSession(k)
    BY <1>4, <1>9, <1>14
  <2>2. \A k \in Listed : \E n \in Listed' : Same(k, n)
    BY <1>9, <1>14
  <2> QED
    BY <1>1, <1>2, <1>8, <2>1, <2>2, SessionKept
<1> QED
  BY <1>8, <1>15, <1>16, <1>17, <1>18 DEF DeliveryInv

(* What is released of a list q: messages that were not sent yet. *)
LEMMA ReleaseFacts ==
  ASSUME up \in Seq(UpPackets), NEW q \in Seq(Messages), Unique(q), NEW quota,
         ReleaseToInflight(q, quota)
  PROVE  /\ out' \in Seq(Messages) /\ Len(out') = Len(q)
         /\ \A i \in 1..Len(q) :
              /\ Same(q[i], out'[i])
              /\ \/ out'[i] = q[i]
                 \/ /\ q[i].state = "invalid"
                    /\ out'[i].state \in {"wait_for_puback", "wait_for_pubrec"}
         /\ \E s \in Seq(UpPackets) :
              /\ up' = up \o s /\ (sock = "none" => s = <<>>)
              /\ \A n \in 1..Len(s) :
                   \E i \in 1..Len(q) : /\ q[i].state = "invalid" /\ out'[i].state # "invalid"
                                        /\ s[n] = PUBLISH(q[i])
              /\ \A k, n \in 1..Len(s) : s[k].mid = s[n].mid => k = n
<1> DEFINE rel == ToRelease(q, quota)
           Sent(m) == [m EXCEPT !.state = Waiting(m.qos)]
           f == [i \in 1..Len(q) |-> IF i \in rel THEN Sent(q[i]) ELSE q[i]]
           p == Pick(q, rel)
           s == [n \in 1..Len(p) |-> PUBLISH(p[n])]
           e == InOrder(rel)
<1>1. Len(q) \in Nat /\ \A i \in 1..Len(q) : q[i] \in Messages
  BY LenProperties, ElementOfSeq
<1>2. rel \in SUBSET (1..Len(q)) /\ \A i \in rel : q[i].state = "invalid"
  BY DEF ToRelease
<1>3. out' = f
  BY DEF ReleaseToInflight
<1>4. sock = "none" => up' = up
  BY DEF ReleaseToInflight
<1>5. sock # "none" => up' = up \o s
  BY DEF ReleaseToInflight, Map
<1>6. \A m \in Messages : /\ Sent(m) \in Messages /\ Same(m, Sent(m))
                          /\ Sent(m).state \in {"wait_for_puback", "wait_for_pubrec"}
  <2> SUFFICES ASSUME NEW m \in Messages
               PROVE  /\ Sent(m) \in Messages /\ Same(m, Sent(m))
                      /\ Sent(m).state \in {"wait_for_puback", "wait_for_pubrec"}
    OBVIOUS
  <2>1. Waiting(m.qos) \in {"wait_for_puback", "wait_for_pubrec"}
    BY DEF Waiting
  <2>2. /\ Sent(m) \in Messages /\ Sent(m).state = Waiting(m.qos)
        /\ Sent(m).id = m.id /\ Sent(m).mid = m.mid /\ Sent(m).qos = m.qos
    BY <2>1 DEF Messages, States
  <2> QED
    BY <2>1, <2>2 DEF Same
<1> HIDE DEF rel, Sent, p, e
<1>7. \A i \in 1..Len(q) : f[i] = IF i \in rel THEN Sent(q[i]) ELSE q[i]
  OBVIOUS
<1>8. f \in [1..Len(q) -> Messages]
  BY <1>1, <1>6
<1> HIDE DEF f
<1>9. f \in Seq(Messages) /\ Len(f) = Len(q)
  BY <1>1, <1>8, SequenceOf
<1>10. \A i \in 1..Len(q) :
         /\ Same(q[i], out'[i])
         /\ \/ out'[i] = q[i]
            \/ /\ q[i].state = "invalid"
               /\ out'[i].state \in {"wait_for_puback", "wait_for_pubrec"}
  <2> SUFFICES ASSUME NEW i \in 1..Len(q)
               PROVE  /\ Same(q[i], out'[i])
                      /\ \/ out'[i] = q[i]
                         \/ /\ q[i].state = "invalid"
                            /\ out'[i].state \in {"wait_for_puback", "wait_for_pubrec"}
    OBVIOUS
  <2>1. CASE i \in rel
    BY <1>1, <1>2, <1>3, <1>6, <1>7, <2>1
  <2>2. CASE i \notin rel
    BY <1>3, <1>7, <2>2 DEF Same
  <2> QED
    BY <2>1, <2>2
<1>11. /\ p \in Seq(Messages) /\ Len(p) \in Nat
       /\ \A n \in 1..Len(p) : e[n] \in rel /\ p[n] = q[e[n]]
       /\ \A m, n \in 1..Len(p) : m < n => e[m] < e[n]
  <2>1. /\ p \in Seq(Messages)
        /\ \A n \in 1..Len(p) : e[n] \in rel /\ p[n] = q[e[n]]
        /\ \A m, n \in 1..Len(p) : m < n => e[m] < e[n]
    BY <1>2, PickFacts DEF p, e
  <2> QED
    BY <2>1, LenProperties
<1>12. \A m \in Messages : PUBLISH(m) \in UpPackets /\ PUBLISH(m).mid = m.mid
  BY DEF PUBLISH, Pkt, Messages, UpPackets
<1>13. \A n \in 1..Len(p) : s[n] = PUBLISH(p[n])
  OBVIOUS
<1>14. \A n \in 1..Len(p) : p[n] \in Messages
  BY <1>11, ElementOfSeq
<1>15. s \in [1..Len(p) -> UpPackets]
  BY <1>12, <1>14
<1> HIDE DEF s
<1>16. s \in Seq(UpPackets) /\ Len(s) = Len(p)
  BY <1>11, <1>15, SequenceOf
<1>17. ASSUME NEW n \in 1..Len(s)
       PROVE  \E i \in 1..Len(q) : /\ q[i].state = "invalid" /\ out'[i].state # "invalid"
                                   /\ s[n] = PUBLISH(q[i])
  <2>1. e[n] \in rel /\ e[n] \in 1..Len(q) /\ s[n] = PUBLISH(q[e[n]])
    BY <1>2, <1>11, <1>13, <1>16
  <2>2. out'[e[n]].state # "invalid"
    BY <1>1, <1>3, <1>6, <1>7, <2>1
  <2> QED
    BY <1>2, <2>1, <2>2
<1>18. ASSUME NEW k \in 1..Len(s), NEW n \in 1..Len(s), s[k].mid = s[n].mid PROVE k = n
  <2>1. /\ e[k] \in 1..Len(q) /\ e[n] \in 1..Len(q) /\ q[e[k]].mid = q[e[n]].mid
    <3>1. k \in 1..Len(p) /\ n \in 1..Len(p)
      BY <1>16
    <3>2. /\ e[k] \in 1..Len(q) /\ s[k] = PUBLISH(q[e[k]])
          /\ e[n] \in 1..Len(q) /\ s[n] = PUBLISH(q[e[n]])
      BY <1>2, <1>11, <1>13, <3>1
    <3>3. q[e[k]] \in Messages /\ q[e[n]] \in Messages
      BY <3>2, ElementOfSeq
    <3> QED
      BY <1>12, <1>18, <3>2, <3>3
  <2>2. e[k] = e[n]
    BY <2>1 DEF Unique
  <2>3. ~(k < n) /\ ~(n < k)
    BY <1>11, <1>16, <2>1, <2>2
  <2> QED
    BY <1>11, <1>16, <2>3
<1>19. CASE sock = "none"
  <2> DEFINE t == <<>>
  <2>1. t \in Seq(UpPackets) /\ up' = up \o t /\ 1..Len(t) = {}
    BY <1>4, <1>19, ConcatEmptySeq
  <2>2. \E r \in Seq(UpPackets) : /\ up' = up \o r /\ r = <<>> /\ 1..Len(r) = {}
    BY <2>1
  <2> QED
    BY <1>3, <1>9, <1>10, <2>2
<1>20. CASE sock # "none"
  BY <1>3, <1>5, <1>9, <1>10, <1>16, <1>17, <1>18, <1>20
<1> QED
  BY <1>19, <1>20

(* The list q takes the place of the client's, what it holds of its next   *)
(* messages is sent.                                                       *)
LEMMA ReleaseLine ==
  ASSUME up \in Seq(UpPackets), sock' = sock,
         NEW q \in Seq(Messages), Unique(q), NEW quota, ReleaseToInflight(q, quota),
         \A m \in Entries(q) : MessageInv(m),
         \A i \in 1..Len(up) : UpInv(Entries(q), up[i]),
         \A i \in 1..Len(down') : DownInv(Entries(q), down'[i]),
         OneEach, AnswersLast(down'), \A mid : InDown(mid)' => InDown(mid)
  PROVE  /\ up' \in Seq(UpPackets) /\ (NoConnect' <=> NoConnect)
         /\ \A m \in Listed' : MessageInv(m)'
         /\ \A i \in 1..Len(up') : UpInv(Listed', up'[i])
         /\ \A i \in 1..Len(down') : DownInv(Listed', down'[i])
         /\ OneEach' /\ AnswersLast(down)'
<1>1. /\ out' \in Seq(Messages) /\ Len(out') = Len(q)
      /\ \A i \in 1..Len(q) :
           /\ Same(q[i], out'[i])
           /\ \/ out'[i] = q[i]
              \/ /\ q[i].state = "invalid"
                 /\ out'[i].state \in {"wait_for_puback", "wait_for_pubrec"}
  BY ReleaseFacts
<1>2. PICK s \in Seq(UpPackets) :
        /\ up' = up \o s /\ (sock = "none" => s = <<>>)
        /\ \A n \in 1..Len(s) :
             \E i \in 1..Len(q) : /\ q[i].state = "invalid" /\ out'[i].state # "invalid"
                                  /\ s[n] = PUBLISH(q[i])
        /\ \A k, n \in 1..Len(s) : s[k].mid = s[n].mid => k = n
  BY ReleaseFacts
<1>3. \A i \in 1..Len(q) : q[i] \in Entries(q) /\ PUBLISH(q[i]).mid = q[i].mid
                           /\ PUBLISH(q[i]).kind = "PUBLISH"
  BY DEF Entries, PUBLISH, Pkt
<1>4. \A n \in 1..Len(s) :
        \E i \in 1..Len(q) : /\ q[i].state = "invalid" /\ out'[i].state # "invalid"
                             /\ s[n] = PUBLISH(q[i]) /\ s[n].mid = q[i].mid
                             /\ s[n].kind = "PUBLISH"
                             /\ ~InUp(q[i].mid) /\ ~InDown(q[i].mid)
  <2> SUFFICES ASSUME NEW n \in 1..Len(s)
               PROVE  \E i \in 1..Len(q) : /\ q[i].state = "invalid" /\ out'[i].state # "invalid"
                                           /\ s[n] = PUBLISH(q[i]) /\ s[n].mid = q[i].mid
                                           /\ s[n].kind = "PUBLISH"
                                           /\ ~InUp(q[i].mid) /\ ~InDown(q[i].mid)
    OBVIOUS
  <2>1. PICK i \in 1..Len(q) : /\ q[i].state = "invalid" /\ out'[i].state # "invalid"
                               /\ s[n] = PUBLISH(q[i])
    BY <1>2
  <2>2. MessageInv(q[i])
    BY <1>3
  <2>3. ~InUp(q[i].mid) /\ ~InDown(q[i].mid)
    BY <2>1, <2>2 DEF MessageInv
  <2> QED
    BY <1>3, <2>1, <2>3
<1>5. /\ up' \in Seq(UpPackets)
      /\ \A i \in 1..Len(up') : \/ i \in 1..Len(up) /\ up'[i] = up[i]
                                \/ \E n \in 1..Len(s) : up'[i] = s[n]
      /\ \A mid : InUp(mid)' => InUp(mid) \/ \E n \in 1..Len(s) : s[n].mid = mid
      /\ \A mid : PublishInUp(mid)' => \/ PublishInUp(mid)
                                       \/ \E n \in 1..Len(s) : s[n].mid = mid
      /\ \A mid : OnLine(mid)' => OnLine(mid) \/ \E n \in 1..Len(s) : s[n].mid = mid
      /\ NoConnect' <=> NoConnect
      /\ OneEach'
  <2>1. CASE sock = "none"
    <3>1. up' = up
      BY <1>2, <2>1, ConcatEmptySeq
    <3> QED
      BY <2>1, <3>1 DEF InUp, PublishInUp, OnLine, NoConnect, OneEach, Current
  <2>2. CASE sock # "none"
    <3>1. \A n \in 1..Len(s) : s[n].kind # "CONNECT" /\ ~OnLine(s[n].mid)
      <4> SUFFICES ASSUME NEW n \in 1..Len(s) PROVE s[n].kind # "CONNECT" /\ ~OnLine(s[n].mid)
        OBVIOUS
      <4> QED
        BY <1>4 DEF InUp, OnLine
    <3>2. sock' # "none" /\ up' = up \o s /\ \A k, n \in 1..Len(s) : s[k].mid = s[n].mid => k = n
      BY <1>2, <2>2
    <3>3. \A n \in 1..Len(s) : s[n].kind # "CONNECT"
      BY <3>1
    <3>4. /\ up' \in Seq(UpPackets)
          /\ \A i \in 1..Len(up') : \/ i \in 1..Len(up) /\ up'[i] = up[i]
                                    \/ \E n \in 1..Len(s) : up'[i] = s[n]
          /\ \A mid : InUp(mid)' => InUp(mid) \/ \E n \in 1..Len(s) : s[n].mid = mid
          /\ \A mid : PublishInUp(mid)' => \/ PublishInUp(mid)
                                           \/ \E n \in 1..Len(s) : /\ s[n].mid = mid
                                                                   /\ s[n].kind = "PUBLISH"
          /\ \A mid : OnLine(mid)' => OnLine(mid) \/ \E n \in 1..Len(s) : s[n].mid = mid
          /\ NoConnect' <=> NoConnect
      BY <2>2, <3>2, <3>3, SentFacts
    <3>5. OneEach'
      BY <2>2, <3>1, <3>2, <3>3, SentFacts
    <3> QED
      BY <3>4, <3>5
  <2> QED
    BY <2>1, <2>2
<1>6. \A i \in 1..Len(q) : /\ out'[i] \in Listed' /\ Same(q[i], out'[i])
                           /\ HasPubrec(out'[i]) <=> HasPubrec(q[i])
                           /\ ToRetry(out'[i]) => out'[i] = q[i]
                           /\ out'[i].state = "invalid" => out'[i] = q[i]
  BY <1>1 DEF Listed, Entries, HasPubrec, ToRetry, Unpublished, Unreleased
<1>7. \A n \in Listed' : \E i \in 1..Len(q) : n = out'[i]
  BY <1>1 DEF Listed, Entries
<1>8. \A m \in Entries(q) : \E n \in Listed' : Same(m, n) /\ (HasPubrec(n) <=> HasPubrec(m))
  BY <1>6 DEF Entries
<1>9. ASSUME NEW m \in Listed' PROVE MessageInv(m)'
  <2>1. PICK i \in 1..Len(q) : m = out'[i]
    BY <1>7
  <2>2. MessageInv(q[i]) /\ m.mid = q[i].mid /\ m.qos = q[i].qos
    BY <1>3, <1>6, <2>1 DEF Same
  <2>3. \A n \in 1..Len(s) : s[n].mid = m.mid => q[i].state = "invalid" /\ m.state # "invalid"
    <3> SUFFICES ASSUME NEW n \in 1..Len(s), s[n].mid = m.mid
                 PROVE  q[i].state = "invalid" /\ m.state # "invalid"
      OBVIOUS
    <3>1. PICK j \in 1..Len(q) : /\ q[j].state = "invalid" /\ out'[j].state # "invalid"
                                 /\ s[n].mid = q[j].mid
      BY <1>4
    <3>2. i = j
      BY <2>2, <3>1 DEF Unique
    <3> QED
      BY <2>1, <3>1, <3>2
  <2>4. /\ HasPubrec(m) <=> HasPubrec(q[i])
        /\ ToRetry(m) => m = q[i]
        /\ m.state = "invalid" => m = q[i]
    BY <1>6, <2>1
  <2>5. HasPubrec(q[i]) \/ ToRetry(q[i]) => q[i].state # "invalid"
    BY DEF HasPubrec, ToRetry, Unpublished, Unreleased
  <2>6. (HasPubrec(m)' <=> HasPubrec(m)) /\ (ToRetry(m)' <=> ToRetry(m))
    BY DEF HasPubrec, ToRetry
  <2>7. HasPubrec(m) => ~PublishInUp(m.mid)'
    BY <1>5, <2>2, <2>3, <2>4, <2>5 DEF MessageInv
  <2>8. m.state = "invalid" => ~InUp(m.mid)' /\ ~InDown(m.mid)'
    BY <1>5, <2>2, <2>3, <2>4 DEF MessageInv
  <2>9. sock = "connected" /\ ToRetry(m) => ~OnLine(m.mid)' /\ ~InDown(m.mid)'
    BY <1>5, <2>2, <2>3, <2>4, <2>5 DEF MessageInv
  <2>10. m.qos = 1 => ~HasPubrec(m)
    BY <2>2, <2>4 DEF MessageInv
  <2> QED
    BY <2>6, <2>7, <2>8, <2>9, <2>10 DEF MessageInv
<1>10. ASSUME NEW i \in 1..Len(up') PROVE UpInv(Listed', up'[i])
  <2>1. CASE i \in 1..Len(up) /\ up'[i] = up[i]
    <3>1. UpInv(Entries(q), up[i])
      BY <2>1
    <3> QED
      BY <1>8, <2>1, <3>1 DEF UpInv, Same
  <2>2. CASE \E n \in 1..Len(s) : up'[i] = s[n]
    <3>1. PICK j \in 1..Len(q) : up'[i] = PUBLISH(q[j])
      BY <1>2, <2>2
    <3>2. out'[j] \in Listed' /\ Same(q[j], out'[j])
      BY <1>6
    <3> QED
      BY <3>1, <3>2 DEF UpInv, Same, PUBLISH, Pkt
  <2> QED
    BY <1>5, <2>1, <2>2
<1>11. ASSUME NEW i \in 1..Len(down') PROVE DownInv(Listed', down'[i])
  <2>1. DownInv(Entries(q), down'[i])
    OBVIOUS
  <2> QED
    BY <1>8, <2>1 DEF DownInv, Same
<1>12. AnswersLast(down)'
  <2> SUFFICES ASSUME NEW i \in 1..Len(down'), down'[i].kind # "CONNACK"
               PROVE  /\ \A j \in 1..Len(up') : up'[j].mid # down'[i].mid
                      /\ \A j \in 1..Len(down') : j # i => down'[j].mid # down'[i].mid
    BY DEF AnswersLast
  <2>1. /\ \A j \in 1..Len(up) : up[j].mid # down'[i].mid
        /\ \A j \in 1..Len(down') : j # i => down'[j].mid # down'[i].mid
    BY DEF AnswersLast
  <2>2. PICK mid : mid = down'[i].mid
    OBVIOUS
  <2>3. InDown(mid)
    <3>1. InDown(mid)'
      BY <2>2 DEF InDown
    <3> QED
      BY <3>1
  <2>4. \A n \in 1..Len(s) : s[n].mid # mid
    BY <1>4, <2>3
  <2>5. ASSUME NEW j \in 1..Len(up') PROVE up'[j].mid # mid
    <3>1. \/ j \in 1..Len(up) /\ up'[j] = up[j]
          \/ \E n \in 1..Len(s) : up'[j] = s[n]
      BY <1>5
    <3> QED
      BY <2>1, <2>2, <2>4, <3>1
  <2> QED
    BY <2>1, <2>2, <2>5
<1> QED
  BY <1>5, <1>9, <1>10, <1>11, <1>12

(* PUBACK and PUBCOMP: the message is taken off the list. *)
LEMMA AcknowledgeStep ==
  ASSUME RoomForAll, DeliveryInv, down # <<>>, down' = Tail(down), NEW qos,
         \/ Head(down).kind = "PUBACK" /\ qos = 1
         \/ Head(down).kind = "PUBCOMP" /\ qos = 2,
         HandlePubackcomp(Head(down), qos),
         UNCHANGED <<given, last_mid, clean, session, released, breaks>>
  PROVE  DeliveryInv' /\ \E k \in DOMAIN given : Abstract!Acknowledge(k)
<1>1. LineTypes /\ ListInv /\ LineInv /\ SessionInv /\ OneEach
  BY DEF DeliveryInv, LineInv
<1>2. /\ down' \in Seq(DownPackets) /\ NoConnect /\ sock = "active" /\ 1 \in 1..Len(down)
      /\ Head(down) = down[1] /\ down[1] \in DownPackets
      /\ \A i \in 1..Len(down') : \E j \in 1..Len(down) : down'[i] = down[j]
      /\ \A i \in 1..Len(down') : down'[i].kind # "CONNACK"
      /\ \A mid : InDown(mid)' => InDown(mid)
      /\ \A kind, mid : Answered(kind, mid)' => Answered(kind, mid)
      /\ AnswersLast(down')
      /\ \A j \in 1..Len(up) : up[j].mid # down[1].mid
      /\ \A i \in 1..Len(down') : down'[i].mid # down[1].mid
  BY <1>1, ReadDown
<1>3. PICK m \in Listed : m.mid = down[1].mid /\ m.qos = qos
  <2>1. CASE down[1].kind = "PUBACK" /\ qos = 1
    BY <1>1, <1>2, <2>1 DEF LineInv, DownInv
  <2>2. CASE down[1].kind = "PUBCOMP" /\ qos = 2
    <3>1. PICK m \in Listed : m.mid = down[1].mid /\ HasPubrec(m)
      BY <1>1, <1>2, <2>2 DEF LineInv, DownInv
    <3>2. m.qos # 1 /\ m.qos \in 1..2
      BY <1>1, <3>1, EntryFacts DEF LineInv, MessageInv, Messages
    <3> QED
      BY <2>2, <3>1, <3>2
  <2> QED
    BY <1>2, <2>1, <2>2
<1>4. /\ \A n \in Listed : n \in Messages /\ (n.id = m.id \/ n.mid = m.mid => n = m)
      /\ m \in Messages /\ m.id \in Ids
  BY <1>1, EntryFacts
<1>5. released[m.id] > 0
  <2>1. Answered("PUBACK", m.mid) \/ Answered("PUBCOMP", m.mid)
    BY <1>2, <1>3 DEF Answered
  <2> QED
    BY <1>1, <2>1 DEF SessionInv, PassedInv
<1> DEFINE q == Without(out, m.mid)
           quota == Up(out_quota, SendMaximum)
<1>6. out \in Seq(Messages) /\ \A i \in 1..Len(out) : out[i] \in Listed
  BY <1>1 DEF LineTypes, Listed, Entries
<1>7. acked' = acked \cup {m.id} /\ ReleaseToInflight(q, quota) /\ sock' = sock
  <2> DEFINE hit == {i \in 1..Len(out) : out[i].mid = down[1].mid /\ out[i].qos = qos}
  <2>1. PICK i \in 1..Len(out) : out[i] = m
    BY DEF Listed, Entries
  <2>2. i \in hit /\ \A j \in hit : out[j] = m
    BY <1>3, <1>4, <1>6, <2>1
  <2>3. hit # {} /\ {out[j].id : j \in hit} = {m.id}
    BY <2>2
  <2>4. Without(out, down[1].mid) = q
    BY <1>3
  <2>5. IF hit = {} THEN GiveUp /\ out_quota' = quota
        ELSE /\ acked' = acked \cup {out[j].id : j \in hit}
             /\ ReleaseToInflight(Without(out, down[1].mid), quota)
             /\ UNCHANGED sock
    BY <1>2 DEF HandlePubackcomp
  <2> HIDE DEF hit, q, quota
  <2> QED
    BY <2>3, <2>4, <2>5
<1>8. /\ q \in Seq(Messages)
      /\ \A n \in 1..Len(q) : \E i \in 1..Len(out) : out[i].mid # m.mid /\ q[n] = out[i]
      /\ \A i \in 1..Len(out) : out[i].mid # m.mid => \E n \in 1..Len(q) : q[n] = out[i]
  <2>1. q \in Seq(Messages)
    BY <1>6, WithoutFacts
  <2>2. out \in Seq(Messages)
    BY <1>6
  <2>3. ASSUME NEW n \in 1..Len(q)
        PROVE  \E i \in 1..Len(out) : out[i].mid # m.mid /\ q[n] = out[i]
    BY <2>2, WithoutFrom
  <2>4. ASSUME NEW i \in 1..Len(out), out[i].mid # m.mid
        PROVE  \E n \in 1..Len(q) : q[n] = out[i]
    BY <2>2, <2>4, WithoutKeeps
  <2> HIDE DEF q
  <2> QED
    BY <2>1, <2>3, <2>4
<1>9. \A k, n \in 1..Len(q) : q[k].mid = q[n].mid => k = n
  <2>1. \A i, j \in 1..Len(out) : out[i].mid = out[j].mid => i = j
    BY <1>1 DEF ListInv, Unique
  <2> QED
    BY <1>6, <2>1, WithoutUnique
<1> HIDE DEF q, quota
<1>10. Entries(q) = Listed \ {m}
  <2>1. ASSUME NEW n \in Entries(q) PROVE n \in Listed \ {m}
    <3>1. PICK k \in 1..Len(q) : n = q[k]
      BY DEF Entries
    <3>2. PICK i \in 1..Len(out) : out[i].mid # m.mid /\ q[k] = out[i]
      BY <1>8
    <3> QED
      BY <3>1, <3>2 DEF Listed, Entries
  <2>2. ASSUME NEW n \in Listed \ {m} PROVE n \in Entries(q)
    <3>1. PICK i \in 1..Len(out) : n = out[i]
      BY DEF Listed, Entries
    <3>2. n.mid # m.mid
      BY <1>4
    <3> QED
      BY <1>8, <3>1, <3>2 DEF Entries
  <2> QED
    BY <2>1, <2>2
<1>11. Unique(q)
  <2> SUFFICES ASSUME NEW k \in 1..Len(q), NEW n \in 1..Len(q), k # n
               PROVE  q[k].id # q[n].id /\ q[k].mid # q[n].mid
    BY DEF Unique
  <2>1. q[k] \in Listed /\ q[n] \in Listed
    BY <1>10 DEF Entries
  <2>2. q[k].mid # q[n].mid
    BY <1>9
  <2> QED
    BY <1>1, <2>1, <2>2, EntryFacts
<1>12. UNCHANGED <<given, last_mid, clean, sock, inflight, queued, in_quota, released>>
  BY <1>7 DEF session
<1>13. /\ out' \in Seq(Messages) /\ Len(out') = Len(q)
       /\ \A i \in 1..Len(q) :
            /\ Same(q[i], out'[i])
            /\ \/ out'[i] = q[i]
               \/ /\ q[i].state = "invalid"
                  /\ out'[i].state \in {"wait_for_puback", "wait_for_pubrec"}
  <2>1. up \in Seq(UpPackets)
    BY <1>1 DEF LineTypes
  <2> QED
    BY <1>7, <1>8, <1>11, <2>1, ReleaseFacts
<1>14. /\ up' \in Seq(UpPackets) /\ (NoConnect' <=> NoConnect)
       /\ \A n \in Listed' : MessageInv(n)'
       /\ \A i \in 1..Len(up') : UpInv(Listed', up'[i])
       /\ \A i \in 1..Len(down') : DownInv(Listed', down'[i])
       /\ OneEach' /\ AnswersLast(down)'
  <2>1. \A n \in Entries(q) : MessageInv(n)
    BY <1>1, <1>10 DEF LineInv
  <2>2. \A i \in 1..Len(up) : UpInv(Entries(q), up[i])
    <3> SUFFICES ASSUME NEW i \in 1..Len(up) PROVE UpInv(Entries(q), up[i])
      OBVIOUS
    <3>1. UpInv(Listed, up[i]) /\ up[i].mid # m.mid
      BY <1>1, <1>2, <1>3 DEF LineInv
    <3> QED
      BY <1>10, <3>1 DEF UpInv
  <2>3. \A i \in 1..Len(down') : DownInv(Entries(q), down'[i])
    <3> SUFFICES ASSUME NEW i \in 1..Len(down') PROVE DownInv(Entries(q), down'[i])
      OBVIOUS
    <3>1. DownInv(Listed, down'[i]) /\ down'[i].mid # m.mid
      BY <1>1, <1>2, <1>3 DEF LineInv
    <3> QED
      BY <1>10, <3>1 DEF DownInv
  <2>4. up \in Seq(UpPackets)
    BY <1>1 DEF LineTypes
  <2> QED
    BY <1>1, <1>2, <1>7, <1>8, <1>11, <2>1, <2>2, <2>3, <2>4, ReleaseLine
<1>15. LineTypes'
  <2>1. acked' \subseteq Ids'
    BY <1>1, <1>4, <1>7, <1>12 DEF LineTypes, Ids
  <2> QED
    BY <1>1, <1>2, <1>12, <1>13, <1>14, <2>1 DEF LineTypes
<1>16. ListInv'
  <2>1. \A i \in 1..Len(q) : Same(q[i], out'[i])
    BY <1>13
  <2>2. \A n \in Entries(q) : n.id \in Ids' /\ n.qos = given'[n.id]
    BY <1>1, <1>10, <1>12 DEF ListInv, Ids
  <2>3. ASSUME NEW k \in Ids' PROVE k \in acked' <=> \A i \in 1..Len(q) : q[i].id # k
    <3>1. k \in Ids
      BY <1>12 DEF Ids
    <3>2. k \in acked <=> \A n \in Listed : n.id # k
      BY <1>1, <3>1 DEF ListInv, KeptUntilAcked, Listed, Entries
    <3>3. (\A i \in 1..Len(q) : q[i].id # k) <=> \A n \in Listed \ {m} : n.id # k
      <4>1. (\A i \in 1..Len(q) : q[i].id # k) <=> \A n \in Entries(q) : n.id # k
        BY DEF Entries
      <4> QED
        BY <1>10, <4>1
    <3>4. k \in acked' <=> k \in acked \/ k = m.id
      BY <1>7
    <3>5. \A n \in Listed \ {m} : n.id # m.id
      BY <1>4
    <3> QED
      BY <3>2, <3>3, <3>4, <3>5
  <2> QED
    BY <1>8, <1>11, <1>13, <2>1, <2>2, <2>3, ListKept
<1>17. LineInv'
  <2>1. ConnectionInv'
    BY <1>2, <1>12, <1>14 DEF ConnectionInv
  <2> QED
    BY <1>14, <2>1 DEF LineInv
<1>18. SessionInv'
  <2>1. \A i \in 1..Len(q) : /\ out'[i] \in Listed' /\ Same(q[i], out'[i])
                             /\ HasPubrec(out'[i]) <=> HasPubrec(q[i])
    BY <1>13 DEF Listed, Entries, HasPubrec, Unreleased
  <2>2. \A n \in Listed' : \E k \in Listed : Same(k, n) /\ (HasPubrec(n) <=> HasPubrec(k))
    <3> SUFFICES ASSUME NEW n \in Listed'
                 PROVE  \E k \in Listed : Same(k, n) /\ (HasPubrec(n) <=> HasPubrec(k))
      OBVIOUS
    <3>1. PICK i \in 1..Len(q) : n = out'[i]
      BY <1>13 DEF Listed, Entries
    <3>2. q[i] \in Listed
      BY <1>10 DEF Entries
    <3> QED
      BY <2>1, <3>1, <3>2
  <2>3. \A k \in Listed : k.qos = 2 /\ released[k.id] = 0 => \E n \in Listed' : Same(k, n)
    <3> SUFFICES ASSUME NEW k \in Listed, released[k.id] = 0 PROVE \E n \in Listed' : Same(k, n)
      OBVIOUS
    <3>1. k \in Entries(q)
      BY <1>5, <1>10
    <3>2. PICK i \in 1..Len(q) : k = q[i]
      BY <3>1 DEF Entries
    <3> QED
      BY <2>1, <3>2
  <2> QED
    BY <1>1, <1>2, <1>12, <2>2, <2>3, SessionKept
<1>19. Abstract!Acknowledge(m.id) /\ m.id \in DOMAIN given
  <2>1. m.id \in DOMAIN given
    BY <1>1, <1>4, LenProperties DEF LineTypes, Ids
  <2> QED
    BY <1>5, <1>7, <1>12, <2>1 DEF Abstract!Acknowledge
<1> QED
  BY <1>15, <1>16, <1>17, <1>18, <1>19 DEF DeliveryInv

LEMMA PublishStep ==
  ASSUME RoomForAll, DeliveryInv, NEW qos \in 1..2, Publish(qos)
  PROVE  DeliveryInv' /\ Abstract!Give
<1>1. LineTypes /\ ListInv /\ LineInv /\ SessionInv /\ OneEach
  BY DEF DeliveryInv, LineInv
<1> DEFINE m == [id |-> Len(given) + 1, mid |-> NextMid, qos |-> qos, state |-> "invalid"]
           q == Append(out, m)
<1>2. /\ Len(given) < MaxGiven /\ ~Has(out, NextMid)
      /\ given' = Append(given, qos) /\ released' = Append(released, 0) /\ last_mid' = NextMid
      /\ UNCHANGED <<sock, acked, clean, down, inflight, queued, in_quota>>
  BY DEF Publish, session
<1>3. ReleaseToInflight(q, out_quota)
  BY DEF Publish, MessageQueue
<1>4. /\ Len(given) \in Nat /\ NextMid \in 1..MaxMid
      /\ m \in Messages /\ m.id = Len(given) + 1 /\ m.mid = NextMid /\ m.qos = qos
      /\ m.state = "invalid"
  <2>1. Len(given) \in Nat /\ last_mid \in 0..MaxMid
    BY <1>1, LenProperties DEF LineTypes
  <2>2. NextMid \in 1..MaxMid
    BY <2>1 DEF NextMid, RoomForAll
  <2> QED
    BY <2>1, <2>2 DEF Messages, States, RoomForAll
<1> HIDE DEF m
<1>5. /\ out \in Seq(Messages) /\ q \in Seq(Messages) /\ Len(out) \in Nat /\ Len(q) = Len(out) + 1
      /\ \A i \in 1..Len(out) : q[i] = out[i]
      /\ q[Len(out) + 1] = m
  BY <1>1, <1>4, AppendFacts DEF LineTypes
<1>6. /\ Len(out) + 1 \in 1..Len(q) /\ \A i \in 1..Len(out) : i \in 1..Len(q)
      /\ \A i \in 1..Len(q) : \/ i \in 1..Len(out) /\ q[i] = out[i] /\ out[i] \in Listed
                              \/ i = Len(out) + 1 /\ q[i] = m
  BY <1>5 DEF Listed, Entries
<1> HIDE DEF q
<1>7. Entries(q) = Listed \cup {m}
  BY <1>5, <1>6 DEF Entries, Listed
<1>8. \A n \in Listed : /\ n \in Messages /\ n.id \in Ids /\ n.id # m.id /\ n.mid # m.mid
  <2>1. \A n \in Listed : n \in Messages /\ n.id \in Ids
    BY <1>1, EntryFacts
  <2>2. \A n \in Listed : n.mid # m.mid
    BY <1>2, <1>4 DEF Has, Listed, Entries
  <2> QED
    BY <1>4, <2>1, <2>2 DEF Ids
<1>9. Unique(q)
  <2> SUFFICES ASSUME NEW i \in 1..Len(q), NEW j \in 1..Len(q), i # j
               PROVE  q[i].id # q[j].id /\ q[i].mid # q[j].mid
    BY DEF Unique
  <2>1. CASE i \in 1..Len(out) /\ j \in 1..Len(out)
    BY <1>1, <1>5, <2>1 DEF ListInv, Unique
  <2>2. CASE i = Len(out) + 1 /\ j \in 1..Len(out)
    BY <1>5, <1>6, <1>8, <2>2
  <2>3. CASE i \in 1..Len(out) /\ j = Len(out) + 1
    BY <1>5, <1>6, <1>8, <2>3
  <2> QED
    BY <1>6, <2>1, <2>2, <2>3
<1>10. ~InUp(m.mid) /\ ~InDown(m.mid)
  <2>1. ASSUME NEW i \in 1..Len(up), up[i].mid = m.mid PROVE FALSE
    <3>1. up[i] \in UpPackets /\ UpInv(Listed, up[i]) /\ up[i].mid # 0
      BY <1>1, <1>4, <2>1, ElementOfSeq DEF LineTypes, LineInv, Messages
    <3> QED
      BY <1>8, <2>1, <3>1 DEF UpPackets, UpInv
  <2>2. ASSUME NEW i \in 1..Len(down), down[i].mid = m.mid PROVE FALSE
    <3>1. down[i] \in DownPackets /\ DownInv(Listed, down[i]) /\ down[i].mid # 0
      BY <1>1, <1>4, <2>2, ElementOfSeq DEF LineTypes, LineInv, Messages
    <3> QED
      BY <1>8, <2>2, <3>1 DEF DownPackets, DownInv
  <2> QED
    BY <2>1, <2>2 DEF InUp, InDown
<1>11. ~HasPubrec(m) /\ ~ToRetry(m)
  BY <1>4 DEF HasPubrec, ToRetry, Unpublished, Unreleased
<1>12. /\ out' \in Seq(Messages) /\ Len(out') = Len(q)
       /\ \A i \in 1..Len(q) :
            /\ Same(q[i], out'[i])
            /\ \/ out'[i] = q[i]
               \/ /\ q[i].state = "invalid"
                  /\ out'[i].state \in {"wait_for_puback", "wait_for_pubrec"}
  <2>1. up \in Seq(UpPackets)
    BY <1>1 DEF LineTypes
  <2> QED
    BY <1>3, <1>5, <1>9, <2>1, ReleaseFacts
<1>13. /\ up' \in Seq(UpPackets) /\ (NoConnect' <=> NoConnect)
       /\ \A n \in Listed' : MessageInv(n)'
       /\ \A i \in 1..Len(up') : UpInv(Listed', up'[i])
       /\ \A i \in 1..Len(down') : DownInv(Listed', down'[i])
       /\ OneEach' /\ AnswersLast(down)'
  <2>1. \A n \in Entries(q) : MessageInv(n)
    <3>1. MessageInv(m)
      BY <1>10, <1>11 DEF MessageInv
    <3> QED
      BY <1>1, <1>7, <3>1 DEF LineInv
  <2>2. \A i \in 1..Len(up) : UpInv(Entries(q), up[i])
    BY <1>1, <1>7 DEF LineInv, UpInv
  <2>3. \A i \in 1..Len(down') : DownInv(Entries(q), down'[i])
    BY <1>1, <1>2, <1>7 DEF LineInv, DownInv
  <2>4. up \in Seq(UpPackets) /\ AnswersLast(down')
    <3>1. up \in Seq(UpPackets) /\ AnswersLast(down) /\ down' = down
      BY <1>1, <1>2 DEF LineTypes, LineInv
    <3> QED
      BY <3>1
  <2>5. \A mid : InDown(mid)' => InDown(mid)
    BY <1>2 DEF InDown
  <2> QED
    BY <1>1, <1>2, <1>3, <1>5, <1>9, <2>1, <2>2, <2>3, <2>4, <2>5, ReleaseLine
<1>14. /\ given' \in Seq(1..2) /\ Len(given') = Len(given) + 1
       /\ \A k \in Ids : given'[k] = given[k]
       /\ given'[Len(given) + 1] = qos
  BY <1>1, <1>2, AppendFacts DEF LineTypes, Ids
<1>15. /\ released' \in Seq(Nat) /\ Len(released') = Len(given) + 1
       /\ \A k \in Ids : released'[k] = released[k]
       /\ released'[Len(given) + 1] = 0
  BY <1>1, <1>2, AppendFacts DEF LineTypes, Ids
<1>16. Ids' = Ids \cup {m.id} /\ m.id \notin Ids
  BY <1>4, <1>14 DEF Ids
<1>17. LineTypes'
  <2>1. Len(given') <= MaxGiven
    BY <1>2, <1>4, <1>14 DEF RoomForAll
  <2>2. last_mid' \in 0..MaxMid
    BY <1>2, <1>4 DEF RoomForAll
  <2>3. acked' \subseteq Ids'
    BY <1>1, <1>2, <1>16 DEF LineTypes
  <2>4. /\ given' \in Seq(1..2) /\ released' \in Seq(Nat) /\ Len(released') = Len(given')
        /\ out' \in Seq(Messages) /\ up' \in Seq(UpPackets)
    BY <1>12, <1>13, <1>14, <1>15
  <2>5. UNCHANGED <<sock, clean, down, inflight, queued, in_quota>>
    BY <1>2
  <2> QED
    BY <1>1, <2>1, <2>2, <2>3, <2>4, <2>5 DEF LineTypes
<1>18. ListInv'
  <2>1. \A i \in 1..Len(q) : Same(q[i], out'[i])
    BY <1>12
  <2>2. ASSUME NEW n \in Entries(q) PROVE n.id \in Ids' /\ n.qos = given'[n.id]
    <3>1. CASE n \in Listed
      BY <1>1, <1>8, <1>14, <1>16, <3>1 DEF ListInv
    <3>2. CASE n = m
      BY <1>4, <1>14, <1>16, <3>2
    <3> QED
      BY <1>7, <3>1, <3>2
  <2>3. ASSUME NEW k \in Ids' PROVE k \in acked' <=> \A i \in 1..Len(q) : q[i].id # k
    <3>1. (\A i \in 1..Len(q) : q[i].id # k) <=> \A n \in Listed \cup {m} : n.id # k
      <4>1. (\A i \in 1..Len(q) : q[i].id # k) <=> \A n \in Entries(q) : n.id # k
        BY DEF Entries
      <4> QED
        BY <1>7, <4>1
    <3>2. CASE k \in Ids
      <4>1. k \in acked <=> \A n \in Listed : n.id # k
        BY <1>1, <3>2 DEF ListInv, KeptUntilAcked, Listed, Entries
      <4> QED
        BY <1>2, <1>16, <3>1, <3>2, <4>1
    <3>3. CASE k = m.id
      <4>1. k \notin acked
        BY <1>1, <1>16, <3>3 DEF LineTypes
      <4> QED
        BY <1>2, <3>1, <3>3, <4>1
    <3> QED
      BY <1>16, <3>2, <3>3
  <2> QED
    BY <1>5, <1>9, <1>12, <2>1, <2>2, <2>3, ListKept
<1>19. LineInv'
  <2>1. ConnectionInv'
    <3>1. ConnectionInv /\ sock' = sock /\ down' = down /\ (NoConnect' <=> NoConnect)
      BY <1>1, <1>2, <1>13 DEF LineInv
    <3> QED
      BY <3>1 DEF ConnectionInv
  <2> QED
    BY <1>13, <2>1 DEF LineInv
<1>20. SessionInv'
  <2>1. \A i \in 1..Len(q) : /\ out'[i] \in Listed' /\ Same(q[i], out'[i])
                             /\ HasPubrec(out'[i]) <=> HasPubrec(q[i])
    BY <1>12 DEF Listed, Entries, HasPubrec, Unreleased
  <2>2. ASSUME NEW n \in Listed'
        PROVE  \/ \E k \in Listed : Same(k, n) /\ (HasPubrec(n) <=> HasPubrec(k))
               \/ ~HasPubrec(n) /\ released'[n.id] = 0 /\ ~InDown(n.mid)
    <3>1. PICK i \in 1..Len(q) : n = out'[i]
      BY <1>12 DEF Listed, Entries
    <3>2. CASE q[i] = m
      <4>1. n.id = m.id /\ n.mid = m.mid /\ ~HasPubrec(n)
        BY <1>11, <2>1, <3>1, <3>2 DEF Same
      <4> QED
        BY <1>4, <1>10, <1>15, <4>1
    <3>3. CASE q[i] \in Listed
      BY <2>1, <3>1, <3>3
    <3> QED
      BY <1>6, <3>2, <3>3
  <2>3. \A k \in Listed : \E n \in Listed' : Same(k, n)
    <3> SUFFICES ASSUME NEW k \in Listed PROVE \E n \in Listed' : Same(k, n)
      OBVIOUS
    <3>1. k \in Entries(q)
      BY <1>7
    <3>2. PICK i \in 1..Len(q) : k = q[i]
      BY <3>1 DEF Entries
    <3> QED
      BY <2>1, <3>2
  <2>4. \A kind, mid : Answered(kind, mid)' => Answered(kind, mid)
    BY <1>2 DEF Answered
  <2> QED
    BY <1>1, <1>2, <1>15, <2>2, <2>3, <2>4, SessionKept
<1>21. Abstract!Give
  BY <1>2 DEF Abstract!Give
<1> QED
  BY <1>17, <1>18, <1>19, <1>20, <1>21 DEF DeliveryInv

-----------------------------------------------------------------------------
(* Every step of the program is a step that Delivery allows.               *)
LEMMA ClientReadStep ==
  ASSUME RoomForAll, DeliveryInv, ClientRead
  PROVE  DeliveryInv' /\ AbstractStep
<1>1. /\ down # <<>> /\ down' = Tail(down)
      /\ UNCHANGED <<given, last_mid, clean, session, released, breaks>>
  BY DEF ClientRead
<1>2. CASE Head(down).kind = "CONNACK" /\ HandleConnack
  BY <1>1, <1>2, ConnackStep DEF AbstractStep
<1>3. CASE Head(down).kind = "PUBACK" /\ HandlePubackcomp(Head(down), 1)
  BY <1>1, <1>3, AcknowledgeStep DEF AbstractStep, Abstract!Next
<1>4. CASE Head(down).kind = "PUBCOMP" /\ HandlePubackcomp(Head(down), 2)
  BY <1>1, <1>4, AcknowledgeStep DEF AbstractStep, Abstract!Next
<1>5. CASE Head(down).kind = "PUBREC" /\ HandlePubrec(Head(down))
  BY <1>1, <1>5, PubrecStep DEF AbstractStep
<1> QED
  BY <1>2, <1>3, <1>4, <1>5 DEF ClientRead

LEMMA DeliveryInitial ==
  ASSUME RoomForAll, Init
  PROVE  DeliveryInv /\ Abstract!Init
<1>1. /\ given = <<>> /\ out = <<>> /\ last_mid = 0 /\ sock = "none" /\ acked = {}
      /\ clean = FALSE /\ up = <<>> /\ down = <<>> /\ inflight = <<>> /\ queued = <<>>
      /\ in_quota = MaxInflight /\ released = <<>>
  BY DEF Init, RoomForAll
<1>2. LineTypes
  <2>1. /\ given \in Seq(1..2) /\ released \in Seq(Nat) /\ out \in Seq(Messages)
        /\ up \in Seq(UpPackets) /\ down \in Seq(DownPackets) /\ inflight \in Seq(Sessions)
        /\ Len(given) = 0 /\ Len(released) = 0
    BY <1>1
  <2> QED
    BY <1>1, <2>1 DEF LineTypes, RoomForAll
<1>3. Listed = {}
  BY <1>1 DEF Listed, Entries
<1>4. ListInv
  BY <1>1, <1>3 DEF ListInv, Unique, KeptUntilAcked, Ids
<1>5. LineInv
  BY <1>1, <1>3 DEF LineInv, OneEach, AnswersLast, ConnectionInv
<1>6. SessionInv
  BY <1>1, <1>3 DEF SessionInv, RoomForAll
<1> QED
  BY <1>1, <1>2, <1>4, <1>5, <1>6 DEF DeliveryInv, Abstract!Init

LEMMA DeliveryInvStep ==
  ASSUME RoomForAll, DeliveryInv, [Next]_vars
  PROVE  DeliveryInv' /\ AbstractStep
<1>1. CASE UNCHANGED vars
  <2>1. /\ UNCHANGED <<given, out, last_mid, sock, acked, clean>> /\ UNCHANGED <<up, down>>
        /\ UNCHANGED <<inflight, queued, in_quota, released>>
    BY <1>1 DEF vars, client, session
  <2>2. LineTypes'
    BY <2>1 DEF DeliveryInv, LineTypes, Ids
  <2>3. ListInv'
    BY <2>1, SameList DEF DeliveryInv
  <2>4. LineInv'
    BY <2>1 DEF DeliveryInv, LineInv, OneEach, AnswersLast, ConnectionInv, Current, NoConnect,
                Listed, Entries, MessageInv, HasPubrec, ToRetry, InUp, InDown, PublishInUp,
                OnLine, UpInv, DownInv
  <2>5. SessionInv'
    BY <2>1 DEF DeliveryInv, SessionInv, PassedInv, InSession, Answered, HasPubrec, Listed, Entries
  <2> QED
    BY <2>1, <2>2, <2>3, <2>4, <2>5 DEF DeliveryInv, AbstractStep
<1>2. ASSUME NEW qos \in 1..2, Publish(qos) PROVE DeliveryInv' /\ AbstractStep
  BY <1>2, PublishStep DEF AbstractStep, Abstract!Next
<1>3. CASE Reconnect
  BY <1>3, ReconnectStep DEF AbstractStep
<1>4. CASE ClientRead
  BY <1>4, ClientReadStep
<1>5. CASE Break
  BY <1>5, BreakStep DEF AbstractStep
<1>6. CASE BrokerRead \/ BrokerWrite
  BY <1>6, BrokerStep
<1> QED
  BY <1>1, <1>2, <1>3, <1>4, <1>5, <1>6 DEF Next

(* However often the connection breaks, a message is acknowledged only     *)
(* after the broker passed it on, one of QoS 2 is passed on once, and none *)
(* is after its acknowledgement: the code implements Delivery.             *)
THEOREM ImplementsDelivery ==
  ASSUME RoomForAll
  PROVE  Spec => DeliverySpec
<1>1. Init => DeliveryInv /\ Abstract!Init
  BY DeliveryInitial
<1>2. DeliveryInv /\ [Next]_vars => DeliveryInv'
  BY DeliveryInvStep
<1>3. DeliveryInv /\ [Next]_vars => [Abstract!Next]_<<given, released, acked>>
  BY DeliveryInvStep DEF AbstractStep
<1> QED
  BY <1>1, <1>2, <1>3, PTL DEF Spec, DeliverySpec, Abstract!Spec

-----------------------------------------------------------------------------
(* What holds of list and session however little room there is.            *)
AnyRoom ==
  /\ MaxGiven \in Nat /\ MaxMid \in Nat \ {0} /\ SendMaximum \in Nat /\ MaxInflight \in Nat
  /\ MaxQueued \in Nat /\ CleanSession \subseteq BOOLEAN

PublishTypes ==
  /\ given \in Seq(1..2) /\ released \in Seq(Nat) /\ Len(released) = Len(given)
  /\ acked \subseteq Ids
  /\ out \in Seq(Messages) /\ out_quota \in 0..SendMaximum /\ last_mid \in 0..MaxMid
  /\ sock \in {"none", "connected", "active"} /\ clean \in BOOLEAN
  /\ up \in Seq(UpPackets) /\ down \in Seq(DownPackets)
  /\ inflight \in Seq(Sessions) /\ queued \in Seq(Sessions) /\ in_quota \in 0..MaxInflight

Stores == Entries(inflight) \cup Entries(queued)

NumbersInv ==
  /\ \A m \in Listed : m.id \in Ids /\ m.mid <= MaxMid
  /\ \A p \in Entries(up) : p.mid <= MaxMid /\ (p.kind = "PUBLISH" => p.id \in Ids)
  /\ \A p \in Entries(down) : p.mid <= MaxMid
  /\ \A m \in Stores : m.id \in Ids /\ m.mid <= MaxMid

Distinct(s) == \A i, j \in 1..Len(s) : s[i].mid = s[j].mid => i = j
HeldOnce ==
  /\ Distinct(inflight) /\ Distinct(queued)
  /\ \A i \in 1..Len(inflight), j \in 1..Len(queued) : inflight[i].mid # queued[j].mid

BooksInv == PublishTypes /\ NumbersInv /\ Unique(out) /\ KeptUntilAcked /\ HeldOnce

(* The quota is not exceeded by what it releases: those that are held back *)
(* up to the last of them are no more than it allows.                      *)
LEMMA QuotaCovers ==
  ASSUME NEW q \in Seq(Messages), NEW quota \in Nat
  PROVE  Cardinality(ToRelease(q, quota)) \in 0..quota
<1> DEFINE held == {i \in 1..Len(q) : q[i].state = "invalid"}
           n == IF sock = "none" THEN Lower(1, quota) ELSE quota
           upto(i) == {j \in held : j <= i}
           rel == ToRelease(q, quota)
<1>1. n \in 0..quota /\ Len(q) \in Nat
  BY LenProperties DEF Lower
<1>2. rel = {i \in held : Cardinality(upto(i)) <= n}
  BY DEF ToRelease
<1>3. held \in SUBSET (1..Len(q)) /\ rel \in SUBSET (1..Len(q)) /\ rel \subseteq held
  BY <1>2
<1>4. Cardinality(rel) \in Nat /\ IsFiniteSet(rel)
  BY <1>1, <1>3, FiniteRange
<1>5. CASE rel = {}
  BY <1>5, FS_EmptySet
<1>6. CASE rel # {}
  <2>1. PICK i \in rel : \A j \in rel : j <= i
    BY <1>1, <1>3, <1>6, HasMaximum
  <2>2. rel \subseteq upto(i) /\ upto(i) \in SUBSET (1..Len(q))
    BY <1>3, <2>1
  <2>3. IsFiniteSet(upto(i)) /\ Cardinality(upto(i)) \in Nat
    BY <1>1, <2>2, FiniteRange
  <2>4. Cardinality(rel) <= Cardinality(upto(i))
    BY <2>2, <2>3, FS_Subset
  <2>5. Cardinality(upto(i)) <= n
    BY <1>2, <2>1
  <2>6. \A a, b, c \in Nat : a <= b /\ b <= c /\ c <= quota => a \in 0..quota
    OBVIOUS
  <2> HIDE DEF upto, n
  <2> QED
    BY <1>1, <1>4, <2>3, <2>4, <2>5, <2>6
<1> QED
  BY <1>5, <1>6

(* A list q that takes the place of the client's, with what it releases.   *)
LEMMA ListReleased ==
  ASSUME AnyRoom, up \in Seq(UpPackets), NEW q \in Seq(Messages), Unique(q),
         NEW quota \in 0..SendMaximum, ReleaseToInflight(q, quota),
         \A m \in Entries(q) : m.id \in Ids' /\ m.mid <= MaxMid,
         \A p \in Entries(up) : p.mid <= MaxMid /\ (p.kind = "PUBLISH" => p.id \in Ids'),
         \A k \in Ids' : k \in acked' <=> \A i \in 1..Len(q) : q[i].id # k
  PROVE  /\ out' \in Seq(Messages) /\ out_quota' \in 0..SendMaximum /\ up' \in Seq(UpPackets)
         /\ Unique(out)' /\ KeptUntilAcked'
         /\ \A m \in Listed' : m.id \in Ids' /\ m.mid <= MaxMid
         /\ \A p \in Entries(up') : p.mid <= MaxMid /\ (p.kind = "PUBLISH" => p.id \in Ids')
<1>1. /\ out' \in Seq(Messages) /\ Len(out') = Len(q)
      /\ \A i \in 1..Len(q) : Same(q[i], out'[i])
  BY ReleaseFacts
<1>2. PICK s \in Seq(UpPackets) :
        /\ up' = up \o s /\ (sock = "none" => s = <<>>)
        /\ \A n \in 1..Len(s) :
             \E i \in 1..Len(q) : /\ q[i].state = "invalid" /\ out'[i].state # "invalid"
                                  /\ s[n] = PUBLISH(q[i])
        /\ \A k, n \in 1..Len(s) : s[k].mid = s[n].mid => k = n
  BY ReleaseFacts
<1>3. out_quota' \in 0..SendMaximum
  <2>1. Cardinality(ToRelease(q, quota)) \in 0..quota
    BY QuotaCovers
  <2>2. out_quota' = quota \/ out_quota' = quota - Cardinality(ToRelease(q, quota))
    BY DEF ReleaseToInflight
  <2> QED
    BY <2>1, <2>2 DEF AnyRoom
<1>4. Unique(out)' /\ KeptUntilAcked'
  <2>1. \A i \in 1..Len(q) : out'[i].id = q[i].id /\ out'[i].mid = q[i].mid
    BY <1>1 DEF Same
  <2>2. Unique(out)'
    BY <1>1, <2>1 DEF Unique
  <2>3. KeptUntilAcked'
    <3>1. \A k : (\A i \in 1..Len(q) : q[i].id # k) <=> \A i \in 1..Len(out') : out'[i].id # k
      BY <1>1, <2>1
    <3> QED
      BY <3>1 DEF KeptUntilAcked
  <2> QED
    BY <2>2, <2>3
<1>5. \A m \in Listed' : m.id \in Ids' /\ m.mid <= MaxMid
  <2> SUFFICES ASSUME NEW i \in 1..Len(out') PROVE out'[i].id \in Ids' /\ out'[i].mid <= MaxMid
    BY DEF Listed, Entries
  <2>1. q[i] \in Entries(q) /\ Same(q[i], out'[i])
    BY <1>1 DEF Entries
  <2> QED
    BY <2>1 DEF Same
<1>6. /\ up' \in Seq(UpPackets) /\ Len(up') = Len(up) + Len(s) /\ Len(up) \in Nat /\ Len(s) \in Nat
      /\ \A i \in 1..Len(up) : up'[i] = up[i]
      /\ \A i \in 1..Len(s) : up'[Len(up) + i] = s[i]
  BY <1>2, ConcatFacts
<1>7. ASSUME NEW p \in Entries(up')
      PROVE  p.mid <= MaxMid /\ (p.kind = "PUBLISH" => p.id \in Ids')
  <2>1. PICK i \in 1..Len(up') : p = up'[i]
    BY DEF Entries
  <2>2. CASE i \in 1..Len(up)
    BY <1>6, <2>1, <2>2 DEF Entries
  <2>3. CASE i \notin 1..Len(up)
    <3>1. i - Len(up) \in 1..Len(s) /\ i = Len(up) + (i - Len(up))
      BY <1>6, <2>3
    <3>2. p = s[i - Len(up)]
      BY <1>6, <2>1, <3>1
    <3>3. PICK j \in 1..Len(q) : p = PUBLISH(q[j])
      BY <1>2, <3>1, <3>2
    <3>4. q[j] \in Entries(q)
      BY DEF Entries
    <3> QED
      BY <3>3, <3>4 DEF PUBLISH, Pkt
  <2> QED
    BY <2>2, <2>3
<1> QED
  BY <1>1, <1>3, <1>4, <1>5, <1>6, <1>7

(* What a step leaves as it was. *)
LEMMA SessionSame ==
  ASSUME BooksInv, UNCHANGED <<inflight, queued, in_quota>>, Ids \subseteq Ids'
  PROVE  /\ inflight' \in Seq(Sessions) /\ queued' \in Seq(Sessions) /\ in_quota' \in 0..MaxInflight
         /\ HeldOnce' /\ \A m \in Stores' : m.id \in Ids' /\ m.mid <= MaxMid
<1>1. HeldOnce' /\ Stores' = Stores
  BY DEF BooksInv, HeldOnce, Distinct, Stores, Entries
<1>2. /\ inflight \in Seq(Sessions) /\ queued \in Seq(Sessions) /\ in_quota \in 0..MaxInflight
      /\ \A m \in Stores : m.id \in Ids /\ m.mid <= MaxMid
  BY DEF BooksInv, PublishTypes, NumbersInv
<1> QED
  BY <1>1, <1>2

LEMMA ListSame ==
  ASSUME BooksInv, out' \in Seq(Messages), Len(out') = Len(out), UNCHANGED <<given, acked>>,
         \A i \in 1..Len(out) : Same(out[i], out'[i])
  PROVE  /\ Unique(out)' /\ KeptUntilAcked' /\ acked' \subseteq Ids' /\ Ids' = Ids
         /\ \A m \in Listed' : m.id \in Ids' /\ m.mid <= MaxMid
<1>1. \A i \in 1..Len(out) : out'[i].id = out[i].id /\ out'[i].mid = out[i].mid
  BY DEF Same
<1>2. Unique(out) /\ KeptUntilAcked /\ acked \subseteq Ids
      /\ \A m \in Listed : m.id \in Ids /\ m.mid <= MaxMid
  BY DEF BooksInv, PublishTypes, NumbersInv
<1>3. Ids' = Ids /\ acked' = acked
  BY DEF Ids
<1>4. Unique(out)'
  BY <1>1, <1>2 DEF Unique
<1>5. KeptUntilAcked'
  BY <1>1, <1>2, <1>3 DEF KeptUntilAcked
<1>6. \A m \in Listed' : m.id \in Ids' /\ m.mid <= MaxMid
  <2> SUFFICES ASSUME NEW i \in 1..Len(out') PROVE out'[i].id \in Ids' /\ out'[i].mid <= MaxMid
    BY DEF Listed, Entries
  <2>1. out[i] \in Listed
    BY DEF Listed, Entries
  <2> QED
    BY <1>1, <1>2, <1>3, <2>1
<1> QED
  BY <1>2, <1>3, <1>4, <1>5, <1>6

(* What is sent behind what was sent before. *)
LEMMA LineLonger ==
  ASSUME NEW S, NEW q \in Seq(S), NEW s \in Seq(S)
  PROVE  q \o s \in Seq(S) /\ \A p \in Entries(q \o s) : p \in Entries(q) \/ p \in Entries(s)
<1>1. /\ q \o s \in Seq(S) /\ Len(q) \in Nat /\ Len(s) \in Nat /\ Len(q \o s) = Len(q) + Len(s)
      /\ \A i \in 1..Len(q) : (q \o s)[i] = q[i]
      /\ \A i \in 1..Len(s) : (q \o s)[Len(q) + i] = s[i]
  BY ConcatFacts
<1> DEFINE c == q \o s
<1> HIDE DEF c
<1>2. ASSUME NEW i \in 1..Len(c) PROVE c[i] \in Entries(q) \/ c[i] \in Entries(s)
  <2>1. CASE i \in 1..Len(q)
    BY <1>1, <2>1 DEF Entries, c
  <2>2. CASE i \notin 1..Len(q)
    <3>1. i - Len(q) \in 1..Len(s) /\ i = Len(q) + (i - Len(q))
      BY <1>1, <2>2 DEF c
    <3>2. c[i] = s[i - Len(q)]
      BY <1>1, <3>1 DEF c
    <3> QED
      BY <3>1, <3>2 DEF Entries
  <2> QED
    BY <2>1, <2>2
<1>3. \A p \in Entries(c) : p \in Entries(q) \/ p \in Entries(s)
  BY <1>2 DEF Entries
<1> QED
  BY <1>1, <1>3 DEF c

LEMMA LineRead ==
  ASSUME NEW S, NEW q \in Seq(S), q # <<>>
  PROVE  /\ Tail(q) \in Seq(S) /\ Head(q) \in S /\ Head(q) \in Entries(q)
         /\ \A p \in Entries(Tail(q)) : p \in Entries(q)
<1>1. /\ Tail(q) \in Seq(S) /\ Len(Tail(q)) = Len(q) - 1
      /\ Len(q) \in Nat \ {0} /\ Head(q) = q[1] /\ q[1] \in S
      /\ \A i \in 1..Len(q) - 1 : Tail(q)[i] = q[i + 1]
  BY TailFacts
<1>2. \A i \in 1..Len(Tail(q)) : i + 1 \in 1..Len(q) /\ Tail(q)[i] = q[i + 1]
  BY <1>1
<1>3. 1 \in 1..Len(q)
  BY <1>1
<1> QED
  BY <1>1, <1>2, <1>3 DEF Entries

LEMMA LineCut ==
  ASSUME NEW S, NEW q \in Seq(S), NEW n \in 0..Len(q)
  PROVE  SubSeq(q, 1, n) \in Seq(S) /\ \A p \in Entries(SubSeq(q, 1, n)) : p \in Entries(q)
<1>1. /\ SubSeq(q, 1, n) \in Seq(S) /\ Len(SubSeq(q, 1, n)) = n
      /\ \A i \in 1..n : SubSeq(q, 1, n)[i] = q[i]
  BY PrefixFacts
<1>2. Len(q) \in Nat
  BY LenProperties
<1> QED
  BY <1>1, <1>2 DEF Entries

(* The client: mosquitto_publish, ... *)
LEMMA PublishBooks ==
  ASSUME AnyRoom, BooksInv, NEW qos \in 1..2, Publish(qos)
  PROVE  BooksInv'
<1> DEFINE m == [id |-> Len(given) + 1, mid |-> NextMid, qos |-> qos, state |-> "invalid"]
           q == Append(out, m)
<1>1. PublishTypes /\ NumbersInv /\ Unique(out) /\ KeptUntilAcked
  BY DEF BooksInv
<1>2. /\ Len(given) < MaxGiven /\ ~Has(out, NextMid)
      /\ given' = Append(given, qos) /\ released' = Append(released, 0) /\ last_mid' = NextMid
      /\ UNCHANGED <<sock, acked, clean, down, inflight, queued, in_quota>>
  BY DEF Publish, session
<1>3. ReleaseToInflight(q, out_quota)
  BY DEF Publish, MessageQueue
<1>4. /\ Len(given) \in Nat /\ NextMid \in 1..MaxMid
      /\ m \in Messages /\ m.id = Len(given) + 1 /\ m.mid = NextMid
  <2>1. Len(given) \in Nat /\ last_mid \in 0..MaxMid
    BY <1>1, LenProperties DEF PublishTypes
  <2>2. NextMid \in 1..MaxMid
    BY <2>1 DEF NextMid, AnyRoom
  <2> QED
    BY <2>1, <2>2 DEF Messages, States, AnyRoom
<1> HIDE DEF m
<1>5. /\ out \in Seq(Messages) /\ q \in Seq(Messages) /\ Len(out) \in Nat /\ Len(q) = Len(out) + 1
      /\ \A i \in 1..Len(out) : q[i] = out[i]
      /\ q[Len(out) + 1] = m
  BY <1>1, <1>4, AppendFacts DEF PublishTypes
<1>6. /\ Len(out) + 1 \in 1..Len(q) /\ \A i \in 1..Len(out) : i \in 1..Len(q)
      /\ \A i \in 1..Len(q) : \/ i \in 1..Len(out) /\ q[i] = out[i] /\ out[i] \in Listed
                              \/ i = Len(out) + 1 /\ q[i] = m
  BY <1>5 DEF Listed, Entries
<1> HIDE DEF q
<1>7. Entries(q) = Listed \cup {m}
  BY <1>5, <1>6 DEF Entries, Listed
<1>8. \A n \in Listed : n.id \in Ids /\ n.id # m.id /\ n.mid # m.mid
  <2>1. \A n \in Listed : n.id \in Ids
    BY <1>1 DEF NumbersInv
  <2>2. \A n \in Listed : n.mid # m.mid
    BY <1>2, <1>4 DEF Has, Listed, Entries
  <2> QED
    BY <1>4, <2>1, <2>2 DEF Ids
<1>9. Unique(q)
  <2> SUFFICES ASSUME NEW i \in 1..Len(q), NEW j \in 1..Len(q), i # j
               PROVE  q[i].id # q[j].id /\ q[i].mid # q[j].mid
    BY DEF Unique
  <2>1. CASE i \in 1..Len(out) /\ j \in 1..Len(out)
    BY <1>1, <1>5, <2>1 DEF Unique
  <2>2. CASE i = Len(out) + 1 /\ j \in 1..Len(out)
    BY <1>5, <1>6, <1>8, <2>2
  <2>3. CASE i \in 1..Len(out) /\ j = Len(out) + 1
    BY <1>5, <1>6, <1>8, <2>3
  <2> QED
    BY <1>6, <2>1, <2>2, <2>3
<1>10. /\ given' \in Seq(1..2) /\ Len(given') = Len(given) + 1
       /\ released' \in Seq(Nat) /\ Len(released') = Len(given')
  <2>1. given \in Seq(1..2) /\ released \in Seq(Nat) /\ Len(released) = Len(given)
    BY <1>1 DEF PublishTypes
  <2>2. given' \in Seq(1..2) /\ Len(given') = Len(given) + 1
    BY <1>2, <2>1, AppendFacts
  <2>3. released' \in Seq(Nat) /\ Len(released') = Len(released) + 1
    BY <1>2, <2>1, AppendFacts
  <2> QED
    BY <2>1, <2>2, <2>3
<1>11. Ids' = Ids \cup {m.id} /\ m.id \notin Ids
  BY <1>4, <1>10 DEF Ids
<1>12. ASSUME NEW k \in Ids' PROVE k \in acked' <=> \A i \in 1..Len(q) : q[i].id # k
  <2>1. (\A i \in 1..Len(q) : q[i].id # k) <=> \A n \in Listed \cup {m} : n.id # k
    <3>1. (\A i \in 1..Len(q) : q[i].id # k) <=> \A n \in Entries(q) : n.id # k
      BY DEF Entries
    <3> QED
      BY <1>7, <3>1
  <2>2. CASE k \in Ids
    <3>1. k \in acked <=> \A n \in Listed : n.id # k
      BY <1>1, <2>2 DEF KeptUntilAcked, Listed, Entries
    <3> QED
      BY <1>2, <1>11, <2>1, <2>2, <3>1
  <2>3. CASE k = m.id
    <3>1. k \notin acked
      BY <1>1, <1>11, <2>3 DEF PublishTypes
    <3> QED
      BY <1>2, <2>1, <2>3, <3>1
  <2> QED
    BY <1>11, <2>2, <2>3
<1>13. /\ out' \in Seq(Messages) /\ out_quota' \in 0..SendMaximum /\ up' \in Seq(UpPackets)
       /\ Unique(out)' /\ KeptUntilAcked'
       /\ \A n \in Listed' : n.id \in Ids' /\ n.mid <= MaxMid
       /\ \A p \in Entries(up') : p.mid <= MaxMid /\ (p.kind = "PUBLISH" => p.id \in Ids')
  <2>1. up \in Seq(UpPackets) /\ out_quota \in 0..SendMaximum
    BY <1>1 DEF PublishTypes
  <2>2. \A n \in Entries(q) : n.id \in Ids' /\ n.mid <= MaxMid
    BY <1>1, <1>4, <1>7, <1>11 DEF NumbersInv
  <2>3. \A p \in Entries(up) : p.mid <= MaxMid /\ (p.kind = "PUBLISH" => p.id \in Ids')
    BY <1>1, <1>11 DEF NumbersInv
  <2> QED
    BY <1>3, <1>5, <1>9, <1>12, <2>1, <2>2, <2>3, ListReleased
<1>14. /\ inflight' \in Seq(Sessions) /\ queued' \in Seq(Sessions) /\ in_quota' \in 0..MaxInflight
       /\ HeldOnce' /\ \A n \in Stores' : n.id \in Ids' /\ n.mid <= MaxMid
  BY <1>2, <1>11, SessionSame
<1>15. PublishTypes'
  BY <1>1, <1>2, <1>4, <1>10, <1>11, <1>13, <1>14 DEF PublishTypes
<1>16. NumbersInv'
  <2>1. \A p \in Entries(down)' : p.mid <= MaxMid
    BY <1>1, <1>2 DEF NumbersInv, Entries
  <2> QED
    BY <1>13, <1>14, <2>1 DEF NumbersInv
<1> QED
  BY <1>13, <1>14, <1>15, <1>16 DEF BooksInv

(* ... what is done before the client connects, and sends when it has, ... *)
LEMMA ResumedTypes ==
  ASSUME NEW m \in Messages
  PROVE  Resumed(m) \in Messages /\ Same(m, Resumed(m))
<1> DEFINE st == CASE m.qos = 1 -> "publish_qos1"
                   [] m.state = "wait_for_pubrec" -> "publish_qos2"
                   [] m.state = "wait_for_pubcomp" -> "resend_pubrel"
                   [] OTHER -> m.state
<1>1. st \in States
  <2>1. m.state \in States
    BY DEF Messages
  <2>2. CASE m.qos = 1
    BY <2>2 DEF States
  <2>3. CASE m.qos # 1 /\ m.state = "wait_for_pubrec"
    BY <2>3 DEF States
  <2>4. CASE m.qos # 1 /\ m.state = "wait_for_pubcomp"
    BY <2>4 DEF States
  <2>5. CASE m.qos # 1 /\ m.state # "wait_for_pubrec" /\ m.state # "wait_for_pubcomp"
    BY <2>1, <2>5
  <2> QED
    BY <2>2, <2>3, <2>4, <2>5
<1>2. Resumed(m) = [m EXCEPT !.state = st]
  BY DEF Resumed
<1> HIDE DEF st
<1> QED
  BY <1>1, <1>2 DEF Same, Messages

LEMMA RetriesOfList ==
  ASSUME out \in Seq(Messages)
  PROVE  /\ Retries \in Seq(UpPackets)
         /\ \A p \in Entries(Retries) : \E m \in Listed : ToRetry(m) /\ p = Retry(m)
<1> DEFINE I == {i \in 1..Len(out) : out[i].state \in Unpublished \cup Unreleased}
           p == Pick(out, I)
           r == [n \in 1..Len(p) |-> Retry(p[n])]
           e == InOrder(I)
<1>1. Retries = r
  BY DEF Retries, Map
<1>2. I \in SUBSET (1..Len(out)) /\ \A i \in I : out[i] \in Listed /\ ToRetry(out[i])
  BY DEF Listed, Entries, ToRetry
<1> HIDE DEF I, p, e
<1>3. p \in Seq(Messages) /\ \A n \in 1..Len(p) : e[n] \in I /\ p[n] = out[e[n]]
  BY <1>2, PickFacts DEF p, e
<1>4. \A m \in Messages : Retry(m) \in UpPackets
  BY DEF Messages, Retry, PUBLISH, Ack, Pkt, UpPackets
<1>5. /\ Len(p) \in Nat
      /\ \A n \in 1..Len(p) : p[n] \in Messages /\ p[n] \in Listed /\ ToRetry(p[n])
  BY <1>2, <1>3, LenProperties, ElementOfSeq
<1>6. r \in [1..Len(p) -> UpPackets] /\ \A n \in 1..Len(p) : r[n] = Retry(p[n])
  BY <1>4, <1>5
<1> HIDE DEF r
<1>7. r \in Seq(UpPackets) /\ Len(r) = Len(p)
  BY <1>5, <1>6, SequenceOf
<1> QED
  BY <1>1, <1>5, <1>6, <1>7 DEF Entries

LEMMA ReconnectBooks ==
  ASSUME AnyRoom, BooksInv, Reconnect
  PROVE  BooksInv'
<1>1. PublishTypes /\ NumbersInv /\ Unique(out) /\ KeptUntilAcked
  BY DEF BooksInv
<1>2. /\ UNCHANGED <<given, last_mid, acked, clean, inflight, queued, in_quota, released>>
      /\ \/ sock' = "connected" /\ up' = Append(up, Bare("CONNECT")) /\ down' = <<>>
         \/ UNCHANGED <<sock, up, down>>
  BY DEF Reconnect, session
<1>3. Len(out) \in Nat /\ out \in Seq(Messages) /\ \A i \in 1..Len(out) : out[i] \in Messages
  BY <1>1, LenProperties, ElementOfSeq DEF PublishTypes
<1>4. out_quota' \in 0..SendMaximum
  BY <1>3 DEF Reconnect, ReconnectReset, Lower, AnyRoom
<1> DEFINE f == [i \in 1..Len(out) |-> IF i <= SendMaximum THEN Resumed(out[i])
                                       ELSE [out[i] EXCEPT !.state = "invalid"]]
<1>5. out' = f
  BY DEF Reconnect, ReconnectReset
<1>6. \A m \in Messages : /\ [m EXCEPT !.state = "invalid"] \in Messages
                          /\ Same(m, [m EXCEPT !.state = "invalid"])
  BY DEF Messages, States, Same
<1>7. \A i \in 1..Len(out) : f[i] \in Messages /\ Same(out[i], f[i])
  BY <1>3, <1>6, ResumedTypes
<1>8. f \in [1..Len(out) -> Messages]
  BY <1>7
<1> HIDE DEF f
<1>9. out' \in Seq(Messages) /\ Len(out') = Len(out) /\ \A i \in 1..Len(out) : Same(out[i], out'[i])
  BY <1>3, <1>5, <1>7, <1>8, SequenceOf
<1>10. /\ Unique(out)' /\ KeptUntilAcked' /\ acked' \subseteq Ids' /\ Ids' = Ids
       /\ \A m \in Listed' : m.id \in Ids' /\ m.mid <= MaxMid
  BY <1>2, <1>9, ListSame
<1>11. /\ inflight' \in Seq(Sessions) /\ queued' \in Seq(Sessions) /\ in_quota' \in 0..MaxInflight
       /\ HeldOnce' /\ \A n \in Stores' : n.id \in Ids' /\ n.mid <= MaxMid
  BY <1>2, <1>10, SessionSame
<1>12. /\ up' \in Seq(UpPackets)
       /\ \A p \in Entries(up') : p.mid <= MaxMid /\ (p.kind = "PUBLISH" => p.id \in Ids)
  <2>1. CASE up' = up
    BY <1>1, <2>1 DEF PublishTypes, NumbersInv
  <2>2. CASE up' = Append(up, Bare("CONNECT"))
    <3> DEFINE c == Bare("CONNECT")
    <3>1. c \in UpPackets /\ c.mid = 0 /\ c.kind = "CONNECT"
      BY DEF Bare, Pkt, UpPackets
    <3> HIDE DEF c
    <3>2. up \in Seq(UpPackets) /\ up' = Append(up, c)
      BY <1>1, <2>2 DEF PublishTypes, c
    <3>3. /\ up' \in Seq(UpPackets) /\ Len(up) \in Nat /\ Len(up') = Len(up) + 1
          /\ \A i \in 1..Len(up) : up'[i] = up[i]
          /\ up'[Len(up) + 1] = c
      BY <3>1, <3>2, AppendFacts
    <3>4. \A p \in Entries(up') : p \in Entries(up) \/ p = c
      BY <3>3 DEF Entries
    <3> QED
      BY <1>1, <3>1, <3>3, <3>4 DEF NumbersInv, AnyRoom
  <2> QED
    BY <1>2, <2>1, <2>2
<1>13. down' \in Seq(DownPackets) /\ \A p \in Entries(down') : p.mid <= MaxMid
  <2>1. CASE down' = down
    BY <1>1, <2>1 DEF PublishTypes, NumbersInv
  <2>2. CASE down' = <<>>
    BY <2>2 DEF Entries
  <2> QED
    BY <1>2, <2>1, <2>2
<1>14. PublishTypes'
  BY <1>1, <1>2, <1>4, <1>9, <1>10, <1>11, <1>12, <1>13 DEF PublishTypes
<1>15. NumbersInv'
  <2>1. Entries(up)' = Entries(up') /\ Entries(down)' = Entries(down')
    BY DEF Entries
  <2> QED
    BY <1>10, <1>11, <1>12, <1>13, <2>1 DEF NumbersInv
<1> QED
  BY <1>10, <1>11, <1>14, <1>15 DEF BooksInv

(* ... the answers it reads, ...                                           *)
LEMMA AcknowledgeBooks ==
  ASSUME AnyRoom, BooksInv, NEW p, NEW qos, HandlePubackcomp(p, qos),
         UNCHANGED <<given, inflight, queued, in_quota>>
  PROVE  /\ out' \in Seq(Messages) /\ out_quota' \in 0..SendMaximum /\ up' \in Seq(UpPackets)
         /\ sock' \in {sock, "none"} /\ acked' \subseteq Ids
         /\ Unique(out)' /\ KeptUntilAcked'
         /\ \A m \in Listed' : m.id \in Ids /\ m.mid <= MaxMid
         /\ \A x \in Entries(up') : x.mid <= MaxMid /\ (x.kind = "PUBLISH" => x.id \in Ids)
<1> DEFINE quota == Up(out_quota, SendMaximum)
           hit == {i \in 1..Len(out) : out[i].mid = p.mid /\ out[i].qos = qos}
           q == Without(out, p.mid)
<1>1. /\ PublishTypes /\ NumbersInv /\ Unique(out) /\ KeptUntilAcked
      /\ out \in Seq(Messages) /\ up \in Seq(UpPackets)
  BY DEF BooksInv, PublishTypes
<1>2. quota \in 0..SendMaximum /\ Ids' = Ids
  BY <1>1 DEF Up, PublishTypes, AnyRoom, Ids
<1>3. IF hit = {} THEN GiveUp /\ out_quota' = quota
      ELSE /\ acked' = acked \cup {out[i].id : i \in hit}
           /\ ReleaseToInflight(q, quota)
           /\ UNCHANGED sock
  BY DEF HandlePubackcomp
<1>4. CASE hit = {}
  <2>1. sock' = "none" /\ UNCHANGED <<out, acked, up>> /\ out_quota' = quota
    BY <1>3, <1>4 DEF GiveUp
  <2>2. Unique(out)' /\ KeptUntilAcked' /\ Listed' = Listed
    BY <1>1, <1>2, <2>1 DEF Unique, KeptUntilAcked, Listed, Entries
  <2> HIDE DEF quota
  <2> QED
    BY <1>1, <1>2, <2>1, <2>2 DEF PublishTypes, NumbersInv
<1>5. CASE hit # {}
  <2>1. PICK h \in hit : TRUE
    BY <1>5
  <2>2. h \in 1..Len(out) /\ out[h].mid = p.mid /\ \A i \in hit : i = h
    BY <1>1, <2>1 DEF Unique
  <2> DEFINE m == out[h]
  <2>3. {out[i].id : i \in hit} = {m.id}
    BY <2>1, <2>2
  <2>4. acked' = acked \cup {m.id} /\ ReleaseToInflight(q, quota) /\ sock' = sock
    BY <1>3, <1>5, <2>3
  <2>5. \A n \in Listed : n = m \/ (n.mid # p.mid /\ n.id # m.id)
    BY <1>1, <2>2 DEF Unique, Listed, Entries
  <2>6. m \in Listed /\ m.mid = p.mid
    BY <2>2 DEF Listed, Entries
  <2> HIDE DEF hit, quota, m
  <2>7. /\ q \in Seq(Messages)
        /\ \A n \in 1..Len(q) : \E i \in 1..Len(out) : out[i].mid # p.mid /\ q[n] = out[i]
        /\ \A i \in 1..Len(out) : out[i].mid # p.mid => \E n \in 1..Len(q) : q[n] = out[i]
    <3>0. out \in Seq(Messages)
      BY <1>1
    <3>1. q \in Seq(Messages)
      BY <3>0, WithoutFacts
    <3>2. ASSUME NEW n \in 1..Len(q)
          PROVE  \E i \in 1..Len(out) : out[i].mid # p.mid /\ q[n] = out[i]
      BY <3>0, WithoutFrom
    <3>3. ASSUME NEW i \in 1..Len(out), out[i].mid # p.mid
          PROVE  \E n \in 1..Len(q) : q[n] = out[i]
      BY <3>0, <3>3, WithoutKeeps
    <3> HIDE DEF q
    <3> QED
      BY <3>1, <3>2, <3>3
  <2>8. \A k, n \in 1..Len(q) : q[k].mid = q[n].mid => k = n
    <3>1. \A i, j \in 1..Len(out) : out[i].mid = out[j].mid => i = j
      BY <1>1 DEF Unique
    <3> QED
      BY <1>1, <3>1, WithoutUnique
  <2> HIDE DEF q
  <2>9. Entries(q) = Listed \ {m}
    <3>1. ASSUME NEW n \in Entries(q) PROVE n \in Listed \ {m}
      <4>1. PICK k \in 1..Len(q) : n = q[k]
        BY DEF Entries
      <4>2. PICK i \in 1..Len(out) : out[i].mid # p.mid /\ q[k] = out[i]
        BY <2>7
      <4> QED
        BY <2>6, <4>1, <4>2 DEF Listed, Entries
    <3>2. ASSUME NEW n \in Listed \ {m} PROVE n \in Entries(q)
      <4>1. PICK i \in 1..Len(out) : n = out[i]
        BY DEF Listed, Entries
      <4>2. n.mid # p.mid
        BY <2>5
      <4> QED
        BY <2>7, <4>1, <4>2 DEF Entries
    <3> QED
      BY <3>1, <3>2
  <2>10. Unique(q)
    <3> SUFFICES ASSUME NEW k \in 1..Len(q), NEW n \in 1..Len(q), k # n
                 PROVE  q[k].id # q[n].id /\ q[k].mid # q[n].mid
      BY DEF Unique
    <3>1. q[k] \in Listed /\ q[n] \in Listed
      BY <2>9 DEF Entries
    <3>2. \A a, b \in Listed : a.id = b.id => a.mid = b.mid
      BY <1>1 DEF Unique, Listed, Entries
    <3> QED
      BY <2>8, <3>1, <3>2
  <2>11. ASSUME NEW k \in Ids PROVE k \in acked' <=> \A i \in 1..Len(q) : q[i].id # k
    <3>1. k \in acked <=> \A n \in Listed : n.id # k
      BY <1>1, <2>11 DEF KeptUntilAcked, Listed, Entries
    <3>2. (\A i \in 1..Len(q) : q[i].id # k) <=> \A n \in Entries(q) : n.id # k
      BY DEF Entries
    <3> QED
      BY <2>4, <2>5, <2>6, <2>9, <3>1, <3>2
  <2>12. m.id \in Ids /\ acked' \subseteq Ids
    BY <1>1, <2>4, <2>6 DEF NumbersInv, PublishTypes
  <2>13. \A n \in Entries(q) : n.id \in Ids' /\ n.mid <= MaxMid
    BY <1>1, <1>2, <2>9 DEF NumbersInv
  <2>14. \A x \in Entries(up) : x.mid <= MaxMid /\ (x.kind = "PUBLISH" => x.id \in Ids')
    BY <1>1, <1>2 DEF NumbersInv
  <2>15. /\ out' \in Seq(Messages) /\ out_quota' \in 0..SendMaximum /\ up' \in Seq(UpPackets)
         /\ Unique(out)' /\ KeptUntilAcked'
         /\ \A n \in Listed' : n.id \in Ids' /\ n.mid <= MaxMid
         /\ \A x \in Entries(up') : x.mid <= MaxMid /\ (x.kind = "PUBLISH" => x.id \in Ids')
    BY <1>1, <1>2, <2>4, <2>7, <2>10, <2>11, <2>13, <2>14, ListReleased
  <2> QED
    BY <1>2, <2>4, <2>12, <2>15
<1> QED
  BY <1>4, <1>5

LEMMA PubrecBooks ==
  ASSUME AnyRoom, BooksInv, NEW p \in DownPackets, p.kind = "PUBREC", p.mid <= MaxMid,
         HandlePubrec(p), UNCHANGED given
  PROVE  /\ out' \in Seq(Messages) /\ Len(out') = Len(out) /\ UNCHANGED <<acked, out_quota>>
         /\ \A i \in 1..Len(out) : Same(out[i], out'[i])
         /\ sock' \in {sock, "none"} /\ up' \in Seq(UpPackets)
         /\ \A x \in Entries(up') : x.mid <= MaxMid /\ (x.kind = "PUBLISH" => x.id \in Ids)
<1> DEFINE f == [i \in 1..Len(out) |-> IF out[i].mid = p.mid
                   THEN [out[i] EXCEPT !.state = "wait_for_pubcomp"] ELSE out[i]]
           x == Ack("PUBREL", p.mid)
<1>1. out \in Seq(Messages) /\ up \in Seq(UpPackets) /\ NumbersInv
  BY DEF BooksInv, PublishTypes
<1>2. \/ /\ sock' = "none" /\ UNCHANGED <<out, acked, up, out_quota>>
      \/ out' = f /\ up' = Append(up, x) /\ UNCHANGED <<sock, acked, out_quota>>
  BY DEF HandlePubrec, GiveUp
<1>3. Len(out) \in Nat /\ \A i \in 1..Len(out) : out[i] \in Messages
  BY <1>1, LenProperties, ElementOfSeq
<1>4. \A m \in Messages : /\ [m EXCEPT !.state = "wait_for_pubcomp"] \in Messages
                          /\ Same(m, [m EXCEPT !.state = "wait_for_pubcomp"]) /\ Same(m, m)
  BY DEF Messages, States, Same
<1>5. \A i \in 1..Len(out) : f[i] \in Messages /\ Same(out[i], f[i])
  BY <1>3, <1>4
<1>6. f \in [1..Len(out) -> Messages]
  BY <1>5
<1> HIDE DEF f
<1>7. f \in Seq(Messages) /\ Len(f) = Len(out)
  BY <1>3, <1>6, SequenceOf
<1>8. x \in UpPackets /\ x.mid = p.mid /\ x.kind = "PUBREL"
  BY DEF Ack, Pkt, UpPackets, DownPackets
<1> HIDE DEF x
<1>9. CASE sock' = "none" /\ UNCHANGED <<out, acked, up, out_quota>>
  BY <1>1, <1>3, <1>4, <1>9 DEF NumbersInv
<1>10. CASE out' = f /\ up' = Append(up, x) /\ UNCHANGED <<sock, acked, out_quota>>
  <2>1. /\ up' \in Seq(UpPackets) /\ Len(up) \in Nat /\ Len(up') = Len(up) + 1
        /\ \A i \in 1..Len(up) : up'[i] = up[i]
        /\ up'[Len(up) + 1] = x
    BY <1>1, <1>8, <1>10, AppendFacts
  <2>2. \A y \in Entries(up') : y \in Entries(up) \/ y = x
    BY <2>1 DEF Entries
  <2> QED
    BY <1>1, <1>5, <1>7, <1>8, <1>10, <2>1, <2>2 DEF NumbersInv
<1> QED
  BY <1>2, <1>9, <1>10

LEMMA ConnackBooks ==
  ASSUME AnyRoom, BooksInv, HandleConnack
  PROVE  /\ up' \in Seq(UpPackets) /\ out_quota' \in 0..SendMaximum /\ sock' = "active"
         /\ UNCHANGED <<out, acked>>
         /\ \A x \in Entries(up') : x.mid <= MaxMid /\ (x.kind = "PUBLISH" => x.id \in Ids)
<1>1. out \in Seq(Messages) /\ up \in Seq(UpPackets) /\ NumbersInv
  BY DEF BooksInv, PublishTypes
<1>2. /\ up' = up \o Retries /\ out_quota' \in 0..SendMaximum /\ sock' = "active"
      /\ UNCHANGED <<out, acked>>
  BY DEF HandleConnack, AnyRoom
<1>3. Retries \in Seq(UpPackets) /\ \A x \in Entries(Retries) : \E m \in Listed : x = Retry(m)
  BY <1>1, RetriesOfList
<1>4. up' \in Seq(UpPackets) /\ \A x \in Entries(up') : x \in Entries(up) \/ x \in Entries(Retries)
  BY <1>1, <1>2, <1>3, LineLonger
<1>5. \A m \in Listed : Retry(m).mid <= MaxMid /\ (Retry(m).kind = "PUBLISH" => Retry(m).id \in Ids)
  BY <1>1 DEF NumbersInv, Retry, PUBLISH, Ack, Pkt
<1>6. \A x \in Entries(up') : x.mid <= MaxMid /\ (x.kind = "PUBLISH" => x.id \in Ids)
  BY <1>1, <1>3, <1>4, <1>5 DEF NumbersInv
<1> QED
  BY <1>2, <1>4, <1>6

LEMMA ClientReadBooks ==
  ASSUME AnyRoom, BooksInv, ClientRead
  PROVE  BooksInv'
<1> DEFINE p == Head(down)
<1>1. PublishTypes /\ NumbersInv /\ Unique(out) /\ KeptUntilAcked
  BY DEF BooksInv
<1>2. /\ down # <<>> /\ down' = Tail(down)
      /\ UNCHANGED <<given, last_mid, clean, inflight, queued, in_quota, released>>
      /\ \/ p.kind = "CONNACK" /\ HandleConnack
         \/ p.kind = "PUBACK" /\ HandlePubackcomp(p, 1)
         \/ p.kind = "PUBCOMP" /\ HandlePubackcomp(p, 2)
         \/ p.kind = "PUBREC" /\ HandlePubrec(p)
  BY DEF ClientRead, session
<1>3. /\ down' \in Seq(DownPackets) /\ p \in DownPackets /\ p \in Entries(down)
      /\ \A x \in Entries(down') : x \in Entries(down)
  BY <1>1, <1>2, LineRead DEF PublishTypes
<1> HIDE DEF p
<1>4. p.mid <= MaxMid /\ \A x \in Entries(down') : x.mid <= MaxMid
  BY <1>1, <1>3 DEF NumbersInv
<1>5. Ids' = Ids
  BY <1>2 DEF Ids
<1>6. /\ inflight' \in Seq(Sessions) /\ queued' \in Seq(Sessions) /\ in_quota' \in 0..MaxInflight
      /\ HeldOnce' /\ \A n \in Stores' : n.id \in Ids' /\ n.mid <= MaxMid
  BY <1>2, <1>5, SessionSame
<1>7. /\ out' \in Seq(Messages) /\ out_quota' \in 0..SendMaximum /\ up' \in Seq(UpPackets)
      /\ sock' \in {"none", "connected", "active"} /\ acked' \subseteq Ids
      /\ Unique(out)' /\ KeptUntilAcked'
      /\ \A m \in Listed' : m.id \in Ids /\ m.mid <= MaxMid
      /\ \A x \in Entries(up') : x.mid <= MaxMid /\ (x.kind = "PUBLISH" => x.id \in Ids)
  <2>0. sock \in {"none", "connected", "active"} /\ out \in Seq(Messages)
        /\ out_quota \in 0..SendMaximum
    BY <1>1 DEF PublishTypes
  <2>1. CASE p.kind = "CONNACK" /\ HandleConnack
    <3>1. /\ up' \in Seq(UpPackets) /\ out_quota' \in 0..SendMaximum /\ sock' = "active"
          /\ UNCHANGED <<out, acked>>
          /\ \A x \in Entries(up') : x.mid <= MaxMid /\ (x.kind = "PUBLISH" => x.id \in Ids)
      BY <2>1, ConnackBooks
    <3>2. \A i \in 1..Len(out) : Same(out[i], out'[i])
      BY <3>1 DEF Same
    <3>3. /\ Unique(out)' /\ KeptUntilAcked' /\ acked' \subseteq Ids' /\ Ids' = Ids
          /\ \A m \in Listed' : m.id \in Ids' /\ m.mid <= MaxMid
      BY <1>2, <2>0, <3>1, <3>2, ListSame
    <3> QED
      BY <2>0, <3>1, <3>3
  <2>2. CASE HandlePubackcomp(p, 1)
    BY <1>2, <2>0, <2>2, AcknowledgeBooks
  <2>3. CASE HandlePubackcomp(p, 2)
    BY <1>2, <2>0, <2>3, AcknowledgeBooks
  <2>4. CASE p.kind = "PUBREC" /\ HandlePubrec(p)
    <3>1. /\ out' \in Seq(Messages) /\ Len(out') = Len(out) /\ UNCHANGED <<acked, out_quota>>
          /\ \A i \in 1..Len(out) : Same(out[i], out'[i])
          /\ sock' \in {sock, "none"} /\ up' \in Seq(UpPackets)
          /\ \A x \in Entries(up') : x.mid <= MaxMid /\ (x.kind = "PUBLISH" => x.id \in Ids)
      BY <1>2, <1>3, <1>4, <2>4, PubrecBooks
    <3>2. /\ Unique(out)' /\ KeptUntilAcked' /\ acked' \subseteq Ids' /\ Ids' = Ids
          /\ \A m \in Listed' : m.id \in Ids' /\ m.mid <= MaxMid
      BY <1>2, <3>1, ListSame
    <3> QED
      BY <2>0, <3>1, <3>2
  <2> QED
    BY <1>2, <2>1, <2>2, <2>3, <2>4
<1>8. PublishTypes'
  BY <1>1, <1>2, <1>3, <1>5, <1>6, <1>7 DEF PublishTypes
<1>9. NumbersInv'
  <2>1. Entries(up)' = Entries(up') /\ Entries(down)' = Entries(down')
    BY DEF Entries
  <2> QED
    BY <1>4, <1>5, <1>6, <1>7, <2>1 DEF NumbersInv
<1> QED
  BY <1>6, <1>7, <1>8, <1>9 DEF BooksInv

(* ... and what is lost when the connection breaks.                        *)
LEMMA BreakBooks ==
  ASSUME AnyRoom, BooksInv, Break
  PROVE  BooksInv'
<1>1. PublishTypes /\ NumbersInv /\ Unique(out) /\ KeptUntilAcked
  BY DEF BooksInv
<1>2. /\ sock' = "none" /\ down' = <<>>
      /\ UNCHANGED <<given, out, out_quota, last_mid, acked, clean, released>>
      /\ UNCHANGED <<inflight, queued, in_quota>>
  BY DEF Break, session
<1>3. PICK n \in 0..Len(up) : up' = SubSeq(up, 1, n)
  BY DEF Break
<1>4. up' \in Seq(UpPackets) /\ \A x \in Entries(up') : x \in Entries(up)
  BY <1>1, <1>3, LineCut DEF PublishTypes
<1>5. Ids' = Ids
  BY <1>2 DEF Ids
<1>6. /\ inflight' \in Seq(Sessions) /\ queued' \in Seq(Sessions) /\ in_quota' \in 0..MaxInflight
      /\ HeldOnce' /\ \A m \in Stores' : m.id \in Ids' /\ m.mid <= MaxMid
  BY <1>2, <1>5, SessionSame
<1>7. Unique(out)' /\ KeptUntilAcked' /\ Listed' = Listed
  BY <1>1, <1>2, <1>5 DEF Unique, KeptUntilAcked, Listed, Entries
<1>8. PublishTypes'
  <2>1. down' \in Seq(DownPackets)
    BY <1>2
  <2> QED
    BY <1>1, <1>2, <1>4, <1>5, <1>6, <2>1 DEF PublishTypes
<1>9. NumbersInv'
  <2>1. Entries(up)' = Entries(up') /\ Entries(down)' = {}
    BY <1>2 DEF Entries
  <2> QED
    BY <1>1, <1>4, <1>5, <1>6, <1>7, <2>1 DEF NumbersInv
<1> QED
  BY <1>6, <1>7, <1>8, <1>9 DEF BooksInv

(* The broker: what it answers, and how messages leave the queue.          *)
LEMMA Replied ==
  ASSUME down \in Seq(DownPackets), \A x \in Entries(down) : x.mid <= MaxMid,
         NEW pkts \in Seq(DownPackets), \A x \in Entries(pkts) : x.mid <= MaxMid, Reply(pkts)
  PROVE  down' \in Seq(DownPackets) /\ \A x \in Entries(down') : x.mid <= MaxMid
<1>1. down' = down \/ down' = down \o pkts
  BY DEF Reply
<1>2. CASE down' = down \o pkts
  BY <1>2, LineLonger
<1> QED
  BY <1>1, <1>2

LEMMA OneReply ==
  ASSUME NEW kind \in {"CONNACK", "PUBACK", "PUBREC", "PUBCOMP"}, NEW mid \in Nat,
         mid <= MaxMid, mid = 0 <=> kind = "CONNACK"
  PROVE  /\ <<Ack(kind, mid)>> \in Seq(DownPackets)
         /\ \A x \in Entries(<<Ack(kind, mid)>>) : x.mid <= MaxMid
<1> DEFINE a == Ack(kind, mid)
<1>1. a \in DownPackets /\ a.mid = mid
  BY DEF Ack, Pkt, DownPackets
<1> HIDE DEF a
<1>2. <<a>> \in Seq(DownPackets) /\ \A x \in Entries(<<a>>) : x = a
  BY <1>1 DEF Entries
<1> QED
  BY <1>1, <1>2 DEF a

(* The first n of the queue go behind s, which was in flight before.       *)
LEMMA QueueMoves ==
  ASSUME inflight \in Seq(Sessions), queued \in Seq(Sessions), HeldOnce,
         NEW s \in Seq(Sessions), Distinct(s),
         \A i \in 1..Len(s) : \E j \in 1..Len(inflight) : s[i] = inflight[j],
         NEW n \in 0..Len(queued), inflight' = s \o SubSeq(queued, 1, n),
         queued' = SubSeq(queued, n + 1, Len(queued))
  PROVE  /\ inflight' \in Seq(Sessions) /\ queued' \in Seq(Sessions) /\ HeldOnce'
         /\ \A m \in Stores' : m \in Stores
<1> DEFINE a == SubSeq(queued, 1, n)
           l == Len(s)
<1>1. /\ a \in Seq(Sessions) /\ Len(a) = n /\ Len(queued) \in Nat
      /\ \A i \in 1..n : a[i] = queued[i]
  BY PrefixFacts, LenProperties
<1> HIDE DEF a
<1>2. /\ inflight' \in Seq(Sessions) /\ l \in Nat /\ Len(inflight') = l + n
      /\ \A i \in 1..l : inflight'[i] = s[i]
      /\ \A i \in 1..n : inflight'[l + i] = a[i]
  BY <1>1, ConcatFacts DEF a
<1>3. /\ queued' \in Seq(Sessions) /\ Len(queued') = Len(queued) - n
      /\ \A i \in 1..Len(queued') : queued'[i] = queued[n + i]
  <2>1. \A i \in n + 1..Len(queued) : queued[i] \in Sessions
    BY <1>1, ElementOfSeq
  <2>2. CASE n = Len(queued)
    <3>1. queued' = <<>>
      BY <1>1, <2>2, SubSeqEmpty
    <3> QED
      BY <1>1, <2>2, <3>1
  <2>3. CASE n < Len(queued)
    BY <1>1, <2>1, <2>3, SubSeqProperties
  <2> QED
    BY <1>1, <2>2, <2>3
<1>4. \A i \in 1..Len(inflight') :
        \/ i \in 1..l /\ inflight'[i] = s[i]
        \/ i - l \in 1..n /\ inflight'[i] = queued[i - l] /\ i - l \in 1..Len(queued)
  <2> SUFFICES ASSUME NEW i \in 1..Len(inflight'), i \notin 1..l
               PROVE  i - l \in 1..n /\ inflight'[i] = queued[i - l] /\ i - l \in 1..Len(queued)
    BY <1>2
  <2>1. i - l \in 1..n /\ i = l + (i - l) /\ i - l \in 1..Len(queued)
    BY <1>1, <1>2
  <2> QED
    BY <1>1, <1>2, <2>1
<1>5. \A i \in 1..Len(queued') : n + i \in 1..Len(queued) /\ queued'[i] = queued[n + i]
  BY <1>1, <1>3
<1>6. /\ \A i \in 1..l, j \in 1..Len(queued) : s[i].mid # queued[j].mid
      /\ \A i, j \in 1..Len(queued) : queued[i].mid = queued[j].mid => i = j
  BY DEF HeldOnce, Distinct
<1>7. Distinct(inflight')
  <2> SUFFICES ASSUME NEW i \in 1..Len(inflight'), NEW j \in 1..Len(inflight'),
                      inflight'[i].mid = inflight'[j].mid
               PROVE  i = j
    BY DEF Distinct
  <2>1. CASE i \in 1..l /\ j \in 1..l
    BY <1>2, <2>1 DEF Distinct
  <2>2. CASE i \in 1..l /\ j \notin 1..l
    BY <1>2, <1>4, <1>6, <2>2
  <2>3. CASE i \notin 1..l /\ j \in 1..l
    BY <1>2, <1>4, <1>6, <2>3
  <2>4. CASE i \notin 1..l /\ j \notin 1..l
    <3>1. /\ i - l \in 1..Len(queued) /\ inflight'[i] = queued[i - l]
          /\ j - l \in 1..Len(queued) /\ inflight'[j] = queued[j - l]
      BY <1>4, <2>4
    <3>2. i - l = j - l
      BY <1>6, <3>1
    <3> QED
      BY <1>2, <3>2
  <2> QED
    BY <2>1, <2>2, <2>3, <2>4
<1>8. Distinct(queued')
  <2> SUFFICES ASSUME NEW i \in 1..Len(queued'), NEW j \in 1..Len(queued'),
                      queued'[i].mid = queued'[j].mid
               PROVE  i = j
    BY DEF Distinct
  <2>1. /\ n + i \in 1..Len(queued) /\ queued'[i] = queued[n + i]
        /\ n + j \in 1..Len(queued) /\ queued'[j] = queued[n + j]
    BY <1>5
  <2>2. n + i = n + j
    BY <1>6, <2>1
  <2> QED
    BY <1>3, <2>2
<1>9. \A i \in 1..Len(inflight'), j \in 1..Len(queued') : inflight'[i].mid # queued'[j].mid
  <2> SUFFICES ASSUME NEW i \in 1..Len(inflight'), NEW j \in 1..Len(queued'),
                      inflight'[i].mid = queued'[j].mid
               PROVE  FALSE
    OBVIOUS
  <2>1. CASE i \in 1..l
    BY <1>2, <1>5, <1>6, <2>1
  <2>2. CASE i \notin 1..l
    <3>1. i - l \in 1..n /\ i - l \in 1..Len(queued) /\ inflight'[i] = queued[i - l]
      BY <1>4, <2>2
    <3>2. n + j \in 1..Len(queued) /\ queued'[j] = queued[n + j]
      BY <1>5
    <3>3. i - l = n + j
      BY <1>6, <3>1, <3>2
    <3> QED
      BY <1>3, <3>1, <3>3
  <2> QED
    BY <2>1, <2>2
<1>10. HeldOnce'
  <2>1. Distinct(inflight)' /\ Distinct(queued)'
    BY <1>7, <1>8 DEF Distinct
  <2> QED
    BY <1>9, <2>1 DEF HeldOnce
<1>11. ASSUME NEW m \in Stores' PROVE m \in Stores
  <2>1. CASE \E i \in 1..Len(inflight') : m = inflight'[i]
    <3>1. PICK i \in 1..Len(inflight') : m = inflight'[i]
      BY <2>1
    <3>2. CASE i \in 1..l /\ inflight'[i] = s[i]
      BY <3>1, <3>2 DEF Stores, Entries
    <3>3. CASE i - l \in 1..Len(queued) /\ inflight'[i] = queued[i - l]
      BY <3>1, <3>3 DEF Stores, Entries
    <3> QED
      BY <1>4, <3>2, <3>3
  <2>2. CASE \E i \in 1..Len(queued') : m = queued'[i]
    BY <1>5, <2>2 DEF Stores, Entries
  <2> QED
    BY <2>1, <2>2 DEF Stores, Entries
<1> QED
  BY <1>2, <1>3, <1>10, <1>11

LEMMA HeldFacts ==
  ASSUME inflight \in Seq(Sessions), queued \in Seq(Sessions)
  PROVE  /\ Held \in Seq(Sessions) /\ Entries(Held) = Stores
         /\ HeldOnce => OnePerIdentifier
<1>1. /\ Held \in Seq(Sessions) /\ Len(inflight) \in Nat /\ Len(queued) \in Nat
      /\ Len(Held) = Len(inflight) + Len(queued)
      /\ \A i \in 1..Len(inflight) : Held[i] = inflight[i]
      /\ \A i \in 1..Len(queued) : Held[Len(inflight) + i] = queued[i]
  BY ConcatFacts DEF Held
<1> DEFINE l == Len(inflight)
<1>2. \A i \in 1..Len(Held) : \/ i \in 1..l /\ Held[i] = inflight[i]
                              \/ i - l \in 1..Len(queued) /\ Held[i] = queued[i - l]
  <2> SUFFICES ASSUME NEW i \in 1..Len(Held), i \notin 1..l
               PROVE  i - l \in 1..Len(queued) /\ Held[i] = queued[i - l]
    BY <1>1
  <2>1. i - l \in 1..Len(queued) /\ i = l + (i - l)
    BY <1>1
  <2> QED
    BY <1>1, <2>1
<1>3. ASSUME NEW m \in Entries(Held) PROVE m \in Stores
  BY <1>2 DEF Stores, Entries
<1>4. ASSUME NEW m \in Stores PROVE m \in Entries(Held)
  <2>1. CASE \E i \in 1..l : m = inflight[i]
    <3>1. PICK i \in 1..l : m = inflight[i]
      BY <2>1
    <3>2. i \in 1..Len(Held) /\ Held[i] = m
      BY <1>1, <3>1
    <3> QED
      BY <3>2 DEF Entries
  <2>2. CASE \E i \in 1..Len(queued) : m = queued[i]
    <3>1. PICK i \in 1..Len(queued) : m = queued[i]
      BY <2>2
    <3>2. l + i \in 1..Len(Held) /\ Held[l + i] = m
      BY <1>1, <3>1
    <3> QED
      BY <3>2 DEF Entries
  <2> QED
    BY <2>1, <2>2 DEF Stores, Entries
<1>5. Entries(Held) = Stores
  <2>1. \A m \in Entries(Held) : m \in Stores
    BY <1>3
  <2>2. \A m \in Stores : m \in Entries(Held)
    BY <1>4
  <2> QED
    BY <2>1, <2>2
<1>6. ASSUME HeldOnce PROVE OnePerIdentifier
  <2> SUFFICES ASSUME NEW i \in 1..Len(Held), NEW j \in 1..Len(Held), Held[i].mid = Held[j].mid
               PROVE  i = j
    BY DEF OnePerIdentifier
  <2>1. /\ \A a, b \in 1..l : inflight[a].mid = inflight[b].mid => a = b
        /\ \A a, b \in 1..Len(queued) : queued[a].mid = queued[b].mid => a = b
        /\ \A a \in 1..l, b \in 1..Len(queued) : inflight[a].mid # queued[b].mid
    BY <1>6 DEF HeldOnce, Distinct
  <2> DEFINE First(k) == k \in 1..l /\ Held[k] = inflight[k]
             Then(k) == k - l \in 1..Len(queued) /\ Held[k] = queued[k - l]
  <2>2. (First(i) \/ Then(i)) /\ (First(j) \/ Then(j))
    BY <1>2
  <2>3. CASE First(i) /\ First(j)
    BY <2>1, <2>3
  <2>4. CASE Then(i) /\ Then(j)
    <3>1. i - l = j - l
      BY <2>1, <2>4
    <3> QED
      BY <1>1, <3>1
  <2>5. CASE First(i) /\ Then(j)
    BY <2>1, <2>5
  <2>6. CASE Then(i) /\ First(j)
    BY <2>1, <2>6
  <2> HIDE DEF First, Then
  <2> QED
    BY <2>2, <2>3, <2>4, <2>5, <2>6
<1> QED
  BY <1>1, <1>5, <1>6

LEMMA PubrecsFor ==
  ASSUME NEW s \in Seq(Sessions), \A m \in Entries(s) : m.mid <= MaxMid
  PROVE  LET r == Map(LAMBDA m : Ack("PUBREC", m.mid), s)
         IN r \in Seq(DownPackets) /\ \A x \in Entries(r) : x.mid <= MaxMid
<1> DEFINE r == [i \in 1..Len(s) |-> Ack("PUBREC", s[i].mid)]
<1>1. Map(LAMBDA m : Ack("PUBREC", m.mid), s) = r
  BY DEF Map
<1>2. Len(s) \in Nat /\ \A i \in 1..Len(s) : s[i] \in Sessions /\ s[i] \in Entries(s)
  BY LenProperties, ElementOfSeq DEF Entries
<1>3. \A m \in Sessions : Ack("PUBREC", m.mid) \in DownPackets /\ Ack("PUBREC", m.mid).mid = m.mid
  BY DEF Sessions, Ack, Pkt, DownPackets
<1>4. r \in [1..Len(s) -> DownPackets] /\ \A i \in 1..Len(s) : r[i].mid <= MaxMid
  BY <1>2, <1>3
<1> HIDE DEF r
<1>5. r \in Seq(DownPackets) /\ Len(r) = Len(s)
  BY <1>2, <1>4, SequenceOf
<1> QED
  BY <1>1, <1>4, <1>5 DEF Entries

(* What a step of the broker has to show. *)
SessionGood ==
  /\ released \in Seq(Nat) /\ Len(released) = Len(given)
  /\ down \in Seq(DownPackets) /\ \A x \in Entries(down) : x.mid <= MaxMid
  /\ inflight \in Seq(Sessions) /\ queued \in Seq(Sessions) /\ in_quota \in 0..MaxInflight
  /\ HeldOnce /\ \A m \in Stores : m.id \in Ids /\ m.mid <= MaxMid

LEMMA BrokerBooks ==
  ASSUME BooksInv, UNCHANGED client, SessionGood',
         up' \in Seq(UpPackets), \A x \in Entries(up') : x \in Entries(up)
  PROVE  BooksInv'
<1>1. /\ PublishTypes /\ NumbersInv /\ Unique(out) /\ KeptUntilAcked
      /\ UNCHANGED <<given, out, out_quota, last_mid, sock, acked, clean>>
  BY DEF BooksInv, client
<1>2. Ids' = Ids /\ Listed' = Listed /\ Unique(out)' /\ KeptUntilAcked'
  BY <1>1 DEF Ids, Listed, Entries, Unique, KeptUntilAcked
<1>3. PublishTypes'
  BY <1>1, <1>2 DEF SessionGood, PublishTypes
<1>4. NumbersInv'
  <2>1. Entries(up)' = Entries(up') /\ Entries(down)' = Entries(down')
    BY DEF Entries
  <2> QED
    BY <1>1, <1>2, <2>1 DEF SessionGood, NumbersInv
<1> QED
  BY <1>2, <1>3, <1>4 DEF SessionGood, BooksInv

LEMMA GoodBefore ==
  ASSUME BooksInv
  PROVE  /\ SessionGood /\ up \in Seq(UpPackets)
         /\ \A x \in Entries(up) : x.mid <= MaxMid /\ (x.kind = "PUBLISH" => x.id \in Ids)
BY DEF BooksInv, PublishTypes, NumbersInv, SessionGood

LEMMA ConnectBooks ==
  ASSUME AnyRoom, BooksInv, UNCHANGED given, HandleConnect
  PROVE  SessionGood'
<1>1. SessionGood /\ Ids' = Ids
  BY GoodBefore DEF Ids
<1>2. /\ Reply(<<Bare("CONNACK")>>) /\ UNCHANGED released
      /\ \/ inflight' = <<>> /\ queued' = <<>> /\ in_quota' = MaxInflight
         \/ ResumeSession
  BY DEF HandleConnect
<1>3. down' \in Seq(DownPackets) /\ \A x \in Entries(down') : x.mid <= MaxMid
  <2>1. Bare("CONNACK") = Ack("CONNACK", 0)
    BY DEF Bare, Ack
  <2>2. /\ <<Ack("CONNACK", 0)>> \in Seq(DownPackets)
        /\ \A x \in Entries(<<Ack("CONNACK", 0)>>) : x.mid <= MaxMid
    BY OneReply DEF AnyRoom
  <2> QED
    BY <1>1, <1>2, <2>1, <2>2, Replied DEF SessionGood
<1>4. /\ inflight' \in Seq(Sessions) /\ queued' \in Seq(Sessions) /\ in_quota' \in 0..MaxInflight
      /\ HeldOnce' /\ \A m \in Stores' : m \in Stores
  <2>1. CASE inflight' = <<>> /\ queued' = <<>> /\ in_quota' = MaxInflight
    <3>1. HeldOnce' /\ Stores' = {}
      BY <2>1 DEF HeldOnce, Distinct, Stores, Entries
    <3> QED
      BY <2>1, <3>1 DEF AnyRoom
  <2>2. CASE ResumeSession
    <3> DEFINE quota == MaxInflight - Lower(MaxInflight, Len(inflight))
               n == Lower(quota, Len(queued))
    <3>1. Len(inflight) \in Nat /\ Len(queued) \in Nat
      BY <1>1, LenProperties DEF SessionGood
    <3>2. quota \in 0..MaxInflight
      BY <3>1 DEF Lower, AnyRoom
    <3>3. n \in 0..Len(queued) /\ quota - n \in 0..MaxInflight
      BY <3>1, <3>2 DEF Lower, AnyRoom
    <3>4. /\ inflight' = inflight \o SubSeq(queued, 1, n)
          /\ queued' = SubSeq(queued, n + 1, Len(queued))
          /\ in_quota' = quota - n
      BY <2>2 DEF ResumeSession
    <3> HIDE DEF quota, n
    <3>5. /\ inflight \in Seq(Sessions) /\ queued \in Seq(Sessions) /\ HeldOnce
          /\ Distinct(inflight)
          /\ \A i \in 1..Len(inflight) : \E j \in 1..Len(inflight) : inflight[i] = inflight[j]
      BY <1>1 DEF SessionGood, HeldOnce
    <3>6. /\ inflight' \in Seq(Sessions) /\ queued' \in Seq(Sessions) /\ HeldOnce'
          /\ \A m \in Stores' : m \in Stores
      BY <3>3, <3>4, <3>5, QueueMoves
    <3> QED
      BY <3>3, <3>4, <3>6
  <2> QED
    BY <1>2, <2>1, <2>2
<1>5. \A m \in Stores' : m.id \in Ids' /\ m.mid <= MaxMid
  BY <1>1, <1>4 DEF SessionGood
<1>6. Entries(down)' = Entries(down')
  BY DEF Entries
<1> QED
  BY <1>1, <1>2, <1>3, <1>4, <1>5, <1>6 DEF SessionGood

LEMMA SessionUntouched ==
  ASSUME SessionGood, UNCHANGED <<given, inflight, queued>>
  PROVE  /\ inflight' \in Seq(Sessions) /\ queued' \in Seq(Sessions)
         /\ HeldOnce' /\ \A m \in Stores' : m.id \in Ids' /\ m.mid <= MaxMid
<1>1. HeldOnce' /\ Stores' = Stores /\ Ids' = Ids
  BY DEF SessionGood, HeldOnce, Distinct, Stores, Entries, Ids
<1> QED
  BY <1>1 DEF SessionGood

LEMMA Publish1Books ==
  ASSUME AnyRoom, BooksInv, UNCHANGED given, NEW p \in UpPackets, p.kind = "PUBLISH",
         p.mid <= MaxMid, HandlePublish1(p)
  PROVE  SessionGood'
<1>1. SessionGood
  BY GoodBefore
<1>2. /\ released' = [released EXCEPT ![Stored(p)] = @ + 1]
      /\ in_quota' = Up(Down(in_quota), MaxInflight)
      /\ Reply(<<Ack("PUBACK", p.mid)>>) /\ UNCHANGED <<inflight, queued>>
  BY DEF HandlePublish1, Release
<1>3. released' \in Seq(Nat) /\ Len(released') = Len(given')
  <2> DEFINE id == Stored(p)
             n == Len(released)
  <2>1. n \in Nat /\ released \in [1..n -> Nat] /\ n = Len(given')
    BY <1>1, LenProperties DEF SessionGood
  <2>2. released' = [released EXCEPT ![id] = @ + 1]
    BY <1>2
  <2> HIDE DEF id, n
  <2>3. released' = [k \in 1..n |-> IF k = id THEN released[k] + 1 ELSE released[k]]
    BY <2>1, <2>2
  <2>4. released' \in [1..n -> Nat]
    BY <2>1, <2>3
  <2> QED
    BY <2>1, <2>4, SequenceOf
<1>4. in_quota' \in 0..MaxInflight
  BY <1>1, <1>2 DEF SessionGood, Up, Down, AnyRoom
<1>5. down' \in Seq(DownPackets) /\ \A x \in Entries(down') : x.mid <= MaxMid
  <2>1. p.mid \in Nat \ {0}
    BY DEF UpPackets
  <2>2. /\ <<Ack("PUBACK", p.mid)>> \in Seq(DownPackets)
        /\ \A x \in Entries(<<Ack("PUBACK", p.mid)>>) : x.mid <= MaxMid
    BY <2>1, OneReply
  <2> QED
    BY <1>1, <1>2, <2>2, Replied DEF SessionGood
<1>6. /\ inflight' \in Seq(Sessions) /\ queued' \in Seq(Sessions)
      /\ HeldOnce' /\ \A m \in Stores' : m.id \in Ids' /\ m.mid <= MaxMid
  BY <1>1, <1>2, SessionUntouched
<1>7. Entries(down)' = Entries(down')
  BY DEF Entries
<1> QED
  BY <1>3, <1>4, <1>5, <1>6, <1>7 DEF SessionGood

(* A message that nothing is held under the identifier of is put behind.   *)
LEMMA DistinctLonger ==
  ASSUME NEW s \in Seq(Sessions), Distinct(s), NEW m \in Sessions,
         \A i \in 1..Len(s) : s[i].mid # m.mid
  PROVE  /\ Append(s, m) \in Seq(Sessions) /\ Distinct(Append(s, m))
         /\ \A x \in Entries(Append(s, m)) : x \in Entries(s) \/ x = m
<1> DEFINE t == Append(s, m)
<1>1. /\ t \in Seq(Sessions) /\ Len(s) \in Nat /\ Len(t) = Len(s) + 1
      /\ \A i \in 1..Len(s) : t[i] = s[i]
      /\ t[Len(s) + 1] = m
  BY AppendFacts
<1> HIDE DEF t
<1>2. \A i \in 1..Len(t) : (i \in 1..Len(s) /\ t[i] = s[i]) \/ (i = Len(s) + 1 /\ t[i] = m)
  BY <1>1
<1>3. Distinct(t)
  <2> SUFFICES ASSUME NEW i \in 1..Len(t), NEW j \in 1..Len(t), t[i].mid = t[j].mid PROVE i = j
    BY DEF Distinct
  <2>1. CASE i \in 1..Len(s) /\ t[i] = s[i] /\ j \in 1..Len(s) /\ t[j] = s[j]
    BY <2>1 DEF Distinct
  <2> QED
    BY <1>2, <2>1
<1>4. \A x \in Entries(t) : x \in Entries(s) \/ x = m
  BY <1>2 DEF Entries
<1> QED
  BY <1>1, <1>3, <1>4 DEF t

LEMMA Publish2Books ==
  ASSUME AnyRoom, BooksInv, UNCHANGED given, NEW p \in UpPackets, p.kind = "PUBLISH",
         p.mid <= MaxMid, p.id \in Ids, HandlePublish2(p)
  PROVE  SessionGood'
<1> DEFINE m == [id |-> p.id, mid |-> p.mid]
           recs == <<Ack("PUBREC", p.mid)>>
<1>1. SessionGood /\ UNCHANGED <<in_quota, released>> /\ Ids' = Ids
  BY GoodBefore DEF HandlePublish2, Ids
<1>2. m \in Sessions /\ m.mid = p.mid /\ m.id = p.id /\ p.mid \in Nat \ {0}
  BY DEF UpPackets, Sessions
<1> HIDE DEF m
<1>3. recs \in Seq(DownPackets) /\ \A x \in Entries(recs) : x.mid <= MaxMid
  BY <1>2, OneReply
<1> HIDE DEF recs
<1>4. /\ inflight \in Seq(Sessions) /\ queued \in Seq(Sessions) /\ HeldOnce
      /\ Distinct(inflight) /\ Distinct(queued)
      /\ down \in Seq(DownPackets) /\ \A x \in Entries(down) : x.mid <= MaxMid
      /\ \A x \in Stores : x.id \in Ids /\ x.mid <= MaxMid
  BY <1>1 DEF SessionGood, HeldOnce
<1>5. /\ Reply(recs) \/ down' = down
      /\ \/ UNCHANGED <<inflight, queued>>
         \/ ~Has(Held, p.mid) /\ inflight' = Append(inflight, m) /\ UNCHANGED queued
         \/ ~Has(Held, p.mid) /\ queued' = Append(queued, m) /\ UNCHANGED inflight
  <2>1. CASE Has(Held, p.mid)
    BY <2>1 DEF HandlePublish2, recs
  <2>2. CASE ~Has(Held, p.mid)
    <3>1. Insert(p)
      BY <2>2 DEF HandlePublish2
    <3> QED
      BY <2>2, <3>1 DEF Insert, m, recs
  <2> QED
    BY <2>1, <2>2
<1>6. down' \in Seq(DownPackets) /\ \A x \in Entries(down') : x.mid <= MaxMid
  BY <1>3, <1>4, <1>5, Replied
<1>7. /\ inflight' \in Seq(Sessions) /\ queued' \in Seq(Sessions)
      /\ HeldOnce' /\ \A x \in Stores' : x.id \in Ids /\ x.mid <= MaxMid
  <2>1. CASE UNCHANGED <<inflight, queued>>
    BY <1>1, <2>1, SessionUntouched
  <2>2. ASSUME ~Has(Held, p.mid)
        PROVE  /\ \A i \in 1..Len(inflight) : inflight[i].mid # m.mid
               /\ \A i \in 1..Len(queued) : queued[i].mid # m.mid
    <3>1. \A x \in Entries(Held) : x.mid # m.mid
      BY <1>2, <2>2 DEF Has, Entries
    <3>2. \A x \in Stores : x.mid # m.mid
      BY <1>4, <3>1, HeldFacts
    <3> QED
      BY <3>2 DEF Stores, Entries
  <2>3. CASE ~Has(Held, p.mid) /\ inflight' = Append(inflight, m) /\ UNCHANGED queued
    <3>1. /\ inflight' \in Seq(Sessions) /\ Distinct(inflight')
          /\ \A x \in Entries(inflight') : x \in Entries(inflight) \/ x = m
      BY <1>2, <1>4, <2>2, <2>3, DistinctLonger
    <3>2. \A i \in 1..Len(inflight'), j \in 1..Len(queued) : inflight'[i].mid # queued[j].mid
      <4>1. ASSUME NEW x \in Entries(inflight'), NEW j \in 1..Len(queued)
            PROVE  x.mid # queued[j].mid
        <5>1. CASE x \in Entries(inflight)
          BY <1>4, <5>1 DEF HeldOnce, Entries
        <5>2. CASE x = m
          BY <2>2, <2>3, <5>2
        <5> QED
          BY <3>1, <5>1, <5>2
      <4> QED
        BY <4>1 DEF Entries
    <3>3. HeldOnce'
      BY <1>4, <2>3, <3>1, <3>2 DEF HeldOnce, Distinct
    <3>4. \A x \in Stores' : x \in Stores \/ x = m
      BY <2>3, <3>1 DEF Stores, Entries
    <3> QED
      BY <1>2, <1>4, <2>3, <3>1, <3>3, <3>4
  <2>4. CASE ~Has(Held, p.mid) /\ queued' = Append(queued, m) /\ UNCHANGED inflight
    <3>1. /\ queued' \in Seq(Sessions) /\ Distinct(queued')
          /\ \A x \in Entries(queued') : x \in Entries(queued) \/ x = m
      BY <1>2, <1>4, <2>2, <2>4, DistinctLonger
    <3>2. \A i \in 1..Len(inflight), j \in 1..Len(queued') : inflight[i].mid # queued'[j].mid
      <4>1. ASSUME NEW x \in Entries(queued'), NEW i \in 1..Len(inflight)
            PROVE  inflight[i].mid # x.mid
        <5>1. CASE x \in Entries(queued)
          BY <1>4, <5>1 DEF HeldOnce, Entries
        <5>2. CASE x = m
          BY <2>2, <2>4, <5>2
        <5> QED
          BY <3>1, <5>1, <5>2
      <4> QED
        BY <4>1 DEF Entries
    <3>3. HeldOnce'
      BY <1>4, <2>4, <3>1, <3>2 DEF HeldOnce, Distinct
    <3>4. \A x \in Stores' : x \in Stores \/ x = m
      BY <2>4, <3>1 DEF Stores, Entries
    <3> QED
      BY <1>2, <1>4, <2>4, <3>1, <3>3, <3>4
  <2> QED
    BY <1>5, <2>1, <2>3, <2>4
<1>8. Entries(down)' = Entries(down')
  BY DEF Entries
<1> QED
  BY <1>1, <1>6, <1>7, <1>8 DEF SessionGood

LEMMA PubrelBooks ==
  ASSUME AnyRoom, BooksInv, UNCHANGED given, NEW p \in UpPackets, p.kind = "PUBREL",
         p.mid <= MaxMid, HandlePubrel(p)
  PROVE  SessionGood'
<1> DEFINE n == Lower(Len(queued), MaxInflight - Lower(MaxInflight, Len(inflight)))
           moved == SubSeq(queued, 1, n)
           s == Without(inflight, p.mid)
           hit == {inflight[i].id : i \in {j \in 1..Len(inflight) : inflight[j].mid = p.mid}}
           recs == Map(LAMBDA m : Ack("PUBREC", m.mid), moved)
           comp == Ack("PUBCOMP", p.mid)
<1>1. /\ SessionGood /\ Ids' = Ids
      /\ inflight \in Seq(Sessions) /\ queued \in Seq(Sessions) /\ HeldOnce /\ Distinct(inflight)
      /\ \A m \in Stores : m.id \in Ids /\ m.mid <= MaxMid
  BY GoodBefore DEF Ids, SessionGood, HeldOnce
<1>2. /\ released' = [k \in Ids |-> released[k] + Cardinality({k} \cap hit)]
      /\ inflight' = s \o moved /\ queued' = SubSeq(queued, n + 1, Len(queued))
      /\ in_quota' = Up(in_quota - Lower(in_quota, n), MaxInflight)
      /\ Reply(Append(recs, comp))
  BY DEF HandlePubrel
<1>3. n \in 0..Len(queued)
  <2>1. Len(inflight) \in Nat /\ Len(queued) \in Nat
    BY <1>1, LenProperties
  <2> QED
    BY <2>1 DEF Lower, AnyRoom
<1>4. moved \in Seq(Sessions) /\ \A m \in Entries(moved) : m.mid <= MaxMid
  <2>1. moved \in Seq(Sessions) /\ \A m \in Entries(moved) : m \in Entries(queued)
    BY <1>1, <1>3, LineCut
  <2> QED
    BY <1>1, <2>1 DEF Stores
<1>5. recs \in Seq(DownPackets) /\ \A x \in Entries(recs) : x.mid <= MaxMid
  BY <1>4, PubrecsFor
<1>6. comp \in DownPackets /\ comp.mid = p.mid
  BY DEF Ack, Pkt, UpPackets, DownPackets
<1>7. /\ s \in Seq(Sessions) /\ Distinct(s)
      /\ \A i \in 1..Len(s) : \E j \in 1..Len(inflight) : s[i] = inflight[j]
  <2>1. s \in Seq(Sessions)
    BY <1>1, WithoutFacts
  <2>2. \A i \in 1..Len(s) : \E j \in 1..Len(inflight) : s[i] = inflight[j]
    <3> SUFFICES ASSUME NEW i \in 1..Len(s) PROVE \E j \in 1..Len(inflight) : s[i] = inflight[j]
      OBVIOUS
    <3>1. \E j \in 1..Len(inflight) : inflight[j].mid # p.mid /\ s[i] = inflight[j]
      BY <1>1, WithoutFrom
    <3> QED
      BY <3>1
  <2>3. \A i, j \in 1..Len(s) : s[i].mid = s[j].mid => i = j
    <3>1. \A i, j \in 1..Len(inflight) : inflight[i].mid = inflight[j].mid => i = j
      BY <1>1 DEF Distinct
    <3> QED
      BY <1>1, <3>1, WithoutUnique
  <2> QED
    BY <2>1, <2>2, <2>3 DEF Distinct
<1>8. released' \in Seq(Nat) /\ Len(released') = Len(given')
  <2>1. \A k \in Ids : released[k] \in Nat
    BY <1>1, ElementOfSeq DEF SessionGood, Ids
  <2>2. \A k \in Ids : Cardinality({k} \cap hit) \in Nat
    <3> SUFFICES ASSUME NEW k \in Ids PROVE Cardinality({k} \cap hit) \in Nat
      OBVIOUS
    <3>1. IsFiniteSet({k}) /\ {k} \cap hit \subseteq {k}
      BY FS_Singleton
    <3>2. IsFiniteSet({k} \cap hit)
      BY <3>1, FS_Subset
    <3> QED
      BY <3>2, FS_CardinalityType
  <2> DEFINE c(k) == Cardinality({k} \cap hit)
             l == Len(given)
  <2>3. \A k \in Ids : c(k) \in Nat
    BY <2>2
  <2>4. released' = [k \in Ids |-> released[k] + c(k)]
    BY <1>2
  <2>5. l \in Nat /\ l = Len(given') /\ Ids = 1..l
    BY <1>1, LenProperties DEF SessionGood, Ids
  <2> HIDE DEF c, l
  <2>6. released' \in [1..l -> Nat]
    BY <2>1, <2>3, <2>4, <2>5
  <2> QED
    BY <2>5, <2>6, SequenceOf
<1> HIDE DEF n, moved, s, recs, comp, hit
<1>9. in_quota' \in 0..MaxInflight
  <2>1. in_quota \in 0..MaxInflight /\ Len(queued) \in Nat
    BY <1>1, LenProperties DEF SessionGood
  <2> QED
    BY <1>2, <1>3, <2>1 DEF Lower, Up, AnyRoom
<1>10. /\ inflight' \in Seq(Sessions) /\ queued' \in Seq(Sessions) /\ HeldOnce'
       /\ \A m \in Stores' : m \in Stores
  BY <1>1, <1>2, <1>3, <1>7, QueueMoves DEF moved
<1>11. down' \in Seq(DownPackets) /\ \A x \in Entries(down') : x.mid <= MaxMid
  <2>1. /\ Append(recs, comp) \in Seq(DownPackets) /\ Len(recs) \in Nat
        /\ Len(Append(recs, comp)) = Len(recs) + 1
        /\ \A i \in 1..Len(recs) : Append(recs, comp)[i] = recs[i]
        /\ Append(recs, comp)[Len(recs) + 1] = comp
    BY <1>5, <1>6, AppendFacts
  <2>2. \A x \in Entries(Append(recs, comp)) : x \in Entries(recs) \/ x = comp
    BY <2>1 DEF Entries
  <2>3. \A x \in Entries(Append(recs, comp)) : x.mid <= MaxMid
    BY <1>5, <1>6, <2>2
  <2> QED
    BY <1>1, <1>2, <2>1, <2>3, Replied DEF SessionGood
<1>12. Entries(down)' = Entries(down')
  BY DEF Entries
<1> QED
  BY <1>1, <1>8, <1>9, <1>10, <1>11, <1>12 DEF SessionGood

LEMMA BrokerWriteBooks ==
  ASSUME AnyRoom, BooksInv, BrokerWrite
  PROVE  BooksInv'
<1> DEFINE n == Lower(in_quota, Len(queued))
           moved == SubSeq(queued, 1, n)
           recs == Map(LAMBDA m : Ack("PUBREC", m.mid), moved)
<1>1. /\ SessionGood /\ up \in Seq(UpPackets)
      /\ inflight \in Seq(Sessions) /\ queued \in Seq(Sessions) /\ HeldOnce /\ Distinct(inflight)
      /\ \A m \in Stores : m.id \in Ids /\ m.mid <= MaxMid
  BY GoodBefore DEF SessionGood, HeldOnce
<1>2. /\ inflight' = inflight \o moved /\ queued' = SubSeq(queued, n + 1, Len(queued))
      /\ in_quota' = in_quota - n /\ down' = down \o recs
      /\ UNCHANGED <<client, up, released, breaks>>
  BY DEF BrokerWrite
<1>3. n \in 0..Len(queued) /\ in_quota - n \in 0..MaxInflight
  <2>1. in_quota \in 0..MaxInflight /\ Len(queued) \in Nat
    BY <1>1, LenProperties DEF SessionGood
  <2> QED
    BY <2>1 DEF Lower, AnyRoom
<1>4. moved \in Seq(Sessions) /\ \A m \in Entries(moved) : m.mid <= MaxMid
  <2>1. moved \in Seq(Sessions) /\ \A m \in Entries(moved) : m \in Entries(queued)
    BY <1>1, <1>3, LineCut
  <2> QED
    BY <1>1, <2>1 DEF Stores
<1>5. recs \in Seq(DownPackets) /\ \A x \in Entries(recs) : x.mid <= MaxMid
  BY <1>4, PubrecsFor
<1> HIDE DEF n, moved, recs
<1>6. /\ inflight' \in Seq(Sessions) /\ queued' \in Seq(Sessions) /\ HeldOnce'
      /\ \A m \in Stores' : m \in Stores
  <2>1. \A i \in 1..Len(inflight) : \E j \in 1..Len(inflight) : inflight[i] = inflight[j]
    OBVIOUS
  <2> QED
    BY <1>1, <1>2, <1>3, <2>1, QueueMoves DEF moved
<1>7. down' \in Seq(DownPackets) /\ \A x \in Entries(down') : x.mid <= MaxMid
  BY <1>1, <1>2, <1>5, LineLonger DEF SessionGood
<1>8. Ids' = Ids /\ UNCHANGED <<given, released>> /\ Entries(down)' = Entries(down')
  BY <1>2 DEF client, Ids, Entries
<1>9. SessionGood'
  BY <1>1, <1>2, <1>3, <1>6, <1>7, <1>8 DEF SessionGood
<1> QED
  BY <1>1, <1>2, <1>9, BrokerBooks

LEMMA BrokerReadBooks ==
  ASSUME AnyRoom, BooksInv, BrokerRead
  PROVE  BooksInv'
<1> DEFINE p == Head(up)
<1>1. /\ up # <<>> /\ up' = Tail(up) /\ UNCHANGED client /\ UNCHANGED given
      /\ \/ p.kind = "CONNECT" /\ HandleConnect
         \/ p.kind = "PUBLISH" /\ p.qos = 1 /\ HandlePublish1(p)
         \/ p.kind = "PUBLISH" /\ p.qos = 2 /\ HandlePublish2(p)
         \/ p.kind = "PUBREL" /\ HandlePubrel(p)
  BY DEF BrokerRead, client
<1>2. /\ up \in Seq(UpPackets)
      /\ \A x \in Entries(up) : x.mid <= MaxMid /\ (x.kind = "PUBLISH" => x.id \in Ids)
  BY GoodBefore
<1>3. /\ up' \in Seq(UpPackets) /\ p \in UpPackets /\ p \in Entries(up)
      /\ \A x \in Entries(up') : x \in Entries(up)
  BY <1>1, <1>2, LineRead
<1> HIDE DEF p
<1>4. p.mid <= MaxMid /\ (p.kind = "PUBLISH" => p.id \in Ids)
  BY <1>2, <1>3
<1>5. CASE HandleConnect
  BY <1>1, <1>3, <1>5, ConnectBooks, BrokerBooks
<1>6. CASE p.kind = "PUBLISH" /\ HandlePublish1(p)
  BY <1>1, <1>3, <1>4, <1>6, Publish1Books, BrokerBooks
<1>7. CASE p.kind = "PUBLISH" /\ HandlePublish2(p)
  BY <1>1, <1>3, <1>4, <1>7, Publish2Books, BrokerBooks
<1>8. CASE p.kind = "PUBREL" /\ HandlePubrel(p)
  BY <1>1, <1>3, <1>4, <1>8, PubrelBooks, BrokerBooks
<1> QED
  BY <1>1, <1>5, <1>6, <1>7, <1>8

LEMMA BooksInitial ==
  ASSUME AnyRoom, Init
  PROVE  BooksInv
<1>1. /\ given = <<>> /\ out = <<>> /\ out_quota = SendMaximum /\ last_mid = 0
      /\ sock = "none" /\ acked = {} /\ clean \in BOOLEAN
      /\ up = <<>> /\ down = <<>> /\ inflight = <<>> /\ queued = <<>>
      /\ in_quota = MaxInflight /\ released = <<>>
  BY DEF Init, AnyRoom
<1>2. Listed = {} /\ Entries(up) = {} /\ Entries(down) = {} /\ Stores = {} /\ Ids = {}
  BY <1>1 DEF Listed, Entries, Stores, Ids
<1>3. PublishTypes
  BY <1>1 DEF PublishTypes, AnyRoom
<1>4. Unique(out) /\ HeldOnce /\ KeptUntilAcked
  BY <1>1, <1>2 DEF Unique, HeldOnce, Distinct, KeptUntilAcked
<1> QED
  BY <1>2, <1>3, <1>4 DEF BooksInv, NumbersInv

LEMMA BooksStep ==
  ASSUME AnyRoom, BooksInv, [Next]_vars
  PROVE  BooksInv'
<1>1. CASE UNCHANGED vars
  <2>1. UNCHANGED client /\ UNCHANGED <<given, up, down, inflight, queued, in_quota, released>>
    BY <1>1 DEF vars, client, session
  <2>2. SessionGood /\ up' \in Seq(UpPackets) /\ Ids' = Ids /\ Entries(down)' = Entries(down)
    BY <2>1, GoodBefore DEF Ids, Entries
  <2>3. /\ inflight' \in Seq(Sessions) /\ queued' \in Seq(Sessions)
        /\ HeldOnce' /\ \A m \in Stores' : m.id \in Ids' /\ m.mid <= MaxMid
    BY <2>1, <2>2, SessionUntouched
  <2>4. SessionGood'
    BY <2>1, <2>2, <2>3 DEF SessionGood
  <2> QED
    BY <2>1, <2>2, <2>4, BrokerBooks
<1>2. CASE \E qos \in 1..2 : Publish(qos)
  BY <1>2, PublishBooks
<1>3. CASE Reconnect
  BY <1>3, ReconnectBooks
<1>4. CASE ClientRead
  BY <1>4, ClientReadBooks
<1>5. CASE Break
  BY <1>5, BreakBooks
<1>6. CASE BrokerRead
  BY <1>6, BrokerReadBooks
<1>7. CASE BrokerWrite
  BY <1>7, BrokerWriteBooks
<1> QED
  BY <1>1, <1>2, <1>3, <1>4, <1>5, <1>6, <1>7 DEF Next

(* What the books say, in the words of the specification.                  *)
LEMMA BooksAreKept ==
  ASSUME BooksInv
  PROVE  KeptUntilAcked /\ OnePerIdentifier
BY HeldFacts DEF BooksInv, PublishTypes

LEMMA BooksAreTyped ==
  ASSUME AnyRoom, BooksInv
  PROVE  TypeOK
<1>1. PublishTypes /\ NumbersInv
  BY DEF BooksInv
<1> DEFINE M == [id : Ids, mid : 1..MaxMid, qos : 1..2, state : States]
           H == [id : Ids, mid : 1..MaxMid]
<1>2. out \in Seq(M)
  <2>1. Len(out) \in Nat /\ out \in [1..Len(out) -> Messages]
    BY <1>1, LenProperties DEF PublishTypes
  <2>2. \A i \in 1..Len(out) : out[i].id \in Ids /\ out[i].mid <= MaxMid
    BY <1>1 DEF NumbersInv, Listed, Entries
  <2>3. \A i \in 1..Len(out) : out[i] \in M
    BY <2>1, <2>2 DEF Messages, AnyRoom
  <2> HIDE DEF M
  <2>4. out \in [1..Len(out) -> M]
    BY <2>1, <2>3
  <2> QED
    BY <2>1, <2>4, SequenceOf
<1>3. Held \in Seq(H)
  <2>1. Held \in Seq(Sessions) /\ Entries(Held) = Stores
    BY <1>1, HeldFacts DEF PublishTypes
  <2>2. Len(Held) \in Nat /\ Held \in [1..Len(Held) -> Sessions]
    BY <2>1, LenProperties
  <2>3. \A i \in 1..Len(Held) : Held[i].id \in Ids /\ Held[i].mid <= MaxMid
    BY <1>1, <2>1 DEF NumbersInv, Entries
  <2>4. \A i \in 1..Len(Held) : Held[i] \in H
    BY <2>2, <2>3 DEF Sessions, AnyRoom
  <2> HIDE DEF H
  <2>5. Held \in [1..Len(Held) -> H]
    BY <2>2, <2>4
  <2> QED
    BY <2>2, <2>5, SequenceOf
<1> QED
  BY <1>1, <1>2, <1>3 DEF PublishTypes, TypeOK

(* Whatever the limits of client and broker, an identifier the session     *)
(* knows is held once (handle__publish finds what is held before it stores *)
(* it), ...                                                                *)
THEOREM OneUnderEachIdentifier ==
  ASSUME AnyRoom
  PROVE  Spec => []OnePerIdentifier
<1>1. Init => BooksInv
  BY BooksInitial
<1>2. BooksInv /\ [Next]_vars => BooksInv'
  BY BooksStep
<1>3. BooksInv => OnePerIdentifier
  BY BooksAreKept
<1> QED
  BY <1>1, <1>2, <1>3, PTL DEF Spec

(* ... until on_publish is called for it a message stays on the client's   *)
(* list, whatever quota and reconnecting do to its state, ...              *)
THEOREM ListKeepsWhatIsNotAcked ==
  ASSUME AnyRoom
  PROVE  Spec => []KeptUntilAcked
<1>1. Init => BooksInv
  BY BooksInitial
<1>2. BooksInv /\ [Next]_vars => BooksInv'
  BY BooksStep
<1>3. BooksInv => KeptUntilAcked
  BY BooksAreKept
<1> QED
  BY <1>1, <1>2, <1>3, PTL DEF Spec

(* ... and the quotas of both sides stay within their maximum: what a      *)
(* release sends never takes more than there is.                           *)
THEOREM PublishTypeCorrect ==
  ASSUME AnyRoom
  PROVE  Spec => []TypeOK
<1>1. Init => BooksInv
  BY BooksInitial
<1>2. BooksInv /\ [Next]_vars => BooksInv'
  BY BooksStep
<1>3. BooksInv => TypeOK
  BY BooksAreTyped
<1> QED
  BY <1>1, <1>2, <1>3, PTL DEF Spec

-----------------------------------------------------------------------------
(* Where no identifier is given out twice, message k has identifier k.     *)
NoneTwice == AnyRoom /\ MaxGiven <= MaxMid

NumberedInv ==
  /\ last_mid = Len(given)
  /\ \A m \in Listed : m.mid = m.id
  /\ \A p \in Entries(up) : p.kind = "PUBLISH" => p.mid = p.id
  /\ \A m \in Stores : m.mid = m.id

(* What the client was or will be told of is passed on or in the session.  *)
Safe(k) == k \in Ids /\ (released[k] > 0 \/ \E m \in Stores : m.id = k)
SafeInv ==
  /\ \A k \in acked : Safe(k)
  /\ \A m \in Listed : HasPubrec(m) => Safe(m.id)
  /\ \A p \in Entries(up) : p.kind = "PUBREL" => Safe(p.mid)
  /\ \A p \in Entries(down) : p.kind # "CONNACK" => Safe(p.mid)

ToldInv == BooksInv /\ NumberedInv /\ (~clean => SafeInv)

(* A list q that takes the place of the client's.                          *)
LEMMA ListReleasedSafe ==
  ASSUME up \in Seq(UpPackets), NEW q \in Seq(Messages), Unique(q), NEW quota,
         ReleaseToInflight(q, quota)
  PROVE  /\ \A m \in Listed' : \E n \in Entries(q) : Same(n, m) /\ (HasPubrec(m) => HasPubrec(n))
         /\ \A p \in Entries(up') :
              \/ p \in Entries(up)
              \/ p.kind = "PUBLISH" /\ \E n \in Entries(q) : p.mid = n.mid /\ p.id = n.id
<1>1. /\ Len(out') = Len(q)
      /\ \A i \in 1..Len(q) :
           /\ Same(q[i], out'[i])
           /\ \/ out'[i] = q[i]
              \/ /\ q[i].state = "invalid"
                 /\ out'[i].state \in {"wait_for_puback", "wait_for_pubrec"}
  BY ReleaseFacts
<1>2. PICK s \in Seq(UpPackets) :
        /\ up' = up \o s /\ (sock = "none" => s = <<>>)
        /\ \A n \in 1..Len(s) :
             \E i \in 1..Len(q) : /\ q[i].state = "invalid" /\ out'[i].state # "invalid"
                                  /\ s[n] = PUBLISH(q[i])
        /\ \A k, n \in 1..Len(s) : s[k].mid = s[n].mid => k = n
  BY ReleaseFacts
<1>3. ASSUME NEW m \in Listed'
      PROVE  \E n \in Entries(q) : Same(n, m) /\ (HasPubrec(m) => HasPubrec(n))
  <2>1. PICK i \in 1..Len(q) : m = out'[i]
    BY <1>1 DEF Listed, Entries
  <2>2. HasPubrec(m) => m = q[i]
    BY <1>1, <2>1 DEF HasPubrec, Unreleased
  <2>3. q[i] \in Entries(q) /\ Same(q[i], m)
    BY <1>1, <2>1 DEF Entries
  <2> QED
    BY <2>2, <2>3
<1>4. \A p \in Entries(up') : p \in Entries(up) \/ p \in Entries(s)
  BY <1>2, LineLonger
<1>5. ASSUME NEW p \in Entries(s)
      PROVE  p.kind = "PUBLISH" /\ \E n \in Entries(q) : p.mid = n.mid /\ p.id = n.id
  <2>1. PICK k \in 1..Len(s) : p = s[k]
    BY DEF Entries
  <2>2. PICK i \in 1..Len(q) : p = PUBLISH(q[i])
    BY <1>2, <2>1
  <2>3. q[i] \in Entries(q)
    BY DEF Entries
  <2> QED
    BY <2>2, <2>3 DEF PUBLISH, Pkt
<1> QED
  BY <1>3, <1>4, <1>5

(* What the client does takes nothing from the broker.                     *)
LEMMA SafeAsBefore ==
  ASSUME UNCHANGED <<inflight, queued>>, Ids \subseteq Ids', \A k \in Ids : released'[k] = released[k]
  PROVE  Stores' = Stores /\ \A k : Safe(k) => Safe(k)'
BY DEF Safe, Stores, Entries

LEMMA PublishSafe ==
  ASSUME NoneTwice, ToldInv, NEW qos \in 1..2, Publish(qos)
  PROVE  NumberedInv' /\ (~clean' => SafeInv')
<1> DEFINE m == [id |-> Len(given) + 1, mid |-> NextMid, qos |-> qos, state |-> "invalid"]
           q == Append(out, m)
<1>1. /\ PublishTypes /\ NumbersInv /\ NumberedInv /\ (~clean => SafeInv)
      /\ Unique(out) /\ KeptUntilAcked /\ AnyRoom /\ MaxGiven <= MaxMid
  BY DEF ToldInv, BooksInv, NoneTwice
<1>2. /\ Len(given) < MaxGiven /\ ~Has(out, NextMid)
      /\ given' = Append(given, qos) /\ released' = Append(released, 0) /\ last_mid' = NextMid
      /\ UNCHANGED <<sock, acked, clean, down, inflight, queued, in_quota>>
  BY DEF Publish, session
<1>3. ReleaseToInflight(q, out_quota)
  BY DEF Publish, MessageQueue
<1>4. /\ Len(given) \in Nat /\ NextMid = Len(given) + 1 /\ NextMid \in Nat \ {0}
  <2>1. Len(given) \in Nat
    BY <1>1, LenProperties DEF PublishTypes
  <2> QED
    BY <1>1, <1>2, <2>1 DEF NextMid, NumberedInv, AnyRoom
<1>5. /\ m \in Messages /\ m.id = m.mid /\ m.id = Len(given) + 1 /\ m.mid = NextMid
      /\ m.state = "invalid"
  BY <1>4 DEF Messages, States
<1> HIDE DEF m
<1>6. /\ out \in Seq(Messages) /\ q \in Seq(Messages) /\ Len(out) \in Nat /\ Len(q) = Len(out) + 1
      /\ \A i \in 1..Len(out) : q[i] = out[i]
      /\ q[Len(out) + 1] = m
  BY <1>1, <1>5, AppendFacts DEF PublishTypes
<1> HIDE DEF q
<1>7. \A i \in 1..Len(q) : \/ i \in 1..Len(out) /\ q[i] = out[i]
                           \/ i = Len(out) + 1 /\ q[i] = m
  BY <1>6
<1>8. \A n \in Entries(q) : n \in Listed \/ n = m
  BY <1>7 DEF Listed, Entries
<1>9. Unique(q)
  <2>1. \A i \in 1..Len(out) : out[i].id # m.id /\ out[i].mid # m.mid
    <3>1. \A n \in Listed : n.id # m.id
      BY <1>1, <1>4, <1>5 DEF NumbersInv, Ids
    <3> QED
      BY <1>2, <1>5, <3>1 DEF Has, Listed, Entries
  <2> SUFFICES ASSUME NEW i \in 1..Len(q), NEW j \in 1..Len(q), i # j
               PROVE  q[i].id # q[j].id /\ q[i].mid # q[j].mid
    BY DEF Unique
  <2>2. CASE i \in 1..Len(out) /\ j \in 1..Len(out)
    BY <1>1, <1>6, <2>2 DEF Unique
  <2>3. CASE i = Len(out) + 1 /\ j \in 1..Len(out)
    BY <1>6, <2>1, <2>3
  <2>4. CASE i \in 1..Len(out) /\ j = Len(out) + 1
    BY <1>6, <2>1, <2>4
  <2> QED
    BY <1>7, <2>2, <2>3, <2>4
<1>10. /\ \A n \in Listed' : \E x \in Entries(q) : Same(x, n) /\ (HasPubrec(n) => HasPubrec(x))
       /\ \A p \in Entries(up') :
            \/ p \in Entries(up)
            \/ p.kind = "PUBLISH" /\ \E n \in Entries(q) : p.mid = n.mid /\ p.id = n.id
  <2>1. up \in Seq(UpPackets)
    BY <1>1 DEF PublishTypes
  <2> QED
    BY <1>3, <1>6, <1>9, <2>1, ListReleasedSafe
<1>11. /\ Len(given') = Len(given) + 1 /\ Ids \subseteq Ids'
       /\ \A k \in Ids : released'[k] = released[k]
  <2>1. given \in Seq(1..2) /\ released \in Seq(Nat) /\ Len(released) = Len(given)
    BY <1>1 DEF PublishTypes
  <2>2. Len(given') = Len(given) + 1
    BY <1>2, <2>1, AppendFacts
  <2>3. \A k \in 1..Len(released) : released'[k] = released[k]
    BY <1>2, <2>1, AppendFacts
  <2> QED
    BY <1>4, <2>1, <2>2, <2>3 DEF Ids
<1>12. Stores' = Stores /\ \A k : Safe(k) => Safe(k)'
  BY <1>2, <1>11, SafeAsBefore
<1>13. \A n \in Entries(q) : n.mid = n.id /\ (HasPubrec(n) => n \in Listed)
  BY <1>1, <1>5, <1>8 DEF NumberedInv, HasPubrec, Unreleased
<1>14. NumberedInv'
  <2>1. last_mid' = Len(given')
    BY <1>2, <1>4, <1>11
  <2>2. \A n \in Listed' : n.mid = n.id
    BY <1>10, <1>13 DEF Same
  <2>3. \A p \in Entries(up') : p.kind = "PUBLISH" => p.mid = p.id
    BY <1>1, <1>10, <1>13 DEF NumberedInv
  <2>4. Entries(up)' = Entries(up')
    BY DEF Entries
  <2> QED
    BY <1>1, <1>12, <2>1, <2>2, <2>3, <2>4 DEF NumberedInv
<1>15. ASSUME ~clean PROVE SafeInv'
  <2>1. SafeInv
    BY <1>1, <1>15
  <2>2. \A k \in acked' : Safe(k)'
    BY <1>2, <1>12, <2>1 DEF SafeInv
  <2>3. ASSUME NEW n \in Listed', HasPubrec(n) PROVE Safe(n.id)'
    <3>1. PICK x \in Entries(q) : Same(x, n) /\ HasPubrec(x)
      BY <1>10, <2>3
    <3>2. x \in Listed /\ x.id = n.id
      BY <1>13, <3>1 DEF Same
    <3> QED
      BY <1>12, <2>1, <3>1, <3>2 DEF SafeInv
  <2>4. \A p \in Entries(up') : p.kind = "PUBREL" => Safe(p.mid)'
    BY <1>10, <1>12, <2>1 DEF SafeInv
  <2>5. \A p \in Entries(down)' : p.kind # "CONNACK" => Safe(p.mid)'
    BY <1>2, <1>12, <2>1 DEF SafeInv, Entries
  <2>6. Entries(up)' = Entries(up')
    BY DEF Entries
  <2> QED
    BY <2>2, <2>3, <2>4, <2>5, <2>6 DEF SafeInv, HasPubrec
<1> QED
  BY <1>2, <1>14, <1>15

(* A step of the client that gives out no new message: what has to be shown *)
(* of its list and of what it sends.                                        *)
LEMMA ClientSafe ==
  ASSUME NumberedInv, ~clean => SafeInv,
         UNCHANGED <<given, last_mid, clean, inflight, queued, released>>,
         \A m \in Listed' : \E n \in Listed : Same(n, m) /\ (HasPubrec(m) => HasPubrec(n) \/ clean \/ Safe(n.id)),
         \A p \in Entries(up') :
           \/ p \in Entries(up)
           \/ p.kind = "PUBLISH" /\ p.mid = p.id
           \/ p.kind = "PUBREL" /\ (clean \/ Safe(p.mid))
           \/ p.kind = "CONNECT",
         \A k \in acked' : k \in acked \/ clean \/ Safe(k),
         \A p \in Entries(down') : p \in Entries(down)
  PROVE  NumberedInv' /\ (~clean' => SafeInv')
<1>1. Stores' = Stores /\ \A k : Safe(k) => Safe(k)'
  BY SafeAsBefore DEF Ids
<1>2. Entries(up)' = Entries(up') /\ Entries(down)' = Entries(down')
  BY DEF Entries
<1>3. \A m \in Listed' : m.mid = m.id
  BY DEF Same, NumberedInv
<1>4. NumberedInv'
  BY <1>1, <1>2, <1>3 DEF NumberedInv
<1>5. ASSUME ~clean PROVE SafeInv'
  <2>1. SafeInv
    BY <1>5
  <2>2. \A k \in acked' : Safe(k)'
    BY <1>1, <1>5, <2>1 DEF SafeInv
  <2>3. ASSUME NEW m \in Listed', HasPubrec(m) PROVE Safe(m.id)'
    <3>1. PICK n \in Listed : Same(n, m) /\ (HasPubrec(n) \/ Safe(n.id))
      BY <1>5, <2>3
    <3>2. Safe(n.id) /\ n.id = m.id
      BY <2>1, <3>1 DEF SafeInv, Same
    <3> QED
      BY <1>1, <3>2
  <2>4. \A p \in Entries(up') : p.kind = "PUBREL" => Safe(p.mid)'
    BY <1>1, <1>5, <2>1 DEF SafeInv
  <2>5. \A p \in Entries(down') : p.kind # "CONNACK" => Safe(p.mid)'
    BY <1>1, <2>1 DEF SafeInv
  <2> QED
    BY <1>2, <2>2, <2>3, <2>4, <2>5 DEF SafeInv, HasPubrec
<1> QED
  BY <1>4, <1>5

LEMMA ReconnectSafe ==
  ASSUME ToldInv, Reconnect
  PROVE  NumberedInv' /\ (~clean' => SafeInv')
<1>1. PublishTypes /\ NumberedInv /\ (~clean => SafeInv)
  BY DEF ToldInv, BooksInv
<1>2. /\ UNCHANGED <<given, last_mid, acked, clean, inflight, queued, released>>
      /\ \/ sock' = "connected" /\ up' = Append(up, Bare("CONNECT")) /\ down' = <<>>
         \/ UNCHANGED <<sock, up, down>>
      /\ out' = [i \in 1..Len(out) |-> IF i <= SendMaximum THEN Resumed(out[i])
                                       ELSE [out[i] EXCEPT !.state = "invalid"]]
  BY DEF Reconnect, ReconnectReset, session
<1>3. Len(out) \in Nat /\ \A i \in 1..Len(out) : out[i] \in Messages
  BY <1>1, LenProperties, ElementOfSeq DEF PublishTypes
<1>4. Len(out') = Len(out)
  BY <1>2, <1>3
<1>5. ASSUME NEW m \in Messages
      PROVE  /\ Same(m, Resumed(m)) /\ (HasPubrec(Resumed(m)) => HasPubrec(m))
             /\ Same(m, [m EXCEPT !.state = "invalid"])
             /\ ~HasPubrec([m EXCEPT !.state = "invalid"])
  <2>1. Same(m, Resumed(m))
    BY ResumedTypes
  <2>2. Same(m, [m EXCEPT !.state = "invalid"]) /\ ~HasPubrec([m EXCEPT !.state = "invalid"])
    BY DEF Same, Messages, HasPubrec, Unreleased
  <2>3. HasPubrec(Resumed(m)) => HasPubrec(m)
    <3> DEFINE st == CASE m.qos = 1 -> "publish_qos1"
                       [] m.state = "wait_for_pubrec" -> "publish_qos2"
                       [] m.state = "wait_for_pubcomp" -> "resend_pubrel"
                       [] OTHER -> m.state
               kept == {"publish_qos1", "publish_qos2", m.state}
    <3>1. m.state # "wait_for_pubcomp" => st \in kept
      <4> SUFFICES ASSUME m.state # "wait_for_pubcomp" PROVE st \in kept
        OBVIOUS
      <4>1. CASE m.qos = 1
        BY <4>1
      <4>2. CASE m.qos # 1 /\ m.state = "wait_for_pubrec"
        BY <4>2
      <4>3. CASE m.qos # 1 /\ m.state # "wait_for_pubrec"
        BY <4>3
      <4> QED
        BY <4>1, <4>2, <4>3
    <3>2. Resumed(m) = [m EXCEPT !.state = st]
      BY DEF Resumed
    <3> HIDE DEF st
    <3>3. Resumed(m).state = st
      BY <3>2 DEF Messages
    <3> QED
      BY <3>1, <3>3 DEF HasPubrec, Unreleased
  <2> QED
    BY <2>1, <2>2, <2>3
<1>6. ASSUME NEW m \in Listed'
      PROVE  \E n \in Listed : Same(n, m) /\ (HasPubrec(m) => HasPubrec(n))
  <2>1. PICK i \in 1..Len(out) : m = out'[i]
    BY <1>4 DEF Listed, Entries
  <2>2. m = Resumed(out[i]) \/ m = [out[i] EXCEPT !.state = "invalid"]
    BY <1>2, <2>1
  <2>3. out[i] \in Messages /\ out[i] \in Listed
    BY <1>3, <1>4 DEF Listed, Entries
  <2> DEFINE n == out[i]
  <2>4. Same(n, m) /\ (HasPubrec(m) => HasPubrec(n))
    BY <1>5, <2>2, <2>3
  <2> QED
    BY <2>3, <2>4
<1>7. \A p \in Entries(up') : p \in Entries(up) \/ p.kind = "CONNECT"
  <2>1. CASE up' = Append(up, Bare("CONNECT"))
    <3> DEFINE c == Bare("CONNECT")
    <3>1. c \in UpPackets /\ c.kind = "CONNECT"
      BY DEF Bare, Pkt, UpPackets
    <3> HIDE DEF c
    <3>2. /\ Len(up) \in Nat /\ Len(up') = Len(up) + 1
          /\ \A i \in 1..Len(up) : up'[i] = up[i]
          /\ up'[Len(up) + 1] = c
      BY <1>1, <2>1, <3>1, AppendFacts DEF PublishTypes, c
    <3> QED
      BY <3>1, <3>2 DEF Entries
  <2> QED
    BY <1>2, <2>1
<1>8. \A p \in Entries(down') : p \in Entries(down)
  BY <1>2 DEF Entries
<1> QED
  BY <1>1, <1>2, <1>6, <1>7, <1>8, ClientSafe

LEMMA BreakSafe ==
  ASSUME ToldInv, Break
  PROVE  NumberedInv' /\ (~clean' => SafeInv')
<1>1. PublishTypes /\ NumberedInv /\ (~clean => SafeInv)
  BY DEF ToldInv, BooksInv
<1>2. /\ UNCHANGED <<given, out, last_mid, acked, clean, inflight, queued, released>>
      /\ down' = <<>>
  BY DEF Break, session
<1>3. PICK n \in 0..Len(up) : up' = SubSeq(up, 1, n)
  BY DEF Break
<1>4. \A p \in Entries(up') : p \in Entries(up)
  BY <1>1, <1>3, LineCut DEF PublishTypes
<1>5. \A m \in Listed' : m \in Listed /\ Same(m, m)
  BY <1>2 DEF Listed, Entries, Same
<1>6. \A p \in Entries(down') : p \in Entries(down)
  BY <1>2 DEF Entries
<1> QED
  BY <1>1, <1>2, <1>4, <1>5, <1>6, ClientSafe

(* PUBACK and PUBCOMP: what is acknowledged has the number of the packet.  *)
LEMMA AcknowledgeSafe ==
  ASSUME ToldInv, NEW p \in DownPackets, p \in Entries(down), p.kind # "CONNACK", NEW qos,
         HandlePubackcomp(p, qos),
         UNCHANGED <<given, last_mid, clean, inflight, queued, released>>,
         \A x \in Entries(down') : x \in Entries(down)
  PROVE  NumberedInv' /\ (~clean' => SafeInv')
<1> DEFINE quota == Up(out_quota, SendMaximum)
           hit == {i \in 1..Len(out) : out[i].mid = p.mid /\ out[i].qos = qos}
           q == Without(out, p.mid)
<1>1. /\ PublishTypes /\ NumberedInv /\ (~clean => SafeInv) /\ Unique(out)
      /\ out \in Seq(Messages) /\ up \in Seq(UpPackets)
  BY DEF ToldInv, BooksInv, PublishTypes
<1>2. IF hit = {} THEN GiveUp /\ out_quota' = quota
      ELSE /\ acked' = acked \cup {out[i].id : i \in hit}
           /\ ReleaseToInflight(q, quota)
           /\ UNCHANGED sock
  BY DEF HandlePubackcomp
<1>3. CASE hit = {}
  <2>1. UNCHANGED <<out, acked, up>>
    BY <1>2, <1>3 DEF GiveUp
  <2>2. /\ \A m \in Listed' : m \in Listed /\ Same(m, m)
        /\ \A x \in Entries(up') : x \in Entries(up)
    BY <2>1 DEF Listed, Entries, Same
  <2> QED
    BY <1>1, <2>1, <2>2, ClientSafe
<1>4. CASE hit # {}
  <2>1. \A k \in acked' : k \in acked \/ k = p.mid
    <3>1. acked' = acked \cup {out[i].id : i \in hit}
      BY <1>2, <1>4
    <3>2. \A i \in hit : out[i].id = p.mid
      BY <1>1 DEF NumberedInv, Listed, Entries
    <3> HIDE DEF hit
    <3> QED
      BY <3>1, <3>2
  <2>2. ReleaseToInflight(q, quota)
    BY <1>2, <1>4
  <2>3. q \in Seq(Messages)
    BY <1>1, WithoutFacts
  <2>4. \A n \in Entries(q) : n \in Listed
    <3> SUFFICES ASSUME NEW k \in 1..Len(q) PROVE q[k] \in Listed
      BY DEF Entries
    <3>1. \E i \in 1..Len(out) : out[i].mid # p.mid /\ q[k] = out[i]
      BY <1>1, WithoutFrom
    <3> QED
      BY <3>1 DEF Listed, Entries
  <2>5. \A k, n \in 1..Len(q) : q[k].mid = q[n].mid => k = n
    <3>1. \A i, j \in 1..Len(out) : out[i].mid = out[j].mid => i = j
      BY <1>1 DEF Unique
    <3> QED
      BY <1>1, <3>1, WithoutUnique
  <2> HIDE DEF q, quota, hit
  <2>6. Unique(q)
    <3> SUFFICES ASSUME NEW k \in 1..Len(q), NEW n \in 1..Len(q), k # n
                 PROVE  q[k].id # q[n].id /\ q[k].mid # q[n].mid
      BY DEF Unique
    <3>1. q[k].mid # q[n].mid
      BY <2>5
    <3>2. q[k].mid = q[k].id /\ q[n].mid = q[n].id
      BY <1>1, <2>4 DEF NumberedInv, Entries
    <3> QED
      BY <3>1, <3>2
  <2>7. /\ \A m \in Listed' : \E n \in Entries(q) : Same(n, m) /\ (HasPubrec(m) => HasPubrec(n))
        /\ \A x \in Entries(up') :
             \/ x \in Entries(up)
             \/ x.kind = "PUBLISH" /\ \E n \in Entries(q) : x.mid = n.mid /\ x.id = n.id
    BY <1>1, <2>2, <2>3, <2>6, ListReleasedSafe
  <2>8. \A m \in Listed' : \E n \in Listed : Same(n, m) /\ (HasPubrec(m) => HasPubrec(n))
    BY <2>4, <2>7
  <2>9. \A x \in Entries(up') : x \in Entries(up) \/ (x.kind = "PUBLISH" /\ x.mid = x.id)
    BY <1>1, <2>4, <2>7 DEF NumberedInv
  <2>10. \A k \in acked' : k \in acked \/ clean \/ Safe(k)
    BY <1>1, <2>1 DEF SafeInv
  <2> QED
    BY <1>1, <2>8, <2>9, <2>10, ClientSafe
<1> QED
  BY <1>3, <1>4

LEMMA PubrecSafe ==
  ASSUME ToldInv, NEW p \in DownPackets, p \in Entries(down), p.kind = "PUBREC",
         HandlePubrec(p), UNCHANGED <<given, last_mid, clean, inflight, queued, released>>,
         \A x \in Entries(down') : x \in Entries(down)
  PROVE  NumberedInv' /\ (~clean' => SafeInv')
<1> DEFINE f == [i \in 1..Len(out) |-> IF out[i].mid = p.mid
                   THEN [out[i] EXCEPT !.state = "wait_for_pubcomp"] ELSE out[i]]
           x == Ack("PUBREL", p.mid)
<1>1. /\ PublishTypes /\ NumberedInv /\ (~clean => SafeInv)
      /\ out \in Seq(Messages) /\ up \in Seq(UpPackets)
  BY DEF ToldInv, BooksInv, PublishTypes
<1>2. /\ UNCHANGED acked
      /\ \/ UNCHANGED <<out, up>>
         \/ out' = f /\ up' = Append(up, x)
  BY DEF HandlePubrec, GiveUp
<1>3. Len(out) \in Nat /\ \A i \in 1..Len(out) : out[i] \in Messages /\ out[i] \in Listed
  BY <1>1, LenProperties, ElementOfSeq DEF Listed, Entries
<1>4. clean \/ Safe(p.mid)
  BY <1>1 DEF SafeInv
<1>5. CASE UNCHANGED <<out, up>>
  <2>1. /\ \A m \in Listed' : m \in Listed /\ Same(m, m)
        /\ \A y \in Entries(up') : y \in Entries(up)
    BY <1>5 DEF Listed, Entries, Same
  <2> QED
    BY <1>1, <1>2, <2>1, ClientSafe
<1>6. CASE out' = f /\ up' = Append(up, x)
  <2>1. Len(out') = Len(out) /\ \A i \in 1..Len(out) : out'[i] = f[i]
    BY <1>3, <1>6
  <2>2. ASSUME NEW m \in Listed'
        PROVE  \E n \in Listed :
                 Same(n, m) /\ (HasPubrec(m) => HasPubrec(n) \/ clean \/ Safe(n.id))
    <3>1. PICK i \in 1..Len(out) : m = f[i]
      BY <2>1 DEF Listed, Entries
    <3>2. CASE out[i].mid = p.mid
      <4>1. Same(out[i], m)
        BY <1>3, <3>1, <3>2 DEF Same, Messages
      <4>2. out[i].id = p.mid
        BY <1>1, <1>3, <3>2 DEF NumberedInv
      <4> QED
        BY <1>3, <1>4, <4>1, <4>2
    <3>3. CASE out[i].mid # p.mid
      BY <1>3, <3>1, <3>3 DEF Same
    <3> QED
      BY <3>2, <3>3
  <2>3. x \in UpPackets /\ x.kind = "PUBREL" /\ x.mid = p.mid
    BY DEF Ack, Pkt, UpPackets, DownPackets
  <2> HIDE DEF x, f
  <2>4. \A y \in Entries(up') : y \in Entries(up) \/ y = x
    <3>1. /\ Len(up) \in Nat /\ Len(up') = Len(up) + 1
          /\ \A i \in 1..Len(up) : up'[i] = up[i]
          /\ up'[Len(up) + 1] = x
      BY <1>1, <1>6, <2>3, AppendFacts
    <3> QED
      BY <3>1 DEF Entries
  <2>5. \A y \in Entries(up') : y \in Entries(up) \/ (y.kind = "PUBREL" /\ (clean \/ Safe(y.mid)))
    BY <1>4, <2>3, <2>4
  <2> QED
    BY <1>1, <1>2, <2>2, <2>5, ClientSafe
<1> QED
  BY <1>2, <1>5, <1>6

LEMMA ClientReadSafe ==
  ASSUME ToldInv, ClientRead
  PROVE  NumberedInv' /\ (~clean' => SafeInv')
<1> DEFINE p == Head(down)
<1>1. PublishTypes /\ NumberedInv /\ (~clean => SafeInv)
  BY DEF ToldInv, BooksInv
<1>2. /\ down # <<>> /\ down' = Tail(down)
      /\ UNCHANGED <<given, last_mid, clean, inflight, queued, released>>
      /\ \/ p.kind = "CONNACK" /\ HandleConnack
         \/ p.kind = "PUBACK" /\ HandlePubackcomp(p, 1)
         \/ p.kind = "PUBCOMP" /\ HandlePubackcomp(p, 2)
         \/ p.kind = "PUBREC" /\ HandlePubrec(p)
  BY DEF ClientRead, session
<1>3. /\ p \in DownPackets /\ p \in Entries(down)
      /\ \A x \in Entries(down') : x \in Entries(down)
  BY <1>1, <1>2, LineRead DEF PublishTypes
<1> HIDE DEF p
<1>4. CASE HandleConnack
  <2>1. up' = up \o Retries /\ UNCHANGED <<out, acked>>
    BY <1>4 DEF HandleConnack
  <2>2. /\ Retries \in Seq(UpPackets)
        /\ \A x \in Entries(Retries) : \E m \in Listed : ToRetry(m) /\ x = Retry(m)
    BY <1>1, RetriesOfList DEF PublishTypes
  <2>3. \A x \in Entries(up') : x \in Entries(up) \/ x \in Entries(Retries)
    BY <1>1, <2>1, <2>2, LineLonger DEF PublishTypes
  <2>4. ASSUME NEW m \in Listed, ToRetry(m)
        PROVE  \/ Retry(m).kind = "PUBLISH" /\ Retry(m).mid = Retry(m).id
               \/ Retry(m).kind = "PUBREL" /\ (clean \/ Safe(Retry(m).mid))
    <3>1. m.mid = m.id /\ (HasPubrec(m) => clean \/ Safe(m.id))
      BY <1>1 DEF NumberedInv, SafeInv
    <3>2. CASE m.state \in Unpublished
      BY <3>1, <3>2 DEF Retry, PUBLISH, Pkt
    <3>3. CASE m.state \notin Unpublished
      <4>1. HasPubrec(m)
        BY <2>4, <3>3 DEF ToRetry, HasPubrec
      <4>2. Retry(m).kind = "PUBREL" /\ Retry(m).mid = m.mid
        BY <3>3 DEF Retry, Ack, Pkt
      <4> QED
        BY <3>1, <4>1, <4>2
    <3> QED
      BY <3>2, <3>3
  <2>5. \A x \in Entries(up') :
          \/ x \in Entries(up)
          \/ x.kind = "PUBLISH" /\ x.mid = x.id
          \/ x.kind = "PUBREL" /\ (clean \/ Safe(x.mid))
    BY <2>2, <2>3, <2>4
  <2>6. \A m \in Listed' : m \in Listed /\ Same(m, m)
    BY <2>1 DEF Listed, Entries, Same
  <2> QED
    BY <1>1, <1>2, <1>3, <2>1, <2>5, <2>6, ClientSafe
<1>5. CASE p.kind = "PUBACK" /\ HandlePubackcomp(p, 1)
  BY <1>2, <1>3, <1>5, AcknowledgeSafe
<1>6. CASE p.kind = "PUBCOMP" /\ HandlePubackcomp(p, 2)
  BY <1>2, <1>3, <1>6, AcknowledgeSafe
<1>7. CASE p.kind = "PUBREC" /\ HandlePubrec(p)
  BY <1>2, <1>3, <1>7, PubrecSafe
<1> QED
  BY <1>2, <1>4, <1>5, <1>6, <1>7

(* A step of the broker that reads up to its rest: what was safe stays so, *)
(* what comes into the session has the number of its identifier, and what  *)
(* is answered is safe.                                                    *)
LEMMA BrokerSafe ==
  ASSUME NumberedInv, ~clean => SafeInv, UNCHANGED <<given, last_mid, out, acked, clean>>,
         \A p \in Entries(up') : p \in Entries(up),
         \A m \in Stores' : m \in Stores \/ m.mid = m.id,
         ~clean => \A k : Safe(k) => Safe(k)',
         \A p \in Entries(down') : p \in Entries(down) \/ p.kind = "CONNACK" \/ (~clean => Safe(p.mid)')
  PROVE  NumberedInv' /\ (~clean' => SafeInv')
<1>1. Listed' = Listed /\ Entries(up)' = Entries(up') /\ Entries(down)' = Entries(down')
  BY DEF Listed, Entries
<1>2. NumberedInv'
  BY <1>1 DEF NumberedInv
<1>3. ASSUME ~clean PROVE SafeInv'
  <2>1. SafeInv /\ \A k : Safe(k) => Safe(k)'
    BY <1>3
  <2>2. \A k \in acked' : Safe(k)'
    BY <2>1 DEF SafeInv
  <2>3. \A m \in Listed' : HasPubrec(m) => Safe(m.id)'
    BY <1>1, <2>1 DEF SafeInv
  <2>4. \A p \in Entries(up') : p.kind = "PUBREL" => Safe(p.mid)'
    BY <2>1 DEF SafeInv
  <2>5. \A p \in Entries(down') : p.kind # "CONNACK" => Safe(p.mid)'
    BY <1>3, <2>1 DEF SafeInv
  <2> QED
    BY <1>1, <2>2, <2>3, <2>4, <2>5 DEF SafeInv, HasPubrec
<1> QED
  BY <1>2, <1>3

(* Nothing of the queue is lost on its way into flight.                    *)
LEMMA QueueKeeps ==
  ASSUME queued \in Seq(Sessions), NEW s \in Seq(Sessions), NEW n \in 0..Len(queued),
         inflight' = s \o SubSeq(queued, 1, n), queued' = SubSeq(queued, n + 1, Len(queued))
  PROVE  \A m : m \in Entries(s) \/ m \in Entries(queued) => m \in Stores'
<1> DEFINE a == SubSeq(queued, 1, n)
           l == Len(s)
<1>1. /\ a \in Seq(Sessions) /\ Len(a) = n /\ Len(queued) \in Nat
      /\ \A i \in 1..n : a[i] = queued[i]
  BY PrefixFacts, LenProperties
<1> HIDE DEF a
<1>2. /\ l \in Nat /\ Len(inflight') = l + n
      /\ \A i \in 1..l : inflight'[i] = s[i]
      /\ \A i \in 1..n : inflight'[l + i] = a[i]
  <2> DEFINE c == s \o a
  <2>1. /\ c \in Seq(Sessions) /\ l \in Nat /\ Len(c) = l + Len(a)
        /\ \A i \in 1..l : c[i] = s[i]
        /\ \A i \in 1..Len(a) : c[l + i] = a[i]
    <3>1. s \in Seq(Sessions) /\ a \in Seq(Sessions)
      BY <1>1
    <3> HIDE DEF l
    <3> QED
      BY <3>1, ConcatFacts DEF l
  <2>2. inflight' = c
    BY DEF a
  <2> HIDE DEF c
  <2> QED
    BY <1>1, <2>1, <2>2
<1>3. ASSUME NEW i \in 1..l PROVE s[i] \in Entries(inflight')
  <2>1. i \in 1..Len(inflight') /\ inflight'[i] = s[i]
    BY <1>2
  <2> QED
    BY <2>1 DEF Entries
<1>4. ASSUME NEW i \in 1..n PROVE queued[i] \in Entries(inflight')
  <2>1. l + i \in 1..Len(inflight') /\ inflight'[l + i] = queued[i]
    BY <1>1, <1>2
  <2> QED
    BY <2>1 DEF Entries
<1>5. ASSUME NEW i \in n + 1..Len(queued) PROVE queued[i] \in Entries(queued')
  <2>1. /\ Len(queued') = Len(queued) - n
        /\ \A j \in 1..Len(queued') : queued'[j] = queued[n + j]
    <3>1. n < Len(queued)
      BY <1>1
    <3>2. \A j \in n + 1..Len(queued) : queued[j] \in Sessions
      BY <1>1, ElementOfSeq
    <3> QED
      BY <1>1, <3>1, <3>2, SubSeqProperties
  <2>2. i - n \in 1..Len(queued') /\ n + (i - n) = i
    BY <1>1, <2>1
  <2>3. queued'[i - n] = queued[i]
    BY <2>1, <2>2
  <2> QED
    BY <2>2, <2>3 DEF Entries
<1>6. \A i \in 1..Len(queued) : i \in 1..n \/ i \in n + 1..Len(queued)
  BY <1>1
<1>7. ASSUME NEW m, m \in Entries(s) \/ m \in Entries(queued)
      PROVE  m \in Entries(inflight') \/ m \in Entries(queued')
  BY <1>3, <1>4, <1>5, <1>6, <1>7 DEF Entries
<1> QED
  BY <1>7 DEF Stores, Entries

LEMMA ConnectSafe ==
  ASSUME AnyRoom, ToldInv, HandleConnect, UNCHANGED <<given, last_mid, out, acked, clean>>,
         \A p \in Entries(up') : p \in Entries(up)
  PROVE  NumberedInv' /\ (~clean' => SafeInv')
<1>1. /\ BooksInv /\ NumberedInv /\ (~clean => SafeInv) /\ HeldOnce
      /\ inflight \in Seq(Sessions) /\ queued \in Seq(Sessions) /\ down \in Seq(DownPackets)
  BY DEF ToldInv, BooksInv, PublishTypes
<1>2. /\ Reply(<<Bare("CONNACK")>>) /\ UNCHANGED released
      /\ \/ /\ clean \/ inflight \o queued = <<>>
            /\ inflight' = <<>> /\ queued' = <<>>
         \/ ResumeSession
  BY DEF HandleConnect
<1>3. \A p \in Entries(down') : p \in Entries(down) \/ p.kind = "CONNACK"
  <2> DEFINE c == Bare("CONNACK")
  <2>1. c \in DownPackets /\ c.kind = "CONNACK"
    BY DEF Bare, Pkt, DownPackets
  <2>2. down' = down \/ down' = down \o <<c>>
    BY <1>2 DEF Reply
  <2> HIDE DEF c
  <2>3. <<c>> \in Seq(DownPackets) /\ \A p \in Entries(<<c>>) : p = c
    BY <2>1 DEF Entries
  <2>4. CASE down' = down \o <<c>>
    <3>1. \A p \in Entries(down') : p \in Entries(down) \/ p \in Entries(<<c>>)
      BY <1>1, <2>3, <2>4, LineLonger
    <3> QED
      BY <2>1, <2>3, <3>1
  <2> QED
    BY <2>2, <2>4
<1>4. (\A m \in Stores' : m \in Stores) /\ (~clean => \A m \in Stores : m \in Stores')
  <2>1. CASE (clean \/ inflight \o queued = <<>>) /\ inflight' = <<>> /\ queued' = <<>>
    <3>1. Stores' = {}
      BY <2>1 DEF Stores, Entries
    <3>2. inflight \o queued = <<>> => Stores = {}
      <4>1. Entries(Held) = Stores
        BY <1>1, HeldFacts
      <4> QED
        BY <4>1 DEF Held, Entries
    <3> QED
      BY <2>1, <3>1, <3>2
  <2>2. CASE ResumeSession
    <3> DEFINE quota == MaxInflight - Lower(MaxInflight, Len(inflight))
               n == Lower(quota, Len(queued))
    <3>1. Len(inflight) \in Nat /\ Len(queued) \in Nat
      BY <1>1, LenProperties
    <3>2. quota \in 0..MaxInflight
      BY <3>1 DEF Lower, AnyRoom
    <3>3. n \in 0..Len(queued)
      BY <3>1, <3>2 DEF Lower, AnyRoom
    <3>4. /\ inflight' = inflight \o SubSeq(queued, 1, n)
          /\ queued' = SubSeq(queued, n + 1, Len(queued))
      BY <2>2 DEF ResumeSession
    <3> HIDE DEF quota, n
    <3>5. /\ Distinct(inflight)
          /\ \A i \in 1..Len(inflight) : \E j \in 1..Len(inflight) : inflight[i] = inflight[j]
      BY <1>1 DEF HeldOnce
    <3>6. \A m \in Stores' : m \in Stores
      BY <1>1, <3>3, <3>4, <3>5, QueueMoves
    <3>7. \A m : m \in Entries(inflight) \/ m \in Entries(queued) => m \in Stores'
      BY <1>1, <3>3, <3>4, QueueKeeps
    <3> QED
      BY <3>6, <3>7 DEF Stores
  <2> QED
    BY <1>2, <2>1, <2>2
<1>5. ~clean => \A k : Safe(k) => Safe(k)'
  <2>1. Ids' = Ids /\ released' = released
    BY <1>2 DEF Ids
  <2> QED
    BY <1>4, <2>1 DEF Safe
<1> QED
  BY <1>1, <1>3, <1>4, <1>5, BrokerSafe

(* What is answered comes behind what is on its way. *)
LEMMA RepliedFrom ==
  ASSUME down \in Seq(DownPackets), NEW pkts \in Seq(DownPackets), Reply(pkts)
  PROVE  \A x \in Entries(down') : x \in Entries(down) \/ x \in Entries(pkts)
<1>1. down' = down \/ down' = down \o pkts
  BY DEF Reply
<1>2. CASE down' = down \o pkts
  BY <1>2, LineLonger
<1> QED
  BY <1>1, <1>2

LEMMA RepliedOne ==
  ASSUME down \in Seq(DownPackets), NEW kind \in {"PUBACK", "PUBREC", "PUBCOMP"},
         NEW mid \in Nat \ {0}, Reply(<<Ack(kind, mid)>>)
  PROVE  \A x \in Entries(down') : x \in Entries(down) \/ x.mid = mid
<1> DEFINE a == Ack(kind, mid)
<1>1. a \in DownPackets /\ a.mid = mid
  BY DEF Ack, Pkt, DownPackets
<1>2. Reply(<<a>>)
  OBVIOUS
<1> HIDE DEF a
<1>3. <<a>> \in Seq(DownPackets) /\ \A x \in Entries(<<a>>) : x = a
  BY <1>1 DEF Entries
<1>4. \A x \in Entries(down') : x \in Entries(down) \/ x \in Entries(<<a>>)
  BY <1>2, <1>3, RepliedFrom
<1> QED
  BY <1>1, <1>3, <1>4

LEMMA OneMore ==
  ASSUME NEW S, NEW s \in Seq(S), NEW m \in S
  PROVE  Entries(Append(s, m)) = Entries(s) \cup {m}
<1> DEFINE t == Append(s, m)
<1>1. /\ Len(s) \in Nat /\ Len(t) = Len(s) + 1
      /\ \A i \in 1..Len(s) : t[i] = s[i]
      /\ t[Len(s) + 1] = m
  BY AppendFacts
<1> HIDE DEF t
<1>2. /\ Len(s) + 1 \in 1..Len(t) /\ \A i \in 1..Len(s) : i \in 1..Len(t)
      /\ \A i \in 1..Len(t) : i \in 1..Len(s) \/ i = Len(s) + 1
  BY <1>1
<1>3. Entries(t) = Entries(s) \cup {m}
  BY <1>1, <1>2 DEF Entries
<1> QED
  BY <1>3 DEF t

(* QoS 1: the message is passed on before PUBACK is sent.                  *)
LEMMA Publish1Safe ==
  ASSUME ToldInv, UNCHANGED <<given, last_mid, out, acked, clean>>,
         \A x \in Entries(up') : x \in Entries(up),
         NEW p \in UpPackets, p \in Entries(up), p.kind = "PUBLISH", HandlePublish1(p)
  PROVE  NumberedInv' /\ (~clean' => SafeInv')
<1>1. /\ PublishTypes /\ NumbersInv /\ NumberedInv /\ (~clean => SafeInv)
      /\ inflight \in Seq(Sessions) /\ queued \in Seq(Sessions) /\ down \in Seq(DownPackets)
  BY DEF ToldInv, BooksInv, PublishTypes
<1>2. p.mid = p.id /\ p.mid \in Ids /\ p.mid \in Nat \ {0}
  BY <1>1 DEF NumberedInv, NumbersInv, UpPackets
<1>3. /\ released' = [released EXCEPT ![Stored(p)] = @ + 1]
      /\ Reply(<<Ack("PUBACK", p.mid)>>) /\ UNCHANGED <<inflight, queued>>
  BY DEF HandlePublish1, Release
<1>4. Stored(p) = p.mid
  <2>1. \A m \in Entries(Held) : m.mid = m.id
    BY <1>1, HeldFacts DEF NumberedInv
  <2>2. CASE Has(Held, p.mid)
    <3>1. \E m \in Entries(Held) : m.mid = p.mid
      BY <2>2 DEF Has, Entries
    <3>2. Stored(p) = (CHOOSE m \in Entries(Held) : m.mid = p.mid).id
      BY <2>2 DEF Stored, Entries
    <3> QED
      BY <2>1, <3>1, <3>2
  <2>3. CASE ~Has(Held, p.mid)
    BY <1>2, <2>3 DEF Stored
  <2> QED
    BY <2>2, <2>3
<1>5. released'[p.mid] > 0 /\ \A k \in Ids : released[k] > 0 => released'[k] > 0
  <2>1. Len(given) \in Nat /\ released \in [1..Len(given) -> Nat]
    BY <1>1, LenProperties DEF PublishTypes
  <2>2. released' = [released EXCEPT ![p.mid] = @ + 1]
    BY <1>3, <1>4
  <2> QED
    BY <1>2, <2>1, <2>2 DEF Ids
<1>6. Ids' = Ids /\ Stores' = Stores
  BY <1>3 DEF Ids, Stores, Entries
<1>7. Safe(p.mid)' /\ \A k : Safe(k) => Safe(k)'
  BY <1>2, <1>5, <1>6 DEF Safe
<1>8. \A x \in Entries(down') : x \in Entries(down) \/ x.mid = p.mid
  BY <1>1, <1>2, <1>3, RepliedOne
<1> QED
  BY <1>1, <1>6, <1>7, <1>8, BrokerSafe

(* QoS 2: PUBREC is sent for what the session holds.                       *)
LEMMA Publish2Safe ==
  ASSUME ToldInv, UNCHANGED <<given, last_mid, out, acked, clean>>,
         \A x \in Entries(up') : x \in Entries(up),
         NEW p \in UpPackets, p \in Entries(up), p.kind = "PUBLISH", HandlePublish2(p)
  PROVE  NumberedInv' /\ (~clean' => SafeInv')
<1> DEFINE m == [id |-> p.id, mid |-> p.mid]
<1>1. /\ PublishTypes /\ NumbersInv /\ NumberedInv /\ (~clean => SafeInv)
      /\ inflight \in Seq(Sessions) /\ queued \in Seq(Sessions) /\ down \in Seq(DownPackets)
  BY DEF ToldInv, BooksInv, PublishTypes
<1>2. p.mid = p.id /\ p.mid \in Ids /\ p.mid \in Nat \ {0}
  BY <1>1 DEF NumberedInv, NumbersInv, UpPackets
<1>3. m \in Sessions /\ m.mid = p.mid /\ m.id = p.mid
  BY <1>2 DEF UpPackets, Sessions
<1>4. /\ UNCHANGED released
      /\ \/ /\ Has(Held, p.mid) /\ UNCHANGED <<inflight, queued>>
            /\ Reply(<<Ack("PUBREC", p.mid)>>)
         \/ /\ inflight' = Append(inflight, m) /\ UNCHANGED queued
            /\ Reply(<<Ack("PUBREC", p.mid)>>)
         \/ /\ queued' = Append(queued, m) \/ queued' = queued
            /\ UNCHANGED <<inflight, down>>
  BY DEF HandlePublish2, Insert
<1> HIDE DEF m
<1>5. /\ Stores \subseteq Stores' /\ Stores' \subseteq Stores \cup {m}
      /\ UNCHANGED down \/ ((\E x \in Stores' : x.mid = p.mid) /\ Reply(<<Ack("PUBREC", p.mid)>>))
  <2>1. CASE /\ Has(Held, p.mid) /\ UNCHANGED <<inflight, queued>>
             /\ Reply(<<Ack("PUBREC", p.mid)>>)
    <3>1. Stores' = Stores
      BY <2>1 DEF Stores, Entries
    <3>2. \E x \in Entries(Held) : x.mid = p.mid
      BY <2>1 DEF Has, Entries
    <3>3. Entries(Held) = Stores
      BY <1>1, HeldFacts
    <3> QED
      BY <2>1, <3>1, <3>2, <3>3
  <2>2. CASE /\ inflight' = Append(inflight, m) /\ UNCHANGED queued
             /\ Reply(<<Ack("PUBREC", p.mid)>>)
    <3>1. Entries(inflight') = Entries(inflight) \cup {m}
      BY <1>1, <1>3, <2>2, OneMore
    <3>2. Stores' = Stores \cup {m}
      BY <2>2, <3>1 DEF Stores, Entries
    <3> QED
      BY <1>3, <2>2, <3>2
  <2>3. CASE queued' = Append(queued, m) /\ UNCHANGED <<inflight, down>>
    <3>1. Entries(queued') = Entries(queued) \cup {m}
      BY <1>1, <1>3, <2>3, OneMore
    <3>2. Stores' = Stores \cup {m}
      BY <2>3, <3>1 DEF Stores, Entries
    <3> QED
      BY <2>3, <3>2
  <2>4. CASE queued' = queued /\ UNCHANGED <<inflight, down>>
    <3>1. Stores' = Stores
      BY <2>4 DEF Stores, Entries
    <3> QED
      BY <2>4, <3>1
  <2> QED
    BY <1>4, <2>1, <2>2, <2>3, <2>4
<1>6. Ids' = Ids /\ released' = released
  BY <1>4 DEF Ids
<1>7. \A k : Safe(k) => Safe(k)'
  BY <1>5, <1>6 DEF Safe
<1>8. \A x \in Stores' : x \in Stores \/ x.mid = x.id
  BY <1>3, <1>5
<1>9. \A x \in Entries(down') : x \in Entries(down) \/ Safe(x.mid)'
  <2>1. CASE UNCHANGED down
    BY <2>1 DEF Entries
  <2>2. CASE (\E x \in Stores' : x.mid = p.mid) /\ Reply(<<Ack("PUBREC", p.mid)>>)
    <3>1. \A x \in Entries(down') : x \in Entries(down) \/ x.mid = p.mid
      BY <1>1, <1>2, <2>2, RepliedOne
    <3>2. \E x \in Stores' : x.id = p.mid
      BY <1>1, <1>8, <2>2 DEF NumberedInv
    <3>3. Safe(p.mid)'
      BY <1>2, <1>6, <3>2 DEF Safe
    <3> QED
      BY <3>1, <3>3
  <2> QED
    BY <1>5, <2>1, <2>2
<1> QED
  BY <1>1, <1>7, <1>8, <1>9, BrokerSafe

LEMMA PubrecsOf ==
  ASSUME NEW s \in Seq(Sessions)
  PROVE  LET r == Map(LAMBDA m : Ack("PUBREC", m.mid), s)
         IN r \in Seq(DownPackets) /\ \A x \in Entries(r) : \E m \in Entries(s) : x.mid = m.mid
<1> DEFINE r == [i \in 1..Len(s) |-> Ack("PUBREC", s[i].mid)]
<1>1. Map(LAMBDA m : Ack("PUBREC", m.mid), s) = r
  BY DEF Map
<1>2. Len(s) \in Nat /\ \A i \in 1..Len(s) : s[i] \in Sessions /\ s[i] \in Entries(s)
  BY LenProperties, ElementOfSeq DEF Entries
<1>3. \A m \in Sessions : Ack("PUBREC", m.mid) \in DownPackets /\ Ack("PUBREC", m.mid).mid = m.mid
  BY DEF Sessions, Ack, Pkt, DownPackets
<1>4. r \in [1..Len(s) -> DownPackets] /\ \A i \in 1..Len(s) : r[i].mid = s[i].mid
  BY <1>2, <1>3
<1> HIDE DEF r
<1>5. r \in Seq(DownPackets) /\ Len(r) = Len(s)
  BY <1>2, <1>4, SequenceOf
<1>6. \A x \in Entries(r) : \E i \in 1..Len(s) : x.mid = s[i].mid
  BY <1>4, <1>5 DEF Entries
<1>7. \A x \in Entries(r) : \E m \in Entries(s) : x.mid = m.mid
  BY <1>2, <1>6
<1> QED
  BY <1>1, <1>5, <1>7

(* PUBREL: what is taken out of flight is passed on, what waited moves up. *)
LEMMA PubrelSafe ==
  ASSUME AnyRoom, ToldInv, UNCHANGED <<given, last_mid, out, acked, clean>>,
         \A x \in Entries(up') : x \in Entries(up),
         NEW p \in UpPackets, p \in Entries(up), p.kind = "PUBREL", HandlePubrel(p)
  PROVE  NumberedInv' /\ (~clean' => SafeInv')
<1> DEFINE n == Lower(Len(queued), MaxInflight - Lower(MaxInflight, Len(inflight)))
           moved == SubSeq(queued, 1, n)
           s == Without(inflight, p.mid)
           hit == {inflight[i].id : i \in {j \in 1..Len(inflight) : inflight[j].mid = p.mid}}
           c(k) == Cardinality({k} \cap hit)
           recs == Map(LAMBDA m : Ack("PUBREC", m.mid), moved)
           comp == Ack("PUBCOMP", p.mid)
<1>1. /\ PublishTypes /\ NumbersInv /\ NumberedInv /\ (~clean => SafeInv) /\ HeldOnce
      /\ inflight \in Seq(Sessions) /\ queued \in Seq(Sessions) /\ down \in Seq(DownPackets)
  BY DEF ToldInv, BooksInv, PublishTypes
<1>2. /\ released' = [k \in Ids |-> released[k] + c(k)]
      /\ inflight' = s \o moved /\ queued' = SubSeq(queued, n + 1, Len(queued))
      /\ Reply(Append(recs, comp))
  BY DEF HandlePubrel
<1>3. n \in 0..Len(queued)
  <2>1. Len(inflight) \in Nat /\ Len(queued) \in Nat
    BY <1>1, LenProperties
  <2> QED
    BY <2>1 DEF Lower, AnyRoom
<1>4. moved \in Seq(Sessions) /\ \A m \in Entries(moved) : m \in Entries(queued)
  BY <1>1, <1>3, LineCut
<1>5. recs \in Seq(DownPackets) /\ \A x \in Entries(recs) : \E m \in Entries(moved) : x.mid = m.mid
  BY <1>4, PubrecsOf
<1>6. comp \in DownPackets /\ comp.mid = p.mid
  BY DEF Ack, Pkt, UpPackets, DownPackets
<1>7. /\ s \in Seq(Sessions) /\ Distinct(s)
      /\ \A i \in 1..Len(s) : \E j \in 1..Len(inflight) : s[i] = inflight[j]
  <2>1. s \in Seq(Sessions)
    BY <1>1, WithoutFacts
  <2>2. \A i \in 1..Len(s) : \E j \in 1..Len(inflight) : s[i] = inflight[j]
    <3>1. \A i \in 1..Len(s) : \E j \in 1..Len(inflight) : inflight[j].mid # p.mid /\ s[i] = inflight[j]
      BY <1>1, WithoutFacts
    <3> QED
      BY <3>1
  <2>3. \A i, j \in 1..Len(s) : s[i].mid = s[j].mid => i = j
    <3>1. \A i, j \in 1..Len(inflight) : inflight[i].mid = inflight[j].mid => i = j
      BY <1>1 DEF HeldOnce, Distinct
    <3> QED
      BY <1>1, <3>1, WithoutUnique
  <2> QED
    BY <2>1, <2>2, <2>3 DEF Distinct
<1>8. ASSUME NEW i \in 1..Len(inflight), inflight[i].mid # p.mid
      PROVE  inflight[i] \in Entries(s)
  <2>1. \E k \in 1..Len(s) : s[k] = inflight[i]
    BY <1>1, <1>8, WithoutKeeps
  <2> QED
    BY <2>1 DEF Entries
<1>9. ASSUME NEW k PROVE c(k) \in Nat /\ (k \in hit => c(k) = 1)
  <2>1. IsFiniteSet({k}) /\ Cardinality({k}) = 1
    BY FS_Singleton
  <2>2. IsFiniteSet({k} \cap hit)
    <3>1. {k} \cap hit \subseteq {k}
      OBVIOUS
    <3> QED
      BY <2>1, <3>1, FS_Subset
  <2>3. c(k) \in Nat
    BY <2>2, FS_CardinalityType
  <2>4. k \in hit => {k} \cap hit = {k}
    OBVIOUS
  <2> QED
    BY <2>1, <2>3, <2>4
<1>10. \A i \in 1..Len(inflight) : inflight[i].mid = p.mid => inflight[i].id \in hit
  OBVIOUS
<1> HIDE DEF n, moved, s, recs, comp, hit, c
<1>11. \A m \in Stores' : m \in Stores
  BY <1>1, <1>2, <1>3, <1>7, QueueMoves DEF moved
<1>12. \A m : m \in Entries(s) \/ m \in Entries(queued) => m \in Stores'
  BY <1>1, <1>2, <1>3, <1>7, QueueKeeps DEF moved
<1>13. ASSUME NEW k, Safe(k) PROVE Safe(k)'
  <2>1. k \in Ids /\ k \in Ids'
    BY <1>13 DEF Safe, Ids
  <2>2. released[k] \in Nat /\ c(k) \in Nat /\ released'[k] = released[k] + c(k)
    <3>1. Len(released) = Len(given) /\ released \in Seq(Nat)
      BY <1>1 DEF PublishTypes
    <3>2. released[k] \in Nat
      BY <2>1, <3>1, ElementOfSeq DEF Ids
    <3> QED
      BY <1>2, <1>9, <2>1, <3>2
  <2>3. CASE released[k] > 0
    <3>1. released'[k] > 0
      BY <2>2, <2>3
    <3> QED
      BY <2>1, <3>1 DEF Safe
  <2>4. CASE \E m \in Stores : m.id = k
    <3>1. PICK m \in Stores : m.id = k
      BY <2>4
    <3>2. CASE m \in Entries(queued)
      BY <1>12, <2>1, <3>1, <3>2 DEF Safe
    <3>3. CASE m \in Entries(inflight) /\ m.mid # p.mid
      <4>1. m \in Entries(s)
        BY <1>8, <3>3 DEF Entries
      <4> QED
        BY <1>12, <2>1, <3>1, <4>1 DEF Safe
    <3>4. CASE m \in Entries(inflight) /\ m.mid = p.mid
      <4>1. k \in hit
        BY <1>10, <3>1, <3>4 DEF Entries
      <4>2. c(k) = 1
        BY <1>9, <4>1
      <4>3. released'[k] > 0
        BY <2>2, <4>2
      <4> QED
        BY <2>1, <4>3 DEF Safe
    <3> QED
      BY <3>1, <3>2, <3>3, <3>4 DEF Stores
  <2> QED
    BY <1>13, <2>3, <2>4 DEF Safe
<1>14. \A x \in Entries(down') : x \in Entries(down) \/ x \in Entries(recs) \/ x = comp
  <2>1. Append(recs, comp) \in Seq(DownPackets)
    BY <1>5, <1>6, AppendFacts
  <2>2. Entries(Append(recs, comp)) = Entries(recs) \cup {comp}
    BY <1>5, <1>6, OneMore
  <2>3. \A x \in Entries(down') : x \in Entries(down) \/ x \in Entries(Append(recs, comp))
    BY <1>1, <1>2, <2>1, RepliedFrom
  <2> QED
    BY <2>2, <2>3
<1>15. ASSUME NEW x \in Entries(recs) PROVE Safe(x.mid)'
  <2>1. PICK m \in Entries(queued) : x.mid = m.mid
    BY <1>4, <1>5
  <2>2. m \in Stores /\ m \in Stores' /\ m.id = x.mid
    BY <1>1, <1>12, <2>1 DEF Stores, NumberedInv
  <2>3. x.mid \in Ids'
    BY <1>1, <2>2 DEF NumbersInv, Ids
  <2> QED
    BY <2>2, <2>3 DEF Safe
<1>16. ~clean => Safe(p.mid)'
  BY <1>1, <1>13 DEF SafeInv
<1>17. \A x \in Entries(down') : x \in Entries(down) \/ x.kind = "CONNACK" \/ (~clean => Safe(x.mid)')
  BY <1>6, <1>14, <1>15, <1>16
<1>18. (\A m \in Stores' : m \in Stores \/ m.mid = m.id) /\ (~clean => \A k : Safe(k) => Safe(k)')
  BY <1>11, <1>13
<1> QED
  BY <1>1, <1>17, <1>18, BrokerSafe

LEMMA BrokerWriteSafe ==
  ASSUME AnyRoom, ToldInv, BrokerWrite
  PROVE  NumberedInv' /\ (~clean' => SafeInv')
<1> DEFINE n == Lower(in_quota, Len(queued))
           moved == SubSeq(queued, 1, n)
           recs == Map(LAMBDA m : Ack("PUBREC", m.mid), moved)
<1>1. /\ PublishTypes /\ NumbersInv /\ NumberedInv /\ (~clean => SafeInv)
      /\ HeldOnce /\ Distinct(inflight)
      /\ inflight \in Seq(Sessions) /\ queued \in Seq(Sessions) /\ down \in Seq(DownPackets)
  BY DEF ToldInv, BooksInv, PublishTypes, HeldOnce
<1>2. /\ inflight' = inflight \o moved /\ queued' = SubSeq(queued, n + 1, Len(queued))
      /\ down' = down \o recs
      /\ UNCHANGED <<given, last_mid, out, acked, clean, up, released>>
  BY DEF BrokerWrite, client
<1>3. n \in 0..Len(queued)
  <2>1. in_quota \in 0..MaxInflight /\ Len(queued) \in Nat
    BY <1>1, LenProperties DEF PublishTypes
  <2> QED
    BY <2>1 DEF Lower, AnyRoom
<1>4. moved \in Seq(Sessions) /\ \A m \in Entries(moved) : m \in Entries(queued)
  BY <1>1, <1>3, LineCut
<1>5. recs \in Seq(DownPackets) /\ \A x \in Entries(recs) : \E m \in Entries(moved) : x.mid = m.mid
  BY <1>4, PubrecsOf
<1> HIDE DEF n, moved, recs
<1>6. \A m \in Stores' : m \in Stores
  <2>1. \A i \in 1..Len(inflight) : \E j \in 1..Len(inflight) : inflight[i] = inflight[j]
    OBVIOUS
  <2> QED
    BY <1>1, <1>2, <1>3, <2>1, QueueMoves DEF moved
<1>7. \A m : m \in Entries(inflight) \/ m \in Entries(queued) => m \in Stores'
  BY <1>1, <1>2, <1>3, QueueKeeps DEF moved
<1>8. Ids' = Ids /\ released' = released
  BY <1>2 DEF Ids
<1>9. \A k : Safe(k) => Safe(k)'
  BY <1>7, <1>8 DEF Safe, Stores
<1>10. \A x \in Entries(down') : x \in Entries(down) \/ x \in Entries(recs)
  BY <1>1, <1>2, <1>5, LineLonger
<1>11. ASSUME NEW x \in Entries(recs) PROVE Safe(x.mid)'
  <2>1. PICK m \in Entries(queued) : x.mid = m.mid
    BY <1>4, <1>5
  <2>2. m \in Stores /\ m \in Stores' /\ m.id = x.mid
    BY <1>1, <1>7, <2>1 DEF Stores, NumberedInv
  <2>3. x.mid \in Ids'
    BY <1>1, <1>8, <2>2 DEF NumbersInv
  <2> QED
    BY <2>2, <2>3 DEF Safe
<1>12. /\ \A x \in Entries(up') : x \in Entries(up)
       /\ \A m \in Stores' : m \in Stores \/ m.mid = m.id
       /\ ~clean => \A k : Safe(k) => Safe(k)'
       /\ \A x \in Entries(down') : x \in Entries(down) \/ x.kind = "CONNACK" \/ (~clean => Safe(x.mid)')
  BY <1>2, <1>6, <1>9, <1>10, <1>11
<1> QED
  BY <1>1, <1>2, <1>12, BrokerSafe

LEMMA BrokerReadSafe ==
  ASSUME AnyRoom, ToldInv, BrokerRead
  PROVE  NumberedInv' /\ (~clean' => SafeInv')
<1> DEFINE p == Head(up)
<1>1. /\ up # <<>> /\ up' = Tail(up) /\ UNCHANGED <<given, last_mid, out, acked, clean>>
      /\ \/ p.kind = "CONNECT" /\ HandleConnect
         \/ p.kind = "PUBLISH" /\ p.qos = 1 /\ HandlePublish1(p)
         \/ p.kind = "PUBLISH" /\ p.qos = 2 /\ HandlePublish2(p)
         \/ p.kind = "PUBREL" /\ HandlePubrel(p)
  BY DEF BrokerRead, client
<1>2. up \in Seq(UpPackets)
  BY DEF ToldInv, BooksInv, PublishTypes
<1>3. /\ p \in UpPackets /\ p \in Entries(up)
      /\ \A x \in Entries(up') : x \in Entries(up)
  BY <1>1, <1>2, LineRead
<1> HIDE DEF p
<1>4. CASE HandleConnect
  BY <1>1, <1>3, <1>4, ConnectSafe
<1>5. CASE p.kind = "PUBLISH" /\ HandlePublish1(p)
  BY <1>1, <1>3, <1>5, Publish1Safe
<1>6. CASE p.kind = "PUBLISH" /\ HandlePublish2(p)
  BY <1>1, <1>3, <1>6, Publish2Safe
<1>7. CASE p.kind = "PUBREL" /\ HandlePubrel(p)
  BY <1>1, <1>3, <1>7, PubrelSafe
<1> QED
  BY <1>1, <1>4, <1>5, <1>6, <1>7

LEMMA ToldInitial ==
  ASSUME AnyRoom, Init
  PROVE  ToldInv
<1>1. BooksInv
  BY BooksInitial
<1>2. /\ given = <<>> /\ out = <<>> /\ last_mid = 0 /\ acked = {}
      /\ up = <<>> /\ down = <<>> /\ inflight = <<>> /\ queued = <<>>
  BY DEF Init
<1>3. Listed = {} /\ Entries(up) = {} /\ Entries(down) = {} /\ Stores = {}
  BY <1>2 DEF Listed, Entries, Stores
<1> QED
  BY <1>1, <1>2, <1>3 DEF ToldInv, NumberedInv, SafeInv

LEMMA ToldStep ==
  ASSUME NoneTwice, ToldInv, [Next]_vars
  PROVE  ToldInv'
<1>1. AnyRoom /\ BooksInv /\ NumberedInv /\ (~clean => SafeInv)
  BY DEF NoneTwice, ToldInv
<1>2. BooksInv'
  BY <1>1, BooksStep
<1>3. CASE UNCHANGED vars
  <2>1. UNCHANGED <<given, out, last_mid, acked, clean, up, down, inflight, queued, released>>
    BY <1>3 DEF vars, client, session
  <2>2. /\ Listed' = Listed /\ Entries(up)' = Entries(up) /\ Entries(down)' = Entries(down)
        /\ Stores' = Stores /\ Ids' = Ids
    BY <2>1 DEF Listed, Entries, Stores, Ids
  <2> QED
    BY <1>1, <1>2, <2>1, <2>2 DEF ToldInv, NumberedInv, SafeInv, Safe, HasPubrec
<1>4. CASE \E qos \in 1..2 : Publish(qos)
  BY <1>2, <1>4, PublishSafe DEF ToldInv
<1>5. CASE Reconnect
  BY <1>2, <1>5, ReconnectSafe DEF ToldInv
<1>6. CASE ClientRead
  BY <1>2, <1>6, ClientReadSafe DEF ToldInv
<1>7. CASE Break
  BY <1>2, <1>7, BreakSafe DEF ToldInv
<1>8. CASE BrokerRead
  BY <1>1, <1>2, <1>8, BrokerReadSafe DEF ToldInv
<1>9. CASE BrokerWrite
  BY <1>1, <1>2, <1>9, BrokerWriteSafe DEF ToldInv
<1> QED
  BY <1>3, <1>4, <1>5, <1>6, <1>7, <1>8, <1>9 DEF Next

LEMMA ToldIsSafe ==
  ASSUME ToldInv
  PROVE  AckedIsSafe
<1> SUFFICES ASSUME ~clean, NEW k \in acked
             PROVE  released[k] > 0 \/ \E i \in 1..Len(Held) : Held[i].id = k
  BY DEF AckedIsSafe
<1>1. inflight \in Seq(Sessions) /\ queued \in Seq(Sessions) /\ Safe(k)
  BY DEF ToldInv, BooksInv, PublishTypes, SafeInv
<1>2. Entries(Held) = Stores
  BY <1>1, HeldFacts
<1> QED
  BY <1>1, <1>2 DEF Safe, Entries

(* Where the broker keeps the session and no identifier is used again,     *)
(* what it acknowledged was passed on or waits in the session, whatever    *)
(* the limits and however many connections break: PUBREC is sent only for  *)
(* what db__message_insert stored, and PUBCOMP, which is sent for any      *)
(* identifier, answers only what was once acknowledged with PUBREC.        *)
THEOREM AcknowledgedIsSafe ==
  ASSUME NoneTwice
  PROVE  Spec => []AckedIsSafe
<1>1. Init => ToldInv
  BY ToldInitial DEF NoneTwice
<1>2. ToldInv /\ [Next]_vars => ToldInv'
  BY ToldStep
<1>3. ToldInv => AckedIsSafe
  BY ToldIsSafe
<1> QED
  BY <1>1, <1>2, <1>3, PTL DEF Spec
=============================================================================
