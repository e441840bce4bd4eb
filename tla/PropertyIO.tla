----------------------------- MODULE PropertyIO -----------------------------
(***************************************************************************)
(* MQTT 5 properties (property_mosq.c, packet_datatypes.c): a list is made *)
(* with the add functions, written into a packet, and read back by the     *)
(* other side, which checks it.  The reader counts down the length that    *)
(* the packet declares by what it takes each property to be long; that     *)
(* length may be wrong, and the packet may be cut short.                   *)
(*                                                                         *)
(* A property is [id, v]; v is a number, a text (a sequence of bytes), or  *)
(* two texts.  Texts are ASCII: other bytes are no part of a valid one.    *)
(***************************************************************************)
EXTENDS Integers, Sequences, FiniteSets

CONSTANTS
  Candidates,    \* [kind, id, v]: what the add functions are called with
  MaxProps,      \* bound: properties of a list
  CommandsUsed   \* commands to read the list for

VARIABLES
  list,      \* the list of the sender
  command,
  packet,    \* bytes from the declared length on, <<>> until written
  declared,  \* the length the packet declares, -1 if it cannot be read
  pos,       \* bytes of the packet that were read
  proplen,   \* declared length not yet accounted for
  read,      \* the list of the receiver
  rc         \* "build", "length", "running", or how reading ended

vars == <<list, command, packet, declared, pos, proplen, read, rc>>

-----------------------------------------------------------------------------
ByteProps   == {1, 23, 25, 36, 37, 40, 41, 42}
Int16Props  == {19, 33, 34, 35}
Int32Props  == {2, 17, 24, 39}
VarintProps == {11}
StringProps == {3, 8, 18, 21, 26, 28, 31}
BinaryProps == {9, 22}
PairProps   == {38}

Identifiers(kind) ==
  CASE kind = "byte"   -> ByteProps   [] kind = "int16"  -> Int16Props
    [] kind = "int32"  -> Int32Props  [] kind = "varint" -> VarintProps
    [] kind = "string" -> StringProps [] kind = "binary" -> BinaryProps
    [] kind = "pair"   -> PairProps

Commands == {"CONNECT", "CONNACK", "PUBLISH", "PUBACK", "SUBSCRIBE", "SUBACK",
             "UNSUBSCRIBE", "UNSUBACK", "DISCONNECT", "AUTH", "WILL"}

(* mosquitto_property_check_command *)
AllowedOn(id) ==
  CASE id \in {1, 2, 3, 8, 9} -> {"PUBLISH", "WILL"}
    [] id = 11                -> {"PUBLISH", "SUBSCRIBE"}
    [] id = 17                -> {"CONNECT", "CONNACK", "DISCONNECT"}
    [] id \in {21, 22}        -> {"CONNECT", "CONNACK", "AUTH"}
    [] id \in {18, 19, 26, 36, 37, 40, 41, 42} -> {"CONNACK"}
    [] id = 24                -> {"WILL"}
    [] id \in {23, 25}        -> {"CONNECT"}
    [] id = 28                -> {"CONNACK", "DISCONNECT"}
    [] id = 31 -> Commands \ {"CONNECT", "PUBLISH", "SUBSCRIBE", "UNSUBSCRIBE"}
    [] id \in {33, 34, 39}    -> {"CONNECT", "CONNACK"}
    [] id = 35                -> {"PUBLISH"}
    [] id = 38                -> Commands

-----------------------------------------------------------------------------
(* Writing. *)

WriteUint16(n) == <<n \div 256, n % 256>>
WriteUint32(n) == WriteUint16(n \div 65536) \o WriteUint16(n % 65536)
WriteString(str) == WriteUint16(Len(str)) \o str

VarintBytes(n) == IF n < 128 THEN 1 ELSE IF n < 16384 THEN 2
                  ELSE IF n < 2097152 THEN 3 ELSE 4
WriteVarint(n) ==
  [k \in 1..VarintBytes(n) |->
     ((n \div 128 ^ (k - 1)) % 128) + IF k < VarintBytes(n) THEN 128 ELSE 0]

WriteProperty(p) ==
  <<p.id>> \o
  CASE p.id \in ByteProps   -> <<p.v>>
    [] p.id \in Int16Props  -> WriteUint16(p.v)
    [] p.id \in Int32Props  -> WriteUint32(p.v)
    [] p.id \in VarintProps -> WriteVarint(p.v)
    [] p.id \in StringProps \cup BinaryProps -> WriteString(p.v)
    [] p.id \in PairProps   -> WriteString(p.v[1]) \o WriteString(p.v[2])

(* Mutant: the two lengths of a pair are counted as one. *)
GetLengthPair(p) ==
  CASE p.id \in ByteProps   -> 2
    [] p.id \in Int16Props  -> 3
    [] p.id \in Int32Props  -> 5
    [] p.id \in VarintProps -> 1 + VarintBytes(p.v)
    [] p.id \in StringProps \cup BinaryProps -> 3 + Len(p.v)
    [] p.id \in PairProps   -> 3 + Len(p.v[1]) + Len(p.v[2])

GetLength(p) ==
  CASE p.id \in ByteProps   -> 2
    [] p.id \in Int16Props  -> 3
    [] p.id \in Int32Props  -> 5
    [] p.id \in VarintProps -> 1 + VarintBytes(p.v)
    [] p.id \in StringProps \cup BinaryProps -> 3 + Len(p.v)
    [] p.id \in PairProps   -> 5 + Len(p.v[1]) + Len(p.v[2])

GetLengthAll(l) ==
  LET f[k \in 0..Len(l)] == IF k = 0 THEN 0 ELSE f[k - 1] + GetLength(l[k])
  IN f[Len(l)]

WriteAll(l) ==
  LET f[k \in 0..Len(l)] == IF k = 0 THEN <<>> ELSE f[k - 1] \o WriteProperty(l[k])
  IN f[Len(l)]

-----------------------------------------------------------------------------
(* Reading at position p: what was read and the position behind it, or why *)
(* it failed.                                                              *)

Done(p, v) == [rc |-> "success", pos |-> p, v |-> v]
Fail(why) == [rc |-> why]
Ok(r) == r.rc = "success"

ReadByte(p) ==
  IF p + 1 > Len(packet) THEN Fail("protocol") ELSE Done(p + 1, packet[p + 1])
(* Mutant: the low byte first. *)
ReadUint16Swapped(p) ==
  IF p + 2 > Len(packet) THEN Fail("protocol")
  ELSE Done(p + 2, packet[p + 2] * 256 + packet[p + 1])

ReadUint16(p) ==
  IF p + 2 > Len(packet) THEN Fail("protocol")
  ELSE Done(p + 2, packet[p + 1] * 256 + packet[p + 2])
ReadUint32(p) ==
  IF p + 4 > Len(packet) THEN Fail("protocol")
  ELSE Done(p + 4, ((packet[p + 1] * 256 + packet[p + 2]) * 256 + packet[p + 3]) * 256
                     + packet[p + 4])

(* Up to four bytes, the last without the top bit and not an idle 0. *)
ReadVarint(p) ==
  LET last == {n \in 1..4 : /\ p + n <= Len(packet) /\ packet[p + n] < 128
                            /\ \A k \in 1..n - 1 : packet[p + k] >= 128}
      f[k \in 0..4] == IF k = 0 THEN 0
                       ELSE f[k - 1] + (packet[p + k] % 128) * 128 ^ (k - 1)
  IN IF \E n \in last : n = 1 \/ packet[p + n] # 0
       THEN LET n == CHOOSE n \in last : TRUE IN Done(p + n, f[n])
       ELSE Fail("protocol")

ReadBinary(p) ==
  LET slen == ReadUint16(p)
  IN IF ~Ok(slen) THEN slen
     ELSE IF slen.pos + slen.v > Len(packet) THEN Fail("protocol")
     ELSE Done(slen.pos + slen.v, SubSeq(packet, slen.pos + 1, slen.pos + slen.v))

ReadString(p) ==
  LET str == ReadBinary(p)
  IN IF Ok(str) /\ \E k \in 1..Len(str.v) : str.v[k] \notin 32..126
       THEN Fail("malformed_utf8") ELSE str

ReadPair(p) ==
  LET name == ReadString(p)
      value == ReadString(name.pos)
  IN IF ~Ok(name) THEN name
     ELSE IF ~Ok(value) THEN value ELSE Done(value.pos, <<name.v, value.v>>)

(* The value of a property, and what the reader takes off the length. *)
ReadValue(id, p) ==
  CASE id \in ByteProps   -> ReadByte(p)
    [] id \in Int16Props  -> ReadUint16(p)
    [] id \in Int32Props  -> ReadUint32(p)
    [] id \in VarintProps -> ReadVarint(p)
    [] id \in StringProps -> ReadString(p)
    [] id \in BinaryProps -> ReadBinary(p)
    [] id \in PairProps   -> ReadPair(p)
    [] OTHER -> Fail("malformed_packet")

(* Mutant: the second length of a pair is forgotten. *)
CountedPair(id, v) ==
  1 + CASE id \in ByteProps   -> 1
        [] id \in Int16Props  -> 2
        [] id \in Int32Props  -> 4
        [] id \in VarintProps -> VarintBytes(v)
        [] id \in StringProps \cup BinaryProps -> 2 + Len(v)
        [] id \in PairProps   -> 2 + Len(v[1]) + Len(v[2])

Counted(id, v) ==
  1 + CASE id \in ByteProps   -> 1
        [] id \in Int16Props  -> 2
        [] id \in Int32Props  -> 4
        [] id \in VarintProps -> VarintBytes(v)
        [] id \in StringProps \cup BinaryProps -> 2 + Len(v)
        [] id \in PairProps   -> 4 + Len(v[1]) + Len(v[2])

-----------------------------------------------------------------------------
Init ==
  /\ list = <<>> /\ command \in CommandsUsed
  /\ packet = <<>> /\ declared = -1 /\ pos = 0 /\ proplen = 0 /\ read = <<>>
  /\ rc = "build"

(* mosquitto_property_add_*; a wrong identifier is refused. *)
Add(c) ==
  /\ rc = "build" /\ Len(list) < MaxProps
  /\ list' = IF c.id \in Identifiers(c.kind)
               THEN Append(list, [id |-> c.id, v |-> c.v]) ELSE list
  /\ UNCHANGED <<command, packet, declared, pos, proplen, read, rc>>

(* property__write_all; `off' is what the declared length is wrong by,     *)
(* `cut' how many bytes are missing, of the payload behind too.            *)
Payload == <<65, 66>>
Write(off, cut) ==
  /\ rc = "build"
  /\ GetLengthAll(list) + off >= 0
  /\ LET all == WriteVarint(GetLengthAll(list) + off) \o WriteAll(list) \o Payload
     IN packet' = SubSeq(all, 1, Len(all) - cut)
  /\ rc' = "length"
  /\ UNCHANGED <<list, command, declared, pos, proplen, read>>

ReadLength ==
  /\ rc = "length"
  /\ LET r == ReadVarint(0)
     IN IF Ok(r) THEN /\ declared' = r.v /\ proplen' = r.v /\ pos' = r.pos
                      /\ rc' = "running"
                 ELSE rc' = r.rc /\ UNCHANGED <<declared, proplen, pos>>
  /\ UNCHANGED <<list, command, packet, read>>

ReadProperty ==
  /\ rc = "running" /\ proplen > 0
  /\ LET id == ReadVarint(pos)
         r  == IF Ok(id) THEN ReadValue(id.v, id.pos) ELSE id
     IN IF Ok(r) THEN /\ read' = Append(read, [id |-> id.v, v |-> r.v])
                      /\ pos' = r.pos
                      /\ proplen' = proplen - Counted(id.v, r.v)
                      /\ UNCHANGED rc
                 ELSE rc' = r.rc /\ read' = <<>> /\ UNCHANGED <<pos, proplen>>
  /\ UNCHANGED <<list, command, packet, declared>>

OutOfRange(p) ==
  \/ p.id \in ByteProps \ {1} /\ p.v > 1
  \/ p.id \in {39, 33, 35} /\ p.v = 0

(* Mutant: every property may come twice. *)
CheckAllTwice(l) ==
  IF \E k \in 1..Len(l) : OutOfRange(l[k]) \/ command \notin AllowedOn(l[k].id)
    THEN "protocol" ELSE "success"

(* The first property that is wrong decides; only 38 may come twice. *)
CheckAll(l) ==
  LET Wrong(k) == OutOfRange(l[k]) \/ command \notin AllowedOn(l[k].id)
      Twice(k) == l[k].id # 38 /\ \E m \in k + 1..Len(l) : l[m].id = l[k].id
      bad == {k \in 1..Len(l) : Wrong(k) \/ Twice(k)}
      first == CHOOSE k \in bad : \A m \in bad : k <= m
  IN IF bad = {} THEN "success"
     ELSE IF Wrong(first) THEN "protocol" ELSE "duplicate_property"

Check ==
  /\ rc = "running" /\ proplen <= 0
  /\ rc' = CheckAll(read)
  /\ read' = IF CheckAll(read) = "success" THEN read ELSE <<>>
  /\ UNCHANGED <<list, command, packet, declared, pos, proplen>>

Next ==
  \/ \E c \in Candidates : Add(c)
  \/ \E off \in -1..1, cut \in 0..3 : Write(off, cut)
  \/ ReadLength \/ ReadProperty \/ Check

Spec == Init /\ [][Next]_vars

-----------------------------------------------------------------------------
(* A list written without a fault is read back as it was, up to the        *)
(* payload, if it may be used for the command at all.                      *)
Whole == packet = WriteVarint(GetLengthAll(list)) \o WriteAll(list) \o Payload
ReadsBack ==
  Whole /\ rc \notin {"build", "length", "running"} =>
    /\ rc = CheckAll(list)
    /\ rc = "success" => read = list /\ pos = Len(packet) - Len(Payload)

(* The length property__read_all counts down agrees with the bytes it has  *)
(* read, whatever the packet says, and it never reads beyond the packet.   *)
CountsBytesRead ==
  /\ pos <= Len(packet)
  /\ rc = "running" =>
       pos = VarintBytes(declared) + GetLengthAll(read) /\ proplen = declared - GetLengthAll(read)

(* What property__get_length_all allots is what property__write_all fills; *)
(* packet__write_byte asserts that it is enough.                           *)
LengthIsWritten == GetLengthAll(list) = Len(WriteAll(list))

(* No receiver gets two values for one thing: only user properties repeat. *)
OneOfEach ==
  rc = "success" =>
    \A k, m \in 1..Len(read) : read[k].id = read[m].id => k = m \/ read[k].id = 38
=============================================================================
