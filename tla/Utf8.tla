-------------------------------- MODULE Utf8 --------------------------------
(***************************************************************************)
(* mosquitto_validate_utf8 (utf8_mosq.c), one character per step, beside   *)
(* the definition of UTF-8: a text is encoded with the fewest bytes each   *)
(* character can have.  Every caller passes a text with a 0 behind it,     *)
(* which is read when the last character is cut short.                     *)
(***************************************************************************)
EXTENDS Integers, Sequences

CONSTANTS
  CodePoints,   \* characters to try, valid ones or not
  MaxChars      \* bound: characters of a text

VARIABLES
  text,     \* the characters and the bytes each is encoded with, [cp, n]
  cut,      \* bytes missing at the end
  i,        \* ustr[i] is the next byte, counted from 0
  rc        \* "running", "success" or "malformed"

vars == <<text, cut, i, rc>>

-----------------------------------------------------------------------------
(* cp in n bytes, the first with n leading ones; n may be too many. *)
Pow64(k) == CASE k = 0 -> 1 [] k = 1 -> 64 [] k = 2 -> 4096 [] k = 3 -> 262144
Lead(n) == CASE n = 1 -> 0 [] n = 2 -> 192 [] n = 3 -> 224 [] n = 4 -> 240
Encode(c) ==
  [k \in 1..c.n |-> IF k = 1 THEN Lead(c.n) + c.cp \div Pow64(c.n - 1)
                             ELSE 128 + ((c.cp \div Pow64(c.n - k)) % 64)]

(* The fewest bytes for cp, and the most that have room for it. *)
Fewest(cp) == IF cp < 128 THEN 1 ELSE IF cp < 2048 THEN 2
              ELSE IF cp < 65536 THEN 3 ELSE 4
Encodings == {c \in [cp : CodePoints, n : 1..4] : c.n >= Fewest(c.cp)}

Bytes(cs) ==
  LET f[k \in 0..Len(cs)] == IF k = 0 THEN <<>> ELSE f[k - 1] \o Encode(cs[k])
  IN f[Len(cs)]

str == LET all == Bytes(text) IN SubSeq(all, 1, Len(all) - cut)
len == Len(str)
ustr(k) == IF k < len THEN str[k + 1] ELSE 0

Init ==
  /\ text \in UNION {[1..k -> Encodings] : k \in 0..MaxChars}
  /\ cut \in 0..(IF text = <<>> THEN 0 ELSE text[Len(text)].n - 1)
  /\ i = 0
  /\ rc = "running"

-----------------------------------------------------------------------------
(* What the first byte of a character says, 0: no character begins so. *)
CodeLen(b) ==
  CASE b \in 1..127 -> 1
    [] b \in 194..223 -> 2
    [] b \in 224..239 -> 3
    [] b \in 240..244 -> 4
    [] OTHER -> 0

LeadBits(b, n) == CASE n = 1 -> b [] n = 2 -> b % 32 [] n = 3 -> b % 16 [] n = 4 -> b % 8

CodePoint(n) ==
  LET f[k \in 0..n - 1] ==
        IF k = 0 THEN LeadBits(ustr(i), n) ELSE f[k - 1] * 64 + (ustr(i + k) % 64)
  IN f[n - 1]

(* Mutant: a character of three bytes may be encoded with too many. *)
AcceptedOverlong(cp, n) ==
  /\ cp \notin 55296..57343
  /\ ~(n = 4 /\ cp \notin 65536..1114111)
  /\ cp \notin 64976..65007 /\ cp % 65536 \notin {65534, 65535}
  /\ cp > 31 /\ cp \notin 127..159

(* No surrogate, no overlong encoding, no noncharacter, no control. *)
Accepted(cp, n) ==
  /\ cp \notin 55296..57343
  /\ ~(n = 3 /\ cp < 2048) /\ ~(n = 4 /\ cp \notin 65536..1114111)
  /\ cp \notin 64976..65007 /\ cp % 65536 \notin {65534, 65535}
  /\ cp > 31 /\ cp \notin 127..159

(* Whether there is data enough is only compared for equality; what is     *)
(* then missing is found when the 0 behind the text is no continuation.    *)
Character ==
  /\ rc = "running" /\ i < len
  /\ LET n == CodeLen(ustr(i))
     IN IF /\ n # 0
           /\ i # len - n + 1
           /\ \A k \in 1..n - 1 : ustr(i + k) \div 64 = 2
           /\ Accepted(CodePoint(n), n)
          THEN i' = i + n /\ rc' = rc
          ELSE i' = i /\ rc' = "malformed"
  /\ UNCHANGED <<text, cut>>

Finish ==
  /\ rc = "running" /\ i >= len
  /\ rc' = "success"
  /\ UNCHANGED <<text, cut, i>>

Next == Character \/ Finish

Spec == Init /\ [][Next]_vars

-----------------------------------------------------------------------------
(* MQTT 1.5.4: no surrogates, and for mosquitto no control characters and  *)
(* noncharacters either.                                                   *)
Allowed(cp) ==
  /\ cp <= 1114111
  /\ cp \notin 0..31 \cup 127..159 \cup 55296..57343 \cup 64976..65007
  /\ cp % 65536 < 65534

(* A text is accepted if and only if it is complete, every character is    *)
(* allowed and none takes more bytes than it needs.                        *)
ValidatesUtf8 ==
  /\ rc = "success" =>
       cut = 0 /\ \A k \in 1..Len(text) : Allowed(text[k].cp) /\ text[k].n = Fewest(text[k].cp)
  /\ rc = "malformed" =>
       cut > 0 \/ \E k \in 1..Len(text) : ~Allowed(text[k].cp) \/ text[k].n # Fewest(text[k].cp)
=============================================================================
