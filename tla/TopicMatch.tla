----------------------------- MODULE TopicMatch -----------------------------
(***************************************************************************)
(* util_topic.c: does a subscription match a topic?  The loop of           *)
(* mosquitto_topic_matches_sub2, one round of it per step, beside what     *)
(* MQTT says of the levels of a topic, and the checks that both broker and *)
(* client make of a topic and of a subscription before they use it.        *)
(***************************************************************************)
EXTENDS Integers, Sequences, FiniteSets

CONSTANTS
  Subs, Topics,            \* sequences of characters to try
  TOPIC_HIERARCHY_LIMIT    \* slashes the broker allows (200 in the code)

VARIABLES
  sub, topic,   \* the arguments
  s, t,         \* positions in them
  result        \* "running", "match", "nomatch" or "inval"

vars == <<sub, topic, s, t, result>>

NUL == "NUL"
At(str, i) == IF i \in 1..Len(str) THEN str[i] ELSE NUL
Wildcards == {"+", "#"}
Separators == {"/", NUL}

-----------------------------------------------------------------------------
PubTopicCheck(str) ==
  /\ \A i \in 1..Len(str) : str[i] \notin Wildcards
  /\ Cardinality({i \in 1..Len(str) : str[i] = "/"}) <= TOPIC_HIERARCHY_LIMIT

(* A wildcard stands between separators, and # at the end. *)
SubTopicCheck(str) ==
  /\ \A i \in 1..Len(str) :
       /\ str[i] \in Wildcards => At(str, i - 1) \in Separators
       /\ str[i] = "+" => At(str, i + 1) \in Separators
       /\ str[i] = "#" => i = Len(str)
  /\ Cardinality({i \in 1..Len(str) : str[i] = "/"}) <= TOPIC_HIERARCHY_LIMIT

-----------------------------------------------------------------------------
(* What comes before the loop. *)
Entered(sb, tp) ==
  IF sb = <<>> \/ tp = <<>> THEN "inval"
  ELSE IF (sb[1] = "$") # (tp[1] = "$") THEN "nomatch" ELSE "running"

Init ==
  /\ sub \in Subs /\ topic \in Topics
  /\ s = 1 /\ t = 1
  /\ result = Entered(sub, topic)

Sub(k) == At(sub, s + k)
Topic == At(topic, t)
WildcardFrom(i, j) == \E k \in i..j : topic[k] \in Wildcards

Return(r) == result' = r /\ UNCHANGED <<sub, topic, s, t>>
GoOn(i, j) == s' = i /\ t' = j /\ UNCHANGED <<sub, topic, result>>

(* The subscription is used up, and the topic is not. *)
EndOfSub ==
  /\ Sub(0) = NUL
  /\ Return(IF WildcardFrom(t, Len(topic)) THEN "inval" ELSE "nomatch")

WildcardInTopic == Sub(0) # NUL /\ Topic \in Wildcards /\ Return("inval")

Differs == Sub(0) # NUL /\ Topic \notin Wildcards /\ Sub(0) # Topic

(* The end of the level the topic is in. *)
LevelEnd ==
  CHOOSE j \in t..Len(topic) + 1 :
    /\ At(topic, j) \in Separators
    /\ \A k \in t..j - 1 : topic[k] # "/"

Plus ==
  /\ Differs /\ Sub(0) = "+"
  /\ IF \/ Sub(-1) \notin Separators \/ Sub(1) \notin Separators
        \/ WildcardFrom(t, LevelEnd - 1)
       THEN Return("inval")
       ELSE IF LevelEnd > Len(topic) /\ Sub(1) = NUL
              THEN Return("match") ELSE GoOn(s + 1, LevelEnd)

(* Mutant: the rest of the topic is not looked at. *)
HashAnyTopic ==
  /\ Differs /\ Sub(0) = "#"
  /\ Return(IF Sub(-1) \notin Separators \/ Sub(1) # NUL THEN "inval" ELSE "match")

Hash ==
  /\ Differs /\ Sub(0) = "#"
  /\ Return(IF Sub(-1) \notin Separators \/ Sub(1) # NUL
                 \/ WildcardFrom(t, Len(topic))
              THEN "inval" ELSE "match")

(* foo/bar matches foo/+/#; apart from that there is no match any more. *)
NoMatch ==
  /\ Differs /\ Sub(0) \notin Wildcards
  /\ Return(IF Topic = NUL /\ Sub(-1) = "+" /\ Sub(0) = "/" /\ Sub(1) = "#"
              THEN "match"
            ELSE IF \E i \in s..Len(sub) - 1 : sub[i] = "#"
              THEN "inval" ELSE "nomatch")

(* Mutant: the end of the topic is not looked at. *)
SameNoParent ==
  /\ Sub(0) # NUL /\ Sub(0) = Topic /\ Topic \notin Wildcards
  /\ IF s = Len(sub) /\ t = Len(topic)
       THEN Return("match") ELSE GoOn(s + 1, t + 1)

(* The same character.  At the end of the topic foo matches foo/#, and     *)
(* foo/ matches foo/+.                                                     *)
Same ==
  /\ Sub(0) # NUL /\ Sub(0) = Topic /\ Topic \notin Wildcards
  /\ IF t # Len(topic) THEN GoOn(s + 1, t + 1)
     ELSE IF \/ SubSeq(sub, s + 1, Len(sub)) \in {<<"/", "#">>, <<>>}
             \/ SubSeq(sub, s + 1, Len(sub)) = <<"+">> /\ Sub(0) = "/"
       THEN Return("match")
     ELSE IF SubSeq(sub, s + 1, Len(sub)) = <<"+">>
       THEN Return("inval") ELSE GoOn(s + 1, t + 1)

Next ==
  /\ result = "running"
  /\ EndOfSub \/ WildcardInTopic \/ Plus \/ Hash \/ NoMatch \/ Same

Spec == Init /\ [][Next]_vars

-----------------------------------------------------------------------------
(* The levels of a topic: what its slashes separate. *)
LevelsOf(str) ==
  LET slashes == {0, Len(str) + 1} \cup {i \in 1..Len(str) : str[i] = "/"}
      Nth(n) == CHOOSE i \in slashes : Cardinality({j \in slashes : j < i}) = n
  IN [n \in 1..Cardinality(slashes) - 1 |-> SubSeq(str, Nth(n - 1) + 1, Nth(n) - 1)]

(* MQTT: "+" stands for one level, "#" for any number of further ones, and *)
(* neither for a first level that begins with $.                           *)
LevelsMatch(f, l) ==
  LET multi == f[Len(f)] = <<"#">>
      fixed == IF multi THEN Len(f) - 1 ELSE Len(f)
  IN /\ IF multi THEN Len(l) >= fixed ELSE Len(l) = fixed
     /\ \A n \in 1..fixed : f[n] \in {<<"+">>, l[n]}
     /\ At(l[1], 1) = "$" => At(f[1], 1) = "$"

(* A subscription and a topic that passed the checks are never refused,    *)
(* and match exactly where MQTT says so: the special cases of the loop for *)
(* "#" behind the last level and "+" for an empty one are complete.        *)
MatchesAsLevels ==
  sub # <<>> /\ topic # <<>> /\ SubTopicCheck(sub) /\ PubTopicCheck(topic) =>
    /\ result # "inval"
    /\ result = "match" => LevelsMatch(LevelsOf(sub), LevelsOf(topic))
    /\ result = "nomatch" => ~LevelsMatch(LevelsOf(sub), LevelsOf(topic))

(* A topic with a wildcard, which nobody may publish to, matches nothing.  *)
WildcardTopicMatchesNothing ==
  WildcardFrom(1, Len(topic)) => result # "match"
=============================================================================
