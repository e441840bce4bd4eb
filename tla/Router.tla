------------------------------- MODULE Router -------------------------------
(***************************************************************************)
(* What the broker's subscriptions and retained messages promise, without  *)
(* the tree they are kept in: a table of subscriptions, and who gets a     *)
(* message that is published.                                              *)
(*                                                                         *)
(* A topic or a filter is the sequence of its levels.                      *)
(***************************************************************************)
EXTENDS Naturals, Sequences, FiniteSets

CONSTANTS
  Clients,
  V5,          \* those of the clients that use MQTT 5
  Topics,
  Dollar,      \* first levels that begin with $
  MayRead(_, _)

VARIABLES
  table,      \* the subscriptions [c, f, g, q, nl, rap]; g is the name of
              \* the group that shares it, "" if nobody does
  retained,   \* per topic: [m, q, expired]
  trees,      \* the first levels the broker has a tree for, "" for most
  out         \* per client: what the last step sent it

vars == <<table, retained, trees, out>>

Nothing == [m |-> "", q |-> 0, expired |-> FALSE]
Tree(l) == IF l[1] \in Dollar THEN l[1] ELSE ""
Least(a, b) == IF a < b THEN a ELSE b

(* "+" is one level, "#" the rest; neither stands for a level with $.      *)
Matches(f, t) ==
  LET multi == f[Len(f)] = "#"
      fixed == IF multi THEN Len(f) - 1 ELSE Len(f)
  IN /\ IF multi THEN Len(t) >= fixed ELSE Len(t) = fixed
     /\ \A n \in 1..fixed : f[n] \in {"+", t[n]}
     /\ Tree(f) = Tree(t)

Init ==
  /\ table = {} /\ retained = [t \in Topics |-> Nothing]
  /\ trees = {"", "$SYS"}
  /\ out = [c \in Clients |-> <<>>]

(* The messages of a set, in any order. *)
Sends(o, set, Message(_)) ==
  /\ Len(o) = Cardinality(set)
  /\ \E b \in [1..Len(o) -> set] :
       /\ \A i, j \in 1..Len(o) : b[i] = b[j] => i = j
       /\ \A i \in 1..Len(o) : o[i] = Message(b[i])

(* A shared subscription is sent no retained messages. *)
Kept(f) == {t \in Topics : retained[t].m # "" /\ Matches(f, t)}
SendsRetained(c, f, g, q, sends) ==
  LET found == IF sends /\ g = "" THEN Kept(f) ELSE {}
      stale == {t \in found : retained[t].expired}
  IN /\ retained' = [t \in Topics |-> IF t \in stale THEN Nothing ELSE retained[t]]
     /\ \A d \in Clients :
          LET sent == IF d = c THEN {t \in found \ stale : MayRead(c, t)} ELSE {}
          IN Sends(out'[d], sent,
                   LAMBDA t : [m |-> retained[t].m, q |-> Least(q, retained[t].q), r |-> TRUE])

Subscribe(c, f, g, q, nl, rap, sends) ==
  LET old == {s \in table : s.c = c /\ s.f = f /\ s.g = g}
      new == IF old = {} THEN {[c |-> c, f |-> f, g |-> g, q |-> q, nl |-> nl, rap |-> rap]}
                         ELSE {[s EXCEPT !.q = q] : s \in old}
  IN /\ table' = (table \ old) \cup new
     /\ trees' = IF g = "" THEN trees \cup {Tree(f)} ELSE trees
     /\ SendsRetained(c, f, g, q, sends = "always" \/ (sends = "new" /\ old = {}))

Silent == out' = [c \in Clients |-> <<>>]

Unsubscribe(c, f, g) ==
  /\ table' = {s \in table : s.c # c \/ s.f # f \/ s.g # g}
  /\ Silent /\ UNCHANGED <<retained, trees>>

CleanSession(c) ==
  /\ table' = {s \in table : s.c # c}
  /\ Silent /\ UNCHANGED <<retained, trees>>

(* One member of every group that shares a matching subscription, and      *)
(* everybody else who has one.  A client that does not use MQTT 5 gets the *)
(* message once, but for subscriptions that show it as retained.           *)
Publish(src, t, m, q, r) ==
  LET hits == {s \in table : Matches(s.f, t) /\ (s.g # "" => Tree(s.f) = "")}
      own == {s \in hits : s.g = "" /\ ~(s.nl /\ s.c = src)}
      groups == {<<s.f, s.g>> : s \in {x \in hits : x.g # ""}}
      Shows(s) == s.rap /\ r
  IN /\ \E pick \in [groups -> hits] :
          /\ \A k \in groups : pick[k].f = k[1] /\ pick[k].g = k[2]
          /\ \A d \in Clients :
               LET all == {s \in own \cup {pick[k] : k \in groups} : s.c = d /\ MayRead(d, t)}
                   plain == {s \in all : ~Shows(s)}
               IN \E once \in (IF d \in V5 \/ plain = {} THEN {plain} ELSE {{s} : s \in plain}) :
                    Sends(out'[d], (all \ plain) \cup once,
                          LAMBDA s : [m |-> m, q |-> Least(q, s.q), r |-> Shows(s)])
     /\ retained' = IF r /\ Tree(t) \in trees
                      THEN [retained EXCEPT ![t] = IF m = "" THEN Nothing
                                                   ELSE [m |-> m, q |-> q, expired |-> FALSE]]
                      ELSE retained
     /\ UNCHANGED <<table, trees>>

Expire(t) ==
  /\ retained[t].m # ""
  /\ retained' = [retained EXCEPT ![t].expired = TRUE]
  /\ Silent /\ UNCHANGED <<table, trees>>

(* What each request comes to. *)
Serves(r) ==
  \/ r[1] = "subscribe"   /\ Subscribe(r[2], r[3], "", r[4].q, r[4].nl, r[4].rap, r[4].sends)
  \/ r[1] = "share"       /\ Subscribe(r[2], r[3], "g", r[4].q, r[4].nl, r[4].rap, "never")
  \/ r[1] = "unsubscribe" /\ Unsubscribe(r[2], r[3], "")
  \/ r[1] = "unshare"     /\ Unsubscribe(r[2], r[3], "g")
  \/ r[1] = "clean"       /\ CleanSession(r[2])
  \/ r[1] = "publish"     /\ Publish(r[2], r[3].t, r[3].m, r[3].q, r[3].r)
  \/ r[1] = "expire"      /\ Expire(r[2])
=============================================================================
