------------------------------ MODULE SubTree -------------------------------
(***************************************************************************)
(* The broker's subscription tree (subs.c), with the handlers that use it  *)
(* (handle_subscribe.c, handle_unsubscribe.c, handle_publish.c) and the    *)
(* part of db__message_insert that keeps a client from getting a message   *)
(* twice.  Implements Router.                                              *)
(*                                                                         *)
(* A node is named by its path, the tokens that lead to it.  Every topic   *)
(* that does not begin with $ gets an empty first token, which is also the *)
(* name of its root; a root is the parent of the one node of its name.     *)
(***************************************************************************)
EXTENDS Integers, Sequences, FiniteSets, SequencesExt, FiniteSetsExt

CONSTANTS
  Clients, V5, Topics, Filters, Dollar, MayRead(_, _),
  Shared,        \* filters that are subscribed to as a group, too
  Mount(_),      \* the mount point of a client's listener, <<>> for none
  Options,       \* [q, nl, rap, sends] to subscribe with
  Messages,      \* [t, m, q, r] to publish, m = "": no payload
  Expiring,      \* topics whose retained message may expire
  MaxSubs        \* bound: subscriptions at a time

VARIABLES
  roots,         \* names of the roots
  nodes,         \* paths of the nodes
  subs,          \* per path: leaves [c, q, nl, rap], in order
  shared,        \* per path: leaves of the group, the next receiver first
  retained,      \* per path: [m, q, expired]
  refs,          \* per client: context->subs
  sharedRefs,    \* per client: context->shared_subs
  counts,        \* db->subscription_count, shared_..., retained_count
  out,           \* per client: what the last handler sent it
  reason,        \* the reason code of the last UNSUBACK, 17: no subscription
  did            \* the last request, for the properties only

tree == <<roots, nodes, subs, shared, retained>>
vars == <<tree, refs, sharedRefs, counts, out, reason, did>>

Nothing == [m |-> "", q |-> 0, expired |-> FALSE]

(* sub__topic_tokenise *)
Tokens(levels) == IF levels[1] \in Dollar THEN levels ELSE <<"">> \o levels
Above(path) == {SubSeq(path, 1, n) : n \in 1..Len(path)}
Mounted(c, levels) == Mount(c) \o levels
AllPaths == UNION {Above(Tokens(Mounted(c, l))) :
                     c \in Clients, l \in Topics \cup Filters}
            \cup UNION {Above(<<"">> \o l) : l \in Shared}
            \cup UNION {Above(Tokens(l)) : l \in Filters}

Init ==
  /\ roots = {"", "$SYS"}
  /\ nodes = {}
  /\ subs = [p \in AllPaths |-> <<>>] /\ shared = [p \in AllPaths |-> <<>>]
  /\ retained = [p \in AllPaths |-> Nothing]
  /\ refs = [c \in Clients |-> {}] /\ sharedRefs = [c \in Clients |-> {}]
  /\ counts = [subs |-> 0, shared |-> 0, retained |-> 0]
  /\ out = [c \in Clients |-> <<>>]
  /\ reason = 0
  /\ did = <<"none">>

-----------------------------------------------------------------------------
(* db__message_insert: a message whose dest_ids hold the client is not     *)
(* sent again, but for MQTT 5 and unless it is shown as retained.          *)

Nobody == [c \in Clients |-> <<>>]

Insert(o, c, msg) ==
  IF c \notin V5 /\ ~msg.r /\ \E i \in 1..Len(o[c]) : ~o[c][i].r
    THEN o ELSE [o EXCEPT ![c] = Append(@, msg)]

Least(a, b) == IF a < b THEN a ELSE b

(* subs__send *)
Send(o, leaf, t, msg) ==
  IF MayRead(leaf.c, t)
    THEN Insert(o, leaf.c, [m |-> msg.m, q |-> Least(msg.q, leaf.q), r |-> leaf.rap /\ msg.r])
    ELSE o

(* subs__process: first the next member of the group, then everyone else. *)
Process(o, p, src, t, msg) ==
  LET o1 == IF shared[p] = <<>> THEN o ELSE Send(o, shared[p][1], t, msg)
      leaves == SelectSeq(subs[p], LAMBDA l : ~(l.nl /\ l.c = src))
  IN FoldLeft(LAMBDA acc, leaf : Send(acc, leaf, t, msg), o1, leaves)

(* Mutant: "#" is looked for behind the levels of the topic only.          *)
RECURSIVE SearchNoParent(_, _, _)
SearchNoParent(p, tokens, N) ==
  LET Down(branch) ==
        IF tokens = <<>> \/ branch \notin N THEN <<>>
        ELSE SearchNoParent(branch, Tail(tokens), N) \o
             (IF Len(tokens) = 1 THEN <<branch>> ELSE <<>>)
      hash == p \o <<"#">>
  IN IF tokens = <<>> THEN <<>>
     ELSE Down(p \o <<tokens[1]>>) \o Down(p \o <<"+">>)
          \o (IF hash \in N THEN <<hash>> ELSE <<>>)

(* sub__search: the nodes a topic leads to from path p, in order.          *)
RECURSIVE Search(_, _, _)
Search(p, tokens, N) ==
  LET Down(branch) ==
        IF tokens = <<>> \/ branch \notin N THEN <<>>
        ELSE Search(branch, Tail(tokens), N) \o
             (IF Len(tokens) = 1 THEN <<branch>> ELSE <<>>)
      hash == p \o <<"#">>
  IN (IF tokens = <<>> THEN <<>> ELSE Down(p \o <<tokens[1]>>) \o Down(p \o <<"+">>))
     \o (IF hash \in N THEN <<hash>> ELSE <<>>)

Found(path, N) == Search(<<>>, path, N)

(* Mutant: a retained message that is replaced stays counted.              *)
ChangeKeepsOld(path, m) == IF m # "" THEN 1 ELSE 0

(* By how many retained messages there are more. *)
Change(path, m) == (IF m # "" THEN 1 ELSE 0) - (IF retained[path].m # "" THEN 1 ELSE 0)

(* sub__messages_queue.  The root has to be there; a retained message      *)
(* makes the nodes of its topic.                                           *)
Publish(src, t, m, q, r) ==
  LET path == Tokens(Mounted(src, t))
      known == path[1] \in roots
      N == IF r /\ known THEN nodes \cup Above(path) ELSE nodes
      found == IF known THEN Found(path, N) ELSE <<>>
      msg == [m |-> m, q |-> q, r |-> r]
      keep == r /\ known
  IN /\ nodes' = N
     /\ out' = FoldLeft(LAMBDA o, p : Process(o, p, src, Mounted(src, t), msg), Nobody, found)
     /\ shared' = [p \in AllPaths |->
                     IF p \in ToSet(found) /\ shared[p] # <<>>
                       THEN Append(Tail(shared[p]), shared[p][1]) ELSE shared[p]]
     /\ retained' = IF ~keep THEN retained
                    ELSE [retained EXCEPT ![path] =
                            IF m = "" THEN Nothing ELSE [m |-> m, q |-> q, expired |-> FALSE]]
     /\ counts' = [counts EXCEPT !.retained = @ + (IF keep THEN Change(path, m) ELSE 0)]
     /\ UNCHANGED <<roots, subs, refs, sharedRefs, reason>>

-----------------------------------------------------------------------------
(* retain__search: the nodes a filter leads to whose retained message is   *)
(* sent; the flag says whether "#" found anything below.                   *)
RECURSIVE RetainSearch(_, _, _)
RetainSearch(p, tokens, level) ==
  LET children == {b \in nodes : Len(b) = Len(p) + 1 /\ SubSeq(b, 1, Len(p)) = p}
      below(b) == RetainSearch(b, Tail(tokens), level + 1)
      Visit(b) == IF Len(tokens) = 1 THEN {b}
                  ELSE below(b).found \cup
                       (IF below(b).flag \/ (tokens[2] = "#" /\ level > 0) THEN {b} ELSE {})
  IN IF tokens = <<"#">>
       THEN [flag |-> children # {},
             found |-> children \cup UNION {RetainSearch(b, tokens, level + 1).found : b \in children}]
       ELSE [flag |-> FALSE,
             found |-> UNION {Visit(b) : b \in IF tokens[1] = "+" THEN children
                                               ELSE children \cap {p \o <<tokens[1]>>}}]

(* sub__retain_queue and retain__process, which drops what has expired.    *)
RetainQueue(c, path, q, sends) ==
  LET found == IF sends /\ path[1] \in roots
                 THEN {p \in RetainSearch(<<>>, path, 0).found : retained[p].m # ""}
                 ELSE {}
      stale == {p \in found : retained[p].expired}
      sent == SetToSeq({p \in found \ stale :
                 MayRead(c, IF p[1] = "" THEN Tail(p) ELSE p)})
  IN [stale |-> stale,
      sent |-> [i \in 1..Len(sent) |-> [m |-> retained[sent[i]].m,
                  q |-> Least(q, retained[sent[i]].q), r |-> TRUE]]]

Holds(leaves, c) == \E i \in 1..Len(leaves) : leaves[i].c = c

(* sub__add_leaf: a second subscription changes the QoS only. *)
AddLeaf(leaves, c, q, nl, rap) ==
  IF Holds(leaves, c)
    THEN [i \in 1..Len(leaves) |-> IF leaves[i].c = c THEN [leaves[i] EXCEPT !.q = q] ELSE leaves[i]]
    ELSE Append(leaves, [c |-> c, q |-> q, nl |-> nl, rap |-> rap])

Without(leaves, c) == SelectSeq(leaves, LAMBDA l : l.c # c)

(* handle__subscribe.  A client of MQTT 3.1.1 is always sent what is       *)
(* retained, and sends no options (bridges, which do, are left out).       *)
Subscribe(c, f, q, nl, rap, sends) ==
  LET path == Tokens(Mounted(c, f))
      isNew == ~Holds(subs[path], c)
      queue == RetainQueue(c, path, q, sends = "always" \/ (sends = "new" /\ isNew))
  IN /\ c \notin V5 => sends = "always" /\ ~nl /\ ~rap
     /\ roots' = roots \cup {path[1]}
     /\ nodes' = nodes \cup Above(path)
     /\ subs' = [subs EXCEPT ![path] = AddLeaf(@, c, q, nl, rap)]
     /\ refs' = [refs EXCEPT ![c] = @ \cup {path}]
     /\ retained' = [p \in AllPaths |-> IF p \in queue.stale THEN Nothing ELSE retained[p]]
     /\ out' = [Nobody EXCEPT ![c] = queue.sent]
     /\ counts' = [counts EXCEPT !.subs = IF isNew THEN @ + 1 ELSE @,
                                 !.retained = @ - Cardinality(queue.stale)]
     /\ UNCHANGED <<shared, sharedRefs, reason>>

(* With $share the root is always that of "", and there is none of the     *)
(* name "$share" to look for retained messages.                            *)
SubscribeShared(c, f, q, nl, rap) ==
  LET path == <<"">> \o f
      isNew == ~Holds(shared[path], c)
  IN /\ Mount(c) = <<>> /\ (c \notin V5 => ~nl /\ ~rap)
     /\ nodes' = nodes \cup Above(path)
     /\ shared' = [shared EXCEPT ![path] = AddLeaf(@, c, q, nl, rap)]
     /\ sharedRefs' = [sharedRefs EXCEPT ![c] = @ \cup {path}]
     /\ out' = Nobody
     /\ counts' = [counts EXCEPT !.shared = IF isNew THEN @ + 1 ELSE @]
     /\ UNCHANGED <<roots, subs, retained, refs, reason>>

-----------------------------------------------------------------------------
(* A node that holds nothing is removed, and then its parents.             *)
Bare(p, N, S, H) ==
  /\ S[p] = <<>> /\ H[p] = <<>> /\ retained[p].m = ""
  /\ \A b \in N : Len(b) <= Len(p) \/ SubSeq(b, 1, Len(p)) # p

RECURSIVE Prune(_, _, _, _)
Prune(p, N, S, H) ==
  IF p = <<>> \/ p \notin N \/ ~Bare(p, N, S, H) THEN N
  ELSE Prune(Front(p), N \ {p}, S, H)

(* sub__remove_recurse removes on its way back from where the tree ended.  *)
Deepest(path) ==
  LET on == {n \in 0..Len(path) : \A k \in 1..n : SubSeq(path, 1, k) \in nodes}
  IN SubSeq(path, 1, CHOOSE n \in on : \A k \in on : k <= n)

(* Mutant: only the node of the subscription itself is removed.            *)
UnsubscribeFreesTree(c, f) ==
  LET path == Tokens(f)
      held == path \in nodes /\ Holds(subs[path], c)
  IN /\ reason' \in IF path[1] \notin roots THEN {0, 17, 255}
                     ELSE IF held THEN {0} ELSE {17}
     /\ subs' = [subs EXCEPT ![path] = Without(@, c)]
     /\ nodes' = IF held /\ subs'[path] = <<>> THEN nodes \ {path} ELSE nodes
     /\ refs' = [refs EXCEPT ![c] = @ \ {path}]
     /\ counts' = [counts EXCEPT !.subs = IF held THEN @ - 1 ELSE @]
     /\ out' = Nobody
     /\ UNCHANGED <<roots, shared, retained, sharedRefs>>

(* handle__unsubscribe, which does not know of mount points.  Without a    *)
(* root the reason code is what was on the stack.                          *)
Unsubscribe(c, f) ==
  LET path == Tokens(f)
      held == path \in nodes /\ Holds(subs[path], c)
      S == [subs EXCEPT ![path] = Without(@, c)]
  IN /\ reason' \in IF path[1] \notin roots THEN {0, 17, 255}
                     ELSE IF held THEN {0} ELSE {17}
     /\ subs' = S
     /\ nodes' = IF path[1] \in roots THEN Prune(Deepest(path), nodes, S, shared) ELSE nodes
     /\ refs' = [refs EXCEPT ![c] = @ \ {path}]
     /\ counts' = [counts EXCEPT !.subs = IF held THEN @ - 1 ELSE @]
     /\ out' = Nobody
     /\ UNCHANGED <<roots, shared, retained, sharedRefs>>

UnsubscribeShared(c, f) ==
  LET path == <<"">> \o f
      held == path \in nodes /\ Holds(shared[path], c)
      H == [shared EXCEPT ![path] = Without(@, c)]
  IN /\ Mount(c) = <<>>
     /\ reason' = IF held THEN 0 ELSE 17
     /\ shared' = H
     /\ nodes' = Prune(Deepest(path), nodes, subs, H)
     /\ sharedRefs' = [sharedRefs EXCEPT ![c] = @ \ {path}]
     /\ counts' = [counts EXCEPT !.shared = IF held THEN @ - 1 ELSE @]
     /\ out' = Nobody
     /\ UNCHANGED <<roots, subs, retained, refs>>

(* sub__clean_session: node after node that the client has a reference to. *)
CleanSession(c) ==
  LET S == [p \in AllPaths |-> IF p \in refs[c] THEN Without(subs[p], c) ELSE subs[p]]
      H == [p \in AllPaths |-> IF p \in sharedRefs[c] THEN Without(shared[p], c) ELSE shared[p]]
      PruneAll(N, from) == FoldSet(LAMBDA p, acc : Prune(p, acc, S, H), N, from)
  IN /\ subs' = S /\ shared' = H
     /\ nodes' = PruneAll(PruneAll(nodes, refs[c]), sharedRefs[c])
     /\ refs' = [refs EXCEPT ![c] = {}] /\ sharedRefs' = [sharedRefs EXCEPT ![c] = {}]
     /\ counts' = [counts EXCEPT !.subs = @ - Cardinality(refs[c]),
                                 !.shared = @ - Cardinality(sharedRefs[c])]
     /\ out' = Nobody
     /\ UNCHANGED <<roots, retained, reason>>

(* Time passes the expiry time of a retained message. *)
Expire(p) ==
  /\ retained[p].m # "" /\ ~retained[p].expired
  /\ retained' = [retained EXCEPT ![p].expired = TRUE]
  /\ out' = Nobody
  /\ UNCHANGED <<roots, nodes, subs, shared, refs, sharedRefs, counts, reason>>

Room == counts.subs + counts.shared < MaxSubs

Request(r) ==
  /\ did' = r
  /\ CASE r[1] = "subscribe" -> Room /\ Subscribe(r[2], r[3], r[4].q, r[4].nl, r[4].rap, r[4].sends)
       [] r[1] = "share"     -> Room /\ SubscribeShared(r[2], r[3], r[4].q, r[4].nl, r[4].rap)
       [] r[1] = "unsubscribe" -> Unsubscribe(r[2], r[3])
       [] r[1] = "unshare"   -> UnsubscribeShared(r[2], r[3])
       [] r[1] = "clean"     -> CleanSession(r[2])
       [] r[1] = "publish"   -> Publish(r[2], r[3].t, r[3].m, r[3].q, r[3].r)
       [] r[1] = "expire"    -> Expire(Tokens(r[2]))

Requests ==
  ({"subscribe"} \X Clients \X Filters \X Options) \cup
  ({"share"} \X Clients \X Shared \X Options) \cup
  ({"unsubscribe"} \X Clients \X Filters) \cup ({"unshare"} \X Clients \X Shared) \cup
  ({"clean"} \X Clients) \cup
  ({"publish"} \X Clients \X Messages) \cup ({"expire"} \X Expiring)

Next == \E r \in Requests : Request(r)

Spec == Init /\ [][Next]_vars

-----------------------------------------------------------------------------
(* Levels of a path, as Router names topics and filters. *)
Levels(p) == IF p[1] = "" THEN Tail(p) ELSE p
Table ==
  UNION {{[c |-> l.c, f |-> Levels(p), g |-> "", q |-> l.q, nl |-> l.nl, rap |-> l.rap]
            : l \in ToSet(subs[p])} : p \in AllPaths}
  \cup
  UNION {{[c |-> l.c, f |-> Tail(p), g |-> "g", q |-> l.q, nl |-> l.nl, rap |-> l.rap]
            : l \in ToSet(shared[p])} : p \in AllPaths}

Abstract == INSTANCE Router WITH
  table <- Table, trees <- roots,
  retained <- [t \in Topics |-> retained[Tokens(t)]]

(* Whatever was subscribed to, given up and published before: a message    *)
(* goes to those whose filter matches and to one of each group, a client   *)
(* of MQTT 3.1.1 is sent it once, and a subscription brings the retained   *)
(* messages it matches, each once and the last that was published.         *)
RoutesAsTable == Abstract!Init /\ [][Abstract!Serves(did')]_vars

(* What a client holds a reference to is a node of the tree with a leaf of *)
(* its own, and no node is cut off from its root: sub__clean_session       *)
(* follows these references without looking them up.                       *)
ReferencesLive ==
  /\ \A c \in Clients :
       /\ refs[c] = {p \in nodes : Holds(subs[p], c)}
       /\ sharedRefs[c] = {p \in nodes : Holds(shared[p], c)}
  /\ \A p \in nodes : Above(p) \subseteq nodes /\ p[1] \in roots
  /\ \A p \in AllPaths \ nodes : subs[p] = <<>> /\ shared[p] = <<>> /\ retained[p] = Nothing

(* The numbers published under $SYS are the numbers of what is there.      *)
CountsTrue ==
  LET Total(leaves) == FoldSet(LAMBDA p, n : n + Len(leaves[p]), 0, AllPaths)
  IN /\ counts.subs = Total(subs) /\ counts.shared = Total(shared)
     /\ counts.retained = Cardinality({p \in AllPaths : retained[p].m # ""})
-----------------------------------------------------------------------------
(* mosquitto.conf, mount_point: "prefixing the mount_point string to all   *)
(* topics for any clients connected to this listener".  What a client      *)
(* unsubscribes from is gone.                                              *)
UnsubscribedIsGone ==
  [][\A c \in Clients, f \in Filters :
       Unsubscribe(c, f) => ~Holds(subs'[Tokens(Mounted(c, f))], c)]_vars
=============================================================================
