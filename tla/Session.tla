------------------------------ MODULE Session -------------------------------
(***************************************************************************)
(* The life of the broker's contexts, one per connection: CONNECT and the  *)
(* take-over of a session (handle_connect.c), the end of a connection      *)
(* (loop.c, context.c, handle_disconnect.c), sessions that expire          *)
(* (session_expiry.c) and wills that are delayed (will_delay.c).           *)
(* Implements SessionPromise.                                              *)
(*                                                                         *)
(* The broker has one thread: a handler is one step, built from the        *)
(* functions it calls on the database.  There is one topic to subscribe    *)
(* to, alone or in a group, and messages have QoS 1.                       *)
(***************************************************************************)
EXTENDS Naturals, Sequences, FiniteSets, SequencesExt

CONSTANTS
  Ids,
  N,              \* bound: connections
  Never,          \* a session expiry interval of UINT32_MAX
  Kinds,          \* [clean, expiry, end, will, delay] a client connects with;
                  \* end: the interval in DISCONNECT, or Keep
  Keep,           \* no interval in DISCONNECT
  persistent_client_expiration,
  LastEvent,      \* bound: nothing is received later
  MaxNow,         \* bound: time
  MaxMessages     \* bound: messages published

VARIABLES
  db,             \* struct mosquitto_db and the lists of the modules
  now,
  present,        \* the last CONNACK had the session present flag
  published,      \* messages so far
  graceful        \* connections that ended with a DISCONNECT

vars == <<db, now, present, published, graceful>>

Contexts == 1..N

(* context__init; a context that is freed is not used again. *)
Unused == [st |-> "unused", id |-> "", clean |-> TRUE, expiry |-> 0, end |-> Keep,
           will |-> FALSE, delay |-> 0, exptime |-> 0, willtime |-> 0,
           subs |-> FALSE, q |-> <<>>]

Init ==
  /\ db = [ctx |-> [c \in Contexts |-> Unused],
           byId |-> <<>>,         \* contexts_by_id, the newest first
           expiry |-> <<>>,       \* expiry_list
           delay |-> <<>>,        \* delay_list
           forFree |-> {},        \* ll_for_free
           leaves |-> <<>>,       \* subscriptions to the topic
           group |-> <<>>,        \* those that share one
           wills |-> [c \in Contexts |-> 0]]   \* wills published
  /\ now = 0 /\ present = FALSE /\ published = 0 /\ graceful = {}

-----------------------------------------------------------------------------
(* Functions of the broker: what they make of the database b.              *)

Drop(list, c) == SelectSeq(list, LAMBDA x : x # c)
InOrder(list, c, key) ==
  LET before == SelectSeq(list, LAMBDA x : key[x] < key[c])
      after == SelectSeq(list, LAMBDA x : key[x] >= key[c])
  IN before \o <<c>> \o after

(* Mutant: a will that waits is published at once as well. *)
SendWillNow(b, c, disconnecting) ==
  LET x == b.ctx[c]
  IN IF disconnecting \/ ~x.will THEN [b EXCEPT !.ctx[c].will = FALSE]
     ELSE IF x.delay > 0
       THEN [b EXCEPT !.ctx[c].willtime = now + x.delay, !.wills[c] = @ + 1,
                      !.delay = InOrder(@, c, [k \in Contexts |-> b.ctx[k].delay])]
     ELSE [b EXCEPT !.ctx[c].will = FALSE, !.wills[c] = @ + 1]

(* context__send_will *)
SendWill(b, c, disconnecting) ==
  LET x == b.ctx[c]
      willtime == [b.ctx EXCEPT ![c].willtime = now + x.delay]
  IN IF disconnecting \/ ~x.will THEN [b EXCEPT !.ctx[c].will = FALSE]
     ELSE IF x.delay > 0
       THEN [b EXCEPT !.ctx = willtime,
                      !.delay = InOrder(@, c, [k \in Contexts |-> b.ctx[k].delay])]
     ELSE [b EXCEPT !.ctx[c].will = FALSE, !.wills[c] = @ + 1]

(* context__add_to_disused, and the state stays what it is from then on.   *)
Disuse(b, c) ==
  IF b.ctx[c].st = "disused" THEN b
  ELSE [b EXCEPT !.ctx[c].st = "disused", !.ctx[c].id = "",
                 !.byId = Drop(@, c), !.forFree = @ \cup {c}]

(* session_expiry__add *)
AddExpiry(b, c) ==
  LET x == b.ctx[c].expiry
      p == persistent_client_expiration
      time == now + (IF p # 0 /\ p < x THEN p ELSE x)
      d == [b EXCEPT !.ctx[c].exptime = time]
  IN IF p = 0 /\ x = Never THEN b
     ELSE [d EXCEPT !.expiry = InOrder(@, c, [k \in Contexts |-> d.ctx[k].exptime])]

RemoveExpiry(b, c) == [b EXCEPT !.expiry = Drop(@, c)]
RemoveDelay(b, c) == [b EXCEPT !.delay = Drop(@, c)]

(* context__disconnect.  A context whose will waits is kept until then.    *)
ContextDisconnect(b, c, disconnecting) ==
  LET b1 == SendWill(b, c, disconnecting)
      b2 == IF b1.ctx[c].expiry # 0 THEN AddExpiry(b1, c)
            ELSE IF b1.ctx[c].delay = 0 THEN Disuse(b1, c) ELSE b1
  IN IF b2.ctx[c].st = "disused" THEN b2 ELSE [b2 EXCEPT !.ctx[c].st = "disconnected"]

(* do_disconnect *)
DoDisconnect(b, c, disconnecting) ==
  IF b.ctx[c].st = "disconnected" THEN b ELSE ContextDisconnect(b, c, disconnecting)

(* sub__clean_session: the leaves are found from context->subs.            *)
CleanSession(b, c) ==
  [b EXCEPT !.leaves = IF b.ctx[c].subs THEN Drop(@, c) ELSE @,
            !.group = Drop(@, c), !.ctx[c].subs = FALSE]

(* context__cleanup with do_free *)
Free(b, c) ==
  LET b1 == SendWill(CleanSession(b, c), c, FALSE)
  IN [b1 EXCEPT !.ctx[c] = [Unused EXCEPT !.st = "freed"], !.byId = Drop(@, c),
                !.forFree = @ \ {c}]

-----------------------------------------------------------------------------
(* connect__on_authorised: the session of the client, if there is one, is  *)
(* moved to the new context; shared subscriptions stay with the old one.   *)

Found(b, i) ==
  LET same == SelectSeq(b.byId, LAMBDA c : b.ctx[c].id = i)
  IN IF same = <<>> THEN 0 ELSE same[1]

Moved(b, c, f) ==
  [b EXCEPT !.ctx[c].q = b.ctx[f].q, !.ctx[f].q = <<>>,
            !.ctx[c].subs = b.ctx[f].subs, !.ctx[f].subs = FALSE]

(* Mutant: the leaves of the tree go on pointing to the old context.       *)
ResumeKeepsLeaves(b, c, f) == Moved(b, c, f)

Resume(b, c, f) ==
  [Moved(b, c, f) EXCEPT
     !.leaves = [k \in 1..Len(@) |-> IF @[k] = f THEN c ELSE @[k]]]

TakeOver(b, c, f) ==
  LET clean == b.ctx[c].clean
      b1 == IF ~clean /\ b.ctx[f].expiry > 0 THEN Resume(b, c, f) ELSE b
      b2 == IF clean THEN CleanSession(b1, f) ELSE b1
      b3 == RemoveDelay(RemoveExpiry(b2, f), f)
  IN DoDisconnect([b3 EXCEPT !.ctx[f].will = FALSE, !.ctx[f].clean = TRUE,
                             !.ctx[f].expiry = 0, !.ctx[f].st = "duplicate"], f, FALSE)

New(b, c, i, k) ==
  [b EXCEPT !.ctx[c] = [Unused EXCEPT !.st = "active", !.id = i, !.clean = k.clean,
      !.expiry = k.expiry, !.end = k.end, !.will = k.will, !.delay = k.delay]]

Next1 == CHOOSE c \in Contexts : db.ctx[c].st = "unused" /\ \A d \in 1..c - 1 : db.ctx[d].st # "unused"
Receiving == now <= LastEvent
Room == Receiving /\ \E c \in Contexts : db.ctx[c].st = "unused"

Connect(i, k) ==
  /\ Room
  /\ LET c == Next1
         f == Found(db, i)
         b1 == New(db, c, i, k)
         b2 == IF f # 0 THEN TakeOver(b1, c, f) ELSE b1
     IN /\ db' = [b2 EXCEPT !.byId = <<c>> \o @]
        /\ present' = (f # 0 /\ ~k.clean /\ db.ctx[f].expiry > 0)
  /\ UNCHANGED <<now, published, graceful>>

(* handle__connect fails: no id and no will is left, but the interval is.  *)
Refused(k) ==
  /\ Room
  /\ LET c == Next1
         b1 == [New(db, c, "", k) EXCEPT !.ctx[c].will = FALSE]
     IN db' = DoDisconnect(b1, c, FALSE)
  /\ UNCHANGED <<now, present, published, graceful>>

Connected(c) == db.ctx[c].st = "active"
SameClient(b, c) == {d \in Contexts : b.ctx[d].id = b.ctx[c].id}

(* sub__add: a leaf of the same client id is taken for the client's own.   *)
Subscribe(c) ==
  /\ Receiving /\ Connected(c)
  /\ \/ db' = IF ToSet(db.leaves) \cap SameClient(db, c) # {} THEN db
              ELSE [db EXCEPT !.leaves = Append(@, c), !.ctx[c].subs = TRUE]
     \/ db' = IF ToSet(db.group) \cap SameClient(db, c) # {} THEN db
              ELSE [db EXCEPT !.group = Append(@, c)]
  /\ UNCHANGED <<now, present, published, graceful>>

(* The group takes turns; a context without id is sent nothing.            *)
Publish ==
  /\ Receiving /\ published < MaxMessages
  /\ published' = published + 1
  /\ LET to == {c \in ToSet(db.leaves) \cup
                       (IF db.group = <<>> THEN {} ELSE {db.group[1]}) : db.ctx[c].id # ""}
     IN db' = [db EXCEPT !.ctx = [c \in Contexts |-> IF c \in to
                            THEN [@[c] EXCEPT !.q = Append(@, published + 1)] ELSE @[c]],
                         !.group = IF @ = <<>> THEN @ ELSE Append(Tail(@), @[1])]
  /\ UNCHANGED <<now, present, graceful>>

Acked(c) ==
  /\ Receiving /\ Connected(c) /\ db.ctx[c].q # <<>>
  /\ db' = [db EXCEPT !.ctx[c].q = Tail(@)]
  /\ UNCHANGED <<now, present, published, graceful>>

(* handle__disconnect: the session's interval may be changed, but not from *)
(* 0; the client may ask for its will to be published.                     *)
Disconnect(c) ==
  /\ Receiving /\ Connected(c)
  /\ LET e == db.ctx[c].end
         b1 == IF e = Keep THEN db ELSE [db EXCEPT !.ctx[c].expiry = e]
     IN IF e # Keep /\ e # 0 /\ db.ctx[c].expiry = 0
          THEN db' = DoDisconnect(db, c, FALSE) /\ UNCHANGED graceful
          ELSE \/ db' = DoDisconnect(b1, c, FALSE) /\ UNCHANGED graceful
               \/ /\ db' = DoDisconnect([b1 EXCEPT !.ctx[c].will = FALSE], c, TRUE)
                  /\ graceful' = graceful \cup {c}
  /\ UNCHANGED <<now, present, published>>

(* A broken connection, a protocol error, or the keepalive time exceeded.  *)
ConnectionLost(c) ==
  /\ Receiving /\ Connected(c)
  /\ db' = DoDisconnect(db, c, FALSE)
  /\ UNCHANGED <<now, present, published, graceful>>

-----------------------------------------------------------------------------
(* The main loop: context__free_disused, and once a second the lists.      *)

FreeDisused ==
  /\ db.forFree # {}
  /\ db' = FoldLeft(Free, db, SetToSeq(db.forFree))
  /\ UNCHANGED <<now, present, published, graceful>>

(* session_expiry__check and will_delay__check stop at the first entry     *)
(* whose time has not come.                                                *)
Due(list, time) ==
  LET n == CHOOSE n \in 0..Len(list) :
             /\ \A k \in 1..n : time[list[k]] < now
             /\ n < Len(list) => time[list[n + 1]] >= now
  IN SubSeq(list, 1, n)

(* Mutant: the will of an expired session goes on waiting.                 *)
ExpireOneKeepsDelay(b, c) ==
  LET b1 == [RemoveExpiry(b, c) EXCEPT !.ctx[c].expiry = 0]
  IN Disuse(b1, c)

ExpireOne(b, c) ==
  LET b1 == RemoveDelay([RemoveExpiry(b, c) EXCEPT !.ctx[c].expiry = 0, !.ctx[c].delay = 0], c)
  IN Disuse(SendWill(b1, c, FALSE), c)

DelayOne(b, c) ==
  LET b1 == SendWill([RemoveDelay(b, c) EXCEPT !.ctx[c].delay = 0], c, FALSE)
  IN IF b1.ctx[c].expiry = 0 THEN Disuse(b1, c) ELSE b1

DueSessions(b) == Due(b.expiry, [c \in Contexts |-> b.ctx[c].exptime])
DueWills(b) == Due(b.delay, [c \in Contexts |-> b.ctx[c].willtime])
SessionExpiryCheck(b) == FoldLeft(ExpireOne, b, DueSessions(b))
WillDelayCheck(b) == FoldLeft(DelayOne, b, DueWills(b))

(* Without an entry whose time has come it changes nothing.                *)
Check ==
  /\ DueSessions(db) # <<>> \/ DueWills(db) # <<>>
  /\ \E b \in {SessionExpiryCheck(db)} : db' = WillDelayCheck(b)
  /\ UNCHANGED <<now, present, published, graceful>>

Tick ==
  /\ now < MaxNow
  /\ now' = now + 1
  /\ UNCHANGED <<db, present, published, graceful>>

Requests ==
  \/ \E i \in Ids, k \in Kinds : Connect(i, k)
  \/ \E k \in Kinds : Refused(k)
  \/ \E c \in Contexts : Subscribe(c) \/ Acked(c) \/ Disconnect(c) \/ ConnectionLost(c)
  \/ Publish

Next == Requests \/ FreeDisused \/ Check \/ Tick

Fairness == WF_vars(FreeDisused) /\ WF_vars(Check) /\ WF_vars(Tick)
Spec == Init /\ [][Next]_vars /\ Fairness

-----------------------------------------------------------------------------
(* Whatever points to a context points to one that was not freed: the tree *)
(* of subscriptions, the hash of the clients, and the two lists that       *)
(* outlive the connection.                                                 *)
NoDangling ==
  \A c \in ToSet(db.leaves) \cup ToSet(db.group) \cup ToSet(db.byId)
           \cup ToSet(db.expiry) \cup ToSet(db.delay) \cup db.forFree :
    db.ctx[c].st \notin {"unused", "freed"}

(* A will is published once at most, and never after a DISCONNECT that did *)
(* not ask for it, by any of the five places that may publish one.         *)
WillOnce == \A c \in Contexts : db.wills[c] <= 1 /\ (c \in graceful => db.wills[c] = 0)

(* A connection that is lost has its will published, unless the client is  *)
(* back before: no will is forgotten in the list of those that wait, and   *)
(* none goes with a session that expires.                                  *)
Waiting(c) == db.ctx[c].st \in {"disconnected", "disused"} /\ db.ctx[c].will
WillIsPublished == \A c \in Contexts : Waiting(c) ~> (db.wills[c] = 1 \/ ~Waiting(c))

(* The promise, read off the context that the next CONNECT would find.     *)
Owner(i) ==
  LET same == SelectSeq(db.byId, LAMBDA c : db.ctx[c].id = i)
  IN IF same = <<>> THEN 0 ELSE same[1]
Promise == INSTANCE SessionPromise WITH
  session <- [i \in Ids |->
    LET c == Owner(i)
    IN IF c = 0 \/ (db.ctx[c].st = "disconnected" /\ db.ctx[c].expiry = 0)
         THEN [is |-> FALSE, conn |-> FALSE, keep |-> FALSE, sub |-> FALSE, q |-> <<>>]
         ELSE [is |-> TRUE, conn |-> Connected(c), keep |-> db.ctx[c].expiry > 0,
               sub |-> c \in ToSet(db.leaves), q |-> db.ctx[c].q]]

(* A session is resumed with its subscription and its messages exactly if  *)
(* the client asks for it and it has not ended, a message reaches all      *)
(* sessions that subscribe, and no other client's steps touch one.         *)
KeepsPromise == Promise!Init /\ [][Promise!Step(published')]_vars
=============================================================================
