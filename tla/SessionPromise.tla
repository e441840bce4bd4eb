--------------------------- MODULE SessionPromise ---------------------------
(***************************************************************************)
(* What a client of the broker is promised about its session, whatever     *)
(* contexts the broker keeps for it.                                       *)
(***************************************************************************)
EXTENDS Naturals, Sequences, FiniteSets

CONSTANTS Ids
VARIABLES
  session,   \* per client: [is, conn, keep, sub, q]; keep: it outlives the
             \* connection, q: messages not yet acknowledged
  present    \* what the last CONNACK said of a session

vars == <<session, present>>

None == [is |-> FALSE, conn |-> FALSE, keep |-> FALSE, sub |-> FALSE, q |-> <<>>]

Init == session = [i \in Ids |-> None] /\ present = FALSE

Connect(i, clean, keep) ==
  LET old == session[i]
      resume == old.is /\ old.keep /\ ~clean
  IN /\ session' = [session EXCEPT ![i] =
          [is |-> TRUE, conn |-> TRUE, keep |-> keep,
           sub |-> resume /\ old.sub, q |-> IF resume THEN old.q ELSE <<>>]]
     /\ present' = resume

(* The connection ends; DISCONNECT may say that the session ends with it.  *)
End(i, keep) ==
  /\ session[i].conn
  /\ session' = [session EXCEPT ![i] =
       IF keep THEN [@ EXCEPT !.conn = FALSE, !.keep = TRUE] ELSE None]
  /\ keep => session[i].keep
  /\ UNCHANGED present

Expire(set) ==
  /\ set # {} /\ \A i \in set : session[i].is /\ ~session[i].conn
  /\ session' = [i \in Ids |-> IF i \in set THEN None ELSE session[i]]
  /\ UNCHANGED present

Subscribe(i) ==
  /\ session[i].conn
  /\ session' = [session EXCEPT ![i].sub = TRUE]
  /\ UNCHANGED present

(* It reaches who subscribes, and one of a group at most. *)
Publish(m, chosen) ==
  /\ Cardinality(chosen) <= 1 /\ \A i \in chosen : session[i].is
  /\ session' = [i \in Ids |-> IF session[i].sub \/ i \in chosen
                   THEN [session[i] EXCEPT !.q = Append(@, m)] ELSE session[i]]
  /\ UNCHANGED present

Acked(i) ==
  /\ session[i].conn /\ session[i].q # <<>>
  /\ session' = [session EXCEPT ![i].q = Tail(@)]
  /\ UNCHANGED present

(* What a step of the broker may be; m: the number of the next message. *)
Step(m) ==
  \/ \E i \in Ids, b, k \in BOOLEAN : Connect(i, b, k)
  \/ \E i \in Ids, k \in BOOLEAN : End(i, k)
  \/ \E set \in SUBSET Ids : Expire(set)
  \/ \E i \in Ids : Subscribe(i) \/ Acked(i)
  \/ \E set \in SUBSET Ids : Publish(m, set)
  \/ UNCHANGED vars
=============================================================================
