----------------------------- MODULE MCBroker -------------------------------
(***************************************************************************)
(* The broker's components on small instances.  They share no state, so    *)
(* that each behaviour moves one of them: `part' says which.  The tree of  *)
(* subscriptions keeps its initial state while another component moves,    *)
(* the variables of the others hold "off".                                 *)
(***************************************************************************)
EXTENDS SubTree

VARIABLES
  part,
  db, now, present, published, graceful,
  disk, config, users, acls, rc, ctx,
  mem, up, inode, name, job, saved, backups

sessionVars == <<db, present, published, graceful>>
securityVars == <<disk, config, users, acls, rc, ctx>>
fileVars == <<mem, up, inode, name, job, saved, backups>>
brokerVars == <<part, now, vars, sessionVars, securityVars, fileVars>>

SessionOff ==
  /\ db = "off" /\ present = "off" /\ published = "off" /\ graceful = "off"
SecurityOff ==
  /\ disk = "off" /\ config = "off" /\ users = "off" /\ acls = "off" /\ rc = "off"
  /\ ctx = "off"
FileOff ==
  /\ mem = "off" /\ up = "off" /\ inode = "off" /\ name = "off" /\ job = "off"
  /\ saved = "off" /\ backups = "off"

-----------------------------------------------------------------------------
(* Two clients, one of MQTT 3.1.1 and one of MQTT 5; two subscriptions.    *)
Readable(c, t) == c # "c" \/ t # <<"a">>
NoMount(c) == <<>>
SubscribeOptions ==
  {[q |-> 2, nl |-> FALSE, rap |-> FALSE, sends |-> "always"],
   [q |-> 1, nl |-> TRUE, rap |-> TRUE, sends |-> "new"]}
Publishings ==
  {[t |-> <<"a">>, m |-> "y", q |-> 2, r |-> FALSE],
   [t |-> <<"a", "b">>, m |-> "x", q |-> 1, r |-> TRUE],
   [t |-> <<"a", "b">>, m |-> "", q |-> 1, r |-> TRUE],
   [t |-> <<"$SYS", "b">>, m |-> "y", q |-> 0, r |-> FALSE]}
Paths == {<<"a">>, <<"a", "b">>, <<"$SYS", "b">>}
SubscribeTo == {<<"a", "#">>, <<"+", "b">>, <<"#">>, <<"a", "b">>}
OnePath == {<<"a", "b">>}

(* Two connections of one client; 99 stands for UINT32_MAX, 98 for no      *)
(* interval in DISCONNECT.                                                 *)
Kind(c, e, n, w, d) == [clean |-> c, expiry |-> e, end |-> n, will |-> w, delay |-> d]
SessionIds == {"a"}
SessionKinds ==
  {Kind(TRUE, 0, 5, TRUE, 0), Kind(FALSE, 1, 98, TRUE, 2),
   Kind(FALSE, 9, 0, TRUE, 1)}
Sessions == INSTANCE Session WITH
  Ids <- SessionIds, N <- 2, Never <- 99, Keep <- 98, persistent_client_expiration <- 0,
  Kinds <- SessionKinds, LastEvent <- 2, MaxNow <- 4, MaxMessages <- 1

(* Configuration files with global and per-listener settings, and one that *)
(* is refused; password and ACL files, and missing ones.                   *)
Line(k, v) == [k |-> k, v |-> v]
ConfigFiles ==
  {<<Line("listener", "l1"), Line("listener", "l2")>>,
   <<Line("password_file", ""), Line("acl_file", ""), Line("listener", "l1"),
     Line("listener", "l2")>>,
   <<Line("password_file", ""), Line("allow_anonymous", "yes"), Line("listener", "l1"),
     Line("listener", "l2"), Line("acl_file", ""), Line("bad", "")>>,
   <<Line("per_listener_settings", "yes"), Line("listener", "l1"), Line("acl_file", ""),
     Line("listener", "l2"), Line("password_file", ""), Line("allow_anonymous", "yes")>>}
Entry(u, p, ok) == [user |-> u, pass |-> p, ok |-> ok]
Rule(k, t, a) == [k |-> k, t |-> t, a |-> a]
Both == {"read", "write"}
Listeners == <<"l1", "l2">>
SomeUsers ==
  {[user |-> "", pass |-> ""], [user |-> "u", pass |-> "p"], [user |-> "v", pass |-> "q"]}
AclTopics == {<<"a">>, <<"u", "c">>, <<"$SYS", "x">>}
PasswordFiles ==
  {<<Entry("u", "p", TRUE)>>,
   <<Entry("v", "p", TRUE), Entry("u", "q", FALSE), Entry("v", "q", TRUE)>>, <<>>}
AccessFiles ==
  {<<Rule("topic", <<"a">>, {"read"}), Rule("user", <<"u">>, {}),
     Rule("topic", <<"#">>, Both), Rule("user", <<"v">>, {}),
     Rule("topic", <<"a">>, Both), Rule("user", <<"u">>, {}),
     Rule("topic", <<"$SYS", "+">>, Both)>>,
   <<Rule("pattern", <<"%u", "%c">>, Both), Rule("topic", <<"a">>, {"write"}),
     Rule("bad", <<"">>, {}), Rule("topic", <<"#">>, Both)>>, <<>>}
Risky == {"v"}
NoFile == <<>>
OneClient == {"c"}
Security == INSTANCE Security WITH
  Clients <- OneClient,
  Ports <- Listeners, Dangerous <- Risky, Credentials <- SomeUsers, Topics <- AclTopics,
  Confs <- ConfigFiles, PwFiles <- PasswordFiles, AclFiles <- AccessFiles,
  Missing <- NoFile

(* Three messages, one of them of $SYS and one that expires.               *)
Waiting(m, n, s) == [m |-> m, mid |-> n, st |-> s]
Held(cl, i, n, f, q) ==
  [is |-> TRUE, clean |-> cl, interval |-> i, mid |-> n, inflight |-> f, queued |-> q]
NoClient == [is |-> FALSE, clean |-> TRUE, interval |-> 0, mid |-> 0,
           inflight |-> <<>>, queued |-> <<>>]
Contents(x, y, r, s, de) ==
  [ctx |-> [c |-> x, d |-> y], retained |-> r, subs |-> s, dests |-> de,
   expiry |-> <<0, 1, 0>>]
Restored ==
  {Contents(Held(FALSE, 5, 7, <<Waiting(2, 6, "wait"), Waiting(1, 7, "wait")>>, <<>>),
            Held(TRUE, 5, 3, <<Waiting(1, 3, "wait")>>, <<>>), 2,
            {<<"c", "plain">>, <<"d", "plain">>}, {1, 2}),
   Contents(Held(FALSE, 9, 7, <<Waiting(3, 6, "wait")>>, <<Waiting(1, 7, "queued")>>),
            Held(FALSE, 9, 1, <<>>, <<Waiting(1, 1, "queued")>>), 1,
            {<<"c", "plain">>, <<"d", "shared">>}, {1, 3}),
   Contents(NoClient,
            Held(FALSE, 5, 3, <<>>, <<Waiting(2, 2, "queued"), Waiting(3, 3, "queued")>>), 3,
            {<<"d", "plain">>}, {2})}
Stored == {1, 2, 3}
SysStored == {3}
Breaks == {"cfg", "store", "client", "sub", "flush"}
File == INSTANCE Persistence WITH
  Messages <- Stored, Sys <- SysStored, MaxInflight <- 1, MaxNow <- 2, MaxBackups <- 2,
  Failing <- Breaks, Databases <- Restored

-----------------------------------------------------------------------------
BrokerInit ==
  /\ Init
  /\ \/ /\ part = "tree" /\ now = 0
        /\ SessionOff /\ SecurityOff /\ FileOff
     \/ /\ part = "session" /\ Sessions!Init
        /\ SecurityOff /\ FileOff
     \/ /\ part = "security" /\ Security!Init /\ now = 0
        /\ SessionOff /\ FileOff
     \/ /\ part = "file" /\ File!Init
        /\ SessionOff /\ SecurityOff

BrokerNext ==
  \/ /\ part = "tree" /\ Next
     /\ UNCHANGED <<part, now, sessionVars, securityVars, fileVars>>
  \/ /\ part = "session" /\ Sessions!Next
     /\ UNCHANGED <<part, vars, securityVars, fileVars>>
  \/ /\ part = "security" /\ Security!Next
     /\ UNCHANGED <<part, now, vars, sessionVars, fileVars>>
  \/ /\ part = "file" /\ File!Next
     /\ UNCHANGED <<part, vars, sessionVars, securityVars>>

(* The fairness of Session.                                                *)
SessionMoves == part = "session" /\ UNCHANGED <<part, vars, securityVars, fileVars>>
BrokerSpec ==
  /\ BrokerInit /\ [][BrokerNext]_brokerVars
  /\ WF_brokerVars(SessionMoves /\ Sessions!FreeDisused) /\ WF_brokerVars(SessionMoves /\ Sessions!Check)
  /\ WF_brokerVars(SessionMoves /\ Sessions!Tick)

-----------------------------------------------------------------------------
(* SubTree and Session: no reference leads to a node, a context or a will  *)
(* that was freed, whoever ends first; counts are what is there, and a     *)
(* will is published once at most, not after a DISCONNECT that does not    *)
(* ask for it.                                                             *)
NothingDangles ==
  /\ part = "tree" => ReferencesLive /\ CountsTrue
  /\ part = "session" => Sessions!NoDangling /\ Sessions!WillOnce

(* Session: sessions are resumed, end and are served as SessionPromise has *)
(* it, and the will of a connection that is lost is not forgotten.         *)
KeepsPromise ==
  /\ part = "session" => Sessions!Promise!Init
  /\ [][part = "session" => Sessions!Promise!Step(published')]_brokerVars
  /\ \A c \in Sessions!Contexts :
       (part = "session" /\ Sessions!Waiting(c))
         ~> (part = "session" /\ (db.wills[c] = 1 \/ ~Sessions!Waiting(c)))

(* Security: who is connected would be let in now and may do what the ACL  *)
(* file says now, also after files were read again; a configuration file   *)
(* that is refused changes no setting that holds for all listeners.        *)
FilesDecide ==
  /\ [](part = "security" => Security!FilesDecide /\ Security!ConnectedAreAdmitted)
  /\ [][part = "security" => Security!Refused]_brokerVars

(* Persistence: no file replaces the one of the last backup that does not  *)
(* hold all of the next.                                                   *)
ContentsValid == part = "file" => File!ContentsValid

(* Persistence: whenever the power fails, the file is that of a backup,    *)
(* and a restart brings back what was saved.                               *)
RestoredAsSaved ==
  /\ [](part = "file" => File!FileIsWhole)
  /\ [][part = "file" => File!RestoresSaved]_brokerVars
=============================================================================
