------------------------------ MODULE Security ------------------------------
(***************************************************************************)
(* Who may connect to the broker and do what: the security part of the     *)
(* configuration file (conf.c), the password and ACL files                 *)
(* (security_default.c), and what SIGHUP makes of the three while clients  *)
(* are connected.  No plugin, no TLS, no bridge.                           *)
(*                                                                         *)
(* A topic is the sequence of its levels; %c and %u stand for a level.     *)
(***************************************************************************)
EXTENDS Naturals, Sequences, FiniteSets, SequencesExt

CONSTANTS
  Clients,        \* client ids
  Ports,          \* of the listeners, a sequence
  Credentials,    \* [user, pass] clients connect with; no user: ""
  Dangerous,      \* names with + or #
  Topics,
  Confs, PwFiles, AclFiles,   \* contents the three files may have
  Missing         \* the content of a file that is not there

VARIABLES
  disk,           \* the files [conf, pw, acl] as they were last read
  config,         \* struct mosquitto__config
  users,          \* per domain: the passwords
  acls,           \* per domain: acl_list and acl_patterns
  rc,             \* how the last reading of the files went
  ctx             \* the clients' contexts

vars == <<disk, config, users, acls, rc, ctx>>

(* Settings are per listener or for all of them. *)
Domains == ToSet(Ports) \cup {"all", "default"}
InitOptions == [pw |-> FALSE, acl |-> FALSE, anon |-> "unset"]
NoAcls == [list |-> <<>>, patterns |-> <<>>]
None == [st |-> "none", user |-> "", pass |-> "", dom |-> "all", acl |-> <<>>]

Used(cfg) == IF cfg.per THEN SelectSeq(Ports, LAMBDA p : p \in cfg.have) ELSE <<"all">>

-----------------------------------------------------------------------------
(* config__read_file_core, line by line; seen: a security setting was read. *)
ReadLine(s, line, reload) ==
  LET k == line.k
      dom == IF s.cfg.per THEN s.cur ELSE "all"
      Set(o) == [s EXCEPT !.cfg.opts[dom] = o, !.seen = TRUE]
      o == s.cfg.opts[dom]
  IN IF ~s.ok THEN s
     ELSE IF k = "password_file" THEN Set([o EXCEPT !.pw = TRUE])
     ELSE IF k = "acl_file" THEN Set([o EXCEPT !.acl = TRUE])
     ELSE IF k = "allow_anonymous" THEN Set([o EXCEPT !.anon = line.v])
     ELSE IF k = "per_listener_settings"
       THEN [s EXCEPT !.cfg.per = line.v = "yes", !.ok = ~(s.seen /\ line.v = "yes")]
     ELSE IF k = "listener" /\ (~reload \/ line.v \in s.cfg.have)
       THEN [s EXCEPT !.cur = line.v, !.cfg.have = @ \cup {line.v},
                      !.cfg.opts[line.v].anon = "unset"]
     ELSE [s EXCEPT !.ok = FALSE]

ReadFile(cfg, lines, reload) ==
  FoldLeft(LAMBDA s, line : ReadLine(s, line, reload),
           [cfg |-> cfg, cur |-> "default", seen |-> FALSE, ok |-> lines # Missing],
           IF lines = Missing THEN <<>> ELSE lines)

Defaults(cfg) ==
  [cfg EXCEPT !.opts = [d \in Domains |->
     LET o == cfg.opts[d]
     IN IF d \in ToSet(Used(cfg)) /\ o.anon = "unset"
          THEN [o EXCEPT !.anon = IF o.pw THEN "no" ELSE "yes"] ELSE o]]

InitConfig == [per |-> FALSE, have |-> {}, opts |-> [d \in Domains |-> InitOptions]]

(* What config__init_reload resets before the file is read again: not the  *)
(* listeners, which the new configuration shares with the old one.         *)
Reset(cfg) ==
  [cfg EXCEPT !.per = FALSE, !.opts["all"] = InitOptions, !.opts["default"] = InitOptions]

(* Mutant: the settings of a file that is refused are taken over.          *)
ReloadConfigPartly(cfg, lines) ==
  LET s == ReadFile(Reset(cfg), lines, TRUE)
  IN [cfg |-> Defaults([s.cfg EXCEPT !.per = cfg.per]), ok |-> s.ok]

(* config__read on reload, with config__copy: per_listener_settings stays  *)
(* what it was.                                                            *)
ReloadConfig(cfg, lines) ==
  LET s == ReadFile(Reset(cfg), lines, TRUE)
      read == [s.cfg EXCEPT !.per = cfg.per, !.opts["default"] = cfg.opts["default"]]
  IN [cfg |-> IF s.ok THEN Defaults(read)
              ELSE [read EXCEPT !.opts["all"] = cfg.opts["all"]],
      ok |-> s.ok]

-----------------------------------------------------------------------------
(* pwfile__parse, unpwd__decode_passwords: bad lines are left out.         *)
ParsePasswords(lines) == SelectSeq(lines, LAMBDA e : e.ok)

(* Mutant: a user who is named again gets a second list. *)
AddAclAgain(list, user, rule) ==
  IF list # <<>> /\ Last(list).user = user
    THEN [list EXCEPT ![Len(list)].rules = Append(@, rule)]
    ELSE Append(list, [user |-> user, rules |-> <<rule>>])

(* add__acl: all the rules of a user are in one list.                      *)
AddAcl(list, user, rule) ==
  LET found == {i \in 1..Len(list) : list[i].user = user}
  IN IF found = {} THEN Append(list, [user |-> user, rules |-> <<rule>>])
     ELSE [i \in 1..Len(list) |-> IF i \in found
             THEN [list[i] EXCEPT !.rules = Append(@, rule)] ELSE list[i]]

(* aclfile__parse: it stops at a line it does not understand.              *)
AclLine(s, line) ==
  LET rule == [t |-> line.t, a |-> line.a]
  IN IF ~s.ok THEN s
     ELSE IF line.k = "user" THEN [s EXCEPT !.user = line.t[1]]
     ELSE IF line.k = "topic" THEN [s EXCEPT !.list = AddAcl(@, s.user, rule)]
     ELSE IF line.k = "pattern" THEN [s EXCEPT !.patterns = Append(@, rule)]
     ELSE [s EXCEPT !.ok = FALSE]

ParseAcls(lines) ==
  FoldLeft(AclLine, [user |-> "", list |-> <<>>, patterns |-> <<>>, ok |-> lines # Missing],
           IF lines = Missing THEN <<>> ELSE lines)

(* mosquitto_security_init_default, after everything was cleaned up: the   *)
(* first file that cannot be read is the last one that is tried.           *)
SecurityInit(cfg, files) ==
  LET withPw == {d \in ToSet(Used(cfg)) : cfg.opts[d].pw}
      withAcl == {d \in ToSet(Used(cfg)) : cfg.opts[d].acl}
      pwOk == withPw = {} \/ files.pw # Missing
      s == ParseAcls(files.acl)
      first == CHOOSE d \in withAcl : \A e \in withAcl :
                 \E i, j \in 1..Len(Used(cfg)) : i <= j /\ Used(cfg)[i] = d /\ Used(cfg)[j] = e
      loaded == IF ~pwOk \/ withAcl = {} THEN {} ELSE IF s.ok THEN withAcl ELSE {first}
  IN [users |-> [d \in Domains |-> IF pwOk /\ d \in withPw THEN ParsePasswords(files.pw) ELSE <<>>],
      acls |-> [d \in Domains |-> IF d \in loaded
                  THEN [list |-> s.list, patterns |-> s.patterns] ELSE NoAcls],
      ok |-> pwOk /\ (withAcl = {} \/ s.ok)]

-----------------------------------------------------------------------------
(* mosquitto_unpwd_check_default: of two entries the first one decides.    *)
UnpwdCheck(cfg, us, dom, user, pass) ==
  LET entries == SelectSeq(us[dom], LAMBDA e : e.user = user)
  IN \/ ~cfg.opts[dom].pw
     \/ user # "" /\ entries # <<>> /\ entries[1].pass = pass

(* acl__find_acls: the list of a user who has none is left alone.          *)
FindAcls(al, dom, user, old) ==
  LET found == SelectSeq(al[dom].list, LAMBDA e : e.user = user)
  IN IF al[dom].list = <<>> THEN <<>> ELSE IF found = <<>> THEN old ELSE found[1].rules

Match(f, t) ==
  LET multi == Last(f) = "#"
      n == IF multi THEN Len(f) - 1 ELSE Len(f)
  IN /\ IF multi THEN Len(t) >= n ELSE Len(t) = n
     /\ \A i \in 1..n : f[i] \in {"+", t[i]}
     /\ t[1] = "$SYS" => f[1] = t[1]

Replaced(f, c, user) ==
  [i \in 1..Len(f) |-> CASE f[i] = "%c" -> c [] f[i] = "%u" -> user [] OTHER -> f[i]]

(* acl__check_dollar *)
CheckDollar(t, access) == t[1] = "$SYS" => access # "write"

(* mosquitto_acl_check: reading or writing.                                *)
AclCheck(c, t, access) ==
  LET x == ctx[c]
      rules == ToSet(x.acl)
      patterns == ToSet(acls[x.dom].patterns)
  IN IF ~CheckDollar(t, access) THEN FALSE
     ELSE IF ~config.opts[x.dom].acl /\ acls[x.dom] = NoAcls THEN TRUE
     ELSE \/ \E r \in rules : access \in r.a /\ Match(r.t, t)
          \/ /\ {x.user, c} \cap Dangerous = {}
             /\ \E r \in patterns :
                  /\ access \in r.a
                  /\ "%u" \in ToSet(r.t) => x.user # ""
                  /\ Match(Replaced(r.t, c, x.user), t)

-----------------------------------------------------------------------------
Init ==
  /\ disk \in [conf : Confs, pw : PwFiles, acl : AclFiles]
  /\ LET s == ReadFile(InitConfig, disk.conf, FALSE)
         cfg == Defaults(s.cfg)
         loaded == SecurityInit(cfg, disk)
     IN /\ s.ok /\ loaded.ok
        /\ config = cfg /\ users = loaded.users /\ acls = loaded.acls
  /\ rc = "ok"
  /\ ctx = [c \in Clients |-> None]

(* handle__connect, connect__on_authorised; it may take over a session.    *)
Admitted(cfg, us, dom, k) ==
  IF k.user # "" THEN UnpwdCheck(cfg, us, dom, k.user, k.pass) ELSE cfg.opts[dom].anon # "no"

Connect(c, k, port) ==
  LET dom == IF config.per THEN port ELSE "all"
  IN /\ ctx[c].st # "active" /\ port \in config.have
     /\ Admitted(config, users, dom, k)
     /\ ctx' = [ctx EXCEPT ![c] =
          [st |-> "active", user |-> k.user, pass |-> k.pass, dom |-> dom,
           acl |-> FindAcls(acls, dom, k.user, <<>>)]]
     /\ UNCHANGED <<disk, config, users, acls, rc>>

(* The session stays, and with it what the client may read.                *)
Lost(c) ==
  /\ ctx[c].st = "active"
  /\ ctx' = [ctx EXCEPT ![c].st = "offline"]
  /\ UNCHANGED <<disk, config, users, acls, rc>>

(* Mutant: clients without a name are not looked at. *)
StillAuthorisedNamed(cfg, us, x) == x.user = "" \/ UnpwdCheck(cfg, us, x.dom, x.user, x.pass)

StillAuthorised(cfg, us, x) ==
  /\ cfg.opts[x.dom].anon = "no" => x.user # ""
  /\ UnpwdCheck(cfg, us, x.dom, x.user, x.pass)

(* mosquitto_security_apply_default, of one context.                       *)
Apply(cfg, us, al, x) ==
  IF x.st = "none" THEN x
  ELSE IF ~StillAuthorised(cfg, us, x) THEN [x EXCEPT !.st = "offline"]
  ELSE [x EXCEPT !.acl = FindAcls(al, x.dom, x.user, @)]

(* acl__cleanup: contexts point into the lists that are freed.             *)
AclCleanup(x) == [x EXCEPT !.acl = <<>>]

(* SIGHUP, in the main loop.  No result is looked at.                      *)
Reload(files) ==
  LET read == ReloadConfig(config, files.conf)
      loaded == SecurityInit(read.cfg, files)
  IN /\ disk' = files
     /\ config' = read.cfg
     /\ users' = loaded.users /\ acls' = loaded.acls
     /\ rc' = IF ~read.ok /\ ~loaded.ok THEN "both" ELSE IF ~read.ok THEN "config"
              ELSE IF ~loaded.ok THEN "security" ELSE "ok"
     /\ ctx' = [c \in Clients |->
                  Apply(read.cfg, loaded.users, loaded.acls, AclCleanup(ctx[c]))]

Next ==
  \/ \E c \in Clients : Lost(c) \/ \E k \in Credentials, p \in ToSet(Ports) : Connect(c, k, p)
  \/ \E files \in [conf : Confs, pw : PwFiles, acl : AclFiles] : Reload(files)

Spec == Init /\ [][Next]_vars

-----------------------------------------------------------------------------
(* What the ACL file says, rule by rule: one for a topic is for the user   *)
(* named last before it.                                                   *)
Says(lines, i, c, t, access) ==
  LET x == ctx[c]
      named == {j \in 1..i : lines[j].k = "user"}
      user == IF named = {} THEN "" ELSE lines[CHOOSE j \in named : \A n \in named : n <= j].t[1]
  IN /\ access \in lines[i].a
     /\ \/ lines[i].k = "topic" /\ user = x.user /\ Match(lines[i].t, t)
        \/ /\ lines[i].k = "pattern" /\ {x.user, c} \cap Dangerous = {}
           /\ "%u" \in ToSet(lines[i].t) => x.user # ""
           /\ Match(Replaced(lines[i].t, c, x.user), t)

FileSays(c, t, access) ==
  /\ ~(t[1] = "$SYS" /\ access = "write")
  /\ \/ ~config.opts[ctx[c].dom].acl
     \/ disk.acl # Missing /\ \E i \in 1..Len(disk.acl) : Says(disk.acl, i, c, t, access)

(* However often the files were read again while clients came and went, a  *)
(* client may do what the ACL file says now: exactly that if the files     *)
(* could be read, and no more if not.  No rule of an earlier file is left. *)
FilesDecide ==
  \A c \in Clients, t \in Topics, access \in {"read", "write"} :
    ctx[c].st # "none" =>
      /\ AclCheck(c, t, access) => FileSays(c, t, access)
      /\ (rc \in {"ok", "config"} /\ ctx[c].st = "active" /\ FileSays(c, t, access)) => AclCheck(c, t, access)

(* Who is connected would be let in now, with the files as they are now.   *)
ConnectedAreAdmitted ==
  \A c \in Clients : ctx[c].st = "active" =>
    Admitted(config, users, ctx[c].dom, [user |-> ctx[c].user, pass |-> ctx[c].pass])

(* A configuration file that is refused changes nothing of the settings    *)
(* for all listeners.                                                      *)
Refused ==
  rc' \in {"config", "both"} /\ ~config.per => config'.opts["all"] = config.opts["all"]
RefusedFileIsIgnored == [][Refused]_vars

(* security_default.c: a reload includes "Disconnecting anonymous users if *)
(* appropriate".  Who would be let in goes on being connected.             *)
OnlyIfAppropriate ==
  [][\A c \in Clients :
       (ctx[c].st = "active" /\ ctx'[c].st = "offline" /\ rc' = "ok" /\ disk' # disk)
         => ~Admitted(config', users', ctx[c].dom, [user |-> ctx[c].user, pass |-> ctx[c].pass])]_vars
=============================================================================
