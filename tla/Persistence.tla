---------------------------- MODULE Persistence ----------------------------
(***************************************************************************)
(* The file the broker's database is saved to (persist_write.c) and read   *)
(* from when it starts (persist_read.c).  The machine may lose power       *)
(* before, during or after any of the calls that write the file.           *)
(*                                                                         *)
(* What the broker does between two backups is in SubTree, Session and     *)
(* ClientPublish; here it has some database out of Databases.              *)
(***************************************************************************)
EXTENDS Naturals, Sequences, FiniteSets, SequencesExt

CONSTANTS
  Clients, Messages,   \* a message is known by its db_id
  Databases,           \* what the broker may have in memory
  Sys,                 \* the messages whose topic begins with $SYS
  MaxInflight,         \* inflight_quota of a context that is restored
  MaxNow,              \* bound: time
  MaxBackups,          \* bound
  Failing              \* the kinds of chunks at which a write may fail (a
                       \* full disk), "flush" for fflush

VARIABLES
  mem,       \* [ctx, retained, subs, dests, expiry]; nothing while it is down
  up,
  now,
  inode,     \* what two files hold: chunks, the first part of one that was
             \* torn among them, and whether they are on the disk
  name,      \* the file that db and db.new are names of, 0 for none
  job,       \* the backup under way: its step, chunks left to write, the
             \* database, and whether all of it was written
  saved,     \* [db, whole] of the backup done last
  backups

vars == <<mem, up, now, inode, name, job, saved, backups>>

NoSession == [is |-> FALSE, clean |-> TRUE, interval |-> 0, mid |-> 0,
              inflight |-> <<>>, queued |-> <<>>]
Empty == [ctx |-> [c \in Clients |-> NoSession], retained |-> 0,
          subs |-> {}, dests |-> {}, expiry |-> [m \in Messages |-> 0]]
Idle == [step |-> "idle", chunks |-> <<>>, db |-> Empty, whole |-> TRUE]
Done == [db |-> job.db, whole |-> job.whole]

Init ==
  /\ mem \in Databases /\ up = TRUE /\ now = 0
  /\ inode = [i \in 1..2 |-> [chunks |-> <<>>, synced |-> TRUE]]
  /\ name = [db |-> 0, new |-> 0]
  /\ job = Idle /\ saved = [db |-> Empty, whole |-> TRUE] /\ backups = 0

-----------------------------------------------------------------------------
(* What is written.                                                        *)

InQueue(x, m) == \E e \in ToSet(x.inflight \o x.queued) : e.m = m
RefCount(d, m) == Cardinality({c \in Clients : InQueue(d.ctx[c], m)})
                  + (IF d.retained = m THEN 1 ELSE 0)

(* "$SYS messages that are only retained shouldn't be persisted."          *)
LeftOut(d, m) == m \in Sys /\ RefCount(d, m) <= 1 /\ m \notin d.dests

Store(d) ==
  LET kept == {m \in Messages : RefCount(d, m) >= 1 /\ ~LeftOut(d, m)}
  IN [i \in 1..Cardinality(kept) |->
        LET m == CHOOSE m \in kept : Cardinality({k \in kept : k < m}) = i - 1
        IN [k |-> "store", c |-> "", m |-> m, n |-> d.expiry[m], st |-> ""]]

ClientMessages(d, c, list) ==
  LET kept == SelectSeq(list, LAMBDA e : ~LeftOut(d, e.m))
  IN [i \in 1..Len(kept) |-> [k |-> "msg", c |-> c, m |-> kept[i].m, n |-> kept[i].mid, st |-> kept[i].st]]

ClientChunks(d, c) ==
  IF ~d.ctx[c].is \/ d.ctx[c].clean THEN <<>>
  ELSE <<[k |-> "client", c |-> c, m |-> d.ctx[c].mid, n |-> d.ctx[c].interval, st |-> ""]>>
       \o ClientMessages(d, c, d.ctx[c].inflight) \o ClientMessages(d, c, d.ctx[c].queued)

(* persist__subs_retain_save: shared subscriptions are not in node->subs.  *)
SubChunks(d, c) ==
  IF <<c, "plain">> \in d.subs /\ d.ctx[c].is /\ ~d.ctx[c].clean
    THEN <<[k |-> "sub", c |-> c, m |-> 0, n |-> 0, st |-> ""]>> ELSE <<>>
Retain(d) ==
  IF d.retained \notin Sys \cup {0}
    THEN <<[k |-> "retain", c |-> "", m |-> d.retained, n |-> 0, st |-> ""]>> ELSE <<>>

OfAll(d, F(_, _)) == FoldLeft(LAMBDA s, c : s \o F(d, c), <<>>, SetToSeq(Clients))

(* The first 23 bytes of the file, and the chunk that follows them.        *)
Cfg == [k |-> "cfg", c |-> "", m |-> 0, n |-> 0, st |-> ""]

(* Mutant: the sessions are written before the messages they refer to.     *)
ChunksClientsFirst(d) ==
  <<Cfg>> \o OfAll(d, ClientChunks) \o Store(d) \o OfAll(d, SubChunks) \o Retain(d)

Chunks(d) ==
  <<Cfg>> \o Store(d) \o OfAll(d, ClientChunks) \o OfAll(d, SubChunks) \o Retain(d)

(* A chunk is a header and a body, a write each, or several, into a buffer *)
(* of stdio.  When that cannot be written it is lost from some byte on.    *)
(* What stays are chunks and, it may be, a part of the next: of its header *)
(* ("head") or its header and less than its body ("body").                 *)
IsTorn(x) == x.k = "torn"
Parts(x) ==
  IF IsTorn(x) THEN {x, [x EXCEPT !.at = "head"]}
  ELSE {[k |-> "torn", of |-> x, at |-> at] : at \in {"head", "body"}}
Cuts(chunks) ==
  UNION {LET kept == SubSeq(chunks, 1, n - 1)
         IN {kept} \cup {Append(kept, x) : x \in Parts(chunks[n])} :
         n \in 1..Len(chunks)}

-----------------------------------------------------------------------------
(* persist__backup.  The broker has one thread and does nothing else.      *)

Steps(s) == job.step = s /\ up
Other(i) == 3 - i

(* Mutant: a name that is left is not removed, its file is written again.  *)
UnlinkNot ==
  /\ Steps("idle") /\ backups < MaxBackups
  /\ job' = [step |-> "open", chunks |-> Chunks(mem), db |-> mem, whole |-> TRUE]
  /\ backups' = backups + 1
  /\ UNCHANGED <<mem, up, now, inode, name, saved>>

Unlink ==
  /\ Steps("idle") /\ backups < MaxBackups
  /\ name' = [name EXCEPT !.new = 0]
  /\ job' = [step |-> "open", chunks |-> Chunks(mem), db |-> mem, whole |-> TRUE]
  /\ backups' = backups + 1
  /\ UNCHANGED <<mem, up, now, inode, saved>>

Open ==
  /\ Steps("open")
  /\ LET i == IF name.new # 0 THEN name.new ELSE IF name.db = 0 THEN 1 ELSE Other(name.db)
     IN /\ name' = [name EXCEPT !.new = i]
        /\ inode' = [inode EXCEPT ![i] = [chunks |-> <<>>, synced |-> FALSE]]
  /\ job' = [job EXCEPT !.step = "write"]
  /\ UNCHANGED <<mem, up, now, saved, backups>>

WriteChunk ==
  /\ Steps("write") /\ job.chunks # <<>>
  /\ inode' = [inode EXCEPT ![name.new].chunks = Append(@, Head(job.chunks))]
  /\ job' = [job EXCEPT !.chunks = Tail(@)]
  /\ UNCHANGED <<mem, up, now, name, saved, backups>>

(* A message of the store that cannot be written ends the backup.  The     *)
(* other results are not looked at: a client that cannot be written ends   *)
(* what is saved of the clients, a subscription or a retained message what *)
(* is saved of its node and of those below, whichever they are; the rest   *)
(* is written after what is left of the buffer and of the chunk, or cannot *)
(* be written either.                                                      *)
Rest(chunks, k) ==
  IF k \in {"client", "msg"}
    THEN {<<>>, SelectSeq(chunks, LAMBDA x : x.k \notin {"client", "msg"})}
  ELSE {SelectSeq(Tail(chunks), LAMBDA x : x \notin below) : below \in SUBSET ToSet(Tail(chunks))}

(* Bound: writes fail in one backup until another was whole. *)
MayFail == job.whole /\ saved.whole

WriteFails ==
  /\ MayFail /\ Steps("write") /\ job.chunks # <<>> /\ Head(job.chunks).k \in Failing
  /\ \E kept \in Cuts(Append(inode[name.new].chunks, Head(job.chunks))) :
       inode' = [inode EXCEPT ![name.new].chunks = kept]
  /\ IF Head(job.chunks).k \in {"cfg", "store"} THEN job' = Idle
     ELSE \E left \in Rest(job.chunks, Head(job.chunks).k) :
            job' = [job EXCEPT !.chunks = left, !.whole = FALSE]
  /\ UNCHANGED <<mem, up, now, name, saved, backups>>

Sync ==
  /\ Steps("write") /\ job.chunks = <<>>
  /\ inode' = [inode EXCEPT ![name.new].synced = TRUE]
  /\ job' = [job EXCEPT !.step = "rename"]
  /\ UNCHANGED <<mem, up, now, name, saved, backups>>

(* Nor are those of fflush, fsync and fclose.                              *)
SyncFails ==
  /\ MayFail /\ Steps("write") /\ job.chunks = <<>> /\ "flush" \in Failing
  /\ \E kept \in Cuts(inode[name.new].chunks) :
       inode' = [inode EXCEPT ![name.new] = [chunks |-> kept, synced |-> TRUE]]
  /\ job' = [job EXCEPT !.step = "rename", !.whole = FALSE]
  /\ UNCHANGED <<mem, up, now, name, saved, backups>>

Rename ==
  /\ Steps("rename")
  /\ name' = [db |-> name.new, new |-> 0]
  /\ saved' = Done
  /\ job' = Idle
  /\ UNCHANGED <<mem, up, now, inode, backups>>

(* The power fails, or the broker dies.  What was not flushed may be lost  *)
(* from any chunk on (or any byte: no name of a file that is read is left  *)
(* for it, so this makes no difference); during a rename both names may be left for one file. *)
Crash ==
  /\ up
  /\ up' = FALSE /\ mem' = Empty /\ job' = Idle
  /\ \E cut \in [1..2 -> 0..Len(inode[1].chunks) + Len(inode[2].chunks)] :
       /\ \A i \in 1..2 : IF inode[i].synced THEN cut[i] = Len(inode[i].chunks)
                                             ELSE cut[i] <= Len(inode[i].chunks)
       /\ inode' = [i \in 1..2 |->
            [chunks |-> SubSeq(inode[i].chunks, 1, cut[i]), synced |-> TRUE]]
  /\ \/ name' = name /\ saved' = saved
     \/ /\ job.step = "rename"
        /\ \/ name' = [db |-> name.new, new |-> name.new]
           \/ name' = [db |-> name.new, new |-> 0]
        /\ saved' = Done
  /\ UNCHANGED <<now, backups>>

-----------------------------------------------------------------------------
(* persist__restore, chunk by chunk.                                       *)

FindOrAdd(d, c) ==
  IF d.ctx[c].is THEN d
  ELSE [d EXCEPT !.ctx[c] = [NoSession EXCEPT !.is = TRUE, !.clean = FALSE]]

Quota(x) == MaxInflight - Len(x.inflight)

(* The messages known so far are those of the store chunks: d.dests is     *)
(* used for them while the file is read.                                   *)
Restore(d, x) ==
  LET e == FindOrAdd(d, x.c)
      entry == [m |-> x.m, mid |-> x.n, st |-> x.st]
  IN CASE x.k = "cfg" -> d
       [] x.k = "store" ->
            IF x.n # 0 /\ x.n < now THEN d
            ELSE [d EXCEPT !.dests = @ \cup {x.m},
                           !.expiry[x.m] = IF x.n = now THEN 0 ELSE x.n]
       [] x.k = "client" -> [e EXCEPT !.ctx[x.c].interval = x.n, !.ctx[x.c].mid = x.m]
       [] x.k = "msg" ->
            IF x.m \notin d.dests THEN d
            ELSE IF x.st = "queued" \/ Quota(e.ctx[x.c]) = 0
              THEN [e EXCEPT !.ctx[x.c].queued = Append(@, entry)]
              ELSE [e EXCEPT !.ctx[x.c].inflight = Append(@, entry)]
       [] x.k = "sub" -> [e EXCEPT !.subs = @ \cup {<<x.c, "plain">>}]
       [] x.k = "retain" -> IF x.m \in d.dests THEN [d EXCEPT !.retained = x.m] ELSE d

Restored(chunks) == [FoldLeft(Restore, Empty, chunks) EXCEPT !.dests = {}]

(* What a file may be read as.  A file that ends inside a header is taken  *)
(* for one that ends before it; one that ends inside a body is refused,    *)
(* and the broker does not start.  If something follows what was torn, the *)
(* reader takes the missing bytes from it and is out of step: it may       *)
(* refuse the file (no Start), take the chunk with a value of another, or  *)
(* skip, as a chunk it does not know, up to some place or beyond the end.  *)
Misread(x, later) == {[x EXCEPT !.n = y.n] : y \in ToSet(later)}
Readings(chunks) ==
  IF ~\E i \in DOMAIN chunks : IsTorn(chunks[i]) THEN {Restored(chunks)}
  ELSE LET i == SelectInSeq(chunks, IsTorn)
           before == SubSeq(chunks, 1, i - 1)
           later == SelectSeq(SubSeq(chunks, i + 1, Len(chunks)), LAMBDA x : ~IsTorn(x))
           taken == {<<>>} \cup {<<x>> : x \in Misread(chunks[i].of, later)}
       IN IF i = Len(chunks)
            THEN IF chunks[i].at = "head" THEN {Restored(before)} ELSE {}
            ELSE {Restored(before \o x \o SubSeq(later, n, Len(later))) :
                    x \in taken, n \in 1..Len(later) + 1}

Start ==
  /\ ~up
  /\ up' = TRUE
  /\ IF name.db = 0 THEN mem' = Empty ELSE mem' \in Readings(inode[name.db].chunks)
  /\ UNCHANGED <<now, inode, name, job, saved, backups>>

(* The broker goes on with its work. *)
Work ==
  /\ Steps("idle") /\ mem' \in Databases \ {mem} /\ backups < MaxBackups
  /\ UNCHANGED <<up, now, inode, name, job, saved, backups>>

Tick ==
  /\ now < MaxNow /\ job.step = "idle"
  /\ now' = now + 1
  /\ UNCHANGED <<mem, up, inode, name, job, saved, backups>>

Next == \/ Unlink \/ Open \/ WriteChunk \/ WriteFails \/ Sync \/ SyncFails \/ Rename
        \/ Crash \/ Start \/ Work \/ Tick

Spec == Init /\ [][Next]_vars

-----------------------------------------------------------------------------
(* persist__backup: whenever the power fails, the file is that of the last *)
(* backup, and on the disk.  It is whole if every write succeeded.         *)
FileIsWhole ==
  name.db # 0 =>
    /\ inode[name.db].synced
    /\ saved.whole => inode[name.db].chunks = Chunks(saved.db)

(* "This guarantees that the new state file will not overwrite the old     *)
(* state file before its contents are valid" (persist_write.c:366-367).    *)
(* It does if a write fails: the results of persist__client_save, of       *)
(* persist__subs_retain_save_all and of fflush are not looked at.          *)
ContentsValid == name.db # 0 => inode[name.db].chunks = Chunks(saved.db)

(* What a restart keeps: the sessions that do not end with their           *)
(* connection, their subscriptions, the messages that go on waiting for    *)
(* them in the same order, and the message retained.                       *)
Alive(d, m) == d.expiry[m] = 0 \/ d.expiry[m] >= now
Survives(d, m) == Alive(d, m) /\ ~LeftOut(d, m)
RestoresSaved ==
  (Start /\ name.db # 0 /\ saved.whole) =>
       LET old == saved.db
           new == mem'
           Stays(c) == old.ctx[c].is /\ ~old.ctx[c].clean
           Of(x) == SelectSeq(x.inflight \o x.queued, LAMBDA e : Survives(old, e.m))
       IN /\ \A c \in Clients :
               /\ new.ctx[c].is = Stays(c)
               /\ Stays(c) =>
                    /\ new.ctx[c].interval = old.ctx[c].interval
                    /\ new.ctx[c].mid = old.ctx[c].mid
                    /\ new.ctx[c].inflight \o new.ctx[c].queued = Of(old.ctx[c])
                    /\ Len(new.ctx[c].inflight) <= MaxInflight
          /\ new.subs = {s \in old.subs : s[2] = "plain" /\ Stays(s[1])}
          /\ new.retained = IF old.retained # 0 /\ old.retained \notin Sys
                                 /\ Alive(old, old.retained)
                              THEN old.retained ELSE 0
          /\ \A m \in Messages : (RefCount(new, m) > 0 /\ old.expiry[m] # now) =>
               new.expiry[m] = old.expiry[m]
RestoredAsSaved == [][RestoresSaved]_vars
=============================================================================
