----------------------------- MODULE ConfigEdit -----------------------------
(***************************************************************************)
(* "deep proxy set | unset | status" (configureProxy of                    *)
(* cmd/deep/proxy_settings.go): several runs of the command edit one       *)
(* configuration file, which other programs also write, and each may be    *)
(* killed at any point.  Every step is one access to the file system.      *)
(*                                                                         *)
(* A configuration is what the command leaves alone (networks) and what it *)
(* edits (proxy).  A file has an identity, which os.SameFile compares, and *)
(* its content.                                                            *)
(***************************************************************************)
EXTENDS Integers

CONSTANTS
  Editors,       \* runs of the command
  Addresses,     \* proxy addresses
  Networks,      \* values of the part of a configuration the command keeps
  MaxOutside     \* how often other programs write the file

NoProxy == "none"
ASSUME EditAssumption == NoProxy \notin Addresses /\ Networks # {} /\ MaxOutside \in Nat

VARIABLES
  path,      \* the file at the path: its identity (None: no file) and content
  lastId,    \* the identity given last
  outside,   \* how often other programs wrote the file
  pc, wish,  \* of an editor: where it is, and the proxy it is to set
  info,      \* the identity os.Lstat found, or None
  before,    \* the content it read
  temp,      \* its temporary file: absent, partial or complete
  backups,   \* the complete backup files
  raced,     \* history: editors whose file changed after they compared it
  lost       \* history: what the editors replaced

vars == <<path, lastId, outside, pc, wish, info, before, temp, backups, raced, lost>>

Configs == [networks : Networks, proxy : Addresses \cup {NoProxy}]
None    == 0
Absent  == [state |-> "absent"]
Torn    == [state |-> "torn"]
Missing == [id |-> None, data |-> Absent]
Exists(id) == id # None

\* The file at the path becomes another file or gets other content; of the
\* other editors, those past their comparison do not look again.
Put(file, others) ==
  /\ path' = file
  /\ raced' = raced \cup {e \in others : pc[e] \in {"backup", "publish"}}

Replaced(e) ==
  IF Exists(path.id) /\ path.data # temp[e]
    THEN lost \cup {[by |-> e, data |-> path.data]} ELSE lost

Goto(e, label) == pc' = [pc EXCEPT ![e] = label]

\* Every return removes the temporary file (the deferred os.Remove).
Return(e, label) == Goto(e, label) /\ temp' = [temp EXCEPT ![e] = Absent]

-----------------------------------------------------------------------------
Stat(e) ==
  /\ pc[e] = "stat"
  /\ info' = [info EXCEPT ![e] = path.id]
  /\ Goto(e, IF Exists(path.id) THEN "read" ELSE "decide")
  /\ UNCHANGED <<path, lastId, outside, wish, before, temp, backups, raced, lost>>

\* os.ReadFile, and the strict LoadRegistry of the same path.
Read(e) ==
  /\ pc[e] = "read"
  /\ Exists(path.id)
  /\ before' = [before EXCEPT ![e] = path.data]
  /\ Goto(e, "decide")
  /\ UNCHANGED <<path, lastId, outside, wish, info, temp, backups, raced, lost>>

\* The new content: only the proxy field is edited.
Edited(e) == [before[e] EXCEPT !.proxy = wish[e]]

\* status, or a proxy that is already as wished, changes nothing.
Decide(e) ==
  /\ pc[e] = "decide"
  /\ IF wish[e] = "status" \/ before[e].proxy = wish[e]
       THEN Return(e, "done")
       ELSE Goto(e, "write") /\ temp' = [temp EXCEPT ![e] = Torn]
  /\ UNCHANGED <<path, lastId, outside, wish, info, before, backups, raced, lost>>

\* Write, Sync and Close of the temporary file, which LoadRegistry then checks.
WriteTemp(e) ==
  /\ pc[e] = "write"
  /\ temp' = [temp EXCEPT ![e] = Edited(e)]
  /\ Goto(e, "check")
  /\ UNCHANGED <<path, lastId, outside, wish, info, before, backups, raced, lost>>

\* The second os.Lstat: the same file as before, or still none.
Check(e) ==
  /\ pc[e] = "check"
  /\ IF path.id = info[e]
       THEN Goto(e, IF Exists(info[e]) THEN "compare" ELSE "publish") /\ UNCHANGED temp
       ELSE Return(e, "failed")
  /\ UNCHANGED <<path, lastId, outside, wish, info, before, backups, raced, lost>>

\* The second os.ReadFile finds the content that was edited.
Compare(e) ==
  /\ pc[e] = "compare"
  /\ IF Exists(path.id) /\ path.data = before[e]
       THEN Goto(e, "backup") /\ UNCHANGED temp
       ELSE Return(e, "failed")
  /\ UNCHANGED <<path, lastId, outside, wish, info, before, backups, raced, lost>>

\* As Backup, but an error while writing the backup is ignored.
BackupOrNot(e) ==
  /\ pc[e] = "backup"
  /\ Goto(e, "publish")
  /\ backups' \in {backups, backups \cup {before[e]}}
  /\ UNCHANGED <<path, lastId, outside, wish, info, before, temp, raced, lost>>

\* The backup of what was read is written in full before anything else.
Backup(e) ==
  /\ pc[e] = "backup"
  /\ backups' = backups \cup {before[e]}
  /\ Goto(e, "publish")
  /\ UNCHANGED <<path, lastId, outside, wish, info, before, temp, raced, lost>>

\* As PublishReplacing, but an existing file is opened and written in place.
RewriteInPlace(e) ==
  /\ pc[e] = "publish" /\ Exists(info[e])
  /\ Put([id |-> path.id, data |-> Torn], Editors \ {e})
  /\ Return(e, "done")
  /\ UNCHANGED <<lastId, outside, wish, info, before, backups, lost>>

\* os.Rename over the existing file.
PublishReplacing(e) ==
  /\ pc[e] = "publish" /\ Exists(info[e])
  /\ lastId' = lastId + 1
  /\ Put([id |-> lastId', data |-> temp[e]], Editors \ {e})
  /\ lost' = Replaced(e)
  /\ Return(e, "done")
  /\ UNCHANGED <<outside, wish, info, before, backups>>

\* os.Link, which fails if a file has appeared.
PublishNew(e) ==
  /\ pc[e] = "publish" /\ ~ Exists(info[e])
  /\ \/ /\ ~ Exists(path.id)
        /\ lastId' = lastId + 1
        /\ Put([id |-> lastId', data |-> temp[e]], Editors \ {e})
        /\ Return(e, "done")
     \/ /\ Exists(path.id)
        /\ Return(e, "failed") /\ UNCHANGED <<path, raced, lastId>>
  /\ lost' = IF path' = path THEN lost ELSE Replaced(e)
  /\ UNCHANGED <<outside, wish, info, before, backups>>

-----------------------------------------------------------------------------
\* An access to the file system fails, or finds the file gone.
AccessFails(e) ==
  /\ pc[e] \notin {"done", "failed", "killed"}
  /\ Return(e, "failed")
  /\ UNCHANGED <<path, lastId, outside, wish, info, before, backups, raced, lost>>

\* The process is killed: nothing deferred runs.
Killed(e) ==
  /\ pc[e] \notin {"done", "failed", "killed"}
  /\ Goto(e, "killed")
  /\ UNCHANGED <<path, lastId, outside, wish, info, before, temp, backups, raced, lost>>

\* Another program writes a configuration of its own, in place or as a new
\* file, or removes the file.
OutsideWrite ==
  /\ outside < MaxOutside
  /\ outside' = outside + 1
  /\ \/ \E c \in Configs :
          \/ Exists(path.id) /\ c # path.data /\ Put([path EXCEPT !.data = c], Editors) /\ UNCHANGED lastId
          \/ lastId' = lastId + 1 /\ Put([id |-> lastId', data |-> c], Editors)
     \/ Exists(path.id) /\ Put(Missing, Editors) /\ UNCHANGED lastId
  /\ UNCHANGED <<pc, wish, info, before, temp, backups, lost>>

-----------------------------------------------------------------------------
\* The empty configuration {"version": 2} stands for a missing file.
Empty == [networks |-> CHOOSE n \in Networks : TRUE, proxy |-> NoProxy]

Init ==
  /\ path \in {Missing} \cup {[id |-> 1, data |-> c] : c \in Configs}
  /\ lastId = 1 /\ outside = 0
  /\ pc = [e \in Editors |-> "stat"]
  /\ wish \in [Editors -> Addresses \cup {NoProxy, "status"}]
  /\ info = [e \in Editors |-> None]
  /\ before = [e \in Editors |-> Empty]
  /\ temp = [e \in Editors |-> Absent]
  /\ backups = {} /\ raced = {} /\ lost = {}

Step(e) ==
  \/ Stat(e) \/ Read(e) \/ Decide(e) \/ WriteTemp(e) \/ Check(e) \/ Compare(e) \/ Backup(e)
  \/ PublishReplacing(e) \/ PublishNew(e)

Next == (\E e \in Editors : Step(e) \/ AccessFails(e) \/ Killed(e)) \/ OutsideWrite

Spec == Init /\ [][Next]_vars

-----------------------------------------------------------------------------
(* Properties *)

(* Whenever a client may load it, and wherever an editor is killed, the     *)
(* file is a complete configuration or missing.                             *)
PathNeverTorn == Exists(path.id) => path.data \in Configs

(* A content that was replaced by another has a complete backup, unless the *)
(* file changed after the editor had compared it (see ReplacedHasBackup);   *)
(* and an editor that found no file replaces none, raced or not.            *)
LossOnlyInWindow ==
  \A l \in lost : (l.by \in raced /\ Exists(info[l.by])) \/ l.data \in backups

(* "Existing networks and relative client-identity paths are preserved.     *)
(* Changed existing configurations get a backup." (docs/DEEP-PROXY.md):     *)
(* every content that an editor replaces has a backup.                      *)
ReplacedHasBackup == \A l \in lost : l.data \in backups
=============================================================================
