---------------------------- MODULE PublishedFiles ----------------------------
(***************************************************************************)
(* The files that two commands publish whole: the output of deep fetch     *)
(* (fetchFile of cmd/deep/main.go), created with a hard link, and the      *)
(* settings of the viewer (cmd/deep/viewer_settings.go), replaced with a   *)
(* rename and read by deep viewer and deep browse.                         *)
(*                                                                         *)
(* The commands run as processes of one user on one output and one         *)
(* settings file.  A process is killed at any point, the power fails, and  *)
(* the user creates or removes files meanwhile.  A file is named after the *)
(* process that created it, so a name is bound to a file the way a         *)
(* directory entry is bound to an inode.                                   *)
(***************************************************************************)
EXTENDS Naturals

CONSTANTS
  Procs,     \* the processes, each runs one command
  Foreign,   \* the file another program creates as the output
  Old,       \* a settings file of earlier, which enables the viewer
  Odd,       \* something that is not a regular file
  Absent     \* no file

ASSUME NamesAssumption ==
  /\ Foreign # Old /\ Foreign # Odd /\ Foreign # Absent
  /\ Old # Odd /\ Old # Absent /\ Odd # Absent
  /\ Procs \cap {Foreign, Old, Odd, Absent} = {}

VARIABLES
  job,       \* the command each process runs
  pc,        \* how far it is
  outcome,   \* what it returned
  temp,      \* its temporary name exists
  data,      \* what its file holds: part of the data, all of it, all on disk
  output,    \* the file under the name --output gives
  settings,  \* the file viewer.json
  fd,        \* the file a reader has open
  gone,      \* history: the downloads the user removed from the output
  seen       \* history: the settings in force since the command began, or
             \* since it replaced them itself

vars == <<job, pc, outcome, temp, data, output, settings, fd, gone, seen>>

Writers == {"enable", "disable"}
\* "read" is deep viewer status, and the check of deep browse.
Jobs    == Writers \cup {"fetch", "read"}

Running(p) == pc[p] \notin {"idle", "done", "killed"}

\* The settings in force with file f as viewer.json: missing means disabled.
InForce(f) ==
  IF f = Odd THEN {}
  ELSE IF f = Old \/ (f \in Procs /\ job[f] = "enable") THEN {"enabled"} ELSE {"disabled"}

Goto(p, l) == pc' = [pc EXCEPT ![p] = l]

\* The command returns r.
Return(p, r) == Goto(p, "done") /\ outcome' = [outcome EXCEPT ![p] = r]

\* viewer.json becomes f while commands run.
SettingsBecome(f) ==
  /\ settings' = f
  /\ seen' = [p \in Procs |-> IF Running(p) THEN seen[p] \cup InForce(f) ELSE seen[p]]

-----------------------------------------------------------------------------
(* fetchFile and writeViewerPreferences: a private file, then its name *)

\* A command starts; its arguments or configuration may be refused, and deep
\* viewer enable needs an installed viewer.
Begin(p, j) ==
  /\ pc[p] = "idle"
  /\ job' = [job EXCEPT ![p] = j]
  /\ \/ Goto(p, IF j \in Writers \cup {"fetch"} THEN "looking" ELSE "reading") /\ UNCHANGED outcome
     \/ Return(p, "error")
  /\ seen' = [seen EXCEPT ![p] = InForce(settings)]
  /\ UNCHANGED <<temp, data, output, settings, fd, gone>>

\* Lstat of the name: fetch wants it free, the settings want no odd file.
Look(p) ==
  /\ pc[p] = "looking"
  /\ \/ /\ IF job[p] = "fetch" THEN output = Absent ELSE settings # Odd
        /\ Goto(p, "creating") /\ UNCHANGED outcome
     \/ Return(p, "error")
  /\ UNCHANGED <<job, temp, data, output, settings, fd, gone, seen>>

\* Faulty variant: the settings are written under their own name.
CreateInPlace(p) ==
  /\ pc[p] = "creating"
  /\ Goto(p, "filling")
  /\ data' = [data EXCEPT ![p] = "part"]
  /\ IF job[p] = "fetch"
     THEN temp' = [temp EXCEPT ![p] = TRUE] /\ UNCHANGED <<settings, seen>>
     ELSE SettingsBecome(p) /\ UNCHANGED temp
  /\ UNCHANGED <<job, outcome, output, fd, gone>>

\* os.CreateTemp.
Create(p) ==
  /\ pc[p] = "creating"
  /\ \/ /\ Goto(p, "filling") /\ UNCHANGED outcome
        /\ temp' = [temp EXCEPT ![p] = TRUE]
        /\ data' = [data EXCEPT ![p] = "part"]
     \/ Return(p, "error") /\ UNCHANGED <<temp, data>>
  /\ UNCHANGED <<job, output, settings, fd, gone, seen>>

\* client.Fetch has verified the transfer, or the settings are written.
Fill(p) ==
  /\ pc[p] = "filling"
  /\ Goto(p, "syncing")
  /\ data' = [data EXCEPT ![p] = "all"]
  /\ UNCHANGED <<job, outcome, temp, output, settings, fd, gone, seen>>

\* Faulty variant: the file is closed without Sync.
CloseOnly(p) ==
  /\ pc[p] = "syncing"
  /\ Goto(p, "publishing")
  /\ UNCHANGED <<job, outcome, temp, data, output, settings, fd, gone, seen>>

\* Sync and Close.
Sync(p) ==
  /\ pc[p] = "syncing"
  /\ Goto(p, "publishing")
  /\ data' = [data EXCEPT ![p] = "durable"]
  /\ UNCHANGED <<job, outcome, temp, output, settings, fd, gone, seen>>

\* Faulty variant: fetch renames like the settings do.
LinkOver(p) ==
  /\ pc[p] = "publishing" /\ job[p] = "fetch"
  /\ output' = p
  /\ Goto(p, "cleaning") /\ outcome' = [outcome EXCEPT ![p] = "ok"]
  /\ UNCHANGED <<job, temp, data, settings, fd, gone, seen>>

\* os.Link publishes the download where no file is.
Link(p) ==
  /\ pc[p] = "publishing" /\ job[p] = "fetch" /\ output = Absent
  /\ output' = p
  /\ Goto(p, "cleaning") /\ outcome' = [outcome EXCEPT ![p] = "ok"]
  /\ UNCHANGED <<job, temp, data, settings, fd, gone, seen>>

\* os.Rename replaces the settings; the command goes on to read them.
Rename(p) ==
  /\ pc[p] = "publishing" /\ job[p] \in Writers
  /\ settings' = p
  /\ seen' = [q \in Procs |-> IF q = p THEN InForce(p)
                              ELSE IF Running(q) THEN seen[q] \cup InForce(p) ELSE seen[q]]
  /\ temp' = [temp EXCEPT ![p] = FALSE]
  /\ Goto(p, "reading")
  /\ UNCHANGED <<job, outcome, data, output, fd, gone>>

\* Any of these steps fails, os.Link because the name is taken.
Fail(p) ==
  /\ pc[p] \in {"filling", "syncing", "publishing"}
  /\ Goto(p, "cleaning") /\ outcome' = [outcome EXCEPT ![p] = "error"]
  /\ UNCHANGED <<job, temp, data, output, settings, fd, gone, seen>>

\* The deferred Close and Remove, whose errors are ignored.  Then a download
\* with --info is "unprinted" if its metadata cannot be written.
RemoveTemp(p) ==
  /\ pc[p] = "cleaning"
  /\ Goto(p, "done")
  /\ temp' \in {temp, [temp EXCEPT ![p] = FALSE]}
  /\ \/ UNCHANGED outcome
     \/ outcome[p] = "ok" /\ outcome' = [outcome EXCEPT ![p] = "unprinted"]
  /\ UNCHANGED <<job, data, output, settings, fd, gone, seen>>

-----------------------------------------------------------------------------
(* readViewerPreferences *)

\* Lstat: a missing file means disabled, an odd one is an error.
ReadLook(p) ==
  /\ pc[p] = "reading"
  /\ \/ settings = Absent /\ Return(p, "disabled")
     \/ settings \notin {Absent, Odd} /\ Goto(p, "opening") /\ UNCHANGED outcome
     \/ Return(p, "error")
  /\ UNCHANGED <<job, temp, data, output, settings, fd, gone, seen>>

ReadOpen(p) ==
  /\ pc[p] = "opening"
  /\ \/ /\ settings # Absent
        /\ fd' = [fd EXCEPT ![p] = settings]
        /\ Goto(p, "decoding") /\ UNCHANGED outcome
     \/ Return(p, "error") /\ UNCHANGED fd
  /\ UNCHANGED <<job, temp, data, output, settings, gone, seen>>

\* The JSON of a whole file is valid, that of a part is not.
ReadDecode(p) ==
  /\ pc[p] = "decoding"
  /\ LET f == fd[p]
     IN  IF f \in Procs /\ data[f] = "part" THEN Return(p, "invalid")
         ELSE \E v \in InForce(f) : Return(p, v)
  /\ fd' = [fd EXCEPT ![p] = Absent]
  /\ UNCHANGED <<job, temp, data, output, settings, gone, seen>>

-----------------------------------------------------------------------------
(* The surroundings *)

Kill(p) ==
  /\ Running(p)
  /\ Goto(p, "killed")
  /\ UNCHANGED <<job, outcome, temp, data, output, settings, fd, gone, seen>>

\* The power fails: the processes end, and data that was not synced may be
\* lost.  Names stay bound as they were: the file system keeps its directories
\* in order, and one that loses the latest change of a name gives a state in
\* which the command was killed earlier.
PowerFails ==
  /\ \E p \in Procs : Running(p)
  /\ pc' = [p \in Procs |-> IF Running(p) THEN "killed" ELSE pc[p]]
  /\ \E lost \in SUBSET {p \in Procs : data[p] = "all"} :
       data' = [p \in Procs |-> IF p \in lost THEN "part" ELSE data[p]]
  /\ UNCHANGED <<job, outcome, temp, output, settings, fd, gone, seen>>

\* Another program creates the output, or the user removes it.
OutputChanges ==
  /\ \/ output = Absent /\ output' = Foreign /\ UNCHANGED gone
     \/ output # Absent /\ output' = Absent /\ gone' = gone \cup ({output} \cap Procs)
  /\ UNCHANGED <<job, pc, outcome, temp, data, settings, fd, seen>>

\* The user removes the settings.
SettingsRemoved ==
  /\ settings \notin {Absent, Odd}
  /\ SettingsBecome(Absent)
  /\ UNCHANGED <<job, pc, outcome, temp, data, output, fd, gone>>

Finished == (\A p \in Procs : pc[p] \in {"done", "killed"}) /\ UNCHANGED vars

Init ==
  /\ job = [p \in Procs |-> "read"]
  /\ pc = [p \in Procs |-> "idle"]
  /\ outcome = [p \in Procs |-> "none"]
  /\ temp = [p \in Procs |-> FALSE]
  /\ data = [p \in Procs |-> "part"]
  /\ output = Absent
  /\ settings \in {Absent, Old, Odd}
  /\ fd = [p \in Procs |-> Absent]
  /\ gone = {}
  /\ seen = [p \in Procs |-> {}]

Step(p) ==
  \/ Look(p) \/ Create(p) \/ Fill(p) \/ Sync(p) \/ Link(p) \/ Rename(p) \/ Fail(p)
  \/ RemoveTemp(p) \/ ReadLook(p) \/ ReadOpen(p) \/ ReadDecode(p)

Next ==
  \/ \E p \in Procs : (\E j \in Jobs : Begin(p, j)) \/ Step(p) \/ Kill(p)
  \/ PowerFails \/ OutputChanges \/ SettingsRemoved
  \/ Finished

Spec == Init /\ [][Next]_vars

-----------------------------------------------------------------------------
(* Properties *)

(* "Keep partial transfers private" and "an interrupted toggle cannot leave *)
(* half-written JSON": what is found under the two names is complete and on *)
(* disk, even when a command was killed or the power failed at any point.   *)
PublishedWhole ==
  \A p \in Procs : p \in {output, settings} => data[p] = "durable"

(* "A hard link publishes the completed file without any overwrite race":   *)
(* a file under the output's name stays until the user removes it, however  *)
(* many downloads and other programs race for the name.                     *)
OutputKept == [][output # Absent /\ output' # output => output' = Absent]_vars

(* What a command reports is true.  A download that reports success is the  *)
(* output, unless the user removed it since, and one that reports an error  *)
(* is not, but for the error of printing --info, which comes after the      *)
(* download is complete.  The viewer's commands report settings that were   *)
(* in force at some moment of the call; enable and disable report their own *)
(* unless they were replaced meanwhile; and nobody ever reads half a file.  *)
ReportsTrue ==
  \A p \in Procs :
    /\ job[p] = "fetch" /\ outcome[p] \in {"ok", "unprinted"} => output = p \/ p \in gone
    /\ job[p] = "fetch" /\ outcome[p] = "error" => output # p
    /\ outcome[p] # "invalid"
    /\ outcome[p] \in {"enabled", "disabled"} => outcome[p] \in seen[p]
=============================================================================
