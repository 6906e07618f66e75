------------------------- MODULE PublishedFilesProofs -------------------------
(***************************************************************************)
(* Proofs about PublishedFiles, for any set of processes: what is found    *)
(* under the two names is whole, a download is never overwritten, and what *)
(* the commands report is true.                                            *)
(***************************************************************************)
EXTENDS PublishedFiles, TLAPS

Writing  == {"looking", "creating", "filling", "syncing", "publishing"}
Reading  == {"reading", "opening", "decoding"}
Labels   == {"idle", "cleaning", "done", "killed"} \cup Writing \cup Reading
Values   == {"enabled", "disabled"}
Outcomes == {"none", "ok", "unprinted", "error", "invalid"} \cup Values
Found    == Procs \cup {Old, Odd, Absent}

TypeOK ==
  /\ job \in [Procs -> Jobs]
  /\ pc \in [Procs -> Labels]
  /\ outcome \in [Procs -> Outcomes]
  /\ data \in [Procs -> {"part", "all", "durable"}]
  /\ output \in Procs \cup {Foreign, Absent}
  /\ settings \in Found
  /\ fd \in [Procs -> Found]
  /\ gone \subseteq Procs
  /\ seen \in [Procs -> SUBSET Values]

(* A command has a result once it returns or cleans up, "ok" is a word of   *)
(* fetch only, and whoever is about to publish has its data on disk.        *)
Stages ==
  \A p \in Procs :
    /\ outcome[p] # "none" => pc[p] \in {"cleaning", "done", "killed"}
    /\ pc[p] = "cleaning" => outcome[p] # "none"
    /\ pc[p] \in Reading => job[p] # "fetch"
    /\ pc[p] = "publishing" => data[p] = "durable"
    /\ outcome[p] # "invalid"

\* p has been the output.
Linked(p) == output = p \/ p \in gone

(* The downloads that were ever the output are the ones that report so, and *)
(* they have been synced.                                                   *)
LinkedInv ==
  \A p \in Procs :
    /\ Linked(p) <=> outcome[p] \in {"ok", "unprinted"}
    /\ Linked(p) => job[p] = "fetch" /\ data[p] = "durable"

(* A file that is, or was when it was opened, viewer.json was written by a  *)
(* command that has synced it and moved on.                                 *)
Renamed(p) == p \in Procs /\ pc[p] \in Reading \cup {"done", "killed"} /\ data[p] = "durable"
RenamedInv ==
  /\ settings \in Procs => Renamed(settings)
  /\ \A p \in Procs : fd[p] \in Procs => Renamed(fd[p])

(* What a running command has seen includes the settings in force now and   *)
(* the ones of the file it has opened, and a report is of settings seen.    *)
SeenInv ==
  \A p \in Procs :
    /\ Running(p) => InForce(settings) \subseteq seen[p]
    /\ pc[p] = "decoding" => InForce(fd[p]) \subseteq seen[p]
    /\ outcome[p] \in Values => outcome[p] \in seen[p]

IndInv == TypeOK /\ Stages /\ LinkedInv /\ RenamedInv /\ SeenInv

-----------------------------------------------------------------------------
(* What a settings file means depends on the command that wrote it only.    *)
LEMMA InForceKept ==
  ASSUME job' = job, NEW f
  PROVE  InForce(f)' = InForce(f)
BY DEF InForce

(* The settings in force are one value, or none if the file is odd. *)
LEMMA InForceValues ==
  ASSUME NEW f
  PROVE  InForce(f) \subseteq Values
BY DEF InForce, Values

(* The invariant holds before any command starts. *)
LEMMA InitInv == Init => IndInv
<1> SUFFICES ASSUME Init PROVE IndInv
  OBVIOUS
<1>1. TypeOK
  BY DEF Init, TypeOK, Jobs, Writers, Labels, Outcomes, Found, Values
<1>2. Stages /\ RenamedInv /\ SeenInv
  BY NamesAssumption DEF Init, Stages, RenamedInv, SeenInv, Running, Reading, Values
<1>3. LinkedInv
  BY NamesAssumption DEF Init, LinkedInv, Linked
<1> QED
  BY <1>1, <1>2, <1>3 DEF IndInv

(* Looking at the name changes nothing but the stage. *)
LEMMA LookInv ==
  ASSUME IndInv, NEW p \in Procs, Look(p)
  PROVE  IndInv'
<1> USE DEF Look, Goto, Return, IndInv
<1>1. TypeOK'
  BY DEF TypeOK, Labels, Writing, Reading, Outcomes, Values, Found
<1>2. Stages'
  BY DEF Stages, TypeOK, Labels, Writing, Reading, Outcomes, Values, Found
<1>3. LinkedInv'
  BY DEF LinkedInv, Linked, Stages, TypeOK, Labels, Writing, Reading, Outcomes, Values, Found
<1>4. RenamedInv'
  BY DEF RenamedInv, Renamed, TypeOK, Labels, Writing, Reading, Outcomes, Values, Found
<1>5. SeenInv'
  BY InForceKept DEF SeenInv, Running, TypeOK, Labels, Writing, Reading, Outcomes, Values, Found
<1> QED
  BY <1>1, <1>2, <1>3, <1>4, <1>5

(* A temporary file is created under a name of its own. *)
LEMMA CreateInv ==
  ASSUME IndInv, NEW p \in Procs, Create(p)
  PROVE  IndInv'
<1> USE DEF Create, Goto, Return, IndInv
<1>1. TypeOK'
  BY DEF TypeOK, Labels, Writing, Reading, Outcomes, Values, Found
<1>2. Stages'
  BY DEF Stages, TypeOK, Labels, Writing, Reading, Outcomes, Values, Found
<1>3. LinkedInv'
  BY DEF LinkedInv, Linked, Stages, TypeOK, Labels, Writing, Reading, Outcomes, Values, Found
<1>4. RenamedInv'
  BY DEF RenamedInv, Renamed, TypeOK, Labels, Writing, Reading, Outcomes, Values, Found
<1>5. SeenInv'
  BY InForceKept DEF SeenInv, Running, TypeOK, Labels, Writing, Reading, Outcomes, Values, Found
<1> QED
  BY <1>1, <1>2, <1>3, <1>4, <1>5

(* The data is written to the temporary file. *)
LEMMA FillInv ==
  ASSUME IndInv, NEW p \in Procs, Fill(p)
  PROVE  IndInv'
<1> USE DEF Fill, Goto, Return, IndInv
<1>1. TypeOK'
  BY DEF TypeOK, Labels, Writing, Reading, Outcomes, Values, Found
<1>2. Stages'
  BY DEF Stages, TypeOK, Labels, Writing, Reading, Outcomes, Values, Found
<1>3. LinkedInv'
  BY DEF LinkedInv, Linked, Stages, TypeOK, Labels, Writing, Reading, Outcomes, Values, Found
<1>4. RenamedInv'
  BY DEF RenamedInv, Renamed, TypeOK, Labels, Writing, Reading, Outcomes, Values, Found
<1>5. SeenInv'
  BY InForceKept DEF SeenInv, Running, TypeOK, Labels, Writing, Reading, Outcomes, Values, Found
<1> QED
  BY <1>1, <1>2, <1>3, <1>4, <1>5

(* Sync is what makes the data fit for publishing. *)
LEMMA SyncInv ==
  ASSUME IndInv, NEW p \in Procs, Sync(p)
  PROVE  IndInv'
<1> USE DEF Sync, Goto, Return, IndInv
<1>1. TypeOK'
  BY DEF TypeOK, Labels, Writing, Reading, Outcomes, Values, Found
<1>2. Stages'
  BY DEF Stages, TypeOK, Labels, Writing, Reading, Outcomes, Values, Found
<1>3. LinkedInv'
  BY DEF LinkedInv, Linked, Stages, TypeOK, Labels, Writing, Reading, Outcomes, Values, Found
<1>4. RenamedInv'
  BY DEF RenamedInv, Renamed, TypeOK, Labels, Writing, Reading, Outcomes, Values, Found
<1>5. SeenInv'
  BY InForceKept DEF SeenInv, Running, TypeOK, Labels, Writing, Reading, Outcomes, Values, Found
<1> QED
  BY <1>1, <1>2, <1>3, <1>4, <1>5

(* A step that fails before the name is bound leaves the name alone. *)
LEMMA FailInv ==
  ASSUME IndInv, NEW p \in Procs, Fail(p)
  PROVE  IndInv'
<1> USE DEF Fail, Goto, Return, IndInv
<1>1. TypeOK'
  BY DEF TypeOK, Labels, Writing, Reading, Outcomes, Values, Found
<1>2. Stages'
  BY DEF Stages, TypeOK, Labels, Writing, Reading, Outcomes, Values, Found
<1>3. LinkedInv'
  BY DEF LinkedInv, Linked, Stages, TypeOK, Labels, Writing, Reading, Outcomes, Values, Found
<1>4. RenamedInv'
  BY DEF RenamedInv, Renamed, TypeOK, Labels, Writing, Reading, Outcomes, Values, Found
<1>5. SeenInv'
  BY InForceKept DEF SeenInv, Running, TypeOK, Labels, Writing, Reading, Outcomes, Values, Found
<1> QED
  BY <1>1, <1>2, <1>3, <1>4, <1>5

(* Cleaning up ends the command with the result it has. *)
LEMMA RemoveTempInv ==
  ASSUME IndInv, NEW p \in Procs, RemoveTemp(p)
  PROVE  IndInv'
<1> USE DEF RemoveTemp, Goto, Return, IndInv
<1>1. TypeOK'
  BY DEF TypeOK, Labels, Writing, Reading, Outcomes, Values, Found
<1>2. Stages'
  BY DEF Stages, TypeOK, Labels, Writing, Reading, Outcomes, Values, Found
<1>3. LinkedInv'
  BY DEF LinkedInv, Linked, Stages, TypeOK, Labels, Writing, Reading, Outcomes, Values, Found
<1>4. RenamedInv'
  BY DEF RenamedInv, Renamed, TypeOK, Labels, Writing, Reading, Outcomes, Values, Found
<1>5. SeenInv'
  BY InForceKept DEF SeenInv, Running, TypeOK, Labels, Writing, Reading, Outcomes, Values, Found
<1> QED
  BY <1>1, <1>2, <1>3, <1>4, <1>5

(* A killed process leaves the files as they are. *)
LEMMA KillInv ==
  ASSUME IndInv, NEW p \in Procs, Kill(p)
  PROVE  IndInv'
<1> USE DEF Kill, Goto, Return, IndInv
<1>1. TypeOK'
  BY DEF TypeOK, Labels, Writing, Reading, Outcomes, Values, Found
<1>2. Stages'
  BY DEF Stages, TypeOK, Labels, Writing, Reading, Outcomes, Values, Found
<1>3. LinkedInv'
  BY DEF LinkedInv, Linked, Stages, TypeOK, Labels, Writing, Reading, Outcomes, Values, Found
<1>4. RenamedInv'
  BY DEF RenamedInv, Renamed, TypeOK, Labels, Writing, Reading, Outcomes, Values, Found
<1>5. SeenInv'
  BY InForceKept DEF SeenInv, Running, TypeOK, Labels, Writing, Reading, Outcomes, Values, Found
<1> QED
  BY <1>1, <1>2, <1>3, <1>4, <1>5

-----------------------------------------------------------------------------
(* The steps that bind a name or read through one. *)

(* A command that starts has written nothing: no file depends on its job. *)
LEMMA BeginInv ==
  ASSUME IndInv, NEW p \in Procs, NEW j \in Jobs, Begin(p, j)
  PROVE  IndInv'
<1> USE DEF Begin, Goto, Return, IndInv
<1>a. InForce(settings)' = InForce(settings)
  BY DEF RenamedInv, Renamed, InForce, TypeOK, Labels, Writing, Reading, Outcomes, Values, Found
<1>b. \A q \in Procs : InForce(fd[q])' = InForce(fd[q])
  BY DEF RenamedInv, Renamed, InForce, TypeOK, Labels, Writing, Reading, Outcomes, Values, Found
<1>1. TypeOK'
  BY InForceValues DEF TypeOK, Labels, Writing, Reading, Outcomes, Values, Found
<1>2. Stages'
  BY DEF Stages, TypeOK, Labels, Writing, Reading, Outcomes, Values, Found
<1>3. LinkedInv'
  BY NamesAssumption DEF LinkedInv, Linked, Stages, TypeOK, Labels, Writing, Reading, Outcomes,
       Values, Found
<1>4. RenamedInv'
  BY NamesAssumption DEF RenamedInv, Renamed, Stages, TypeOK, Labels, Writing, Reading,
       Outcomes, Values, Found
<1>5. SeenInv'
  BY <1>a, <1>b, InForceValues DEF SeenInv, Running, Stages, TypeOK, Labels, Writing, Reading,
       Outcomes, Values, Found
<1> QED
  BY <1>1, <1>2, <1>3, <1>4, <1>5

(* The download becomes the output where no file is. *)
LEMMA LinkInv ==
  ASSUME IndInv, NEW p \in Procs, Link(p)
  PROVE  IndInv'
<1> USE DEF Link, Goto, Return, IndInv
<1>1. TypeOK'
  BY DEF TypeOK, Labels, Writing, Reading, Outcomes, Values, Found
<1>2. Stages'
  BY DEF Stages, TypeOK, Labels, Writing, Reading, Outcomes, Values, Found
<1>3. LinkedInv'
  BY NamesAssumption DEF LinkedInv, Linked, Stages, TypeOK, Labels, Writing, Reading, Outcomes,
       Values, Found
<1>4. RenamedInv'
  BY NamesAssumption DEF RenamedInv, Renamed, Stages, TypeOK, Labels, Writing, Reading,
       Outcomes, Values, Found
<1>5. SeenInv'
  BY InForceKept DEF SeenInv, Running, Stages, TypeOK, Labels, Writing, Reading, Outcomes,
       Values, Found
<1> QED
  BY <1>1, <1>2, <1>3, <1>4, <1>5

(* The settings become the synced file of the command, for everyone who runs. *)
LEMMA RenameInv ==
  ASSUME IndInv, NEW p \in Procs, Rename(p)
  PROVE  IndInv'
<1> USE DEF Rename, Goto, Return, IndInv
<1>1. TypeOK'
  BY InForceValues DEF TypeOK, Labels, Writing, Reading, Outcomes, Values, Found
<1>2. Stages'
  BY DEF Writers, Stages, TypeOK, Labels, Writing, Reading, Outcomes, Values, Found
<1>3. LinkedInv'
  BY NamesAssumption DEF LinkedInv, Linked, Stages, TypeOK, Labels, Writing, Reading, Outcomes,
       Values, Found
<1>4. RenamedInv'
  BY NamesAssumption DEF RenamedInv, Renamed, Stages, TypeOK, Labels, Writing, Reading,
       Outcomes, Values, Found
<1>5. SeenInv'
  BY InForceKept, InForceValues DEF SeenInv, Running, Stages, TypeOK, Labels, Writing, Reading,
       Outcomes, Values, Found
<1> QED
  BY <1>1, <1>2, <1>3, <1>4, <1>5

(* A reader that finds no file reports what is in force now. *)
LEMMA ReadLookInv ==
  ASSUME IndInv, NEW p \in Procs, ReadLook(p)
  PROVE  IndInv'
<1> USE DEF ReadLook, Goto, Return, IndInv
<1>a. InForce(Absent) = {"disabled"}
  BY NamesAssumption DEF InForce
<1>1. TypeOK'
  BY DEF TypeOK, Labels, Writing, Reading, Outcomes, Values, Found
<1>2. Stages'
  BY DEF Stages, TypeOK, Labels, Writing, Reading, Outcomes, Values, Found
<1>3. LinkedInv'
  BY NamesAssumption DEF LinkedInv, Linked, Stages, TypeOK, Labels, Writing, Reading, Outcomes,
       Values, Found
<1>4. RenamedInv'
  BY NamesAssumption DEF RenamedInv, Renamed, Stages, TypeOK, Labels, Writing, Reading,
       Outcomes, Values, Found
<1>5. SeenInv'
  BY <1>a, InForceKept DEF SeenInv, Running, Stages, TypeOK, Labels, Writing, Reading, Outcomes,
       Values, Found
<1> QED
  BY <1>1, <1>2, <1>3, <1>4, <1>5

(* A reader opens the file that is in force now. *)
LEMMA ReadOpenInv ==
  ASSUME IndInv, NEW p \in Procs, ReadOpen(p)
  PROVE  IndInv'
<1> USE DEF ReadOpen, Goto, Return, IndInv
<1>1. TypeOK'
  BY DEF TypeOK, Labels, Writing, Reading, Outcomes, Values, Found
<1>2. Stages'
  BY DEF Stages, TypeOK, Labels, Writing, Reading, Outcomes, Values, Found
<1>3. LinkedInv'
  BY NamesAssumption DEF LinkedInv, Linked, Stages, TypeOK, Labels, Writing, Reading, Outcomes,
       Values, Found
<1>4. RenamedInv'
  BY NamesAssumption DEF RenamedInv, Renamed, Stages, TypeOK, Labels, Writing, Reading,
       Outcomes, Values, Found
<1>5. SeenInv'
  BY InForceKept DEF SeenInv, Running, Stages, TypeOK, Labels, Writing, Reading, Outcomes,
       Values, Found
<1> QED
  BY <1>1, <1>2, <1>3, <1>4, <1>5

(* A reader reports the file it has opened, whole though it may be replaced. *)
LEMMA ReadDecodeInv ==
  ASSUME IndInv, NEW p \in Procs, ReadDecode(p)
  PROVE  IndInv'
<1> USE DEF ReadDecode, Goto, Return, IndInv
<1>a. outcome'[p] \in InForce(fd[p]) \cap Values /\ pc'[p] = "done"
  BY InForceValues DEF RenamedInv, Renamed, TypeOK
<1>1. TypeOK'
  BY InForceValues DEF TypeOK, Labels, Writing, Reading, Outcomes, Values, Found
<1>2. Stages'
  BY <1>a DEF Stages, TypeOK, Labels, Writing, Reading, Outcomes, Values, Found
<1>3. LinkedInv'
  BY <1>a, NamesAssumption DEF LinkedInv, Linked, Stages, TypeOK, Labels, Writing, Reading,
       Outcomes, Values, Found
<1>4. RenamedInv'
  BY NamesAssumption DEF RenamedInv, Renamed, Stages, TypeOK, Labels, Writing, Reading,
       Outcomes, Values, Found
<1>5. SeenInv'
  BY <1>a, InForceKept DEF SeenInv, Running, Stages, TypeOK, Labels, Writing, Reading, Outcomes,
       Values, Found
<1> QED
  BY <1>1, <1>2, <1>3, <1>4, <1>5

(* Losing what was not synced cannot touch what is under a name. *)
LEMMA PowerFailsInv ==
  ASSUME IndInv, PowerFails
  PROVE  IndInv'
<1> USE DEF PowerFails, Goto, Return, IndInv
<1>1. TypeOK'
  BY DEF TypeOK, Labels, Writing, Reading, Outcomes, Values, Found
<1>2. Stages'
  BY DEF Stages, TypeOK, Labels, Writing, Reading, Outcomes, Values, Found
<1>3. LinkedInv'
  BY NamesAssumption DEF LinkedInv, Linked, Stages, TypeOK, Labels, Writing, Reading, Outcomes,
       Values, Found
<1>4. RenamedInv'
  BY NamesAssumption DEF RenamedInv, Renamed, Stages, TypeOK, Labels, Writing, Reading,
       Outcomes, Values, Found
<1>5. SeenInv'
  BY InForceKept DEF SeenInv, Running, Stages, TypeOK, Labels, Writing, Reading, Outcomes,
       Values, Found
<1> QED
  BY <1>1, <1>2, <1>3, <1>4, <1>5

(* The user and other programs replace no download by another. *)
LEMMA OutputChangesInv ==
  ASSUME IndInv, OutputChanges
  PROVE  IndInv'
<1> USE DEF OutputChanges, Goto, Return, IndInv
<1>1. TypeOK'
  BY DEF TypeOK, Labels, Writing, Reading, Outcomes, Values, Found
<1>2. Stages'
  BY DEF Stages, TypeOK, Labels, Writing, Reading, Outcomes, Values, Found
<1>3. LinkedInv'
  BY NamesAssumption DEF LinkedInv, Linked, Stages, TypeOK, Labels, Writing, Reading, Outcomes,
       Values, Found
<1>4. RenamedInv'
  BY NamesAssumption DEF RenamedInv, Renamed, Stages, TypeOK, Labels, Writing, Reading,
       Outcomes, Values, Found
<1>5. SeenInv'
  BY InForceKept DEF SeenInv, Running, Stages, TypeOK, Labels, Writing, Reading, Outcomes,
       Values, Found
<1> QED
  BY <1>1, <1>2, <1>3, <1>4, <1>5

(* Removing the settings disables the viewer, for everyone who runs. *)
LEMMA SettingsRemovedInv ==
  ASSUME IndInv, SettingsRemoved
  PROVE  IndInv'
<1> USE DEF SettingsRemoved, Goto, Return, IndInv
<1>1. TypeOK'
  BY InForceValues DEF SettingsBecome, TypeOK, Labels, Writing, Reading, Outcomes, Values, Found
<1>2. Stages'
  BY DEF SettingsBecome, Stages, TypeOK, Labels, Writing, Reading, Outcomes, Values, Found
<1>3. LinkedInv'
  BY NamesAssumption DEF SettingsBecome, LinkedInv, Linked, Stages, TypeOK, Labels, Writing,
       Reading, Outcomes, Values, Found
<1>4. RenamedInv'
  BY NamesAssumption DEF SettingsBecome, RenamedInv, Renamed, Stages, TypeOK, Labels, Writing,
       Reading, Outcomes, Values, Found
<1>5. SeenInv'
  BY InForceKept, InForceValues DEF SettingsBecome, SeenInv, Running, Stages, TypeOK, Labels,
       Writing, Reading, Outcomes, Values, Found
<1> QED
  BY <1>1, <1>2, <1>3, <1>4, <1>5

-----------------------------------------------------------------------------
(* Every step keeps the invariant. *)
LEMMA NextInv == IndInv /\ [Next]_vars => IndInv'
<1> SUFFICES ASSUME IndInv, [Next]_vars PROVE IndInv'
  OBVIOUS
<1>1. ASSUME NEW p \in Procs, NEW j \in Jobs, Begin(p, j) PROVE IndInv'
  BY <1>1, BeginInv
<1>2. ASSUME NEW p \in Procs, Step(p) PROVE IndInv'
  BY <1>2, LookInv, CreateInv, FillInv, SyncInv, LinkInv, RenameInv,
     FailInv, RemoveTempInv, ReadLookInv, ReadOpenInv, ReadDecodeInv DEF Step
<1>3. ASSUME NEW p \in Procs, Kill(p) PROVE IndInv'
  BY <1>3, KillInv
<1>4. CASE PowerFails
  BY <1>4, PowerFailsInv
<1>5. CASE OutputChanges
  BY <1>5, OutputChangesInv
<1>6. CASE SettingsRemoved
  BY <1>6, SettingsRemovedInv
<1>7. CASE UNCHANGED vars
  BY <1>7 DEF vars, IndInv, TypeOK, Stages, LinkedInv, Linked, RenamedInv, Renamed,
              SeenInv, Running, InForce
<1> QED
  BY <1>1, <1>2, <1>3, <1>4, <1>5, <1>6, <1>7 DEF Next, Finished

(* The invariant behind the theorems holds in every reachable state. *)
LEMMA Invariance == Spec => []IndInv
BY InitInv, NextInv, PTL DEF Spec

(* For any number of commands, wherever they are killed and whenever the    *)
(* power fails: the output of deep fetch and viewer.json are complete and   *)
(* on disk (fetchFile, writeViewerPreferences).                             *)
THEOREM FilesPublishedWhole == Spec => []PublishedWhole
<1>1. IndInv => PublishedWhole
  BY DEF IndInv, LinkedInv, Linked, RenamedInv, Renamed, PublishedWhole
<1> QED
  BY <1>1, Invariance, PTL

(* For any number of commands: a download that reports success is the       *)
(* output unless the user removed it, one that reports an error is not, and *)
(* the viewer's commands report settings that were in force during the call *)
(* and that were read whole (fetchFile, readViewerPreferences).             *)
THEOREM CommandsReportTrue == Spec => []ReportsTrue
<1>1. IndInv => ReportsTrue
  BY DEF IndInv, Stages, LinkedInv, Linked, SeenInv, Values, ReportsTrue
<1> QED
  BY <1>1, Invariance, PTL

(* For any number of downloads that race with each other and with other     *)
(* programs: the file under the output's name is only ever removed by the   *)
(* user, never replaced (os.Link in fetchFile).                             *)
THEOREM OutputNeverReplaced == Spec => OutputKept
<1>1. ASSUME [Next]_vars
      PROVE  [output # Absent /\ output' # output => output' = Absent]_vars
  <2>1. ASSUME NEW p \in Procs, (\E j \in Jobs : Begin(p, j)) \/ Kill(p) \/ Step(p)
        PROVE  output # Absent => output' = output
    BY <2>1 DEF Step, Begin, Kill, Look, Create, Fill, Sync, Link, Rename, Fail, RemoveTemp,
         ReadLook, ReadOpen, ReadDecode
  <2>2. PowerFails \/ SettingsRemoved \/ Finished => output' = output
    BY DEF PowerFails, SettingsRemoved, Finished, vars
  <2> QED
    BY <1>1, <2>1, <2>2 DEF Next, OutputChanges, vars
<1> QED
  BY <1>1, PTL DEF Spec, OutputKept
===============================================================================
