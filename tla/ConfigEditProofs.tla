-------------------------- MODULE ConfigEditProofs --------------------------
(***************************************************************************)
(* Proofs about ConfigEdit, for any number of editors, any sets of proxy   *)
(* addresses and configurations, and any number of writes by others.       *)
(***************************************************************************)
EXTENDS ConfigEdit, TLAPS

Labels == {"stat", "read", "decide", "write", "check", "compare", "backup", "publish",
           "done", "failed", "killed"}

TypeOK ==
  /\ path \in [id : Nat, data : Configs \cup {Absent}]
  /\ lastId \in Nat /\ outside \in 0..MaxOutside
  /\ pc \in [Editors -> Labels]
  /\ wish \in [Editors -> Addresses \cup {NoProxy, "status"}]
  /\ info \in [Editors -> Nat]
  /\ before \in [Editors -> Configs]
  /\ temp \in [Editors -> Configs \cup {Absent, Torn}]
  /\ backups \subseteq Configs
  /\ raced \subseteq Editors
  /\ lost \subseteq [by : Editors, data : Configs]

(* Whoever goes on to write has something to set, and the temporary file is *)
(* complete from then on.                                                   *)
TempInv ==
  \A e \in Editors :
    /\ pc[e] = "write" => wish[e] \in Addresses \cup {NoProxy}
    /\ pc[e] \in {"check", "compare", "backup", "publish"} => temp[e] \in Configs

(* An editor past its comparison whose file has not changed since is about  *)
(* to replace what it read, and publishes only with a backup of it.         *)
WindowInv ==
  \A e \in Editors \ raced :
    /\ pc[e] = "backup" => path.data = before[e]
    /\ pc[e] = "publish" /\ Exists(info[e]) => path.data = before[e] /\ before[e] \in backups

(* Whoever replaced something is done, so what it found stays on record. *)
LostInv == \A l \in lost : pc[l.by] = "done"

IndInv == TypeOK /\ PathNeverTorn /\ TempInv /\ WindowInv /\ LostInv /\ LossOnlyInWindow

-----------------------------------------------------------------------------
(* Editing the proxy of a configuration gives a configuration. *)
LEMMA EditedIsConfig ==
  ASSUME NEW e \in Editors, before[e] \in Configs, wish[e] \in Addresses \cup {NoProxy}
  PROVE  Edited(e) \in Configs
BY DEF Edited, Configs

(* What stands for a missing file is a configuration. *)
LEMMA EmptyIsConfig == Empty \in Configs
<1>1. (CHOOSE n \in Networks : TRUE) \in Networks
  BY EditAssumption
<1> QED
  BY <1>1 DEF Empty, Configs

(* The invariant holds before any editor starts. *)
LEMMA InitInv == Init => IndInv
<1> SUFFICES ASSUME Init PROVE IndInv
  OBVIOUS
<1>1. path \in [id : Nat, data : Configs \cup {Absent}] /\ PathNeverTorn
  BY DEF Init, Missing, None, Exists, PathNeverTorn
<1>2. TypeOK
  BY <1>1, EmptyIsConfig, EditAssumption DEF Init, TypeOK, Labels, None
<1>3. TempInv /\ WindowInv /\ LostInv /\ LossOnlyInWindow
  BY DEF Init, TempInv, WindowInv, LostInv, LossOnlyInWindow
<1> QED
  BY <1>1, <1>2, <1>3 DEF IndInv

(* The first look at the file changes nothing. *)
LEMMA StatInv ==
  ASSUME IndInv, NEW e \in Editors, Stat(e)
  PROVE  IndInv'
<1> USE DEF Stat, Goto, Return, Exists, None, IndInv
<1>1. TypeOK'
  BY DEF TypeOK, Labels
<1>2. PathNeverTorn'
  BY DEF PathNeverTorn
<1>3. TempInv'
  BY DEF TempInv, TypeOK
<1>4. WindowInv'
  BY DEF WindowInv, TypeOK
<1>5. LostInv' /\ LossOnlyInWindow'
  BY DEF LostInv, LossOnlyInWindow, TypeOK
<1> QED
  BY <1>1, <1>2, <1>3, <1>4, <1>5

(* What is read is what is at the path, a whole configuration. *)
LEMMA ReadInv ==
  ASSUME IndInv, NEW e \in Editors, Read(e)
  PROVE  IndInv'
<1> USE DEF Read, Goto, Return, Exists, None, IndInv
<1>1. TypeOK'
  BY DEF PathNeverTorn, TypeOK, Labels
<1>2. PathNeverTorn'
  BY DEF PathNeverTorn
<1>3. TempInv'
  BY DEF TempInv, TypeOK
<1>4. WindowInv'
  BY DEF WindowInv, TypeOK
<1>5. LostInv' /\ LossOnlyInWindow'
  BY DEF LostInv, LossOnlyInWindow, TypeOK
<1> QED
  BY <1>1, <1>2, <1>3, <1>4, <1>5

(* Only a proxy that is to change leads on to the temporary file. *)
LEMMA DecideInv ==
  ASSUME IndInv, NEW e \in Editors, Decide(e)
  PROVE  IndInv'
<1> USE DEF Decide, Goto, Return, Exists, None, IndInv
<1>1. TypeOK'
  BY DEF TypeOK, Labels
<1>2. PathNeverTorn'
  BY DEF PathNeverTorn
<1>3. TempInv'
  BY DEF TempInv, TypeOK
<1>4. WindowInv'
  BY DEF WindowInv, TypeOK
<1>5. LostInv' /\ LossOnlyInWindow'
  BY DEF LostInv, LossOnlyInWindow, TypeOK
<1> QED
  BY <1>1, <1>2, <1>3, <1>4, <1>5

(* The temporary file is complete before anything else is looked at. *)
LEMMA WriteTempInv ==
  ASSUME IndInv, NEW e \in Editors, WriteTemp(e)
  PROVE  IndInv'
<1> USE DEF WriteTemp, Goto, Return, Exists, None, IndInv
<1>e. Edited(e) \in Configs
  BY EditedIsConfig DEF TypeOK, TempInv
<1>1. TypeOK'
  BY <1>e DEF TypeOK, Labels
<1>2. PathNeverTorn'
  BY DEF PathNeverTorn
<1>3. TempInv'
  BY <1>e DEF TempInv, TypeOK
<1>4. WindowInv'
  BY DEF WindowInv, TypeOK
<1>5. LostInv' /\ LossOnlyInWindow'
  BY DEF LostInv, LossOnlyInWindow, TypeOK
<1> QED
  BY <1>1, <1>2, <1>3, <1>4, <1>5

(* The second look at the file changes nothing. *)
LEMMA CheckInv ==
  ASSUME IndInv, NEW e \in Editors, Check(e)
  PROVE  IndInv'
<1> USE DEF Check, Goto, Return, Exists, None, IndInv
<1>1. TypeOK'
  BY DEF TypeOK, Labels
<1>2. PathNeverTorn'
  BY DEF PathNeverTorn
<1>3. TempInv'
  BY DEF TempInv, TypeOK
<1>4. WindowInv'
  BY DEF WindowInv, TypeOK
<1>5. LostInv' /\ LossOnlyInWindow'
  BY DEF LostInv, LossOnlyInWindow, TypeOK
<1> QED
  BY <1>1, <1>2, <1>3, <1>4, <1>5

(* The comparison opens the window in which a change would go unseen. *)
LEMMA CompareInv ==
  ASSUME IndInv, NEW e \in Editors, Compare(e)
  PROVE  IndInv'
<1> USE DEF Compare, Goto, Return, Exists, None, IndInv
<1>1. TypeOK'
  BY DEF TypeOK, Labels
<1>2. PathNeverTorn'
  BY DEF PathNeverTorn
<1>3. TempInv'
  BY DEF TempInv, TypeOK
<1>4. WindowInv'
  BY DEF WindowInv, TypeOK
<1>5. LostInv' /\ LossOnlyInWindow'
  BY DEF LostInv, LossOnlyInWindow, TypeOK
<1> QED
  BY <1>1, <1>2, <1>3, <1>4, <1>5

(* The backup of what was read is complete before the file is replaced. *)
LEMMA BackupInv ==
  ASSUME IndInv, NEW e \in Editors, Backup(e)
  PROVE  IndInv'
<1> USE DEF Backup, Goto, Return, Exists, None, IndInv
<1>1. TypeOK'
  BY DEF TypeOK, Labels
<1>2. PathNeverTorn'
  BY DEF PathNeverTorn
<1>3. TempInv'
  BY DEF TempInv, TypeOK
<1>4. WindowInv'
  BY DEF WindowInv, TypeOK
<1>5. LostInv' /\ LossOnlyInWindow'
  BY DEF LostInv, LossOnlyInWindow, TypeOK
<1> QED
  BY <1>1, <1>2, <1>3, <1>4, <1>5

(* A failed access ends the editor with nothing replaced. *)
LEMMA AccessFailsInv ==
  ASSUME IndInv, NEW e \in Editors, AccessFails(e)
  PROVE  IndInv'
<1> USE DEF AccessFails, Goto, Return, Exists, None, IndInv
<1>1. TypeOK'
  BY DEF TypeOK, Labels
<1>2. PathNeverTorn'
  BY DEF PathNeverTorn
<1>3. TempInv'
  BY DEF TempInv, TypeOK
<1>4. WindowInv'
  BY DEF WindowInv, TypeOK
<1>5. LostInv' /\ LossOnlyInWindow'
  BY DEF LostInv, LossOnlyInWindow, TypeOK
<1> QED
  BY <1>1, <1>2, <1>3, <1>4, <1>5

(* A killed editor replaces nothing. *)
LEMMA KilledInv ==
  ASSUME IndInv, NEW e \in Editors, Killed(e)
  PROVE  IndInv'
<1> USE DEF Killed, Goto, Return, Exists, None, IndInv
<1>1. TypeOK'
  BY DEF TypeOK, Labels
<1>2. PathNeverTorn'
  BY DEF PathNeverTorn
<1>3. TempInv'
  BY DEF TempInv, TypeOK
<1>4. WindowInv'
  BY DEF WindowInv, TypeOK
<1>5. LostInv' /\ LossOnlyInWindow'
  BY DEF LostInv, LossOnlyInWindow, TypeOK
<1> QED
  BY <1>1, <1>2, <1>3, <1>4, <1>5

(* Renaming the temporary file over the file: what is lost has a backup     *)
(* unless the file changed after the comparison.                            *)
LEMMA PublishReplacingInv ==
  ASSUME IndInv, NEW e \in Editors, PublishReplacing(e)
  PROVE  IndInv'
<1> USE DEF PublishReplacing, Put, Goto, Return, Exists, None, IndInv
<1>1. temp[e] \in Configs /\ path' = [id |-> lastId + 1, data |-> temp[e]]
  BY DEF TempInv
<1>2. lost' \subseteq lost \cup {[by |-> e, data |-> path.data]}
  BY DEF Replaced
<1>3. lost' # lost => path.data \in Configs
  BY DEF Replaced, PathNeverTorn
<1>4. TypeOK'
  BY <1>1, <1>2, <1>3 DEF TypeOK, Labels
<1>5. PathNeverTorn'
  BY <1>1 DEF PathNeverTorn
<1>6. TempInv'
  BY DEF TempInv, TypeOK
<1>7. WindowInv'
  BY DEF WindowInv, TypeOK
<1>8. LostInv'
  BY <1>2 DEF LostInv, TypeOK
<1>9. (e \in raced /\ Exists(info[e])) \/ path.data \in backups
  BY DEF WindowInv, TypeOK
<1>10. LossOnlyInWindow'
  BY <1>2, <1>9 DEF LossOnlyInWindow, TypeOK
<1> QED
  BY <1>4, <1>5, <1>6, <1>7, <1>8, <1>10

(* Linking the temporary file succeeds only where no file is, so nothing is *)
(* lost.                                                                    *)
LEMMA PublishNewInv ==
  ASSUME IndInv, NEW e \in Editors, PublishNew(e)
  PROVE  IndInv'
<1> USE DEF PublishNew, Put, Goto, Return, Exists, None, IndInv
<1>1. temp[e] \in Configs
  BY DEF TempInv
<1>2. lost' = lost
  BY DEF Replaced
<1>3. TypeOK'
  BY <1>1, <1>2 DEF TypeOK, Labels
<1>4. PathNeverTorn'
  BY <1>1 DEF PathNeverTorn, TypeOK
<1>5. TempInv'
  BY DEF TempInv, TypeOK
<1>6. WindowInv'
  BY DEF WindowInv, TypeOK
<1>7. LostInv' /\ LossOnlyInWindow'
  BY <1>2 DEF LostInv, LossOnlyInWindow, TypeOK
<1> QED
  BY <1>3, <1>4, <1>5, <1>6, <1>7

(* Other programs write whole configurations; the editors that have already *)
(* compared do not notice.                                                  *)
LEMMA OutsideWriteInv ==
  ASSUME IndInv, OutsideWrite
  PROVE  IndInv'
<1> USE DEF OutsideWrite, Put, Exists, None, IndInv
<1>1. path' \in [id : Nat, data : Configs \cup {Absent}] /\ lastId' \in Nat /\ PathNeverTorn'
  BY DEF TypeOK, PathNeverTorn, Missing
<1>2. raced' = raced \cup {e \in Editors : pc[e] \in {"backup", "publish"}}
  OBVIOUS
<1>3. TypeOK'
  BY <1>1, <1>2, EditAssumption DEF TypeOK
<1>4. TempInv'
  BY DEF TempInv
<1>5. WindowInv'
  BY <1>2 DEF WindowInv
<1>6. LostInv' /\ LossOnlyInWindow'
  BY <1>2 DEF LostInv, LossOnlyInWindow
<1> QED
  BY <1>1, <1>3, <1>4, <1>5, <1>6

-----------------------------------------------------------------------------
(* Every step keeps the invariant. *)
LEMMA NextInv == IndInv /\ [Next]_vars => IndInv'
<1> SUFFICES ASSUME IndInv, [Next]_vars PROVE IndInv'
  OBVIOUS
<1>1. ASSUME NEW e \in Editors, Step(e) PROVE IndInv'
  BY <1>1, StatInv, ReadInv, DecideInv, WriteTempInv, CheckInv, CompareInv, BackupInv,
     PublishReplacingInv, PublishNewInv DEF Step
<1>2. ASSUME NEW e \in Editors, AccessFails(e) \/ Killed(e) PROVE IndInv'
  BY <1>2, AccessFailsInv, KilledInv
<1>3. CASE OutsideWrite
  BY <1>3, OutsideWriteInv
<1>4. CASE UNCHANGED vars
  BY <1>4 DEF vars, IndInv, TypeOK, PathNeverTorn, TempInv, WindowInv, LostInv,
              LossOnlyInWindow
<1> QED
  BY <1>1, <1>2, <1>3, <1>4 DEF Next

(* The invariant behind the theorems holds in every reachable state. *)
LEMMA Invariance == Spec => []IndInv
BY InitInv, NextInv, PTL DEF Spec

(* For any number of editors and wherever they are killed: the file at the  *)
(* path is missing or a whole configuration (configureProxy).               *)
THEOREM FileNeverTorn == Spec => []PathNeverTorn
BY Invariance, PTL DEF IndInv

(* For any number of editors and of writes by others: what an editor        *)
(* replaced has a backup unless the file changed between its comparison and *)
(* its rename, and an editor that found no file replaces none               *)
(* (configureProxy).                                                         *)
THEOREM LossNeedsTheWindow == Spec => []LossOnlyInWindow
BY Invariance, PTL DEF IndInv
===============================================================================
