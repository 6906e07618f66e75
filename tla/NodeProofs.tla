----------------------------- MODULE NodeProofs -----------------------------
(***************************************************************************)
(* Proofs about a node of the command: its directory (NodeFiles), for any  *)
(* number of runs of init, client-init and serve and of loading clients,   *)
(* and its limits (ServerLimits), for any limits an operator may give.     *)
(***************************************************************************)
EXTENDS NodeFiles, ServerLimits, TLAPS

-----------------------------------------------------------------------------
(* What init writes, and in which order *)

(* A kind is that of a client, or of a node with its two choices. *)
LEMMA KindOfNode ==
  ASSUME NEW k \in Kinds
  PROVE  \/ k.command = "client-init"
         \/ k.command = "init" /\ k.public \in BOOLEAN /\ k.upstream \in BOOLEAN
BY DEF Kinds

(* The plans, place by place. *)
LEMMA PlanOfClient ==
  ASSUME NEW k, k.command = "client-init"
  PROVE  /\ Plan(k) \in Seq(Names) /\ Len(Plan(k)) = 3
         /\ Plan(k)[1] = "client.crt" /\ Plan(k)[2] = "client.key"
         /\ Plan(k)[3] = "identity.json"
BY DEF Plan, Names

(* The plan of a node for known clients that serves files. *)
LEMMA PlanOfPrivateFiles ==
  ASSUME NEW k, k.command # "client-init", ~ k.upstream, ~ k.public
  PROVE  /\ Plan(k) \in Seq(Names) /\ Len(Plan(k)) = 8
         /\ Plan(k)[1] = "content" /\ Plan(k)[2] = "identity.crt" /\ Plan(k)[3] = "identity.key"
         /\ Plan(k)[4] = "index.txt" /\ Plan(k)[5] = "client.crt" /\ Plan(k)[6] = "client.key"
         /\ Plan(k)[7] = "server.json" /\ Plan(k)[8] = "client.json"
BY DEF Plan, Names

(* The plan of a node for everyone that serves files. *)
LEMMA PlanOfPublicFiles ==
  ASSUME NEW k, k.command # "client-init", ~ k.upstream, k.public
  PROVE  /\ Plan(k) \in Seq(Names) /\ Len(Plan(k)) = 6
         /\ Plan(k)[1] = "content" /\ Plan(k)[2] = "identity.crt" /\ Plan(k)[3] = "identity.key"
         /\ Plan(k)[4] = "index.txt" /\ Plan(k)[5] = "server.json" /\ Plan(k)[6] = "client.json"
BY DEF Plan, Names

(* The plan of a node for known clients in front of an application. *)
LEMMA PlanOfPrivateUpstream ==
  ASSUME NEW k, k.command # "client-init", k.upstream, ~ k.public
  PROVE  /\ Plan(k) \in Seq(Names) /\ Len(Plan(k)) = 6
         /\ Plan(k)[1] = "identity.crt" /\ Plan(k)[2] = "identity.key"
         /\ Plan(k)[3] = "client.crt" /\ Plan(k)[4] = "client.key"
         /\ Plan(k)[5] = "server.json" /\ Plan(k)[6] = "client.json"
BY DEF Plan, Names

(* The plan of a node for everyone in front of an application. *)
LEMMA PlanOfPublicUpstream ==
  ASSUME NEW k, k.command # "client-init", k.upstream, k.public
  PROVE  /\ Plan(k) \in Seq(Names) /\ Len(Plan(k)) = 4
         /\ Plan(k)[1] = "identity.crt" /\ Plan(k)[2] = "identity.key"
         /\ Plan(k)[3] = "server.json" /\ Plan(k)[4] = "client.json"
BY DEF Plan, Names

(* A name of the plan comes no later than another one. *)
NoLater(k, n, i) == \E j \in 1 .. i : Plan(k)[j] = n

(* No file is written twice, and a configuration comes after all the files  *)
(* that whoever reads it will load.                                         *)
PlanSound(k) ==
  /\ Plan(k) \in Seq(Names)
  /\ \A i, j \in 1 .. Len(Plan(k)) : Plan(k)[i] = Plan(k)[j] => i = j
  /\ \A i \in 1 .. Len(Plan(k)) :
       Plan(k)[i] = "server.json" =>
         /\ NoLater(k, "identity.crt", i) /\ NoLater(k, "identity.key", i)
         /\ NoLater(k, "server.json", i)
         /\ ~ k.upstream => NoLater(k, "content", i)
  /\ \A i \in 1 .. Len(Plan(k)) :
       Plan(k)[i] = "client.json" /\ ~ k.public =>
         NoLater(k, "client.crt", i) /\ NoLater(k, "client.key", i)

(* Every plan is sound. *)
LEMMA PlanIsSound == ASSUME NEW k \in Kinds PROVE PlanSound(k)
<1>1. CASE k.command = "client-init"
  BY <1>1, PlanOfClient DEF PlanSound
<1>2. CASE k.command # "client-init" /\ ~ k.upstream /\ ~ k.public
  BY <1>2, PlanOfPrivateFiles DEF PlanSound, NoLater
<1>3. CASE k.command # "client-init" /\ ~ k.upstream /\ k.public
  BY <1>3, PlanOfPublicFiles DEF PlanSound, NoLater
<1>4. CASE k.command # "client-init" /\ k.upstream /\ ~ k.public
  BY <1>4, PlanOfPrivateUpstream DEF PlanSound, NoLater
<1>5. CASE k.command # "client-init" /\ k.upstream /\ k.public
  BY <1>5, PlanOfPublicUpstream DEF PlanSound, NoLater
<1> QED
  BY <1>1, <1>2, <1>3, <1>4, <1>5, KindOfNode

-----------------------------------------------------------------------------
(* The inductive invariant *)

TypeInv ==
  /\ owner \in Makers \cup {Nobody}
  /\ files \in [Names -> [by : Makers \cup {Nobody}, whole : BOOLEAN]]
  /\ pc \in [Makers -> {"new", "protect", "writing", "filling", "cleanup", "done", "failed",
                        "killed"}]
  /\ kind \in [Makers -> Kinds]
  /\ written \in [Makers -> Nat]
  /\ lpc \in [Loaders -> {"start", "paths", "cert", "key", "handler", "loaded", "failed",
                          "no port"}]
  /\ config \in [Loaders -> Makers \cup {Nobody}]
  /\ cert \in [Loaders -> Makers \cup {Nobody}]

\* A run that may still report its node as created, or has done so.
Making(m) == pc[m] \in {"writing", "filling", "done"}

\* A run is at work only in a directory it made itself: one run at a time.
OwnerWorks == \A m \in Makers : Working(m) => owner = m

\* All that is in the directory was put there by the run that made it.
FilesOwned ==
  \A n \in Names :
    \/ files[n] = Absent
    \/ files[n].by = owner /\ owner \in Makers /\ pc[owner] \notin {"new", "protect"}

\* How far the count of files can be at each label.
WrittenSoFar(m) ==
  /\ written[m] <= Len(Plan(kind[m]))
  /\ pc[m] = "new" => owner # m
  /\ pc[m] \in {"new", "protect"} => written[m] = 0
  /\ pc[m] = "filling" => written[m] < Len(Plan(kind[m]))
  /\ pc[m] = "done" => written[m] = Len(Plan(kind[m]))

\* Until a run gives up, the first files of its plan are whole, and nothing
\* else is there but the one that it is filling.
InOrder(m) ==
  Making(m) /\ owner = m =>
    /\ \A i \in 1 .. written[m] : Whole(Plan(kind[m])[i], m)
    /\ \A n \in Present :
         \/ \E i \in 1 .. written[m] : n = Plan(kind[m])[i]
         \/ pc[m] = "filling" /\ n = NextName(m) /\ ~ files[n].whole
    /\ pc[m] = "filling" => files[NextName(m)] = [by |-> m, whole |-> FALSE]

MakerInv(m) == WrittenSoFar(m) /\ InOrder(m)

\* What a loader knows of the run whose configuration it read: unless that run
\* fails, the directory is still its own while the loader is at work and the
\* certificate is from it; unless it gives up, the configuration was written
\* as planned, and the loader did not fail.
LoaderInv(l) ==
  /\ lpc[l] = "start" => config[l] = Nobody
  /\ config[l] = Nobody => cert[l] = Nobody /\ lpc[l] \in {"start", "failed"}
  /\ lpc[l] \in {"paths", "handler"} => l \in Servers
  /\ lpc[l] \in {"cert", "key"} /\ l \notin Servers => ~ kind[config[l]].public
  /\ config[l] # Nobody =>
       /\ pc[config[l]] \notin {"new", "protect"}
       /\ Loading(l) /\ pc[config[l]] # "failed" => owner = config[l]
       /\ cert[l] # Nobody /\ pc[config[l]] # "failed" => cert[l] = config[l]
       /\ lpc[l] = "key" /\ Making(config[l]) => cert[l] # Nobody
       /\ Making(config[l]) =>
            \E i \in 1 .. written[config[l]] : Plan(kind[config[l]])[i] = ConfigOf(l)
       /\ lpc[l] = "failed" => ~ Making(config[l])

IndInv ==
  /\ TypeInv /\ OwnerWorks /\ FilesOwned
  /\ \A m \in Makers : MakerInv(m)
  /\ \A l \in Loaders : LoaderInv(l)

USE FilesAssumption

(* A step of a maker, or none at all, as a loader sees it: what a run has   *)
(* written stays counted, none comes back from its end, and its directory   *)
(* stays its own until it fails or no loader is at work.                    *)
MakersMoveOn ==
  /\ UNCHANGED <<kind, loaderVars>>
  /\ \A c \in Makers :
       pc[c] \notin {"new", "protect"} =>
         /\ pc'[c] \notin {"new", "protect"}
         /\ pc'[c] # "failed" => pc[c] # "failed"
         /\ Making(c)' => Making(c) /\ written[c] <= written'[c]
         /\ pc'[c] # "failed" /\ owner = c => owner' = c \/ \A l \in Loaders : ~ Loading(l)

(* What loaders know stays true when the runs they deal with only go on. *)
LEMMA LoadersKept ==
  ASSUME IndInv, TypeInv', MakersMoveOn, NEW l \in Loaders
  PROVE  LoaderInv(l)'
<1>1. LoaderInv(l) /\ UNCHANGED <<kind, lpc, config, cert>>
  BY DEF IndInv, MakersMoveOn, loaderVars
<1>2. CASE config[l] = Nobody
  BY <1>1, <1>2 DEF LoaderInv
<1>3. CASE config[l] # Nobody
  <2> DEFINE c == config[l]
  <2>1. c \in Makers
    BY <1>3 DEF IndInv, TypeInv
  <2>2. /\ pc[c] \notin {"new", "protect"}
        /\ pc'[c] \notin {"new", "protect"}
        /\ pc'[c] # "failed" => pc[c] # "failed"
        /\ Making(c)' => Making(c) /\ written[c] <= written'[c]
        /\ pc'[c] # "failed" /\ owner = c => owner' = c \/ ~ Loading(l)
    BY <1>1, <1>3, <2>1 DEF MakersMoveOn, LoaderInv
  <2>3. written[c] \in Nat /\ written'[c] \in Nat
    BY <2>1 DEF IndInv, TypeInv
  <2>4. Making(c)' => \E i \in 1 .. written'[c] : Plan(kind[c])[i] = ConfigOf(l)
    BY <1>1, <1>3, <2>2, <2>3 DEF LoaderInv
  <2> QED
    BY <1>1, <1>3, <2>2, <2>4 DEF LoaderInv, Loading, Making, ConfigOf
<1> QED
  BY <1>2, <1>3

(* A maker of which nothing changed, while nothing changed in the directory. *)
LEMMA MakerKept ==
  ASSUME NEW m \in Makers, MakerInv(m),
         UNCHANGED <<kind, files>>, pc'[m] = pc[m], written'[m] = written[m],
         owner' = m => owner = m
  PROVE  MakerInv(m)'
BY DEF MakerInv, WrittenSoFar, InOrder, Making, Whole, Present, NextName, Absent

-----------------------------------------------------------------------------
(* Every step keeps the invariant *)

(* How a single maker moves on. *)
LEMMA MakerMovesOn ==
  ASSUME IndInv, NEW m \in Makers, UNCHANGED <<kind, loaderVars>>,
         \A c \in Makers \ {m} : pc'[c] = pc[c] /\ written'[c] = written[c],
         pc[m] \notin {"new", "protect"} =>
           /\ pc[m] # "failed" /\ pc'[m] \notin {"new", "protect"}
           /\ Making(m)' => Making(m) /\ written[m] <= written'[m],
         owner' = owner
           \/ (owner = Nobody /\ owner' = m) \/ (owner = m /\ pc'[m] = "failed")
  PROVE  MakersMoveOn
<1>1. ASSUME NEW c \in Makers, c # m, pc[c] \notin {"new", "protect"}
      PROVE  /\ pc'[c] \notin {"new", "protect"}
             /\ pc'[c] # "failed" => pc[c] # "failed"
             /\ Making(c)' => Making(c) /\ written[c] <= written'[c]
             /\ pc'[c] # "failed" /\ owner = c => owner' = c
  <2>1. pc'[c] = pc[c] /\ written'[c] = written[c] /\ written[c] \in Nat
    BY <1>1 DEF IndInv, TypeInv
  <2> QED
    BY <1>1, <2>1 DEF Making
<1>2. ASSUME pc[m] \notin {"new", "protect"}
      PROVE  pc'[m] # "failed" /\ owner = m => owner' = m
  BY <1>2
<1> QED
  BY <1>1, <1>2 DEF MakersMoveOn

(* os.Mkdir makes its run the owner of an empty directory. *)
LEMMA MakeDirectoryKeeps ==
  ASSUME IndInv, NEW m \in Makers, MakeDirectory(m)
  PROVE  IndInv'
<1>1. TypeInv'
  BY DEF IndInv, TypeInv, MakeDirectory, Goto, loaderVars
<1>2. OwnerWorks'
  BY DEF IndInv, TypeInv, OwnerWorks, Working, MakeDirectory, Goto
<1>3. FilesOwned'
  BY DEF IndInv, FilesOwned, MakeDirectory, Absent
<1>4. ASSUME NEW c \in Makers PROVE MakerInv(c)'
  <2>1. CASE c = m
    BY <2>1 DEF IndInv, TypeInv, MakerInv, WrittenSoFar, InOrder, Making, MakeDirectory, Goto
  <2>2. CASE c # m
    BY <2>2, MakerKept DEF IndInv, TypeInv, MakeDirectory, Goto
  <2> QED
    BY <2>1, <2>2
<1>5. MakersMoveOn
  BY MakerMovesOn DEF IndInv, TypeInv, Making, MakeDirectory, Goto, loaderVars
<1> QED
  BY <1>1, <1>2, <1>3, <1>4, <1>5, LoadersKept DEF IndInv

(* A run that finds the directory gives up. *)
LEMMA DirectoryExistsKeeps ==
  ASSUME IndInv, NEW m \in Makers, DirectoryExists(m)
  PROVE  IndInv'
<1>1. TypeInv'
  BY DEF IndInv, TypeInv, DirectoryExists, Goto, loaderVars
<1>2. OwnerWorks'
  BY DEF IndInv, TypeInv, OwnerWorks, Working, DirectoryExists, Goto
<1>3. FilesOwned'
  BY DEF IndInv, TypeInv, FilesOwned, DirectoryExists, Goto, Absent
<1>4. ASSUME NEW c \in Makers PROVE MakerInv(c)'
  <2>1. CASE c = m
    BY <2>1 DEF IndInv, TypeInv, MakerInv, WrittenSoFar, InOrder, Making, DirectoryExists, Goto
  <2>2. CASE c # m
    BY <2>2, MakerKept DEF IndInv, TypeInv, DirectoryExists, Goto
  <2> QED
    BY <2>1, <2>2
<1>5. MakersMoveOn
  BY MakerMovesOn DEF IndInv, TypeInv, Making, DirectoryExists, Goto, loaderVars
<1> QED
  BY <1>1, <1>2, <1>3, <1>4, <1>5, LoadersKept DEF IndInv

(* Protecting the directory writes no file yet. *)
LEMMA ProtectDirectoryKeeps ==
  ASSUME IndInv, NEW m \in Makers, ProtectDirectory(m)
  PROVE  IndInv'
<1>1. TypeInv'
  BY DEF IndInv, TypeInv, ProtectDirectory, Goto, loaderVars
<1>2. owner = m /\ \A n \in Names : files[n] = Absent
  BY DEF IndInv, OwnerWorks, Working, FilesOwned, ProtectDirectory
<1>3. OwnerWorks'
  BY <1>2 DEF IndInv, TypeInv, OwnerWorks, Working, ProtectDirectory, Goto
<1>4. FilesOwned'
  BY <1>2 DEF FilesOwned, ProtectDirectory, Absent
<1>5. ASSUME NEW c \in Makers PROVE MakerInv(c)'
  <2>1. CASE c = m
    <3>1. written'[m] = 0 /\ pc'[m] \in {"writing", "failed"} /\ kind' = kind /\ files' = files
      BY DEF IndInv, TypeInv, MakerInv, WrittenSoFar, ProtectDirectory, Goto
    <3>2. PlanSound(kind[m])
      BY PlanIsSound DEF IndInv, TypeInv
    <3>3. Len(Plan(kind[m])) \in Nat
      BY <3>2 DEF PlanSound
    <3> QED
      BY <1>2, <2>1, <3>1, <3>3 DEF MakerInv, WrittenSoFar, InOrder, Making, Present
  <2>2. CASE c # m
    BY <1>2, <2>2, MakerKept DEF IndInv, TypeInv, ProtectDirectory, Goto
  <2> QED
    BY <2>1, <2>2
<1>6. MakersMoveOn
  BY <1>2, MakerMovesOn DEF IndInv, TypeInv, Making, ProtectDirectory, Goto, loaderVars
<1> QED
  BY <1>1, <1>3, <1>4, <1>5, <1>6, LoadersKept DEF IndInv

(* A maker other than the one whose directory it is may go on as it was. *)
LEMMA OtherMakerKept ==
  ASSUME NEW m \in Makers, MakerInv(m), UNCHANGED kind,
         pc'[m] = pc[m], written'[m] = written[m], owner' # m
  PROVE  MakerInv(m)'
BY DEF MakerInv, WrittenSoFar, InOrder, Making

(* The place a maker is about to fill. *)
LEMMA NextPlace ==
  ASSUME IndInv, NEW m \in Makers, written[m] < Len(Plan(kind[m]))
  PROVE  /\ written[m] \in Nat /\ Len(Plan(kind[m])) \in Nat
         /\ written[m] + 1 \in 1 .. Len(Plan(kind[m]))
         /\ NextName(m) \in Names
         /\ \A i \in 1 .. written[m] :
              Plan(kind[m])[i] \in Names /\ Plan(kind[m])[i] # NextName(m)
<1>1. PlanSound(kind[m]) /\ written[m] \in Nat
  BY PlanIsSound DEF IndInv, TypeInv
<1> DEFINE p == Plan(kind[m])
<1>2. p \in Seq(Names) /\ Len(p) \in Nat /\ \A i, j \in 1 .. Len(p) : p[i] = p[j] => i = j
  BY <1>1 DEF PlanSound
<1>3. written[m] + 1 \in 1 .. Len(p) /\ \A i \in 1 .. written[m] : i \in 1 .. Len(p)
  BY <1>1, <1>2
<1>4. p[written[m] + 1] \in Names
  BY <1>2, <1>3
<1> HIDE DEF p
<1>5. \A i \in 1 .. written[m] : p[i] \in Names /\ p[i] # p[written[m] + 1]
  BY <1>1, <1>2, <1>3
<1> QED
  BY <1>1, <1>2, <1>3, <1>4, <1>5 DEF NextName, p

(* Files change in one place, which m writes in its own directory. *)
LEMMA OneFileChanges ==
  ASSUME IndInv, NEW m \in Makers, NEW n \in Names, NEW w \in BOOLEAN,
         owner = m, owner' = m, pc[m] \notin {"new", "protect"}, pc'[m] \notin {"new", "protect"},
         files' = [files EXCEPT ![n] = [by |-> m, whole |-> w]]
  PROVE  /\ files' \in [Names -> [by : Makers \cup {Nobody}, whole : BOOLEAN]]
         /\ \A f \in Names : files'[f] = IF f = n THEN [by |-> m, whole |-> w] ELSE files[f]
         /\ FilesOwned'
<1>1. files \in [Names -> [by : Makers \cup {Nobody}, whole : BOOLEAN]]
  BY DEF IndInv, TypeInv
<1>2. [by |-> m, whole |-> w] \in [by : Makers \cup {Nobody}, whole : BOOLEAN]
  OBVIOUS
<1>3. \A f \in Names : files'[f] = IF f = n THEN [by |-> m, whole |-> w] ELSE files[f]
  BY <1>1
<1>4. ASSUME NEW f \in Names PROVE files'[f] = Absent \/ files'[f].by = m
  <2>1. files[f] = Absent \/ files[f].by = m
    BY DEF IndInv, FilesOwned
  <2>2. [by |-> m, whole |-> w].by = m
    OBVIOUS
  <2> QED
    BY <1>3, <2>1, <2>2
<1>5. FilesOwned'
  BY <1>4 DEF FilesOwned, Absent
<1> QED
  BY <1>1, <1>2, <1>3, <1>5

(* The next place of the plan is written, in one go or at last. *)
LEMMA PlaceWritten ==
  ASSUME IndInv, NEW m \in Makers, owner = m, pc[m] \in {"writing", "filling"},
         written[m] < Len(Plan(kind[m])), UNCHANGED kind,
         pc'[m] = "writing", written'[m] = written[m] + 1,
         \A f \in Names :
           files'[f] = IF f = NextName(m) THEN [by |-> m, whole |-> TRUE] ELSE files[f]
  PROVE  MakerInv(m)'
<1> DEFINE p == Plan(kind[m])
           n == NextName(m)
<1>1. /\ written[m] \in Nat /\ Len(p) \in Nat /\ n \in Names
      /\ \A i \in 1 .. written[m] : p[i] \in Names /\ p[i] # n
      /\ n = p[written[m] + 1] /\ written[m] < Len(p)
  BY NextPlace DEF NextName
<1>2. /\ \A i \in 1 .. written[m] : Whole(p[i], m)
      /\ \A f \in Names : files[f] # Absent => f = n \/ \E i \in 1 .. written[m] : f = p[i]
  BY DEF IndInv, MakerInv, InOrder, Making, Present
<1>3. \A f \in Names : files'[f] = IF f = n THEN [by |-> m, whole |-> TRUE] ELSE files[f]
  OBVIOUS
<1> HIDE DEF p, n
<1>4. ASSUME NEW i \in 1 .. written[m] + 1
      PROVE  files'[p[i]] = [by |-> m, whole |-> TRUE]
  <2>1. CASE i = written[m] + 1
    BY <1>1, <1>3, <2>1
  <2>2. CASE i # written[m] + 1
    <3>1. i \in 1 .. written[m]
      BY <1>1, <2>2
    <3> QED
      BY <1>1, <1>2, <1>3, <3>1 DEF Whole
  <2> QED
    BY <2>1, <2>2
<1>5. ASSUME NEW f \in Names, files'[f] # Absent
      PROVE  \E i \in 1 .. written[m] + 1 : f = p[i]
  BY <1>1, <1>2, <1>3, <1>5
<1>6. WrittenSoFar(m)'
  BY <1>1 DEF WrittenSoFar, p
<1>7. InOrder(m)'
  <2>1. Plan(kind'[m]) = p
    BY DEF p
  <2>2. \A i \in 1 .. written'[m] : files'[p[i]] = [by |-> m, whole |-> TRUE]
    BY <1>4
  <2>3. \A f \in Present' : \E i \in 1 .. written'[m] : f = p[i]
    BY <1>5 DEF Present, Absent
  <2> QED
    BY <2>1, <2>2, <2>3 DEF InOrder, Whole
<1> QED
  BY <1>6, <1>7 DEF MakerInv

(* The next place of the plan is taken, and not filled yet. *)
LEMMA PlaceBegun ==
  ASSUME IndInv, NEW m \in Makers, owner = m, pc[m] = "writing",
         written[m] < Len(Plan(kind[m])), UNCHANGED kind,
         pc'[m] = "filling", written'[m] = written[m],
         \A f \in Names :
           files'[f] = IF f = NextName(m) THEN [by |-> m, whole |-> FALSE] ELSE files[f]
  PROVE  MakerInv(m)'
<1> DEFINE p == Plan(kind[m])
           n == NextName(m)
<1>1. /\ written[m] \in Nat /\ Len(p) \in Nat /\ n \in Names
      /\ \A i \in 1 .. written[m] : p[i] \in Names /\ p[i] # n
      /\ n = p[written[m] + 1] /\ written[m] < Len(p)
  BY NextPlace DEF NextName
<1>2. /\ \A i \in 1 .. written[m] : Whole(p[i], m)
      /\ \A f \in Names : files[f] # Absent => \E i \in 1 .. written[m] : f = p[i]
  BY DEF IndInv, MakerInv, InOrder, Making, Present
<1>3. \A f \in Names : files'[f] = IF f = n THEN [by |-> m, whole |-> FALSE] ELSE files[f]
  OBVIOUS
<1>4. NextName(m)' = n
  BY DEF NextName
<1> HIDE DEF p, n
<1>5. ASSUME NEW i \in 1 .. written[m]
      PROVE  files'[p[i]] = [by |-> m, whole |-> TRUE]
  BY <1>1, <1>2, <1>3 DEF Whole
<1>6. ASSUME NEW f \in Names, files'[f] # Absent
      PROVE  \/ \E i \in 1 .. written[m] : f = p[i]
             \/ f = n /\ ~ files'[f].whole
  BY <1>1, <1>2, <1>3, <1>6
<1>7. WrittenSoFar(m)'
  BY <1>1 DEF WrittenSoFar, p
<1>8. InOrder(m)'
  <2>1. Plan(kind'[m]) = p
    BY DEF p
  <2>2. \A i \in 1 .. written'[m] : files'[p[i]] = [by |-> m, whole |-> TRUE]
    BY <1>5
  <2>3. \A f \in Present' : \/ \E i \in 1 .. written'[m] : f = p[i]
                            \/ f = NextName(m)' /\ ~ files'[f].whole
    BY <1>4, <1>6 DEF Present, Absent
  <2>4. files'[NextName(m)'] = [by |-> m, whole |-> FALSE]
    BY <1>1, <1>3, <1>4
  <2> QED
    BY <2>1, <2>2, <2>3, <2>4 DEF InOrder, Whole
<1> QED
  BY <1>7, <1>8 DEF MakerInv

(* A file that is begun is the next one of the plan, and not whole. *)
LEMMA BeginFileKeeps ==
  ASSUME IndInv, NEW m \in Makers, BeginFile(m)
  PROVE  IndInv'
<1>1. /\ owner = m /\ owner' = m /\ UNCHANGED <<kind, loaderVars>>
      /\ pc[m] = "writing" /\ written[m] < Len(Plan(kind[m]))
  BY DEF IndInv, OwnerWorks, Working, BeginFile
<1>2. NextName(m) \in Names /\ written[m] \in Nat
  BY <1>1, NextPlace
<1>3. CASE /\ files' = [files EXCEPT ![NextName(m)] = [by |-> m, whole |-> TRUE]]
           /\ written' = [written EXCEPT ![m] = @ + 1] /\ pc' = pc
  <2>1. /\ pc'[m] = "writing" /\ written'[m] = written[m] + 1
        /\ \A c \in Makers \ {m} : pc'[c] = pc[c] /\ written'[c] = written[c]
        /\ pc' \in [Makers -> {"new", "protect", "writing", "filling", "cleanup", "done", "failed",
                               "killed"}]
        /\ written' \in [Makers -> Nat]
    <3>1. written \in [Makers -> Nat] /\ written' = [written EXCEPT ![m] = @ + 1]
      BY <1>1, <1>2, <1>3 DEF IndInv, TypeInv
    <3>2. /\ written'[m] = written[m] + 1 /\ written' \in [Makers -> Nat]
          /\ \A c \in Makers \ {m} : written'[c] = written[c]
      BY <3>1
    <3> QED
      BY <1>1, <1>2, <1>3, <3>2 DEF IndInv, TypeInv
  <2>2. /\ files' \in [Names -> [by : Makers \cup {Nobody}, whole : BOOLEAN]]
        /\ \A f \in Names :
             files'[f] = IF f = NextName(m) THEN [by |-> m, whole |-> TRUE] ELSE files[f]
        /\ FilesOwned'
    BY <1>1, <1>2, <1>3, <2>1, OneFileChanges
  <2>3. TypeInv'
    BY <1>1, <2>1, <2>2 DEF IndInv, TypeInv, loaderVars
  <2>4. OwnerWorks'
    BY <1>1, <1>3 DEF IndInv, OwnerWorks, Working
  <2>5. ASSUME NEW c \in Makers PROVE MakerInv(c)'
    BY <1>1, <2>1, <2>2, PlaceWritten, OtherMakerKept DEF IndInv
  <2>6. MakersMoveOn
    BY <1>1, <1>2, <2>1, MakerMovesOn DEF Making
  <2> QED
    BY <2>2, <2>3, <2>4, <2>5, <2>6, LoadersKept DEF IndInv
<1>4. CASE /\ files' = [files EXCEPT ![NextName(m)] = [by |-> m, whole |-> FALSE]]
           /\ pc' = [pc EXCEPT ![m] = "filling"] /\ written' = written
  <2>1. /\ pc'[m] = "filling" /\ written'[m] = written[m]
        /\ \A c \in Makers \ {m} : pc'[c] = pc[c] /\ written'[c] = written[c]
        /\ pc' \in [Makers -> {"new", "protect", "writing", "filling", "cleanup", "done", "failed",
                               "killed"}]
        /\ written' \in [Makers -> Nat]
    BY <1>1, <1>2, <1>4 DEF IndInv, TypeInv
  <2>2. /\ files' \in [Names -> [by : Makers \cup {Nobody}, whole : BOOLEAN]]
        /\ \A f \in Names :
             files'[f] = IF f = NextName(m) THEN [by |-> m, whole |-> FALSE] ELSE files[f]
        /\ FilesOwned'
    BY <1>1, <1>2, <1>4, <2>1, OneFileChanges
  <2>3. TypeInv'
    BY <1>1, <2>1, <2>2 DEF IndInv, TypeInv, loaderVars
  <2>4. OwnerWorks'
    BY <1>1, <2>1 DEF IndInv, OwnerWorks, Working
  <2>5. ASSUME NEW c \in Makers PROVE MakerInv(c)'
    BY <1>1, <2>1, <2>2, PlaceBegun, OtherMakerKept DEF IndInv
  <2>6. MakersMoveOn
    BY <1>1, <1>2, <2>1, MakerMovesOn DEF Making
  <2> QED
    BY <2>2, <2>3, <2>4, <2>5, <2>6, LoadersKept DEF IndInv
<1> QED
  BY <1>3, <1>4 DEF BeginFile, Goto

(* Of a maker that is giving up, only the count is known. *)
LEMMA MakerGivesUp ==
  ASSUME NEW m \in Makers, MakerInv(m), UNCHANGED kind, written'[m] = written[m],
         pc'[m] \in {"cleanup", "failed", "killed"}
  PROVE  MakerInv(m)'
BY DEF MakerInv, WrittenSoFar, InOrder, Making

(* What a file that was begun is filled to. *)
LEMMA FillingOwnFile ==
  ASSUME IndInv, NEW m \in Makers, pc[m] = "filling"
  PROVE  /\ owner = m /\ written[m] < Len(Plan(kind[m])) /\ NextName(m) \in Names
         /\ files[NextName(m)] = [by |-> m, whole |-> FALSE]
         /\ Filled(m) = [files EXCEPT ![NextName(m)] = [by |-> m, whole |-> TRUE]]
<1>1. /\ owner = m /\ written[m] < Len(Plan(kind[m]))
      /\ files[NextName(m)] = [by |-> m, whole |-> FALSE]
  BY DEF IndInv, OwnerWorks, Working, MakerInv, WrittenSoFar, InOrder, Making
<1> DEFINE f == files[NextName(m)]
           b == f.whole \/ f.by = m
<1>2. f = [by |-> m, whole |-> FALSE] /\ b = TRUE
  BY <1>1
<1>3. ASSUME NEW r \in [by : {m}, whole : BOOLEAN], NEW x \in BOOLEAN
      PROVE  [r EXCEPT !.whole = x] = [by |-> r.by, whole |-> x]
  OBVIOUS
<1>4. f \in [by : {m}, whole : BOOLEAN] /\ f.by = m
  BY <1>2
<1>5. [f EXCEPT !.whole = b] = [by |-> m, whole |-> TRUE]
  BY <1>2, <1>3, <1>4
<1>6. Filled(m) = [files EXCEPT ![NextName(m)] = [f EXCEPT !.whole = b]]
  BY DEF Filled
<1> QED
  BY <1>1, <1>5, <1>6, NextPlace

(* A file that is finished is whole, and the count goes on to the next. *)
LEMMA FinishFileKeeps ==
  ASSUME IndInv, NEW m \in Makers, FinishFile(m)
  PROVE  IndInv'
<1>1. pc[m] = "filling" /\ owner' = owner /\ UNCHANGED <<kind, loaderVars>>
  BY DEF FinishFile
<1>2. /\ owner = m /\ owner' = m /\ written[m] < Len(Plan(kind[m])) /\ NextName(m) \in Names
      /\ Filled(m) = [files EXCEPT ![NextName(m)] = [by |-> m, whole |-> TRUE]]
  BY <1>1, FillingOwnFile
<1>3. written[m] \in Nat
  BY <1>2, NextPlace
<1>4. /\ files' = [files EXCEPT ![NextName(m)] = [by |-> m, whole |-> TRUE]]
      /\ written' = [written EXCEPT ![m] = @ + 1] /\ pc' = [pc EXCEPT ![m] = "writing"]
  BY <1>2 DEF FinishFile, Goto
<1>5. /\ pc'[m] = "writing" /\ written'[m] = written[m] + 1
      /\ \A c \in Makers \ {m} : pc'[c] = pc[c] /\ written'[c] = written[c]
      /\ pc' \in [Makers -> {"new", "protect", "writing", "filling", "cleanup", "done", "failed",
                             "killed"}]
      /\ written' \in [Makers -> Nat]
  <2>1. written \in [Makers -> Nat] /\ written' = [written EXCEPT ![m] = @ + 1]
    BY <1>1, <1>2, <1>3, <1>4 DEF IndInv, TypeInv
  <2>2. /\ written'[m] = written[m] + 1 /\ written' \in [Makers -> Nat]
        /\ \A c \in Makers \ {m} : written'[c] = written[c]
    BY <2>1
  <2> QED
    BY <1>1, <1>2, <1>3, <1>4, <2>2 DEF IndInv, TypeInv
<1>6. /\ files' \in [Names -> [by : Makers \cup {Nobody}, whole : BOOLEAN]]
      /\ \A f \in Names :
           files'[f] = IF f = NextName(m) THEN [by |-> m, whole |-> TRUE] ELSE files[f]
      /\ FilesOwned'
  BY <1>1, <1>2, <1>3, <1>4, <1>5, OneFileChanges
<1>7. TypeInv'
  BY <1>1, <1>2, <1>5, <1>6 DEF IndInv, TypeInv, loaderVars
<1>8. OwnerWorks'
  BY <1>1, <1>2, <1>5 DEF IndInv, OwnerWorks, Working
<1>9. ASSUME NEW c \in Makers PROVE MakerInv(c)'
  BY <1>1, <1>2, <1>5, <1>6, PlaceWritten, OtherMakerKept DEF IndInv
<1>10. MakersMoveOn
  BY <1>1, <1>2, <1>3, <1>5, MakerMovesOn DEF Making
<1> QED
  BY <1>6, <1>7, <1>8, <1>9, <1>10, LoadersKept DEF IndInv

(* A run that fails at a file no longer promises its node. *)
LEMMA FileFailsKeeps ==
  ASSUME IndInv, NEW m \in Makers, FileFails(m)
  PROVE  IndInv'
<1>1. /\ owner = m /\ owner' = m /\ UNCHANGED <<kind, written, loaderVars>>
      /\ pc[m] \in {"writing", "filling"} /\ pc' = [pc EXCEPT ![m] = "cleanup"]
      /\ files' = files \/ (pc[m] = "filling" /\ files' = Filled(m))
  BY DEF IndInv, OwnerWorks, Working, FileFails, Goto
<1>2. /\ pc'[m] = "cleanup" /\ \A c \in Makers \ {m} : pc'[c] = pc[c]
      /\ pc' \in [Makers -> {"new", "protect", "writing", "filling", "cleanup", "done", "failed",
                             "killed"}]
  BY <1>1 DEF IndInv, TypeInv
<1>3. /\ files' \in [Names -> [by : Makers \cup {Nobody}, whole : BOOLEAN]]
      /\ FilesOwned'
  <2>1. CASE files' = files
    <3>1. files' \in [Names -> [by : Makers \cup {Nobody}, whole : BOOLEAN]]
      BY <2>1 DEF IndInv, TypeInv
    <3>2. FilesOwned'
      BY <1>1, <1>2, <2>1 DEF IndInv, FilesOwned, Absent
    <3> QED
      BY <3>1, <3>2
  <2>2. CASE pc[m] = "filling" /\ files' = Filled(m)
    BY <1>1, <1>2, <2>2, FillingOwnFile, OneFileChanges
  <2> QED
    BY <1>1, <2>1, <2>2
<1>4. TypeInv'
  BY <1>1, <1>2, <1>3 DEF IndInv, TypeInv, loaderVars
<1>5. OwnerWorks'
  BY <1>1, <1>2 DEF IndInv, OwnerWorks, Working
<1>6. ASSUME NEW c \in Makers PROVE MakerInv(c)'
  BY <1>1, <1>2, MakerGivesUp, OtherMakerKept DEF IndInv
<1>7. MakersMoveOn
  BY <1>1, <1>2, MakerMovesOn DEF Making
<1> QED
  BY <1>3, <1>4, <1>5, <1>6, <1>7, LoadersKept DEF IndInv

(* A run is complete when all files of its plan are written. *)
LEMMA CompleteKeeps ==
  ASSUME IndInv, NEW m \in Makers, Complete(m)
  PROVE  IndInv'
<1>1. /\ owner = m /\ UNCHANGED <<owner, files, kind, written, loaderVars>>
      /\ pc[m] = "writing" /\ pc' = [pc EXCEPT ![m] = "done"]
      /\ written[m] = Len(Plan(kind[m])) /\ written[m] \in Nat
  BY DEF IndInv, TypeInv, OwnerWorks, Working, Complete, Goto
<1>2. /\ pc'[m] = "done" /\ \A c \in Makers \ {m} : pc'[c] = pc[c]
      /\ pc' \in [Makers -> {"new", "protect", "writing", "filling", "cleanup", "done", "failed",
                             "killed"}]
  BY <1>1 DEF IndInv, TypeInv
<1>3. TypeInv'
  BY <1>1, <1>2 DEF IndInv, TypeInv, loaderVars
<1>4. OwnerWorks'
  BY <1>1, <1>2 DEF IndInv, OwnerWorks, Working
<1>5. FilesOwned'
  BY <1>1, <1>2 DEF IndInv, FilesOwned, Absent
<1>6. ASSUME NEW c \in Makers PROVE MakerInv(c)'
  <2>1. CASE c # m
    BY <1>1, <1>2, <2>1, OtherMakerKept DEF IndInv
  <2>2. MakerInv(m)'
    BY <1>1, <1>2
    DEF IndInv, MakerInv, WrittenSoFar, InOrder, Making, Present, Whole, Absent
  <2> QED
    BY <2>1, <2>2
<1>7. MakersMoveOn
  BY <1>1, <1>2, MakerMovesOn DEF Making
<1> QED
  BY <1>3, <1>4, <1>5, <1>6, <1>7, LoadersKept DEF IndInv

(* A run that is killed leaves its files, and the directory its own. *)
LEMMA KilledKeeps ==
  ASSUME IndInv, NEW m \in Makers, Killed(m)
  PROVE  IndInv'
<1>1. /\ owner = m /\ UNCHANGED <<owner, files, kind, written, loaderVars>>
      /\ pc[m] # "failed" /\ pc' = [pc EXCEPT ![m] = "killed"]
  BY DEF IndInv, OwnerWorks, Working, Killed, Goto
<1>2. /\ pc'[m] = "killed" /\ \A c \in Makers \ {m} : pc'[c] = pc[c]
      /\ pc' \in [Makers -> {"new", "protect", "writing", "filling", "cleanup", "done", "failed",
                             "killed"}]
  BY <1>1 DEF IndInv, TypeInv
<1>3. TypeInv'
  BY <1>1, <1>2 DEF IndInv, TypeInv, loaderVars
<1>4. OwnerWorks'
  BY <1>1, <1>2 DEF IndInv, OwnerWorks, Working
<1>5. FilesOwned'
  BY <1>1, <1>2 DEF IndInv, FilesOwned, Absent
<1>6. ASSUME NEW c \in Makers PROVE MakerInv(c)'
  BY <1>1, <1>2, MakerGivesUp, OtherMakerKept DEF IndInv
<1>7. MakersMoveOn
  BY <1>1, <1>2, MakerMovesOn DEF Making
<1> QED
  BY <1>3, <1>4, <1>5, <1>6, <1>7, LoadersKept DEF IndInv

(* A failed run that cleans up removes its own files only. *)
LEMMA RemoveAllKeeps ==
  ASSUME IndInv, NEW m \in Makers, RemoveAll(m)
  PROVE  IndInv'
<1>1. /\ owner = m /\ pc[m] = "cleanup" /\ UNCHANGED <<kind, written, loaderVars>>
      /\ files \in [Names -> [by : Makers \cup {Nobody}, whole : BOOLEAN]]
  BY DEF IndInv, TypeInv, OwnerWorks, Working, RemoveAll
<1>2. \/ /\ \E n \in Names : files' = [files EXCEPT ![n] = Absent]
         /\ owner' = m /\ pc' = pc
      \/ /\ (\A n \in Names : files[n] = Absent) /\ files' = files
         /\ owner' = Nobody /\ pc' = [pc EXCEPT ![m] = "failed"]
      \/ files' = files /\ owner' = m /\ pc' = [pc EXCEPT ![m] = "failed"]
  BY <1>1 DEF RemoveAll, Present, Goto
<1>3. /\ pc'[m] \in {"cleanup", "failed"} /\ \A c \in Makers \ {m} : pc'[c] = pc[c]
      /\ pc' \in [Makers -> {"new", "protect", "writing", "filling", "cleanup", "done", "failed",
                             "killed"}]
      /\ owner' = m \/ (owner' = Nobody /\ pc'[m] = "failed")
  BY <1>1, <1>2 DEF IndInv, TypeInv
<1>4. files' \in [Names -> [by : Makers \cup {Nobody}, whole : BOOLEAN]]
  <2>1. Absent \in [by : Makers \cup {Nobody}, whole : BOOLEAN]
    BY DEF Absent
  <2> QED
    BY <1>1, <1>2, <2>1
<1>5. TypeInv'
  BY <1>1, <1>3, <1>4 DEF IndInv, TypeInv, loaderVars
<1>6. OwnerWorks'
  BY <1>1, <1>3 DEF IndInv, OwnerWorks, Working
<1>7. FilesOwned'
  <2>1. \A n \in Names : files'[n] = Absent \/ (files'[n] = files[n] /\ owner' = m)
    BY <1>1, <1>2
  <2>2. \A n \in Names : files[n] = Absent \/ files[n].by = m
    BY <1>1 DEF IndInv, FilesOwned
  <2> QED
    BY <1>3, <2>1, <2>2 DEF FilesOwned, Absent
<1>8. ASSUME NEW c \in Makers PROVE MakerInv(c)'
  <2>1. CASE c # m
    BY <1>1, <1>3, <2>1, OtherMakerKept DEF IndInv
  <2>2. MakerInv(m)'
    BY <1>1, <1>3, MakerGivesUp DEF IndInv
  <2> QED
    BY <2>1, <2>2
<1>9. MakersMoveOn
  BY <1>1, <1>3, MakerMovesOn DEF Making
<1> QED
  BY <1>5, <1>6, <1>7, <1>8, <1>9, LoadersKept DEF IndInv

(* The operator removes the directory when nobody is at work in it. *)
LEMMA DiscardKeeps == ASSUME IndInv, Discard PROVE IndInv'
<1>1. /\ owner' = Nobody /\ files' = [n \in Names |-> Absent]
      /\ UNCHANGED <<pc, kind, written, loaderVars>>
      /\ \A m \in Makers : ~ Working(m)
      /\ \A l \in Loaders : ~ Loading(l)
  BY DEF Discard, makerVars
<1>2. TypeInv'
  <2>1. Absent \in [by : Makers \cup {Nobody}, whole : BOOLEAN]
    BY DEF Absent
  <2> QED
    BY <1>1, <2>1 DEF IndInv, TypeInv, loaderVars
<1>3. OwnerWorks'
  BY <1>1 DEF OwnerWorks, Working
<1>4. FilesOwned'
  BY <1>1 DEF FilesOwned, Absent
<1>5. ASSUME NEW c \in Makers PROVE MakerInv(c)'
  BY <1>1, OtherMakerKept DEF IndInv
<1>6. MakersMoveOn
  <2>1. ASSUME NEW c \in Makers PROVE written'[c] = written[c] /\ written[c] \in Nat
    BY <1>1 DEF IndInv, TypeInv
  <2> QED
    BY <1>1, <2>1 DEF MakersMoveOn, Making
<1> QED
  BY <1>2, <1>3, <1>4, <1>5, <1>6, LoadersKept DEF IndInv

(* What a loader reads of a run that is still making or has made its node,  *)
(* in a configuration of it: the files that the configuration needs.        *)
LEMMA NeededFilesWhole ==
  ASSUME IndInv, NEW l \in Loaders, config[l] # Nobody, Making(config[l]), Loading(l)
  PROVE  LET m == config[l]
         IN  /\ m \in Makers /\ owner = m
             /\ l \in Servers =>
                  /\ Whole("identity.crt", m) /\ Whole("identity.key", m) /\ Whole("server.json", m)
                  /\ ~ kind[m].upstream => Whole("content", m)
             /\ l \notin Servers /\ ~ kind[m].public =>
                  Whole("client.crt", m) /\ Whole("client.key", m)
<1> DEFINE m == config[l]
<1>1. m \in Makers /\ LoaderInv(l)
  BY DEF IndInv, TypeInv
<1>2. PlanSound(kind[m]) /\ written[m] \in Nat
  BY <1>1, PlanIsSound DEF IndInv, TypeInv
<1>3. owner = m
  BY <1>1 DEF LoaderInv, Making
<1>4. PICK i \in 1 .. written[m] : Plan(kind[m])[i] = ConfigOf(l)
  BY <1>1 DEF LoaderInv
<1>5. written[m] <= Len(Plan(kind[m])) /\ \A j \in 1 .. written[m] : Whole(Plan(kind[m])[j], m)
  BY <1>1, <1>3 DEF IndInv, MakerInv, WrittenSoFar, InOrder
<1>6. i \in 1 .. Len(Plan(kind[m])) /\ \A j \in 1 .. i : j \in 1 .. written[m]
  <2>1. Len(Plan(kind[m])) \in Nat
    BY <1>2 DEF PlanSound
  <2> QED
    BY <1>2, <1>5, <2>1
<1>7. \A n : NoLater(kind[m], n, i) => Whole(n, m)
  BY <1>5, <1>6 DEF NoLater
<1>8. CASE l \in Servers
  BY <1>1, <1>2, <1>3, <1>4, <1>6, <1>7, <1>8 DEF PlanSound, ConfigOf
<1>9. CASE l \notin Servers
  BY <1>1, <1>2, <1>3, <1>4, <1>6, <1>7, <1>9 DEF PlanSound, ConfigOf
<1> QED
  BY <1>8, <1>9

(* Loaders change nothing but their own state. *)
LEMMA LoaderStep ==
  ASSUME IndInv, NEW l \in Loaders, UNCHANGED <<owner, files, makerVars>>,
         lpc' \in [Loaders -> {"start", "paths", "cert", "key", "handler", "loaded", "failed",
                               "no port"}],
         config' \in [Loaders -> Makers \cup {Nobody}], cert' \in [Loaders -> Makers \cup {Nobody}],
         \A o \in Loaders \ {l} : lpc'[o] = lpc[o] /\ config'[o] = config[o] /\ cert'[o] = cert[o],
         LoaderInv(l)'
  PROVE  IndInv'
<1>1. UNCHANGED <<owner, files, pc, kind, written>>
  BY DEF makerVars
<1>2. TypeInv'
  BY <1>1 DEF IndInv, TypeInv
<1>3. OwnerWorks' /\ FilesOwned'
  BY <1>1 DEF IndInv, OwnerWorks, Working, FilesOwned, Absent
<1>4. ASSUME NEW c \in Makers PROVE MakerInv(c)'
  BY <1>1, MakerKept DEF IndInv
<1>5. ASSUME NEW o \in Loaders, o # l PROVE LoaderInv(o)'
  <2>1. lpc'[o] = lpc[o] /\ config'[o] = config[o] /\ cert'[o] = cert[o] /\ LoaderInv(o)
    BY <1>5 DEF IndInv
  <2>2. Loading(o)' = Loading(o) /\ Making(config[o])' = Making(config[o])
    BY <1>1, <2>1 DEF Loading, Making
  <2>3. ConfigOf(o)' = ConfigOf(o)
    BY DEF ConfigOf
  <2>4. (\E i \in 1 .. written[config[o]] : Plan(kind[config[o]])[i] = ConfigOf(o))
          <=> (\E i \in 1 .. written'[config'[o]] : Plan(kind'[config'[o]])[i] = ConfigOf(o)')
    BY <1>1, <2>1, <2>3
  <2> QED
    BY <1>1, <2>1, <2>2, <2>4 DEF LoaderInv
<1> QED
  BY <1>2, <1>3, <1>4, <1>5 DEF IndInv

(* A whole file is there. *)
LEMMA WholeIsPresent ==
  ASSUME NEW n \in Names, NEW m \in Makers, Whole(n, m)
  PROVE  n \in Present
<1>1. [by |-> m, whole |-> TRUE].whole = TRUE /\ Absent.whole = FALSE
  BY DEF Absent
<1> QED
  BY <1>1 DEF Whole, Present

(* A configuration that loads was written whole by the owner of the directory. *)
LEMMA LoadConfigKeeps ==
  ASSUME IndInv, NEW l \in Loaders, LoadConfig(l)
  PROVE  IndInv'
<1> DEFINE f == files[ConfigOf(l)]
<1>1. /\ LoaderInv(l) /\ lpc[l] = "start" /\ config[l] = Nobody /\ cert[l] = Nobody
      /\ UNCHANGED <<owner, files, pc, kind, written, cert>>
  BY DEF IndInv, LoaderInv, LoadConfig, makerVars
<1>2. ConfigOf(l) \in Names /\ f.by \in Makers \cup {Nobody} /\ f.whole \in BOOLEAN
  BY DEF IndInv, TypeInv, ConfigOf, Names
<1>3. CASE /\ f.whole /\ config' = [config EXCEPT ![l] = f.by]
           /\ lpc' = [lpc EXCEPT ![l] = IF l \in Servers THEN "paths"
                                        ELSE IF kind[f.by].public THEN "loaded" ELSE "cert"]
  <2>1. f.by = owner /\ owner \in Makers /\ pc[owner] \notin {"new", "protect"}
    BY <1>2, <1>3 DEF IndInv, FilesOwned, Absent
  <2>2. Making(owner) => \E i \in 1 .. written[owner] : Plan(kind[owner])[i] = ConfigOf(l)
    <3>1. ConfigOf(l) \in Present
      BY <1>2, <1>3 DEF Present, Absent
    <3>2. InOrder(owner)
      BY <2>1 DEF IndInv, MakerInv
    <3> QED
      BY <1>3, <3>1, <3>2 DEF InOrder
  <2>3. /\ config'[l] = owner /\ cert'[l] = Nobody
        /\ lpc'[l] = IF l \in Servers THEN "paths"
                     ELSE IF kind[owner].public THEN "loaded" ELSE "cert"
    BY <1>1, <1>3, <2>1 DEF IndInv, TypeInv
  <2>4. LoaderInv(l)'
    BY <1>1, <2>1, <2>2, <2>3 DEF LoaderInv, Loading, Making, ConfigOf
  <2> QED
    BY <1>1, <1>2, <1>3, <2>4, LoaderStep DEF IndInv, TypeInv, makerVars
<1>4. CASE lpc' = [lpc EXCEPT ![l] = "failed"] /\ config' = config
  <2>1. config'[l] = Nobody /\ cert'[l] = Nobody /\ lpc'[l] = "failed"
    BY <1>1, <1>4 DEF IndInv, TypeInv
  <2>2. LoaderInv(l)'
    BY <2>1 DEF LoaderInv
  <2> QED
    BY <1>1, <1>4, <2>2, LoaderStep DEF IndInv, TypeInv, makerVars
<1> QED
  BY <1>3, <1>4 DEF LoadConfig, GotoL

(* The paths of a configuration are checked in the directory of its run. *)
LEMMA ValidatePathsKeeps ==
  ASSUME IndInv, NEW l \in Loaders, ValidatePaths(l)
  PROVE  IndInv'
<1>1. /\ LoaderInv(l) /\ lpc[l] = "paths" /\ l \in Servers /\ config[l] # Nobody
      /\ UNCHANGED <<owner, files, pc, kind, written, config, cert>>
      /\ lpc' = [lpc EXCEPT ![l] = "cert"] \/ lpc' = [lpc EXCEPT ![l] = "failed"]
  BY DEF IndInv, LoaderInv, ValidatePaths, GotoL, makerVars
<1>2. Making(config[l]) => lpc' = [lpc EXCEPT ![l] = "cert"]
  <2> DEFINE needed == {"content", "server.json", "identity.crt", "identity.key"}
  <2>1. SUFFICES ASSUME Making(config[l]) PROVE NeedsFiles(l) => needed \subseteq Present
    BY DEF ValidatePaths, GotoL
  <2>2. Loading(l)
    BY <1>1 DEF Loading
  <2> QED
    BY <1>1, <2>1, <2>2, NeededFilesWhole, WholeIsPresent DEF NeedsFiles, Chosen, Names
<1>3. lpc'[l] = "cert" \/ (lpc'[l] = "failed" /\ ~ Making(config[l]))
  BY <1>1, <1>2 DEF IndInv, TypeInv
<1>4. LoaderInv(l)'
  BY <1>1, <1>3 DEF LoaderInv, Loading, Making, ConfigOf
<1> QED
  BY <1>1, <1>4, LoaderStep DEF IndInv, TypeInv, makerVars

(* The certificate comes from the run of the configuration, unless it failed. *)
LEMMA LoadCertificateKeeps ==
  ASSUME IndInv, NEW l \in Loaders, LoadCertificate(l)
  PROVE  IndInv'
<1> DEFINE f == files[CertOf(l)]
<1>1. /\ LoaderInv(l) /\ lpc[l] = "cert" /\ config[l] \in Makers
      /\ UNCHANGED <<owner, files, pc, kind, written, config>>
      /\ \/ /\ f # Absent /\ lpc' = [lpc EXCEPT ![l] = "key"]
            /\ cert' = [cert EXCEPT ![l] = IF f.whole THEN f.by ELSE Nobody]
         \/ f = Absent /\ lpc' = [lpc EXCEPT ![l] = "failed"] /\ cert' = cert
  BY DEF IndInv, TypeInv, LoaderInv, LoadCertificate, GotoL, makerVars
<1>2. CertOf(l) \in Names /\ f.by \in Makers \cup {Nobody} /\ f.whole \in BOOLEAN
  BY DEF IndInv, TypeInv, CertOf, Names
<1>3. Making(config[l]) => f = [by |-> config[l], whole |-> TRUE]
  BY <1>1, NeededFilesWhole DEF LoaderInv, Loading, CertOf, Whole
<1>4. f # Absent => f.by = owner
  BY <1>2 DEF IndInv, FilesOwned
<1>5. pc[config[l]] # "failed" => owner = config[l]
  BY <1>1 DEF LoaderInv, Loading
<1>6. \/ /\ lpc'[l] = "key"
         /\ cert'[l] \in {Nobody, owner} /\ (Making(config[l]) => cert'[l] # Nobody)
      \/ lpc'[l] = "failed" /\ cert'[l] = cert[l] /\ ~ Making(config[l])
  <2>1. CASE f # Absent /\ lpc' = [lpc EXCEPT ![l] = "key"]
             /\ cert' = [cert EXCEPT ![l] = IF f.whole THEN f.by ELSE Nobody]
    <3>1. lpc'[l] = "key" /\ cert'[l] = IF f.whole THEN f.by ELSE Nobody
      BY <2>1 DEF IndInv, TypeInv
    <3>2. Making(config[l]) => f.whole = TRUE /\ f.by = config[l]
      BY <1>3
    <3> QED
      BY <1>1, <1>4, <2>1, <3>1, <3>2
  <2>2. CASE f = Absent /\ lpc' = [lpc EXCEPT ![l] = "failed"] /\ cert' = cert
    <3>1. lpc'[l] = "failed" /\ cert'[l] = cert[l]
      BY <2>2 DEF IndInv, TypeInv
    <3>2. f.whole = FALSE
      BY <2>2 DEF Absent
    <3> QED
      BY <1>3, <3>1, <3>2
  <2> QED
    BY <1>1, <2>1, <2>2
<1>7. LoaderInv(l)'
  BY <1>1, <1>5, <1>6 DEF LoaderInv, Loading, Making, ConfigOf
<1>8. /\ cert' \in [Loaders -> Makers \cup {Nobody}]
      /\ lpc' \in [Loaders -> {"start", "paths", "cert", "key", "handler", "loaded", "failed",
                               "no port"}]
      /\ \A o \in Loaders \ {l} : lpc'[o] = lpc[o] /\ cert'[o] = cert[o]
  BY <1>1, <1>2 DEF IndInv, TypeInv
<1> QED
  BY <1>1, <1>7, <1>8, LoaderStep DEF IndInv, TypeInv, makerVars

(* While that run has not given up, the key is there with the certificate. *)
LEMMA LoadKeyKeeps ==
  ASSUME IndInv, NEW l \in Loaders, LoadKey(l)
  PROVE  IndInv'
<1>1. /\ LoaderInv(l) /\ lpc[l] = "key" /\ config[l] \in Makers
      /\ UNCHANGED <<owner, files, pc, kind, written, config, cert>>
      /\ lpc' = [lpc EXCEPT ![l] =
                   IF cert[l] # Nobody /\ Whole(KeyOf(l), cert[l])
                   THEN (IF l \in Servers THEN "handler" ELSE "loaded") ELSE "failed"]
  BY DEF IndInv, TypeInv, LoaderInv, LoadKey, GotoL, makerVars
<1>2. Making(config[l]) => cert[l] # Nobody /\ Whole(KeyOf(l), cert[l])
  <2>1. ASSUME Making(config[l]) PROVE cert[l] = config[l] /\ cert[l] # Nobody
    BY <1>1, <2>1 DEF LoaderInv, Making
  <2>2. ASSUME Making(config[l]) PROVE Whole(KeyOf(l), config[l])
    BY <1>1, <2>2, NeededFilesWhole DEF LoaderInv, Loading, KeyOf
  <2> QED
    BY <2>1, <2>2
<1>3. \/ lpc'[l] = "handler" /\ l \in Servers
      \/ lpc'[l] = "loaded"
      \/ lpc'[l] = "failed" /\ ~ Making(config[l])
  BY <1>1, <1>2 DEF IndInv, TypeInv
<1>4. LoaderInv(l)'
  BY <1>1, <1>3 DEF LoaderInv, Loading, Making, ConfigOf
<1> QED
  BY <1>1, <1>4, LoaderStep DEF IndInv, TypeInv, makerVars

(* A server that opens its handler and port changes no file. *)
LEMMA StartServingKeeps ==
  ASSUME IndInv, NEW l \in Loaders, StartServing(l)
  PROVE  IndInv'
<1>1. /\ LoaderInv(l) /\ lpc[l] = "handler" /\ l \in Servers /\ config[l] \in Makers
      /\ UNCHANGED <<owner, files, pc, kind, written, config, cert>>
      /\ \/ /\ NeedsFiles(l) /\ "content" \notin Present
            /\ lpc' = [lpc EXCEPT ![l] = "failed"]
         \/ lpc' = [lpc EXCEPT ![l] = "loaded"]
         \/ lpc' = [lpc EXCEPT ![l] = "no port"]
  BY DEF IndInv, TypeInv, LoaderInv, StartServing, GotoL, makerVars
<1>2. Making(config[l]) /\ NeedsFiles(l) => "content" \in Present
  <2>1. Loading(l)
    BY <1>1 DEF Loading
  <2> QED
    BY <1>1, <2>1, NeededFilesWhole, WholeIsPresent DEF NeedsFiles, Chosen, Names
<1>3. \/ lpc'[l] \in {"loaded", "no port"}
      \/ lpc'[l] = "failed" /\ ~ Making(config[l])
  BY <1>1, <1>2 DEF IndInv, TypeInv
<1>4. LoaderInv(l)'
  BY <1>1, <1>3 DEF LoaderInv, Loading, Making, ConfigOf
<1> QED
  BY <1>1, <1>4, LoaderStep DEF IndInv, TypeInv, makerVars

-----------------------------------------------------------------------------
(* The theorems *)

(* The invariant holds at first ... *)
LEMMA NodeInit == Init => IndInv
<1> SUFFICES ASSUME Init PROVE IndInv
  OBVIOUS
<1>1. TypeInv
  <2>1. Absent \in [by : Makers \cup {Nobody}, whole : BOOLEAN]
    BY DEF Absent
  <2> QED
    BY <2>1 DEF Init, TypeInv
<1>2. OwnerWorks /\ FilesOwned
  BY DEF Init, OwnerWorks, Working, FilesOwned
<1>3. ASSUME NEW m \in Makers PROVE MakerInv(m)
  <2>1. PlanSound(kind[m])
    BY <1>1, PlanIsSound DEF TypeInv
  <2>2. Len(Plan(kind[m])) \in Nat
    BY <2>1 DEF PlanSound
  <2> QED
    BY <2>2 DEF Init, MakerInv, WrittenSoFar, InOrder, Making
<1>4. ASSUME NEW l \in Loaders PROVE LoaderInv(l)
  BY DEF Init, LoaderInv
<1> QED
  BY <1>1, <1>2, <1>3, <1>4 DEF IndInv

(* ... and every step keeps it. *)
LEMMA NodeStep == IndInv /\ [Next]_vars => IndInv'
<1> SUFFICES ASSUME IndInv, [Next]_vars PROVE IndInv'
  OBVIOUS
<1>1. ASSUME NEW m \in Makers, Make(m) \/ Killed(m) PROVE IndInv'
  BY <1>1, MakeDirectoryKeeps, DirectoryExistsKeeps, ProtectDirectoryKeeps, BeginFileKeeps,
     FinishFileKeeps, FileFailsKeeps, CompleteKeeps, RemoveAllKeeps, KilledKeeps DEF Make
<1>2. ASSUME NEW l \in Loaders, Load(l) PROVE IndInv'
  BY <1>2, LoadConfigKeeps, ValidatePathsKeeps, LoadCertificateKeeps, LoadKeyKeeps,
     StartServingKeeps DEF Load
<1>3. CASE UNCHANGED vars
  <2>1. UNCHANGED <<owner, files, pc, kind, written, lpc, config, cert>>
    BY <1>3 DEF vars, makerVars, loaderVars
  <2>2. TypeInv'
    BY <2>1 DEF IndInv, TypeInv
  <2>3. OwnerWorks' /\ FilesOwned'
    BY <2>1 DEF IndInv, OwnerWorks, Working, FilesOwned, Absent
  <2>4. ASSUME NEW m \in Makers PROVE MakerInv(m)'
    BY <2>1, MakerKept DEF IndInv
  <2>5. MakersMoveOn
    <3>1. ASSUME NEW c \in Makers
          PROVE  written[c] <= written'[c]
      <4>1. written'[c] = written[c] /\ written[c] \in Nat
        BY ONLY <2>1, IndInv, c \in Makers DEF IndInv, TypeInv
      <4> QED
        BY ONLY <4>1
    <3>2. ASSUME NEW c \in Makers PROVE Making(c)' => Making(c)
      BY <2>1 DEF Making
    <3> QED
      BY <2>1, <3>1, <3>2 DEF MakersMoveOn, loaderVars
  <2> QED
    BY <2>2, <2>3, <2>4, <2>5, LoadersKept DEF IndInv
<1> QED
  BY <1>1, <1>2, <1>3, DiscardKeeps DEF Next

(* The invariant holds throughout. *)
THEOREM NodeInvariant == Spec => []IndInv
BY NodeInit, NodeStep, PTL DEF Spec

(* Runs of init never mix their files in one directory (UnmixedNode),       *)
(* however many they are, are killed or fail to clean up: os.Mkdir of       *)
(* identity.go lets in one run at a time, and a left-over keeps all others  *)
(* out.                                                                     *)
THEOREM NodeNeverMixed == Spec => []UnmixedNode
<1>1. IndInv => UnmixedNode
  BY DEF IndInv, FilesOwned, UnmixedNode, Present
<1> QED
  BY <1>1, NodeInvariant, PTL

(* A node reported as created has exactly the files of its plan, all whole, *)
(* until the operator removes it (CreatedStaysComplete).                    *)
THEOREM CreatedNodeKept == Spec => []CreatedStaysComplete
<1>1. ASSUME IndInv, NEW m \in Makers, pc[m] = "done", owner = m
      PROVE  /\ Present = ToSet(Plan(kind[m]))
             /\ \A n \in Present : Whole(n, m)
  <2> DEFINE p == Plan(kind[m])
  <2>1. PlanSound(kind[m])
    BY <1>1, PlanIsSound DEF IndInv, TypeInv
  <2>2. p \in Seq(Names) /\ DOMAIN p = 1 .. Len(p) /\ \A i \in 1 .. Len(p) : p[i] \in Names
    BY <2>1 DEF PlanSound
  <2>3. /\ \A i \in 1 .. Len(p) : Whole(p[i], m)
        /\ \A n \in Present : \E i \in 1 .. Len(p) : n = p[i]
    BY <1>1 DEF IndInv, MakerInv, WrittenSoFar, InOrder, Making
  <2> HIDE DEF p
  <2>4. \A i \in 1 .. Len(p) : p[i] \in Present
    BY <2>2, <2>3 DEF Whole, Present, Absent
  <2>5. Present = ToSet(p) /\ \A n \in Present : Whole(n, m)
    BY <2>2, <2>3, <2>4 DEF ToSet
  <2> QED
    BY <2>5 DEF p
<1>2. IndInv => CreatedStaysComplete
  BY <1>1 DEF CreatedStaysComplete
<1> QED
  BY <1>2, NodeInvariant, PTL

(* What is up has its configuration and its certificate from one run, if    *)
(* that run did not fail (IdentityMatches): the files of a configuration    *)
(* stay in the directory while a server or client is loading.               *)
THEOREM OneIdentityLoaded == Spec => []IdentityMatches
<1>1. IndInv => IdentityMatches
  BY DEF IndInv, LoaderInv, IdentityMatches
<1> QED
  BY <1>1, NodeInvariant, PTL

(* A configuration that can be read names files that load, unless its run   *)
(* gives up (ReadableMeansLoadable): the order in which initNode writes     *)
(* puts the configurations last.                                            *)
THEOREM ReadableIsLoadable == Spec => []ReadableMeansLoadable
<1>1. IndInv => ReadableMeansLoadable
  BY DEF IndInv, LoaderInv, Making, ReadableMeansLoadable
<1> QED
  BY <1>1, NodeInvariant, PTL

-----------------------------------------------------------------------------
(* The limits of a server *)

(* Defaults d and bounds c go together: every default is a positive number  *)
(* within the bound of its limit.                                           *)
Sane(d, c) ==
  \A f \in Fields : d[f] \in Nat \ {0} /\ c[f] \in Nat /\ d[f] <= c[f]

(* The Server's defaults and bounds are sane, and so are the file's. *)
LEMMA DefaultsInBounds ==
  /\ Sane(Default, Ceiling) /\ Sane(FileDefault, FileCeiling)
  /\ \A f \in Fields : FileCeiling[f] <= Ceiling[f]
BY DEF Sane, Fields, Default, Ceiling, FileDefault, FileCeiling

(* Completed limits are positive, where no given one is negative. *)
LEMMA CompletedPositive ==
  ASSUME NEW s \in [Fields -> Int], \A f \in Fields : s[f] >= 0,
         NEW d, NEW c, Sane(d, c), NEW f \in Fields
  PROVE  Completed(s, d)[f] \in Nat \ {0}
<1>1. s[f] \in Nat /\ s["MaxConnections"] \in Nat
  BY DEF Fields
<1>2. d[f] \in Nat \ {0} /\ d["MaxConnections"] \in Nat \ {0}
  BY DEF Fields, Sane
<1> QED
  BY <1>1, <1>2 DEF Completed, Or, Lesser

(* Completed limits are within the bounds c when every given one is. *)
LEMMA CompletedBelow ==
  ASSUME NEW s \in [Fields -> Int], NEW d, NEW c, Sane(d, c),
         \A f \in Fields : s[f] = 0 \/ s[f] \in 1 .. c[f],
         NEW f \in Fields
  PROVE  Completed(s, d)[f] <= c[f]
<1>1. s[f] = 0 \/ s[f] \in 1 .. c[f]
  OBVIOUS
<1>2. d[f] \in Nat /\ c[f] \in Nat /\ d[f] <= c[f]
  BY DEF Sane
<1>3. Or(s["MaxConnections"], d["MaxConnections"]) \in Int
  BY DEF Or, Fields, Sane
<1>4. Lesser(d[f], Or(s["MaxConnections"], d["MaxConnections"])) <= c[f]
  BY <1>2, <1>3 DEF Lesser
<1>5. CASE f = "MaxConnectionsPerPeer"
  BY <1>1, <1>2, <1>4, <1>5 DEF Completed, Or
<1>6. CASE f # "MaxConnectionsPerPeer"
  BY <1>1, <1>2, <1>6 DEF Completed, Or
<1> QED
  BY <1>5, <1>6

(* Completed limits let a peer have at most all connections, unless a       *)
(* larger peer limit was given.                                             *)
LEMMA CompletedFits ==
  ASSUME NEW s \in [Fields -> Int], NEW d, NEW c, Sane(d, c),
         \/ s["MaxConnectionsPerPeer"] = 0
         \/ s["MaxConnectionsPerPeer"] <= Or(s["MaxConnections"], d["MaxConnections"])
  PROVE  PeersFit(Completed(s, d))
<1> DEFINE all == Or(s["MaxConnections"], d["MaxConnections"])
<1>1. Completed(s, d)["MaxConnections"] = all
  BY DEF Completed, Fields
<1>2. Completed(s, d)["MaxConnectionsPerPeer"]
        = Or(s["MaxConnectionsPerPeer"], Lesser(d["MaxConnectionsPerPeer"], all))
  BY DEF Completed, Fields
<1>3. all \in Int /\ s["MaxConnectionsPerPeer"] \in Int /\ d["MaxConnectionsPerPeer"] \in Int
  BY DEF Or, Fields, Sane
<1> QED
  BY <1>1, <1>2, <1>3 DEF Or, Lesser, PeersFit

(* Nothing is filled in where nothing is missing. *)
LEMMA CompletedStays ==
  ASSUME NEW s \in [Fields -> Int], \A f \in Fields : s[f] # 0, NEW d
  PROVE  Completed(s, d) = s
BY DEF Completed, Or

(* A file that is accepted gives a Server acceptable, positive limits. *)
LEMMA LoadedLimits ==
  ASSUME NEW s \in [Fields -> Int], InRange(s), PeersFit(Completed(s, FileDefault))
  PROVE  LET c == Completed(s, FileDefault)
         IN  /\ c \in [Fields -> Int] /\ \A f \in Fields : c[f] > 0
             /\ Acceptable(c)
<1> DEFINE c == Completed(s, FileDefault)
<1>1. ASSUME NEW f \in Fields PROVE s[f] >= 0 /\ (s[f] = 0 \/ s[f] \in 1 .. FileCeiling[f])
  BY DefaultsInBounds DEF InRange, Sane
<1>2. ASSUME NEW f \in Fields PROVE c[f] \in Nat \ {0}
  BY <1>1, DefaultsInBounds, CompletedPositive
<1>3. ASSUME NEW f \in Fields PROVE c[f] <= Ceiling[f]
  <2>1. c[f] <= FileCeiling[f]
    BY <1>1, DefaultsInBounds, CompletedBelow
  <2>2. FileCeiling[f] <= Ceiling[f] /\ FileCeiling[f] \in Nat /\ Ceiling[f] \in Nat
    BY DefaultsInBounds DEF Sane
  <2> QED
    BY <1>2, <2>1, <2>2
<1>4. c = [f \in Fields |-> c[f]]
  BY DEF Completed
<1> QED
  BY <1>2, <1>3, <1>4 DEF Acceptable

-----------------------------------------------------------------------------
(* What was given stays what was given, and the verdict is about it; what a *)
(* file gave is complete and acceptable.                                    *)
VerdictInv ==
  /\ given \in [Fields -> Int] /\ given["MaxRequestsPerSession"] >= 0
  /\ origin \in {"library", "file"}
  /\ outcome \in {"in file", "rejected", "given", "accepted", "refused"}
  /\ outcome = "accepted" =>
       NotNegative(given) /\ limits = Completed(given, Default) /\ Acceptable(limits)
  /\ outcome = "refused" => ~ NotNegative(given) \/ ~ Acceptable(Completed(given, Default))
  /\ origin = "file" /\ outcome \in {"given", "accepted", "refused"} =>
       (\A f \in Fields : given[f] > 0) /\ Acceptable(given)

(* The verdict's invariant holds of every behaviour. *)
LEMMA Verdict == LimitsSpec => []VerdictInv
<1>1. LimitsInit => VerdictInv
  BY GivenAssumption DEF LimitsInit, VerdictInv
<1>2. VerdictInv /\ [LimitsNext]_limitsVars => VerdictInv'
  <2> SUFFICES ASSUME VerdictInv, [LimitsNext]_limitsVars PROVE VerdictInv'
    OBVIOUS
  <2>1. CASE LoadServerConfig
    <3>1. CASE InRange(given) /\ PeersFit(Completed(given, FileDefault))
      <4>1. given' = Completed(given, FileDefault) /\ outcome' = "given" /\ origin' = origin
        BY <2>1, <3>1 DEF LoadServerConfig
      <4>2. /\ given' \in [Fields -> Int] /\ \A f \in Fields : given'[f] > 0
            /\ Acceptable(given')
        BY <3>1, <4>1, LoadedLimits DEF VerdictInv
      <4>3. given'["MaxRequestsPerSession"] >= 0
        <5>1. given'["MaxRequestsPerSession"] \in Int /\ given'["MaxRequestsPerSession"] > 0
          BY <4>2 DEF Fields
        <5> QED
          BY <5>1
      <4> QED
        BY <4>1, <4>2, <4>3 DEF VerdictInv, Acceptable, PeersFit
    <3>2. CASE ~ (InRange(given) /\ PeersFit(Completed(given, FileDefault)))
      BY <2>1, <3>2 DEF LoadServerConfig, VerdictInv
    <3> QED
      BY <3>1, <3>2
  <2>2. CASE Configure
    BY <2>2 DEF Configure, VerdictInv
  <2>3. CASE UNCHANGED limitsVars
    BY <2>3 DEF limitsVars, VerdictInv
  <2> QED
    BY <2>1, <2>2, <2>3 DEF LimitsNext
<1> QED
  BY <1>1, <1>2, PTL DEF LimitsSpec

(* A server that starts has positive limits within their bounds, whatever   *)
(* the operator gave.                                                       *)
THEOREM RunningServerSound == LimitsSpec => []RunningLimitsSound
<1>1. VerdictInv => RunningLimitsSound
  <2> SUFFICES ASSUME VerdictInv, outcome = "accepted"
               PROVE  /\ \A f \in Fields : limits[f] \in 1 .. Ceiling[f]
                      /\ limits["MaxConnectionsPerPeer"] <= limits["MaxConnections"]
    BY DEF RunningLimitsSound
  <2>1. limits = Completed(given, Default) /\ Acceptable(limits) /\ NotNegative(given)
    BY DEF VerdictInv
  <2>2. ASSUME NEW f \in Fields PROVE limits[f] \in 1 .. Ceiling[f]
    <3>1. \A g \in Fields : given[g] >= 0
      BY <2>1 DEF VerdictInv, NotNegative
    <3>2. limits[f] \in Nat \ {0}
      BY <2>1, <3>1, CompletedPositive, DefaultsInBounds DEF VerdictInv
    <3>3. Ceiling[f] \in Nat /\ limits[f] <= Ceiling[f]
      BY <2>1, DefaultsInBounds DEF Acceptable, Sane
    <3> QED
      BY <3>2, <3>3
  <2> QED
    BY <2>1, <2>2 DEF Acceptable, PeersFit
<1> QED
  BY <1>1, Verdict, PTL

(* A limit that was left out never makes the server refuse to start. *)
THEOREM DefaultsAreSafe == LimitsSpec => []DefaultsNeverRefuse
<1>1. VerdictInv => DefaultsNeverRefuse
  <2> SUFFICES ASSUME VerdictInv, outcome = "refused", ~ DefaultsNeverRefuse
               PROVE  FALSE
    BY DEF DefaultsNeverRefuse
  <2>1. \A f \in Fields : given[f] = 0 \/ given[f] \in 1 .. Ceiling[f]
    BY DEF DefaultsNeverRefuse
  <2>2. \/ given["MaxConnectionsPerPeer"] = 0
        \/ ~ (given["MaxConnectionsPerPeer"]
                > Or(given["MaxConnections"], Default["MaxConnections"]))
    BY DEF DefaultsNeverRefuse
  <2>3. Or(given["MaxConnections"], Default["MaxConnections"]) \in Int
        /\ given["MaxConnectionsPerPeer"] \in Int
    BY DEF VerdictInv, Or, Fields, Default
  <2>4. NotNegative(given)
    <3>1. ASSUME NEW f \in Fields PROVE given[f] >= 0
      <4>1. given[f] = 0 \/ given[f] \in 1 .. Ceiling[f]
        BY <2>1
      <4>2. Ceiling[f] \in Nat
        BY DefaultsInBounds DEF Sane
      <4> QED
        BY <4>1, <4>2
    <3> QED
      BY <3>1 DEF NotNegative
  <2>5. PeersFit(Completed(given, Default))
    BY <2>2, <2>3, DefaultsInBounds, CompletedFits DEF VerdictInv
  <2>6. ASSUME NEW f \in Fields PROVE Completed(given, Default)[f] <= Ceiling[f]
    BY <2>1, DefaultsInBounds, CompletedBelow DEF VerdictInv
  <2> QED
    BY <2>4, <2>5, <2>6 DEF VerdictInv, Acceptable
<1> QED
  BY <1>1, Verdict, PTL

(* Server.configured decides well on every combination of limits: those of  *)
(* a running server are sound, and only a limit that was given is refused.  *)
THEOREM ConfiguredIsWell == LimitsSpec => []ConfiguredWell
BY RunningServerSound, DefaultsAreSafe, PTL DEF ConfiguredWell

(* What server.json says, with its own defaults, is what the server runs    *)
(* with: Server.configured neither refuses nor changes it.                  *)
THEOREM FileIsFinal == LimitsSpec => []FileSettlesLimits
<1>1. VerdictInv => FileSettlesLimits
  <2> SUFFICES ASSUME VerdictInv, origin = "file", outcome \in {"accepted", "refused"}
               PROVE  outcome = "accepted" /\ limits = given
    BY DEF FileSettlesLimits
  <2>1. given \in [Fields -> Int] /\ (\A f \in Fields : given[f] > 0) /\ Acceptable(given)
    BY DEF VerdictInv
  <2>2. Completed(given, Default) = given
    BY <2>1, CompletedStays
  <2>3. NotNegative(given)
    <3>1. ASSUME NEW f \in Fields PROVE given[f] >= 0
      <4>1. given[f] \in Int /\ given[f] > 0
        BY <2>1
      <4> QED
        BY <4>1
    <3> QED
      BY <3>1 DEF NotNegative
  <2> QED
    BY <2>1, <2>2, <2>3 DEF VerdictInv
<1> QED
  BY <1>1, Verdict, PTL
=============================================================================
