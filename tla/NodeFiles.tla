------------------------------ MODULE NodeFiles ------------------------------
(***************************************************************************)
(* The directory of a node: "deep init" and "deep client-init"             *)
(* (cmd/deep/identity.go) create it file by file, "deep serve"             *)
(* (cmd/deep/config.go) and every client (LoadClientConfig of adapters.go) *)
(* load it.  All of them may run at once on one directory; a creator may   *)
(* fail or be killed between any two steps, in the middle of a file too.   *)
(*                                                                         *)
(* A file is known by the run that wrote it and by whether it is whole.    *)
(* A part of a JSON or PEM file never decodes.  Keys, certificates and     *)
(* pins of one run belong together, those of two runs do not.              *)
(***************************************************************************)
EXTENDS Sequences, SequencesExt

CONSTANTS
  Makers,     \* runs of init and client-init with the same --dir
  Servers,    \* runs of serve
  Clients,    \* loads of client.json
  Asked,      \* what the makers may be asked for
  Nobody

Loaders == Servers \cup Clients

\* What init is asked for: initNode with --public and --upstream, or initClient.
Kinds == [command : {"init"}, public : BOOLEAN, upstream : BOOLEAN]
           \cup [command : {"client-init"}]

ASSUME FilesAssumption ==
  Nobody \notin Makers /\ Servers \cap Clients = {} /\ Asked \subseteq Kinds

Names ==
  {"content", "identity.crt", "identity.key", "index.txt", "client.crt", "client.key",
   "server.json", "client.json", "identity.json"}

VARIABLES
  owner,     \* the run that made the directory, or Nobody
  files,     \* of each name: who wrote it, and is it whole
  pc, kind,  \* of a maker: where it is, and what it makes
  written,   \* of a maker: how many of its files it is done with
  lpc,       \* of a loader: where it is
  config,    \* of a loader: whose configuration it read, or Nobody
  cert       \* of a loader: whose certificate it read, or Nobody

makerVars  == <<pc, kind, written>>
loaderVars == <<lpc, config, cert>>
vars == <<owner, files, makerVars, loaderVars>>

Absent  == [by |-> Nobody, whole |-> FALSE]
Present == {n \in Names : files[n] # Absent}
Whole(n, m) == files[n] = [by |-> m, whole |-> TRUE]

\* As Plan, but the configurations come before what they name.
PlanConfigurationFirst(k) ==
  IF k.command = "client-init"
    THEN <<"identity.json", "client.crt", "client.key">>
    ELSE (IF k.upstream THEN <<>> ELSE <<"content">>)
           \o <<"server.json", "client.json", "identity.crt", "identity.key">>
           \o (IF k.upstream THEN <<>> ELSE <<"index.txt">>)
           \o (IF k.public THEN <<>> ELSE <<"client.crt", "client.key">>)

\* What is written, in this order.
Plan(k) ==
  IF k.command = "client-init"
    THEN <<"client.crt", "client.key", "identity.json">>
    ELSE (IF k.upstream THEN <<>> ELSE <<"content">>)
           \o <<"identity.crt", "identity.key">>
           \o (IF k.upstream THEN <<>> ELSE <<"index.txt">>)
           \o (IF k.public THEN <<>> ELSE <<"client.crt", "client.key">>)
           \o <<"server.json", "client.json">>

Goto(m, label) == pc' = [pc EXCEPT ![m] = label]
NextName(m) == Plan(kind[m])[written[m] + 1]

-----------------------------------------------------------------------------
(* init and client-init *)

\* As MakeDirectory, but an existing directory will do.
MakeDirectoryAny(m) ==
  /\ pc[m] = "new"
  /\ owner' = m
  /\ Goto(m, "protect")
  /\ UNCHANGED <<files, kind, written, loaderVars>>

\* os.Mkdir of a directory that is not there.
MakeDirectory(m) ==
  /\ pc[m] = "new" /\ owner = Nobody
  /\ owner' = m
  /\ Goto(m, "protect")
  /\ UNCHANGED <<files, kind, written, loaderVars>>

\* As DirectoryExists, but the error return cleans up.
DirectoryExistsCleanup(m) ==
  /\ pc[m] = "new" /\ owner # Nobody
  /\ Goto(m, "cleanup")
  /\ UNCHANGED <<owner, files, kind, written, loaderVars>>

\* "existing directories are not overwritten"
DirectoryExists(m) ==
  /\ pc[m] = "new" /\ owner # Nobody
  /\ Goto(m, "failed")
  /\ UNCHANGED <<owner, files, kind, written, loaderVars>>

\* protectDirectory succeeds, or the directory, still empty, is removed; the
\* error of os.Remove is ignored.
ProtectDirectory(m) ==
  /\ pc[m] = "protect"
  /\ \/ Goto(m, "writing") /\ UNCHANGED owner
     \/ Goto(m, "failed") /\ owner' \in {Nobody, owner}
  /\ UNCHANGED <<files, kind, written, loaderVars>>

\* os.Mkdir of the content directory, or os.WriteFile up to its first write.
BeginFile(m) ==
  /\ pc[m] = "writing" /\ written[m] < Len(Plan(kind[m]))
  /\ IF NextName(m) = "content"
       THEN /\ files' = [files EXCEPT !["content"] = [by |-> m, whole |-> TRUE]]
            /\ written' = [written EXCEPT ![m] = @ + 1] /\ UNCHANGED pc
       ELSE /\ files' = [files EXCEPT ![NextName(m)] = [by |-> m, whole |-> FALSE]]
            /\ Goto(m, "filling") /\ UNCHANGED written
  /\ UNCHANGED <<owner, kind, loaderVars>>

\* All is written: to the file that m began, if it still has its name.
Filled(m) == [files EXCEPT ![NextName(m)].whole = @ \/ files[NextName(m)].by = m]

FinishFile(m) ==
  /\ pc[m] = "filling"
  /\ files' = Filled(m)
  /\ written' = [written EXCEPT ![m] = @ + 1]
  /\ Goto(m, "writing")
  /\ UNCHANGED <<owner, kind, loaderVars>>

\* A file cannot be created, filled or closed: an error return.
FileFails(m) ==
  /\ \/ pc[m] = "writing" /\ written[m] < Len(Plan(kind[m])) /\ UNCHANGED files
     \/ pc[m] = "filling" /\ \/ UNCHANGED files
                             \/ files' = Filled(m)
  /\ Goto(m, "cleanup")
  /\ UNCHANGED <<owner, kind, written, loaderVars>>

\* complete = true: the node is reported as created.
Complete(m) ==
  /\ pc[m] = "writing" /\ written[m] = Len(Plan(kind[m]))
  /\ Goto(m, "done")
  /\ UNCHANGED <<owner, files, kind, written, loaderVars>>

\* os.RemoveAll, one name at a time, the directory last; it may fail half-way,
\* and its error is ignored.
RemoveAll(m) ==
  /\ pc[m] = "cleanup"
  /\ \/ \E n \in Present : files' = [files EXCEPT ![n] = Absent] /\ UNCHANGED <<owner, pc>>
     \/ Present = {} /\ owner' = Nobody /\ Goto(m, "failed") /\ UNCHANGED files
     \/ Goto(m, "failed") /\ UNCHANGED <<owner, files>>
  /\ UNCHANGED <<kind, written, loaderVars>>

Working(m) == pc[m] \notin {"new", "done", "failed", "killed"}

Killed(m) ==
  /\ Working(m)
  /\ Goto(m, "killed")
  /\ UNCHANGED <<owner, files, kind, written, loaderVars>>

-----------------------------------------------------------------------------
(* serve and LoadClientConfig *)

ConfigOf(l)   == IF l \in Servers THEN "server.json" ELSE "client.json"
CertOf(l)     == IF l \in Servers THEN "identity.crt" ELSE "client.crt"
KeyOf(l)      == IF l \in Servers THEN "identity.key" ELSE "client.key"
Chosen(l)     == kind[config[l]]
NeedsFiles(l) == l \in Servers /\ ~ Chosen(l).upstream

GotoL(l, label) == lpc' = [lpc EXCEPT ![l] = label]

\* loadServerConfig, loadRegistryConfig: absent and partial files are errors.
LoadConfig(l) ==
  LET f == files[ConfigOf(l)]
  IN  /\ lpc[l] = "start"
      /\ \/ /\ f.whole
            /\ config' = [config EXCEPT ![l] = f.by]
            /\ GotoL(l, IF l \in Servers THEN "paths"
                        ELSE IF kind[f.by].public THEN "loaded" ELSE "cert")
         \/ /\ ~ f.whole
            /\ GotoL(l, "failed") /\ UNCHANGED config
      /\ UNCHANGED <<owner, files, makerVars, cert>>

\* validateServingPaths: root, configuration and identity exist.
ValidatePaths(l) ==
  /\ lpc[l] = "paths"
  /\ LET needed == {"content", "server.json", "identity.crt", "identity.key"}
     IN  GotoL(l, IF NeedsFiles(l) => needed \subseteq Present THEN "cert" ELSE "failed")
  /\ UNCHANGED <<owner, files, makerVars, config, cert>>

\* tls.LoadX509KeyPair reads the certificate ...
LoadCertificate(l) ==
  LET f == files[CertOf(l)]
  IN  /\ lpc[l] = "cert"
      /\ IF f # Absent
           THEN cert' = [cert EXCEPT ![l] = IF f.whole THEN f.by ELSE Nobody] /\ GotoL(l, "key")
           ELSE GotoL(l, "failed") /\ UNCHANGED cert
      /\ UNCHANGED <<owner, files, makerVars, config>>

\* ... then the key, and compares the two.
LoadKey(l) ==
  /\ lpc[l] = "key"
  /\ GotoL(l, IF cert[l] # Nobody /\ Whole(KeyOf(l), cert[l])
                THEN (IF l \in Servers THEN "handler" ELSE "loaded") ELSE "failed")
  /\ UNCHANGED <<owner, files, makerVars, config, cert>>

\* NewFileHandler opens the root; then the port is opened, unless it is taken.
StartServing(l) ==
  /\ lpc[l] = "handler"
  /\ \/ NeedsFiles(l) /\ "content" \notin Present /\ GotoL(l, "failed")
     \/ (NeedsFiles(l) => "content" \in Present) /\ GotoL(l, "loaded")
     \/ (NeedsFiles(l) => "content" \in Present) /\ GotoL(l, "no port")
  /\ UNCHANGED <<owner, files, makerVars, config, cert>>

Loading(l) == lpc[l] \notin {"start", "loaded", "failed", "no port"}

\* The operator removes the directory, while nothing is at work on it.
Discard ==
  /\ owner # Nobody
  /\ \A m \in Makers : ~ Working(m)
  /\ \A l \in Loaders : ~ Loading(l)
  /\ owner' = Nobody /\ files' = [n \in Names |-> Absent]
  /\ UNCHANGED <<makerVars, loaderVars>>

-----------------------------------------------------------------------------
Init ==
  /\ owner = Nobody /\ files = [n \in Names |-> Absent]
  /\ pc = [m \in Makers |-> "new"] /\ kind \in [Makers -> Asked]
  /\ written = [m \in Makers |-> 0]
  /\ lpc = [l \in Loaders |-> "start"]
  /\ config = [l \in Loaders |-> Nobody] /\ cert = [l \in Loaders |-> Nobody]

Make(m) ==
  \/ MakeDirectory(m) \/ DirectoryExists(m) \/ ProtectDirectory(m)
  \/ BeginFile(m) \/ FinishFile(m) \/ FileFails(m) \/ Complete(m) \/ RemoveAll(m)

Load(l) ==
  LoadConfig(l) \/ ValidatePaths(l) \/ LoadCertificate(l) \/ LoadKey(l) \/ StartServing(l)

Next ==
  \/ \E m \in Makers : Make(m) \/ Killed(m)
  \/ \E l \in Loaders : Load(l)
  \/ Discard

Spec == Init /\ [][Next]_vars

-----------------------------------------------------------------------------
(* Properties *)

(* Nothing is mixed: every file in the directory was written by the run     *)
(* that made the directory, however many runs there are, were killed or     *)
(* failed to clean up.  In particular a left-over is never continued.       *)
UnmixedNode == \A n \in Present : files[n].by = owner

(* A node that was reported as created is complete and stays so: no other   *)
(* run, on whichever error path, removes or replaces a file of it.          *)
CreatedStaysComplete ==
  \A m \in Makers :
    pc[m] = "done" /\ owner = m =>
      /\ Present = ToSet(Plan(kind[m]))
      /\ \A n \in Present : Whole(n, m)

(* A server or client that is up has loaded one identity: configuration,    *)
(* with its pins, and certificate come from the same run.  The exception is *)
(* a configuration whose run failed and cleaned up while it was loaded: the *)
(* files it names may by then be those of the next run.                     *)
IdentityMatches ==
  \A l \in Loaders :
    lpc[l] = "loaded" /\ cert[l] # Nobody /\ pc[config[l]] # "failed" => cert[l] = config[l]

(* A configuration that can be read names files that can be loaded: a       *)
(* server or client started while init is still at work fails either before *)
(* it has a configuration, or because init itself fails afterwards.         *)
ReadableMeansLoadable ==
  \A l \in Loaders :
    lpc[l] = "failed" /\ config[l] # Nobody => pc[config[l]] # "done"
=============================================================================
