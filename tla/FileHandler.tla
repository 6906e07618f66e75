----------------------------- MODULE FileHandler -----------------------------
(***************************************************************************)
(* resources.go: FileHandler.Open on a tree that its operator changes      *)
(* meanwhile, for a path that a client of this library made of a URI, or   *)
(* that another client sent as it liked.                                   *)
(*                                                                         *)
(* A file is an inode and a directory entry binds a name to one, so that a *)
(* file can be replaced under its name.  os.Root resolves the components   *)
(* of a path, follows links that stay inside the root, and refuses those   *)
(* that lead outside.                                                      *)
(***************************************************************************)
EXTENDS UriSyntax

CONSTANTS
  Root, Dirs, Files, BigFiles, Fifos, Links,  \* inodes of each kind
  Target,     \* where a link leads; None when that is outside the root
  None,
  MayHold,    \* what the operator may put at a place <<directory, name>>
  Cases       \* [text, parsed, tree, changes]: what a client asks for, whether
              \* it is a URI, the first tree, and how often that may change

ASSUME TreeAssumption ==
  /\ Root \in Dirs /\ BigFiles \subseteq Files
  /\ Links \cap (Dirs \cup Files) = {} /\ None \notin Dirs \cup Files
  /\ "NOT_FOUND" \notin Files
  /\ Target \in [Links -> Dirs \cup Files \cup Fifos \cup {None}]
  /\ \A c \in Cases : c.text \in Seq(Symbols) /\ DOMAIN c.tree = DOMAIN MayHold
  \* The symbols of a scheme stand for the start of a URI only.
  /\ \A c \in Cases : \A i \in 1 .. Len(c.text) : c.text[i] \in Schemes => c.parsed /\ i = 1

VARIABLES
  entry,      \* the tree: place -> inode or None
  changes,    \* how often it may still change
  text, parsed,
  path, query,
  attempt,    \* "path", or the index file of a directory: "html", "txt"
  parts,      \* the components of the decoded path
  k,          \* the component Lstat looks at next
  before,     \* what Lstat saw last
  file,       \* the open descriptor
  pc, outcome,
  cancelled,  \* ctx is done
  quiet,      \* history: nothing changed while Open ran
  bound,      \* history: per attempt, what the path led to while Open ran
  plain,      \* history: the same without following links
  faults      \* history: the attempts that ended with an error of the system

callVars == <<text, parsed, path, query, attempt, parts, k, before, file, pc, outcome>>
vars == <<entry, changes, callVars, cancelled, quiet, bound, plain, faults>>

Attempts == {"path", "html", "txt"}

-----------------------------------------------------------------------------
(* url.PathUnescape and os.Root *)

\* What an escape stands for.  Bytes above 7f are never UTF-8 by themselves.
Byte(hi, lo) ==
  CASE hi = "2" /\ lo \in {"f", "F"} -> "/"
    [] hi = "2" /\ lo = "e"          -> "."
    [] hi = "2" /\ lo = "2"          -> "\""
    [] hi = "2" /\ lo = "0"          -> " "
    [] hi = "0"                      -> "control"
    [] OTHER                         -> "not UTF-8"

Decoded(s) ==
  LET from[i \in 1 .. Len(s) + 1] ==
        IF i > Len(s) THEN <<>>
        ELSE IF s[i] = "%" THEN <<Byte(s[i + 1], s[i + 2])>> \o from[i + 3]
        ELSE <<s[i]>> \o from[i + 1]
  IN  from[1]

At(t, dir, name) == IF <<dir, name>> \in DOMAIN t THEN t[<<dir, name>>] ELSE None
Follow(i) == IF i \in Links THEN Target[i] ELSE i

\* The inode that names lead to in tree t, whose last link is not followed;
\* with follow, links on the way are.
Lookup(t, names, follow) ==
  LET walk[n \in 0 .. Len(names)] ==
        IF n = 0 THEN Root
        ELSE LET last == walk[n - 1]
                 in   == IF follow THEN Follow(last) ELSE last
             IN  IF in \in Dirs THEN At(t, in, names[n]) ELSE None
  IN  walk[Len(names)]

-----------------------------------------------------------------------------
(* FileHandler.Open *)

Unsafe(part) ==
  \/ part = <<>> \/ part[1] = "." \/ part[Len(part)] \in {".", " "}
  \/ \E i \in 1 .. Len(part) : part[i] \in {"\"", ":", "control"}

Return(r) == pc' = "done" /\ outcome' = r

\* Open, or the inner Open for an index file, returns an error.  A missing
\* index.html makes the outer Open try index.txt.
Failed(code) ==
  /\ file' = None
  /\ IF code = "NOT_FOUND" /\ attempt = "html"
     THEN /\ path' = [path EXCEPT ![Len(path)] = "index.txt"]
          /\ attempt' = "txt" /\ pc' = "called" /\ UNCHANGED outcome
     ELSE Return(code) /\ UNCHANGED <<path, attempt>>

\* ctx.Err() is not nil: at the start, at each component and at the end.
Cancelled ==
  /\ cancelled
  /\ pc \in {"called", "walking"} \/ (pc = "checking" /\ file = before /\ file \notin BigFiles)
  /\ Failed("cancelled")
  /\ UNCHANGED <<entry, changes, text, parsed, query, parts, k, before, cancelled, quiet, bound,
                 plain, faults>>

Refused == ~ ValidateResource(path, query)
           \/ \E i \in 1 .. Len(Decoded(path)) : Decoded(path)[i] = "not UTF-8"
IsDirectoryURL == Decoded(path)[Len(Decoded(path))] = "/"
NamesIn(decoded) == Split(Tail(decoded), "/")

\* The checks of the text, and the path of the index file.
Validate ==
  /\ pc = "called" /\ ~ cancelled
  /\ IF Refused THEN Failed("BAD_RESOURCE") /\ UNCHANGED <<parts, k, bound, plain>>
     ELSE IF IsDirectoryURL
     THEN /\ path' = Append(path, "index.html") /\ attempt' = "html"
          /\ UNCHANGED <<file, pc, outcome, parts, k, bound, plain>>
     ELSE LET names == NamesIn(Decoded(path))
          IN  IF \E n \in 1 .. Len(names) : Unsafe(names[n])
              THEN Failed("BAD_RESOURCE") /\ UNCHANGED <<parts, k, bound, plain>>
              ELSE /\ parts' = names /\ k' = 1 /\ pc' = "walking"
                   /\ bound' = [bound EXCEPT ![attempt] = {Lookup(entry, names, TRUE)}]
                   /\ plain' = [plain EXCEPT ![attempt] = {Lookup(entry, names, FALSE)}]
                   /\ UNCHANGED <<path, attempt, file, outcome>>
  /\ UNCHANGED <<entry, changes, text, parsed, query, before, cancelled, quiet, faults>>

\* Faulty variant: the components are looked up like any path, links included.
WalkThroughLinks ==
  /\ pc = "walking" /\ ~ cancelled
  /\ LET seen == Follow(Lookup(entry, SubSeq(parts, 1, k), TRUE))
     IN  IF seen \in (IF k < Len(parts) THEN Dirs ELSE Files)
         THEN /\ before' = seen /\ k' = k + 1
              /\ pc' = (IF k < Len(parts) THEN "walking" ELSE "opening")
              /\ UNCHANGED <<path, attempt, file, outcome>>
         ELSE Failed("NOT_FOUND") /\ UNCHANGED <<before, k>>
  /\ UNCHANGED <<entry, changes, text, parsed, query, parts, cancelled, quiet, bound, plain,
                 faults>>

\* Lstat of the first k components: no link, a directory on the way, a
\* regular file at the end.
Walk ==
  /\ pc = "walking" /\ ~ cancelled
  /\ LET seen == Lookup(entry, SubSeq(parts, 1, k), TRUE)
     IN  IF seen \in (IF k < Len(parts) THEN Dirs ELSE Files)
         THEN /\ before' = seen /\ k' = k + 1
              /\ pc' = (IF k < Len(parts) THEN "walking" ELSE "opening")
              /\ UNCHANGED <<path, attempt, file, outcome>>
         ELSE Failed("NOT_FOUND") /\ UNCHANGED <<before, k>>
  /\ UNCHANGED <<entry, changes, text, parsed, query, parts, cancelled, quiet, bound, plain,
                 faults>>

\* Faulty variant: an open that waits for the writer of a FIFO.
OpenFileBlocking ==
  /\ pc = "opening"
  /\ LET found == Follow(Lookup(entry, parts, TRUE))
     IN  IF found \in Fifos THEN UNCHANGED <<path, attempt, file, pc, outcome>>
         ELSE IF found = None THEN Failed("NOT_FOUND")
         ELSE file' = found /\ pc' = "checking" /\ UNCHANGED <<path, attempt, outcome>>
  /\ UNCHANGED <<entry, changes, text, parsed, query, parts, k, before, cancelled, quiet, bound,
                 plain, faults>>

\* openResourceFile: the last link is followed, and a FIFO does not block.
OpenFile ==
  /\ pc = "opening"
  /\ LET found == Follow(Lookup(entry, parts, TRUE))
     IN  IF found = None THEN Failed("NOT_FOUND")
         ELSE file' = found /\ pc' = "checking" /\ UNCHANGED <<path, attempt, outcome>>
  /\ UNCHANGED <<entry, changes, text, parsed, query, parts, k, before, cancelled, quiet, bound,
                 plain, faults>>

\* Faulty variant: any regular file will do.
CheckKindOnly ==
  /\ pc = "checking" /\ ~ cancelled
  /\ IF file \notin Files THEN Failed("NOT_FOUND")
     ELSE IF file \in BigFiles THEN Failed("TOO_LARGE")
     ELSE Return("ok") /\ UNCHANGED <<path, attempt, file>>
  /\ UNCHANGED <<entry, changes, text, parsed, query, parts, k, before, cancelled, quiet, bound,
                 plain, faults>>

\* Stat of the descriptor, SameFile and the size, then the last ctx.Err().
CheckFile ==
  /\ pc = "checking"
  /\ IF file \notin Files \/ file # before THEN Failed("NOT_FOUND")
     ELSE IF file \in BigFiles THEN Failed("TOO_LARGE")
     ELSE ~ cancelled /\ Return("ok") /\ UNCHANGED <<path, attempt, file>>
  /\ UNCHANGED <<entry, changes, text, parsed, query, parts, k, before, cancelled, quiet, bound,
                 plain, faults>>

\* Lstat, the open or Stat fails although the file is there: no permission, too
\* many open files, an I/O error.  Open does not tell these from a missing file.
SystemError ==
  /\ (pc = "walking" /\ ~ cancelled) \/ pc \in {"opening", "checking"}
  /\ Failed("NOT_FOUND")
  /\ faults' = faults \cup {attempt}
  /\ UNCHANGED <<entry, changes, text, parsed, query, parts, k, before, cancelled, quiet, bound,
                 plain>>

-----------------------------------------------------------------------------
(* The surroundings *)

Cancel ==
  /\ pc # "done" /\ ~ cancelled
  /\ cancelled' = TRUE
  /\ UNCHANGED <<entry, changes, callVars, quiet, bound, plain, faults>>

\* The operator replaces, adds or removes one entry of the tree.
TreeChanges ==
  /\ pc \in {"called", "walking", "opening", "checking"} /\ changes > 0
  /\ \E place \in DOMAIN MayHold : \E i \in MayHold[place] \ {entry[place]} :
       entry' = [entry EXCEPT ![place] = i]
  /\ changes' = changes - 1 /\ quiet' = FALSE
  /\ LET With(h, follow) ==
           [a \in Attempts |->
              IF h[a] = {} THEN {}
              ELSE h[a] \cup {Lookup(entry', NamesIn(Decoded(
                     IF a = attempt THEN path ELSE [path EXCEPT ![Len(path)] = "index.html"])), follow)}]
     IN  bound' = With(bound, TRUE) /\ plain' = With(plain, FALSE)
  /\ UNCHANGED <<callVars, cancelled, faults>>

Finished == pc = "done" /\ UNCHANGED vars

\* Fetch sends the resource of a URI, unless ParseURI or WriteFrame fails.
Requested(uri) ==
  IF uri.ok /\ Fits(uri)
  THEN path = uri.path /\ query = uri.query /\ pc = "called" /\ outcome = "none"
  ELSE /\ path = <<>> /\ query = <<>> /\ pc = "done"
       /\ outcome = IF uri.ok THEN "not sent" ELSE "not a URI"

\* Open is called for a client of this library, or with any path.
Asked ==
  IF parsed THEN Requested(ParseURI(text))
  ELSE path = text /\ query = <<>> /\ pc = "called" /\ outcome = "none"

Init ==
  /\ \E c \in Cases : text = c.text /\ parsed = c.parsed /\ entry = c.tree /\ changes = c.changes
  /\ Asked
  /\ attempt = "path"
  /\ parts = <<>> /\ k = 0 /\ before = None /\ file = None
  /\ cancelled = FALSE /\ quiet = TRUE
  /\ bound = [a \in Attempts |-> {}] /\ plain = [a \in Attempts |-> {}]
  /\ faults = {}

Open == Cancelled \/ Validate \/ Walk \/ OpenFile \/ CheckFile
Next == Open \/ SystemError \/ Cancel \/ TreeChanges \/ Finished

(* The steps of Open do not wait for anything: os.Root does not block.  No  *)
(* error of the system is needed for Open to end.                           *)
Spec == Init /\ [][Next]_vars /\ WF_vars(Open)

-----------------------------------------------------------------------------
(* Properties *)

(* ParseURI accepts exactly the DEEP URIs, takes them apart as they are     *)
(* written, and a resource that is sent passes the server's own check: the  *)
(* two sides agree on every escape, separator and length.  A URI without    *)
(* "&", however long, is sent; one with "&" may be legal and still too long *)
(* for a frame, because json.Marshal escapes that character.                *)
ParseExact ==
  parsed => /\ ParsesExactly(text)
            /\ outcome = "not sent" => \E i \in 1 .. Len(text) : text[i] = "&"
            /\ outcome \notin {"not a URI", "not sent"} /\ attempt = "path" =>
                 ValidateResource(path, query)

\* The checks of a path p with query q that do not look at its names.
WellFormed(p, q) ==
  /\ p # <<>> /\ p[1] = "/" /\ Component(p, PathChars) /\ Component(q, QueryChars)
  /\ Size(p) + (IF q = <<>> THEN 0 ELSE 1 + Size(q)) <= MaxURILength
  /\ \A i \in 1 .. Len(Decoded(p)) : Decoded(p)[i] # "not UTF-8"

\* The file that the names of p lead to in tree t through directories only.
Named(t, p, q) ==
  LET names == NamesIn(Decoded(p))
      found == Lookup(t, names, FALSE)
  IN  IF ~ WellFormed(p, q) \/ \E i \in 1 .. Len(names) : Unsafe(names[i]) THEN "BAD_RESOURCE"
      ELSE IF found \in BigFiles THEN "TOO_LARGE"
      ELSE IF found \in Files THEN found ELSE "NOT_FOUND"

\* What Open has to return for p and q while tree t is at rest and the system
\* fails in the attempts f.
Expected(t, p, q, f) ==
  LET Of(a, r) == IF a \in f THEN "NOT_FOUND" ELSE Named(t, r, q)
      html     == Of("html", Append(p, "index.html"))
  IN  IF ~ WellFormed(p, q) THEN "BAD_RESOURCE"
      ELSE IF Decoded(p)[Len(Decoded(p))] # "/" THEN Of("path", p)
      ELSE IF html # "NOT_FOUND" THEN html ELSE Of("txt", Append(p, "index.txt"))

(* While nothing changes, Open "decodes escapes once" and serves only       *)
(* regular files that safe names lead to through directories, never through *)
(* a link.  For a directory URL it takes index.html, and index.txt if there *)
(* is no regular index.html or the system cannot read it; docs/DEEP-V2.md   *)
(* promises index.txt only "if no HTML entry exists".                       *)
QuietExact ==
  pc = "done" /\ quiet /\ ~ cancelled /\ outcome \notin {"not a URI", "not sent"} =>
    (IF outcome = "ok" THEN file ELSE outcome) =
      Expected(entry, IF attempt = "path" THEN path ELSE SubSeq(path, 1, Len(path) - 1), query,
               faults)

(* However the tree changes between the checks and the open, what is served *)
(* is a regular file of legal size that the path itself led to at a moment  *)
(* of the call, never the target of a link swapped in for it.  index.txt is *)
(* served in the place of an index.html that was one and the same regular   *)
(* file all along only if the system failed to read that.                   *)
ServedJustified ==
  outcome = "ok" =>
    /\ file \in (Files \ BigFiles) \cap bound[attempt]
    /\ attempt = "txt" => "html" \in faults \/ ~ \E f \in Files : plain["html"] = {f}

(* Open returns, also when a FIFO was swapped in for the file, and leaves   *)
(* no descriptor open but the one it hands over.                            *)
OpenEnds == (pc # "done") ~> (pc = "done" /\ (file # None <=> outcome = "ok"))
=============================================================================
