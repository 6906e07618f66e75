------------------------------ MODULE UriSyntax ------------------------------
(***************************************************************************)
(* uri.go: ParseURI, ValidateAuthority and ValidateResource.               *)
(*                                                                         *)
(* A text is a sequence of symbols.  A symbol stands for one character of  *)
(* each class the code tells apart, except "index.html", "index.txt" and   *)
(* the scheme at the start of a URI, which stand for themselves and count  *)
(* with their lengths.                                                     *)
(***************************************************************************)
EXTENDS Naturals, Sequences, SequencesExt, FiniteSets

CONSTANTS
  MaxURILength,
  MaxLabel,       \* length of a label: 63
  MaxMetadataSize \* of the metadata of a frame, in bytes

\* The limits were chosen so that a request for any URI fits a frame, as far as
\* its characters are their own JSON.
ASSUME LengthsAssumption ==
  /\ MaxURILength \in Nat /\ MaxLabel \in Nat
  /\ MaxMetadataSize \in Nat /\ MaxMetadataSize >= 57 + MaxURILength

Hex           == {"0", "2", "e", "f", "F"}
LowerAlnum    == {"0", "2", "e", "f", "x"}
UpperAlpha    == {"F", "X"}
\* The characters of a path; a query and a fragment may also have "?".
PathChars     == LowerAlnum \cup UpperAlpha \cup {".", "-", "_", ":", "&", "/", "index.html", "index.txt"}
QueryChars    == PathChars \cup {"?"}
\* What validateASCII refuses.
NotASCII      == {" ", "\\"}
Schemes       == {"deep://", "DEEP://"}
Symbols       == QueryChars \cup NotASCII \cup Schemes \cup {"%", "#"}

\* strings.ToLower.
ToLower(s) ==
  [i \in 1 .. Len(s) |-> IF s[i] = "X" THEN "x" ELSE IF s[i] = "F" THEN "f" ELSE s[i]]

\* The length of a text in bytes.
Size(s) ==
  LET Of(sym) == Cardinality({i \in 1 .. Len(s) : s[i] = sym})
  IN  Len(s) + 6 * (Of("deep://") + Of("DEEP://")) + 9 * Of("index.html") + 8 * Of("index.txt")

\* strings.Split at one character.
Split(s, sep) ==
  LET seps   == {i \in 1 .. Len(s) : s[i] = sep}
      Cut(n) == IF n = 0 THEN 0
                ELSE CHOOSE i \in seps \cup {Len(s) + 1} : Cardinality({j \in seps : j < i}) = n - 1
  IN  [n \in 1 .. Cardinality(seps) + 1 |-> SubSeq(s, Cut(n - 1) + 1, Cut(n) - 1)]

\* strings.IndexAny, but one past the end where nothing is found.
IndexAny(s, set) ==
  LET i == SelectInSeq(s, LAMBDA c : c \in set) IN IF i = 0 THEN Len(s) + 1 ELSE i

\* Faulty variant: an escape cut off by the end of the text passes.
validateComponentLoose(value, allowed) ==
  LET ok[i \in 1 .. Len(value) + 3] ==
        IF i > Len(value) THEN TRUE
        ELSE IF value[i] = "%"
        THEN /\ \A j \in {i + 1, i + 2} : j <= Len(value) => value[j] \in Hex
             /\ ok[i + 3]
        ELSE value[i] \in allowed /\ ok[i + 1]
  IN  ok[1]

\* The scanner jumps over the two digits of an escape.
validateComponent(value, allowed) ==
  LET ok[i \in 1 .. Len(value) + 1] ==
        IF i > Len(value) THEN TRUE
        ELSE IF value[i] = "%"
        THEN i + 2 <= Len(value) /\ value[i + 1] \in Hex /\ value[i + 2] \in Hex /\ ok[i + 3]
        ELSE value[i] \in allowed /\ ok[i + 1]
  IN  ok[1]

ValidateResource(path, query) ==
  /\ path # <<>> /\ Head(path) = "/"
  /\ Size(path) + (IF query = <<>> THEN 0 ELSE 1 + Size(query)) <= MaxURILength
  /\ validateComponent(path, PathChars) /\ validateComponent(query, QueryChars)

validLabel(label) ==
  /\ Len(label) \in 1 .. MaxLabel
  /\ label[1] \in LowerAlnum /\ label[Len(label)] \in LowerAlnum
  /\ \A i \in 1 .. Len(label) : label[i] \in LowerAlnum \cup {"-"}

ValidateAuthority(authority) ==
  LET parts == Split(authority, ".")
  IN  Len(parts) = 2 /\ validLabel(ReplaceAll(parts[1], "_", "-")) /\ validLabel(parts[2])

NoURI == [ok |-> FALSE]

ParseURI(raw) ==
  IF \/ raw = <<>> \/ Size(raw) > MaxURILength
     \/ \E i \in 1 .. Len(raw) : raw[i] \in NotASCII
     \/ raw[1] \notin Schemes
  THEN NoURI
  ELSE LET rest      == Tail(raw)
           slash     == IndexAny(rest, {"/", "?", "#"})
           authority == ToLower(SubSeq(rest, 1, slash - 1))
           tail      == SubSeq(rest, slash, Len(rest))
           hash      == IndexAny(tail, {"#"})
           fragment  == SubSeq(tail, hash + 1, Len(tail))
           resource  == SubSeq(tail, 1, hash - 1)
           mark      == IndexAny(resource, {"?"})
           query     == SubSeq(resource, mark + 1, Len(resource))
           path      == IF mark = 1 THEN <<"/">> ELSE SubSeq(resource, 1, mark - 1)
       IN  IF /\ ValidateAuthority(authority) /\ validateComponent(fragment, QueryChars)
              /\ ValidateResource(path, query)
           THEN [ok |-> TRUE, authority |-> authority, path |-> path, query |-> query,
                 fragment |-> fragment]
           ELSE NoURI

\* Whether Fetch can send the request: json.Marshal adds 57 bytes of names and
\* punctuation and writes "&" with six, and WriteFrame has its limit.
Fits(uri) ==
  LET value == uri.authority \o uri.path \o uri.query
  IN  57 + Size(value) + 5 * Cardinality({i \in 1 .. Len(value) : value[i] = "&"}) <= MaxMetadataSize

-----------------------------------------------------------------------------
(* What a DEEP URI is, without a parser *)

\* Only allowed characters and complete escapes.
Component(s, allowed) ==
  \A i \in 1 .. Len(s) :
    \/ s[i] \in allowed
    \/ s[i] = "%" /\ i + 2 <= Len(s) /\ s[i + 1] \in Hex /\ s[i + 2] \in Hex

Label(s, inner) ==
  /\ Len(s) \in 1 .. MaxLabel
  /\ \A i \in 1 .. Len(s) : s[i] \in LowerAlnum \/ (s[i] \in inner /\ i \notin {1, Len(s)})

\* raw is scheme, authority up to a, path up to q, query up to h, fragment.
IsSplitAt(raw, a, q, h) ==
  LET Piece(sep, i, j) == IF i < j THEN raw[i] = sep ELSE TRUE
  IN  /\ Piece("/", a, q) /\ Piece("?", q, h) /\ Piece("#", h, Len(raw) + 1)
      /\ \E dot \in 2 .. a - 1 :
           /\ raw[dot] = "."
           /\ Label(ToLower(SubSeq(raw, 2, dot - 1)), {"-", "_"})
           /\ Label(ToLower(SubSeq(raw, dot + 1, a - 1)), {"-"})
      /\ Component(SubSeq(raw, a, q - 1), PathChars)
      /\ Component(SubSeq(raw, q + 1, h - 1), QueryChars)
      /\ Component(SubSeq(raw, h + 1, Len(raw)), QueryChars)

\* The parts of raw that is split so.
PartsAt(raw, a, q, h) ==
  [ok |-> TRUE, authority |-> ToLower(SubSeq(raw, 2, a - 1)),
   path |-> IF a = q THEN <<"/">> ELSE SubSeq(raw, a, q - 1),
   query |-> SubSeq(raw, q + 1, h - 1), fragment |-> SubSeq(raw, h + 1, Len(raw))]

\* What ParseURI has to return for raw.
Meaning(raw) ==
  LET Cuts == 2 .. Len(raw) + 1
  IN  {PartsAt(raw, t[1], t[2], t[3]) :
         t \in {c \in Cuts \X Cuts \X Cuts :
                  c[1] <= c[2] /\ c[2] <= c[3] /\ IsSplitAt(raw, c[1], c[2], c[3])}}

\* ParseURI accepts exactly the DEEP URIs and takes them apart as they are.
ParsesExactly(raw) ==
  LET meant == IF raw # <<>> /\ raw[1] \in Schemes /\ Size(raw) <= MaxURILength
               THEN Meaning(raw) ELSE {}
  IN  IF ParseURI(raw).ok THEN meant = {ParseURI(raw)} ELSE meant = {}
=============================================================================
