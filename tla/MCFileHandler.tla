---------------------------- MODULE MCFileHandler ----------------------------
(***************************************************************************)
(* An instance of FileHandler for TLC.                                     *)
(***************************************************************************)
EXTENDS FileHandler, TLC

CONSTANTS root, dir, other, fileA, fileB, fileC, fileD, big, fifo, dirLink, fileLink, outLink

\* other is a directory that is reached by no name of its own.
Targets == dirLink :> other @@ fileLink :> fileD @@ outLink :> None

InRoot == <<root, <<"x">>>>
Page   == <<dir, <<"e">>>>
Html   == <<dir, <<"index.html">>>>
Txt    == <<dir, <<"index.txt">>>>

Places ==
  (InRoot :> {dir, dirLink, outLink, fileB}) @@ (Page :> {fileA, fileB, big, fifo, fileLink, None})
    @@ (Html :> {fileA, fileB, fifo, None}) @@ (Txt :> {fileC, None})
    @@ (<<other, <<"e">>>> :> {fileD}) @@ (<<other, <<"index.html">>>> :> {fileD})
    @@ (<<root, <<".", "x">>>> :> {fileD})

FirstTree == InRoot :> dir @@ Page :> fileA @@ Html :> fileB @@ Txt :> fileC
               @@ (<<other, <<"e">>>> :> fileD) @@ (<<other, <<"index.html">>>> :> fileD)
               @@ (<<root, <<".", "x">>>> :> fileD)

Trees == {[FirstTree EXCEPT ![InRoot] = a, ![Page] = b, ![Html] = c, ![Txt] = d] :
            a \in Places[InRoot], b \in Places[Page], c \in Places[Html], d \in Places[Txt]}

Texts(symbols, n) == UNION {[1 .. m -> symbols] : m \in 0 .. n}

\* Every short path that another client may send.
ShortPaths == {<<"/">> \o t : t \in Texts({"/", ".", "%", "2", "e", "f", "F", "0", "x", " "}, 4)}
                \cup Texts({"/", "x", "%"}, 1)
\* Every short authority, every short resource of a good one, and some of its
\* resources up to, at and above the limit of length.
ShortURIs ==
  {<<"deep://">> \o t : t \in Texts({"x", "X", "F", "-", "_", ".", "/"}, 4)}
    \cup {<<"DEEP://", "x", ".", "2">> \o t : t \in Texts({"/", "?", "#", "%", "2", "F", "&", " "}, 4)}
    \cup {<<"DEEP://", "x", ".", "2", "/">> \o t : t \in Texts({"e", "?", "&"}, 5)}
    \cup {<<>>, <<"x", ".", "x">>}
\* Paths that lead somewhere, spelled in different ways.
Spellings ==
  {<<"/", "x", "/", "e">>, <<"/", "x", "%", "2", "f", "e">>, <<"/", "x", "/">>,
   <<"/", "x", "%", "2", "f">>, <<"/", "%", "2", "e", "x">>, <<"/", "x">>}

AllCases ==
  {[text |-> t, parsed |-> FALSE, tree |-> FirstTree, changes |-> 0] : t \in ShortPaths}
    \cup {[text |-> t, parsed |-> TRUE, tree |-> FirstTree, changes |-> 0] : t \in ShortURIs}
    \cup {[text |-> t, parsed |-> FALSE, tree |-> tree, changes |-> 0] : t \in Spellings, tree \in Trees}
    \cup {[text |-> t, parsed |-> FALSE, tree |-> FirstTree, changes |-> 3] : t \in Spellings}
=============================================================================
