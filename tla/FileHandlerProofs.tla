------------------------- MODULE FileHandlerProofs -------------------------
(***************************************************************************)
(* Proofs about FileHandler, for any tree of files and links, any request  *)
(* and any change of the tree while Open runs, and about UriSyntax, for    *)
(* texts of any length.  The loops of the code are recursive functions;    *)
(* what they compute is proved by induction over the texts, from the fact  *)
(* that a set of numbers has a least one.                                  *)
(***************************************************************************)
EXTENDS FileHandler, WellFoundedInduction, FiniteSetTheorems, SequenceTheorems, TLAPS

-----------------------------------------------------------------------------
(* Induction *)

(* A set of numbers has a least one. *)
LEMMA LeastNumber ==
  ASSUME NEW T \in SUBSET Nat, T # {}
  PROVE  \E x \in T : \A y \in T : x <= y
<1> DEFINE R == OpToRel(<, Nat)
<1>1. PICK x \in T : \A y \in T : <<y, x>> \notin R
  BY NatLessThanWellFounded, WFMin
<1>2. ASSUME NEW y \in T, y < x PROVE <<y, x>> \in R
  BY <1>2 DEF OpToRel
<1> HIDE DEF R
<1>3. ASSUME NEW y \in T PROVE x <= y
  <2>1. x \in Nat /\ y \in Nat /\ ~ (y < x)
    BY <1>1, <1>2
  <2> QED
    BY <2>1
<1> QED
  BY <1>3

(* What holds of 0 and passes from one number to the next holds up to n. *)
LEMMA Upwards ==
  ASSUME NEW n \in Nat, NEW S, 0 \in S, \A i \in 0 .. n - 1 : i \in S => i + 1 \in S
  PROVE  \A i \in 0 .. n : i \in S
<1> SUFFICES ASSUME NEW j \in 0 .. n, j \notin S PROVE FALSE
  OBVIOUS
<1> DEFINE T == {i \in 0 .. n : i \notin S}
<1>1. T \in SUBSET Nat /\ T # {}
  OBVIOUS
<1>2. PICK x \in T : \A y \in T : x <= y
  BY <1>1, LeastNumber
<1>3. x # 0 /\ x - 1 \in 0 .. n - 1 /\ x - 1 + 1 = x /\ ~ (x <= x - 1)
  BY <1>2
<1>4. x - 1 \in S
  BY <1>2, <1>3
<1> QED
  BY <1>2, <1>3, <1>4

(* What passes to a number from all the greater ones up to n holds of all.  *)
LEMMA Downwards ==
  ASSUME NEW n \in Nat, NEW S,
         \A i \in 1 .. n : (\A j \in i + 1 .. n : j \in S) => i \in S
  PROVE  \A i \in 1 .. n : i \in S
<1> SUFFICES ASSUME NEW j \in 1 .. n, j \notin S PROVE FALSE
  OBVIOUS
<1> DEFINE T == {d \in Nat : n - d \in 1 .. n /\ n - d \notin S}
<1>1. n - j \in T
  <2>1. n - (n - j) = j /\ n - j \in Nat
    OBVIOUS
  <2> QED
    BY <2>1
<1>2. PICK d \in T : \A y \in T : d <= y
  BY <1>1, LeastNumber
<1>3. ASSUME NEW i \in (n - d) + 1 .. n PROVE i \in S
  <2>1. d \in Nat /\ n - i \in Nat /\ n - (n - i) = i /\ ~ (d <= n - i) /\ i \in 1 .. n
    BY <1>2
  <2> QED
    BY <1>2, <2>1
<1> QED
  BY <1>2, <1>3

-----------------------------------------------------------------------------
(* Following a path *)

\* What a directory holds, one step of a path, and the places along a path:
\* Lookup is a recursive function, and Way the function itself.
Entry(t, in, name) == IF in \in Dirs THEN At(t, in, name) ELSE None
Step(t, last, name, follow) == Entry(t, IF follow THEN Follow(last) ELSE last, name)

IsWalk(w, t, names, follow, n) ==
  w = [i \in 0 .. n |-> IF i = 0 THEN Root ELSE Step(t, w[i - 1], names[i], follow)]

Way(t, names, follow) == CHOOSE w : IsWalk(w, t, names, follow, Len(names))

(* Lookup is the end of the way along the names. *)
LEMMA LookupIsWay ==
  ASSUME NEW t, NEW names, NEW follow
  PROVE  Lookup(t, names, follow) = Way(t, names, follow)[Len(names)]
BY DEF Lookup, Way, IsWalk, Step, Entry

(* There is a way along the first n names: its recursion is well founded. *)
LEMMA WayExists ==
  ASSUME NEW t, NEW names, NEW follow, NEW n \in Nat
  PROVE  \E w : IsWalk(w, t, names, follow, n)
<1> DEFINE S == {i \in 0 .. n : \E w : IsWalk(w, t, names, follow, i)}
<1>1. 0 \in S
  <2> DEFINE w == [i \in 0 .. 0 |-> Root]
  <2>1. IsWalk(w, t, names, follow, 0)
    BY DEF IsWalk
  <2> QED
    BY <2>1
<1>2. ASSUME NEW i \in 0 .. n - 1, i \in S PROVE i + 1 \in S
  <2>1. PICK w : IsWalk(w, t, names, follow, i)
    BY <1>2
  <2> DEFINE v == [j \in 0 .. i + 1 |-> IF j = i + 1 THEN Step(t, w[i], names[i + 1], follow) ELSE w[j]]
  <2>2. \A j \in 0 .. i : v[j] = w[j]
    OBVIOUS
  <2>3. ASSUME NEW j \in 0 .. i + 1
        PROVE  v[j] = IF j = 0 THEN Root ELSE Step(t, v[j - 1], names[j], follow)
    <3>1. CASE j = i + 1
      <4>1. j # 0 /\ j - 1 = i /\ v[j] = Step(t, w[i], names[i + 1], follow)
        BY <3>1
      <4> QED
        BY <2>2, <3>1, <4>1
    <3>2. CASE j # i + 1
      <4>1. j \in 0 .. i /\ (j # 0 => j - 1 \in 0 .. i)
        BY <3>2
      <4>2. w[j] = IF j = 0 THEN Root ELSE Step(t, w[j - 1], names[j], follow)
        BY <2>1, <4>1 DEF IsWalk
      <4> QED
        BY <2>2, <4>1, <4>2
    <3> QED
      BY <3>1, <3>2
  <2>4. v = [j \in 0 .. i + 1 |-> v[j]]
    OBVIOUS
  <2> HIDE DEF v
  <2>5. IsWalk(v, t, names, follow, i + 1)
    BY <2>3, <2>4 DEF IsWalk
  <2> QED
    BY <2>5
<1> HIDE DEF S
<1>3. n \in S
  BY <1>1, <1>2, Upwards
<1> QED
  BY <1>3 DEF S

(* A way starts at the root and takes one name a step. *)
LEMMA WaySteps ==
  ASSUME NEW t, NEW names, NEW follow, Len(names) \in Nat
  PROVE  LET w == Way(t, names, follow)
         IN  /\ w[0] = Root
             /\ \A i \in 1 .. Len(names) : w[i] = Step(t, w[i - 1], names[i], follow)
<1>1. IsWalk(Way(t, names, follow), t, names, follow, Len(names))
  BY WayExists DEF Way
<1> QED
  BY <1>1 DEF IsWalk

(* Along a path, with links and without. *)
LEMMA WayByEntries ==
  ASSUME NEW t, NEW names, Len(names) \in Nat
  PROVE  LET v == Way(t, names, TRUE)
             w == Way(t, names, FALSE)
         IN  /\ v[0] = Root /\ w[0] = Root
             /\ \A i \in 1 .. Len(names) : v[i] = Entry(t, Follow(v[i - 1]), names[i])
             /\ \A i \in 1 .. Len(names) : w[i] = Entry(t, w[i - 1], names[i])
<1> DEFINE v == Way(t, names, TRUE)
           w == Way(t, names, FALSE)
<1>1. /\ v[0] = Root
      /\ \A i \in 1 .. Len(names) : v[i] = Step(t, v[i - 1], names[i], TRUE)
  BY WaySteps, Zenon
<1>2. /\ w[0] = Root
      /\ \A i \in 1 .. Len(names) : w[i] = Step(t, w[i - 1], names[i], FALSE)
  BY WaySteps, Zenon
<1> HIDE DEF v, w
<1>3. \A i \in 1 .. Len(names) : v[i] = Entry(t, Follow(v[i - 1]), names[i])
  BY <1>1 DEF Step
<1>4. \A i \in 1 .. Len(names) : w[i] = Entry(t, w[i - 1], names[i])
  BY <1>2 DEF Step
<1> QED
  BY <1>1, <1>2, <1>3, <1>4 DEF v, w

(* Where the first m names lead is where the way is after m steps. *)
LEMMA LookupOfPrefix ==
  ASSUME NEW t, NEW names, names \in Seq(Range(names)), NEW follow, NEW m \in 0 .. Len(names)
  PROVE  Lookup(t, SubSeq(names, 1, m), follow) = Way(t, names, follow)[m]
<1> DEFINE pre == SubSeq(names, 1, m)
           v == Way(t, pre, follow)
           w == Way(t, names, follow)
           S == {i \in 0 .. m : v[i] = w[i]}
<1>1. Len(names) \in Nat /\ m \in Nat /\ Len(pre) = m /\ \A i \in 1 .. m : pre[i] = names[i]
  OBVIOUS
<1> HIDE DEF pre
<1>2. /\ v[0] = Root /\ w[0] = Root
      /\ \A i \in 1 .. m : v[i] = Step(t, v[i - 1], pre[i], follow)
      /\ \A i \in 1 .. m : w[i] = Step(t, w[i - 1], names[i], follow)
  <2>1. /\ v[0] = Root /\ \A i \in 1 .. Len(pre) : v[i] = Step(t, v[i - 1], pre[i], follow)
    BY <1>1, WaySteps
  <2>2. /\ w[0] = Root /\ \A i \in 1 .. Len(names) : w[i] = Step(t, w[i - 1], names[i], follow)
    BY <1>1, WaySteps
  <2> QED
    BY <1>1, <2>1, <2>2
<1> HIDE DEF v, w
<1>3. ASSUME NEW i \in 0 .. m - 1, i \in S PROVE i + 1 \in S
  <2>1. i + 1 \in 1 .. m /\ i + 1 - 1 = i /\ v[i] = w[i] /\ i + 1 \in 0 .. m
    BY <1>1, <1>3
  <2> QED
    BY <1>1, <1>2, <2>1
<1>4. 0 \in S
  BY <1>1, <1>2
<1> HIDE DEF S
<1>5. \A i \in 0 .. m : i \in S
  BY <1>1, <1>3, <1>4, Upwards
<1>6. v[m] = w[m]
  BY <1>1, <1>5 DEF S
<1> QED
  BY <1>1, <1>6, LookupIsWay DEF pre, v, w

(* Where the names lead through directories, following links or not makes   *)
(* no difference.                                                           *)
LEMMA SameWay ==
  ASSUME NEW t, NEW names, Len(names) \in Nat,
         \/ \A i \in 0 .. Len(names) - 1 : Way(t, names, TRUE)[i] \in Dirs
         \/ \A i \in 0 .. Len(names) - 1 : Way(t, names, FALSE)[i] \in Dirs
  PROVE  \A i \in 0 .. Len(names) : Way(t, names, TRUE)[i] = Way(t, names, FALSE)[i]
<1> DEFINE n == Len(names)
           v == Way(t, names, TRUE)
           w == Way(t, names, FALSE)
           S == {i \in 0 .. n : v[i] = w[i]}
<1>1. /\ v[0] = Root /\ w[0] = Root
      /\ \A i \in 1 .. n : v[i] = Entry(t, Follow(v[i - 1]), names[i])
      /\ \A i \in 1 .. n : w[i] = Entry(t, w[i - 1], names[i])
  BY WayByEntries
<1>2. /\ n \in Nat
      /\ (\A i \in 0 .. n - 1 : v[i] \in Dirs) \/ (\A i \in 0 .. n - 1 : w[i] \in Dirs)
  OBVIOUS
<1> HIDE DEF n, v, w
<1>3. 0 \in S
  BY <1>1, <1>2
<1>4. ASSUME NEW i \in 0 .. n - 1, i \in S PROVE i + 1 \in S
  <2>1. i + 1 \in 1 .. n /\ i + 1 - 1 = i /\ i + 1 \in 0 .. n /\ v[i] = w[i]
    BY <1>2, <1>4
  <2>2. v[i] \in Dirs /\ v[i] \notin Links
    BY <1>2, <2>1, TreeAssumption
  <2>3. v[i + 1] = Entry(t, Follow(v[i]), names[i + 1])
    BY <1>1, <2>1
  <2>4. w[i + 1] = Entry(t, w[i], names[i + 1])
    BY <1>1, <2>1
  <2>5. v[i + 1] = w[i + 1]
    BY <2>1, <2>2, <2>3, <2>4 DEF Follow
  <2> QED
    BY <2>1, <2>5
<1> HIDE DEF S
<1>5. \A i \in 0 .. n : i \in S
  BY <1>2, <1>3, <1>4, Upwards
<1> QED
  BY <1>5 DEF S, n, v, w

(* A file is only found through directories. *)
LEMMA FoundThroughDirs ==
  ASSUME NEW t, NEW names, Len(names) \in Nat, Way(t, names, FALSE)[Len(names)] # None
  PROVE  \A i \in 0 .. Len(names) - 1 : Way(t, names, FALSE)[i] \in Dirs
<1> DEFINE n == Len(names)
           w == Way(t, names, FALSE)
           S == {i \in 0 .. n : w[n - i] # None}
<1>1. \A i \in 1 .. n : w[i] = Entry(t, w[i - 1], names[i])
  BY WayByEntries
<1>2. w[n] # None /\ n \in Nat
  OBVIOUS
<1> HIDE DEF n, w
<1>3. \A i \in 1 .. n : w[i] # None => w[i - 1] \in Dirs
  BY <1>1 DEF Entry
<1>4. 0 \in S
  BY <1>2
<1>5. ASSUME NEW i \in 0 .. n - 1, i \in S PROVE i + 1 \in S
  <2>1. n - i \in 1 .. n /\ (n - i) - 1 = n - (i + 1) /\ i + 1 \in 0 .. n /\ w[n - i] # None
    BY <1>2, <1>5
  <2>2. w[n - (i + 1)] \in Dirs
    BY <1>3, <2>1
  <2>3. w[n - (i + 1)] # None
    BY <2>2, TreeAssumption
  <2> QED
    BY <2>1, <2>3
<1> HIDE DEF S
<1>6. \A i \in 0 .. n : i \in S
  BY <1>2, <1>4, <1>5, Upwards
<1>7. ASSUME NEW i \in 0 .. n - 1 PROVE w[i] \in Dirs
  <2>1. n - (i + 1) \in 0 .. n /\ n - (n - (i + 1)) = i + 1 /\ i + 1 \in 1 .. n /\ i + 1 - 1 = i
    BY <1>2
  <2>2. w[i + 1] # None
    BY <1>6, <2>1 DEF S
  <2> QED
    BY <1>3, <2>1, <2>2
<1> QED
  BY <1>7 DEF n, w

(* A file that is found without following links is found in the same way    *)
(* with it, and Lstat sees directories before it.                           *)
LEMMA PlainFileFound ==
  ASSUME NEW t, NEW names, Len(names) \in Nat, Lookup(t, names, FALSE) \in Files
  PROVE  /\ Lookup(t, names, TRUE) = Lookup(t, names, FALSE)
         /\ \A i \in 0 .. Len(names) - 1 : Way(t, names, TRUE)[i] \in Dirs
<1>1. Way(t, names, FALSE)[Len(names)] # None
  BY LookupIsWay, TreeAssumption
<1>2. \A i \in 0 .. Len(names) - 1 : Way(t, names, FALSE)[i] \in Dirs
  BY <1>1, FoundThroughDirs
<1>3. \A i \in 0 .. Len(names) : Way(t, names, FALSE)[i] = Way(t, names, TRUE)[i]
  BY <1>2, SameWay
<1>4. Len(names) \in 0 .. Len(names) /\ \A i \in 0 .. Len(names) - 1 : i \in 0 .. Len(names)
  OBVIOUS
<1> QED
  BY <1>2, <1>3, <1>4, LookupIsWay

(* Where Lstat sees directories, the path leads to the same with and        *)
(* without following links.                                                 *)
LEMMA LstatIsPlain ==
  ASSUME NEW t, NEW names, Len(names) \in Nat,
         \A i \in 0 .. Len(names) - 1 : Way(t, names, TRUE)[i] \in Dirs
  PROVE  Lookup(t, names, TRUE) = Lookup(t, names, FALSE)
<1>1. \A i \in 0 .. Len(names) : Way(t, names, TRUE)[i] = Way(t, names, FALSE)[i]
  BY SameWay
<1>2. Len(names) \in 0 .. Len(names)
  OBVIOUS
<1> QED
  BY <1>1, <1>2, LookupIsWay

-----------------------------------------------------------------------------
(* Scanning a text *)

\* The character at i may stand there, or starts an escape.
Passes(s, i, allowed) ==
  \/ s[i] \in allowed
  \/ s[i] = "%" /\ i + 2 <= Len(s) /\ s[i + 1] \in Hex /\ s[i + 2] \in Hex

\* The recursive function of validateComponent: the text is legal from i on.
IsScan(ok, s, allowed) ==
  ok = [i \in 1 .. Len(s) + 1 |->
          IF i > Len(s) THEN TRUE
          ELSE IF s[i] = "%"
          THEN i + 2 <= Len(s) /\ s[i + 1] \in Hex /\ s[i + 2] \in Hex /\ ok[i + 3]
          ELSE s[i] \in allowed /\ ok[i + 1]]

Scan(s, allowed) == CHOOSE ok : IsScan(ok, s, allowed)

(* validateComponent is the scan from the first character on. *)
LEMMA ValidateIsScan ==
  ASSUME NEW s, NEW allowed
  PROVE  validateComponent(s, allowed) = Scan(s, allowed)[1]
BY DEF validateComponent, Scan, IsScan

\* What that is, without recursion.
Clear(s, i, allowed) == \A j \in i .. Len(s) : Passes(s, j, allowed)

(* Whether the rest of a text is clear is told by its first character, or   *)
(* by an escape, and by what follows it.                                    *)
LEMMA ClearStep ==
  ASSUME NEW s, Len(s) \in Nat, NEW allowed, "%" \notin allowed, Hex \subseteq allowed,
         NEW i \in 1 .. Len(s)
  PROVE  /\ s[i] = "%" =>
              (Clear(s, i, allowed) <=> /\ i + 2 <= Len(s) /\ s[i + 1] \in Hex /\ s[i + 2] \in Hex
                                        /\ Clear(s, i + 3, allowed))
         /\ s[i] # "%" =>
              (Clear(s, i, allowed) <=> s[i] \in allowed /\ Clear(s, i + 1, allowed))
<1>1. CASE s[i] # "%"
  <2>1. Passes(s, i, allowed) <=> s[i] \in allowed
    BY <1>1 DEF Passes
  <2>2. Clear(s, i, allowed) <=> Passes(s, i, allowed) /\ Clear(s, i + 1, allowed)
    BY DEF Clear
  <2> QED
    BY <1>1, <2>1, <2>2
<1>2. CASE s[i] = "%"
  <2> DEFINE complete == i + 2 <= Len(s) /\ s[i + 1] \in Hex /\ s[i + 2] \in Hex
  <2>1. Passes(s, i, allowed) <=> complete
    BY <1>2 DEF Passes
  <2>2. complete => Passes(s, i + 1, allowed) /\ Passes(s, i + 2, allowed)
    BY DEF Passes
  <2>3. Clear(s, i, allowed) => Passes(s, i, allowed)
    BY DEF Clear
  <2>4. Clear(s, i, allowed) => Clear(s, i + 3, allowed)
    BY DEF Clear
  <2>5. Passes(s, i, allowed) /\ Passes(s, i + 1, allowed) /\ Passes(s, i + 2, allowed)
          /\ Clear(s, i + 3, allowed) => Clear(s, i, allowed)
    <3>1. \A j \in i .. Len(s) : j = i \/ j = i + 1 \/ j = i + 2 \/ j \in i + 3 .. Len(s)
      OBVIOUS
    <3> QED
      BY <3>1 DEF Clear
  <2> QED
    BY <1>2, <2>1, <2>2, <2>3, <2>4, <2>5
<1> QED
  BY <1>1, <1>2

(* A text can be scanned: clearness solves the recursion of the loop. *)
LEMMA ScanExists ==
  ASSUME NEW s, Len(s) \in Nat, NEW allowed, "%" \notin allowed, Hex \subseteq allowed
  PROVE  \E ok : IsScan(ok, s, allowed)
<1> DEFINE ok == [i \in 1 .. Len(s) + 1 |-> Clear(s, i, allowed)]
<1>1. ASSUME NEW i \in 1 .. Len(s) + 1
      PROVE  Clear(s, i, allowed) =
               IF i > Len(s) THEN TRUE
               ELSE IF s[i] = "%"
               THEN i + 2 <= Len(s) /\ s[i + 1] \in Hex /\ s[i + 2] \in Hex /\ ok[i + 3]
               ELSE s[i] \in allowed /\ ok[i + 1]
  <2>1. CASE i > Len(s)
    <3>1. Clear(s, i, allowed)
      BY <2>1 DEF Clear
    <3> QED
      BY <2>1, <3>1 DEF Clear
  <2>2. CASE i \in 1 .. Len(s) /\ s[i] = "%"
    <3>1. i + 2 <= Len(s) => ok[i + 3] = Clear(s, i + 3, allowed)
      BY <2>2
    <3>2. Clear(s, i, allowed) <=> /\ i + 2 <= Len(s) /\ s[i + 1] \in Hex /\ s[i + 2] \in Hex
                                   /\ Clear(s, i + 3, allowed)
      BY <2>2, ClearStep
    <3>3. Clear(s, i, allowed) \in BOOLEAN
      BY DEF Clear
    <3>4. ~ (i > Len(s))
      BY <2>2
    <3> HIDE DEF ok
    <3>5. Clear(s, i, allowed)
            = (i + 2 <= Len(s) /\ s[i + 1] \in Hex /\ s[i + 2] \in Hex /\ ok[i + 3])
      BY <3>1, <3>2, <3>3, Zenon
    <3> QED
      BY <2>2, <3>4, <3>5, Zenon
  <2>3. CASE i \in 1 .. Len(s) /\ s[i] # "%"
    <3>1. ok[i + 1] = Clear(s, i + 1, allowed)
      BY <2>3
    <3>2. Clear(s, i, allowed) <=> s[i] \in allowed /\ Clear(s, i + 1, allowed)
      BY <2>3, ClearStep
    <3>3. Clear(s, i, allowed) \in BOOLEAN
      BY DEF Clear
    <3>4. ~ (i > Len(s))
      BY <2>3
    <3> HIDE DEF ok
    <3>5. Clear(s, i, allowed) = (s[i] \in allowed /\ ok[i + 1])
      BY <3>1, <3>2, <3>3, Zenon
    <3> QED
      BY <2>3, <3>4, <3>5, Zenon
  <2>4. i > Len(s) \/ (i \in 1 .. Len(s) /\ s[i] = "%") \/ (i \in 1 .. Len(s) /\ s[i] # "%")
    OBVIOUS
  <2> HIDE DEF ok
  <2> QED
    BY <2>1, <2>2, <2>3, <2>4, Zenon
<1>2. IsScan(ok, s, allowed)
  BY <1>1 DEF IsScan
<1> QED
  BY <1>2

(* The scanner accepts exactly the components. *)
LEMMA ScannerExact ==
  ASSUME NEW s, Len(s) \in Nat, NEW allowed, "%" \notin allowed, Hex \subseteq allowed
  PROVE  validateComponent(s, allowed) <=> Component(s, allowed)
<1> DEFINE n == Len(s) + 1
           ok == Scan(s, allowed)
           S == {i \in 1 .. n : ok[i] <=> Clear(s, i, allowed)}
<1>1. IsScan(ok, s, allowed)
  BY ScanExists DEF Scan
<1>2. /\ ok[n]
      /\ \A i \in 1 .. Len(s) :
           /\ s[i] = "%" =>
                (ok[i] <=> i + 2 <= Len(s) /\ s[i + 1] \in Hex /\ s[i + 2] \in Hex /\ ok[i + 3])
           /\ s[i] # "%" => (ok[i] <=> s[i] \in allowed /\ ok[i + 1])
  <2> HIDE DEF ok
  <2>1. \A i \in 1 .. Len(s) + 1 :
          ok[i] = IF i > Len(s) THEN TRUE
                  ELSE IF s[i] = "%"
                  THEN i + 2 <= Len(s) /\ s[i + 1] \in Hex /\ s[i + 2] \in Hex /\ ok[i + 3]
                  ELSE s[i] \in allowed /\ ok[i + 1]
    BY <1>1, Zenon DEF IsScan
  <2>2. /\ Len(s) + 1 \in 1 .. Len(s) + 1 /\ Len(s) + 1 > Len(s)
        /\ \A i \in 1 .. Len(s) : i \in 1 .. Len(s) + 1 /\ ~ (i > Len(s))
    OBVIOUS
  <2>3. ok[n]
    BY <2>1, <2>2, Zenon
  <2> QED
    BY <2>1, <2>2, <2>3, Zenon
<1> HIDE DEF ok
<1>3. ASSUME NEW i \in 1 .. n, \A j \in i + 1 .. n : j \in S PROVE i \in S
  <2>1. CASE i = n
    BY <1>2, <2>1 DEF Clear
  <2>2. CASE i \in 1 .. Len(s) /\ s[i] = "%"
    <3>1. i + 2 <= Len(s) => (ok[i + 3] <=> Clear(s, i + 3, allowed))
      BY <1>3, <2>2
    <3> QED
      BY <1>2, <2>2, <3>1, ClearStep
  <2>3. CASE i \in 1 .. Len(s) /\ s[i] # "%"
    <3>1. ok[i + 1] <=> Clear(s, i + 1, allowed)
      BY <1>3, <2>3
    <3> QED
      BY <1>2, <2>3, <3>1, ClearStep
  <2> QED
    BY <2>1, <2>2, <2>3
<1>4. n \in Nat /\ 1 \in 1 .. n
  OBVIOUS
<1> HIDE DEF n, S
<1>5. 1 \in S
  BY <1>3, <1>4, Downwards
<1>6. Clear(s, 1, allowed) <=> Component(s, allowed)
  BY DEF Clear, Component, Passes
<1> QED
  BY <1>5, <1>6, ValidateIsScan DEF S, ok

-----------------------------------------------------------------------------
(* Decoding a text *)

\* What a text decodes to.
Octets == Symbols \cup {"\"", "control", "not UTF-8"}

\* The character that starts at i, and where the next one starts.
Character(s, i) == IF s[i] = "%" THEN Byte(s[i + 1], s[i + 2]) ELSE s[i]
After(s, i) == IF s[i] = "%" THEN i + 3 ELSE i + 1

\* The recursive function of Decoded: what the text from i on decodes to.
IsDecoding(g, s) ==
  g = [i \in 1 .. Len(s) + 1 |->
         IF i > Len(s) THEN <<>>
         ELSE IF s[i] = "%" THEN <<Byte(s[i + 1], s[i + 2])>> \o g[i + 3]
         ELSE <<s[i]>> \o g[i + 1]]

Decoding(s) == CHOOSE g : IsDecoding(g, s)

(* Decoded is the decoding from the first character on. *)
LEMMA DecodedIsDecoding ==
  ASSUME NEW s
  PROVE  Decoded(s) = Decoding(s)[1]
BY DEF Decoded, Decoding, IsDecoding

(* Each character decodes to one octet, and the next one starts within the  *)
(* text or just after it.                                                   *)
LEMMA CharacterType ==
  ASSUME NEW s \in Seq(Symbols), Component(s, PathChars), NEW i \in 1 .. Len(s)
  PROVE  Character(s, i) \in Octets /\ After(s, i) \in i + 1 .. Len(s) + 1
<1>5. s[i] \in Symbols
  OBVIOUS
<1>1. s[i] \in Octets
  BY <1>5 DEF Octets
<1>4. Byte(s[i + 1], s[i + 2]) \in Octets
  BY DEF Byte, Octets, Symbols, NotASCII, QueryChars, PathChars
<1>2. s[i] = "%" => i + 2 <= Len(s)
  BY DEF Component, PathChars, LowerAlnum, UpperAlpha
<1>3. Len(s) \in Nat
  OBVIOUS
<1> QED
  BY <1>1, <1>2, <1>3, <1>4 DEF Character, After

(* What a decoding is, on a text that can be decoded. *)
LEMMA DecodingSteps ==
  ASSUME NEW s \in Seq(Symbols), Component(s, PathChars), NEW g
  PROVE  IsDecoding(g, s) <=>
           /\ g = [i \in 1 .. Len(s) + 1 |-> g[i]]
           /\ g[Len(s) + 1] = <<>>
           /\ \A i \in 1 .. Len(s) : g[i] = <<Character(s, i)>> \o g[After(s, i)]
<1> DEFINE n == Len(s)
           d(i) == IF i > n THEN <<>>
                   ELSE IF s[i] = "%" THEN <<Byte(s[i + 1], s[i + 2])>> \o g[i + 3]
                   ELSE <<s[i]>> \o g[i + 1]
<1>1. n \in Nat
  OBVIOUS
<1>2. n + 1 \in 1 .. n + 1 /\ \A i \in 1 .. n : i \in 1 .. n + 1
  BY <1>1
<1>3. d(n + 1) = <<>>
  BY <1>1
<1>4. \A i \in 1 .. n : d(i) = <<Character(s, i)>> \o g[After(s, i)]
  BY <1>1 DEF Character, After
<1>5. \A i \in 1 .. n + 1 : i = n + 1 \/ i \in 1 .. n
  BY <1>1
<1>6. IsDecoding(g, s) <=> g = [i \in 1 .. n + 1 |-> d(i)]
  BY DEF IsDecoding
<1> HIDE DEF d, n
<1>7. g = [i \in 1 .. n + 1 |-> d(i)] <=>
        (g = [i \in 1 .. n + 1 |-> g[i]]) /\ \A i \in 1 .. n + 1 : g[i] = d(i)
  OBVIOUS
<1>8. (\A i \in 1 .. n + 1 : g[i] = d(i)) <=>
        g[n + 1] = <<>> /\ \A i \in 1 .. n : g[i] = <<Character(s, i)>> \o g[After(s, i)]
  BY <1>2, <1>3, <1>4, <1>5
<1> QED
  BY <1>6, <1>7, <1>8 DEF n

(* A path whose escapes are whole can be decoded: the recursion of the loop *)
(* has a solution.                                                          *)
LEMMA DecodingExists ==
  ASSUME NEW s \in Seq(Symbols), Component(s, PathChars)
  PROVE  \E g : IsDecoding(g, s)
<1> DEFINE n == Len(s) + 1
           Good(g, m) == /\ g[n] = <<>>
                         /\ \A i \in m .. n - 1 : g[i] = <<Character(s, i)>> \o g[After(s, i)]
           S == {m \in 1 .. n : \E g \in [1 .. n -> Seq(Octets)] : Good(g, m)}
<1>1. n \in Nat /\ 1 \in 1 .. n /\ n - 1 = Len(s)
  OBVIOUS
<1>2. \A i \in 1 .. n - 1 : Character(s, i) \in Octets /\ After(s, i) \in i + 1 .. n
  BY CharacterType
<1> HIDE DEF n
<1>3. ASSUME NEW m \in 1 .. n, \A j \in m + 1 .. n : j \in S PROVE m \in S
  <2>1. CASE m = n
    <3> DEFINE g == [i \in 1 .. n |-> <<>>]
    <3>1. g \in [1 .. n -> Seq(Octets)] /\ g[n] = <<>>
      BY <1>1
    <3>2. m .. n - 1 = {}
      BY <1>1, <2>1
    <3> HIDE DEF g
    <3>3. Good(g, m)
      BY <3>1, <3>2
    <3> QED
      BY <3>1, <3>3
  <2>2. CASE m # n
    <3>1. m + 1 \in m + 1 .. n /\ m \in 1 .. n - 1 /\ m + 1 \in 1 .. n
      BY <1>1, <2>2
    <3>2. PICK g \in [1 .. n -> Seq(Octets)] : Good(g, m + 1)
      BY <1>3, <3>1
    <3> DEFINE x == <<Character(s, m)>> \o g[After(s, m)]
               h == [g EXCEPT ![m] = x]
    <3>3. x \in Seq(Octets)
      <4>1. Character(s, m) \in Octets /\ After(s, m) \in 1 .. n
        BY <1>1, <1>2, <3>1
      <4>2. g[After(s, m)] \in Seq(Octets)
        BY <4>1
      <4>3. <<Character(s, m)>> \in Seq(Octets)
        BY <4>1
      <4> QED
        BY <4>2, <4>3
    <3> HIDE DEF x
    <3>4. /\ h \in [1 .. n -> Seq(Octets)] /\ h[m] = x
          /\ \A i \in 1 .. n : i # m => h[i] = g[i]
      BY <3>3
    <3> HIDE DEF h
    <3>5. h[n] = <<>>
      BY <1>1, <2>2, <3>2, <3>4
    <3>6. ASSUME NEW i \in m .. n - 1 PROVE h[i] = <<Character(s, i)>> \o h[After(s, i)]
      <4>1. i \in 1 .. n - 1 /\ i \in 1 .. n /\ i >= m
        BY <1>1
      <4>2. After(s, i) \in i + 1 .. n
        BY <1>2, <4>1
      <4>3. After(s, i) \in 1 .. n /\ After(s, i) # m
        BY <1>1, <4>1, <4>2
      <4>4. h[After(s, i)] = g[After(s, i)]
        BY <3>4, <4>3
      <4>5. CASE i = m
        BY <3>4, <4>4, <4>5 DEF x
      <4>6. CASE i # m
        <5>1. i \in m + 1 .. n - 1
          BY <4>1, <4>6
        <5>2. g[i] = <<Character(s, i)>> \o g[After(s, i)]
          BY <3>2, <5>1
        <5> QED
          BY <3>4, <4>1, <4>4, <4>6, <5>2
      <4> QED
        BY <4>5, <4>6
    <3>7. Good(h, m)
      BY <3>5, <3>6
    <3> QED
      BY <3>4, <3>7
  <2> QED
    BY <2>1, <2>2
<1> HIDE DEF S
<1>4. 1 \in S
  BY <1>1, <1>3, Downwards
<1>5. PICK g \in [1 .. n -> Seq(Octets)] : Good(g, 1)
  BY <1>4 DEF S
<1>6. g = [i \in 1 .. n |-> g[i]]
  OBVIOUS
<1>7. IsDecoding(g, s)
  BY <1>1, <1>5, <1>6, DecodingSteps DEF n
<1> QED
  BY <1>7

(* The decoding of a text, character by character. *)
LEMMA DecodingIs ==
  ASSUME NEW s \in Seq(Symbols), Component(s, PathChars)
  PROVE  LET g == Decoding(s)
         IN  /\ g[Len(s) + 1] = <<>>
             /\ \A i \in 1 .. Len(s) : g[i] = <<Character(s, i)>> \o g[After(s, i)]
             /\ \A i \in 1 .. Len(s) + 1 : g[i] \in Seq(Octets)
<1> DEFINE n == Len(s) + 1
           g == Decoding(s)
           S == {i \in 1 .. n : g[i] \in Seq(Octets)}
<1>1. IsDecoding(g, s)
  BY DecodingExists DEF Decoding
<1> HIDE DEF g
<1>2. g[n] = <<>> /\ \A i \in 1 .. Len(s) : g[i] = <<Character(s, i)>> \o g[After(s, i)]
  BY <1>1, DecodingSteps
<1>3. n \in Nat /\ Len(s) = n - 1
  OBVIOUS
<1>4. ASSUME NEW i \in 1 .. n, \A j \in i + 1 .. n : j \in S PROVE i \in S
  <2>1. CASE i = n
    <3>1. g[n] \in Seq(Octets)
      BY <1>2
    <3> QED
      BY <2>1, <3>1
  <2>2. CASE i # n
    <3>1. i \in 1 .. Len(s)
      BY <1>3, <2>2
    <3>2. Character(s, i) \in Octets /\ After(s, i) \in i + 1 .. n
      BY <3>1, CharacterType
    <3>3. g[After(s, i)] \in Seq(Octets)
      BY <1>4, <3>2
    <3>4. <<Character(s, i)>> \in Seq(Octets)
      BY <3>2
    <3>6. <<Character(s, i)>> \o g[After(s, i)] \in Seq(Octets)
      BY <3>3, <3>4
    <3>5. g[i] \in Seq(Octets)
      BY <1>2, <3>1, <3>6
    <3> QED
      BY <3>5
  <2> QED
    BY <2>1, <2>2
<1> HIDE DEF n, S
<1>5. \A i \in 1 .. n : i \in S
  BY <1>3, <1>4, Downwards
<1> QED
  BY <1>2, <1>5 DEF S, g, n

(* A path decodes to a text that starts like it. *)
LEMMA DecodedPath ==
  ASSUME NEW s \in Seq(Symbols), Component(s, PathChars), s # <<>>, s[1] = "/"
  PROVE  Decoded(s) \in Seq(Octets) /\ Len(Decoded(s)) >= 1 /\ Decoded(s)[1] = "/"
<1>1. 1 \in 1 .. Len(s) /\ 1 \in 1 .. Len(s) + 1 /\ 2 \in 1 .. Len(s) + 1
  OBVIOUS
<1>2. Character(s, 1) = "/" /\ After(s, 1) = 2
  BY DEF Character, After
<1> DEFINE g == Decoding(s)
<1>3. g[1] = <<Character(s, 1)>> \o g[After(s, 1)] /\ g[2] \in Seq(Octets)
  BY <1>1, DecodingIs
<1> HIDE DEF g
<1>4. g[1] \in Seq(Octets) /\ Len(g[1]) >= 1 /\ g[1][1] = "/"
  <2>1. ASSUME NEW c \in Octets, NEW r \in Seq(Octets)
        PROVE  /\ <<c>> \o r \in Seq(Octets)
               /\ Len(<<c>> \o r) >= 1 /\ (<<c>> \o r)[1] = c
    OBVIOUS
  <2>2. Character(s, 1) \in Octets
    BY <1>1, CharacterType
  <2> QED
    BY <1>2, <1>3, <2>1, <2>2
<1> QED
  BY <1>4, DecodedIsDecoding DEF g

(* A path that ends in a character that is no digit of an escape decodes to *)
(* a text that ends in it.                                                  *)
LEMMA DecodedLast ==
  ASSUME NEW s \in Seq(Symbols), Component(s, PathChars), s # <<>>,
         s[Len(s)] \notin Hex, s[Len(s)] # "%"
  PROVE  Decoded(s)[Len(Decoded(s))] = s[Len(s)]
<1> DEFINE n == Len(s)
           g == Decoding(s)
           x == s[n]
           S == {i \in 1 .. n : Len(g[i]) >= 1 /\ g[i][Len(g[i])] = x}
<1>1. n \in Nat /\ n >= 1 /\ n \in 1 .. n
  OBVIOUS
<1>2. /\ g[n + 1] = <<>> /\ \A i \in 1 .. n : g[i] = <<Character(s, i)>> \o g[After(s, i)]
      /\ \A i \in 1 .. n + 1 : g[i] \in Seq(Octets)
  BY DecodingIs
<1>3. \A i \in 1 .. n : Character(s, i) \in Octets /\ After(s, i) \in i + 1 .. n + 1
  BY CharacterType
<1> HIDE DEF g
<1>4. ASSUME NEW c \in Octets, NEW r \in Seq(Octets)
      PROVE  /\ Len(<<c>> \o r) >= 1
             /\ r = <<>> => (<<c>> \o r)[Len(<<c>> \o r)] = c
             /\ Len(r) >= 1 => (<<c>> \o r)[Len(<<c>> \o r)] = r[Len(r)]
  OBVIOUS
<1>5. ASSUME NEW i \in 1 .. n, \A j \in i + 1 .. n : j \in S PROVE i \in S
  <2>1. CASE i = n
    <3>1. Character(s, i) = x /\ After(s, i) = n + 1
      BY <2>1 DEF Character, After
    <3>2. g[i] = <<Character(s, i)>> \o g[After(s, i)] /\ Character(s, i) \in Octets
      BY <1>2, <1>3, Zenon
    <3>3. g[n + 1] \in Seq(Octets)
      BY <1>2, <1>1
    <3>4. Len(g[i]) >= 1 /\ g[i][Len(g[i])] = x
      <4> HIDE DEF x, n
      <4> QED
        BY <1>2, <1>4, <3>1, <3>2, <3>3
    <3> QED
      BY <3>4
  <2>2. CASE i # n
    <3>1. After(s, i) \in i + 1 .. n
      <4>1. s[i] = "%" => i + 2 <= n /\ s[i + 2] \in Hex
        BY DEF Component, PathChars, LowerAlnum, UpperAlpha
      <4>2. s[i] = "%" => i + 2 # n
        BY <4>1
      <4> QED
        BY <1>1, <2>2, <4>1, <4>2 DEF After
    <3>2. After(s, i) \in S /\ After(s, i) \in 1 .. n + 1
      BY <1>1, <1>5, <3>1
    <3>3. g[i] = <<Character(s, i)>> \o g[After(s, i)] /\ Character(s, i) \in Octets
      BY <1>2, <1>3
    <3>4. g[After(s, i)] \in Seq(Octets)
      BY <1>2, <3>2
    <3>5. Len(g[After(s, i)]) >= 1 /\ g[After(s, i)][Len(g[After(s, i)])] = x
      BY <3>2
    <3>6. Len(g[i]) >= 1 /\ g[i][Len(g[i])] = x
      <4> HIDE DEF x, n
      <4> QED
        BY <1>4, <3>3, <3>4, <3>5
    <3> QED
      BY <3>6
  <2> QED
    BY <2>1, <2>2
<1> HIDE DEF n, S, x
<1>6. \A i \in 1 .. n : i \in S
  BY <1>1, <1>5, Downwards
<1>7. g[1][Len(g[1])] = x
  <2>1. 1 \in S
    BY <1>1, <1>6
  <2> QED
    BY <2>1 DEF S
<1> QED
  BY <1>7, DecodedIsDecoding DEF g, x, n

-----------------------------------------------------------------------------
(* Parts of a text *)

(* The parts of a text are a sequence, and at least one. *)
LEMMA SplitParts ==
  ASSUME NEW s \in Seq(Octets), NEW sep
  PROVE  /\ Split(s, sep) \in Seq(Range(Split(s, sep)))
         /\ Len(Split(s, sep)) \in Nat /\ Len(Split(s, sep)) >= 1
<1> DEFINE seps == {i \in 1 .. Len(s) : s[i] = sep}
           m == Cardinality(seps) + 1
           r == Split(s, sep)
           Cut(n) == IF n = 0 THEN 0
                     ELSE CHOOSE i \in seps \cup {Len(s) + 1} :
                            Cardinality({j \in seps : j < i}) = n - 1
<1>1. Len(s) \in Nat /\ seps \in SUBSET (1 .. Len(s)) /\ 1 \in Int /\ Len(s) \in Int
  OBVIOUS
<1>2. IsFiniteSet(1 .. Len(s))
  BY <1>1, FS_Interval
<1>3. IsFiniteSet(seps)
  BY <1>1, <1>2, FS_Subset
<1>4. Cardinality(seps) \in Nat
  BY <1>3, FS_CardinalityType
<1>5. m \in Nat /\ m >= 1
  BY <1>4
<1>9. r = [n \in 1 .. m |-> SubSeq(s, Cut(n - 1) + 1, Cut(n) - 1)]
  BY Zenon DEF Split
<1> HIDE DEF Cut, m, r
<1>6. r = [n \in 1 .. m |-> r[n]]
  BY <1>9
<1>7. \A n \in 1 .. m : r[n] \in Range(r)
  BY <1>6 DEF Range
<1>8. Len(r) = m /\ r \in Seq(Range(r))
  BY <1>5, <1>6, <1>7
<1> QED
  BY <1>5, <1>8 DEF r

(* Where the first character of a set is. *)
LEMMA IndexAnyIs ==
  ASSUME NEW s \in Seq(Symbols), NEW set
  PROVE  /\ IndexAny(s, set) \in 1 .. Len(s) + 1
         /\ \A i \in 1 .. IndexAny(s, set) - 1 : s[i] \notin set
         /\ IndexAny(s, set) <= Len(s) => s[IndexAny(s, set)] \in set
<1> DEFINE I == {i \in 1 .. Len(s) : s[i] \in set}
<1>1. IndexAny(s, set) = IF I # {} THEN (IF Min(I) = 0 THEN Len(s) + 1 ELSE Min(I)) ELSE Len(s) + 1
  BY DEF IndexAny, SelectInSeq
<1>2. Len(s) \in Nat /\ I \in SUBSET Nat /\ I \subseteq 1 .. Len(s)
  OBVIOUS
<1>3. CASE I = {}
  BY <1>1, <1>2, <1>3
<1>4. CASE I # {}
  <2>1. PICK x \in I : \A y \in I : x <= y
    BY <1>2, <1>4, LeastNumber
  <2>2. Min(I) \in I /\ \A y \in I : Min(I) <= y
    BY <2>1 DEF Min
  <2> DEFINE z == Min(I)
  <2> HIDE DEF z
  <2>3. z \in I /\ \A y \in I : z <= y
    BY <2>2 DEF z
  <2>4. z # 0 /\ IndexAny(s, set) = z
    BY <1>1, <1>2, <1>4, <2>3 DEF z
  <2> QED
    BY <1>2, <2>3, <2>4
<1> QED
  BY <1>3, <1>4

-----------------------------------------------------------------------------
(* Taking a text apart *)

(* The part of a text between two places, and what stands in it. *)
LEMMA SubSeqIs ==
  ASSUME NEW s \in Seq(Symbols), NEW i \in 1 .. Len(s) + 1, NEW j \in 0 .. Len(s), i <= j + 1
  PROVE  /\ SubSeq(s, i, j) \in Seq(Symbols) /\ Len(SubSeq(s, i, j)) = j - i + 1
         /\ \A m \in 1 .. j - i + 1 : SubSeq(s, i, j)[m] = s[m + i - 1]
OBVIOUS

(* A part of a part. *)
LEMMA PartOfPart ==
  ASSUME NEW s \in Seq(Symbols), NEW i \in 1 .. Len(s) + 1, NEW j \in 0 .. Len(s), i <= j + 1,
         NEW c \in 1 .. (j - i + 1) + 1, NEW d \in 0 .. j - i + 1, c <= d + 1
  PROVE  SubSeq(SubSeq(s, i, j), c, d) = SubSeq(s, c + i - 1, d + i - 1)
<1> DEFINE t == SubSeq(s, i, j)
           u == SubSeq(t, c, d)
           v == SubSeq(s, c + i - 1, d + i - 1)
<1>1. /\ t \in Seq(Symbols) /\ Len(t) = j - i + 1
      /\ \A m \in 1 .. j - i + 1 : t[m] = s[m + i - 1]
  BY SubSeqIs
<1> HIDE DEF t
<1>2. Len(s) \in Nat
  OBVIOUS
<1>3. /\ c \in 1 .. Len(t) + 1 /\ d \in 0 .. Len(t)
      /\ c + i - 1 \in 1 .. Len(s) + 1 /\ d + i - 1 \in 0 .. Len(s)
      /\ c + i - 1 <= (d + i - 1) + 1
      /\ (d + i - 1) - (c + i - 1) + 1 = d - c + 1
  BY <1>1, <1>2
<1>4. /\ u \in Seq(Symbols) /\ Len(u) = d - c + 1
      /\ \A m \in 1 .. d - c + 1 : u[m] = t[m + c - 1]
  BY <1>1, <1>3, SubSeqIs
<1> DEFINE e == c + i - 1
           f == d + i - 1
<1> HIDE DEF e, f
<1>5. /\ SubSeq(s, e, f) \in Seq(Symbols) /\ Len(SubSeq(s, e, f)) = f - e + 1
      /\ \A m \in 1 .. f - e + 1 : SubSeq(s, e, f)[m] = s[m + e - 1]
  <2>1. e \in 1 .. Len(s) + 1 /\ f \in 0 .. Len(s) /\ e <= f + 1
    BY <1>3 DEF e, f
  <2> QED
    BY <2>1, SubSeqIs
<1>6. v = SubSeq(s, e, f) /\ f - e + 1 = d - c + 1
  BY <1>3 DEF e, f
<1> HIDE DEF u, v
<1>7. ASSUME NEW m \in 1 .. d - c + 1 PROVE u[m] = v[m]
  <2>1. m + c - 1 \in 1 .. j - i + 1 /\ (m + c - 1) + i - 1 = m + e - 1
    BY <1>2 DEF e
  <2>2. u[m] = s[(m + c - 1) + i - 1]
    BY <1>1, <1>4, <2>1
  <2>3. v[m] = s[m + e - 1]
    BY <1>5, <1>6
  <2> QED
    BY <2>1, <2>2, <2>3
<1>8. u = v
  BY <1>4, <1>5, <1>6, <1>7, SeqEqual
<1> QED
  BY <1>8 DEF u, v, t

\* a, q and h are where the first separator, the first "?" before a "#", and
\* the first "#" of raw are.
AreCuts(raw, a, q, h) ==
  /\ a \in 2 .. Len(raw) + 1 /\ q \in a .. Len(raw) + 1 /\ h \in q .. Len(raw) + 1
  /\ \A i \in 2 .. a - 1 : raw[i] \notin {"/", "?", "#"}
  /\ a <= Len(raw) => raw[a] \in {"/", "?", "#"}
  /\ \A i \in a .. h - 1 : raw[i] # "#"
  /\ h <= Len(raw) => raw[h] = "#"
  /\ \A i \in a .. q - 1 : raw[i] # "?"
  /\ q < h => raw[q] = "?"

\* What ParseURI refuses at once.
RefusedAtOnce(raw) ==
  \/ raw = <<>> \/ Size(raw) > MaxURILength
  \/ \E i \in 1 .. Len(raw) : raw[i] \in NotASCII
  \/ raw[1] \notin Schemes

\* What ParseURI then checks.
Validated(u) ==
  /\ ValidateAuthority(u.authority) /\ validateComponent(u.fragment, QueryChars)
  /\ ValidateResource(u.path, u.query)

(* ParseURI cuts a text at the separators, and nowhere else. *)
LEMMA ParseIs ==
  ASSUME NEW raw \in Seq(Symbols), ~ RefusedAtOnce(raw)
  PROVE  \E a, q, h \in Nat :
           /\ AreCuts(raw, a, q, h)
           /\ ParseURI(raw) = IF Validated(PartsAt(raw, a, q, h)) THEN PartsAt(raw, a, q, h)
                              ELSE NoURI
<1> DEFINE n         == Len(raw)
           rest      == Tail(raw)
           slash     == IndexAny(rest, {"/", "?", "#"})
           authority == ToLower(SubSeq(rest, 1, slash - 1))
           tail      == SubSeq(rest, slash, Len(rest))
           hash      == IndexAny(tail, {"#"})
           fragment  == SubSeq(tail, hash + 1, Len(tail))
           resource  == SubSeq(tail, 1, hash - 1)
           mark      == IndexAny(resource, {"?"})
           queryOf   == SubSeq(resource, mark + 1, Len(resource))
           pathOf    == IF mark = 1 THEN <<"/">> ELSE SubSeq(resource, 1, mark - 1)
           made      == [ok |-> TRUE, authority |-> authority, path |-> pathOf, query |-> queryOf,
                         fragment |-> fragment]
<1>1. ParseURI(raw) =
        IF /\ ValidateAuthority(authority) /\ validateComponent(fragment, QueryChars)
           /\ ValidateResource(pathOf, queryOf)
        THEN made ELSE NoURI
  BY Zenon DEF ParseURI, RefusedAtOnce
<1>2. raw # <<>> /\ n \in Nat /\ n >= 1
  BY DEF RefusedAtOnce
<1>3. rest \in Seq(Symbols) /\ Len(rest) = n - 1 /\ \A i \in 1 .. n - 1 : rest[i] = raw[i + 1]
  BY <1>2
<1>30. rest = SubSeq(raw, 2, n)
  BY <1>2
<1> HIDE DEF rest
<1>4. /\ slash \in 1 .. Len(rest) + 1
      /\ \A i \in 1 .. slash - 1 : rest[i] \notin {"/", "?", "#"}
      /\ slash <= Len(rest) => rest[slash] \in {"/", "?", "#"}
  BY <1>3, IndexAnyIs
<1> HIDE DEF slash
<1>5. /\ tail \in Seq(Symbols) /\ Len(tail) = n - slash
      /\ \A i \in 1 .. n - slash : tail[i] = rest[i + slash - 1]
  BY <1>2, <1>3, <1>4
<1>50. tail = SubSeq(raw, slash + 1, n)
  <2>1. /\ 2 \in 1 .. n + 1 /\ n \in 0 .. n /\ 2 <= n + 1
        /\ slash \in 1 .. (n - 2 + 1) + 1 /\ n - 1 \in 0 .. n - 2 + 1 /\ slash <= (n - 1) + 1
        /\ slash + 2 - 1 = slash + 1 /\ (n - 1) + 2 - 1 = n
    BY <1>2, <1>3, <1>4
  <2>2. SubSeq(SubSeq(raw, 2, n), slash, n - 1) = SubSeq(raw, slash + 2 - 1, (n - 1) + 2 - 1)
    BY <2>1, PartOfPart
  <2> QED
    BY <1>3, <1>30, <2>1, <2>2
<1> HIDE DEF tail
<1>6. /\ hash \in 1 .. Len(tail) + 1
      /\ \A i \in 1 .. hash - 1 : tail[i] \notin {"#"}
      /\ hash <= Len(tail) => tail[hash] \in {"#"}
  BY <1>5, IndexAnyIs
<1> HIDE DEF hash
<1>7. /\ resource \in Seq(Symbols) /\ Len(resource) = hash - 1
      /\ \A i \in 1 .. hash - 1 : resource[i] = tail[i]
  BY <1>2, <1>3, <1>4, <1>5, <1>6
<1> DEFINE a == slash + 1
           h == slash + hash
<1>70. a \in 1 .. n + 1 /\ h \in a .. n + 1 /\ n - a + 1 = Len(tail) /\ h - a = hash - 1
  BY <1>2, <1>3, <1>4, <1>5, <1>6
<1>71. resource = SubSeq(raw, a, h - 1)
  <2>1. /\ a \in 1 .. n + 1 /\ n \in 0 .. n /\ a <= n + 1
        /\ 1 \in 1 .. (n - a + 1) + 1 /\ hash - 1 \in 0 .. n - a + 1 /\ 1 <= (hash - 1) + 1
        /\ 1 + a - 1 = a /\ (hash - 1) + a - 1 = h - 1
    BY <1>2, <1>3, <1>4, <1>5, <1>6
  <2>2. SubSeq(SubSeq(raw, a, n), 1, hash - 1) = SubSeq(raw, 1 + a - 1, (hash - 1) + a - 1)
    BY <2>1, PartOfPart
  <2> QED
    BY <1>50, <2>1, <2>2
<1> HIDE DEF resource
<1>8. /\ mark \in 1 .. Len(resource) + 1
      /\ \A i \in 1 .. mark - 1 : resource[i] \notin {"?"}
      /\ mark <= Len(resource) => resource[mark] \in {"?"}
  BY <1>7, IndexAnyIs
<1> HIDE DEF mark
<1> DEFINE q == slash + mark
<1>9. /\ slash \in Nat /\ hash \in Nat /\ mark \in Nat
      /\ slash >= 1 /\ slash <= n /\ hash >= 1 /\ hash <= n - slash + 1 /\ mark >= 1 /\ mark <= hash
  BY <1>2, <1>3, <1>4, <1>5, <1>6, <1>7, <1>8
<1>10. AreCuts(raw, a, q, h)
  <2>1. a \in 2 .. n + 1 /\ q \in a .. n + 1 /\ h \in q .. n + 1
    BY <1>2, <1>9
  <2>2. ASSUME NEW i \in 2 .. a - 1 PROVE raw[i] \notin {"/", "?", "#"}
    <3>1. i - 1 \in 1 .. slash - 1 /\ i - 1 \in 1 .. n - 1 /\ (i - 1) + 1 = i
      BY <1>2, <1>9
    <3>2. rest[i - 1] = raw[i] /\ rest[i - 1] \notin {"/", "?", "#"}
      BY <1>3, <1>4, <3>1
    <3> QED
      BY <3>2
  <2>3. a <= n => raw[a] \in {"/", "?", "#"}
    <3>1. a <= n => slash <= Len(rest) /\ slash \in 1 .. n - 1
      BY <1>2, <1>3, <1>9
    <3> QED
      BY <1>3, <1>4, <3>1
  <2>4. ASSUME NEW i \in a .. n PROVE i - slash \in 1 .. n - slash /\ tail[i - slash] = raw[i]
    <3>1. /\ i - slash \in 1 .. n - slash /\ (i - slash) + slash - 1 = i - 1
          /\ i - 1 \in 1 .. n - 1 /\ (i - 1) + 1 = i
      BY <1>2, <1>9
    <3>2. tail[i - slash] = rest[i - 1]
      BY <1>5, <3>1
    <3>3. rest[i - 1] = raw[i]
      BY <1>3, <3>1
    <3> QED
      BY <3>1, <3>2, <3>3
  <2>5. ASSUME NEW i \in a .. h - 1 PROVE raw[i] # "#"
    <3>1. i \in a .. n /\ i - slash \in 1 .. hash - 1
      BY <1>2, <1>9
    <3>2. tail[i - slash] \notin {"#"}
      BY <1>6, <3>1
    <3> QED
      BY <2>4, <3>1, <3>2
  <2>6. h <= n => raw[h] = "#"
    <3>1. h <= n => h \in a .. n /\ h - slash = hash /\ hash <= Len(tail)
      BY <1>2, <1>5, <1>9
    <3> QED
      BY <1>6, <2>4, <3>1
  <2>7. ASSUME NEW i \in a .. h - 1
        PROVE  i - slash \in 1 .. hash - 1 /\ resource[i - slash] = raw[i]
    <3>1. i \in a .. n /\ i - slash \in 1 .. hash - 1
      BY <1>2, <1>9
    <3> QED
      BY <1>7, <2>4, <3>1
  <2>8. ASSUME NEW i \in a .. q - 1 PROVE raw[i] # "?"
    <3>1. i \in a .. h - 1 /\ i - slash \in 1 .. mark - 1
      BY <1>2, <1>9
    <3>2. resource[i - slash] \notin {"?"}
      BY <1>8, <3>1
    <3> QED
      BY <2>7, <3>1, <3>2
  <2>9. q < h => raw[q] = "?"
    <3>1. q < h => q \in a .. h - 1 /\ q - slash = mark /\ mark <= Len(resource)
      BY <1>2, <1>7, <1>9
    <3> QED
      BY <1>8, <2>7, <3>1
  <2> HIDE DEF a, q, h, n
  <2> QED
    BY <2>1, <2>2, <2>3, <2>5, <2>6, <2>8, <2>9 DEF AreCuts, n
<1>11. a \in Nat /\ q \in Nat /\ h \in Nat
  BY <1>9
<1>12. authority = ToLower(SubSeq(raw, 2, a - 1))
  <2>1. /\ 2 \in 1 .. n + 1 /\ n \in 0 .. n /\ 2 <= n + 1
        /\ 1 \in 1 .. (n - 2 + 1) + 1 /\ slash - 1 \in 0 .. n - 2 + 1 /\ 1 <= (slash - 1) + 1
        /\ 1 + 2 - 1 = 2 /\ (slash - 1) + 2 - 1 = a - 1
    BY <1>2, <1>9
  <2>2. SubSeq(SubSeq(raw, 2, n), 1, slash - 1) = SubSeq(raw, 1 + 2 - 1, (slash - 1) + 2 - 1)
    BY <2>1, PartOfPart
  <2>3. SubSeq(rest, 1, slash - 1) = SubSeq(raw, 2, a - 1)
    BY <1>30, <2>1, <2>2
  <2> HIDE DEF a
  <2> QED
    BY <2>3
<1>13. fragment = SubSeq(raw, h + 1, n)
  <2>1. CASE hash = Len(tail) + 1
    <3>1. hash + 1 > Len(tail) /\ h + 1 > n /\ Len(tail) \in Nat
      BY <1>2, <1>5, <1>9, <2>1
    <3>2. fragment = <<>>
      BY <1>5, <1>9, <3>1
    <3>3. SubSeq(raw, h + 1, n) = <<>>
      BY <1>2, <1>9, <3>1
    <3> QED
      BY <3>2, <3>3
  <2>2. CASE hash # Len(tail) + 1
    <3> DEFINE c == hash + 1
               d == Len(tail)
    <3>1. /\ a \in 1 .. n + 1 /\ n \in 0 .. n /\ a <= n + 1
          /\ c \in 1 .. (n - a + 1) + 1 /\ d \in 0 .. n - a + 1 /\ c <= d + 1
          /\ c + a - 1 = h + 1 /\ d + a - 1 = n
      BY <1>2, <1>5, <1>6, <1>9, <2>2
    <3>2. tail = SubSeq(raw, a, n)
      BY <1>50
    <3> HIDE DEF a, h, c, d
    <3>3. SubSeq(SubSeq(raw, a, n), c, d) = SubSeq(raw, c + a - 1, d + a - 1)
      BY <3>1, PartOfPart
    <3> QED
      BY <3>1, <3>2, <3>3 DEF c, d
  <2> QED
    BY <2>1, <2>2
<1>14. queryOf = SubSeq(raw, q + 1, h - 1)
  <2>1. CASE mark = hash
    <3>1. mark + 1 > Len(resource) /\ q + 1 > h - 1 /\ Len(resource) \in Nat
      BY <1>2, <1>7, <1>9, <2>1
    <3>2. queryOf = <<>>
      BY <1>7, <1>9, <3>1
    <3>3. SubSeq(raw, q + 1, h - 1) = <<>>
      BY <1>2, <1>9, <3>1
    <3> QED
      BY <3>2, <3>3
  <2>2. CASE mark # hash
    <3> DEFINE j == h - 1
               c == mark + 1
               d == Len(resource)
    <3>1. a \in 1 .. n + 1 /\ j \in 0 .. n /\ a <= j + 1
      BY <1>2, <1>9
    <3>2. d = j - a + 1 /\ d = hash - 1 /\ d \in Nat
      BY <1>7, <1>9
    <3>3. c \in 1 .. (j - a + 1) + 1 /\ d \in 0 .. j - a + 1 /\ c <= d + 1
      BY <1>9, <2>2, <3>2
    <3>4. c + a - 1 = q + 1 /\ d + a - 1 = h - 1
      BY <1>7, <1>9
    <3>5. resource = SubSeq(raw, a, j)
      BY <1>71
    <3> HIDE DEF a, q, h, j, c, d
    <3>6. SubSeq(SubSeq(raw, a, j), c, d) = SubSeq(raw, c + a - 1, d + a - 1)
      BY <3>1, <3>3, PartOfPart DEF n
    <3> QED
      BY <3>4, <3>5, <3>6 DEF c, d
  <2> QED
    BY <2>1, <2>2
<1>15. pathOf = IF a = q THEN <<"/">> ELSE SubSeq(raw, a, q - 1)
  <2> DEFINE j == h - 1
             d == mark - 1
  <2>1. /\ a \in 1 .. n + 1 /\ j \in 0 .. n /\ a <= j + 1
        /\ 1 \in 1 .. (j - a + 1) + 1 /\ d \in 0 .. j - a + 1 /\ 1 <= d + 1
        /\ 1 + a - 1 = a /\ d + a - 1 = q - 1
    BY <1>2, <1>7, <1>9
  <2>2. resource = SubSeq(raw, a, j)
    BY <1>71
  <2>4. mark = 1 <=> a = q
    BY <1>9
  <2> HIDE DEF a, q, h, j, d
  <2>3. SubSeq(SubSeq(raw, a, j), 1, d) = SubSeq(raw, 1 + a - 1, d + a - 1)
    BY <2>1, PartOfPart DEF n
  <2>5. SubSeq(resource, 1, mark - 1) = SubSeq(raw, a, q - 1)
    BY <2>1, <2>2, <2>3 DEF d
  <2> QED
    BY <2>4, <2>5
<1> HIDE DEF authority, fragment, queryOf, pathOf, a, q, h, n
<1>16. made = PartsAt(raw, a, q, h)
  BY <1>12, <1>13, <1>14, <1>15 DEF PartsAt, n
<1>17. /\ made.authority = authority /\ made.fragment = fragment
       /\ made.path = pathOf /\ made.query = queryOf
  OBVIOUS
<1> HIDE DEF made
<1>18. ParseURI(raw) = IF Validated(made) THEN made ELSE NoURI
  BY <1>1, <1>17 DEF Validated
<1> QED
  BY <1>10, <1>11, <1>16, <1>18

-----------------------------------------------------------------------------
(* The inductive invariant *)

\* Open has checked the request and has not returned.
Opening == pc \in {"walking", "opening", "checking"}

TypeInv ==
  /\ pc \in {"called", "done"} \/ Opening
  /\ attempt \in Attempts /\ cancelled \in BOOLEAN /\ quiet \in BOOLEAN
  /\ text \in Seq(Symbols) /\ path \in Seq(Symbols) /\ query \in Seq(Symbols)
  /\ bound = [a \in Attempts |-> bound[a]] /\ plain = [a \in Attempts |-> plain[a]]
  /\ pc # "done" => outcome = "none"

\* The names it walks along are those of a well-formed path to a file.
PartsInv ==
  Opening =>
    /\ WellFormed(path, query) /\ parts = NamesIn(Decoded(path))
    /\ Decoded(path)[Len(Decoded(path))] # "/"
    /\ \A n \in 1 .. Len(parts) : ~ Unsafe(parts[n])
    /\ pc = "walking" => k \in 1 .. Len(parts)

\* Where the names lead now is recorded, and index.html was not there all
\* along, or could not be read, when index.txt is tried.
HistoryInv ==
  /\ Opening => /\ Lookup(entry, parts, TRUE) \in bound[attempt]
                /\ Lookup(entry, parts, FALSE) \in plain[attempt]
  /\ attempt = "txt" => /\ plain["html"] # {}
                        /\ "html" \in faults \/ \A f \in Files : plain["html"] # {f}

\* The system's errors are those of attempts that are over.
FaultsInv ==
  /\ pc # "done" => attempt \notin faults
  /\ attempt = "path" => "html" \notin faults
  /\ attempt # "txt" => "txt" \notin faults

\* The file that Lstat saw, and the one that is open, were at the path.
SeenInv ==
  /\ pc \in {"opening", "checking"} =>
       /\ before \in Files \cap bound[attempt]
       /\ \A f \in Files : plain[attempt] = {f} => before = f /\ (pc = "checking" => file = f)
  /\ outcome = "ok" => file \in (Files \ BigFiles) \cap bound[attempt]

\* The path without its last name.
Base == SubSeq(path, 1, Len(path) - 1)

\* The name of an index file stands after a path that ends in "/".
IndexInv ==
  attempt # "path" =>
    /\ path = Append(Base, IF attempt = "html" THEN "index.html" ELSE "index.txt")
    /\ WellFormed(Base, query) /\ Decoded(Base)[Len(Decoded(Base))] = "/"

\* While the tree is at rest: what Open has seen is still so.
QuietInv ==
  quiet /\ ~ cancelled =>
    /\ attempt = "txt" =>
         "html" \in faults \/ Named(entry, Append(Base, "index.html"), query) = "NOT_FOUND"
    /\ pc = "walking" => \A i \in 0 .. k - 1 : Lookup(entry, SubSeq(parts, 1, i), TRUE) \in Dirs
    /\ pc \in {"opening", "checking"} =>
         /\ \A i \in 0 .. Len(parts) - 1 : Lookup(entry, SubSeq(parts, 1, i), TRUE) \in Dirs
         /\ before = Lookup(entry, parts, TRUE)
         /\ pc = "checking" => file = before

IndInv ==
  TypeInv /\ PartsInv /\ HistoryInv /\ FaultsInv /\ SeenInv /\ IndexInv /\ QuietInv /\ QuietExact

\* What the call is about: the path without the name of an index file.
Resource == IF attempt = "path" THEN path ELSE Base

(* ValidateResource and the check of the decoded text agree with what a     *)
(* well-formed path is.                                                     *)
LEMMA RefusedExact ==
  ASSUME path \in Seq(Symbols), query \in Seq(Symbols)
  PROVE  Refused <=> ~ WellFormed(path, query)
<1>1. "%" \notin PathChars /\ Hex \subseteq PathChars /\ "%" \notin QueryChars /\ Hex \subseteq QueryChars
  BY DEF PathChars, QueryChars, LowerAlnum, UpperAlpha, Hex
<1>2. Len(path) \in Nat /\ Len(query) \in Nat
  OBVIOUS
<1>3. validateComponent(path, PathChars) <=> Component(path, PathChars)
  BY <1>1, <1>2, ScannerExact
<1>4. validateComponent(query, QueryChars) <=> Component(query, QueryChars)
  BY <1>1, <1>2, ScannerExact
<1>5. path # <<>> => Head(path) = path[1]
  OBVIOUS
<1>6. (\E i \in 1 .. Len(Decoded(path)) : Decoded(path)[i] = "not UTF-8")
        <=> ~ \A i \in 1 .. Len(Decoded(path)) : Decoded(path)[i] # "not UTF-8"
  OBVIOUS
<1> QED
  BY <1>3, <1>4, <1>5, <1>6 DEF Refused, ValidateResource, WellFormed

(* The names of a well-formed path are a sequence of at least one. *)
LEMMA NamesOfPath ==
  ASSUME NEW p \in Seq(Symbols), NEW q, WellFormed(p, q)
  PROVE  LET names == NamesIn(Decoded(p))
         IN  names \in Seq(Range(names)) /\ Len(names) \in Nat /\ Len(names) >= 1
<1>1. Decoded(p) \in Seq(Octets) /\ Len(Decoded(p)) >= 1
  BY DecodedPath DEF WellFormed
<1>2. ASSUME NEW d \in Seq(Octets), Len(d) >= 1 PROVE Tail(d) \in Seq(Octets)
  BY <1>2
<1>3. Tail(Decoded(p)) \in Seq(Octets)
  BY <1>1, <1>2
<1> QED
  BY <1>3, SplitParts DEF NamesIn

(* While the tree is at rest, Open owes what the present path names, unless *)
(* the system fails.                                                        *)
LEMMA ExpectedIsNamed ==
  ASSUME attempt \in Attempts, attempt \notin faults, IndexInv, QuietInv, quiet, ~ cancelled,
         attempt = "path" => ~ WellFormed(path, query) \/ Decoded(path)[Len(Decoded(path))] # "/",
         attempt = "html" => Named(entry, path, query) # "NOT_FOUND"
  PROVE  Expected(entry, Resource, query, faults) = Named(entry, path, query)
<1>1. CASE attempt = "path"
  <2>1. ~ WellFormed(path, query) => Named(entry, path, query) = "BAD_RESOURCE"
    BY DEF Named
  <2> QED
    BY <1>1, <2>1 DEF Expected, Resource
<1>2. CASE attempt = "html"
  BY <1>2 DEF Expected, Resource, IndexInv
<1>3. CASE attempt = "txt"
  BY <1>3 DEF Expected, Resource, IndexInv, QuietInv
<1> QED
  BY <1>1, <1>2, <1>3 DEF Attempts

-----------------------------------------------------------------------------
(* Steps that return an error *)

\* An error of the system, if there is one, is recorded.
Recorded == faults' = faults \/ faults' = faults \cup {attempt}

\* What a step of Open leaves alone that ends the call or an attempt.
Settled == UNCHANGED <<entry, text, query, quiet, cancelled, bound, plain>>

\* A step that returns error r.
Ended(r) ==
  /\ pc' = "done" /\ outcome' = r /\ file' = None /\ UNCHANGED <<path, attempt>> /\ Settled
  /\ Recorded

(* Ending with the error that is expected keeps the invariant. *)
LEMMA EndKeeps ==
  ASSUME IndInv, NEW r, r # "ok", Ended(r),
         quiet /\ ~ cancelled => r = Expected(entry, Resource, query, faults')
  PROVE  IndInv'
<1> USE DEF Ended, Settled, Recorded
<1>1. TypeInv'
  BY DEF IndInv, TypeInv, Opening
<1>2. PartsInv' /\ ~ Opening'
  BY DEF PartsInv, Opening
<1>3. HistoryInv'
  BY <1>2 DEF IndInv, HistoryInv
<1>4. SeenInv'
  BY DEF SeenInv
<1>5. IndexInv'
  BY DEF IndInv, IndexInv, Base
<1>6. QuietInv'
  BY DEF IndInv, QuietInv, Base
<1>7. QuietExact'
  BY DEF QuietExact, Resource, Base
<1>8. FaultsInv'
  BY DEF IndInv, FaultsInv
<1> QED
  BY <1>1, <1>2, <1>3, <1>4, <1>5, <1>6, <1>7, <1>8 DEF IndInv

(* Another name at the end of a path. *)
LEMMA LastReplaced ==
  ASSUME NEW b \in Seq(Symbols), NEW x \in Symbols, NEW y \in Symbols
  PROVE  LET p == Append(b, x)
             r == [p EXCEPT ![Len(p)] = y]
         IN  r = Append(b, y) /\ r \in Seq(Symbols) /\ SubSeq(r, 1, Len(r) - 1) = b
<1> DEFINE p == Append(b, x)
           r == [p EXCEPT ![Len(p)] = y]
           n == Len(b)
<1>1. n \in Nat /\ p \in Seq(Symbols) /\ Len(p) = n + 1 /\ \A i \in 1 .. n : p[i] = b[i]
  OBVIOUS
<1> HIDE DEF p
<1>2. /\ r \in Seq(Symbols) /\ Len(r) = n + 1
      /\ \A i \in 1 .. n + 1 : r[i] = IF i = n + 1 THEN y ELSE p[i]
  BY <1>1, ExceptSeq
<1> HIDE DEF r
<1>3. /\ Append(b, y) \in Seq(Symbols) /\ Len(Append(b, y)) = n + 1
      /\ \A i \in 1 .. n + 1 : Append(b, y)[i] = IF i = n + 1 THEN y ELSE b[i]
  OBVIOUS
<1>4. \A i \in 1 .. n + 1 : r[i] = Append(b, y)[i]
  BY <1>1, <1>2, <1>3
<1>5. r = Append(b, y)
  BY <1>2, <1>3, <1>4, SeqEqual
<1>6. SubSeq(Append(b, y), 1, n) = b
  OBVIOUS
<1>7. Len(r) - 1 = n
  BY <1>1, <1>2
<1>8. SubSeq(r, 1, Len(r) - 1) = b
  BY <1>5, <1>6, <1>7
<1> QED
  BY <1>2, <1>5, <1>8 DEF r, p

(* What an index file was appended to is a text. *)
LEMMA BaseType ==
  ASSUME path \in Seq(Symbols), IndexInv, attempt # "path"
  PROVE  Base \in Seq(Symbols)
<1>1. Len(path) \in Nat
  OBVIOUS
<1>2. CASE path = <<>>
  <2>1. Base = <<>>
    BY <1>2 DEF Base
  <2> QED
    BY <2>1
<1>3. CASE path # <<>>
  BY <1>1, <1>3 DEF Base
<1> QED
  BY <1>2, <1>3

IndexNamesAreSymbols == "index.html" \in Symbols /\ "index.txt" \in Symbols

(* The names of the index files are texts of the protocol. *)
LEMMA IndexNames == IndexNamesAreSymbols
BY DEF IndexNamesAreSymbols, Symbols, QueryChars, PathChars

\* index.txt is tried after index.html.
NextIndex ==
  /\ path' = [path EXCEPT ![Len(path)] = "index.txt"] /\ attempt' = "txt" /\ pc' = "called"
  /\ file' = None /\ UNCHANGED outcome /\ Settled /\ Recorded

(* Going on to index.txt, when index.html was missing or the system failed, *)
(* keeps the invariant.                                                     *)
LEMMA NextIndexKeeps ==
  ASSUME IndInv, Opening, attempt = "html", NextIndex,
         "html" \in faults' \/ \A f \in Files : plain["html"] # {f},
         quiet /\ ~ cancelled => "html" \in faults' \/ Named(entry, path, query) = "NOT_FOUND"
  PROVE  IndInv'
<1> DEFINE b == Base
<1>1. b \in Seq(Symbols) /\ path = Append(b, "index.html")
  BY BaseType DEF IndInv, TypeInv, IndexInv
<1>2. /\ path' = Append(b, "index.txt") /\ path' \in Seq(Symbols)
      /\ Base' = b
  <2>1. path' = [path EXCEPT ![Len(path)] = "index.txt"]
    BY DEF NextIndex
  <2> HIDE DEF b
  <2> QED
    BY <1>1, <2>1, LastReplaced, IndexNames DEF IndexNamesAreSymbols, Base
<1> HIDE DEF b
<1>3. TypeInv'
  BY <1>2 DEF IndInv, TypeInv, Opening, NextIndex, Settled, Attempts
<1>4. PartsInv' /\ ~ Opening'
  BY DEF PartsInv, Opening, NextIndex
<1>5. HistoryInv'
  <2>1. plain["html"] # {}
    BY DEF IndInv, HistoryInv
  <2> QED
    BY <1>4, <2>1 DEF HistoryInv, NextIndex, Settled
<1>6. SeenInv'
  BY DEF IndInv, TypeInv, SeenInv, Opening, NextIndex
<1>7. IndexInv'
  BY <1>1, <1>2 DEF IndInv, IndexInv, NextIndex, Settled, b
<1>8. QuietInv'
  BY <1>1, <1>2 DEF QuietInv, NextIndex, Settled
<1>9. QuietExact'
  BY DEF QuietExact, NextIndex
<1>10. FaultsInv'
  BY DEF IndInv, FaultsInv, NextIndex, Recorded
<1> QED
  BY <1>3, <1>4, <1>5, <1>6, <1>7, <1>8, <1>9, <1>10 DEF IndInv

(* A missing file ends the call, or leads on to index.txt. *)
LEMMA NotFoundKeeps ==
  ASSUME IndInv, Opening, Failed("NOT_FOUND"), Settled, UNCHANGED faults,
         \A f \in Files : plain[attempt] # {f},
         quiet /\ ~ cancelled => Named(entry, path, query) = "NOT_FOUND"
  PROVE  IndInv'
<1>1. CASE attempt = "html"
  <2>1. NextIndex
    BY <1>1 DEF Failed, NextIndex, Recorded
  <2> QED
    BY <1>1, <2>1, NextIndexKeeps
<1>2. CASE attempt # "html"
  <2>1. Ended("NOT_FOUND")
    BY <1>2 DEF Failed, Return, Ended, Recorded
  <2>2. attempt \notin faults
    BY DEF IndInv, FaultsInv, Opening
  <2>3. quiet /\ ~ cancelled => Expected(entry, Resource, query, faults) = Named(entry, path, query)
    BY <1>2, <2>2, ExpectedIsNamed DEF IndInv, TypeInv, PartsInv
  <2> QED
    BY <2>1, <2>3, EndKeeps
<1> QED
  BY <1>1, <1>2

(* Any other error ends the call. *)
LEMMA ErrorKeeps ==
  ASSUME IndInv, NEW r \in {"cancelled", "BAD_RESOURCE", "TOO_LARGE"}, Failed(r), Settled,
         UNCHANGED faults,
         quiet /\ ~ cancelled => r = Expected(entry, Resource, query, faults)
  PROVE  IndInv'
<1>1. Ended(r)
  BY DEF Failed, Return, Ended, Recorded
<1> QED
  BY <1>1, EndKeeps

-----------------------------------------------------------------------------
(* The steps of Open *)

(* A call that sees its context done keeps the invariant. *)
LEMMA CancelledKeeps ==
  ASSUME IndInv, Cancelled
  PROVE  IndInv'
<1>1. Failed("cancelled") /\ Settled /\ UNCHANGED faults /\ cancelled
  BY DEF Cancelled, Settled
<1> QED
  BY <1>1, ErrorKeeps

(* The cancellation of the context keeps the invariant. *)
LEMMA CancelKeeps ==
  ASSUME IndInv, Cancel
  PROVE  IndInv'
<1> USE DEF Cancel, callVars
<1>1. TypeInv'
  BY DEF IndInv, TypeInv, Opening
<1>2. PartsInv'
  BY DEF IndInv, PartsInv, Opening
<1>3. HistoryInv'
  BY DEF IndInv, HistoryInv, Opening
<1>4. SeenInv'
  BY DEF IndInv, SeenInv
<1>5. IndexInv'
  BY DEF IndInv, IndexInv, Base
<1>6. QuietInv' /\ QuietExact'
  BY DEF QuietInv, QuietExact
<1>7. FaultsInv'
  BY DEF IndInv, FaultsInv
<1> QED
  BY <1>1, <1>2, <1>3, <1>4, <1>5, <1>6, <1>7 DEF IndInv

(* The checks of path and query, the choice of an index file and the split  *)
(* into names keep the invariant.                                           *)
LEMMA ValidateKeeps ==
  ASSUME IndInv, Validate
  PROVE  IndInv'
<1>1. pc = "called" /\ ~ cancelled /\ path \in Seq(Symbols) /\ query \in Seq(Symbols) /\ attempt \in Attempts
      /\ outcome = "none" /\ attempt \notin faults
  BY DEF Validate, IndInv, TypeInv, FaultsInv
<1>2. Refused <=> ~ WellFormed(path, query)
  BY <1>1, RefusedExact
<1> DEFINE names == NamesIn(Decoded(path))
<1>3. CASE Refused
  <2>1. Failed("BAD_RESOURCE") /\ Settled /\ UNCHANGED faults
    BY <1>3 DEF Validate, Settled
  <2>2. Named(entry, path, query) = "BAD_RESOURCE"
    BY <1>2, <1>3 DEF Named
  <2>3. quiet => Expected(entry, Resource, query, faults) = "BAD_RESOURCE"
    BY <1>1, <1>2, <1>3, <2>2, ExpectedIsNamed DEF IndInv
  <2> QED
    BY <2>1, <2>3, ErrorKeeps
<1>4. CASE ~ Refused /\ ~ IsDirectoryURL /\ \E n \in 1 .. Len(names) : Unsafe(names[n])
  <2>1. Failed("BAD_RESOURCE") /\ Settled /\ UNCHANGED faults
    BY <1>4 DEF Validate, Settled
  <2>2. Named(entry, path, query) = "BAD_RESOURCE"
    BY <1>4 DEF Named
  <2>3. quiet => Expected(entry, Resource, query, faults) = "BAD_RESOURCE"
    BY <1>1, <1>4, <2>2, ExpectedIsNamed DEF IndInv, IsDirectoryURL
  <2> QED
    BY <2>1, <2>3, ErrorKeeps
<1>5. CASE ~ Refused /\ IsDirectoryURL
  <2>1. /\ path' = Append(path, "index.html") /\ attempt' = "html"
        /\ UNCHANGED <<file, pc, outcome, parts, k, bound, plain, entry, text, query, before, cancelled, quiet,
                       faults>>
    BY <1>5 DEF Validate
  <2>2. path' \in Seq(Symbols) /\ Base' = path
    <3>1. SubSeq(path', 1, Len(path') - 1) = path /\ path' \in Seq(Symbols)
      <4>1. ASSUME NEW p \in Seq(Symbols), NEW x \in Symbols
            PROVE  SubSeq(Append(p, x), 1, Len(Append(p, x)) - 1) = p /\ Append(p, x) \in Seq(Symbols)
        OBVIOUS
      <4> QED
        BY <1>1, <2>1, <4>1, IndexNames DEF IndexNamesAreSymbols
    <3> QED
      BY <3>1 DEF Base
  <2>3. TypeInv'
    BY <2>1, <2>2 DEF IndInv, TypeInv, Opening, Attempts
  <2>4. PartsInv' /\ ~ Opening'
    BY <1>1, <2>1 DEF PartsInv, Opening
  <2>5. HistoryInv'
    BY <2>1, <2>4 DEF HistoryInv
  <2>6. SeenInv'
    BY <1>1, <2>1 DEF SeenInv
  <2>7. IndexInv'
    BY <1>2, <1>5, <2>1, <2>2 DEF IndexInv, IsDirectoryURL
  <2>8. QuietInv' /\ QuietExact'
    BY <1>1, <2>1 DEF QuietInv, QuietExact
  <2>9. attempt = "path"
    <3>1. SUFFICES ASSUME attempt # "path" PROVE FALSE
      OBVIOUS
    <3> DEFINE x == IF attempt = "html" THEN "index.html" ELSE "index.txt"
    <3>2. Base \in Seq(Symbols) /\ path = Append(Base, x) /\ x \in Symbols
      BY <1>1, <3>1, BaseType, IndexNames DEF IndInv, IndexInv, IndexNamesAreSymbols
    <3>3. x \notin Hex /\ x # "%" /\ x # "/"
      BY DEF Hex
    <3> HIDE DEF x
    <3>4. path # <<>> /\ path[Len(path)] = x
      BY <3>2
    <3>5. Decoded(path)[Len(Decoded(path))] = x
      BY <1>1, <1>2, <1>5, <3>3, <3>4, DecodedLast DEF WellFormed
    <3> QED
      BY <1>5, <3>3, <3>5 DEF IsDirectoryURL
  <2>10. FaultsInv'
    BY <1>1, <2>1, <2>9 DEF IndInv, FaultsInv
  <2> QED
    BY <2>3, <2>4, <2>5, <2>6, <2>7, <2>8, <2>10 DEF IndInv
<1>6. CASE ~ Refused /\ ~ IsDirectoryURL /\ ~ \E n \in 1 .. Len(names) : Unsafe(names[n])
  <2>1. /\ parts' = names /\ k' = 1 /\ pc' = "walking"
        /\ bound' = [bound EXCEPT ![attempt] = {Lookup(entry, names, TRUE)}]
        /\ plain' = [plain EXCEPT ![attempt] = {Lookup(entry, names, FALSE)}]
        /\ UNCHANGED <<path, attempt, file, outcome, entry, text, query, before, cancelled, quiet,
                       faults>>
    BY <1>6 DEF Validate
  <2>2. names \in Seq(Range(names)) /\ Len(names) \in Nat /\ Len(names) >= 1
    BY <1>1, <1>2, <1>6, NamesOfPath
  <2>3. TypeInv'
    BY <1>1, <2>1 DEF IndInv, TypeInv, Opening
  <2>4. PartsInv'
    BY <1>2, <1>6, <2>1, <2>2 DEF PartsInv, Opening, IsDirectoryURL
  <2>5. HistoryInv'
    <3>1. bound'[attempt] = {Lookup(entry, names, TRUE)} /\ plain'[attempt] = {Lookup(entry, names, FALSE)}
      BY <1>1, <2>1 DEF IndInv, TypeInv
    <3>2. attempt = "txt" => plain'["html"] = plain["html"]
      BY <1>1, <2>1 DEF IndInv, TypeInv, Attempts
    <3> QED
      BY <2>1, <3>1, <3>2 DEF IndInv, HistoryInv
  <2>6. SeenInv'
    BY <1>1, <2>1 DEF SeenInv
  <2>7. IndexInv'
    BY <2>1 DEF IndInv, IndexInv, Base
  <2>8. QuietInv'
    <3>1. ASSUME NEW i \in 0 .. 1 - 1 PROVE Lookup(entry, SubSeq(names, 1, i), TRUE) \in Dirs
      <4>1. i = 0 /\ 0 \in 0 .. Len(names)
        BY <2>2
      <4>2. Lookup(entry, SubSeq(names, 1, 0), TRUE) = Way(entry, names, TRUE)[0]
        BY <2>2, <4>1, LookupOfPrefix, Zenon
      <4>3. Way(entry, names, TRUE)[0] = Root
        BY <2>2, WayByEntries
      <4> QED
        BY <4>1, <4>2, <4>3, TreeAssumption
    <3> HIDE DEF names
    <3> QED
      BY <2>1, <3>1 DEF IndInv, QuietInv, Base
  <2>9. QuietExact' /\ FaultsInv'
    BY <1>1, <2>1 DEF IndInv, QuietExact, FaultsInv
  <2> QED
    BY <2>3, <2>4, <2>5, <2>6, <2>7, <2>8, <2>9 DEF IndInv
<1> QED
  BY <1>3, <1>4, <1>5, <1>6

(* The components of an open call. *)
LEMMA PartsType ==
  ASSUME IndInv, Opening
  PROVE  parts \in Seq(Range(parts)) /\ Len(parts) \in Nat /\ Len(parts) >= 1
<1>1. path \in Seq(Symbols) /\ WellFormed(path, query) /\ parts = NamesIn(Decoded(path))
  BY DEF IndInv, TypeInv, PartsInv
<1> QED
  BY <1>1, NamesOfPath

(* Where Lookup does not find a file without links, the path names none. *)
LEMMA NamesNone ==
  ASSUME IndInv, Opening, Lookup(entry, parts, FALSE) \notin Files
  PROVE  /\ Named(entry, path, query) = "NOT_FOUND"
         /\ \A f \in Files : plain[attempt] # {f}
<1>1. Lookup(entry, parts, FALSE) \in plain[attempt]
  BY DEF IndInv, HistoryInv
<1>2. Named(entry, path, query) = "NOT_FOUND"
  BY TreeAssumption DEF IndInv, PartsInv, Named
<1> QED
  BY <1>1, <1>2

(* What Lstat sees where the path names a file. *)
LEMMA LstatSeesFile ==
  ASSUME IndInv, Opening, Lookup(entry, parts, FALSE) \in Files
  PROVE  /\ Lookup(entry, parts, TRUE) = Lookup(entry, parts, FALSE)
         /\ \A i \in 0 .. Len(parts) - 1 : Lookup(entry, SubSeq(parts, 1, i), TRUE) \in Dirs
<1>1. parts \in Seq(Range(parts)) /\ Len(parts) \in Nat
  BY PartsType
<1>2. /\ Lookup(entry, parts, TRUE) = Lookup(entry, parts, FALSE)
      /\ \A i \in 0 .. Len(parts) - 1 : Way(entry, parts, TRUE)[i] \in Dirs
  BY <1>1, PlainFileFound
<1>3. ASSUME NEW i \in 0 .. Len(parts) - 1
      PROVE  Lookup(entry, SubSeq(parts, 1, i), TRUE) = Way(entry, parts, TRUE)[i]
  <2>1. i \in 0 .. Len(parts)
    BY <1>1
  <2> QED
    BY <1>1, <2>1, LookupOfPrefix, Zenon
<1> QED
  BY <1>2, <1>3

(* An Lstat of the next name keeps the invariant. *)
LEMMA WalkKeeps ==
  ASSUME IndInv, Walk
  PROVE  IndInv'
<1> DEFINE seen == Lookup(entry, SubSeq(parts, 1, k), TRUE)
           n == Len(parts)
<1>1. pc = "walking" /\ ~ cancelled /\ Opening /\ outcome = "none" /\ attempt \in Attempts
  BY DEF Walk, Opening, IndInv, TypeInv
<1>2. parts \in Seq(Range(parts)) /\ n \in Nat /\ n >= 1 /\ k \in 1 .. n
  BY <1>1, PartsType DEF IndInv, PartsInv
<1>3. SubSeq(parts, 1, n) = parts
  BY <1>2
<1>4. CASE seen \notin (IF k < n THEN Dirs ELSE Files)
  <2>1. Failed("NOT_FOUND") /\ Settled /\ UNCHANGED faults
    BY <1>4 DEF Walk, Settled
  <2>2. Lookup(entry, parts, FALSE) \notin Files
    <3>1. SUFFICES ASSUME Lookup(entry, parts, FALSE) \in Files PROVE FALSE
      OBVIOUS
    <3>2. Lookup(entry, parts, TRUE) \in Files
      BY <1>1, <3>1, LstatSeesFile
    <3>3. \A i \in 0 .. n - 1 : Lookup(entry, SubSeq(parts, 1, i), TRUE) \in Dirs
      BY <1>1, <3>1, LstatSeesFile
    <3>4. k < n => k \in 0 .. n - 1
      BY <1>2
    <3>5. ~ (k < n) => k = n
      BY <1>2
    <3> QED
      BY <1>3, <1>4, <3>2, <3>3, <3>4, <3>5
  <2> QED
    BY <1>1, <2>1, <2>2, NamesNone, NotFoundKeeps
<1>5. CASE seen \in (IF k < n THEN Dirs ELSE Files)
  <2>1. /\ before' = seen /\ k' = k + 1 /\ pc' = (IF k < n THEN "walking" ELSE "opening")
        /\ UNCHANGED <<path, attempt, file, outcome, entry, text, query, parts, cancelled, quiet, bound,
                       plain, faults>>
    BY <1>5 DEF Walk
  <2>2. TypeInv'
    BY <1>1, <2>1 DEF IndInv, TypeInv, Opening
  <2>3. PartsInv'
    <3>1. k < n => k + 1 \in 1 .. n
      BY <1>2
    <3> QED
      BY <1>1, <2>1, <3>1 DEF IndInv, PartsInv, Opening
  <2>4. HistoryInv'
    BY <1>1, <2>1 DEF IndInv, HistoryInv
  <2>5. ~ (k < n) => k = n /\ seen = Lookup(entry, parts, TRUE)
    <3>1. ~ (k < n) => k = n
      BY <1>2
    <3> QED
      BY <1>3, <3>1
  <2>6. SeenInv'
    <3>1. CASE k < n
      BY <1>1, <2>1, <3>1 DEF SeenInv
    <3>2. CASE ~ (k < n)
      <4>1. seen \in Files /\ seen = Lookup(entry, parts, TRUE) /\ pc' = "opening"
        BY <1>5, <2>1, <2>5, <3>2
      <4>2. seen \in bound[attempt] /\ Lookup(entry, parts, FALSE) \in plain[attempt]
        BY <1>1, <4>1 DEF IndInv, HistoryInv
      <4>3. ASSUME NEW f \in Files, plain[attempt] = {f} PROVE seen = f
        <5>1. Lookup(entry, parts, FALSE) = f
          BY <4>2, <4>3
        <5> QED
          BY <1>1, <4>1, <5>1, LstatSeesFile
      <4> HIDE DEF seen
      <4> QED
        BY <1>1, <2>1, <4>1, <4>2, <4>3 DEF SeenInv
    <3> QED
      BY <3>1, <3>2
  <2>7. IndexInv'
    BY <2>1 DEF IndInv, IndexInv, Base
  <2>8. QuietInv'
    <3>1. quiet => \A i \in 0 .. k - 1 : Lookup(entry, SubSeq(parts, 1, i), TRUE) \in Dirs
      BY <1>1 DEF IndInv, QuietInv
    <3>2. CASE k < n
      <4>1. \A i \in 0 .. (k + 1) - 1 : i \in 0 .. k - 1 \/ i = k
        BY <1>2
      <4>2. quiet => \A i \in 0 .. (k + 1) - 1 : Lookup(entry, SubSeq(parts, 1, i), TRUE) \in Dirs
        BY <1>5, <3>1, <3>2, <4>1
      <4> HIDE DEF seen
      <4> QED
        BY <2>1, <3>2, <4>2 DEF IndInv, QuietInv, Base
    <3>3. CASE ~ (k < n)
      <4>1. k = n /\ seen = Lookup(entry, parts, TRUE)
        BY <2>5, <3>3
      <4> HIDE DEF seen
      <4> QED
        BY <2>1, <3>1, <3>3, <4>1 DEF IndInv, QuietInv, Base
    <3> QED
      BY <3>2, <3>3
  <2>9. QuietExact' /\ FaultsInv'
    BY <1>1, <2>1 DEF IndInv, QuietExact, FaultsInv
  <2> QED
    BY <2>2, <2>3, <2>4, <2>6, <2>7, <2>8, <2>9 DEF IndInv
<1> QED
  BY <1>4, <1>5

(* Opening the file that Lstat saw keeps the invariant. *)
LEMMA OpenFileKeeps ==
  ASSUME IndInv, OpenFile
  PROVE  IndInv'
<1> DEFINE found == Follow(Lookup(entry, parts, TRUE))
<1>1. pc = "opening" /\ Opening /\ outcome = "none" /\ attempt \in Attempts
  BY DEF OpenFile, Opening, IndInv, TypeInv
<1>2. \A f \in Files : Follow(f) = f /\ f # None
  BY TreeAssumption DEF Follow
<1>3. CASE found = None
  <2>1. Failed("NOT_FOUND") /\ Settled /\ UNCHANGED faults
    BY <1>3 DEF OpenFile, Settled
  <2>2. Lookup(entry, parts, FALSE) \notin Files
    BY <1>1, <1>2, <1>3, LstatSeesFile
  <2> QED
    BY <1>1, <2>1, <2>2, NamesNone, NotFoundKeeps
<1>4. CASE found # None
  <2>1. /\ file' = found /\ pc' = "checking"
        /\ UNCHANGED <<path, attempt, outcome, entry, text, query, parts, k, before, cancelled, quiet,
                       bound, plain, faults>>
    BY <1>4 DEF OpenFile
  <2>2. TypeInv'
    BY <1>1, <2>1 DEF IndInv, TypeInv, Opening
  <2>3. PartsInv'
    BY <1>1, <2>1 DEF IndInv, PartsInv, Opening
  <2>4. HistoryInv'
    BY <1>1, <2>1 DEF IndInv, HistoryInv
  <2>5. SeenInv'
    <3>1. ASSUME NEW f \in Files, plain[attempt] = {f} PROVE found = f
      <4>1. Lookup(entry, parts, FALSE) = f
        BY <1>1, <3>1 DEF IndInv, HistoryInv
      <4> QED
        BY <1>1, <1>2, <4>1, LstatSeesFile
    <3> HIDE DEF found
    <3> QED
      BY <1>1, <2>1, <3>1 DEF IndInv, SeenInv
  <2>6. IndexInv'
    BY <2>1 DEF IndInv, IndexInv, Base
  <2>7. QuietInv'
    <3>1. quiet /\ ~ cancelled => found = before
      BY <1>1, <1>2 DEF IndInv, QuietInv, SeenInv
    <3> HIDE DEF found
    <3> QED
      BY <1>1, <2>1, <3>1 DEF IndInv, QuietInv, Base
  <2>8. QuietExact' /\ FaultsInv'
    BY <1>1, <2>1 DEF IndInv, QuietExact, FaultsInv
  <2> QED
    BY <2>2, <2>3, <2>4, <2>5, <2>6, <2>7, <2>8 DEF IndInv
<1> QED
  BY <1>3, <1>4

(* Where Lstat saw the file through directories, the path names that file.  *)
LEMMA QuietNamed ==
  ASSUME IndInv, pc = "checking", quiet, ~ cancelled
  PROVE  /\ file \in Files /\ file = before
         /\ Named(entry, path, query) = IF file \in BigFiles THEN "TOO_LARGE" ELSE file
         /\ Named(entry, path, query) # "NOT_FOUND"
         /\ Expected(entry, Resource, query, faults) = Named(entry, path, query)
<1>1. parts \in Seq(Range(parts)) /\ Len(parts) \in Nat /\ Len(parts) >= 1 /\ Opening
  BY PartsType DEF Opening
<1>2. /\ file = before /\ before \in Files /\ before = Lookup(entry, parts, TRUE)
      /\ \A i \in 0 .. Len(parts) - 1 : Lookup(entry, SubSeq(parts, 1, i), TRUE) \in Dirs
  BY DEF IndInv, QuietInv, SeenInv
<1>3. ASSUME NEW i \in 0 .. Len(parts) - 1
      PROVE  Way(entry, parts, TRUE)[i] \in Dirs
  <2>1. i \in 0 .. Len(parts)
    BY <1>1
  <2>2. Lookup(entry, SubSeq(parts, 1, i), TRUE) = Way(entry, parts, TRUE)[i]
    BY <1>1, <2>1, LookupOfPrefix, Zenon
  <2> QED
    BY <1>2, <2>2
<1>4. Lookup(entry, parts, FALSE) = file
  BY <1>1, <1>2, <1>3, LstatIsPlain
<1>5. Named(entry, path, query) = IF file \in BigFiles THEN "TOO_LARGE" ELSE file
  BY <1>1, <1>2, <1>4 DEF IndInv, PartsInv, Named
<1>6. Named(entry, path, query) # "NOT_FOUND"
  BY <1>2, <1>5, TreeAssumption
<1>7. Expected(entry, Resource, query, faults) = Named(entry, path, query)
  BY <1>1, <1>6, ExpectedIsNamed DEF IndInv, TypeInv, PartsInv, FaultsInv
<1> QED
  BY <1>2, <1>5, <1>6, <1>7

(* The comparison of the open file with the one seen keeps the invariant,   *)
(* and so does serving it.                                                  *)
LEMMA CheckFileKeeps ==
  ASSUME IndInv, CheckFile
  PROVE  IndInv'
<1>1. pc = "checking" /\ Opening /\ outcome = "none" /\ attempt \in Attempts
  BY DEF CheckFile, Opening, IndInv, TypeInv
<1>2. CASE file \notin Files \/ file # before
  <2>1. Failed("NOT_FOUND") /\ Settled /\ UNCHANGED faults
    BY <1>2 DEF CheckFile, Settled
  <2>2. ~ (quiet /\ ~ cancelled)
    BY <1>1, <1>2, QuietNamed
  <2>3. \A f \in Files : plain[attempt] # {f}
    BY <1>1, <1>2 DEF IndInv, SeenInv
  <2> QED
    BY <1>1, <2>1, <2>2, <2>3, NotFoundKeeps
<1>3. CASE ~ (file \notin Files \/ file # before) /\ file \in BigFiles
  <2>1. Failed("TOO_LARGE") /\ Settled /\ UNCHANGED faults
    BY <1>3 DEF CheckFile, Settled
  <2>2. quiet /\ ~ cancelled => Expected(entry, Resource, query, faults) = "TOO_LARGE"
    BY <1>1, <1>3, QuietNamed
  <2> QED
    BY <2>1, <2>2, ErrorKeeps
<1>4. CASE ~ (file \notin Files \/ file # before) /\ file \notin BigFiles
  <2>1. /\ ~ cancelled /\ pc' = "done" /\ outcome' = "ok" /\ UNCHANGED <<path, attempt, file>>
        /\ Settled /\ UNCHANGED faults
    BY <1>4 DEF CheckFile, Settled, Return
  <2>2. TypeInv'
    BY <2>1 DEF IndInv, TypeInv, Opening, Settled
  <2>3. PartsInv' /\ ~ Opening'
    BY <2>1 DEF PartsInv, Opening
  <2>4. HistoryInv'
    BY <2>1, <2>3 DEF IndInv, HistoryInv, Settled
  <2>5. SeenInv'
    BY <1>1, <1>4, <2>1 DEF IndInv, SeenInv, Settled
  <2>6. IndexInv'
    BY <2>1 DEF IndInv, IndexInv, Base, Settled
  <2>7. QuietInv'
    BY <2>1 DEF IndInv, QuietInv, Base, Settled
  <2>8. QuietExact'
    <3>1. quiet => file = Expected(entry, Resource, query, faults)
      BY <1>1, <1>4, <2>1, QuietNamed
    <3> QED
      BY <2>1, <3>1 DEF QuietExact, Resource, Base, Settled
  <2>9. FaultsInv'
    BY <2>1 DEF IndInv, FaultsInv
  <2> QED
    BY <2>2, <2>3, <2>4, <2>5, <2>6, <2>7, <2>8, <2>9 DEF IndInv
<1> QED
  BY <1>2, <1>3, <1>4

(* An error of the system keeps the invariant: it is recorded, and Open     *)
(* answers as if the file were missing.                                     *)
LEMMA SystemErrorKeeps ==
  ASSUME IndInv, SystemError
  PROVE  IndInv'
<1>1. /\ Opening /\ Failed("NOT_FOUND") /\ Settled /\ Recorded /\ attempt \in faults'
      /\ attempt \in Attempts
  BY DEF SystemError, Opening, Settled, Recorded, IndInv, TypeInv
<1>2. CASE attempt = "html"
  <2>1. NextIndex
    BY <1>1, <1>2 DEF Failed, NextIndex
  <2> QED
    BY <1>1, <1>2, <2>1, NextIndexKeeps
<1>3. CASE attempt # "html"
  <2>1. Ended("NOT_FOUND")
    BY <1>1, <1>3 DEF Failed, Return, Ended
  <2>2. quiet /\ ~ cancelled => Expected(entry, Resource, query, faults') = "NOT_FOUND"
    <3>1. CASE attempt = "path"
      BY <1>1, <3>1 DEF Expected, Resource, IndInv, PartsInv
    <3>2. CASE attempt = "txt"
      <4>1. quiet /\ ~ cancelled =>
              "html" \in faults' \/ Named(entry, Append(Base, "index.html"), query) = "NOT_FOUND"
        BY <1>1, <3>2 DEF IndInv, QuietInv, Recorded
      <4> QED
        BY <1>1, <3>2, <4>1 DEF Expected, Resource, IndInv, IndexInv
    <3> QED
      BY <1>1, <1>3, <3>1, <3>2 DEF Attempts
  <2> QED
    BY <2>1, <2>2, EndKeeps
<1> QED
  BY <1>2, <1>3

-----------------------------------------------------------------------------
(* The surroundings *)

(* A change of the tree by the operator keeps the invariant: the histories  *)
(* record it.                                                               *)
LEMMA TreeChangesKeeps ==
  ASSUME IndInv, TreeChanges
  PROVE  IndInv'
<1> DEFINE names(a) == NamesIn(Decoded(
             IF a = attempt THEN path ELSE [path EXCEPT ![Len(path)] = "index.html"]))
<1>1. /\ pc \in {"called", "walking", "opening", "checking"} /\ quiet' = FALSE
      /\ UNCHANGED <<callVars, cancelled, faults>>
  BY DEF TreeChanges
<1>2. bound' = [a \in Attempts |-> IF bound[a] = {} THEN {}
                                   ELSE bound[a] \cup {Lookup(entry', names(a), TRUE)}]
  BY Zenon DEF TreeChanges
<1>3. plain' = [a \in Attempts |-> IF plain[a] = {} THEN {}
                                   ELSE plain[a] \cup {Lookup(entry', names(a), FALSE)}]
  BY Zenon DEF TreeChanges
<1>4. attempt \in Attempts /\ outcome = "none" /\ "html" \in Attempts
  BY <1>1 DEF IndInv, TypeInv, Attempts
<1>5. Opening => names(attempt) = parts
  BY DEF IndInv, PartsInv
<1> HIDE DEF names
<1>6. TypeInv'
  BY <1>1, <1>2, <1>3 DEF IndInv, TypeInv, Opening, callVars
<1>7. PartsInv'
  BY <1>1 DEF IndInv, PartsInv, Opening, callVars
<1>8. /\ bound[attempt] \subseteq bound'[attempt] /\ plain[attempt] \subseteq plain'[attempt]
      /\ plain["html"] \subseteq plain'["html"]
      /\ Opening => /\ Lookup(entry', parts, TRUE) \in bound'[attempt]
                    /\ Lookup(entry', parts, FALSE) \in plain'[attempt]
  <2>1. /\ bound'[attempt] = IF bound[attempt] = {} THEN {}
                             ELSE bound[attempt] \cup {Lookup(entry', names(attempt), TRUE)}
        /\ plain'[attempt] = IF plain[attempt] = {} THEN {}
                             ELSE plain[attempt] \cup {Lookup(entry', names(attempt), FALSE)}
        /\ plain'["html"] = IF plain["html"] = {} THEN {}
                            ELSE plain["html"] \cup {Lookup(entry', names("html"), FALSE)}
    BY <1>2, <1>3, <1>4, Zenon
  <2>2. Opening => bound[attempt] # {} /\ plain[attempt] # {}
    BY DEF IndInv, HistoryInv
  <2> QED
    BY <1>5, <2>1, <2>2
<1>9. HistoryInv'
  BY <1>1, <1>8 DEF IndInv, HistoryInv, Opening, callVars
<1>10. SeenInv'
  <2>1. pc \in {"opening", "checking"} => plain[attempt] # {}
    BY DEF IndInv, HistoryInv, Opening
  <2>2. ASSUME NEW f \in Files, plain'[attempt] = {f}, pc \in {"opening", "checking"}
        PROVE  plain[attempt] = {f}
    BY <1>8, <2>1, <2>2
  <2> QED
    BY <1>1, <1>4, <1>8, <2>2 DEF IndInv, SeenInv, callVars
<1>11. IndexInv'
  BY <1>1 DEF IndInv, IndexInv, Base, callVars
<1>12. QuietInv' /\ QuietExact' /\ FaultsInv'
  BY <1>1 DEF IndInv, QuietInv, QuietExact, FaultsInv, callVars
<1> QED
  BY <1>6, <1>7, <1>9, <1>10, <1>11, <1>12 DEF IndInv

(* A step that changes nothing keeps the invariant. *)
LEMMA StutterKeeps ==
  ASSUME IndInv, UNCHANGED vars
  PROVE  IndInv'
<1> USE DEF vars, callVars
<1>1. TypeInv' /\ PartsInv'
  BY DEF IndInv, TypeInv, PartsInv, Opening
<1>2. HistoryInv' /\ SeenInv'
  BY DEF IndInv, HistoryInv, SeenInv, Opening
<1>3. IndexInv' /\ QuietInv'
  BY DEF IndInv, IndexInv, QuietInv, Base
<1>4. QuietExact' /\ FaultsInv'
  BY DEF IndInv, QuietExact, FaultsInv
<1> QED
  BY <1>1, <1>2, <1>3, <1>4 DEF IndInv

(* Every step keeps the invariant. *)
LEMMA NextKeeps ==
  ASSUME IndInv, [Next]_vars
  PROVE  IndInv'
<1>1. CASE Cancelled
  BY <1>1, CancelledKeeps
<1>2. CASE Validate
  BY <1>2, ValidateKeeps
<1>3. CASE Walk
  BY <1>3, WalkKeeps
<1>4. CASE OpenFile
  BY <1>4, OpenFileKeeps
<1>5. CASE CheckFile
  BY <1>5, CheckFileKeeps
<1>6. CASE Cancel
  BY <1>6, CancelKeeps
<1>7. CASE TreeChanges
  BY <1>7, TreeChangesKeeps
<1>8. CASE Finished \/ UNCHANGED vars
  BY <1>8, StutterKeeps DEF Finished
<1>9. CASE SystemError
  BY <1>9, SystemErrorKeeps
<1> QED
  BY <1>1, <1>2, <1>3, <1>4, <1>5, <1>6, <1>7, <1>8, <1>9 DEF Next, Open

-----------------------------------------------------------------------------
(* What Open promises *)

(* The parts of a URI are texts. *)
LEMMA PartsTyped ==
  ASSUME NEW raw \in Seq(Symbols), NEW a \in Nat, NEW q \in Nat, NEW h \in Nat, AreCuts(raw, a, q, h)
  PROVE  LET u == PartsAt(raw, a, q, h) IN u.ok /\ u.path \in Seq(Symbols) /\ u.query \in Seq(Symbols)
<1> DEFINE n == Len(raw)
<1>1. n \in Nat /\ 2 <= a /\ a <= q /\ q <= h /\ h <= n + 1
  BY DEF AreCuts
<1>2. <<"/">> \in Seq(Symbols)
  <2>1. "/" \in Symbols
    BY DEF Symbols, QueryChars, PathChars
  <2> QED
    BY <2>1
<1>3. a # q => SubSeq(raw, a, q - 1) \in Seq(Symbols)
  BY <1>1
<1>4. SubSeq(raw, q + 1, h - 1) \in Seq(Symbols)
  BY <1>1
<1> QED
  BY <1>2, <1>3, <1>4 DEF PartsAt

(* What ParseURI returns passes ValidateResource. *)
LEMMA ParseTyped ==
  ASSUME NEW raw \in Seq(Symbols), ParseURI(raw).ok
  PROVE  /\ ParseURI(raw).path \in Seq(Symbols) /\ ParseURI(raw).query \in Seq(Symbols)
         /\ ValidateResource(ParseURI(raw).path, ParseURI(raw).query)
         /\ ~ RefusedAtOnce(raw)
<1>1. ~ NoURI.ok
  BY DEF NoURI
<1>2. ~ RefusedAtOnce(raw)
  BY <1>1 DEF ParseURI, RefusedAtOnce
<1>3. PICK a \in Nat, q \in Nat, h \in Nat :
        /\ AreCuts(raw, a, q, h)
        /\ ParseURI(raw) = IF Validated(PartsAt(raw, a, q, h)) THEN PartsAt(raw, a, q, h) ELSE NoURI
  BY <1>2, ParseIs
<1>4. Validated(PartsAt(raw, a, q, h)) /\ ParseURI(raw) = PartsAt(raw, a, q, h)
  BY <1>1, <1>3
<1> QED
  BY <1>2, <1>3, <1>4, PartsTyped DEF Validated

(* The invariant holds when the call starts. *)
LEMMA InitInv ==
  ASSUME Init
  PROVE  IndInv
<1>1. text \in Seq(Symbols)
  BY TreeAssumption DEF Init
<1>2. path \in Seq(Symbols) /\ query \in Seq(Symbols)
  <2>1. <<>> \in Seq(Symbols)
    OBVIOUS
  <2>2. CASE parsed
    <3>1. Requested(ParseURI(text))
      BY <2>2 DEF Init, Asked
    <3> QED
      BY <1>1, <2>1, <3>1, ParseTyped DEF Requested
  <2>3. CASE ~ parsed
    BY <1>1, <2>1, <2>3 DEF Init, Asked
  <2> QED
    BY <2>2, <2>3
<1>3. \/ pc = "called" /\ outcome = "none"
      \/ pc = "done" /\ outcome \in {"not sent", "not a URI"}
  BY DEF Init, Asked, Requested
<1>4. attempt = "path" /\ cancelled = FALSE /\ quiet = TRUE
  BY DEF Init
<1>5. TypeInv
  BY <1>1, <1>2, <1>3, <1>4 DEF Init, TypeInv, Opening, Attempts
<1>6. PartsInv /\ HistoryInv /\ FaultsInv /\ SeenInv /\ IndexInv
  BY <1>3, <1>4 DEF Init, PartsInv, HistoryInv, FaultsInv, SeenInv, IndexInv, Opening
<1>7. QuietInv /\ QuietExact
  BY <1>3, <1>4 DEF QuietInv, QuietExact
<1> QED
  BY <1>5, <1>6, <1>7 DEF IndInv

(* The invariant holds of every call of Open, for every tree, request and   *)
(* change of the tree while it runs.                                        *)
THEOREM FileHandlerInvariant == Spec => []IndInv
<1>1. Init => IndInv
  BY InitInv
<1>2. IndInv /\ [Next]_vars => IndInv'
  BY NextKeeps
<1> QED
  BY <1>1, <1>2, PTL DEF Spec

(* FileHandler.Open (resources.go) serves a regular file that is small      *)
(* enough and that the requested names led to at some moment of the call,   *)
(* and index.txt only if index.html was not one regular file all along or   *)
(* the system failed to read it.                                            *)
THEOREM OnlyNamedFilesServed == Spec => []ServedJustified
<1>1. IndInv => ServedJustified
  BY DEF IndInv, SeenInv, HistoryInv, ServedJustified
<1> QED
  BY <1>1, FileHandlerInvariant, PTL

(* While the tree is at rest and nobody cancels, FileHandler.Open returns   *)
(* exactly what the request names: the file, or the error that says why     *)
(* there is none.  A file that the system fails to read counts as missing.  *)
THEOREM ExactAtRest == Spec => []QuietExact
<1>1. IndInv => QuietExact
  BY DEF IndInv
<1> QED
  BY <1>1, FileHandlerInvariant, PTL

-----------------------------------------------------------------------------
(* Authorities *)

(* ReplaceAll, character by character. *)
LEMMA ReplaceAllIs ==
  ASSUME NEW s \in Seq(Symbols), NEW old, NEW new \in Symbols
  PROVE  /\ ReplaceAll(s, old, new) \in Seq(Symbols) /\ Len(ReplaceAll(s, old, new)) = Len(s)
         /\ \A i \in 1 .. Len(s) : ReplaceAll(s, old, new)[i] = IF s[i] = old THEN new ELSE s[i]
BY DEF ReplaceAll

\* What ToLower makes of one character.
LowerCase(c) == IF c = "X" THEN "x" ELSE IF c = "F" THEN "f" ELSE c

(* ToLower, character by character. *)
LEMMA ToLowerIs ==
  ASSUME NEW s \in Seq(Symbols)
  PROVE  /\ ToLower(s) \in Seq(Symbols) /\ Len(ToLower(s)) = Len(s)
         /\ \A i \in 1 .. Len(s) : ToLower(s)[i] = LowerCase(s[i])
<1>1. "x" \in Symbols /\ "f" \in Symbols
  BY DEF Symbols, QueryChars, PathChars, LowerAlnum
<1>2. \A c \in Symbols : LowerCase(c) \in Symbols
  BY <1>1 DEF LowerCase
<1>3. ToLower(s) = [i \in 1 .. Len(s) |-> LowerCase(s[i])]
  BY DEF ToLower, LowerCase
<1>4. \A i \in 1 .. Len(s) : s[i] \in Symbols
  OBVIOUS
<1> QED
  BY <1>2, <1>3, <1>4

(* Lower case of a part, or the part of the text in lower case, is the      *)
(* same.                                                                    *)
LEMMA SubSeqOfLower ==
  ASSUME NEW s \in Seq(Symbols),
         NEW i \in 1 .. Len(s) + 1, NEW j \in 0 .. Len(s), i <= j + 1
  PROVE  SubSeq(ToLower(s), i, j) = ToLower(SubSeq(s, i, j))
<1> DEFINE r == ToLower(s)
           u == SubSeq(r, i, j)
           t == SubSeq(s, i, j)
           v == ToLower(t)
           n == j - i + 1
<1>1. /\ r \in Seq(Symbols) /\ Len(r) = Len(s)
      /\ \A m \in 1 .. Len(s) : r[m] = LowerCase(s[m])
  BY ToLowerIs
<1> HIDE DEF r
<1>2. u \in Seq(Symbols) /\ Len(u) = n /\ \A m \in 1 .. n : u[m] = r[m + i - 1]
  BY <1>1, SubSeqIs
<1>3. t \in Seq(Symbols) /\ Len(t) = n /\ \A m \in 1 .. n : t[m] = s[m + i - 1]
  BY SubSeqIs
<1> HIDE DEF t
<1>4. /\ v \in Seq(Symbols) /\ Len(v) = n
      /\ \A m \in 1 .. n : v[m] = LowerCase(t[m])
  BY <1>3, ToLowerIs
<1>5. \A m \in 1 .. n : m + i - 1 \in 1 .. Len(s)
  <2>1. Len(s) \in Nat
    OBVIOUS
  <2> QED
    BY <2>1
<1> HIDE DEF u, v, n
<1>6. \A m \in 1 .. n : u[m] = v[m]
  BY <1>1, <1>2, <1>3, <1>4, <1>5
<1>7. u = v
  BY <1>2, <1>4, <1>6, SeqEqual
<1> QED
  BY <1>7 DEF u, v, r, t

(* validLabel accepts exactly the labels; "_" is legal in the first one. *)
LEMMA LabelExact ==
  ASSUME NEW s \in Seq(Symbols)
  PROVE  validLabel(s) <=> Label(s, {"-"})
<1>1. \A x : x \in LowerAlnum => x # "-"
  BY DEF LowerAlnum, Hex
<1>2. Len(s) \in Nat
  OBVIOUS
<1>3. Len(s) \in 1 .. MaxLabel => 1 \in 1 .. Len(s) /\ Len(s) \in 1 .. Len(s)
  BY <1>2
<1> QED
  BY <1>1, <1>3 DEF validLabel, Label

(* The first label of an authority may hold "_" where a label holds "-". *)
LEMMA FirstLabelExact ==
  ASSUME NEW s \in Seq(Symbols)
  PROVE  validLabel(ReplaceAll(s, "_", "-")) <=> Label(s, {"-", "_"})
<1> DEFINE r == ReplaceAll(s, "_", "-")
<1>1. \A x : x \in LowerAlnum => x # "-" /\ x # "_"
  BY DEF LowerAlnum, Hex
<1>2. "-" \in Symbols
  BY DEF Symbols, QueryChars, PathChars
<1>3. Len(r) = Len(s) /\ \A i \in 1 .. Len(s) : r[i] = IF s[i] = "_" THEN "-" ELSE s[i]
  <2>1. ASSUME NEW x \in Symbols, NEW y
        PROVE  /\ Len(ReplaceAll(s, y, x)) = Len(s)
               /\ \A i \in 1 .. Len(s) : ReplaceAll(s, y, x)[i] = IF s[i] = y THEN x ELSE s[i]
    BY ReplaceAllIs
  <2> QED
    BY <1>2, <2>1
<1> HIDE DEF r
<1>4. Len(s) \in Nat
  OBVIOUS
<1>5. Len(s) \in 1 .. MaxLabel => 1 \in 1 .. Len(s) /\ Len(s) \in 1 .. Len(s)
  BY <1>4
<1>6. \A i \in 1 .. Len(s) : r[i] \in LowerAlnum <=> s[i] \in LowerAlnum
  BY <1>1, <1>3
<1>7. \A i \in 1 .. Len(s) : r[i] = "-" <=> s[i] \in {"-", "_"}
  BY <1>3
<1>8. validLabel(r) <=>
        /\ Len(s) \in 1 .. MaxLabel /\ s[1] \in LowerAlnum /\ s[Len(s)] \in LowerAlnum
        /\ \A i \in 1 .. Len(s) : s[i] \in LowerAlnum \/ s[i] \in {"-", "_"}
  BY <1>3, <1>5, <1>6, <1>7 DEF validLabel
<1>9. Label(s, {"-", "_"}) <=>
        /\ Len(s) \in 1 .. MaxLabel /\ s[1] \in LowerAlnum /\ s[Len(s)] \in LowerAlnum
        /\ \A i \in 1 .. Len(s) : s[i] \in LowerAlnum \/ s[i] \in {"-", "_"}
  BY <1>1, <1>5 DEF Label
<1> QED
  BY <1>8, <1>9 DEF r

(* A text has one part more than it has separators. *)
LEMMA NumberOfParts ==
  ASSUME NEW s \in Seq(Symbols), NEW sep
  PROVE  LET seps == {i \in 1 .. Len(s) : s[i] = sep}
         IN  /\ IsFiniteSet(seps) /\ Cardinality(seps) \in Nat
             /\ Len(Split(s, sep)) = Cardinality(seps) + 1
<1> DEFINE seps == {i \in 1 .. Len(s) : s[i] = sep}
           m == Cardinality(seps) + 1
           r == Split(s, sep)
           Cut(n) == IF n = 0 THEN 0
                     ELSE CHOOSE i \in seps \cup {Len(s) + 1} :
                            Cardinality({j \in seps : j < i}) = n - 1
<1>1. Len(s) \in Nat /\ seps \in SUBSET (1 .. Len(s)) /\ 1 \in Int /\ Len(s) \in Int
  OBVIOUS
<1>2. IsFiniteSet(1 .. Len(s))
  BY <1>1, FS_Interval
<1>3. IsFiniteSet(seps)
  BY <1>1, <1>2, FS_Subset
<1>4. Cardinality(seps) \in Nat
  BY <1>3, FS_CardinalityType
<1>5. m \in Nat
  BY <1>4
<1>6. r = [n \in 1 .. m |-> SubSeq(s, Cut(n - 1) + 1, Cut(n) - 1)]
  BY Zenon DEF Split
<1> HIDE DEF Cut, m
<1>7. Len(r) = m
  BY <1>5, <1>6
<1> QED
  BY <1>3, <1>4, <1>7 DEF m, r

(* A text with one separator is split there. *)
LEMMA SplitInTwo ==
  ASSUME NEW s \in Seq(Symbols), NEW sep, NEW d \in 1 .. Len(s),
         {i \in 1 .. Len(s) : s[i] = sep} = {d}
  PROVE  /\ Split(s, sep)[1] = SubSeq(s, 1, d - 1)
         /\ Split(s, sep)[2] = SubSeq(s, d + 1, Len(s))
<1> DEFINE seps == {i \in 1 .. Len(s) : s[i] = sep}
           L == Len(s)
           At1(i) == {j \in seps : j < i}
           Cut(n) == IF n = 0 THEN 0
                     ELSE CHOOSE i \in seps \cup {L + 1} : Cardinality({j \in seps : j < i}) = n - 1
<1>1. L \in Nat /\ d \in Nat /\ 1 <= d /\ d <= L
  OBVIOUS
<1>2. Split(s, sep) = [n \in 1 .. Cardinality(seps) + 1 |-> SubSeq(s, Cut(n - 1) + 1, Cut(n) - 1)]
  BY Zenon DEF Split
<1>3. seps = {d}
  OBVIOUS
<1> HIDE DEF seps, L
<1>4. Cardinality(seps) = 1
  BY <1>3, FS_Singleton
<1>5. At1(d) = {} /\ At1(L + 1) = {d}
  BY <1>1, <1>3
<1>6. Cardinality(At1(d)) = 0 /\ Cardinality(At1(L + 1)) = 1
  BY <1>5, FS_EmptySet, FS_Singleton
<1>7. d # L + 1 /\ seps \cup {L + 1} = {d, L + 1}
  BY <1>1, <1>3
<1> DEFINE C(n) == CHOOSE i \in seps \cup {L + 1} : Cardinality(At1(i)) = n - 1
<1>8. C(1) = d /\ C(2) = L + 1
  <2>1. 1 - 1 = 0 /\ 2 - 1 = 1 /\ 0 # 1
    OBVIOUS
  <2> HIDE DEF At1
  <2>2. C(1) = d
    BY <1>6, <1>7, <2>1
  <2>3. C(2) = L + 1
    BY <1>6, <1>7, <2>1
  <2> QED
    BY <2>2, <2>3
<1>9. Cut(0) = 0 /\ Cut(1) = C(1) /\ Cut(2) = C(2)
  OBVIOUS
<1>10. 1 \in 1 .. 1 + 1 /\ 2 \in 1 .. 1 + 1 /\ 1 - 1 = 0 /\ 2 - 1 = 1 /\ 0 + 1 = 1 /\ (L + 1) - 1 = L
  BY <1>1
<1> HIDE DEF Cut, C
<1>11. /\ Split(s, sep)[1] = SubSeq(s, Cut(1 - 1) + 1, Cut(1) - 1)
       /\ Split(s, sep)[2] = SubSeq(s, Cut(2 - 1) + 1, Cut(2) - 1)
  BY <1>2, <1>4, <1>10
<1> QED
  BY <1>8, <1>9, <1>10, <1>11 DEF L

(* ValidateAuthority accepts exactly two labels around a dot. *)
LEMMA AuthorityExact ==
  ASSUME NEW s \in Seq(Symbols)
  PROVE  ValidateAuthority(s) <=>
           \E d \in 1 .. Len(s) :
             /\ s[d] = "."
             /\ Label(SubSeq(s, 1, d - 1), {"-", "_"}) /\ Label(SubSeq(s, d + 1, Len(s)), {"-"})
<1> DEFINE seps == {i \in 1 .. Len(s) : s[i] = "."}
           Two(d) == /\ Label(SubSeq(s, 1, d - 1), {"-", "_"})
                     /\ Label(SubSeq(s, d + 1, Len(s)), {"-"})
<1>1. /\ IsFiniteSet(seps) /\ Cardinality(seps) \in Nat
      /\ Len(Split(s, ".")) = Cardinality(seps) + 1
  BY NumberOfParts
<1>2. Len(s) \in Nat
  OBVIOUS
<1>3. ASSUME NEW d \in 1 .. Len(s)
      PROVE  /\ SubSeq(s, 1, d - 1) \in Seq(Symbols) /\ Len(SubSeq(s, 1, d - 1)) = d - 1
             /\ \A m \in 1 .. d - 1 : SubSeq(s, 1, d - 1)[m] = s[m]
             /\ SubSeq(s, d + 1, Len(s)) \in Seq(Symbols) /\ Len(SubSeq(s, d + 1, Len(s))) = Len(s) - d
             /\ \A m \in 1 .. Len(s) - d : SubSeq(s, d + 1, Len(s))[m] = s[m + d]
  OBVIOUS
<1>4. ASSUME NEW d \in 1 .. Len(s), seps = {d}
      PROVE  ValidateAuthority(s) <=> Two(d)
  <2>1. Cardinality(seps) = 1
    BY <1>4, FS_Singleton
  <2> HIDE DEF seps
  <2>2. Len(Split(s, ".")) = 2
    BY <1>1, <2>1
  <2>3. Split(s, ".")[1] = SubSeq(s, 1, d - 1) /\ Split(s, ".")[2] = SubSeq(s, d + 1, Len(s))
    BY <1>4, SplitInTwo DEF seps
  <2> QED
    BY <1>3, <2>2, <2>3, LabelExact, FirstLabelExact DEF ValidateAuthority
<1>5. ASSUME ValidateAuthority(s)
      PROVE  \E d \in 1 .. Len(s) : s[d] = "." /\ Two(d)
  <2>1. Cardinality(seps) = 1
    <3>1. Len(Split(s, ".")) = 2
      BY <1>5, Zenon DEF ValidateAuthority
    <3>2. ASSUME NEW c \in Nat, 2 = c + 1 PROVE c = 1
      BY <3>2
    <3> HIDE DEF seps
    <3> QED
      BY <1>1, <3>1, <3>2, Zenon
  <2>2. PICK d : seps = {d}
    BY <1>1, <2>1, FS_Singleton
  <2>3. d \in 1 .. Len(s) /\ s[d] = "."
    BY <2>2
  <2> HIDE DEF seps, Two
  <2>4. Two(d)
    BY <1>4, <1>5, <2>2, <2>3
  <2> QED
    BY <2>3, <2>4
<1>6. ASSUME NEW d \in 1 .. Len(s), s[d] = ".", Two(d)
      PROVE  ValidateAuthority(s)
  <2>1. "." \notin LowerAlnum
    BY DEF LowerAlnum, Hex
  <2>2. ASSUME NEW i \in 1 .. Len(s), s[i] = "." PROVE i = d
    <3>1. CASE i < d
      <4>1. i \in 1 .. d - 1 /\ i \in 1 .. Len(SubSeq(s, 1, d - 1))
        BY <1>3, <3>1
      <4>2. SubSeq(s, 1, d - 1)[i] = "."
        BY <1>3, <2>2, <4>1
      <4> QED
        BY <1>6, <2>1, <4>1, <4>2 DEF Label
    <3>2. CASE i > d
      <4>1. i - d \in 1 .. Len(s) - d /\ i - d \in 1 .. Len(SubSeq(s, d + 1, Len(s))) /\ (i - d) + d = i
        BY <1>2, <1>3, <3>2
      <4>2. SubSeq(s, d + 1, Len(s))[i - d] = "."
        BY <1>3, <2>2, <4>1
      <4> QED
        BY <1>6, <2>1, <4>1, <4>2 DEF Label
    <3> QED
      BY <1>2, <3>1, <3>2
  <2>3. seps = {d}
    BY <1>6, <2>2
  <2> HIDE DEF seps, Two
  <2> QED
    BY <1>4, <1>6, <2>3
<1> QED
  BY <1>5, <1>6

-----------------------------------------------------------------------------
(* Where a URI is cut *)

(* A text can be cut at the separators in one way only. *)
LEMMA CutsUnique ==
  ASSUME NEW raw \in Seq(Symbols), NEW a, NEW q, NEW h, NEW b, NEW r, NEW g,
         AreCuts(raw, a, q, h), AreCuts(raw, b, r, g)
  PROVE  a = b /\ q = r /\ h = g
<1> DEFINE n == Len(raw)
<1>1. /\ n \in Nat /\ a \in Nat /\ q \in Nat /\ h \in Nat /\ b \in Nat /\ r \in Nat /\ g \in Nat
      /\ 2 <= a /\ a <= q /\ q <= h /\ h <= n + 1 /\ 2 <= b /\ b <= r /\ r <= g /\ g <= n + 1
  BY DEF AreCuts
<1>2. /\ \A i \in 2 .. a - 1 : raw[i] \notin {"/", "?", "#"}
      /\ a <= n => raw[a] \in {"/", "?", "#"}
      /\ \A i \in 2 .. b - 1 : raw[i] \notin {"/", "?", "#"}
      /\ b <= n => raw[b] \in {"/", "?", "#"}
  BY DEF AreCuts
<1>3. /\ \A i \in a .. h - 1 : raw[i] # "#"
      /\ h <= n => raw[h] = "#"
      /\ \A i \in b .. g - 1 : raw[i] # "#"
      /\ g <= n => raw[g] = "#"
  BY DEF AreCuts
<1>4. /\ \A i \in a .. q - 1 : raw[i] # "?"
      /\ q < h => raw[q] = "?"
      /\ \A i \in b .. r - 1 : raw[i] # "?"
      /\ r < g => raw[r] = "?"
  BY DEF AreCuts
<1> HIDE DEF n
<1>5. a = b
  <2>1. a < b => a <= n /\ a \in 2 .. b - 1
    BY <1>1
  <2>2. b < a => b <= n /\ b \in 2 .. a - 1
    BY <1>1
  <2>3. ~ (a < b) /\ ~ (b < a)
    BY <1>2, <2>1, <2>2
  <2> QED
    BY <1>1, <2>3
<1>6. h = g
  <2>1. h < g => h <= n /\ h \in b .. g - 1
    BY <1>1, <1>5
  <2>2. g < h => g <= n /\ g \in a .. h - 1
    BY <1>1, <1>5
  <2>3. ~ (h < g) /\ ~ (g < h)
    BY <1>3, <2>1, <2>2
  <2> QED
    BY <1>1, <2>3
<1>7. q = r
  <2>1. q < r => q < h /\ q \in b .. r - 1
    BY <1>1, <1>5, <1>6
  <2>2. r < q => r < g /\ r \in a .. q - 1
    BY <1>1, <1>5, <1>6
  <2>3. ~ (q < r) /\ ~ (r < q)
    BY <1>4, <2>1, <2>2
  <2> QED
    BY <1>1, <2>3
<1> QED
  BY <1>5, <1>6, <1>7

(* In a component stand its characters and escapes. *)
LEMMA ComponentChars ==
  ASSUME NEW s \in Seq(Symbols), NEW i \in 1 .. Len(s) + 1, NEW j \in 0 .. Len(s), i <= j + 1,
         NEW allowed, Component(SubSeq(s, i, j), allowed)
  PROVE  \A m \in i .. j : s[m] \in allowed \cup {"%"}
<1> DEFINE t == SubSeq(s, i, j)
<1>1. Len(t) = j - i + 1 /\ \A m \in 1 .. j - i + 1 : t[m] = s[m + i - 1]
  BY SubSeqIs
<1>2. \A m \in 1 .. Len(t) : t[m] \in allowed \cup {"%"}
  BY DEF Component
<1> HIDE DEF t
<1>3. ASSUME NEW m \in i .. j PROVE s[m] \in allowed \cup {"%"}
  <2>1. m - i + 1 \in 1 .. j - i + 1 /\ (m - i + 1) + i - 1 = m
    OBVIOUS
  <2> QED
    BY <1>1, <1>2, <2>1
<1> QED
  BY <1>3

(* In a label stand letters of either case, digits and what it may hold     *)
(* inside.                                                                  *)
LEMMA LabelChars ==
  ASSUME NEW s \in Seq(Symbols), NEW i \in 1 .. Len(s) + 1, NEW j \in 0 .. Len(s), i <= j + 1,
         NEW inner, Label(ToLower(SubSeq(s, i, j)), inner)
  PROVE  \A m \in i .. j : s[m] \in LowerAlnum \cup UpperAlpha \cup inner
<1> DEFINE t == SubSeq(s, i, j)
           u == ToLower(t)
<1>1. t \in Seq(Symbols) /\ Len(t) = j - i + 1 /\ \A m \in 1 .. j - i + 1 : t[m] = s[m + i - 1]
  BY SubSeqIs
<1>2. \A m \in 1 .. Len(u) : u[m] \in LowerAlnum \cup inner
  BY DEF Label
<1> HIDE DEF t
<1>3. Len(u) = Len(t) /\ \A m \in 1 .. Len(t) : u[m] = LowerCase(t[m])
  <2>1. t \in Seq(Symbols)
    BY <1>1
  <2> QED
    BY <2>1, ToLowerIs
<1> HIDE DEF u
<1>4. ASSUME NEW m \in i .. j PROVE s[m] \in LowerAlnum \cup UpperAlpha \cup inner
  <2>1. m - i + 1 \in 1 .. j - i + 1 /\ (m - i + 1) + i - 1 = m
    OBVIOUS
  <2>2. t[m - i + 1] = s[m] /\ m - i + 1 \in 1 .. Len(t)
    BY <1>1, <2>1
  <2>3. u[m - i + 1] \in LowerAlnum \cup inner
    BY <1>2, <1>3, <2>2
  <2>4. s[m] \in UpperAlpha \/ s[m] = u[m - i + 1]
    BY <1>3, <2>2 DEF LowerCase, UpperAlpha
  <2> QED
    BY <2>3, <2>4
<1> QED
  BY <1>4

(* A URI can only be cut where ParseURI cuts it, and is plain ASCII. *)
LEMMA SplitGivesCuts ==
  ASSUME NEW raw \in Seq(Symbols),
         NEW a \in 2 .. Len(raw) + 1, NEW q \in 2 .. Len(raw) + 1, NEW h \in 2 .. Len(raw) + 1,
         a <= q, q <= h, IsSplitAt(raw, a, q, h)
  PROVE  AreCuts(raw, a, q, h) /\ \A i \in 2 .. Len(raw) : raw[i] \notin NotASCII
<1> DEFINE n == Len(raw)
           Of(i, j, set) == \A m \in i .. j : raw[m] \in set
<1>1. n \in Nat /\ a \in Nat /\ q \in Nat /\ h \in Nat /\ 2 <= a /\ a <= n + 1 /\ h <= n + 1
  OBVIOUS
<1>2. (a < q => raw[a] = "/") /\ (q < h => raw[q] = "?") /\ (h < n + 1 => raw[h] = "#")
  BY DEF IsSplitAt
<1>3. PICK dot \in 2 .. a - 1 :
        /\ raw[dot] = "."
        /\ Label(ToLower(SubSeq(raw, 2, dot - 1)), {"-", "_"})
        /\ Label(ToLower(SubSeq(raw, dot + 1, a - 1)), {"-"})
  BY DEF IsSplitAt
<1>4. Of(2, dot - 1, LowerAlnum \cup UpperAlpha \cup {"-", "_"})
  <2>1. 2 \in 1 .. Len(raw) + 1 /\ dot - 1 \in 0 .. Len(raw) /\ 2 <= (dot - 1) + 1
    BY <1>1
  <2> QED
    BY <1>3, <2>1, LabelChars
<1>5. Of(dot + 1, a - 1, LowerAlnum \cup UpperAlpha \cup {"-"})
  <2>1. dot + 1 \in 1 .. Len(raw) + 1 /\ a - 1 \in 0 .. Len(raw) /\ dot + 1 <= (a - 1) + 1
    BY <1>1
  <2> QED
    BY <1>3, <2>1, LabelChars
<1>6. Of(a, q - 1, PathChars \cup {"%"})
  <2>1. a \in 1 .. Len(raw) + 1 /\ q - 1 \in 0 .. Len(raw) /\ a <= (q - 1) + 1
    BY <1>1
  <2>2. Component(SubSeq(raw, a, q - 1), PathChars)
    BY DEF IsSplitAt
  <2> QED
    BY <2>1, <2>2, ComponentChars
<1>7. Of(q + 1, h - 1, QueryChars \cup {"%"})
  <2>1. CASE q = h
    BY <1>1, <2>1
  <2>2. CASE q # h
    <3>1. q + 1 \in 1 .. Len(raw) + 1 /\ h - 1 \in 0 .. Len(raw) /\ q + 1 <= (h - 1) + 1
      BY <1>1, <2>2
    <3>2. Component(SubSeq(raw, q + 1, h - 1), QueryChars)
      BY DEF IsSplitAt
    <3> QED
      BY <3>1, <3>2, ComponentChars
  <2> QED
    BY <2>1, <2>2
<1>8. Of(h + 1, n, QueryChars \cup {"%"})
  <2>1. CASE h = n + 1
    BY <1>1, <2>1
  <2>2. CASE h # n + 1
    <3>1. h + 1 \in 1 .. Len(raw) + 1 /\ Len(raw) \in 0 .. Len(raw) /\ h + 1 <= Len(raw) + 1
      BY <1>1, <2>2
    <3>2. Component(SubSeq(raw, h + 1, Len(raw)), QueryChars)
      BY DEF IsSplitAt
    <3> QED
      BY <3>1, <3>2, ComponentChars
  <2> QED
    BY <2>1, <2>2
<1>9. /\ \A x \in LowerAlnum \cup UpperAlpha \cup {"-", "_"} : x \notin {"/", "?", "#"} /\ x \notin NotASCII
      /\ \A x \in LowerAlnum \cup UpperAlpha \cup {"-"} : x \notin {"/", "?", "#"} /\ x \notin NotASCII
      /\ "." \notin {"/", "?", "#"} /\ "." \notin NotASCII
  BY DEF LowerAlnum, UpperAlpha, NotASCII
<1>10. /\ \A x \in PathChars \cup {"%"} : x # "?" /\ x # "#" /\ x \notin NotASCII
       /\ \A x \in QueryChars \cup {"%"} : x # "#" /\ x \notin NotASCII
       /\ \A x \in {"/", "?", "#"} : x \notin NotASCII
  BY DEF QueryChars, PathChars, LowerAlnum, UpperAlpha, NotASCII
<1>11. ASSUME NEW i \in 2 .. a - 1 PROVE raw[i] \notin {"/", "?", "#"} /\ raw[i] \notin NotASCII
  <2>1. i \in 2 .. dot - 1 \/ i = dot \/ i \in dot + 1 .. a - 1
    BY <1>1
  <2> QED
    BY <1>3, <1>4, <1>5, <1>9, <2>1
<1>12. ASSUME NEW i \in a .. q - 1 PROVE raw[i] # "?" /\ raw[i] # "#" /\ raw[i] \notin NotASCII
  BY <1>6, <1>10
<1>13. ASSUME NEW i \in q .. h - 1 PROVE raw[i] # "#" /\ raw[i] \notin NotASCII
  <2>1. (i = q /\ q < h) \/ i \in q + 1 .. h - 1
    BY <1>1
  <2> QED
    BY <1>2, <1>7, <1>10, <2>1
<1>14. ASSUME NEW i \in h .. n PROVE raw[i] \notin NotASCII
  <2>1. (i = h /\ h < n + 1) \/ i \in h + 1 .. n
    BY <1>1
  <2> QED
    BY <1>2, <1>8, <1>10, <2>1
<1>15. a <= n => raw[a] \in {"/", "?", "#"}
  <2>1. a <= n => a < q \/ (a = q /\ q < h) \/ (a = h /\ h < n + 1)
    BY <1>1
  <2> QED
    BY <1>2, <2>1
<1>16. ASSUME NEW i \in a .. h - 1 PROVE raw[i] # "#"
  <2>1. i \in a .. q - 1 \/ i \in q .. h - 1
    BY <1>1
  <2> QED
    BY <1>12, <1>13, <2>1
<1>17. ASSUME NEW i \in 2 .. n PROVE raw[i] \notin NotASCII
  <2>1. i \in 2 .. a - 1 \/ i \in a .. q - 1 \/ i \in q .. h - 1 \/ i \in h .. n
    BY <1>1
  <2> QED
    BY <1>11, <1>12, <1>13, <1>14, <2>1
<1>18. h <= n => raw[h] = "#"
  BY <1>1, <1>2
<1>19. q \in a .. n + 1 /\ h \in q .. n + 1
  BY <1>1
<1> QED
  BY <1>2, <1>11, <1>12, <1>15, <1>16, <1>17, <1>18, <1>19 DEF AreCuts

(* ValidateAuthority on the authority of a text. *)
LEMMA AuthorityAt ==
  ASSUME NEW raw \in Seq(Symbols), NEW a \in 2 .. Len(raw) + 1
  PROVE  ValidateAuthority(ToLower(SubSeq(raw, 2, a - 1))) <=>
           \E dot \in 2 .. a - 1 :
             /\ raw[dot] = "."
             /\ Label(ToLower(SubSeq(raw, 2, dot - 1)), {"-", "_"})
             /\ Label(ToLower(SubSeq(raw, dot + 1, a - 1)), {"-"})
<1> DEFINE t == SubSeq(raw, 2, a - 1)
           s == ToLower(t)
           n == a - 2
           Good(dot) == /\ raw[dot] = "."
                        /\ Label(ToLower(SubSeq(raw, 2, dot - 1)), {"-", "_"})
                        /\ Label(ToLower(SubSeq(raw, dot + 1, a - 1)), {"-"})
           Two(d) == /\ s[d] = "."
                     /\ Label(SubSeq(s, 1, d - 1), {"-", "_"}) /\ Label(SubSeq(s, d + 1, Len(s)), {"-"})
<1>1. Len(raw) \in Nat /\ n \in Nat /\ a \in Nat
  OBVIOUS
<1>2. /\ 2 \in 1 .. Len(raw) + 1 /\ a - 1 \in 0 .. Len(raw) /\ 2 <= (a - 1) + 1
      /\ (a - 1) - 2 + 1 = n
  BY <1>1
<1>3. t \in Seq(Symbols) /\ Len(t) = n /\ \A m \in 1 .. n : t[m] = raw[m + 2 - 1]
  BY <1>2, SubSeqIs
<1> HIDE DEF t
<1>5. /\ s \in Seq(Symbols) /\ Len(s) = n
      /\ \A m \in 1 .. n : s[m] = LowerCase(t[m])
  <2> HIDE DEF n
  <2> QED
    BY <1>3, ToLowerIs
<1>6. ASSUME NEW i \in 1 .. n + 1, NEW j \in 0 .. n, i <= j + 1
      PROVE  SubSeq(s, i, j) = ToLower(SubSeq(raw, i + 1, j + 1))
  <2>1. SubSeq(s, i, j) = ToLower(SubSeq(t, i, j))
    <3> HIDE DEF n
    <3>1. t \in Seq(Symbols) /\ i \in 1 .. Len(t) + 1 /\ j \in 0 .. Len(t) /\ i <= j + 1
      BY <1>3, <1>6
    <3> QED
      BY <3>1, SubSeqOfLower
  <2>2. i + 2 - 1 = i + 1 /\ j + 2 - 1 = j + 1
    BY <1>1
  <2>3. SubSeq(SubSeq(raw, 2, a - 1), i, j) = SubSeq(raw, i + 2 - 1, j + 2 - 1)
    <3> DEFINE e == a - 1
    <3>1. 2 \in 1 .. Len(raw) + 1 /\ e \in 0 .. Len(raw) /\ 2 <= e + 1 /\ e - 2 + 1 = n
      BY <1>2
    <3> HIDE DEF e, n
    <3>2. SubSeq(SubSeq(raw, 2, e), i, j) = SubSeq(raw, i + 2 - 1, j + 2 - 1)
      BY <1>6, <3>1, PartOfPart
    <3> QED
      BY <3>2 DEF e
  <2> QED
    BY <2>1, <2>2, <2>3 DEF t
<1> HIDE DEF s
<1>7. ASSUME NEW d \in 1 .. n PROVE Two(d) <=> Good(d + 1)
  <2>1. /\ 1 \in 1 .. n + 1 /\ d - 1 \in 0 .. n /\ 1 <= (d - 1) + 1 /\ 1 + 1 = 2 /\ (d - 1) + 1 = (d + 1) - 1
        /\ d + 1 \in 1 .. n + 1 /\ n \in 0 .. n /\ d + 1 <= n + 1 /\ n + 1 = a - 1
        /\ d + 2 - 1 = d + 1
    BY <1>1
  <2>2. SubSeq(s, 1, d - 1) = ToLower(SubSeq(raw, 2, (d + 1) - 1))
    BY <1>6, <2>1
  <2>3. SubSeq(s, d + 1, n) = ToLower(SubSeq(raw, (d + 1) + 1, a - 1))
    BY <1>6, <2>1
  <2>4. s[d] = "." <=> raw[d + 1] = "."
    BY <1>3, <1>5, <2>1 DEF LowerCase
  <2> QED
    BY <1>5, <2>2, <2>3, <2>4
<1>8. ValidateAuthority(s) <=> \E d \in 1 .. n : Two(d)
  BY <1>5, AuthorityExact
<1>9. \A dot \in 2 .. a - 1 : dot - 1 \in 1 .. n /\ (dot - 1) + 1 = dot
  BY <1>1
<1>10. \A d \in 1 .. n : d + 1 \in 2 .. a - 1
  BY <1>1
<1> HIDE DEF Two, Good, n
<1>11. (\E d \in 1 .. n : Two(d)) <=> (\E dot \in 2 .. a - 1 : Good(dot))
  <2>1. ASSUME NEW d \in 1 .. n, Two(d) PROVE \E dot \in 2 .. a - 1 : Good(dot)
    BY <1>7, <1>10, <2>1
  <2>2. ASSUME NEW dot \in 2 .. a - 1, Good(dot) PROVE \E d \in 1 .. n : Two(d)
    <3>1. Two(dot - 1)
      BY <1>7, <1>9, <2>2
    <3> QED
      BY <1>9, <3>1
  <2> QED
    BY <2>1, <2>2
<1> QED
  BY <1>8, <1>11 DEF s, t, Good

-----------------------------------------------------------------------------
(* Lengths *)

\* How often a symbol occurs in a text.
Count(s, sym) == Cardinality({i \in 1 .. Len(s) : s[i] = sym})

(* The length of a text from how often its longer symbols occur. *)
LEMMA SizeIs ==
  ASSUME NEW s
  PROVE  Size(s) = Len(s) + 6 * (Count(s, "deep://") + Count(s, "DEEP://"))
                     + 9 * Count(s, "index.html") + 8 * Count(s, "index.txt")
BY DEF Size, Count

(* A symbol occurs finitely often in a text. *)
LEMMA CountFinite ==
  ASSUME NEW s \in Seq(Symbols), NEW sym
  PROVE  IsFiniteSet({i \in 1 .. Len(s) : s[i] = sym}) /\ Count(s, sym) \in Nat
<1>1. Len(s) \in Int /\ 1 \in Int /\ {i \in 1 .. Len(s) : s[i] = sym} \in SUBSET (1 .. Len(s))
  OBVIOUS
<1>2. IsFiniteSet(1 .. Len(s))
  BY <1>1, FS_Interval
<1>3. IsFiniteSet({i \in 1 .. Len(s) : s[i] = sym})
  BY <1>1, <1>2, FS_Subset
<1> QED
  BY <1>3, FS_CardinalityType DEF Count

(* How often a symbol occurs in two texts together. *)
LEMMA CountConcat ==
  ASSUME NEW s \in Seq(Symbols), NEW t \in Seq(Symbols), NEW sym
  PROVE  Count(s \o t, sym) = Count(s, sym) + Count(t, sym)
<1> DEFINE n == Len(s)
           A == {i \in 1 .. n : s[i] = sym}
           B == {i \in 1 .. Len(t) : t[i] = sym}
           u == s \o t
           C == {i \in 1 .. Len(u) : u[i] = sym}
           f == [i \in B |-> i + n]
           D == {i \in n + 1 .. n + Len(t) : t[i - n] = sym}
<1>1. n \in Nat /\ Len(t) \in Nat
  OBVIOUS
<1>2. /\ Len(u) = n + Len(t) /\ \A i \in 1 .. n : u[i] = s[i]
      /\ \A i \in n + 1 .. n + Len(t) : u[i] = t[i - n]
  OBVIOUS
<1> HIDE DEF u
<1>3. C = A \cup D
  <2> HIDE DEF n
  <2>1. ASSUME NEW i \in 1 .. n + Len(t) PROVE i \in 1 .. n \/ i \in n + 1 .. n + Len(t)
    BY <1>1
  <2>2. \A i \in 1 .. n : i \in 1 .. n + Len(t)
    BY <1>1
  <2>3. \A i \in n + 1 .. n + Len(t) : i \in 1 .. n + Len(t)
    BY <1>1
  <2>4. ASSUME NEW i \in C PROVE i \in A \cup D
    BY <1>2, <2>1
  <2>5. ASSUME NEW i \in A \cup D PROVE i \in C
    BY <1>2, <2>2, <2>3
  <2> HIDE DEF A, C, D
  <2> QED
    BY <2>4, <2>5
<1>4. A \cap D = {}
  BY <1>1
<1>5. IsFiniteSet(A) /\ IsFiniteSet(B) /\ Cardinality(A) \in Nat /\ Cardinality(B) \in Nat
  BY CountFinite, FS_CardinalityType
<1>6. f \in Bijection(B, D)
  <2>1. \A i \in B : i \in Nat /\ i + n \in D
    BY <1>1
  <2>2. \A i \in D : i - n \in B /\ (i - n) + n = i
    BY <1>1
  <2>3. \A i, j \in B : i + n = j + n => i = j
    BY <1>1
  <2> HIDE DEF B, D, n
  <2>4. f \in [B -> D]
    BY <2>1
  <2>5. \A i, j \in B : f[i] = f[j] => i = j
    BY <2>3
  <2>6. \A d \in D : \E i \in B : f[i] = d
    BY <2>2
  <2> HIDE DEF f
  <2> QED
    BY <2>4, <2>5, <2>6 DEF Bijection, Injection, Surjection, IsInjective
<1> HIDE DEF A, B, C, D, f
<1>7. IsFiniteSet(D) /\ Cardinality(D) = Cardinality(B)
  <2>1. ExistsBijection(B, D)
    BY <1>6 DEF ExistsBijection
  <2> QED
    BY <1>5, <2>1, FS_Bijection
<1>8. Cardinality(A \cup D) = Cardinality(A) + Cardinality(D)
  <2>1. Cardinality(A \cup D) = Cardinality(A) + Cardinality(D) - Cardinality(A \cap D)
    BY <1>5, <1>7, FS_Union
  <2>2. Cardinality(A \cap D) = 0
    BY <1>4, FS_EmptySet
  <2> QED
    BY <1>5, <1>7, <2>1, <2>2
<1> QED
  BY <1>3, <1>7, <1>8 DEF Count, A, B, C, u, n

(* The length of a text is a number, and no less than that of its symbols. *)
LEMMA SizeNat ==
  ASSUME NEW s \in Seq(Symbols)
  PROVE  Size(s) \in Nat /\ Size(s) >= Len(s)
<1>1. /\ Count(s, "deep://") \in Nat /\ Count(s, "DEEP://") \in Nat
      /\ Count(s, "index.html") \in Nat /\ Count(s, "index.txt") \in Nat
  BY CountFinite
<1>2. Len(s) \in Nat
  OBVIOUS
<1>3. ASSUME NEW l \in Nat, NEW a \in Nat, NEW b \in Nat, NEW c \in Nat, NEW d \in Nat
      PROVE  /\ l + 6 * (a + b) + 9 * c + 8 * d \in Nat
             /\ l + 6 * (a + b) + 9 * c + 8 * d >= l
  OBVIOUS
<1> QED
  BY <1>1, <1>2, <1>3, SizeIs

(* The length of two texts together. *)
LEMMA SizeConcat ==
  ASSUME NEW s \in Seq(Symbols), NEW t \in Seq(Symbols)
  PROVE  s \o t \in Seq(Symbols) /\ Size(s \o t) = Size(s) + Size(t)
<1> DEFINE u == s \o t
<1>1. u \in Seq(Symbols) /\ Len(u) = Len(s) + Len(t) /\ Len(s) \in Nat /\ Len(t) \in Nat
  OBVIOUS
<1>2. /\ Count(s, "deep://") \in Nat /\ Count(s, "DEEP://") \in Nat
      /\ Count(s, "index.html") \in Nat /\ Count(s, "index.txt") \in Nat
      /\ Count(t, "deep://") \in Nat /\ Count(t, "DEEP://") \in Nat
      /\ Count(t, "index.html") \in Nat /\ Count(t, "index.txt") \in Nat
  BY CountFinite
<1>3. /\ Count(u, "deep://") = Count(s, "deep://") + Count(t, "deep://")
      /\ Count(u, "DEEP://") = Count(s, "DEEP://") + Count(t, "DEEP://")
      /\ Count(u, "index.html") = Count(s, "index.html") + Count(t, "index.html")
      /\ Count(u, "index.txt") = Count(s, "index.txt") + Count(t, "index.txt")
  BY CountConcat
<1>4. /\ Size(s) = Len(s) + 6 * (Count(s, "deep://") + Count(s, "DEEP://"))
                     + 9 * Count(s, "index.html") + 8 * Count(s, "index.txt")
      /\ Size(t) = Len(t) + 6 * (Count(t, "deep://") + Count(t, "DEEP://"))
                     + 9 * Count(t, "index.html") + 8 * Count(t, "index.txt")
      /\ Size(u) = Len(u) + 6 * (Count(u, "deep://") + Count(u, "DEEP://"))
                     + 9 * Count(u, "index.html") + 8 * Count(u, "index.txt")
  BY SizeIs
<1> HIDE DEF u
<1>5. Size(u) = (Len(s) + Len(t))
                  + 6 * ((Count(s, "deep://") + Count(t, "deep://"))
                         + (Count(s, "DEEP://") + Count(t, "DEEP://")))
                  + 9 * (Count(s, "index.html") + Count(t, "index.html"))
                  + 8 * (Count(s, "index.txt") + Count(t, "index.txt"))
  BY <1>1, <1>3, <1>4, Zenon
<1> DEFINE l == Len(s)
           m == Len(t)
           a == Count(s, "deep://")
           b == Count(s, "DEEP://")
           c == Count(s, "index.html")
           d == Count(s, "index.txt")
           e == Count(t, "deep://")
           f == Count(t, "DEEP://")
           g == Count(t, "index.html")
           h == Count(t, "index.txt")
<1>7. /\ l \in Nat /\ a \in Nat /\ b \in Nat /\ c \in Nat /\ d \in Nat
      /\ m \in Nat /\ e \in Nat /\ f \in Nat /\ g \in Nat /\ h \in Nat
      /\ Size(s) = l + 6 * (a + b) + 9 * c + 8 * d
      /\ Size(t) = m + 6 * (e + f) + 9 * g + 8 * h
      /\ Size(u) = (l + m) + 6 * ((a + e) + (b + f)) + 9 * (c + g) + 8 * (d + h)
  BY <1>1, <1>2, <1>4, <1>5, Zenon
<1> HIDE DEF l, m, a, b, c, d, e, f, g, h
<1>6. Size(u) = Size(s) + Size(t)
  BY <1>7
<1> QED
  BY <1>1, <1>6 DEF u

(* The length of a text is that of its two parts. *)
LEMMA SizeCut ==
  ASSUME NEW s \in Seq(Symbols), NEW i \in Nat, NEW m \in Nat, NEW j \in Nat,
         1 <= i, i <= m + 1, m <= j, j <= Len(s)
  PROVE  Size(SubSeq(s, i, j)) = Size(SubSeq(s, i, m)) + Size(SubSeq(s, m + 1, j))
<1> DEFINE u == SubSeq(s, i, m)
           v == SubSeq(s, m + 1, j)
           w == SubSeq(s, i, j)
<1>1. Len(s) \in Nat
  OBVIOUS
<1>2. u \in Seq(Symbols) /\ Len(u) = m - i + 1 /\ \A n \in 1 .. m - i + 1 : u[n] = s[n + i - 1]
  BY <1>1
<1>3. v \in Seq(Symbols) /\ Len(v) = j - m /\ \A n \in 1 .. j - m : v[n] = s[n + m]
  BY <1>1
<1>4. w \in Seq(Symbols) /\ Len(w) = j - i + 1 /\ \A n \in 1 .. j - i + 1 : w[n] = s[n + i - 1]
  BY <1>1
<1> HIDE DEF u, v, w
<1>5. /\ u \o v \in Seq(Symbols) /\ Len(u \o v) = Len(u) + Len(v)
      /\ \A n \in 1 .. Len(u) + Len(v) : (u \o v)[n] = IF n <= Len(u) THEN u[n] ELSE v[n - Len(u)]
  BY <1>2, <1>3, ConcatProperties
<1>6. Len(u) + Len(v) = j - i + 1
  BY <1>2, <1>3
<1>7. ASSUME NEW n \in 1 .. j - i + 1 PROVE w[n] = (u \o v)[n]
  <2>1. CASE n <= Len(u)
    <3>1. n \in 1 .. m - i + 1
      BY <1>2, <2>1
    <3> QED
      BY <1>2, <1>4, <1>5, <1>6, <2>1, <3>1
  <2>2. CASE ~ (n <= Len(u))
    <3>1. n - Len(u) \in 1 .. j - m /\ (n - Len(u)) + m = n + i - 1
      BY <1>2, <2>2
    <3>2. v[n - Len(u)] = s[n + i - 1]
      BY <1>3, <3>1
    <3> QED
      BY <1>4, <1>5, <1>6, <2>2, <3>2
  <2> QED
    BY <2>1, <2>2
<1>8. w = u \o v
  BY <1>4, <1>5, <1>6, <1>7, SeqEqual
<1> QED
  BY <1>2, <1>3, <1>8, SizeConcat DEF u, v, w

(* Writing an authority in lower case keeps its length. *)
LEMMA SizeOfLower ==
  ASSUME NEW s \in Seq(Symbols)
  PROVE  Size(ToLower(s)) = Size(s)
<1> DEFINE r == ToLower(s)
<1>2. Len(r) = Len(s) /\ \A i \in 1 .. Len(s) : r[i] = LowerCase(s[i])
  BY ToLowerIs
<1> HIDE DEF r
<1>3. ASSUME NEW sym \in {"deep://", "DEEP://", "index.html", "index.txt"}
      PROVE  Count(r, sym) = Count(s, sym)
  <2>1. sym \notin {"X", "x", "F", "f"}
    OBVIOUS
  <2>2. \A i \in 1 .. Len(s) : r[i] = sym <=> s[i] = sym
    BY <1>2, <2>1 DEF LowerCase
  <2>3. {i \in 1 .. Len(r) : r[i] = sym} = {i \in 1 .. Len(s) : s[i] = sym}
    BY <1>2, <2>2
  <2> QED
    BY <2>3 DEF Count
<1>4. Size(r) = Size(s)
  BY <1>2, <1>3, SizeIs
<1> QED
  BY <1>4 DEF r

(* What the parts of a URI measure together. *)
LEMMA SizeOfParts ==
  ASSUME NEW raw \in Seq(Symbols), NEW a \in Nat, NEW q \in Nat, NEW h \in Nat,
         AreCuts(raw, a, q, h), a > 2
  PROVE  LET u == PartsAt(raw, a, q, h)
         IN  /\ u.authority \in Seq(Symbols) /\ u.path \in Seq(Symbols) /\ u.query \in Seq(Symbols)
             /\ Size(u.authority) \in Nat /\ Size(u.path) \in Nat /\ Size(u.query) \in Nat
             /\ Size(u.path) + (IF u.query = <<>> THEN 0 ELSE 1 + Size(u.query)) <= Size(raw)
             /\ Size(u.authority) + Size(u.path) + Size(u.query) <= Size(raw)
<1> DEFINE n == Len(raw)
           u == PartsAt(raw, a, q, h)
           sq == SubSeq(raw, q + 1, h - 1)
           A == Size(SubSeq(raw, 2, a - 1))
           P == Size(SubSeq(raw, a, q - 1))
           Q == Size(SubSeq(raw, q, h - 1))
           H == Size(SubSeq(raw, h, n))
           S1 == Size(SubSeq(raw, 1, 1))
           path0 == IF a = q THEN <<"/">> ELSE SubSeq(raw, a, q - 1)
           auth == ToLower(SubSeq(raw, 2, a - 1))
<1>1. n \in Nat /\ 3 <= a /\ a <= q /\ q <= h /\ h <= n + 1
  BY DEF AreCuts
<1>2. /\ SubSeq(raw, 1, 1) \in Seq(Symbols) /\ Len(SubSeq(raw, 1, 1)) = 1
      /\ SubSeq(raw, 2, a - 1) \in Seq(Symbols) /\ Len(SubSeq(raw, 2, a - 1)) = a - 2
      /\ SubSeq(raw, a, q - 1) \in Seq(Symbols) /\ Len(SubSeq(raw, a, q - 1)) = q - a
      /\ SubSeq(raw, q, h - 1) \in Seq(Symbols) /\ Len(SubSeq(raw, q, h - 1)) = h - q
      /\ SubSeq(raw, h, n) \in Seq(Symbols) /\ SubSeq(raw, 1, n) = raw
  BY <1>1
<1>3. sq \in Seq(Symbols) /\ (sq # <<>> => q < h)
  BY <1>1
<1>4. /\ A \in Nat /\ P \in Nat /\ Q \in Nat /\ H \in Nat /\ S1 \in Nat
      /\ S1 >= 1 /\ A >= a - 2 /\ P >= q - a /\ Q >= h - q
  <2> HIDE DEF n
  <2> QED
    BY <1>2, SizeNat
<1>5. Size(sq) \in Nat
  BY <1>3, SizeNat
<1>6. Size(raw) = S1 + A + P + Q + H
  <2> DEFINE a1 == a - 1
             q1 == q - 1
             h1 == h - 1
  <2>1. /\ a1 \in Nat /\ q1 \in Nat /\ h1 \in Nat /\ 2 <= a1 /\ a1 <= q1 /\ q1 <= h1 /\ h1 <= n
        /\ a1 + 1 = a /\ q1 + 1 = q /\ h1 + 1 = h /\ 1 + 1 = 2
    BY <1>1
  <2> HIDE DEF a1, q1, h1, n
  <2>2. Size(SubSeq(raw, 1, n)) = Size(SubSeq(raw, 1, h1)) + Size(SubSeq(raw, h1 + 1, n))
    BY <1>1, <2>1, SizeCut DEF n
  <2>3. Size(SubSeq(raw, 1, h1)) = Size(SubSeq(raw, 1, q1)) + Size(SubSeq(raw, q1 + 1, h1))
    BY <1>1, <2>1, SizeCut DEF n
  <2>4. Size(SubSeq(raw, 1, q1)) = Size(SubSeq(raw, 1, a1)) + Size(SubSeq(raw, a1 + 1, q1))
    BY <1>1, <2>1, SizeCut DEF n
  <2>5. Size(SubSeq(raw, 1, a1)) = Size(SubSeq(raw, 1, 1)) + Size(SubSeq(raw, 1 + 1, a1))
    BY <1>1, <2>1, SizeCut DEF n
  <2>6. /\ A = Size(SubSeq(raw, 1 + 1, a1)) /\ P = Size(SubSeq(raw, a1 + 1, q1))
        /\ Q = Size(SubSeq(raw, q1 + 1, h1)) /\ H = Size(SubSeq(raw, h1 + 1, n))
    BY <2>1 DEF a1, q1, h1
  <2> HIDE DEF A, P, Q, H, S1
  <2> QED
    BY <1>2, <1>4, <2>2, <2>3, <2>4, <2>5, <2>6 DEF S1
<1>7. q < h => 1 + Size(sq) <= Q
  <2> SUFFICES ASSUME q < h PROVE 1 + Size(sq) <= Q
    OBVIOUS
  <2> DEFINE h1 == h - 1
  <2>1. h1 \in Nat /\ 1 <= q /\ q <= q + 1 /\ q <= h1 /\ h1 <= n
    BY <1>1
  <2> HIDE DEF h1, n
  <2>2. Size(SubSeq(raw, q, h1)) = Size(SubSeq(raw, q, q)) + Size(SubSeq(raw, q + 1, h1))
    BY <2>1, SizeCut DEF n
  <2>3. SubSeq(raw, q, q) \in Seq(Symbols) /\ Len(SubSeq(raw, q, q)) = 1
    BY <1>1, <2>1 DEF n
  <2>4. Size(SubSeq(raw, q, q)) \in Nat /\ Size(SubSeq(raw, q, q)) >= 1
    BY <2>3, SizeNat
  <2>5. Q = Size(SubSeq(raw, q, h1)) /\ sq = SubSeq(raw, q + 1, h1)
    BY DEF h1
  <2> HIDE DEF Q, sq
  <2> QED
    BY <1>4, <1>5, <2>2, <2>4, <2>5
<1>8. sq = <<>> => Size(sq) = 0
  <2> HIDE DEF sq
  <2>1. ASSUME sq = <<>> PROVE Size(sq) = 0
    <3>1. Len(sq) = 0 /\ \A sym : {i \in 1 .. Len(sq) : sq[i] = sym} = {}
      BY <2>1
    <3>2. \A sym : Count(sq, sym) = 0
      BY <3>1, FS_EmptySet DEF Count
    <3> QED
      BY <3>1, <3>2, SizeIs
  <2> QED
    BY <2>1
<1>9. path0 \in Seq(Symbols) /\ Size(path0) \in Nat /\ Size(path0) <= P + 1 /\ (a # q => Size(path0) = P)
      /\ (a = q => Size(path0) = 1)
  <2>1. CASE a = q
    <3>1. "/" \in Symbols /\ <<"/">> \in Seq(Symbols) /\ Len(<<"/">>) = 1
      <4>1. "/" \in Symbols
        BY DEF Symbols, QueryChars, PathChars
      <4> QED
        BY <4>1
    <3>2. ASSUME NEW sym, sym # "/" PROVE Count(<<"/">>, sym) = 0
      <4>1. {i \in 1 .. Len(<<"/">>) : <<"/">>[i] = sym} = {}
        BY <3>2
      <4> QED
        BY <4>1, FS_EmptySet DEF Count
    <3>3. Size(<<"/">>) = 1
      <4>1. /\ Count(<<"/">>, "deep://") = 0 /\ Count(<<"/">>, "DEEP://") = 0
            /\ Count(<<"/">>, "index.html") = 0 /\ Count(<<"/">>, "index.txt") = 0
        BY <3>2
      <4> DEFINE one == <<"/">>
      <4>2. Len(one) = 1
        OBVIOUS
      <4>3. /\ Count(one, "deep://") = 0 /\ Count(one, "DEEP://") = 0
            /\ Count(one, "index.html") = 0 /\ Count(one, "index.txt") = 0
        BY <4>1
      <4> HIDE DEF one
      <4>4. Size(one) = 1
        <5>1. Size(one) = 1 + 6 * (0 + 0) + 9 * 0 + 8 * 0
          <6>1. Size(one) = Len(one) + 6 * (Count(one, "deep://") + Count(one, "DEEP://"))
                              + 9 * Count(one, "index.html") + 8 * Count(one, "index.txt")
            BY SizeIs
          <6> QED
            BY <4>2, <4>3, <6>1, Zenon
        <5> QED
          BY <5>1
      <4> QED
        BY <4>4 DEF one
    <3>4. path0 = <<"/">>
      BY <2>1
    <3> HIDE DEF path0, P
    <3> QED
      BY <1>4, <2>1, <3>1, <3>3, <3>4
  <2>2. CASE a # q
    <3>1. path0 = SubSeq(raw, a, q - 1)
      BY <2>2
    <3>2. path0 \in Seq(Symbols) /\ Size(path0) = P
      BY <1>2, <3>1
    <3> HIDE DEF path0, P
    <3> QED
      BY <1>4, <2>2, <3>2
  <2> QED
    BY <2>1, <2>2
<1>10. auth \in Seq(Symbols) /\ Size(auth) = A
  <2> DEFINE t == SubSeq(raw, 2, a - 1)
  <2>1. t \in Seq(Symbols)
    BY <1>2
  <2> HIDE DEF t
  <2>3. ToLower(t) \in Seq(Symbols) /\ Size(ToLower(t)) = Size(t)
    BY <2>1, ToLowerIs, SizeOfLower
  <2> QED
    BY <2>3 DEF t
<1>11. u.authority = auth /\ u.path = path0 /\ u.query = sq
  BY DEF PartsAt
<1>12. (q >= h => sq = <<>>)
  BY <1>1
<1> HIDE DEF A, P, Q, H, S1, path0, auth, sq, u, n
<1>13. Size(path0) + (IF sq = <<>> THEN 0 ELSE 1 + Size(sq)) <= Size(raw)
  BY <1>1, <1>3, <1>4, <1>5, <1>6, <1>7, <1>9
<1>14. Size(auth) + Size(path0) + Size(sq) <= Size(raw)
  <2>1. Size(sq) <= Q
    BY <1>1, <1>4, <1>5, <1>7, <1>8, <1>12
  <2> QED
    BY <1>4, <1>5, <1>6, <1>9, <1>10, <2>1
<1> QED
  BY <1>3, <1>4, <1>5, <1>9, <1>10, <1>11, <1>13, <1>14 DEF u

(* What ParseURI checks is what a URI is. *)
LEMMA ValidatedExact ==
  ASSUME NEW raw \in Seq(Symbols), NEW a \in Nat, NEW q \in Nat, NEW h \in Nat,
         AreCuts(raw, a, q, h), Size(raw) <= MaxURILength
  PROVE  Validated(PartsAt(raw, a, q, h)) <=> IsSplitAt(raw, a, q, h)
<1> DEFINE n == Len(raw)
           u == PartsAt(raw, a, q, h)
           auth == ToLower(SubSeq(raw, 2, a - 1))
           pathOf == IF a = q THEN <<"/">> ELSE SubSeq(raw, a, q - 1)
           qs == SubSeq(raw, q + 1, h - 1)
           fs == SubSeq(raw, h + 1, n)
           Dotted == \E dot \in 2 .. a - 1 :
             /\ raw[dot] = "."
             /\ Label(ToLower(SubSeq(raw, 2, dot - 1)), {"-", "_"})
             /\ Label(ToLower(SubSeq(raw, dot + 1, a - 1)), {"-"})
           Small == Size(pathOf) + (IF qs = <<>> THEN 0 ELSE 1 + Size(qs)) <= MaxURILength
<1>1. n \in Nat /\ 2 <= a /\ a <= q /\ q <= h /\ h <= n + 1
  BY DEF AreCuts
<1>2. u.authority = auth /\ u.path = pathOf /\ u.query = qs /\ u.fragment = fs
  BY DEF PartsAt
<1>3. /\ SubSeq(raw, a, q - 1) \in Seq(Symbols) /\ Len(SubSeq(raw, a, q - 1)) = q - a
      /\ (a < q => SubSeq(raw, a, q - 1)[1] = raw[a])
  BY <1>1
<1>4. qs \in Seq(Symbols) /\ fs \in Seq(Symbols)
  BY <1>1
<1>5. ValidateAuthority(auth) <=> Dotted
  <2>1. a \in 2 .. Len(raw) + 1
    BY <1>1
  <2> QED
    BY <2>1, AuthorityAt
<1>6. /\ "%" \notin PathChars /\ Hex \subseteq PathChars /\ "%" \notin QueryChars
      /\ Hex \subseteq QueryChars /\ "/" \in PathChars
  BY DEF PathChars, QueryChars, LowerAlnum, UpperAlpha, Hex
<1>7. /\ validateComponent(qs, QueryChars) <=> Component(qs, QueryChars)
      /\ validateComponent(fs, QueryChars) <=> Component(fs, QueryChars)
  <2>1. Len(qs) \in Nat /\ Len(fs) \in Nat
    BY <1>4
  <2> HIDE DEF qs, fs
  <2> QED
    BY <1>6, <2>1, ScannerExact
<1>8. (q < h => raw[q] = "?") /\ (h < n + 1 => raw[h] = "#")
  <2>1. h < n + 1 => h <= n
    BY <1>1
  <2> QED
    BY <2>1 DEF AreCuts
<1>9. (pathOf # <<>> /\ Head(pathOf) = "/" /\ validateComponent(pathOf, PathChars))
        <=> (a < q => raw[a] = "/") /\ Component(SubSeq(raw, a, q - 1), PathChars)
  <2>1. CASE a = q
    <3>1. pathOf = <<"/">> /\ pathOf # <<>> /\ Head(pathOf) = "/" /\ Len(pathOf) = 1 /\ pathOf[1] = "/"
      BY <2>1
    <3>2. Component(pathOf, PathChars)
      BY <1>6, <3>1 DEF Component
    <3>3. Len(SubSeq(raw, a, q - 1)) = 0
      BY <1>3, <2>1
    <3>4. Component(SubSeq(raw, a, q - 1), PathChars)
      BY <3>3 DEF Component
    <3>5. ~ (a < q)
      BY <2>1
    <3> HIDE DEF pathOf
    <3>6. validateComponent(pathOf, PathChars)
      BY <1>6, <3>1, <3>2, ScannerExact
    <3> QED
      BY <3>1, <3>4, <3>5, <3>6
  <2>2. CASE a # q
    <3> DEFINE t == SubSeq(raw, a, q - 1)
    <3>1. a < q /\ pathOf = t /\ t \in Seq(Symbols) /\ Len(t) = q - a /\ t[1] = raw[a]
      BY <1>1, <1>3, <2>2
    <3> HIDE DEF pathOf, t
    <3>2. Len(t) \in Nat /\ Len(t) >= 1
      BY <1>1, <3>1
    <3>3. t # <<>> /\ Head(t) = raw[a]
      BY <3>1, <3>2
    <3>4. validateComponent(t, PathChars) <=> Component(t, PathChars)
      BY <1>6, <3>2, ScannerExact
    <3> QED
      BY <3>1, <3>3, <3>4 DEF t
  <2> QED
    BY <2>1, <2>2
<1>10. Dotted => Small
  <2>1. ASSUME Dotted PROVE Small
    <3>1. a > 2
      <4>1. PICK dot \in 2 .. a - 1 : raw[dot] = "."
        BY <2>1
      <4> QED
        BY <1>1, <4>1
    <3> HIDE DEF pathOf, qs
    <3>2. Size(pathOf) + (IF qs = <<>> THEN 0 ELSE 1 + Size(qs)) <= Size(raw) /\ Size(pathOf) \in Nat /\ Size(qs) \in Nat
      BY <1>2, <3>1, SizeOfParts
    <3>3. Size(raw) \in Nat /\ MaxURILength \in Nat
      BY SizeNat, LengthsAssumption
    <3> QED
      BY <3>2, <3>3
  <2> QED
    BY <2>1
<1>11. Validated(u) <=>
         /\ ValidateAuthority(auth) /\ validateComponent(fs, QueryChars)
         /\ pathOf # <<>> /\ Head(pathOf) = "/" /\ Small
         /\ validateComponent(pathOf, PathChars) /\ validateComponent(qs, QueryChars)
  <2> HIDE DEF auth, pathOf, qs, fs, u
  <2> QED
    BY <1>2 DEF Validated, ValidateResource
<1>12. IsSplitAt(raw, a, q, h) <=>
         /\ (a < q => raw[a] = "/") /\ (q < h => raw[q] = "?") /\ (h < n + 1 => raw[h] = "#")
         /\ Dotted
         /\ Component(SubSeq(raw, a, q - 1), PathChars)
         /\ Component(qs, QueryChars) /\ Component(fs, QueryChars)
  BY DEF IsSplitAt
<1> HIDE DEF n, u, auth, pathOf, qs, fs, Dotted, Small
<1>13. Validated(u) <=> IsSplitAt(raw, a, q, h)
  BY <1>5, <1>7, <1>8, <1>9, <1>10, <1>11, <1>12
<1> QED
  BY <1>13 DEF u

(* The parts of a text are those at the places where it can be cut. *)
LEMMA MeaningIs ==
  ASSUME NEW raw \in Seq(Symbols), NEW x
  PROVE  x \in Meaning(raw) <=>
           \E a, q, h \in 2 .. Len(raw) + 1 :
             a <= q /\ q <= h /\ IsSplitAt(raw, a, q, h) /\ x = PartsAt(raw, a, q, h)
<1> DEFINE Cuts == 2 .. Len(raw) + 1
           T == {c \in Cuts \X Cuts \X Cuts :
                   c[1] <= c[2] /\ c[2] <= c[3] /\ IsSplitAt(raw, c[1], c[2], c[3])}
<1>1. x \in Meaning(raw) <=> \E t \in T : x = PartsAt(raw, t[1], t[2], t[3])
  BY DEF Meaning
<1> HIDE DEF Cuts
<1>2. ASSUME NEW a \in Cuts, NEW q \in Cuts, NEW h \in Cuts, a <= q, q <= h, IsSplitAt(raw, a, q, h),
             x = PartsAt(raw, a, q, h)
      PROVE  \E t \in T : x = PartsAt(raw, t[1], t[2], t[3])
  <2> DEFINE t == <<a, q, h>>
  <2>1. t \in Cuts \X Cuts \X Cuts /\ t[1] = a /\ t[2] = q /\ t[3] = h
    OBVIOUS
  <2> HIDE DEF t
  <2>2. t \in T /\ x = PartsAt(raw, t[1], t[2], t[3])
    BY <1>2, <2>1
  <2> QED
    BY <2>2
<1>3. ASSUME NEW t \in T, x = PartsAt(raw, t[1], t[2], t[3])
      PROVE  \E a, q, h \in Cuts :
               a <= q /\ q <= h /\ IsSplitAt(raw, a, q, h) /\ x = PartsAt(raw, a, q, h)
  <2>1. /\ t[1] \in Cuts /\ t[2] \in Cuts /\ t[3] \in Cuts
        /\ t[1] <= t[2] /\ t[2] <= t[3] /\ IsSplitAt(raw, t[1], t[2], t[3])
    OBVIOUS
  <2> QED
    BY <1>3, <2>1
<1> HIDE DEF T
<1> QED
  BY <1>1, <1>2, <1>3 DEF Cuts

(* ParseURI (uri.go) is exact for every text, however long: it returns the   *)
(* parts of the one reading the text has as a URI, and refuses a text that  *)
(* has none.                                                                *)
THEOREM ParserExact ==
  ASSUME NEW raw \in Seq(Symbols)
  PROVE  ParsesExactly(raw)
<1> DEFINE Possible == raw # <<>> /\ raw[1] \in Schemes /\ Size(raw) <= MaxURILength
           meant == IF Possible THEN Meaning(raw) ELSE {}
<1>1. Size(raw) \in Nat /\ MaxURILength \in Nat /\ Len(raw) \in Nat
  BY SizeNat, LengthsAssumption
<1>2. NoURI.ok = FALSE
  BY DEF NoURI
<1>3. CASE RefusedAtOnce(raw)
  <2>1. ParseURI(raw) = NoURI
    BY <1>3 DEF ParseURI, RefusedAtOnce
  <2>2. Possible => Meaning(raw) = {}
    <3> SUFFICES ASSUME Possible, NEW x \in Meaning(raw) PROVE FALSE
      OBVIOUS
    <3>1. PICK a, q, h \in 2 .. Len(raw) + 1 : a <= q /\ q <= h /\ IsSplitAt(raw, a, q, h)
      BY MeaningIs
    <3>2. \A i \in 2 .. Len(raw) : raw[i] \notin NotASCII
      BY <3>1, SplitGivesCuts
    <3>3. raw[1] \notin NotASCII
      BY DEF NotASCII, Schemes
    <3>4. \A i \in 1 .. Len(raw) : i = 1 \/ i \in 2 .. Len(raw)
      BY <1>1
    <3>5. ~ (Size(raw) > MaxURILength)
      BY <1>1
    <3> QED
      BY <1>3, <3>2, <3>3, <3>4, <3>5 DEF RefusedAtOnce
  <2>3. meant = {}
    BY <2>2
  <2> HIDE DEF meant
  <2> QED
    BY <1>2, <2>1, <2>3, Zenon DEF ParsesExactly, meant
<1>4. CASE ~ RefusedAtOnce(raw)
  <2>1. PICK a \in Nat, q \in Nat, h \in Nat :
          /\ AreCuts(raw, a, q, h)
          /\ ParseURI(raw) = IF Validated(PartsAt(raw, a, q, h)) THEN PartsAt(raw, a, q, h) ELSE NoURI
    BY <1>4, ParseIs
  <2>2. Possible
    BY <1>1, <1>4 DEF RefusedAtOnce
  <2>3. Validated(PartsAt(raw, a, q, h)) <=> IsSplitAt(raw, a, q, h)
    BY <2>1, <2>2, ValidatedExact
  <2>4. ASSUME NEW x \in Meaning(raw)
        PROVE  IsSplitAt(raw, a, q, h) /\ x = PartsAt(raw, a, q, h)
    <3>1. PICK b, r, g \in 2 .. Len(raw) + 1 :
            b <= r /\ r <= g /\ IsSplitAt(raw, b, r, g) /\ x = PartsAt(raw, b, r, g)
      BY MeaningIs
    <3>2. AreCuts(raw, b, r, g)
      BY <3>1, SplitGivesCuts
    <3>3. a = b /\ q = r /\ h = g
      BY <2>1, <3>2, CutsUnique
    <3> QED
      BY <3>1, <3>3
  <2>5. meant = Meaning(raw)
    BY <2>2
  <2>6. CASE IsSplitAt(raw, a, q, h)
    <3>1. ParseURI(raw) = PartsAt(raw, a, q, h) /\ PartsAt(raw, a, q, h).ok = TRUE
      BY <2>1, <2>3, <2>6 DEF PartsAt
    <3>2. a \in 2 .. Len(raw) + 1 /\ q \in 2 .. Len(raw) + 1 /\ h \in 2 .. Len(raw) + 1 /\ a <= q /\ q <= h
      BY <1>1, <2>1 DEF AreCuts
    <3>3. PartsAt(raw, a, q, h) \in Meaning(raw)
      BY <2>6, <3>2, MeaningIs
    <3>4. Meaning(raw) = {PartsAt(raw, a, q, h)}
      BY <2>4, <3>3
    <3> HIDE DEF meant
    <3> QED
      BY <2>5, <3>1, <3>4, Zenon DEF ParsesExactly, meant
  <2>7. CASE ~ IsSplitAt(raw, a, q, h)
    <3>1. ParseURI(raw) = NoURI
      BY <2>1, <2>3, <2>7
    <3>2. Meaning(raw) = {}
      BY <2>4, <2>7
    <3> HIDE DEF meant
    <3> QED
      BY <1>2, <2>5, <3>1, <3>2, Zenon DEF ParsesExactly, meant
  <2> QED
    BY <2>6, <2>7
<1> QED
  BY <1>3, <1>4

(* A symbol that is not in a text is not counted. *)
LEMMA NoneCounted ==
  ASSUME NEW s, NEW sym, \A i \in 1 .. Len(s) : s[i] # sym
  PROVE  Count(s, sym) = 0
<1>1. {i \in 1 .. Len(s) : s[i] = sym} = {}
  OBVIOUS
<1> QED
  BY <1>1, FS_EmptySet DEF Count

(* A request for a URI without "&" fits a frame. *)
LEMMA SentUnlessAmpersand ==
  ASSUME NEW raw \in Seq(Symbols), ParseURI(raw).ok, \A i \in 1 .. Len(raw) : raw[i] # "&"
  PROVE  Fits(ParseURI(raw))
<1>1. ~ NoURI.ok
  BY DEF NoURI
<1>2. ~ RefusedAtOnce(raw)
  BY ParseTyped
<1>3. PICK a \in Nat, q \in Nat, h \in Nat :
        /\ AreCuts(raw, a, q, h)
        /\ ParseURI(raw) = IF Validated(PartsAt(raw, a, q, h)) THEN PartsAt(raw, a, q, h) ELSE NoURI
  BY <1>2, ParseIs
<1> DEFINE u == PartsAt(raw, a, q, h)
           n == Len(raw)
           value == u.authority \o u.path \o u.query
<1>4. Validated(u) /\ ParseURI(raw) = u
  BY <1>1, <1>3
<1>5. Size(raw) \in Nat /\ MaxURILength \in Nat /\ MaxMetadataSize \in Nat /\ MaxMetadataSize >= 57 + MaxURILength
  BY SizeNat, LengthsAssumption
<1>6. Size(raw) <= MaxURILength
  BY <1>2, <1>5 DEF RefusedAtOnce
<1>7. n \in Nat /\ 2 <= a /\ a <= q /\ q <= h /\ h <= n + 1
  BY <1>3 DEF AreCuts
<1>8. a > 2
  <2>1. IsSplitAt(raw, a, q, h)
    BY <1>3, <1>4, <1>6, ValidatedExact
  <2>2. PICK dot \in 2 .. a - 1 : raw[dot] = "."
    BY <2>1 DEF IsSplitAt
  <2> QED
    BY <1>7, <2>2
<1>9. /\ u.authority \in Seq(Symbols) /\ u.path \in Seq(Symbols) /\ u.query \in Seq(Symbols)
      /\ Size(u.authority) \in Nat /\ Size(u.path) \in Nat /\ Size(u.query) \in Nat
      /\ Size(u.authority) + Size(u.path) + Size(u.query) <= Size(raw)
  BY <1>3, <1>8, SizeOfParts
<1>10. ASSUME NEW i \in Nat, NEW j \in Nat, 1 <= i, i <= j + 1, j <= n
       PROVE  \A m \in 1 .. Len(SubSeq(raw, i, j)) : SubSeq(raw, i, j)[m] # "&"
  <2>1. /\ i \in 1 .. Len(raw) + 1 /\ j \in 0 .. Len(raw)
        /\ \A m \in 1 .. j - i + 1 : m + i - 1 \in 1 .. Len(raw)
    BY <1>7, <1>10
  <2>2. Len(SubSeq(raw, i, j)) = j - i + 1 /\ \A m \in 1 .. j - i + 1 : SubSeq(raw, i, j)[m] = raw[m + i - 1]
    BY <1>10, <2>1, SubSeqIs
  <2> QED
    BY <2>1, <2>2
<1>11. \A m \in 1 .. Len(u.authority) : u.authority[m] # "&"
  <2> DEFINE t == SubSeq(raw, 2, a - 1)
  <2>1. t \in Seq(Symbols)
    BY <1>7
  <2>2. \A m \in 1 .. Len(t) : t[m] # "&"
    <3> DEFINE j == a - 1
    <3>1. j \in Nat /\ 2 <= j + 1 /\ j <= n /\ 1 <= 2
      BY <1>7
    <3> HIDE DEF j, n
    <3>2. \A m \in 1 .. Len(SubSeq(raw, 2, j)) : SubSeq(raw, 2, j)[m] # "&"
      BY <1>10, <3>1
    <3> QED
      BY <3>2 DEF j
  <2>4. u.authority = ToLower(t)
    BY DEF PartsAt
  <2> HIDE DEF t, u
  <2>6. Len(u.authority) = Len(t) /\ \A m \in 1 .. Len(t) : u.authority[m] = LowerCase(t[m])
    BY <2>1, <2>4, ToLowerIs
  <2> QED
    BY <2>2, <2>6 DEF LowerCase
<1>12. \A m \in 1 .. Len(u.path) : u.path[m] # "&"
  <2>1. CASE a = q
    <3>1. u.path = <<"/">>
      BY <2>1 DEF PartsAt
    <3>2. \A m \in 1 .. Len(<<"/">>) : <<"/">>[m] # "&"
      OBVIOUS
    <3> QED
      BY <3>1, <3>2
  <2>2. CASE a # q
    <3> DEFINE j == q - 1
    <3>1. u.path = SubSeq(raw, a, j)
      BY <2>2 DEF PartsAt
    <3>2. j \in Nat /\ 1 <= a /\ a <= j + 1 /\ j <= n
      BY <1>7
    <3> HIDE DEF j, n, u
    <3>3. \A m \in 1 .. Len(SubSeq(raw, a, j)) : SubSeq(raw, a, j)[m] # "&"
      BY <1>10, <3>2
    <3> QED
      BY <3>1, <3>3
  <2> QED
    BY <2>1, <2>2
<1>13. \A m \in 1 .. Len(u.query) : u.query[m] # "&"
  <2> DEFINE i == q + 1
             j == h - 1
  <2>1. u.query = SubSeq(raw, i, j)
    BY DEF PartsAt
  <2>2. CASE q = h
    <3>1. SubSeq(raw, i, j) = <<>>
      BY <1>7, <2>2
    <3> HIDE DEF u
    <3>2. u.query = <<>>
      BY <2>1, <3>1
    <3> QED
      BY <3>2
  <2>3. CASE q # h
    <3>1. i \in Nat /\ j \in Nat /\ 1 <= i /\ i <= j + 1 /\ j <= n
      BY <1>7, <2>3
    <3> HIDE DEF i, j, n, u
    <3>2. \A m \in 1 .. Len(SubSeq(raw, i, j)) : SubSeq(raw, i, j)[m] # "&"
      BY <1>10, <3>1
    <3> QED
      BY <2>1, <3>2
  <2> QED
    BY <2>2, <2>3
<1> HIDE DEF u
<1>14. Size(value) <= Size(raw) /\ Size(value) \in Nat
  <2>1. /\ u.authority \o u.path \in Seq(Symbols)
        /\ Size(u.authority \o u.path) = Size(u.authority) + Size(u.path)
    BY <1>9, SizeConcat
  <2>2. Size(value) = Size(u.authority \o u.path) + Size(u.query)
    BY <1>9, <2>1, SizeConcat
  <2> HIDE DEF value
  <2> QED
    BY <1>9, <2>1, <2>2
<1>15. Count(value, "&") = 0
  <2>1. u.authority \o u.path \in Seq(Symbols)
    BY <1>9, SizeConcat
  <2>2. Count(u.authority \o u.path, "&") = Count(u.authority, "&") + Count(u.path, "&")
    BY <1>9, CountConcat
  <2>3. Count(value, "&") = Count(u.authority \o u.path, "&") + Count(u.query, "&")
    BY <1>9, <2>1, CountConcat
  <2>4. Count(u.authority, "&") = 0 /\ Count(u.path, "&") = 0 /\ Count(u.query, "&") = 0
    BY <1>11, <1>12, <1>13, NoneCounted
  <2> HIDE DEF value
  <2> QED
    BY <2>2, <2>3, <2>4
<1>16. Fits(u) <=> 57 + Size(value) + 5 * Count(value, "&") <= MaxMetadataSize
  BY DEF Fits, Count
<1> HIDE DEF value
<1>17. 57 + Size(value) + 5 * Count(value, "&") <= MaxMetadataSize
  BY <1>5, <1>6, <1>14, <1>15
<1> QED
  BY <1>4, <1>16, <1>17

-----------------------------------------------------------------------------
(* What is asked for *)

(* The request that is made is exact. *)
LEMMA InitParse ==
  ASSUME Init
  PROVE  ParseExact
<1>1. text \in Seq(Symbols)
  BY TreeAssumption DEF Init
<1>2. ParsesExactly(text)
  BY <1>1, ParserExact
<1> SUFFICES ASSUME parsed PROVE ParseExact
  BY DEF ParseExact
<1> DEFINE uri == ParseURI(text)
<1>3. Requested(uri)
  BY DEF Init, Asked
<1> HIDE DEF uri
<1>4. outcome = "not sent" => uri.ok /\ ~ Fits(uri)
  BY <1>3 DEF Requested
<1>5. outcome = "not sent" => \E i \in 1 .. Len(text) : text[i] = "&"
  BY <1>1, <1>4, SentUnlessAmpersand DEF uri
<1>6. outcome \notin {"not a URI", "not sent"} => uri.ok /\ path = uri.path /\ query = uri.query
  BY <1>3 DEF Requested
<1>7. outcome \notin {"not a URI", "not sent"} => ValidateResource(path, query)
  BY <1>1, <1>6, ParseTyped DEF uri
<1> QED
  BY <1>2, <1>5, <1>7 DEF ParseExact

(* The request stays what it is; only the names of index files are added.   *)
LEMMA NextKeepsRequest ==
  ASSUME IndInv, [Next]_vars
  PROVE  /\ UNCHANGED <<text, parsed, query>>
         /\ attempt' = "path" => UNCHANGED <<attempt, path>>
         /\ outcome' = outcome \/ (outcome = "none" /\ outcome' # "not sent")
<1>1. pc # "done" => outcome = "none"
  BY DEF IndInv, TypeInv
<1>2. ASSUME NEW code, code # "not sent", Failed(code), outcome = "none"
      PROVE  /\ attempt' = "path" => UNCHANGED <<attempt, path>>
             /\ outcome' = outcome \/ (outcome = "none" /\ outcome' # "not sent")
  BY <1>2 DEF Failed, Return
<1>3. CASE Cancelled
  BY <1>1, <1>2, <1>3 DEF Cancelled
<1>4. CASE Validate
  BY <1>1, <1>2, <1>4 DEF Validate
<1>5. CASE Walk
  BY <1>1, <1>2, <1>5 DEF Walk
<1>6. CASE OpenFile
  BY <1>1, <1>2, <1>6 DEF OpenFile
<1>7. CASE CheckFile
  BY <1>1, <1>2, <1>7 DEF CheckFile, Return
<1>8. CASE Cancel \/ TreeChanges \/ Finished \/ UNCHANGED vars
  BY <1>8 DEF Cancel, TreeChanges, Finished, vars, callVars
<1>9. CASE SystemError
  BY <1>1, <1>2, <1>9 DEF SystemError
<1> QED
  BY <1>3, <1>4, <1>5, <1>6, <1>7, <1>8, <1>9 DEF Next, Open

(* What is asked of the handler is what the text means: the one reading of  *)
(* it as a URI, sent unless its request does not fit a frame, which takes   *)
(* an "&", and its path and query pass the checks of the server.            *)
THEOREM ParsingExact == Spec => []ParseExact
<1>1. Init => ParseExact
  BY InitParse
<1>2. IndInv /\ ParseExact /\ [Next]_vars => ParseExact'
  BY NextKeepsRequest DEF ParseExact
<1> QED
  BY <1>1, <1>2, FileHandlerInvariant, PTL DEF Spec

=============================================================================
