-------------------------- MODULE CheckStyleProofs --------------------------
(***************************************************************************)
(* Proofs about CheckStyle, for any tree, any texts, any command line, any *)
(* number of processes and any length of the buffer of a writer.           *)
(***************************************************************************)
EXTENDS CheckStyle, SubsequenceLemmas

----------------------------------------------------------------------------
(* Lines.                                                                  *)

LEMMA NineChecks ==
  /\ Len(CHECKS) = 9 /\ DOMAIN CHECKS = 1 .. 9
  /\ Range(CHECKS) = Manual \cup {"formatting", "encoding"}
  /\ Manual = {"include_prefixes", "include_quotes", "doxygen_tags", "license", "emacs",
               "whitespace", "tabs"}
<1>1. Len(CHECKS) = 9 /\ DOMAIN CHECKS = 1 .. 9
  BY DEF CHECKS
<1>2. Range(CHECKS) = {"include_prefixes", "include_quotes", "doxygen_tags", "license", "emacs",
                       "whitespace", "tabs", "formatting", "encoding"}
  <2>1. \A i \in 1 .. 9 : i \in {1, 2, 3, 4, 5, 6, 7, 8, 9}
    OBVIOUS
  <2>2. \A i \in 1 .. 9 : CHECKS[i] \in {"include_prefixes", "include_quotes", "doxygen_tags",
           "license", "emacs", "whitespace", "tabs", "formatting", "encoding"}
    BY <2>1 DEF CHECKS
  <2>3. /\ CHECKS[1] = "include_prefixes" /\ CHECKS[2] = "include_quotes" /\ CHECKS[3] = "doxygen_tags"
        /\ CHECKS[4] = "license" /\ CHECKS[5] = "emacs" /\ CHECKS[6] = "whitespace"
        /\ CHECKS[7] = "tabs" /\ CHECKS[8] = "formatting" /\ CHECKS[9] = "encoding"
    BY DEF CHECKS
  <2>4. \A i \in {1, 2, 3, 4, 5, 6, 7, 8, 9} : i \in 1 .. 9
    OBVIOUS
  <2> QED
    BY <1>1, <2>2, <2>3, <2>4 DEF Range
<1> QED
  BY <1>1, <1>2 DEF Manual

LEMMA LineFacts ==
  ASSUME NEW l \in Line
  PROVE  /\ l.is \in {"text", "include", "on", "off", "hole"} /\ l.flaws \subseteq Flaws
         /\ IsGuard(l) => l.flaws \subseteq Layout
         /\ l.flaws \cap {"prefix", "angle"} # {} => l.is = "include"
         /\ l = [is |-> l.is, flaws |-> l.flaws]
         /\ l # Nothing
BY DEF Line, IsGuard, Nothing

LEMMA LineMade ==
  ASSUME NEW l \in Line, NEW fs \in SUBSET Flaws,
         IsGuard(l) => fs \subseteq Layout,
         fs \cap {"prefix", "angle"} # {} => l.is = "include"
  PROVE  LET m == [l EXCEPT !.flaws = fs] IN m \in Line /\ m.is = l.is /\ m.flaws = fs
BY DEF Line, IsGuard

LEMMA WithoutFacts ==
  ASSUME NEW l \in Line, NEW fs
  PROVE  /\ Without(l, fs) \in Line
         /\ Without(l, fs).is = l.is /\ Without(l, fs).flaws = l.flaws \ fs
         /\ Without(l, fs) = l <=> l.flaws \cap fs = {}
<1>1. /\ l.flaws \ fs \in SUBSET Flaws
      /\ IsGuard(l) => l.flaws \ fs \subseteq Layout
      /\ (l.flaws \ fs) \cap {"prefix", "angle"} # {} => l.is = "include"
  BY LineFacts
<1>2. Without(l, fs) \in Line /\ Without(l, fs).is = l.is /\ Without(l, fs).flaws = l.flaws \ fs
  BY <1>1, LineMade DEF Without
<1>3. ASSUME l.flaws \cap fs = {} PROVE Without(l, fs) = l
  <2>1. l.flaws \ fs = l.flaws
    BY <1>3
  <2> QED
    BY <1>2, <2>1, LineFacts
<1>4. ASSUME Without(l, fs) = l PROVE l.flaws \cap fs = {}
  BY <1>2, <1>4
<1> QED
  BY <1>2, <1>3, <1>4

\* What a check leaves of a line: m of l.
Leaves(c, l, m) ==
  /\ m \in Line \cup {Nothing}
  /\ m = Nothing <=> \/ c = "license" /\ "gplRest" \in l.flaws
                     \/ c = "emacs" /\ "emacs" \in l.flaws
  /\ m # Nothing =>
       /\ m.is = l.is
       /\ m.flaws \subseteq l.flaws \cup (IF c = "tabs" THEN {"indent"} ELSE {})
       /\ \/ m.flaws \cap FlawsOf[c] = {}
          \/ c = "include_quotes" /\ (Has(l, "indent") \/ Has(l, "tab"))
       /\ c = "include_quotes" => m.flaws \in {l.flaws, l.flaws \ {"angle"}}
       /\ m = l <=> \/ l.flaws \cap FlawsOf[c] = {}
                    \/ c = "include_quotes" /\ (Has(l, "indent") \/ Has(l, "tab"))

LEMMA LeavesLine ==
  ASSUME NEW c \in Range(CHECKS), NEW l \in Line, NEW m \in Line, c # "include_quotes",
         c = "license" => "gplRest" \notin l.flaws,
         c = "emacs" => "emacs" \notin l.flaws,
         m.is = l.is,
         m.flaws \subseteq l.flaws \cup (IF c = "tabs" THEN {"indent"} ELSE {}),
         m.flaws \cap FlawsOf[c] = {},
         m = l <=> l.flaws \cap FlawsOf[c] = {}
  PROVE  Leaves(c, l, m)
BY LineFacts DEF Leaves

LEMMA LineChecked ==
  ASSUME NEW c \in Manual, NEW l \in Line
  PROVE  Leaves(c, l, check_line(c, l))
<1> DEFINE m == check_line(c, l)
<1> SUFFICES Leaves(c, l, m)
  OBVIOUS
<1>0. l.flaws \subseteq Flaws /\ l # Nothing /\ l = [is |-> l.is, flaws |-> l.flaws]
  BY LineFacts
<1>1. CASE c = "include_prefixes"
  <2>1. m = IF "prefix" \in l.flaws THEN Without(l, {"prefix", "angle", "indent", "tab", "blank"}) ELSE l
    BY <1>1 DEF check_line, check_include_prefixes_line, Has
  <2>2. FlawsOf[c] = {"prefix"}
    BY <1>1 DEF FlawsOf
  <2> HIDE DEF m
  <2>3. m \in Line /\ m.is = l.is /\ m.flaws \subseteq l.flaws
    BY <2>1, WithoutFacts
  <2>4. m.flaws \cap FlawsOf[c] = {} /\ (m = l <=> l.flaws \cap FlawsOf[c] = {})
    BY <2>1, <2>2, WithoutFacts
  <2> QED
    BY <1>1, <2>3, <2>4, LeavesLine, NineChecks
<1>2. CASE c = "include_quotes"
  <2>1. m = IF "angle" \in l.flaws /\ "indent" \notin l.flaws /\ "tab" \notin l.flaws
            THEN Without(l, {"angle"}) ELSE l
    BY <1>2 DEF check_line, check_include_quotes_line, Has
  <2>2. FlawsOf[c] = {"angle"}
    BY <1>2 DEF FlawsOf
  <2> HIDE DEF m
  <2>3. m \in Line /\ m.is = l.is /\ m.flaws \in {l.flaws, l.flaws \ {"angle"}}
    BY <2>1, WithoutFacts
  <2>4. m.flaws \cap FlawsOf[c] = {} \/ Has(l, "indent") \/ Has(l, "tab")
    BY <2>1, <2>2, WithoutFacts DEF Has
  <2>5. m = l <=> l.flaws \cap FlawsOf[c] = {} \/ Has(l, "indent") \/ Has(l, "tab")
    BY <2>1, <2>2, WithoutFacts DEF Has
  <2>6. m # Nothing
    BY <2>3, LineFacts
  <2> QED
    BY <1>2, <2>3, <2>4, <2>5, <2>6 DEF Leaves
<1>3. CASE c = "doxygen_tags"
  <2>1. m = Without(l, {"doxygen"})
    BY <1>3 DEF check_line, check_doxygen_tags_line, Has
  <2>2. FlawsOf[c] = {"doxygen"}
    BY <1>3 DEF FlawsOf
  <2> HIDE DEF m
  <2>3. m \in Line /\ m.is = l.is /\ m.flaws \subseteq l.flaws
    BY <2>1, WithoutFacts
  <2>4. m.flaws \cap FlawsOf[c] = {} /\ (m = l <=> l.flaws \cap FlawsOf[c] = {})
    BY <2>1, <2>2, WithoutFacts
  <2> QED
    BY <1>3, <2>3, <2>4, LeavesLine, NineChecks
<1>4. CASE c = "license"
  <2>1. m = IF "gplRest" \in l.flaws THEN Nothing ELSE Without(l, {"gpl"})
    BY <1>4 DEF check_line, check_licenses_line, Has
  <2>2. FlawsOf[c] = {"gpl", "gplRest"}
    BY <1>4 DEF FlawsOf
  <2> HIDE DEF m
  <2>3. CASE "gplRest" \in l.flaws
    <3>1. m = Nothing
      BY <2>1, <2>3
    <3> QED
      BY <1>4, <2>3, <3>1 DEF Leaves
  <2>4. CASE "gplRest" \notin l.flaws
    <3>1. m \in Line /\ m.is = l.is /\ m.flaws \subseteq l.flaws
      BY <2>1, <2>4, WithoutFacts
    <3>2. m.flaws \cap FlawsOf[c] = {} /\ (m = l <=> l.flaws \cap FlawsOf[c] = {})
      BY <2>1, <2>2, <2>4, WithoutFacts
    <3> QED
      BY <1>4, <2>4, <3>1, <3>2, LeavesLine, NineChecks
  <2> QED
    BY <2>3, <2>4
<1>5. CASE c = "emacs"
  <2>1. m = IF "emacs" \in l.flaws THEN Nothing ELSE l
    BY <1>5 DEF check_line, check_emacs_line, Has
  <2>2. FlawsOf[c] = {"emacs"}
    BY <1>5 DEF FlawsOf
  <2> HIDE DEF m
  <2>3. CASE "emacs" \in l.flaws
    <3>1. m = Nothing
      BY <2>1, <2>3
    <3> QED
      BY <1>5, <2>3, <3>1 DEF Leaves
  <2>4. CASE "emacs" \notin l.flaws
    <3>1. m \in Line /\ m.is = l.is /\ m.flaws \subseteq l.flaws
      BY <2>1, <2>4, WithoutFacts
    <3>2. m.flaws \cap FlawsOf[c] = {} /\ (m = l <=> l.flaws \cap FlawsOf[c] = {})
      BY <2>1, <2>2, <2>4, WithoutFacts
    <3> QED
      BY <1>5, <2>4, <3>1, <3>2, LeavesLine, NineChecks
  <2> QED
    BY <2>3, <2>4
<1>6. CASE c = "whitespace"
  <2>1. m = Without(l, {"blank"})
    BY <1>6 DEF check_line, check_whitespace_line, Has
  <2>2. FlawsOf[c] = {"blank"}
    BY <1>6 DEF FlawsOf
  <2> HIDE DEF m
  <2>3. m \in Line /\ m.is = l.is /\ m.flaws \subseteq l.flaws
    BY <2>1, WithoutFacts
  <2>4. m.flaws \cap FlawsOf[c] = {} /\ (m = l <=> l.flaws \cap FlawsOf[c] = {})
    BY <2>1, <2>2, WithoutFacts
  <2> QED
    BY <1>6, <2>3, <2>4, LeavesLine, NineChecks
<1>7. CASE c = "tabs"
  <2> DEFINE fs == (l.flaws \ {"tab"}) \cup {"indent"}
             k == [l EXCEPT !.flaws = fs]
  <2>1. m = IF "tab" \notin l.flaws THEN l ELSE IF l.is = "include" THEN k ELSE Without(l, {"tab"})
    BY <1>7 DEF check_line, check_tabs_line, Has
  <2>2. FlawsOf[c] = {"tab"}
    BY <1>7 DEF FlawsOf
  <2>3. l.is = "include" => k \in Line /\ k.is = l.is /\ k.flaws = fs
    <3>1. SUFFICES ASSUME l.is = "include" PROVE k \in Line /\ k.is = l.is /\ k.flaws = fs
      OBVIOUS
    <3>2. fs \in SUBSET Flaws /\ ~IsGuard(l)
      BY <1>0, <3>1 DEF Flaws, IsGuard
    <3> QED
      BY <3>1, <3>2, LineMade
  <2> HIDE DEF m, k
  <2>4. m \in Line /\ m.is = l.is /\ m.flaws \subseteq l.flaws \cup {"indent"}
    BY <2>1, <2>3, WithoutFacts
  <2>5. m.flaws \cap FlawsOf[c] = {}
    BY <2>1, <2>2, <2>3, WithoutFacts
  <2>6. m = l <=> l.flaws \cap FlawsOf[c] = {}
    BY <2>1, <2>2, <2>5
  <2> QED
    BY <1>7, <2>4, <2>5, <2>6, LeavesLine, NineChecks
<1> HIDE DEF m
<1> QED
  BY <1>1, <1>2, <1>3, <1>4, <1>5, <1>6, <1>7, NineChecks

\* The line as any of the nine checks leaves it.
FixLine(c, l) ==
  IF c \in Manual THEN check_line(c, l)
  ELSE Without(l, IF c = "formatting" THEN Layout ELSE {"bytes"})

LEMMA FixLineFacts ==
  ASSUME NEW c \in Range(CHECKS), NEW l \in Line
  PROVE  /\ Leaves(c, l, FixLine(c, l))
         /\ c \in {"whitespace", "encoding", "formatting"} => FixLine(c, l) # Nothing
         /\ c = "whitespace" => FixLine(c, l) = Without(l, {"blank"})
         /\ c = "encoding" => FixLine(c, l) = Without(l, {"bytes"})
         /\ IsGuard(l) => FixLine(c, l) # Nothing
<1>1. CASE c \in Manual
  <2>1. Leaves(c, l, FixLine(c, l))
    BY <1>1, LineChecked DEF FixLine
  <2>2. c \notin {"encoding", "formatting"}
    BY <1>1, NineChecks
  <2>3. c = "whitespace" => FixLine(c, l) = Without(l, {"blank"})
    BY <1>1 DEF FixLine, check_line, check_whitespace_line
  <2>4. IsGuard(l) => "gplRest" \notin l.flaws /\ "emacs" \notin l.flaws
    BY LineFacts DEF Layout
  <2> QED
    BY <2>1, <2>2, <2>3, <2>4 DEF Leaves
<1>2. CASE c \notin Manual
  <2> DEFINE fs == IF c = "formatting" THEN Layout ELSE {"bytes"}
             m == FixLine(c, l)
  <2>1. m = Without(l, fs) /\ c \in {"formatting", "encoding"}
    BY <1>2, NineChecks DEF FixLine
  <2>2. FlawsOf[c] = fs
    BY <2>1 DEF FlawsOf
  <2> HIDE DEF fs, m
  <2>3. m \in Line /\ m.is = l.is /\ m.flaws \subseteq l.flaws
    BY <2>1, WithoutFacts
  <2>4. m.flaws \cap FlawsOf[c] = {} /\ (m = l <=> l.flaws \cap FlawsOf[c] = {})
    BY <2>1, <2>2, WithoutFacts
  <2>5. Leaves(c, l, m)
    BY <2>1, <2>3, <2>4, LeavesLine
  <2>6. m # Nothing
    BY <2>3, LineFacts
  <2> QED
    BY <2>1, <2>5, <2>6 DEF m, fs
<1> QED
  BY <1>1, <1>2

\* A check has nothing to do to a line it has been over.
LEMMA FixLineTwice ==
  ASSUME NEW c \in Range(CHECKS), NEW l \in Line, FixLine(c, l) # Nothing
  PROVE  FixLine(c, FixLine(c, l)) = FixLine(c, l)
<1> DEFINE m == FixLine(c, l)
           k == FixLine(c, m)
<1>1. Leaves(c, l, m) /\ m # Nothing
  BY FixLineFacts
<1>2. m \in Line
  BY <1>1 DEF Leaves
<1>3. Leaves(c, m, k)
  BY <1>2, FixLineFacts
<1> HIDE DEF m, k
<1>4. CASE m.flaws \cap FlawsOf[c] = {}
  <2>1. c = "license" => FlawsOf[c] = {"gpl", "gplRest"}
    BY DEF FlawsOf
  <2>2. c = "emacs" => FlawsOf[c] = {"emacs"}
    BY DEF FlawsOf
  <2>3. k # Nothing
    BY <1>3, <1>4, <2>1, <2>2 DEF Leaves
  <2> QED
    BY <1>3, <1>4, <2>3 DEF Leaves, m, k
<1>5. CASE c = "include_quotes" /\ (Has(l, "indent") \/ Has(l, "tab"))
  <2>1. Has(m, "indent") \/ Has(m, "tab")
    BY <1>1, <1>5 DEF Leaves, Has
  <2> QED
    BY <1>3, <1>5, <2>1 DEF Leaves, m, k
<1> QED
  BY <1>1, <1>4, <1>5 DEF Leaves

----------------------------------------------------------------------------
(* Texts.                                                                  *)

\* Whether a check looks at line i, and what all its lines are made into.
Looks(c, text, i) == c \in {"whitespace", "encoding"} \/ IsGuard(text[i]) \/ ~Off(text, i)
Lines(c, text) ==
  [i \in DOMAIN text |-> IF Looks(c, text, i) THEN FixLine(c, text[i]) ELSE text[i]]
Kept(c, text) == {i \in DOMAIN text : Lines(c, text)[i] # Nothing}

LEMMA LinesFacts ==
  ASSUME NEW c \in Range(CHECKS), NEW text \in Seq(Line)
  PROVE  /\ Lines(c, text) \in Seq(Line \cup {Nothing}) /\ DOMAIN Lines(c, text) = DOMAIN text
         /\ Kept(c, text) \in SUBSET DOMAIN text
         /\ \A i \in DOMAIN text : IsGuard(text[i]) \/ ~Looks(c, text, i) => i \in Kept(c, text)
         /\ \A i \in Kept(c, text) : /\ Lines(c, text)[i] \in Line
                                     /\ Lines(c, text)[i].is = text[i].is
         /\ c \in {"whitespace", "encoding", "formatting"} => Kept(c, text) = DOMAIN text
<1> DEFINE L == Lines(c, text)
<1>1. \A i \in DOMAIN text : text[i] \in Line /\ text[i] # Nothing
  BY LineFacts
<1>2. \A i \in DOMAIN text : L[i] = IF Looks(c, text, i) THEN FixLine(c, text[i]) ELSE text[i]
  BY DEF Lines
<1>3. ASSUME NEW i \in DOMAIN text
      PROVE  /\ L[i] \in Line \cup {Nothing}
             /\ L[i] # Nothing => L[i].is = text[i].is
             /\ IsGuard(text[i]) \/ ~Looks(c, text, i) => L[i] # Nothing
             /\ c \in {"whitespace", "encoding", "formatting"} => L[i] # Nothing
  BY <1>1, <1>2, FixLineFacts DEF Leaves
<1>4. DOMAIN L = DOMAIN text /\ DOMAIN text = 1 .. Len(text) /\ Len(text) \in Nat
  BY DEF Lines
<1>5. L \in [1 .. Len(text) -> Line \cup {Nothing}]
  <2> DEFINE m(i) == IF Looks(c, text, i) THEN FixLine(c, text[i]) ELSE text[i]
  <2>1. L = [i \in DOMAIN text |-> m(i)]
    BY DEF Lines
  <2>2. \A i \in DOMAIN text : m(i) \in Line \cup {Nothing}
    BY <1>2, <1>3
  <2> HIDE DEF m, L
  <2> QED
    BY <1>4, <2>1, <2>2
<1> HIDE DEF L
<1>6. L \in Seq(Line \cup {Nothing})
  BY <1>4, <1>5, SeqDef
<1>7. Kept(c, text) = {i \in DOMAIN text : L[i] # Nothing}
  BY DEF Kept, L
<1>8. c \in {"whitespace", "encoding", "formatting"} => Kept(c, text) = DOMAIN text
  <2>1. SUFFICES ASSUME c \in {"whitespace", "encoding", "formatting"} PROVE Kept(c, text) = DOMAIN text
    OBVIOUS
  <2>2. \A i \in DOMAIN text : L[i] # Nothing
    BY <1>3, <2>1
  <2> QED
    BY <1>7, <2>2, Zenon
<1>9. /\ Kept(c, text) \in SUBSET DOMAIN text
      /\ \A i \in DOMAIN text : i \in Kept(c, text) <=> L[i] # Nothing
  BY <1>7
<1> QED
  <2>1. /\ \A i \in DOMAIN text : IsGuard(text[i]) \/ ~Looks(c, text, i) => i \in Kept(c, text)
        /\ \A i \in Kept(c, text) : L[i] \in Line /\ L[i].is = text[i].is
    BY <1>3, <1>9
  <2> QED
    BY <1>4, <1>6, <1>8, <1>9, <2>1 DEF L

LEMMA FixedLines ==
  ASSUME NEW c \in Range(CHECKS), NEW text \in Seq(Line)
  PROVE  Fixed(c, text) = Those(Lines(c, text), Kept(c, text))
<1>1. CASE c \in Manual
  <2>1. Lines(c, text) = [i \in DOMAIN text |->
            IF c = "whitespace" \/ IsGuard(text[i]) \/ ~Off(text, i) THEN check_line(c, text[i])
                                                                   ELSE text[i]]
    BY <1>1, NineChecks DEF Lines, Looks, FixLine
  <2>2. DOMAIN Lines(c, text) = DOMAIN text
    BY LinesFacts
  <2> QED
    BY <1>1, <2>1, <2>2 DEF Fixed, check_manually_file, Written, Kept
<1>2. CASE c \notin Manual
  <2>1. Those(Lines(c, text), Kept(c, text)) = Lines(c, text)
    BY <1>2, NineChecks, LinesFacts, ThoseAll
  <2>2. CASE c = "formatting"
    BY <1>2, <2>1, <2>2 DEF Fixed, clang_format, Lines, Looks, FixLine
  <2>3. CASE c = "encoding"
    BY <1>2, <2>1, <2>3 DEF Fixed, check_encoding_file, Lines, Looks, FixLine
  <2> QED
    BY <1>2, <2>2, <2>3, NineChecks
<1> QED
  BY <1>1, <1>2

\* A fixed text, line by line; it is off where it was off.
LEMMA FixedFacts ==
  ASSUME NEW c \in Range(CHECKS), NEW text \in Seq(Line)
  PROVE  LET fixed == Fixed(c, text)
             kept == Kept(c, text)
         IN /\ fixed \in Seq(Line) /\ Len(fixed) <= Len(text)
            /\ DOMAIN fixed = 1 .. Cardinality(kept) /\ Cardinality(kept) \in Nat
            /\ \A k \in DOMAIN fixed :
                 /\ At(kept, k) \in kept
                 /\ fixed[k] = Lines(c, text)[At(kept, k)]
                 /\ fixed[k].is = text[At(kept, k)].is
                 /\ Off(fixed, k) <=> Off(text, At(kept, k))
<1> DEFINE L == Lines(c, text)
           K == Kept(c, text)
           r == Fixed(c, text)
           N == Cardinality(K)
<1>1. r = Those(L, K)
  BY FixedLines
<1>2. /\ L \in Seq(Line \cup {Nothing}) /\ DOMAIN L = DOMAIN text /\ K \in SUBSET DOMAIN text
      /\ \A i \in DOMAIN text : IsGuard(text[i]) => i \in K
      /\ \A i \in K : L[i] \in Line /\ L[i].is = text[i].is
  BY LinesFacts
<1>3. Len(text) \in Nat /\ DOMAIN text = 1 .. Len(text) /\ Len(L) = Len(text)
  BY <1>2
<1> HIDE DEF L, K, r
<1>4. /\ N \in Nat /\ N <= Len(text) /\ Len(r) = N /\ r \in Seq(Line \cup {Nothing})
      /\ \A k \in 1 .. N : At(K, k) \in K /\ r[k] = L[At(K, k)]
  BY <1>1, <1>2, <1>3, ThoseFacts
<1>5. DOMAIN r = 1 .. N
  BY <1>4
<1>6. \A k \in 1 .. N : r[k] \in Line /\ r[k].is = text[At(K, k)].is
  BY <1>2, <1>4
<1>7. r \in Seq(Line)
  BY <1>4, <1>5, <1>6
<1>8. /\ \A k \in 1 .. N : At(K, k) \in K /\ Rank(K, At(K, k)) = k
      /\ \A i \in K : Rank(K, i) \in 1 .. N /\ At(K, Rank(K, i)) = i
      /\ \A k, m \in 1 .. N : k < m <=> At(K, k) < At(K, m)
  BY <1>2, <1>3, AtFacts
<1>9. \A i \in K : i \in Int /\ 1 <= i /\ i <= Len(text)
  BY <1>2, <1>3
<1> HIDE DEF N
<1>10. ASSUME NEW k \in 1 .. N PROVE Off(r, k) <=> Off(text, At(K, k))
  <2>1. ASSUME Off(r, k) PROVE Off(text, At(K, k))
    <3>1. PICK x \in 1 .. k : r[x].is = "off" /\ \A m \in x + 1 .. k : r[m].is # "on"
      BY <2>1 DEF Off
    <3>2. x \in 1 .. N /\ At(K, x) \in 1 .. At(K, k) /\ text[At(K, x)].is = "off"
      BY <1>4, <1>6, <1>8, <1>9, <3>1
    <3>3. ASSUME NEW i, i \in At(K, x) + 1 .. At(K, k), text[i].is = "on" PROVE FALSE
      <4>1. i \in DOMAIN text
        BY <1>3, <1>4, <1>9, <3>2, <3>3
      <4>2. i \in K
        BY <1>2, <3>3, <4>1 DEF IsGuard
      <4>3. Rank(K, i) \in 1 .. N /\ At(K, Rank(K, i)) = i
        BY <1>8, <4>2
      <4>4. x < Rank(K, i)
        BY <1>8, <1>9, <3>2, <3>3, <4>2, <4>3
      <4>5. ~(k < Rank(K, i))
        <5>1. k < Rank(K, i) <=> At(K, k) < At(K, Rank(K, i))
          BY <1>8, <4>3
        <5>2. At(K, k) \in K /\ i <= At(K, k)
          BY <1>8, <1>9, <3>2, <3>3
        <5>3. ~(At(K, k) < i)
          BY <1>9, <4>2, <5>2
        <5> QED
          BY <4>3, <5>1, <5>3
      <4>6. Rank(K, i) \in x + 1 .. k
        BY <1>4, <4>3, <4>4, <4>5
      <4> QED
        BY <1>6, <3>1, <3>3, <4>3, <4>6
    <3> QED
      BY <3>2, <3>3 DEF Off
  <2>2. ASSUME Off(text, At(K, k)) PROVE Off(r, k)
    <3>1. PICK i : i \in 1 .. At(K, k) /\ text[i].is = "off" /\ \A j \in i + 1 .. At(K, k) : text[j].is # "on"
      BY <2>2 DEF Off
    <3>2. i \in DOMAIN text
      BY <1>3, <1>4, <1>9, <3>1
    <3>3. i \in K
      BY <1>2, <3>1, <3>2 DEF IsGuard
    <3>4. Rank(K, i) \in 1 .. N /\ At(K, Rank(K, i)) = i
      BY <1>8, <3>3
    <3>5. ~(k < Rank(K, i))
      <4>1. k < Rank(K, i) <=> At(K, k) < At(K, Rank(K, i))
        BY <1>8, <3>4
      <4>2. At(K, k) \in K /\ i <= At(K, k)
        BY <1>8, <1>9, <3>1
      <4>3. ~(At(K, k) < i)
        BY <1>9, <3>3, <4>2
      <4> QED
        BY <3>4, <4>1, <4>3
    <3>6. Rank(K, i) \in 1 .. k /\ r[Rank(K, i)].is = "off"
      BY <1>4, <1>6, <3>1, <3>4, <3>5
    <3>7. ASSUME NEW m \in Rank(K, i) + 1 .. k PROVE r[m].is # "on"
      <4>1. m \in 1 .. N /\ Rank(K, i) < m /\ ~(k < m)
        BY <1>4, <3>4
      <4>2. i < At(K, m) /\ ~(At(K, k) < At(K, m))
        BY <1>8, <3>4, <4>1
      <4>3. At(K, m) \in i + 1 .. At(K, k)
        <5>1. At(K, m) \in K /\ At(K, k) \in K
          BY <1>8, <4>1
        <5>2. At(K, m) \in Int /\ At(K, k) \in Int /\ i \in Int
          BY <1>9, <3>3, <5>1
        <5> QED
          BY <4>2, <5>2
      <4> QED
        BY <1>6, <3>1, <4>1, <4>3
    <3> QED
      BY <3>6, <3>7 DEF Off
  <2> QED
    BY <2>1, <2>2
<1> QED
  BY <1>4, <1>5, <1>6, <1>7, <1>8, <1>10 DEF L, K, r, N

LEMMA FixedEmpty ==
  ASSUME NEW c \in Range(CHECKS)
  PROVE  Fixed(c, <<>>) = <<>>
<1>1. <<>> \in Seq(Line) /\ Len(<<>>) = 0
  OBVIOUS
<1>2. Fixed(c, <<>>) \in Seq(Line) /\ Len(Fixed(c, <<>>)) <= 0
  BY <1>1, FixedFacts
<1> QED
  BY <1>2, EmptySeq

\* A text stays as it is if the lines the check looks at do.
LEMMA FixedSame ==
  ASSUME NEW c \in Range(CHECKS), NEW text \in Seq(Line)
  PROVE  Fixed(c, text) = text
           <=> \A i \in DOMAIN text : Looks(c, text, i) => FixLine(c, text[i]) = text[i]
<1> DEFINE L == Lines(c, text)
           K == Kept(c, text)
<1>1. Fixed(c, text) = Those(L, K) /\ Len(text) \in Nat /\ DOMAIN text = 1 .. Len(text)
  BY FixedLines
<1>2. /\ L \in Seq(Line \cup {Nothing}) /\ DOMAIN L = DOMAIN text /\ K \in SUBSET DOMAIN L
      /\ \A i \in DOMAIN text : L[i] = IF Looks(c, text, i) THEN FixLine(c, text[i]) ELSE text[i]
      /\ \A i \in DOMAIN text : i \in K <=> L[i] # Nothing
      /\ Len(L) = Len(text)
  <2>1. L \in Seq(Line \cup {Nothing}) /\ DOMAIN L = DOMAIN text /\ K \in SUBSET DOMAIN L
    BY LinesFacts
  <2>2. \A i \in DOMAIN text : L[i] = IF Looks(c, text, i) THEN FixLine(c, text[i]) ELSE text[i]
    BY DEF Lines
  <2>3. \A i \in DOMAIN text : i \in K <=> L[i] # Nothing
    BY DEF Kept
  <2> HIDE DEF L, K
  <2>4. Len(L) = Len(text)
    BY <1>1, <2>1
  <2> QED
    BY <2>1, <2>2, <2>3, <2>4
<1>3. \A i \in DOMAIN text : text[i] # Nothing
  BY LineFacts
<1> HIDE DEF L, K
<1>4. ASSUME \A i \in DOMAIN text : Looks(c, text, i) => FixLine(c, text[i]) = text[i]
      PROVE  Fixed(c, text) = text
  <2>1. \A i \in DOMAIN text : L[i] = text[i]
    BY <1>2, <1>4
  <2>2. L = text
    BY <1>1, <1>2, <2>1, SeqEqual
  <2>3. K = DOMAIN L
    BY <1>2, <1>3, <2>1
  <2> QED
    BY <1>1, <2>2, <2>3, ThoseAll
<1>5. ASSUME Fixed(c, text) = text, NEW i \in DOMAIN text, Looks(c, text, i)
      PROVE  FixLine(c, text[i]) = text[i]
  <2>1. K = DOMAIN L
    <3>1. SUFFICES ASSUME K # DOMAIN L PROVE FALSE
      OBVIOUS
    <3>2. Len(Those(L, K)) < Len(L)
      BY <1>2, <3>1, ThoseShorter
    <3> QED
      BY <1>1, <1>2, <1>5, <3>2
  <2>2. L = text
    BY <1>1, <1>2, <1>5, <2>1, ThoseAll
  <2> QED
    BY <1>2, <1>5, <2>2
<1> QED
  BY <1>4, <1>5

\* A check has nothing to do to a text it has been over.
LEMMA FixedTwice ==
  ASSUME NEW c \in Range(CHECKS), NEW text \in Seq(Line)
  PROVE  Fixed(c, Fixed(c, text)) = Fixed(c, text)
<1> DEFINE r == Fixed(c, text)
           K == Kept(c, text)
<1>0. r \in Seq(Line)
  BY FixedFacts
<1>1. ASSUME NEW k \in DOMAIN r
      PROVE  /\ At(K, k) \in K
             /\ r[k] = Lines(c, text)[At(K, k)]
             /\ r[k].is = text[At(K, k)].is
             /\ Off(r, k) <=> Off(text, At(K, k))
  BY FixedFacts
<1>2. \A i \in K : /\ i \in DOMAIN text /\ text[i] \in Line
                   /\ Lines(c, text)[i] # Nothing
                   /\ Looks(c, text, i) => Lines(c, text)[i] = FixLine(c, text[i])
  BY DEF Kept, Lines
<1> HIDE DEF K, r
<1>3. ASSUME NEW k \in DOMAIN r, Looks(c, r, k) PROVE FixLine(c, r[k]) = r[k]
  <2>1. Looks(c, text, At(K, k))
    BY <1>1, <1>3 DEF Looks, IsGuard
  <2>2. PICK i \in K : i = At(K, k)
    BY <1>1, Zenon
  <2>3. r[k] = Lines(c, text)[i] /\ Looks(c, text, i)
    BY <1>1, <2>1, <2>2, Zenon
  <2>4. text[i] \in Line /\ Lines(c, text)[i] # Nothing
    BY <1>2
  <2>5. Lines(c, text)[i] = FixLine(c, text[i])
    BY <1>2, <2>3
  <2> QED
    BY <2>3, <2>4, <2>5, FixLineTwice
<1>4. Fixed(c, r) = r
  BY <1>0, <1>3, FixedSame
<1> QED
  BY <1>4 DEF r

LEMMA DecodesFixed ==
  ASSUME NEW c \in Range(CHECKS), NEW text \in Seq(Line), Decodes(text)
  PROVE  Decodes(Fixed(c, text))
<1> DEFINE r == Fixed(c, text)
           K == Kept(c, text)
<1>1. \A k \in DOMAIN r : At(K, k) \in K /\ r[k] = Lines(c, text)[At(K, k)]
  BY FixedFacts
<1>2. ASSUME NEW i \in K PROVE ~Has(Lines(c, text)[i], "bytes")
  <2>1. i \in DOMAIN text /\ text[i] \in Line /\ Lines(c, text)[i] # Nothing
    BY DEF Kept
  <2>2. Lines(c, text)[i] \in {text[i], FixLine(c, text[i])}
    BY <2>1 DEF Lines
  <2>3. "bytes" \notin text[i].flaws
    BY <2>1 DEF Decodes, Has
  <2>4. Leaves(c, text[i], FixLine(c, text[i]))
    BY <2>1, FixLineFacts
  <2> QED
    BY <2>1, <2>2, <2>3, <2>4 DEF Has, Leaves
<1> QED
  BY <1>1, <1>2 DEF Decodes

LEMMA ProtectedFixed ==
  ASSUME NEW c \in Range(CHECKS), NEW text \in Seq(Line)
  PROVE  Protected(Fixed(c, text)) = Protected(text)
<1> DEFINE r == Fixed(c, text)
           L == Lines(c, text)
           K == Kept(c, text)
           B == {"blank", "bytes"}
           W == [i \in DOMAIN text |-> Without(text[i], B)]
           J == {i \in DOMAIN text : Off(text, i) /\ ~IsGuard(text[i])}
           V == [i \in DOMAIN text |-> IF i \in K THEN Without(L[i], B) ELSE Nothing]
           U == [k \in DOMAIN r |-> Without(r[k], B)]
           I == {k \in DOMAIN r : Off(r, k) /\ ~IsGuard(r[k])}
<1>0. r \in Seq(Line) /\ DOMAIN r = 1 .. Cardinality(K) /\ Cardinality(K) \in Nat
  BY FixedFacts
<1>1. ASSUME NEW k \in DOMAIN r
      PROVE  /\ At(K, k) \in K
             /\ r[k] = L[At(K, k)]
             /\ r[k].is = text[At(K, k)].is
             /\ Off(r, k) <=> Off(text, At(K, k))
  BY FixedFacts
<1>2. /\ K \in SUBSET DOMAIN text
      /\ \A i \in DOMAIN text : ~Looks(c, text, i) => i \in K
      /\ \A i \in K : L[i] \in Line
      /\ c \in {"whitespace", "encoding", "formatting"} => K = DOMAIN text
      /\ \A i \in DOMAIN text : L[i] = IF Looks(c, text, i) THEN FixLine(c, text[i]) ELSE text[i]
  BY LinesFacts DEF Lines
<1>3. DOMAIN text = 1 .. Len(text) /\ Len(text) \in Nat /\ \A i \in DOMAIN text : text[i] \in Line
  OBVIOUS
<1> HIDE DEF r, L, K
<1>4. J \in SUBSET K
  <2>1. ASSUME NEW i \in J PROVE i \in K
    BY <1>2, <2>1 DEF Looks
  <2> QED
    BY <2>1
<1>5. W \in Seq(Line)
  <2>1. \A i \in DOMAIN text : Without(text[i], B) \in Line
    BY <1>3, WithoutFacts
  <2>2. W \in [1 .. Len(text) -> Line]
    BY <1>3, <2>1
  <2> QED
    BY <1>3, <2>2, SeqDef
<1>6. V \in Seq(Line \cup {Nothing})
  <2>1. \A i \in K : Without(L[i], B) \in Line
    BY <1>2, WithoutFacts
  <2>2. V \in [1 .. Len(text) -> Line \cup {Nothing}]
    BY <1>3, <2>1
  <2> QED
    BY <1>3, <2>2, SeqDef
<1>7. DOMAIN V = DOMAIN text /\ DOMAIN W = DOMAIN text
  OBVIOUS
<1>8. \A i \in J : V[i] = W[i]
  <2>1. SUFFICES ASSUME NEW i \in J PROVE Without(L[i], B) = Without(text[i], B)
    BY <1>4
  <2>2. i \in K /\ i \in DOMAIN text /\ text[i] \in Line /\ L[i] \in Line
    BY <1>2, <1>3, <1>4
  <2>3. L[i] = text[i] \/ L[i] = Without(text[i], {"blank"}) \/ L[i] = Without(text[i], {"bytes"})
    BY <1>2, <2>2, FixLineFacts DEF Looks
  <2>4. L[i].is = text[i].is /\ L[i].flaws \ B = text[i].flaws \ B
    BY <2>2, <2>3, WithoutFacts
  <2>5. /\ Without(L[i], B) \in Line /\ Without(text[i], B) \in Line
        /\ Without(L[i], B).is = L[i].is /\ Without(text[i], B).is = text[i].is
        /\ Without(L[i], B).flaws = L[i].flaws \ B /\ Without(text[i], B).flaws = text[i].flaws \ B
    BY <2>2, WithoutFacts
  <2> QED
    BY <2>4, <2>5, LineFacts
<1>9. U = Those(V, K)
  <2>1. ASSUME NEW k \in DOMAIN r PROVE U[k] = V[At(K, k)]
    <3>1. PICK i \in K : i = At(K, k)
      BY <1>1, Zenon
    <3>2. r[k] = L[i]
      BY <1>1, <3>1, Zenon
    <3>3. i \in DOMAIN text
      BY <1>2
    <3> QED
      BY <3>1, <3>2, <3>3
  <2> QED
    BY <1>0, <2>1 DEF Those
<1>10. I = {k \in DOMAIN r : At(K, k) \in J}
  <2>1. ASSUME NEW k \in DOMAIN r PROVE Off(r, k) /\ ~IsGuard(r[k]) <=> At(K, k) \in J
    <3>1. PICK i \in K : i = At(K, k)
      BY <1>1, Zenon
    <3>2. r[k].is = text[i].is /\ (Off(r, k) <=> Off(text, i))
      BY <1>1, <3>1, Zenon
    <3>3. IsGuard(r[k]) <=> IsGuard(text[i])
      BY <3>2 DEF IsGuard
    <3>4. i \in DOMAIN text
      BY <1>2
    <3> QED
      BY <3>1, <3>2, <3>3, <3>4, Zenon
  <2> HIDE DEF J
  <2> QED
    BY <2>1, Zenon
<1>11. DOMAIN Those(V, K) = DOMAIN r
  BY <1>0 DEF Those
<1>12. Protected(r) = Those(U, I) /\ Protected(text) = Those(W, J)
  BY DEF Protected
<1> HIDE DEF U, V, W, I, J
<1>13. Those(Those(V, K), {k \in DOMAIN Those(V, K) : At(K, k) \in J}) = Those(V, J)
  BY <1>2, <1>4, <1>6, <1>7, ThoseOfThose
<1>14. Those(V, J) = Those(W, J)
  BY <1>2, <1>4, <1>5, <1>6, <1>7, <1>8, ThoseEqual
<1>15. Protected(r) = Protected(text)
  BY <1>9, <1>10, <1>11, <1>12, <1>13, <1>14
<1> QED
  BY <1>15 DEF r

----------------------------------------------------------------------------
(* Verdicts.                                                               *)

LEMMA LineAccepted ==
  ASSUME NEW c \in Range(CHECKS), NEW l \in Line
  PROVE  FixLine(c, l) = l <=> \/ l.flaws \cap FlawsOf[c] = {}
                               \/ c = "include_quotes" /\ (Has(l, "indent") \/ Has(l, "tab"))
<1> DEFINE m == FixLine(c, l)
<1>1. Leaves(c, l, m) /\ l # Nothing
  BY FixLineFacts, LineFacts
<1>2. c = "license" => FlawsOf[c] = {"gpl", "gplRest"}
  BY DEF FlawsOf
<1>3. c = "emacs" => FlawsOf[c] = {"emacs"}
  BY DEF FlawsOf
<1> HIDE DEF m
<1>4. CASE m = Nothing
  BY <1>1, <1>2, <1>3, <1>4 DEF Leaves, m
<1>5. CASE m # Nothing
  <2>1. m = l <=> \/ l.flaws \cap FlawsOf[c] = {}
                  \/ c = "include_quotes" /\ (Has(l, "indent") \/ Has(l, "tab"))
    BY <1>1, <1>5 DEF Leaves, Has
  <2> QED
    BY <2>1 DEF m
<1> QED
  BY <1>4, <1>5

\* A check accepts exactly the texts it would not change.
LEMMA AcceptsSame ==
  ASSUME NEW c \in Range(CHECKS), NEW text \in Seq(Line)
  PROVE  Accepts(c, text) <=> (c \in Manual => Decodes(text)) /\ Fixed(c, text) = text
<1>1. ASSUME NEW i \in DOMAIN text
      PROVE  (\/ text[i].flaws \cap FlawsOf[c] = {}
              \/ c \notin {"whitespace", "encoding"} /\ ~IsGuard(text[i]) /\ Off(text, i)
              \/ c = "include_quotes" /\ text[i].flaws \cap {"indent", "tab"} # {})
                <=> (Looks(c, text, i) => FixLine(c, text[i]) = text[i])
  <2>1. text[i] \in Line
    OBVIOUS
  <2>2. text[i].flaws \cap {"indent", "tab"} # {} <=> Has(text[i], "indent") \/ Has(text[i], "tab")
    BY DEF Has
  <2>3. FixLine(c, text[i]) = text[i]
          <=> \/ text[i].flaws \cap FlawsOf[c] = {}
              \/ c = "include_quotes" /\ text[i].flaws \cap {"indent", "tab"} # {}
    <3>0. PICK l \in Line : l = text[i]
      BY <2>1
    <3>1. FixLine(c, l) = l
            <=> \/ l.flaws \cap FlawsOf[c] = {}
                \/ c = "include_quotes" /\ (Has(l, "indent") \/ Has(l, "tab"))
      BY LineAccepted
    <3> QED
      BY <2>2, <3>0, <3>1, Zenon
  <2>4. Looks(c, text, i) <=> ~(c \notin {"whitespace", "encoding"} /\ ~IsGuard(text[i]) /\ Off(text, i))
    BY DEF Looks
  <2> QED
    BY <2>3, <2>4, Zenon
<1>2. Fixed(c, text) = text
        <=> \A i \in DOMAIN text : Looks(c, text, i) => FixLine(c, text[i]) = text[i]
  BY FixedSame
<1> QED
  BY <1>1, <1>2 DEF Accepts
\* What a check does not mind in a line.
Agrees(c, l) ==
  \/ l.flaws \cap FlawsOf[c] = {}
  \/ c = "include_quotes" /\ l.flaws \cap {"indent", "tab"} # {}

\* A line a check does not mind is one it does not mind after the later checks:
\* an #include stays indented until clang-format comes.
LEMMA AgreesKept ==
  ASSUME NEW c \in Range(CHECKS), NEW d \in Range(CHECKS), NEW l \in Line,
         NEW m \in {l, FixLine(d, l)}, m # Nothing, Agrees(c, l), c # "formatting",
         c = "include_quotes" => d \notin {"include_prefixes", "formatting"}
  PROVE  Agrees(c, m)
<1>1. CASE m = l
  BY <1>1
<1>2. CASE m = FixLine(d, l) /\ l.flaws \cap FlawsOf[c] = {}
  <2>1. m.flaws \subseteq l.flaws \cup {"indent"}
    BY <1>2, FixLineFacts DEF Leaves
  <2>2. "indent" \notin FlawsOf[c]
    BY NineChecks DEF FlawsOf
  <2>3. m.flaws \cap FlawsOf[c] = {}
    BY <1>2, <2>1, <2>2
  <2> QED
    BY <2>3 DEF Agrees
<1>3. CASE /\ m = FixLine(d, l) /\ c = "include_quotes" /\ "angle" \in l.flaws
           /\ l.flaws \cap {"indent", "tab"} # {}
  <2>1. l.is = "include"
    BY <1>3, LineFacts
  <2>2. CASE d = "tabs"
    <3>1. m = IF ~Has(l, "tab") THEN l ELSE [l EXCEPT !.flaws = (@ \ {"tab"}) \cup {"indent"}]
      BY <1>3, <2>1, <2>2, NineChecks DEF FixLine, check_line, check_tabs_line
    <3>2. CASE Has(l, "tab")
      <4>1. m.flaws = (l.flaws \ {"tab"}) \cup {"indent"}
        BY <3>1, <3>2 DEF Line
      <4> QED
        BY <1>3, <4>1 DEF Agrees
    <3> QED
      BY <3>1, <3>2
  <2>3. CASE d = "include_quotes"
    <3>1. m.flaws \in {l.flaws, l.flaws \ {"angle"}}
      BY <1>3, <2>3, FixLineFacts DEF Leaves
    <3> QED
      BY <1>3, <3>1 DEF Agrees
  <2>4. CASE d \in {"doxygen_tags", "license", "emacs", "whitespace", "encoding"}
    <3>1. \E fs \in SUBSET {"doxygen", "gpl", "blank", "bytes"} : m = l \/ m = Without(l, fs)
      <4>1. m \in {l, Without(l, {"doxygen"}), Without(l, {"gpl"}), Without(l, {"blank"}), Without(l, {"bytes"})}
        BY <1>3, <2>4, NineChecks
           DEF FixLine, check_line, check_doxygen_tags_line, check_licenses_line, check_emacs_line,
               check_whitespace_line
      <4> QED
        BY <4>1
    <3>2. PICK fs \in SUBSET {"doxygen", "gpl", "blank", "bytes"} : m = l \/ m = Without(l, fs)
      BY <3>1
    <3>3. m = l \/ m.flaws = l.flaws \ fs
      BY <3>2, WithoutFacts
    <3> QED
      BY <1>3, <3>3 DEF Agrees
  <2> QED
    BY <1>3, <2>2, <2>3, <2>4, NineChecks
<1> QED
  <2>1. c = "include_quotes" => FlawsOf[c] = {"angle"}
    BY DEF FlawsOf
  <2> QED
    BY <1>1, <1>2, <1>3, <2>1 DEF Agrees

\* What a check accepts it accepts after the later checks.
LEMMA AcceptsKept ==
  ASSUME NEW c \in Range(CHECKS), NEW d \in Range(CHECKS), NEW text \in Seq(Line),
         Accepts(c, text), c # "formatting",
         c = "include_quotes" => d \notin {"include_prefixes", "formatting"}
  PROVE  Accepts(c, Fixed(d, text))
<1> DEFINE r == Fixed(d, text)
           K == Kept(d, text)
           Passed(t, i) == c \notin {"whitespace", "encoding"} /\ ~IsGuard(t[i]) /\ Off(t, i)
<1>1. ASSUME NEW k \in DOMAIN r
      PROVE  /\ At(K, k) \in K
             /\ r[k] = Lines(d, text)[At(K, k)]
             /\ r[k].is = text[At(K, k)].is
             /\ Off(r, k) <=> Off(text, At(K, k))
  BY FixedFacts
<1>2. \A i \in K : /\ i \in DOMAIN text /\ text[i] \in Line
                   /\ Lines(d, text)[i] # Nothing
                   /\ Lines(d, text)[i] \in {text[i], FixLine(d, text[i])}
  BY DEF Kept, Lines
<1>3. c \in Manual => Decodes(r)
  BY DecodesFixed DEF Accepts
<1>4. \A i \in DOMAIN text : Agrees(c, text[i]) \/ Passed(text, i)
  BY DEF Accepts, Agrees
<1> HIDE DEF r, K
<1>5. ASSUME NEW k \in DOMAIN r PROVE Agrees(c, r[k]) \/ Passed(r, k)
  <2>1. PICK i \in K : i = At(K, k)
    BY <1>1, Zenon
  <2>2. r[k] = Lines(d, text)[i] /\ r[k].is = text[i].is /\ (Off(r, k) <=> Off(text, i))
    BY <1>1, <2>1, Zenon
  <2>3. i \in DOMAIN text /\ text[i] \in Line /\ r[k] # Nothing /\ r[k] \in {text[i], FixLine(d, text[i])}
    BY <1>2, <2>2
  <2>4. CASE Passed(text, i)
    <3>1. IsGuard(r[k]) <=> IsGuard(text[i])
      BY <2>2 DEF IsGuard
    <3> QED
      BY <2>2, <2>4, <3>1, Zenon
  <2>5. CASE Agrees(c, text[i])
    BY <2>3, <2>5, AgreesKept
  <2> QED
    BY <1>4, <2>3, <2>4, <2>5
<1>6. Accepts(c, r)
  BY <1>3, <1>5 DEF Accepts, Agrees
<1> QED
  BY <1>6 DEF r
----------------------------------------------------------------------------
(* Writing.                                                                *)

LEMMA MaxMin ==
  ASSUME NEW a \in Int, NEW b \in Int
  PROVE  /\ Max({a, b}) = IF a >= b THEN a ELSE b
         /\ Min({a, b}) = IF a <= b THEN a ELSE b
<1>1. \E x \in {a, b} : \A y \in {a, b} : x >= y
  OBVIOUS
<1>2. Max({a, b}) \in {a, b} /\ \A y \in {a, b} : Max({a, b}) >= y
  BY <1>1 DEF Max
<1>3. \E x \in {a, b} : \A y \in {a, b} : x <= y
  OBVIOUS
<1>4. Min({a, b}) \in {a, b} /\ \A y \in {a, b} : Min({a, b}) <= y
  BY <1>3 DEF Min
<1> QED
  BY <1>2, <1>4

LEMMA OverwriteFacts ==
  ASSUME NEW old \in Seq(Line), NEW from \in Nat, NEW new \in Seq(Line), NEW to \in Nat,
         from <= to, to <= Len(new)
  PROVE  LET o == Overwrite(old, from, new, to)
         IN /\ o \in Seq(Line)
            /\ from = 0 /\ to = Len(new) /\ old \in {<<>>, new} => o = new
            /\ Len(old) = from /\ (\A k \in 1 .. from - 1 : old[k] = new[k])
                 => /\ Len(o) = to /\ \A k \in 1 .. to - 1 : o[k] = new[k]
                    /\ to = Len(new) => o = new
<1> DEFINE M == Max({Len(old), to})
           torn(l) == [l EXCEPT !.flaws = @ \cup {"blank"}]
           hole == [is |-> "hole", flaws |-> {}]
           at(k) == IF k \in from .. to THEN IF k = to /\ to < Len(new) THEN torn(new[k]) ELSE new[k]
                    ELSE IF k <= Len(old) THEN old[k] ELSE hole
           o == Overwrite(old, from, new, to)
<1>1. /\ Len(old) \in Nat /\ DOMAIN old = 1 .. Len(old)
      /\ Len(new) \in Nat /\ DOMAIN new = 1 .. Len(new)
  OBVIOUS
<1>2. M \in Nat /\ M = IF Len(old) >= to THEN Len(old) ELSE to
  BY <1>1, MaxMin
<1>3. o = [k \in 1 .. M |-> at(k)]
  BY DEF Overwrite
<1>4. ASSUME NEW l \in Line PROVE torn(l) \in Line
  <2>1. l.flaws \cup {"blank"} \in SUBSET Flaws /\ (IsGuard(l) => l.flaws \cup {"blank"} \subseteq Layout)
    BY LineFacts DEF Flaws, Layout
  <2>2. (l.flaws \cup {"blank"}) \cap {"prefix", "angle"} # {} => l.is = "include"
    BY LineFacts
  <2> QED
    BY <2>1, <2>2, LineMade
<1>5. hole \in Line
  BY DEF Line
<1> HIDE DEF M, torn, hole
<1>6. ASSUME NEW k \in 1 .. M PROVE at(k) \in Line
  <2>1. k \in Int /\ 1 <= k
    BY <1>2
  <2>2. k \in from .. to => new[k] \in Line
    BY <1>1, <2>1
  <2>3. k <= Len(old) => old[k] \in Line
    BY <1>1, <2>1
  <2> QED
    BY <1>4, <1>5, <2>2, <2>3
<1> HIDE DEF at
<1>7. o \in [1 .. M -> Line]
  BY <1>3, <1>6
<1> HIDE DEF o
<1>8. o \in Seq(Line) /\ Len(o) = M /\ DOMAIN o = 1 .. M
  BY <1>2, <1>7, SeqDef
<1>9. \A k \in 1 .. M : /\ k >= from /\ k < to => o[k] = new[k]
                        /\ k >= from /\ k = to /\ to = Len(new) => o[k] = new[k]
                        /\ k < from => o[k] = IF k <= Len(old) THEN old[k] ELSE hole
  <2>1. SUFFICES ASSUME NEW k \in 1 .. M
                 PROVE  /\ k >= from /\ k < to => o[k] = new[k]
                        /\ k >= from /\ k = to /\ to = Len(new) => o[k] = new[k]
                        /\ k < from => o[k] = IF k <= Len(old) THEN old[k] ELSE hole
    OBVIOUS
  <2>2. o[k] = at(k)
    BY <1>3
  <2>3. k \in Int
    BY <1>2
  <2>4. /\ k >= from /\ k < to => at(k) = new[k]
        /\ k >= from /\ k = to /\ to = Len(new) => at(k) = new[k]
        /\ k < from => at(k) = IF k <= Len(old) THEN old[k] ELSE hole
    <3>1. k \in from .. to <=> k >= from /\ k <= to
      BY <2>3
    <3>2. CASE k >= from /\ k < to
      BY <2>3, <3>1, <3>2 DEF at
    <3>3. CASE k >= from /\ k = to
      BY <2>3, <3>1, <3>3 DEF at
    <3>4. CASE k < from
      BY <2>3, <3>1, <3>4 DEF at
    <3> QED
      BY <2>3, <3>2, <3>3, <3>4
  <2> QED
    BY <2>2, <2>4
<1>10. ASSUME from = 0, to = Len(new), old \in {<<>>, new} PROVE o = new
  <2>1. M = Len(new)
    <3>1. Len(old) <= to
      BY <1>1, <1>10
    <3>2. \A a \in Nat : a <= to => (IF a >= to THEN a ELSE to) = to
      OBVIOUS
    <3>3. M = to
      <4>1. Len(old) \in Nat
        OBVIOUS
      <4> QED
        BY <1>2, <3>1, <3>2, <4>1, Zenon
    <3> QED
      BY <1>10, <3>3
  <2>2. \A k \in 1 .. M : o[k] = new[k]
    BY <1>9, <1>10, <2>1
  <2> QED
    BY <1>8, <2>1, <2>2, SeqEqual
<1>11. ASSUME Len(old) = from, \A k \in 1 .. from - 1 : old[k] = new[k]
       PROVE  /\ Len(o) = to /\ \A k \in 1 .. to - 1 : o[k] = new[k]
              /\ to = Len(new) => o = new
  <2>1. M = to
    BY <1>1, <1>2, <1>11
  <2>2. ASSUME NEW k \in 1 .. M, k < to \/ to = Len(new) PROVE o[k] = new[k]
    <3>1. k \in Int /\ 1 <= k /\ k <= to
      BY <2>1
    <3>2. CASE k < from
      BY <1>9, <1>11, <3>1, <3>2
    <3>3. CASE k >= from
      BY <1>9, <2>2, <3>1, <3>3
    <3> QED
      BY <3>1, <3>2, <3>3
  <2>3. \A k \in 1 .. to - 1 : o[k] = new[k]
    BY <2>1, <2>2
  <2>4. to = Len(new) => o = new
    BY <1>8, <2>1, <2>2, SeqEqual
  <2> QED
    BY <1>8, <2>1, <2>3, <2>4
<1> QED
  BY <1>8, <1>10, <1>11 DEF o
----------------------------------------------------------------------------
(* The calls of a check.                                                   *)

Call == [file : Files, ok : BOOLEAN, text : Seq(Line), at : Nat,
         pc : {"pending", "started", "truncate", "flush", "format", "done", "failed", "cancelled"}]

LEMMA OptsFacts ==
  ASSUME TypeOK
  PROVE  /\ opts \in Options /\ opts.enabled \subseteq Range(CHECKS)
         /\ opts.fix \in BOOLEAN /\ opts.clang \in BOOLEAN /\ opts.jobs \in Int
         /\ opts.paths \in Seq([kind : {"file", "dir", "missing"}, files : SUBSET Files])
         /\ BufferLines \in Nat /\ BufferLines > 0
<1>1. opts \in Options
  BY DEF TypeOK
<1>2. /\ opts.enabled \subseteq Range(CHECKS)
      /\ opts.fix \in BOOLEAN /\ opts.clang \in BOOLEAN /\ opts.jobs \in Int
  BY <1>1, StyleAssumption
<1>3. opts.paths \in Seq([kind : {"file", "dir", "missing"}, files : SUBSET Files])
  BY <1>1, StyleAssumption, Zenon DEF Files
<1>4. BufferLines \in Nat /\ BufferLines > 0
  BY StyleAssumption
<1> QED
  BY <1>1, <1>2, <1>3, <1>4

\* The check at hand is one of the nine, and so are those behind it.
LEMMA CheckFacts ==
  ASSUME TypeOK
  PROVE  /\ n \in Int /\ 0 <= n /\ n <= 9
         /\ \A j \in 1 .. n : CHECKS[j] \in Range(CHECKS)
         /\ n < Len(CHECKS) => Check \in Range(CHECKS) /\ n + 1 \in DOMAIN CHECKS
<1>1. n \in Int /\ 0 <= n /\ n <= 9
  BY NineChecks DEF TypeOK
<1>2. \A j \in 1 .. n : j \in DOMAIN CHECKS
  BY <1>1, NineChecks
<1>3. n < Len(CHECKS) => n + 1 \in DOMAIN CHECKS
  BY <1>1, NineChecks
<1>4. \A j \in DOMAIN CHECKS : CHECKS[j] \in Range(CHECKS)
  BY DEF Range
<1> QED
  BY <1>1, <1>2, <1>3, <1>4 DEF Check

LEMMA TasksFacts ==
  ASSUME TypeOK
  PROVE  /\ tasks \in Seq(Call) /\ Len(tasks) \in Nat /\ DOMAIN tasks = 1 .. Len(tasks)
         /\ \A i \in DOMAIN tasks : tasks[i] \in Call /\ tasks[i].file \in Files
         /\ tasks = <<>> <=> DOMAIN tasks = {}
<1>1. tasks \in Seq(Call)
  BY DEF TypeOK, Call
<1>2. Len(tasks) \in Nat /\ DOMAIN tasks = 1 .. Len(tasks)
  BY <1>1
<1>3. \A i \in DOMAIN tasks : tasks[i] \in Call
  BY <1>1
<1>4. \A t \in Call : t.file \in Files
  BY DEF Call
<1>5. tasks = <<>> <=> DOMAIN tasks = {}
  <2>1. ASSUME DOMAIN tasks = {} PROVE tasks = <<>>
    <3>1. Len(tasks) = 0
      BY <1>2, <2>1
    <3> QED
      BY <1>1, <3>1, EmptySeq
  <2> QED
    BY <2>1
<1> QED
  BY <1>1, <1>2, <1>3, <1>4, <1>5

Mine == {i \in DOMAIN found : Check \in ChecksOf[Tree[found[i]].type]}

\* The calls are for the files that are the check's, in their order.
LEMMA TasksNamed ==
  ASSUME TypeOK, PhaseInv, phase \in {"pool", "raised"} \/ tasks # <<>>
  PROVE  /\ n < Len(CHECKS) /\ Check \in opts.enabled /\ opts.jobs > 0
         /\ \A i \in DOMAIN tasks : /\ At(Mine, i) \in Mine /\ At(Mine, i) \in DOMAIN found
                                    /\ tasks[i].file = found[At(Mine, i)]
         /\ \A i, k \in DOMAIN tasks : At(Mine, i) = At(Mine, k) => i = k
         /\ \A j \in Mine : \E i \in DOMAIN tasks : tasks[i].file = found[j]
<1> DEFINE F == [i \in DOMAIN tasks |-> tasks[i].file]
<1>1. /\ n < Len(CHECKS) /\ Check \in opts.enabled /\ opts.jobs > 0
      /\ F = Those(found, Mine)
  BY DEF PhaseInv, Mine
<1>2. found \in Seq(Files) /\ Mine \in SUBSET DOMAIN found
  BY DEF TypeOK, Mine
<1>3. Len(found) \in Nat /\ DOMAIN found = 1 .. Len(found)
  BY <1>2
<1>4. DOMAIN tasks = 1 .. Cardinality(Mine)
  <2>1. DOMAIN F = DOMAIN tasks
    OBVIOUS
  <2>2. DOMAIN Those(found, Mine) = 1 .. Cardinality(Mine)
    BY DEF Those
  <2> QED
    BY <1>1, <2>1, <2>2
<1>5. /\ \A k \in 1 .. Cardinality(Mine) : At(Mine, k) \in Mine /\ Rank(Mine, At(Mine, k)) = k
      /\ \A i \in Mine : Rank(Mine, i) \in 1 .. Cardinality(Mine) /\ At(Mine, Rank(Mine, i)) = i
  BY <1>2, <1>3, AtFacts
<1>6. \A i \in DOMAIN tasks : tasks[i].file = found[At(Mine, i)]
  <2>1. \A i \in DOMAIN tasks : F[i] = tasks[i].file
    OBVIOUS
  <2>2. \A i \in DOMAIN tasks : Those(found, Mine)[i] = found[At(Mine, i)]
    BY <1>4 DEF Those
  <2> HIDE DEF F
  <2> QED
    BY <1>1, <2>1, <2>2
<1> HIDE DEF F
<1>7. \A j \in Mine : \E i \in DOMAIN tasks : tasks[i].file = found[j]
  BY <1>4, <1>5, <1>6
<1>8. \A i, k \in DOMAIN tasks : At(Mine, i) = At(Mine, k) => i = k
  BY <1>4, <1>5
<1> QED
  BY <1>1, <1>2, <1>4, <1>5, <1>6, <1>7, <1>8

\* A file that is safe and too long for one piece has one call only.
LEMMA OneCall ==
  ASSUME TypeOK, PhaseInv, NEW i \in DOMAIN tasks, NEW k \in DOMAIN tasks,
         tasks[i].file = tasks[k].file, Safe(tasks[i].file),
         ~(Len(original[tasks[i].file]) <= BufferLines)
  PROVE  i = k
<1>1. tasks # <<>>
  BY TasksFacts
<1>2. /\ At(Mine, i) \in DOMAIN found /\ tasks[i].file = found[At(Mine, i)]
      /\ At(Mine, k) \in DOMAIN found /\ tasks[k].file = found[At(Mine, k)]
      /\ At(Mine, i) = At(Mine, k) => i = k
  BY <1>1, TasksNamed
<1>3. \A a, b \in DOMAIN found : found[a] = tasks[i].file /\ found[b] = tasks[i].file => a = b
  BY DEF Safe
<1> QED
  BY <1>2, <1>3

\* Where a call is while a process is at it, and what the step of a process is about.
Moves(i) ==
  Start(i) \/ Read(i) \/ ReadRaises(i) \/ Truncate(i) \/ TruncateRaises(i) \/ Flush(i) \/ Format(i)

LEMMA CallChanged ==
  ASSUME TypeOK, NEW i \in DOMAIN tasks, NEW t \in Call, tasks' = [tasks EXCEPT ![i] = t],
         t.file = tasks[i].file
  PROVE  /\ tasks' \in Seq(Call) /\ Len(tasks') = Len(tasks) /\ DOMAIN tasks' = DOMAIN tasks
         /\ tasks'[i] = t /\ \A k \in DOMAIN tasks : k # i => tasks'[k] = tasks[k]
         /\ \A k \in DOMAIN tasks : tasks'[k].file = tasks[k].file
<1>1. tasks \in Seq(Call) /\ Len(tasks) \in Nat /\ DOMAIN tasks = 1 .. Len(tasks)
  BY TasksFacts
<1>2. tasks \in [1 .. Len(tasks) -> Call]
  BY <1>1
<1>3. tasks' \in [1 .. Len(tasks) -> Call]
  BY <1>2
<1>4. tasks' \in Seq(Call) /\ Len(tasks') = Len(tasks)
  BY <1>1, <1>3, SeqDef
<1>5. DOMAIN tasks' = DOMAIN tasks /\ tasks'[i] = t /\ \A k \in DOMAIN tasks : k # i => tasks'[k] = tasks[k]
  BY <1>1, <1>2
<1> QED
  BY <1>4, <1>5
\* The call i goes to pc, with this result, these lines to write and this place.
To(i, pc, ok, text, at) ==
  tasks' = [tasks EXCEPT ![i] = [file |-> tasks[i].file, ok |-> ok, text |-> text, at |-> at, pc |-> pc]]

LEMMA ToFacts ==
  ASSUME TypeOK, NEW i \in DOMAIN tasks, NEW pc, NEW ok \in BOOLEAN, NEW text \in Seq(Line), NEW at \in Nat,
         pc \in {"pending", "started", "truncate", "flush", "format", "done", "failed", "cancelled"},
         To(i, pc, ok, text, at)
  PROVE  /\ tasks' \in Seq(Call) /\ Len(tasks') = Len(tasks) /\ DOMAIN tasks' = DOMAIN tasks
         /\ \A k \in DOMAIN tasks : k # i => tasks'[k] = tasks[k]
         /\ \A k \in DOMAIN tasks : tasks'[k].file = tasks[k].file
         /\ tasks'[i].pc = pc /\ tasks'[i].ok = ok /\ tasks'[i].text = text /\ tasks'[i].at = at
<1> DEFINE t == [file |-> tasks[i].file, ok |-> ok, text |-> text, at |-> at, pc |-> pc]
<1>1. t \in Call
  BY TasksFacts DEF Call
<1>2. /\ t.file = tasks[i].file /\ t.pc = pc /\ t.ok = ok /\ t.text = text /\ t.at = at
      /\ tasks' = [tasks EXCEPT ![i] = t]
  BY DEF To
<1> HIDE DEF t
<1>3. /\ tasks' \in Seq(Call) /\ Len(tasks') = Len(tasks) /\ DOMAIN tasks' = DOMAIN tasks
      /\ tasks'[i] = t /\ \A k \in DOMAIN tasks : k # i => tasks'[k] = tasks[k]
      /\ \A k \in DOMAIN tasks : tasks'[k].file = tasks[k].file
  BY <1>1, <1>2, CallChanged
<1> QED
  BY <1>2, <1>3

LEMMA CallFields ==
  ASSUME TypeOK, NEW i \in DOMAIN tasks
  PROVE  /\ tasks[i].file \in Files /\ tasks[i].ok \in BOOLEAN /\ tasks[i].text \in Seq(Line)
         /\ tasks[i].at \in Nat /\ content[tasks[i].file] \in Seq(Line)
         /\ tasks[i].pc \in {"pending", "started", "truncate", "flush", "format", "done", "failed", "cancelled"}
         /\ tasks[i] = [file |-> tasks[i].file, ok |-> tasks[i].ok, text |-> tasks[i].text,
                        at |-> tasks[i].at, pc |-> tasks[i].pc]
<1>1. tasks[i] \in Call
  BY TasksFacts
<1>2. content \in [Files -> Seq(Line)]
  BY DEF TypeOK
<1> QED
  BY <1>1, <1>2 DEF Call

LEMMA ToPc ==
  ASSUME TypeOK, NEW i \in DOMAIN tasks, NEW pc \in {"flush", "done"}, NEW text \in {<<>>, tasks[i].text},
         NEW at \in Nat, To(i, pc, tasks[i].ok, text, at)
  PROVE  tasks'[i].pc = pc /\ tasks'[i].text = text /\ tasks'[i].at = at
<1>1. tasks[i].ok \in BOOLEAN /\ text \in Seq(Line)
  <2>1. tasks[i].ok \in BOOLEAN /\ tasks[i].text \in Seq(Line)
    BY CallFields, Zenon
  <2>2. <<>> \in Seq(Line)
    OBVIOUS
  <2> QED
    BY <2>1, <2>2
<1>2. pc \in {"pending", "started", "truncate", "flush", "format", "done", "failed", "cancelled"}
  OBVIOUS
<1> DEFINE ok == tasks[i].ok
<1>3. ok \in BOOLEAN /\ To(i, pc, ok, text, at)
  BY <1>1
<1> HIDE DEF ok
<1> QED
  BY <1>1, <1>2, <1>3, ToFacts

\* How far the next piece of a writer goes.
Piece(i) == Min({tasks[i].at + BufferLines, Len(tasks[i].text)})

LEMMA PieceFacts ==
  ASSUME TypeOK, NEW i \in DOMAIN tasks, tasks[i].at <= Len(tasks[i].text)
  PROVE  /\ Piece(i) \in Nat /\ tasks[i].at <= Piece(i) /\ Piece(i) <= Len(tasks[i].text)
         /\ Piece(i) = Len(tasks[i].text) \/ Piece(i) = tasks[i].at + BufferLines
<1>1. tasks[i].at \in Nat /\ Len(tasks[i].text) \in Nat /\ BufferLines \in Nat /\ BufferLines > 0
  BY CallFields, OptsFacts
<1>2. Piece(i) = IF tasks[i].at + BufferLines <= Len(tasks[i].text) THEN tasks[i].at + BufferLines
                 ELSE Len(tasks[i].text)
  <2>1. \A a \in Int : \A b \in Int : Min({a, b}) = IF a <= b THEN a ELSE b
    BY MaxMin
  <2>2. tasks[i].at + BufferLines \in Int /\ Len(tasks[i].text) \in Int
    BY <1>1
  <2> QED
    BY <2>1, <2>2, Zenon DEF Piece
<1> QED
  BY <1>1, <1>2

LEMMA StepTo ==
  ASSUME TypeOK, NEW i \in DOMAIN tasks, NEW pc, Step(i, pc)
  PROVE  To(i, pc, tasks[i].ok, tasks[i].text, tasks[i].at)
<1>1. tasks[i] = [file |-> tasks[i].file, ok |-> tasks[i].ok, text |-> tasks[i].text,
                  at |-> tasks[i].at, pc |-> tasks[i].pc]
  BY CallFields
<1>2. [tasks[i] EXCEPT !.pc = pc] = [file |-> tasks[i].file, ok |-> tasks[i].ok, text |-> tasks[i].text,
                                     at |-> tasks[i].at, pc |-> pc]
  BY <1>1
<1>3. tasks' = [tasks EXCEPT ![i] = [tasks[i] EXCEPT !.pc = pc]]
  BY DEF Step
<1> QED
  BY <1>2, <1>3 DEF To

\* What the step of a process is, field by field.
LEMMA Effects ==
  ASSUME TypeOK, NEW i \in DOMAIN tasks
  PROVE  /\ Start(i) => To(i, "started", tasks[i].ok, tasks[i].text, tasks[i].at)
         /\ Read(i) =>
              LET text == content[tasks[i].file]
                  ok   == Readable(tasks[i].file) /\ Fixed(Check, text) = text
              IN To(i, IF ok \/ ~opts.fix THEN "done" ELSE IF Check = "formatting" THEN "format" ELSE "truncate",
                    ok, IF ok \/ ~opts.fix THEN <<>> ELSE Fixed(Check, text), tasks[i].at)
         /\ ReadRaises(i) => To(i, "failed", tasks[i].ok, tasks[i].text, tasks[i].at)
         /\ Truncate(i) => To(i, "flush", tasks[i].ok, tasks[i].text, tasks[i].at)
         /\ TruncateRaises(i) => To(i, "failed", tasks[i].ok, tasks[i].text, tasks[i].at)
         /\ Flush(i) => IF Piece(i) = Len(tasks[i].text) THEN To(i, "done", tasks[i].ok, <<>>, 0)
                        ELSE To(i, tasks[i].pc, tasks[i].ok, tasks[i].text, Piece(i))
         /\ Format(i) => To(i, "done", tasks[i].ok, <<>>, tasks[i].at)
<1> DEFINE b == tasks[i]
<1>0. b = [file |-> b.file, ok |-> b.ok, text |-> b.text, at |-> b.at, pc |-> b.pc]
  BY CallFields
<1>1. /\ Start(i) => To(i, "started", tasks[i].ok, tasks[i].text, tasks[i].at)
      /\ ReadRaises(i) => To(i, "failed", tasks[i].ok, tasks[i].text, tasks[i].at)
      /\ Truncate(i) => To(i, "flush", tasks[i].ok, tasks[i].text, tasks[i].at)
      /\ TruncateRaises(i) => To(i, "failed", tasks[i].ok, tasks[i].text, tasks[i].at)
  BY StepTo DEF Start, ReadRaises, Truncate, TruncateRaises
<1>2. ASSUME NEW pc, NEW ok, NEW text,
             tasks' = [tasks EXCEPT ![i] = [@ EXCEPT !.ok = ok, !.text = text, !.pc = pc]]
      PROVE  To(i, pc, ok, text, tasks[i].at)
  <2> DEFINE c1 == [b EXCEPT !.ok = ok]
             c2 == [c1 EXCEPT !.text = text]
             c3 == [c2 EXCEPT !.pc = pc]
  <2>1. tasks' = [tasks EXCEPT ![i] = c3]
    BY <1>2
  <2> HIDE DEF b
  <2>2. c1 = [file |-> b.file, ok |-> ok, text |-> b.text, at |-> b.at, pc |-> b.pc]
    BY <1>0
  <2> HIDE DEF c1
  <2>3. c2 = [file |-> b.file, ok |-> ok, text |-> text, at |-> b.at, pc |-> b.pc]
    BY <2>2
  <2> HIDE DEF c2
  <2>4. c3 = [file |-> b.file, ok |-> ok, text |-> text, at |-> b.at, pc |-> pc]
    BY <2>3
  <2> HIDE DEF c3
  <2> QED
    BY <2>1, <2>4 DEF To, b
<1>3. Read(i) =>
        LET text == content[tasks[i].file]
            ok   == Readable(tasks[i].file) /\ Fixed(Check, text) = text
        IN To(i, IF ok \/ ~opts.fix THEN "done" ELSE IF Check = "formatting" THEN "format" ELSE "truncate",
              ok, IF ok \/ ~opts.fix THEN <<>> ELSE Fixed(Check, text), tasks[i].at)
  BY <1>2 DEF Read
<1>4. Flush(i) => IF Piece(i) = Len(tasks[i].text) THEN To(i, "done", tasks[i].ok, <<>>, 0)
                  ELSE To(i, tasks[i].pc, tasks[i].ok, tasks[i].text, Piece(i))
  <2>1. SUFFICES ASSUME Flush(i)
                 PROVE  IF Piece(i) = Len(tasks[i].text) THEN To(i, "done", tasks[i].ok, <<>>, 0)
                        ELSE To(i, tasks[i].pc, tasks[i].ok, tasks[i].text, Piece(i))
    OBVIOUS
  <2>2. tasks' = IF Piece(i) = Len(tasks[i].text)
                 THEN [tasks EXCEPT ![i].pc = "done", ![i].text = <<>>, ![i].at = 0]
                 ELSE [tasks EXCEPT ![i].at = Piece(i)]
    BY <2>1 DEF Flush, Piece
  <2>3. [tasks EXCEPT ![i].pc = "done", ![i].text = <<>>, ![i].at = 0]
          = [tasks EXCEPT ![i] = [file |-> tasks[i].file, ok |-> tasks[i].ok, text |-> <<>>, at |-> 0, pc |-> "done"]]
    <3> DEFINE c1 == [b EXCEPT !.pc = "done"]
               c2 == [c1 EXCEPT !.text = <<>>]
               c3 == [c2 EXCEPT !.at = 0]
    <3>1. [tasks EXCEPT ![i].pc = "done", ![i].text = <<>>, ![i].at = 0] = [tasks EXCEPT ![i] = c3]
      OBVIOUS
    <3> HIDE DEF b
    <3>2. c1 = [file |-> b.file, ok |-> b.ok, text |-> b.text, at |-> b.at, pc |-> "done"]
      BY <1>0
    <3> HIDE DEF c1
    <3>3. c2 = [file |-> b.file, ok |-> b.ok, text |-> <<>>, at |-> b.at, pc |-> "done"]
      BY <3>2
    <3> HIDE DEF c2
    <3>4. c3 = [file |-> b.file, ok |-> b.ok, text |-> <<>>, at |-> 0, pc |-> "done"]
      BY <3>3
    <3> HIDE DEF c3
    <3> QED
      BY <3>1, <3>4 DEF b
  <2>4. [tasks EXCEPT ![i].at = Piece(i)]
          = [tasks EXCEPT ![i] = [file |-> tasks[i].file, ok |-> tasks[i].ok, text |-> tasks[i].text,
                                  at |-> Piece(i), pc |-> tasks[i].pc]]
    <3> DEFINE c1 == [b EXCEPT !.at = Piece(i)]
    <3>1. [tasks EXCEPT ![i].at = Piece(i)] = [tasks EXCEPT ![i] = c1]
      OBVIOUS
    <3> HIDE DEF b
    <3>2. c1 = [file |-> b.file, ok |-> b.ok, text |-> b.text, at |-> Piece(i), pc |-> b.pc]
      BY <1>0
    <3> HIDE DEF c1
    <3> QED
      BY <3>1, <3>2 DEF b
  <2> QED
    BY <2>2, <2>3, <2>4 DEF To
<1>5. Format(i) => To(i, "done", tasks[i].ok, <<>>, tasks[i].at)
  <2>1. [tasks EXCEPT ![i].pc = "done", ![i].text = <<>>]
          = [tasks EXCEPT ![i] = [file |-> tasks[i].file, ok |-> tasks[i].ok, text |-> <<>>,
                                  at |-> tasks[i].at, pc |-> "done"]]
    <3> DEFINE c1 == [b EXCEPT !.pc = "done"]
               c2 == [c1 EXCEPT !.text = <<>>]
    <3>1. [tasks EXCEPT ![i].pc = "done", ![i].text = <<>>] = [tasks EXCEPT ![i] = c2]
      OBVIOUS
    <3> HIDE DEF b
    <3>2. c1 = [file |-> b.file, ok |-> b.ok, text |-> b.text, at |-> b.at, pc |-> "done"]
      BY <1>0
    <3> HIDE DEF c1
    <3>3. c2 = [file |-> b.file, ok |-> b.ok, text |-> <<>>, at |-> b.at, pc |-> "done"]
      BY <3>2
    <3> HIDE DEF c2
    <3> QED
      BY <3>1, <3>3 DEF b
  <2> QED
    BY <2>1 DEF Format, To
<1> QED
  BY <1>1, <1>3, <1>4, <1>5

\* What any step of a process leaves alone.
LEMMA MovesFacts ==
  ASSUME TypeOK, TaskInv, PhaseInv, NEW i \in DOMAIN tasks, Moves(i)
  PROVE  /\ UNCHANGED poolVars /\ PoolUp
         /\ tasks' \in Seq(Call) /\ Len(tasks') = Len(tasks) /\ DOMAIN tasks' = DOMAIN tasks
         /\ \A k \in DOMAIN tasks : k # i => tasks'[k] = tasks[k]
         /\ \A k \in DOMAIN tasks : tasks'[k].file = tasks[k].file
         /\ tasks[i].pc \in {"pending", "started", "truncate", "flush", "format"}
         /\ tasks'[i].pc \in {"started", "truncate", "flush", "format", "done", "failed"}
         /\ ~Start(i) => tasks[i].pc # "pending"
         /\ content' \in [Files -> Seq(Line)]
         /\ \A f \in Files : f # tasks[i].file => content'[f] = content[f]
         /\ ~opts.fix => content' = content
<1>1. tasks # <<>> /\ Check \in Range(CHECKS)
  BY TasksFacts, TasksNamed, OptsFacts
<1> DEFINE f == tasks[i].file
           text == content[f]
<1>2. /\ f \in Files /\ text \in Seq(Line) /\ tasks[i].ok \in BOOLEAN /\ tasks[i].text \in Seq(Line)
      /\ tasks[i].at \in Nat /\ content \in [Files -> Seq(Line)]
      /\ tasks[i].pc \in {"pending", "started", "truncate", "flush", "format", "done", "failed", "cancelled"}
  BY CallFields DEF TypeOK
<1>3. Fixed(Check, text) \in Seq(Line) /\ <<>> \in Seq(Line)
  BY <1>1, <1>2, FixedFacts
<1>4. /\ UNCHANGED poolVars /\ PoolUp
      /\ tasks[i].pc \in {"pending", "started", "truncate", "flush", "format"}
      /\ ~Start(i) => tasks[i].pc # "pending"
  BY DEF Moves, Start, Read, ReadRaises, Truncate, TruncateRaises, Flush, Format
<1>5. \E pc \in {"started", "truncate", "flush", "format", "done", "failed"}, ok \in BOOLEAN,
         new \in Seq(Line), at \in Nat : To(i, pc, ok, new, at)
  <2>1. CASE Start(i)
    BY <1>2, <2>1, Effects
  <2>2. CASE Read(i)
    <3>1. PICK pc \in {"done", "format", "truncate"}, ok \in BOOLEAN, new \in {<<>>, Fixed(Check, text)} :
            To(i, pc, ok, new, tasks[i].at)
      BY <2>2, Effects
    <3> QED
      BY <1>2, <1>3, <3>1
  <2>3. CASE ReadRaises(i) \/ TruncateRaises(i)
    BY <1>2, <2>3, Effects
  <2>4. CASE Truncate(i)
    BY <1>2, <2>4, Effects
  <2>5. CASE Flush(i)
    <3>1. tasks[i].pc = "flush" /\ tasks[i].at <= Len(tasks[i].text)
      BY <2>5 DEF Flush, TaskInv
    <3>2. Piece(i) \in Nat
      BY <3>1, PieceFacts
    <3> QED
      BY <1>2, <1>3, <2>5, <3>1, <3>2, Effects
  <2>6. CASE Format(i)
    BY <1>2, <1>3, <2>6, Effects
  <2> QED
    BY <2>1, <2>2, <2>3, <2>4, <2>5, <2>6 DEF Moves
<1>6. /\ tasks' \in Seq(Call) /\ Len(tasks') = Len(tasks) /\ DOMAIN tasks' = DOMAIN tasks
      /\ \A k \in DOMAIN tasks : k # i => tasks'[k] = tasks[k]
      /\ \A k \in DOMAIN tasks : tasks'[k].file = tasks[k].file
      /\ tasks'[i].pc \in {"started", "truncate", "flush", "format", "done", "failed"}
  <2>1. PICK pc \in {"started", "truncate", "flush", "format", "done", "failed"}, ok \in BOOLEAN,
             new \in Seq(Line), at \in Nat : To(i, pc, ok, new, at)
    BY <1>5
  <2>2. pc \in {"pending", "started", "truncate", "flush", "format", "done", "failed", "cancelled"}
    OBVIOUS
  <2> QED
    <3>1. /\ tasks' \in Seq(Call) /\ Len(tasks') = Len(tasks) /\ DOMAIN tasks' = DOMAIN tasks
          /\ \A k \in DOMAIN tasks : k # i => tasks'[k] = tasks[k]
          /\ \A k \in DOMAIN tasks : tasks'[k].file = tasks[k].file
          /\ tasks'[i].pc = pc
      BY <2>1, <2>2, ToFacts
    <3> QED
      BY <3>1
<1>7. content' = content \/ \E new \in Seq(Line) : content' = [content EXCEPT ![f] = new] /\ opts.fix
  <2>1. CASE Start(i) \/ Read(i) \/ ReadRaises(i) \/ TruncateRaises(i)
    BY <2>1 DEF Start, Read, ReadRaises, TruncateRaises
  <2>2. tasks[i].pc \in {"truncate", "flush", "format"} => opts.fix
    BY DEF TaskInv
  <2>3. CASE Truncate(i)
    BY <1>3, <2>2, <2>3 DEF Truncate
  <2>4. CASE Flush(i)
    <3>1. tasks[i].pc = "flush" /\ tasks[i].at <= Len(tasks[i].text)
      BY <2>4 DEF Flush, TaskInv
    <3>2. Overwrite(text, tasks[i].at, tasks[i].text, Piece(i)) \in Seq(Line)
      BY <1>2, <3>1, PieceFacts, OverwriteFacts
    <3>3. content' = [content EXCEPT ![f] = Overwrite(text, tasks[i].at, tasks[i].text, Piece(i))]
      BY <2>4 DEF Flush, Piece
    <3> QED
      BY <2>2, <3>1, <3>2, <3>3
  <2>5. CASE Format(i)
    <3>1. Fixed("formatting", text) \in Seq(Line)
      BY <1>2, NineChecks, FixedFacts
    <3>2. clang_format(text) = Fixed("formatting", text)
      BY NineChecks DEF Fixed
    <3>3. content' = content \/ content' = [content EXCEPT ![f] = clang_format(text)]
      BY <2>5 DEF Format
    <3>4. tasks[i].pc = "format"
      BY <2>5 DEF Format
    <3> QED
      BY <2>2, <3>1, <3>2, <3>3, <3>4
  <2> QED
    BY <2>1, <2>3, <2>4, <2>5 DEF Moves
<1>8. /\ content' \in [Files -> Seq(Line)]
      /\ \A g \in Files : g # f => content'[g] = content[g]
      /\ ~opts.fix => content' = content
  BY <1>2, <1>7
<1> QED
  BY <1>4, <1>6, <1>8
\* The calls that are cancelled were pending.
LEMMA RaisesFacts ==
  ASSUME TypeOK, CollectRaises
  PROVE  /\ tasks' \in Seq(Call) /\ Len(tasks') = Len(tasks) /\ DOMAIN tasks' = DOMAIN tasks
         /\ \A k \in DOMAIN tasks :
              \/ tasks'[k] = tasks[k]
              \/ /\ tasks[k].pc = "pending" /\ tasks'[k].pc = "cancelled"
                 /\ tasks'[k].file = tasks[k].file /\ tasks'[k].ok = tasks[k].ok
                 /\ tasks'[k].text = tasks[k].text /\ tasks'[k].at = tasks[k].at
<1>1. PICK handed \in 0 .. opts.jobs + 1 :
        tasks' = [i \in DOMAIN tasks |->
                    IF tasks[i].pc = "pending"
                         /\ Cardinality({k \in 1 .. i : tasks[k].pc = "pending"}) > handed
                    THEN [tasks[i] EXCEPT !.pc = "cancelled"] ELSE tasks[i]]
  BY DEF CollectRaises
<1> DEFINE over(i) == Cardinality({k \in 1 .. i : tasks[k].pc = "pending"}) > handed
           new(i) == IF tasks[i].pc = "pending" /\ over(i) THEN [tasks[i] EXCEPT !.pc = "cancelled"] ELSE tasks[i]
<1>2. tasks' = [i \in DOMAIN tasks |-> new(i)]
  BY <1>1
<1> HIDE DEF over
<1>3. ASSUME NEW k \in DOMAIN tasks
      PROVE  /\ new(k) \in Call
             /\ \/ new(k) = tasks[k]
                \/ /\ tasks[k].pc = "pending" /\ new(k).pc = "cancelled"
                   /\ new(k).file = tasks[k].file /\ new(k).ok = tasks[k].ok
                   /\ new(k).text = tasks[k].text /\ new(k).at = tasks[k].at
  <2>1. tasks[k] \in Call
    BY TasksFacts
  <2>2. [tasks[k] EXCEPT !.pc = "cancelled"] \in Call
    BY <2>1 DEF Call
  <2>3. LET c == [tasks[k] EXCEPT !.pc = "cancelled"]
        IN /\ c.pc = "cancelled" /\ c.file = tasks[k].file /\ c.ok = tasks[k].ok
           /\ c.text = tasks[k].text /\ c.at = tasks[k].at
    BY <2>1 DEF Call
  <2> QED
    BY <2>1, <2>2, <2>3
<1> HIDE DEF new
<1>4. tasks' \in [DOMAIN tasks -> Call]
  BY <1>2, <1>3
<1>5. Len(tasks) \in Nat /\ DOMAIN tasks = 1 .. Len(tasks)
  BY TasksFacts
<1>6. tasks' \in Seq(Call) /\ Len(tasks') = Len(tasks) /\ DOMAIN tasks' = DOMAIN tasks
  BY <1>4, <1>5, SeqDef
<1>7. \A k \in DOMAIN tasks : tasks'[k] = new(k)
  BY <1>2
<1> QED
  BY <1>3, <1>6, <1>7

\* The calls of a check that begins: one per file that is its own, all pending.
LEMMA StartsFacts ==
  ASSUME TypeOK, PhaseInv, StartCheck, ~(opts.jobs <= 0)
  PROVE  /\ tasks' \in Seq(Call)
         /\ \A k \in DOMAIN tasks' : tasks'[k].pc = "pending" /\ tasks'[k].at = 0 /\ tasks'[k].text = <<>>
         /\ [i \in DOMAIN tasks' |-> tasks'[i].file] = Those(found, Mine)
<1> DEFINE mine == Those(found, Mine)
           new(i) == [file |-> mine[i], pc |-> "pending", ok |-> TRUE, text |-> <<>>, at |-> 0]
<1>1. tasks' = [i \in DOMAIN mine |-> new(i)]
  BY DEF StartCheck, Mine
<1>2. found \in Seq(Files) /\ Mine \in SUBSET DOMAIN found
  BY DEF TypeOK, Mine
<1>3. mine \in Seq(Files)
  BY <1>2, ThoseFacts
<1> HIDE DEF mine
<1>4. \A i \in DOMAIN mine : new(i) \in Call
  BY <1>3 DEF Call
<1>5. \A i \in DOMAIN mine : new(i).file = mine[i] /\ new(i).pc = "pending" /\ new(i).at = 0 /\ new(i).text = <<>>
  OBVIOUS
<1> HIDE DEF new
<1>6. tasks' \in [1 .. Len(mine) -> Call] /\ DOMAIN tasks' = DOMAIN mine /\ Len(mine) \in Nat
  BY <1>1, <1>3, <1>4
<1>7. tasks' \in Seq(Call)
  BY <1>6, SeqDef
<1>8. \A i \in DOMAIN mine : tasks'[i] = new(i)
  BY <1>1
<1>9. [i \in DOMAIN tasks' |-> tasks'[i].file] = mine
  <2>1. \A i \in DOMAIN mine : tasks'[i].file = mine[i]
    BY <1>5, <1>8
  <2>2. mine = [i \in DOMAIN mine |-> mine[i]]
    BY <1>3
  <2> QED
    BY <1>6, <2>1, <2>2
<1> QED
  BY <1>5, <1>6, <1>7, <1>8, <1>9 DEF mine

\* The files found are files.
LEMMA FoundFiles ==
  ASSUME TypeOK, Find
  PROVE  found' \in Seq(Files)
<1> DEFINE hits == {h \in Files \X DOMAIN opts.paths : h[1] \in FilesOf(opts.paths[h[2]])}
<1>1. \E list \in [1 .. Cardinality(hits) -> Files] : found' = list
  BY DEF Find
<1>2. Files = 1 .. Len(Tree) /\ Len(Tree) \in Nat
  BY StyleAssumption DEF Files
<1>3. DOMAIN opts.paths = 1 .. Len(opts.paths) /\ Len(opts.paths) \in Nat
  BY OptsFacts
<1>4. IsFiniteSet(Files) /\ IsFiniteSet(DOMAIN opts.paths)
  BY <1>2, <1>3, FS_Interval
<1>5. IsFiniteSet(Files \X DOMAIN opts.paths)
  BY <1>4, FS_Product
<1>6. hits \subseteq Files \X DOMAIN opts.paths
  OBVIOUS
<1> HIDE DEF hits
<1>7. Cardinality(hits) \in Nat
  BY <1>5, <1>6, FS_Subset, FS_CardinalityType
<1> QED
  BY <1>1, <1>7, SeqDef
Bounded == Busy # {} => Cardinality(Busy) <= opts.jobs

LEMMA BusyFacts ==
  ASSUME TypeOK
  PROVE  IsFiniteSet(Busy) /\ Cardinality(Busy) \in Nat /\ Bounded
<1>1. IsFiniteSet(DOMAIN tasks)
  BY TasksFacts, FS_Interval
<1>2. Busy \subseteq DOMAIN tasks
  BY DEF Busy
<1> QED
  BY <1>1, <1>2, FS_Subset, FS_CardinalityType DEF TypeOK, Bounded

LEMMA BusyLess ==
  ASSUME TypeOK, opts' = opts, Busy' \subseteq Busy
  PROVE  Bounded'
<1>1. Cardinality(Busy') <= Cardinality(Busy) /\ Cardinality(Busy') \in Nat
  BY BusyFacts, FS_Subset, FS_CardinalityType
<1>2. Busy' # {} => Busy # {}
  OBVIOUS
<1>3. opts.jobs \in Int /\ Cardinality(Busy) \in Nat
  BY OptsFacts, BusyFacts
<1>4. Busy # {} => Cardinality(Busy) <= opts.jobs
  BY BusyFacts DEF Bounded
<1>5. Busy' # {} => Cardinality(Busy') <= opts.jobs
  BY <1>1, <1>2, <1>3, <1>4
<1> QED
  BY <1>5 DEF Bounded

\* TypeOK without the bound of the pool.
Typed ==
  /\ opts \in Options
  /\ content \in [Files -> Seq(Line)] /\ original \in [Files -> Seq(Line)]
  /\ base \in [Files -> Seq(Line)]
  /\ phase \in {"find", "choose", "pool", "raised", "exited", "killed"}
  /\ found \in Seq(Files) /\ n \in 0 .. Len(CHECKS)
  /\ tasks \in Seq(Call)
  /\ collected \in 0 .. Len(tasks)
  /\ success \in BOOLEAN /\ exit \in -1 .. 1

LEMMA TypedBounded == TypeOK <=> Typed /\ Bounded
BY DEF TypeOK, Typed, Bounded, Call

LEMMA TypeInit == Init => TypeOK
<1> SUFFICES ASSUME Init PROVE TypeOK
  OBVIOUS
<1>1. content \in [Files -> Seq(Line)]
  <2>1. content \in [Files -> UNION Range(Texts)] /\ \A f \in Files : content[f] \in Texts[Tree[f].type]
    BY DEF Init
  <2>2. \A f \in Files : Texts[Tree[f].type] \subseteq Seq(Line)
    BY StyleAssumption DEF Files
  <2> QED
    BY <2>1, <2>2
<1>2. <<>> \in Seq(Files) /\ <<>> \in Seq(Call) /\ Len(<<>>) = 0 /\ DOMAIN <<>> = {}
  BY EmptySeq
<1>3. Typed
  BY <1>1, <1>2, NineChecks DEF Init, Typed
<1>4. Busy = {}
  BY <1>2 DEF Init, Busy
<1> QED
  BY <1>3, <1>4, TypedBounded DEF Bounded

LEMMA TypeStep ==
  ASSUME TypeOK, PhaseInv, TaskInv, [Next]_vars
  PROVE  TypeOK'
<1>0. Typed
  BY TypedBounded
<1>1. ASSUME UNCHANGED <<opts, content, found, n, tasks, success, original, base>>,
             phase' \in {"find", "choose", "pool", "raised", "exited", "killed"},
             collected' \in 0 .. Len(tasks), exit' \in -1 .. 1
      PROVE  TypeOK'
  <2>1. Typed'
    BY <1>0, <1>1 DEF Typed
  <2>2. Bounded'
    BY <1>1, BusyFacts DEF Bounded, Busy
  <2> QED
    BY <2>1, <2>2, TypedBounded, PTL
<1>2. CASE Find
  <2>1. found' \in Seq(Files)
    BY <1>2, FoundFiles
  <2>2. Typed'
    BY <1>0, <1>2, <2>1 DEF Find, Typed
  <2>3. Bounded'
    BY <1>2, BusyFacts DEF Find, Bounded, Busy
  <2> QED
    BY <2>2, <2>3, TypedBounded, PTL
<1>3. CASE FindRaises \/ LeavePool
  BY <1>0, <1>1, <1>3 DEF FindRaises, LeavePool, Exit, Typed
<1>4. CASE Collect
  <2>1. collected' \in 0 .. Len(tasks) /\ UNCHANGED <<phase, exit>>
    BY <1>0, <1>4, TasksFacts DEF Collect, Typed
  <2> QED
    BY <1>0, <1>1, <1>4, <2>1 DEF Collect, Typed
<1>5. CASE Return \/ Kill \/ Terminated \/ UNCHANGED vars
  BY <1>0, <1>1, <1>5 DEF Return, Kill, Terminated, vars, Exit, Typed
<1>6. CASE SkipCheck
  <2>1. n' \in 0 .. Len(CHECKS)
    BY <1>6, CheckFacts, NineChecks DEF SkipCheck
  <2>2. Typed'
    BY <1>0, <1>6, <2>1 DEF SkipCheck, Typed
  <2>3. Bounded'
    BY <1>6, BusyFacts DEF SkipCheck, Bounded, Busy
  <2> QED
    BY <2>2, <2>3, TypedBounded, PTL
<1>7. CASE StartCheck
  <2>1. CASE opts.jobs <= 0
    <3>1. Typed'
      BY <1>0, <1>7, <2>1 DEF StartCheck, Exit, Typed
    <3>2. Bounded'
      BY <1>7, <2>1, BusyFacts DEF StartCheck, Bounded, Busy
    <3> QED
      BY <3>1, <3>2, TypedBounded, PTL
  <2>2. CASE ~(opts.jobs <= 0)
    <3>1. tasks' \in Seq(Call) /\ \A k \in DOMAIN tasks' : tasks'[k].pc = "pending"
      BY <1>7, <2>2, StartsFacts
    <3>2. collected' = 0 /\ Len(tasks') \in Nat
      BY <1>7, <3>1 DEF StartCheck, Choosing, PhaseInv
    <3>3. collected' \in 0 .. Len(tasks')
      BY <3>2
    <3>4. Typed'
      BY <1>0, <1>7, <2>2, <3>1, <3>3 DEF StartCheck, Typed
    <3>5. Busy' = {}
      BY <3>1 DEF Busy
    <3>6. Bounded'
      BY <3>5 DEF Bounded
    <3> QED
      BY <3>4, <3>6, TypedBounded, PTL
  <2> QED
    BY <2>1, <2>2
<1>8. CASE CollectRaises
  <2>1. /\ tasks' \in Seq(Call) /\ Len(tasks') = Len(tasks) /\ DOMAIN tasks' = DOMAIN tasks
        /\ \A k \in DOMAIN tasks : tasks'[k] = tasks[k] \/ tasks'[k].pc = "cancelled"
    BY <1>8, RaisesFacts
  <2>2. Typed'
    BY <1>0, <1>8, <2>1 DEF CollectRaises, Typed
  <2>3. Busy' \subseteq Busy
    BY <2>1 DEF Busy
  <2>4. Bounded'
    BY <1>8, <2>3, BusyLess DEF CollectRaises
  <2> QED
    BY <2>2, <2>4, TypedBounded, PTL
<1>9. CASE EndCheck
  <2>1. n' \in 0 .. Len(CHECKS)
    BY <1>9, CheckFacts, TasksNamed, NineChecks DEF EndCheck
  <2>2. tasks' = <<>> /\ <<>> \in Seq(Call) /\ Len(<<>>) = 0 /\ DOMAIN <<>> = {}
    BY <1>9, EmptySeq DEF EndCheck
  <2>3. Typed'
    BY <1>0, <1>9, <2>1, <2>2 DEF EndCheck, Typed
  <2>4. Busy' = {}
    BY <2>2 DEF Busy
  <2>5. Bounded'
    BY <2>4 DEF Bounded
  <2> QED
    BY <2>3, <2>5, TypedBounded, PTL
<1>10. ASSUME NEW i \in DOMAIN tasks, Moves(i) PROVE TypeOK'
  <2>1. /\ UNCHANGED poolVars
        /\ tasks' \in Seq(Call) /\ Len(tasks') = Len(tasks) /\ DOMAIN tasks' = DOMAIN tasks
        /\ \A k \in DOMAIN tasks : k # i => tasks'[k] = tasks[k]
        /\ ~Start(i) => tasks[i].pc # "pending"
        /\ tasks[i].pc \in {"pending", "started", "truncate", "flush", "format"}
        /\ content' \in [Files -> Seq(Line)]
    BY <1>10, MovesFacts
  <2>2. Typed'
    BY <1>0, <2>1 DEF Typed, poolVars
  <2>3. CASE ~Start(i)
    <3>1. Busy' \subseteq Busy
      BY <2>1, <2>3 DEF Busy
    <3>2. Bounded'
      BY <2>1, <3>1, BusyLess DEF poolVars
    <3> QED
      BY <2>2, <3>2, TypedBounded, PTL
  <2>4. CASE Start(i)
    <3>1. Busy' \subseteq Busy \cup {i} /\ i \notin Busy
      BY <2>1, <2>4 DEF Busy, Start
    <3>2. IsFiniteSet(Busy \cup {i}) /\ Cardinality(Busy \cup {i}) = Cardinality(Busy) + 1
      BY <3>1, BusyFacts, FS_AddElement
    <3>3. Cardinality(Busy') <= Cardinality(Busy) + 1 /\ Cardinality(Busy') \in Nat
      BY <3>1, <3>2, FS_Subset, FS_CardinalityType
    <3>4. Cardinality(Busy) < opts.jobs /\ opts'.jobs = opts.jobs
      BY <2>1, <2>4 DEF Start, poolVars
    <3>5. Cardinality(Busy') <= opts'.jobs
      BY <3>3, <3>4, OptsFacts, BusyFacts
    <3>6. Bounded'
      BY <3>5 DEF Bounded
    <3> QED
      BY <2>2, <3>6, TypedBounded, PTL
  <2> QED
    BY <2>3, <2>4
<1> QED
  BY <1>2, <1>3, <1>4, <1>5, <1>6, <1>7, <1>8, <1>9, <1>10 DEF Next, Moves
----------------------------------------------------------------------------
(* Where the main process is.                                              *)

\* The parts of PhaseInv.
Fresh ==
  /\ phase \in {"find", "choose"} => tasks = <<>> /\ collected = 0
  /\ phase = "find" => n = 0 /\ found = <<>> /\ success /\ base = content /\ content = original
  /\ phase \in {"find", "choose", "pool", "raised"} => exit = -1

Present == phase \notin {"find", "exited", "killed"} => \A p \in Range(opts.paths) : p.kind # "missing"

Manned == n > 0 /\ (\E j \in 1 .. n : CHECKS[j] \in opts.enabled) => opts.jobs > 0

Called ==
  phase \in {"pool", "raised"} \/ tasks # <<>> =>
    /\ n < Len(CHECKS) /\ Check \in opts.enabled /\ opts.jobs > 0
    /\ [i \in DOMAIN tasks |-> tasks[i].file] = Those(found, Mine)

Counted ==
  /\ phase \in {"pool", "raised"} /\ tasks = <<>> => base = content
  /\ \A i \in 1 .. collected : tasks[i].pc = "done"
  /\ phase = "raised" => \E i \in DOMAIN tasks : tasks[i].pc = "failed"

LEMMA PhaseParts == PhaseInv <=> Fresh /\ Present /\ Manned /\ Called /\ Counted
BY DEF PhaseInv, Fresh, Present, Manned, Called, Counted, Mine

LEMMA PhaseInit == Init => PhaseInv
<1>1. Init => Fresh /\ Present /\ Manned /\ Counted
  BY DEF Init, Fresh, Present, Manned, Counted
<1>2. Init => Called
  BY DEF Init, Called
<1> QED
  BY <1>1, <1>2, PhaseParts

LEMMA SameCalls ==
  ASSUME UNCHANGED <<opts, n, found>>, DOMAIN tasks' = DOMAIN tasks,
         \A k \in DOMAIN tasks : tasks'[k].file = tasks[k].file,
         phase \in {"pool", "raised"} \/ tasks # <<>>, Called
  PROVE  Called'
<1>1. /\ n < Len(CHECKS) /\ Check \in opts.enabled /\ opts.jobs > 0
      /\ [i \in DOMAIN tasks |-> tasks[i].file] = Those(found, Mine)
  BY DEF Called
<1>2. Check' = Check /\ Mine' = Mine
  BY DEF Check, Mine
<1>3. [i \in DOMAIN tasks' |-> tasks'[i].file] = [i \in DOMAIN tasks |-> tasks[i].file]
  OBVIOUS
<1> QED
  BY <1>1, <1>2, <1>3 DEF Called

LEMMA PhaseStep ==
  ASSUME TypeOK, PhaseInv, TaskInv, [Next]_vars
  PROVE  PhaseInv'
<1>0. Fresh /\ Present /\ Manned /\ Called /\ Counted
  BY PhaseParts
<1> SUFFICES Fresh' /\ Present' /\ Manned' /\ Called' /\ Counted'
  BY PhaseParts, PTL
<1>a. ASSUME UNCHANGED <<opts, n, found, tasks>>, phase' \in {"pool", "raised"} => phase \in {"pool", "raised"}
      PROVE  Called'
  <2>1. Check' = Check /\ Mine' = Mine
    BY <1>a DEF Check, Mine
  <2> QED
    BY <1>0, <1>a, <2>1 DEF Called
<1>b. ASSUME UNCHANGED <<opts, n>> PROVE Manned'
  BY <1>0, <1>b DEF Manned
<1>1. CASE Find
  <2>1. Fresh' /\ Present' /\ Counted'
    BY <1>0, <1>1 DEF Find, Fresh, Present, Counted
  <2>2. tasks = <<>>
    BY <1>0, <1>1 DEF Find, Fresh
  <2>3. Called'
    BY <1>1, <2>2 DEF Find, Called
  <2> QED
    BY <1>1, <1>b, <2>1, <2>3 DEF Find
<1>2. CASE FindRaises \/ LeavePool \/ Return \/ Kill
  <2>1. UNCHANGED <<opts, content, found, n, tasks, collected, success, original, base>>
        /\ phase' \in {"exited", "killed"}
    BY <1>2 DEF FindRaises, LeavePool, Return, Kill, Exit
  <2>2. Fresh' /\ Present' /\ Counted'
    BY <1>0, <2>1 DEF Fresh, Present, Counted
  <2> QED
    BY <1>a, <1>b, <2>1, <2>2
<1>3. CASE Terminated \/ UNCHANGED vars
  <2>1. UNCHANGED vars
    BY <1>3 DEF Terminated
  <2>2. Fresh' /\ Present' /\ Counted'
    BY <1>0, <2>1 DEF vars, Fresh, Present, Counted
  <2> QED
    BY <1>a, <1>b, <2>1, <2>2 DEF vars
<1>4. CASE SkipCheck
  <2>1. /\ n' = n + 1 /\ base' = content /\ n < Len(CHECKS) /\ CHECKS[n + 1] \notin opts.enabled
        /\ phase = "choose"
        /\ UNCHANGED <<opts, content, phase, found, tasks, collected, success, exit, original>>
    BY <1>4 DEF SkipCheck, Choosing
  <2>2. tasks = <<>> /\ Fresh' /\ Present' /\ Counted'
    BY <1>0, <2>1 DEF Fresh, Present, Counted
  <2>3. Called'
    BY <2>1, <2>2 DEF Called
  <2>4. Manned'
    <3>1. SUFFICES ASSUME NEW j, j \in 1 .. n + 1, CHECKS[j] \in opts.enabled PROVE opts.jobs > 0
      BY <2>1 DEF Manned
    <3>2. j \in 1 .. n /\ n > 0
      BY <2>1, <3>1, CheckFacts
    <3> QED
      BY <1>0, <3>1, <3>2 DEF Manned
  <2> QED
    BY <2>2, <2>3, <2>4
<1>5. CASE StartCheck
  <2>1. /\ n < Len(CHECKS) /\ Check \in opts.enabled /\ phase = "choose" /\ base' = content
        /\ UNCHANGED <<opts, content, found, n, collected, success, original>>
        /\ IF opts.jobs <= 0 THEN phase' = "exited" /\ UNCHANGED tasks ELSE phase' = "pool" /\ UNCHANGED exit
    BY <1>5 DEF StartCheck, Choosing, Exit
  <2>2. tasks = <<>> /\ collected = 0 /\ exit = -1
    BY <1>0, <2>1 DEF Fresh
  <2>3. Fresh' /\ Present' /\ Counted'
    BY <1>0, <2>1, <2>2 DEF Fresh, Present, Counted
  <2>4. Called'
    <3>1. CASE opts.jobs <= 0
      BY <2>1, <2>2, <3>1 DEF Called
    <3>2. CASE ~(opts.jobs <= 0)
      <4>1. [i \in DOMAIN tasks' |-> tasks'[i].file] = Those(found, Mine)
        BY <1>5, <3>2, StartsFacts
      <4>2. Check' = Check /\ Mine' = Mine
        BY <2>1 DEF Check, Mine
      <4>3. opts.jobs > 0
        BY <3>2, OptsFacts
      <4> QED
        BY <2>1, <4>1, <4>2, <4>3 DEF Called
    <3> QED
      BY <3>1, <3>2
  <2> QED
    BY <1>b, <2>1, <2>3, <2>4
<1>6. CASE Collect
  <2>1. /\ phase = "pool" /\ collected' = collected + 1 /\ tasks[collected + 1].pc = "done"
        /\ UNCHANGED <<opts, content, phase, found, n, tasks, success, exit, original, base>>
    BY <1>6 DEF Collect
  <2>2. collected \in Int
    BY TasksFacts DEF TypeOK
  <2>3. \A i \in 1 .. collected' : tasks'[i].pc = "done"
    <3>1. \A i \in 1 .. collected' : i = collected + 1 \/ i \in 1 .. collected
      BY <2>1, <2>2
    <3> QED
      BY <1>0, <2>1, <3>1 DEF Counted
  <2>4. Fresh' /\ Present' /\ Counted'
    BY <1>0, <2>1, <2>3 DEF Fresh, Present, Counted
  <2> QED
    BY <1>a, <1>b, <2>1, <2>4
<1>7. CASE EndCheck
  <2>1. /\ phase = "pool" /\ n' = n + 1 /\ tasks' = <<>> /\ collected' = 0 /\ phase' = "choose"
        /\ UNCHANGED <<opts, content, found, exit, original, base>>
    BY <1>7 DEF EndCheck
  <2>2. Fresh' /\ Present' /\ Counted' /\ Called'
    BY <1>0, <2>1 DEF Fresh, Present, Counted, Called
  <2>3. Manned'
    BY <1>0, <2>1 DEF Called, Manned
  <2> QED
    BY <2>2, <2>3
<1>8. CASE CollectRaises
  <2>1. /\ phase = "pool" /\ phase' = "raised" /\ collected < Len(tasks) /\ tasks[collected + 1].pc = "failed"
        /\ UNCHANGED <<opts, content, found, n, collected, success, exit, original, base>>
    BY <1>8 DEF CollectRaises
  <2>2. /\ DOMAIN tasks' = DOMAIN tasks /\ DOMAIN tasks = 1 .. Len(tasks) /\ Len(tasks) \in Nat
        /\ tasks' \in Seq(Call) /\ Len(tasks') = Len(tasks)
        /\ \A k \in DOMAIN tasks : tasks[k].pc # "pending" => tasks'[k] = tasks[k]
        /\ \A k \in DOMAIN tasks : tasks'[k].file = tasks[k].file
    BY <1>8, RaisesFacts, TasksFacts
  <2>3. collected \in Nat /\ collected + 1 \in DOMAIN tasks
    <3>1. collected \in 0 .. Len(tasks)
      BY DEF TypeOK
    <3>2. collected \in Nat /\ collected + 1 \in 1 .. Len(tasks)
      BY <2>1, <2>2, <3>1
    <3> QED
      BY <2>2, <3>2
  <2>4. tasks # <<>> /\ tasks' # <<>>
    BY <2>2, <2>3
  <2>5. Called'
    BY <1>0, <2>1, <2>2, <2>4, SameCalls
  <2>6. Counted'
    <3>1. \A i \in 1 .. collected : i \in DOMAIN tasks /\ tasks[i].pc = "done"
      BY <1>0, <2>1, <2>2, <2>3 DEF Counted
    <3>2. \A i \in 1 .. collected' : tasks'[i].pc = "done"
      BY <2>1, <2>2, <3>1
    <3>3. tasks'[collected + 1].pc = "failed"
      BY <2>1, <2>2, <2>3
    <3> QED
      BY <2>1, <2>2, <2>3, <2>4, <3>2, <3>3 DEF Counted
  <2>7. Fresh' /\ Present'
    BY <1>0, <2>1 DEF Fresh, Present
  <2> QED
    BY <1>b, <2>1, <2>5, <2>6, <2>7
<1>9. ASSUME NEW i \in DOMAIN tasks, Moves(i) PROVE Fresh' /\ Present' /\ Manned' /\ Called' /\ Counted'
  <2>1. /\ UNCHANGED <<opts, found, n, collected, success, original, base, exit, phase>>
        /\ PoolUp /\ tasks' \in Seq(Call) /\ Len(tasks') = Len(tasks) /\ DOMAIN tasks' = DOMAIN tasks
        /\ \A k \in DOMAIN tasks : k # i => tasks'[k] = tasks[k]
        /\ \A k \in DOMAIN tasks : tasks'[k].file = tasks[k].file
        /\ tasks[i].pc \in {"pending", "started", "truncate", "flush", "format"}
    BY <1>9, MovesFacts DEF poolVars
  <2>2. tasks # <<>> /\ tasks' # <<>>
    BY <2>1, TasksFacts
  <2>3. phase \in {"pool", "raised"} /\ phase' = phase
    BY <2>1 DEF PoolUp
  <2>4. Fresh' /\ Present'
    BY <1>0, <2>1, <2>3 DEF Fresh, Present
  <2>5. Called'
    BY <1>0, <2>1, <2>3, SameCalls
  <2>6. Counted'
    <3>1. DOMAIN tasks = 1 .. Len(tasks) /\ Len(tasks) \in Nat /\ collected \in 0 .. Len(tasks)
      BY TasksFacts DEF TypeOK
    <3>2. \A k \in 1 .. collected : k \in DOMAIN tasks /\ k # i /\ tasks[k].pc = "done"
      BY <1>0, <2>1, <3>1 DEF Counted
    <3>3. \A k \in 1 .. collected' : tasks'[k].pc = "done"
      BY <2>1, <3>2
    <3>4. phase' = "raised" => \E k \in DOMAIN tasks' : tasks'[k].pc = "failed"
      BY <1>0, <2>1 DEF Counted
    <3> QED
      BY <2>2, <3>3, <3>4 DEF Counted
  <2> QED
    BY <1>b, <2>1, <2>4, <2>5, <2>6
<1> QED
  BY <1>1, <1>2, <1>3, <1>4, <1>5, <1>6, <1>7, <1>8, <1>9 DEF Next, Moves
----------------------------------------------------------------------------
(* What the calls do to their files.                                       *)

\* The parts of TaskInv: check mode, and what holds of a call on any file.
Plain == ~opts.fix => content = original /\ base = original

Sound(i) ==
  LET t == tasks[i]
  IN /\ t.pc \in {"truncate", "flush"} => opts.fix /\ Check # "formatting"
     /\ t.pc = "format" => opts.fix /\ Check = "formatting"
     /\ t.pc # "flush" => t.at = 0
     /\ t.at <= Len(t.text)
     /\ t.pc \in {"truncate", "flush", "done"} /\ Check # "formatting" => Readable(t.file)
     /\ t.pc = "failed" => Check # "formatting"
     /\ t.pc = "failed" /\ ~opts.fix =>
          ~Readable(t.file) \/ (Check \in Manual /\ ~Decodes(base[t.file]))
     /\ t.pc = "done" /\ ~opts.fix =>
          /\ Check \in Manual => Decodes(base[t.file])
          /\ t.ok <=> Readable(t.file) /\ Fixed(Check, base[t.file]) = base[t.file]

LEMMA TaskParts ==
  TaskInv <=> Plain /\ \A i \in DOMAIN tasks : Sound(i) /\ (Safe(tasks[i].file) => Writing(i))
BY DEF TaskInv, Plain, Sound

\* A call keeps what holds of it as long as its file does, and is not abandoned
\* by the call that is writing it.
LEMMA CallKept ==
  ASSUME UNCHANGED <<opts, n, found, original, base>>, NEW k, tasks'[k] = tasks[k],
         Sound(k), Safe(tasks[k].file) => Writing(k),
         content'[tasks[k].file] = content[tasks[k].file],
         tasks[k].file \in BeingWritten => tasks[k].file \in BeingWritten'
  PROVE  Sound(k)' /\ (Safe(tasks[k].file)' => Writing(k)')
<1>1. Check' = Check
  BY DEF Check
<1>2. Sound(k)'
  BY <1>1 DEF Sound
<1>3. Safe(tasks[k].file)' => Safe(tasks[k].file)
  BY DEF Safe
<1>4. Writing(k) => Writing(k)'
  BY <1>1 DEF Writing
<1> QED
  BY <1>2, <1>3, <1>4

\* The files of a check and what is left of them.
LEMMA FilesFacts ==
  ASSUME TypeOK, NEW f \in Files
  PROVE  /\ content[f] \in Seq(Line) /\ base[f] \in Seq(Line) /\ original[f] \in Seq(Line)
         /\ Len(content[f]) \in Nat /\ Len(base[f]) \in Nat /\ Len(original[f]) \in Nat
BY DEF TypeOK

\* What a call that is about to fix a file finds in it: the text as it was, the
\* text as it should be, or the empty file another call is about to fill.
LEMMA ReadFacts ==
  ASSUME TypeOK, PhaseInv, TaskInv, TextKept, NEW i \in DOMAIN tasks, Read(i), opts.fix, Safe(tasks[i].file)
  PROVE  LET f == tasks[i].file
             fixed == Fixed(Check, base[f])
         IN /\ Fixed(Check, content[f]) = content[f] => f \in BeingWritten \/ content[f] = fixed
            /\ Fixed(Check, content[f]) # content[f] => Fixed(Check, content[f]) = fixed
            /\ Check \in Manual => Decodes(fixed)
<1> DEFINE f == tasks[i].file
           fixed == Fixed(Check, base[f])
<1>1. /\ tasks # <<>> /\ Check \in Range(CHECKS) /\ f \in Files
      /\ tasks[i].pc = "started" /\ (Check \in Manual => Decodes(content[f]))
  BY TasksFacts, TasksNamed, OptsFacts DEF Read
<1>2. content[f] \in Seq(Line) /\ base[f] \in Seq(Line)
  BY <1>1, FilesFacts
<1>3. Fixed(Check, fixed) = fixed /\ (Decodes(base[f]) => Decodes(fixed))
  BY <1>1, <1>2, FixedTwice, DecodesFixed
<1>4. CASE f \notin BeingWritten
  <2>1. content[f] = base[f] \/ content[f] = fixed
    BY <1>1, <1>4 DEF TextKept, Latest, Check
  <2> QED
    BY <1>1, <1>3, <2>1
<1>5. CASE f \in BeingWritten
  <2>1. PICK k \in DOMAIN tasks : tasks[k].pc = "flush" /\ tasks[k].file = f
    BY <1>5 DEF BeingWritten
  <2>2. k # i
    BY <1>1, <2>1
  <2>3. Writing(k)
    BY <2>1, TaskParts
  <2>4. Len(original[f]) <= BufferLines
    BY <2>1, <2>2, OneCall
  <2>5. content[f] \in {<<>>, fixed}
    BY <2>1, <2>3, <2>4 DEF Writing
  <2>6. Check \in Manual => Decodes(fixed)
    BY <2>1, <2>3 DEF Writing
  <2>7. Fixed(Check, content[f]) = content[f]
    BY <1>1, <1>3, <2>5, FixedEmpty
  <2> QED
    BY <1>5, <2>6, <2>7
<1> QED
  BY <1>4, <1>5

\* What a writer leaves of a file that is safe: all of it if the file is short, else
\* the first lines of it.
LEMMA FlushFacts ==
  ASSUME TypeOK, PhaseInv, TaskInv, BaseInv, NEW i \in DOMAIN tasks, Flush(i), Safe(tasks[i].file)
  PROVE  LET f == tasks[i].file
             fixed == Fixed(Check, base[f])
         IN /\ tasks[i].pc = "flush" /\ tasks[i].text = fixed /\ Piece(i) \in Nat /\ Piece(i) <= Len(fixed)
            /\ Len(original[f]) <= BufferLines => Piece(i) = Len(fixed)
            /\ Piece(i) = Len(fixed) => content'[f] = fixed
            /\ Len(content'[f]) = Piece(i) /\ \A k \in 1 .. Piece(i) - 1 : content'[f][k] = fixed[k]
<1> DEFINE f == tasks[i].file
           fixed == Fixed(Check, base[f])
           old == content[f]
           to == Piece(i)
           o == Overwrite(old, tasks[i].at, fixed, to)
<1>1. /\ tasks # <<>> /\ Check \in Range(CHECKS) /\ f \in Files /\ tasks[i].pc = "flush"
      /\ content' = [content EXCEPT ![f] = Overwrite(old, tasks[i].at, tasks[i].text, to)]
  BY TasksFacts, TasksNamed, OptsFacts DEF Flush, Piece
<1>2. /\ old \in Seq(Line) /\ base[f] \in Seq(Line) /\ tasks[i].at \in Nat
      /\ Len(original[f]) \in Nat /\ Len(base[f]) \in Nat /\ BufferLines \in Nat /\ BufferLines > 0
      /\ content \in [Files -> Seq(Line)]
  BY <1>1, FilesFacts, CallFields, OptsFacts DEF TypeOK
<1>3. fixed \in Seq(Line) /\ Len(fixed) <= Len(base[f]) /\ Len(fixed) \in Nat
  BY <1>1, <1>2, FixedFacts
<1>4. Sound(i) /\ Writing(i)
  BY TaskParts
<1>5. tasks[i].text = fixed /\ tasks[i].at <= Len(tasks[i].text)
  BY <1>1, <1>4 DEF Sound, Writing
<1>6. /\ to \in Nat /\ tasks[i].at <= to /\ to <= Len(fixed)
      /\ to = Len(fixed) \/ to = tasks[i].at + BufferLines
  BY <1>5, PieceFacts
<1>7. content'[f] = o
  BY <1>1, <1>2, <1>5
<1>8. Len(base[f]) <= Len(original[f])
  BY <1>1 DEF BaseInv
<1>o. /\ tasks[i].at = 0 /\ to = Len(fixed) /\ old \in {<<>>, fixed} => o = fixed
      /\ Len(old) = tasks[i].at /\ (\A k \in 1 .. tasks[i].at - 1 : old[k] = fixed[k])
           => /\ Len(o) = to /\ \A k \in 1 .. to - 1 : o[k] = fixed[k]
              /\ to = Len(fixed) => o = fixed
  <2> DEFINE at == tasks[i].at
  <2>1. old \in Seq(Line) /\ fixed \in Seq(Line) /\ at \in Nat /\ to \in Nat /\ at <= to /\ to <= Len(fixed)
    BY <1>2, <1>3, <1>6
  <2>2. o = Overwrite(old, at, fixed, to)
    OBVIOUS
  <2> HIDE DEF old, fixed, at, to, o
  <2>3. /\ at = 0 /\ to = Len(fixed) /\ old \in {<<>>, fixed} => o = fixed
        /\ Len(old) = at /\ (\A k \in 1 .. at - 1 : old[k] = fixed[k])
             => /\ Len(o) = to /\ \A k \in 1 .. to - 1 : o[k] = fixed[k]
                /\ to = Len(fixed) => o = fixed
    <3>1. LET q == Overwrite(old, at, fixed, to)
          IN /\ q \in Seq(Line)
             /\ at = 0 /\ to = Len(fixed) /\ old \in {<<>>, fixed} => q = fixed
             /\ Len(old) = at /\ (\A k \in 1 .. at - 1 : old[k] = fixed[k])
                  => /\ Len(q) = to /\ \A k \in 1 .. to - 1 : q[k] = fixed[k]
                     /\ to = Len(fixed) => q = fixed
      BY <2>1, OverwriteFacts, Zenon
    <3> QED
      BY <2>2, <3>1, Zenon
  <2> QED
    BY <2>3 DEF at
<1>9. CASE Len(original[f]) <= BufferLines
  <2>1. tasks[i].at = 0 /\ old \in {<<>>, fixed}
    BY <1>1, <1>4, <1>9 DEF Writing
  <2>2. to = Len(fixed)
    BY <1>2, <1>3, <1>6, <1>8, <1>9, <2>1
  <2>3. content'[f] = fixed
    BY <1>7, <1>o, <2>1, <2>2
  <2> QED
    BY <1>1, <1>3, <1>5, <2>2, <2>3
<1>10. CASE ~(Len(original[f]) <= BufferLines)
  <2>1. Len(old) = tasks[i].at /\ \A k \in 1 .. tasks[i].at - 1 : old[k] = fixed[k]
    BY <1>1, <1>4, <1>10 DEF Writing
  <2>2. /\ Len(content'[f]) = to /\ \A k \in 1 .. to - 1 : content'[f][k] = fixed[k]
        /\ to = Len(fixed) => content'[f] = fixed
    BY <1>7, <1>o, <2>1
  <2> QED
    BY <1>1, <1>5, <1>6, <1>10, <2>2
<1> QED
  BY <1>9, <1>10
\* A file stays with its writer until that writer is done.
LEMMA StillWritten ==
  ASSUME NEW i \in DOMAIN tasks, DOMAIN tasks' = DOMAIN tasks,
         \A k \in DOMAIN tasks : k # i => tasks'[k] = tasks[k],
         \A k \in DOMAIN tasks : tasks'[k].file = tasks[k].file,
         NEW g \in BeingWritten,
         tasks[i].pc = "flush" /\ tasks[i].file = g => tasks'[i].pc = "flush"
  PROVE  g \in BeingWritten'
<1>1. PICK k \in DOMAIN tasks : tasks[k].pc = "flush" /\ tasks[k].file = g
  BY DEF BeingWritten
<1>2. k \in DOMAIN tasks' /\ tasks'[k].pc = "flush" /\ tasks'[k].file = g
  BY <1>1
<1> QED
  BY <1>2 DEF BeingWritten

\* The call whose process has made a step.
LEMMA MoverKept ==
  ASSUME TypeOK, PhaseInv, TaskInv, TextKept, BaseInv, NEW i \in DOMAIN tasks, Moves(i)
  PROVE  Sound(i)' /\ (Safe(tasks[i].file)' => Writing(i)')
<1> DEFINE f == tasks[i].file
           fixed == Fixed(Check, base[f])
           t == tasks[i]
           u == tasks'[i]
<1>1. /\ tasks # <<>> /\ Check \in Range(CHECKS) /\ f \in Files
      /\ Sound(i) /\ (Safe(f) => Writing(i)) /\ Plain
  BY TasksFacts, TasksNamed, OptsFacts, TaskParts
<1>2. /\ UNCHANGED <<opts, found, n, collected, success, original, base, exit, phase>>
      /\ DOMAIN tasks' = DOMAIN tasks /\ u.file = f
      /\ \A k \in DOMAIN tasks : k # i => tasks'[k] = tasks[k]
      /\ \A k \in DOMAIN tasks : tasks'[k].file = tasks[k].file
      /\ content' \in [Files -> Seq(Line)] /\ content \in [Files -> Seq(Line)]
      /\ t.ok \in BOOLEAN /\ t.text \in Seq(Line) /\ t.at \in Nat
      /\ Len(t.text) \in Nat
  <2>1. /\ UNCHANGED poolVars /\ DOMAIN tasks' = DOMAIN tasks
        /\ \A k \in DOMAIN tasks : k # i => tasks'[k] = tasks[k]
        /\ \A k \in DOMAIN tasks : tasks'[k].file = tasks[k].file
        /\ content' \in [Files -> Seq(Line)]
    BY MovesFacts, Zenon
  <2>2. t.ok \in BOOLEAN /\ t.text \in Seq(Line) /\ t.at \in Nat /\ Len(t.text) \in Nat
    BY CallFields
  <2>3. content \in [Files -> Seq(Line)]
    BY DEF TypeOK
  <2> QED
    BY <2>1, <2>2, <2>3 DEF poolVars
<1>3. Check' = Check /\ (Safe(f)' => Safe(f))
  BY <1>2 DEF Check, Safe
<1>4. content[f] \in Seq(Line) /\ base[f] \in Seq(Line)
  BY <1>1, FilesFacts
<1>5. Fixed(Check, content[f]) \in Seq(Line) /\ <<>> \in Seq(Line) /\ Len(<<>>) = 0
  BY <1>1, <1>4, FixedFacts
<1>6. SUFFICES
        /\ u.pc \in {"truncate", "flush"} => opts.fix /\ Check # "formatting"
        /\ u.pc = "format" => opts.fix /\ Check = "formatting"
        /\ u.pc # "flush" => u.at = 0
        /\ u.at <= Len(u.text)
        /\ u.pc \in {"truncate", "flush", "done"} /\ Check # "formatting" => Readable(f)
        /\ u.pc = "failed" => Check # "formatting"
        /\ u.pc = "failed" /\ ~opts.fix => ~Readable(f) \/ (Check \in Manual /\ ~Decodes(base[f]))
        /\ u.pc = "done" /\ ~opts.fix =>
             /\ Check \in Manual => Decodes(base[f])
             /\ u.ok <=> Readable(f) /\ Fixed(Check, base[f]) = base[f]
        /\ Safe(f) =>
             /\ u.pc \in {"truncate", "flush"} => u.text = fixed
             /\ u.pc = "flush" =>
                  IF Len(original[f]) <= BufferLines THEN u.at = 0 /\ content'[f] \in {<<>>, fixed}
                  ELSE Len(content'[f]) = u.at /\ \A k \in 1 .. u.at - 1 : content'[f][k] = fixed[k]
             /\ u.pc = "done" /\ opts.fix /\ Check # "formatting" =>
                  f \in BeingWritten' \/ content'[f] = fixed
             /\ u.pc \in {"truncate", "flush", "done"} /\ opts.fix /\ Check \in Manual => Decodes(fixed)
  BY <1>2, <1>3 DEF Sound, Writing
<1>7. CASE Start(i)
  <2>1. u.pc = "started" /\ u.text = t.text /\ u.at = t.at
    BY <1>2, <1>7, Effects, ToFacts
  <2>2. t.at = 0
    BY <1>1, <1>7 DEF Start, Sound
  <2> QED
    BY <1>2, <2>1, <2>2
<1>8. CASE Read(i)
  <2> DEFINE new == Fixed(Check, content[f])
             ok == Readable(f) /\ new = content[f]
             pc == IF ok \/ ~opts.fix THEN "done" ELSE IF Check = "formatting" THEN "format" ELSE "truncate"
             text == IF ok \/ ~opts.fix THEN <<>> ELSE new
  <2>1. /\ t.pc = "started" /\ (Check \in Manual => Decodes(content[f])) /\ content' = content
        /\ Check # "formatting" => Readable(f)
    BY <1>8 DEF Read
  <2>2. t.at = 0
    BY <1>1, <2>1 DEF Sound
  <2>3. To(i, pc, ok, text, t.at)
    BY <1>8, Effects
  <2>4. ok \in BOOLEAN /\ text \in Seq(Line) /\ pc \in {"done", "format", "truncate"}
    BY <1>5
  <2>5. Len(text) \in Nat
    BY <2>4
  <2> HIDE DEF ok, pc, text
  <2>6. u.pc = pc /\ u.ok = ok /\ u.text = text /\ u.at = 0
    <3>1. pc \in {"pending", "started", "truncate", "flush", "format", "done", "failed", "cancelled"}
      BY <2>4
    <3> QED
      BY <1>2, <2>2, <2>3, <2>4, <3>1, ToFacts
  <2>7. CASE ~opts.fix
    <3>1. pc = "done" /\ content[f] = base[f]
      BY <1>1, <2>7 DEF pc, Plain
    <3>2. /\ Check \in Manual => Decodes(base[f])
          /\ u.ok <=> Readable(f) /\ Fixed(Check, base[f]) = base[f]
      BY <2>1, <2>6, <3>1 DEF ok
    <3> QED
      BY <2>1, <2>5, <2>6, <2>7, <3>1, <3>2
  <2>8. CASE opts.fix /\ ok
    <3>1. pc = "done"
      BY <2>8 DEF pc
    <3>2. Safe(f) => (f \in BeingWritten \/ content[f] = fixed) /\ (Check \in Manual => Decodes(fixed))
      BY <1>8, <2>8, ReadFacts DEF ok
    <3>3. f \in BeingWritten => f \in BeingWritten'
      BY <1>2, <2>1, StillWritten
    <3> QED
      BY <2>1, <2>5, <2>6, <2>8, <3>1, <3>2, <3>3
  <2>9. CASE opts.fix /\ ~ok
    <3>1. pc = IF Check = "formatting" THEN "format" ELSE "truncate"
      BY <2>9 DEF pc
    <3>2. text = new
      BY <2>9 DEF text
    <3>3. Check # "formatting" => (Safe(f) => new = fixed /\ (Check \in Manual => Decodes(fixed)))
      BY <1>8, <2>1, <2>9, ReadFacts DEF ok
    <3> QED
      BY <2>1, <2>5, <2>6, <2>9, <3>1, <3>2, <3>3
  <2> QED
    BY <2>7, <2>8, <2>9, OptsFacts
<1>9. CASE ReadRaises(i)
  <2>1. /\ t.pc = "started" /\ Check # "formatting"
        /\ ~Readable(f) \/ (Check \in Manual /\ ~Decodes(content[f]))
    BY <1>9, NineChecks DEF ReadRaises
  <2>2. u.pc = "failed" /\ u.text = t.text /\ u.at = t.at
    BY <1>2, <1>9, Effects, ToFacts
  <2>3. t.at = 0
    BY <1>1, <2>1 DEF Sound
  <2>4. ~opts.fix => content[f] = base[f]
    BY <1>1 DEF Plain
  <2> QED
    BY <1>2, <2>1, <2>2, <2>3, <2>4
<1>10. CASE Truncate(i)
  <2>1. t.pc = "truncate" /\ content'[f] = <<>>
    BY <1>1, <1>2, <1>10 DEF Truncate
  <2>2. u.pc = "flush" /\ u.text = t.text /\ u.at = t.at
    BY <1>2, <1>10, Effects, ToFacts
  <2>3. t.at = 0 /\ opts.fix /\ Check # "formatting"
    BY <1>1, <2>1 DEF Sound
  <2>4. /\ Safe(f) => t.text = fixed /\ (Check \in Manual => Decodes(fixed))
        /\ Readable(f)
    BY <1>1, <2>1, <2>3 DEF Sound, Writing
  <2> QED
    BY <1>2, <1>5, <2>1, <2>2, <2>3, <2>4
<1>13. CASE TruncateRaises(i)
  <2>1. t.pc = "truncate"
    BY <1>13 DEF TruncateRaises
  <2>2. u.pc = "failed" /\ u.text = t.text /\ u.at = t.at
    BY <1>2, <1>13, Effects, ToFacts
  <2>3. t.at = 0 /\ opts.fix /\ Check # "formatting"
    BY <1>1, <2>1 DEF Sound
  <2> QED
    BY <1>2, <2>2, <2>3
<1>11. CASE Flush(i)
  <2>1. t.pc = "flush"
    BY <1>11 DEF Flush
  <2>2. opts.fix /\ Check # "formatting" /\ t.at <= Len(t.text) /\ Readable(f)
    BY <1>1, <2>1 DEF Sound
  <2>3. Safe(f) /\ Check \in Manual => Decodes(fixed)
    BY <1>1, <2>1, <2>2 DEF Writing
  <2>4. /\ Safe(f) =>
             /\ t.text = fixed
             /\ Len(original[f]) <= BufferLines => Piece(i) = Len(fixed)
             /\ Piece(i) = Len(fixed) => content'[f] = fixed
             /\ Len(content'[f]) = Piece(i) /\ \A k \in 1 .. Piece(i) - 1 : content'[f][k] = fixed[k]
    BY <1>11, FlushFacts
  <2>5. Piece(i) \in Nat /\ Piece(i) <= Len(t.text)
    BY <2>2, PieceFacts
  <2>6. CASE Piece(i) = Len(t.text)
    <3>1. To(i, "done", t.ok, <<>>, 0)
      BY <1>11, <2>6, Effects
    <3>2. u.pc = "done" /\ u.text = <<>> /\ u.at = 0
      BY <3>1, ToPc
    <3> QED
      BY <1>5, <2>2, <2>3, <2>4, <2>6, <3>2
  <2>7. CASE Piece(i) # Len(t.text)
    <3>1. To(i, "flush", t.ok, t.text, Piece(i))
      BY <1>11, <2>1, <2>7, Effects
    <3>2. u.pc = "flush" /\ u.text = t.text /\ u.at = Piece(i)
      BY <1>2, <2>5, <3>1, ToFacts
    <3> QED
      BY <2>2, <2>3, <2>4, <2>5, <2>7, <3>2
  <2> QED
    BY <2>6, <2>7
<1>12. CASE Format(i)
  <2>1. t.pc = "format"
    BY <1>12 DEF Format
  <2>2. opts.fix /\ Check = "formatting" /\ t.at = 0
    BY <1>1, <2>1 DEF Sound
  <2>5. To(i, "done", t.ok, <<>>, t.at)
    BY <1>12, Effects
  <2>3. u.pc = "done" /\ u.text = <<>> /\ u.at = t.at
    BY <1>2, <2>5, ToPc
  <2>4. Check \notin Manual
    BY <2>2, NineChecks
  <2> QED
    BY <1>5, <2>2, <2>3, <2>4
<1> QED
  BY <1>7, <1>8, <1>9, <1>10, <1>11, <1>12, <1>13 DEF Moves
LEMMA SoundKept ==
  ASSUME UNCHANGED <<opts, n, base>>, NEW k, tasks'[k] = tasks[k], Sound(k)
  PROVE  Sound(k)'
<1>1. Check' = Check
  BY DEF Check
<1> QED
  BY <1>1 DEF Sound

\* The other calls, also those on the file of the one that has made a step.
LEMMA OthersKept ==
  ASSUME TypeOK, PhaseInv, TaskInv, TextKept, BaseInv, NEW i \in DOMAIN tasks, Moves(i),
         NEW k \in DOMAIN tasks, k # i
  PROVE  Sound(k)' /\ (Safe(tasks[k].file)' => Writing(k)')
<1> DEFINE f == tasks[k].file
           fixed == Fixed(Check, base[f])
<1>1. /\ UNCHANGED poolVars /\ DOMAIN tasks' = DOMAIN tasks
      /\ \A m \in DOMAIN tasks : m # i => tasks'[m] = tasks[m]
      /\ \A m \in DOMAIN tasks : tasks'[m].file = tasks[m].file
      /\ \A g \in Files : g # tasks[i].file => content'[g] = content[g]
  BY MovesFacts, Zenon
<1>2. UNCHANGED <<opts, n, found, original, base>> /\ tasks'[k] = tasks[k]
  BY <1>1 DEF poolVars
<1>3. Sound(k) /\ (Safe(f) => Writing(k)) /\ Sound(i) /\ f \in Files /\ content \in [Files -> Seq(Line)]
  BY TaskParts, TasksFacts DEF TypeOK
<1>4. Sound(k)'
  BY <1>2, <1>3, SoundKept
<1>5. (f \in BeingWritten => f \in BeingWritten') /\ content'[f] = content[f]
        => (Safe(f)' => Writing(k)')
  BY <1>2, <1>3, CallKept
<1>6. CASE f # tasks[i].file
  <2>1. f \in BeingWritten => f \in BeingWritten'
    BY <1>1, <1>6, StillWritten
  <2> QED
    BY <1>1, <1>3, <1>4, <1>5, <1>6, <2>1
<1>7. CASE f = tasks[i].file /\ Safe(f)
  <2>1. Len(original[f]) <= BufferLines
    BY <1>7, OneCall
  <2>2. Check' = Check /\ Writing(k)
    BY <1>2, <1>3, <1>7 DEF Check
  <2>3. ASSUME content'[f] \in {<<>>, fixed}, f \in BeingWritten' \/ content'[f] = fixed
        PROVE  Writing(k)'
    BY <1>2, <2>1, <2>2, <2>3 DEF Writing
  <2>4. CASE Start(i) \/ Read(i) \/ ReadRaises(i) \/ TruncateRaises(i)
    <3>1. content' = content /\ tasks[i].pc \in {"pending", "started", "truncate"}
      BY <2>4 DEF Start, Read, ReadRaises, TruncateRaises
    <3>2. f \in BeingWritten => f \in BeingWritten'
      BY <1>1, <3>1, StillWritten
    <3> QED
      BY <1>4, <1>5, <3>1, <3>2
  <2>5. CASE Truncate(i)
    <3>1. content'[f] = <<>>
      BY <1>3, <1>7, <2>5 DEF Truncate
    <3>2. To(i, "flush", tasks[i].ok, tasks[i].text, tasks[i].at)
      BY <2>5, Effects
    <3>3. tasks'[i].pc = "flush"
      BY <1>3, <3>2, CallFields, ToPc
    <3>4. f \in BeingWritten'
      BY <1>1, <1>7, <3>3 DEF BeingWritten
    <3> QED
      BY <1>4, <2>3, <3>1, <3>4
  <2>6. CASE Flush(i)
    <3>1. content'[f] = fixed
      BY <1>7, <2>1, <2>6, FlushFacts
    <3> QED
      BY <1>4, <2>3, <3>1
  <2>7. CASE Format(i)
    <3>1. Check = "formatting"
      BY <1>3, <2>7 DEF Format, Sound
    <3>2. tasks[k].pc \notin {"truncate", "flush"} /\ Check \notin Manual
      BY <1>3, <3>1, NineChecks DEF Sound
    <3>3. Writing(k)'
      BY <1>2, <2>2, <3>1, <3>2 DEF Writing
    <3> QED
      BY <1>4, <3>3
  <2> QED
    BY <2>4, <2>5, <2>6, <2>7 DEF Moves
<1>8. CASE ~Safe(f)
  <2>1. ~Safe(f)'
    BY <1>2, <1>8 DEF Safe
  <2> QED
    BY <1>4, <2>1
<1> QED
  BY <1>6, <1>7, <1>8

LEMMA TaskInit == Init => TaskInv
<1> SUFFICES ASSUME Init PROVE Plain /\ \A i \in DOMAIN tasks : Sound(i) /\ (Safe(tasks[i].file) => Writing(i))
  BY TaskParts
<1>1. Plain
  BY DEF Init, Plain
<1>2. DOMAIN tasks = {}
  BY DEF Init
<1> QED
  BY <1>1, <1>2

\* The steps of the main process that leave the calls and the files alone.
Quiet == UNCHANGED <<opts, content, found, n, tasks, original, base>>

LEMMA QuietKept ==
  ASSUME TaskInv, Quiet
  PROVE  TaskInv'
<1>1. Plain /\ \A i \in DOMAIN tasks : Sound(i) /\ (Safe(tasks[i].file) => Writing(i))
  BY TaskParts
<1>2. Plain'
  BY <1>1 DEF Plain, Quiet
<1>3. BeingWritten' = BeingWritten
  BY DEF BeingWritten, Quiet
<1>4. ASSUME NEW i \in DOMAIN tasks PROVE Sound(i)' /\ (Safe(tasks[i].file)' => Writing(i)')
  <2>1. /\ UNCHANGED <<opts, n, found, original, base>> /\ tasks'[i] = tasks[i]
        /\ content'[tasks[i].file] = content[tasks[i].file]
    BY DEF Quiet
  <2>2. Sound(i) /\ (Safe(tasks[i].file) => Writing(i))
    BY <1>1, <1>4
  <2> QED
    BY <1>3, <2>1, <2>2, CallKept
<1>5. (Plain /\ \A i \in DOMAIN tasks : Sound(i) /\ (Safe(tasks[i].file) => Writing(i)))'
  BY <1>2, <1>4 DEF Quiet
<1> QED
  BY <1>5, TaskParts, PTL

LEMMA TaskStep ==
  ASSUME TypeOK, PhaseInv, TaskInv, TextKept, BaseInv, [Next]_vars
  PROVE  TaskInv'
<1>0. /\ Plain /\ \A i \in DOMAIN tasks : Sound(i) /\ (Safe(tasks[i].file) => Writing(i))
      /\ Fresh
  BY TaskParts, PhaseParts
<1>a. ASSUME Plain', \A i \in DOMAIN tasks' : Sound(i)' /\ (Safe(tasks[i].file)' => Writing(i)')
      PROVE  TaskInv'
  <2>1. (Plain /\ \A i \in DOMAIN tasks : Sound(i) /\ (Safe(tasks[i].file) => Writing(i)))'
    BY <1>a
  <2> QED
    BY <2>1, TaskParts, PTL
<1>1. CASE Find \/ FindRaises \/ Collect \/ LeavePool \/ Return \/ Kill \/ Terminated \/ UNCHANGED vars
  <2>1. CASE Find
    <3>1. tasks' = <<>> /\ Plain'
      BY <1>0, <2>1 DEF Find, Fresh, Plain
    <3> QED
      BY <1>a, <3>1
  <2>2. CASE ~Find
    <3>1. Quiet
      BY <1>1, <2>2 DEF FindRaises, Collect, LeavePool, Return, Kill, Terminated, vars, Quiet
    <3> QED
      BY <3>1, QuietKept
  <2> QED
    BY <2>1, <2>2
<1>2. CASE SkipCheck \/ EndCheck
  <2>1. tasks' = <<>>
    BY <1>0, <1>2 DEF SkipCheck, EndCheck, Choosing, Fresh
  <2>2. Plain'
    BY <1>0, <1>2 DEF SkipCheck, EndCheck, Plain
  <2> QED
    BY <1>a, <2>1, <2>2
<1>3. CASE StartCheck
  <2>1. Plain' /\ tasks = <<>>
    BY <1>0, <1>3 DEF StartCheck, Choosing, Plain, Fresh
  <2>2. \A k \in DOMAIN tasks' : tasks'[k].pc = "pending" /\ tasks'[k].at = 0 /\ tasks'[k].text = <<>>
    <3>1. CASE opts.jobs <= 0
      BY <1>3, <2>1, <3>1 DEF StartCheck
    <3>2. CASE ~(opts.jobs <= 0)
      BY <1>3, <3>2, StartsFacts
    <3> QED
      BY <3>1, <3>2
  <2>3. ASSUME NEW k \in DOMAIN tasks' PROVE Sound(k)' /\ Writing(k)'
    <3>1. tasks'[k].pc = "pending" /\ tasks'[k].at = 0 /\ Len(tasks'[k].text) = 0
      BY <2>2, <2>3
    <3>2. Sound(k)'
      BY <3>1 DEF Sound
    <3>3. Writing(k)'
      BY <3>1 DEF Writing
    <3> QED
      BY <3>2, <3>3
  <2> QED
    BY <1>a, <2>1, <2>3
<1>4. CASE CollectRaises
  <2>1. UNCHANGED <<opts, content, found, n, original, base>> /\ Plain'
    BY <1>0, <1>4 DEF CollectRaises, Plain
  <2>2. /\ DOMAIN tasks' = DOMAIN tasks
        /\ \A k \in DOMAIN tasks :
             \/ tasks'[k] = tasks[k]
             \/ /\ tasks[k].pc = "pending" /\ tasks'[k].pc = "cancelled"
                /\ tasks'[k].file = tasks[k].file /\ tasks'[k].ok = tasks[k].ok
                /\ tasks'[k].text = tasks[k].text /\ tasks'[k].at = tasks[k].at
    BY <1>4, RaisesFacts, Zenon
  <2>3. ASSUME NEW f \in BeingWritten PROVE f \in BeingWritten'
    <3>1. PICK k \in DOMAIN tasks : tasks[k].pc = "flush" /\ tasks[k].file = f
      BY <2>3 DEF BeingWritten
    <3>2. tasks'[k] = tasks[k]
      BY <2>2, <3>1
    <3> QED
      BY <2>2, <3>1, <3>2 DEF BeingWritten
  <2>4. ASSUME NEW k \in DOMAIN tasks PROVE Sound(k)' /\ (Safe(tasks[k].file)' => Writing(k)')
    <3>1. CASE tasks'[k] = tasks[k]
      BY <1>0, <2>1, <2>3, <3>1, CallKept
    <3>2. CASE /\ tasks[k].pc = "pending" /\ tasks'[k].pc = "cancelled"
               /\ tasks'[k].file = tasks[k].file /\ tasks'[k].ok = tasks[k].ok
               /\ tasks'[k].text = tasks[k].text /\ tasks'[k].at = tasks[k].at
      <4>1. tasks[k].at = 0 /\ tasks[k].at <= Len(tasks[k].text)
        BY <1>0, <3>2 DEF Sound
      <4>2. Sound(k)'
        BY <3>2, <4>1 DEF Sound
      <4>3. Writing(k)'
        BY <3>2 DEF Writing
      <4> QED
        BY <4>2, <4>3
    <3> QED
      BY <2>2, <3>1, <3>2
  <2>5. \A k \in DOMAIN tasks' : tasks'[k].file = tasks[k].file
    BY <2>2
  <2> QED
    BY <1>a, <2>1, <2>2, <2>4, <2>5
<1>5. ASSUME NEW i \in DOMAIN tasks, Moves(i) PROVE TaskInv'
  <2>1. /\ UNCHANGED poolVars /\ DOMAIN tasks' = DOMAIN tasks
        /\ ~opts.fix => content' = content
    BY <1>5, MovesFacts, Zenon
  <2>2. Plain'
    BY <1>0, <2>1 DEF Plain, poolVars
  <2>3. ASSUME NEW k \in DOMAIN tasks PROVE Sound(k)' /\ (Safe(tasks[k].file)' => Writing(k)')
    BY <1>5, <2>3, MoverKept, OthersKept
  <2> QED
    BY <1>a, <2>1, <2>2, <2>3
<1> QED
  BY <1>1, <1>2, <1>3, <1>4, <1>5 DEF Next, Moves
----------------------------------------------------------------------------
(* What the files hold.                                                    *)

LEMMA TextInit == Init => TextKept /\ BaseInv
<1> SUFFICES ASSUME Init PROVE TextKept /\ BaseInv
  OBVIOUS
<1>1. TypeOK /\ content = original /\ base = content
  BY TypeInit DEF Init
<1>2. TextKept
  BY <1>1 DEF TextKept
<1>3. ASSUME NEW f \in Files PROVE Len(base[f]) <= Len(original[f]) /\ Protected(base[f]) = Protected(original[f])
  <2>1. Len(original[f]) \in Nat /\ base[f] = original[f]
    BY <1>1, <1>3, FilesFacts
  <2> QED
    BY <2>1
<1>4. BaseInv
  BY <1>3 DEF BaseInv
<1> QED
  BY <1>2, <1>4

\* While a check is at work, it is the latest one.
LEMMA LatestAtWork ==
  ASSUME TypeOK, tasks # <<>>
  PROVE  Latest = Check
BY DEF Latest, Check

\* The text of a file after the step of a process on it.
LEMMA TextMoved ==
  ASSUME TypeOK, PhaseInv, TaskInv, TextKept, BaseInv, NEW i \in DOMAIN tasks, Moves(i),
         NEW f \in Files, f \notin BeingWritten', Safe(f)
  PROVE  \/ content'[f] = base[f]
         \/ opts.fix /\ Check \in opts.enabled /\ content'[f] = Fixed(Check, base[f])
<1> DEFINE fixed == Fixed(Check, base[f])
<1>1. /\ DOMAIN tasks' = DOMAIN tasks
      /\ \A k \in DOMAIN tasks : k # i => tasks'[k] = tasks[k]
      /\ \A k \in DOMAIN tasks : tasks'[k].file = tasks[k].file
      /\ \A g \in Files : g # tasks[i].file => content'[g] = content[g]
  BY MovesFacts, Zenon
<1>2. tasks # <<>> /\ Check \in opts.enabled /\ Check \in Range(CHECKS) /\ Sound(i)
  BY TasksFacts, TasksNamed, OptsFacts, TaskParts
<1>3. f \notin BeingWritten
        => content[f] = base[f] \/ (opts.fix /\ Check \in opts.enabled /\ content[f] = fixed)
  <2>1. Latest = Check
    BY <1>2, LatestAtWork
  <2> QED
    BY <2>1 DEF TextKept
<1>4. tasks[i].pc = "flush" /\ tasks[i].file = f => tasks'[i].pc = "flush" \/ f \in BeingWritten
  BY DEF BeingWritten
<1>5. CASE ~(tasks[i].pc = "flush" /\ tasks[i].file = f) /\ content'[f] = content[f]
  <2>1. f \notin BeingWritten
    BY <1>1, <1>5, StillWritten
  <2> QED
    BY <1>3, <1>5, <2>1
<1>6. CASE tasks[i].file # f
  BY <1>1, <1>5, <1>6
<1>7. CASE tasks[i].file = f /\ (Start(i) \/ Read(i) \/ ReadRaises(i) \/ TruncateRaises(i))
  <2>1. content' = content /\ tasks[i].pc # "flush"
    BY <1>7 DEF Start, Read, ReadRaises, TruncateRaises
  <2> QED
    BY <1>5, <2>1
<1>8. CASE tasks[i].file = f /\ Truncate(i)
  <2>1. To(i, "flush", tasks[i].ok, tasks[i].text, tasks[i].at)
    BY <1>8, Effects
  <2>2. tasks'[i].pc = "flush"
    BY <2>1, CallFields, ToPc
  <2>3. f \in BeingWritten'
    BY <1>1, <1>8, <2>2 DEF BeingWritten
  <2> QED
    BY <2>3
<1>9. CASE tasks[i].file = f /\ Flush(i)
  <2>1. /\ tasks[i].pc = "flush" /\ tasks[i].text = fixed
        /\ Piece(i) = Len(fixed) => content'[f] = fixed
    BY <1>9, FlushFacts
  <2>2. opts.fix /\ tasks[i].at <= Len(tasks[i].text)
    BY <1>2, <2>1 DEF Sound
  <2>3. CASE Piece(i) # Len(tasks[i].text)
    <3>1. To(i, "flush", tasks[i].ok, tasks[i].text, Piece(i)) /\ Piece(i) \in Nat
      BY <1>9, <2>1, <2>2, <2>3, Effects, PieceFacts
    <3>2. tasks'[i].pc = "flush"
      BY <3>1, CallFields, ToPc
    <3>3. f \in BeingWritten'
      BY <1>1, <1>9, <3>2 DEF BeingWritten
    <3> QED
      BY <3>3
  <2> QED
    BY <1>2, <2>1, <2>2, <2>3
<1>10. CASE tasks[i].file = f /\ Format(i)
  <2>1. opts.fix /\ Check = "formatting"
    BY <1>2, <1>10 DEF Format, Sound
  <2>2. BeingWritten = {}
    <3>1. \A k \in DOMAIN tasks : tasks[k].pc # "flush"
      BY <2>1, TaskParts DEF Sound
    <3> QED
      BY <3>1 DEF BeingWritten
  <2>3. content[f] \in {base[f], fixed}
    BY <1>3, <2>2
  <2>4. content'[f] \in {content[f], clang_format(content[f])}
    <3>1. content \in [Files -> Seq(Line)]
      BY DEF TypeOK
    <3> QED
      BY <1>10, <3>1 DEF Format
  <2>5. clang_format(content[f]) = Fixed(Check, content[f])
    BY <2>1, NineChecks DEF Fixed
  <2>6. Fixed(Check, fixed) = fixed
    BY <1>2, FilesFacts, FixedTwice
  <2>7. content'[f] \in {base[f], fixed}
    BY <2>3, <2>4, <2>5, <2>6
  <2> QED
    BY <1>2, <2>1, <2>7
<1> QED
  BY <1>6, <1>7, <1>8, <1>9, <1>10 DEF Moves

LEMMA AllDone ==
  ASSUME TypeOK, PhaseInv, EndCheck
  PROVE  (\A i \in DOMAIN tasks : tasks[i].pc = "done") /\ BeingWritten = {}
<1>1. collected = Len(tasks) /\ DOMAIN tasks = 1 .. Len(tasks)
  BY TasksFacts DEF EndCheck
<1>2. \A i \in DOMAIN tasks : tasks[i].pc = "done"
  BY <1>1, PhaseParts DEF Counted
<1> QED
  BY <1>2 DEF BeingWritten

LEMMA TextStep ==
  ASSUME TypeOK, PhaseInv, TaskInv, TextKept, BaseInv, [Next]_vars
  PROVE  TextKept'
<1>1. CASE Find \/ SkipCheck \/ StartCheck
  <2>1. base' = content'
    BY <1>1, PhaseParts DEF Find, SkipCheck, StartCheck, Fresh
  <2> QED
    BY <2>1 DEF TextKept
<1>2. CASE FindRaises \/ Collect \/ LeavePool \/ Return \/ Kill \/ Terminated \/ UNCHANGED vars
  <2>1. Quiet
    BY <1>2 DEF FindRaises, Collect, LeavePool, Return, Kill, Terminated, vars, Quiet
  <2>2. BeingWritten' = BeingWritten /\ Latest' = Latest /\ \A f \in Files : Safe(f)' <=> Safe(f)
    BY <2>1 DEF BeingWritten, Latest, Safe, Quiet
  <2> QED
    BY <2>1, <2>2 DEF TextKept, Quiet
<1>3. CASE CollectRaises
  <2>1. UNCHANGED <<opts, content, found, n, original, base>>
    BY <1>3 DEF CollectRaises
  <2>2. /\ DOMAIN tasks' = DOMAIN tasks
        /\ \A k \in DOMAIN tasks : tasks[k].pc # "pending" => tasks'[k] = tasks[k]
        /\ tasks' = <<>> <=> tasks = <<>>
    <3>1. /\ tasks' \in Seq(Call) /\ Len(tasks') = Len(tasks) /\ DOMAIN tasks' = DOMAIN tasks
          /\ \A k \in DOMAIN tasks : tasks[k].pc # "pending" => tasks'[k] = tasks[k]
      BY <1>3, RaisesFacts
    <3>2. tasks \in Seq(Call)
      BY TasksFacts
    <3> QED
      BY <3>1, <3>2, EmptySeq
  <2>3. ASSUME NEW f \in BeingWritten PROVE f \in BeingWritten'
    <3>1. PICK k \in DOMAIN tasks : tasks[k].pc = "flush" /\ tasks[k].file = f
      BY <2>3 DEF BeingWritten
    <3>2. tasks'[k] = tasks[k]
      BY <2>2, <3>1
    <3> QED
      BY <2>2, <3>1, <3>2 DEF BeingWritten
  <2>4. Latest' = Latest /\ \A f \in Files : Safe(f)' <=> Safe(f)
    BY <2>1, <2>2 DEF Latest, Safe
  <2> QED
    BY <2>1, <2>3, <2>4 DEF TextKept
<1>4. CASE EndCheck
  <2>1. tasks' = <<>> /\ n' = n + 1 /\ UNCHANGED <<opts, content, found, original, base>>
    BY <1>4 DEF EndCheck
  <2>2. CASE tasks = <<>>
    <3>1. base = content
      BY <1>4, <2>2, PhaseParts DEF EndCheck, Counted
    <3> QED
      BY <2>1, <3>1 DEF TextKept
  <2>3. CASE tasks # <<>>
    <3>1. Latest' = Latest /\ BeingWritten = {} /\ \A f \in Files : Safe(f)' <=> Safe(f)
      BY <1>4, <2>1, <2>3, AllDone DEF Latest, Safe
    <3> QED
      BY <2>1, <3>1 DEF TextKept
  <2> QED
    BY <2>2, <2>3
<1>5. ASSUME NEW i \in DOMAIN tasks, Moves(i) PROVE TextKept'
  <2>1. /\ UNCHANGED poolVars /\ tasks' \in Seq(Call) /\ DOMAIN tasks' = DOMAIN tasks
    BY <1>5, MovesFacts, Zenon
  <2>2. /\ UNCHANGED <<opts, found, n, original, base>> /\ tasks # <<>> /\ tasks' # <<>>
    BY <1>5, <2>1, TasksFacts DEF poolVars
  <2>3. Latest' = Check /\ \A f \in Files : Safe(f)' <=> Safe(f)
    BY <2>2 DEF Latest, Check, Safe
  <2>4. ASSUME NEW f \in Files, f \notin BeingWritten', Safe(f)
        PROVE  \/ content'[f] = base[f]
               \/ opts.fix /\ Check \in opts.enabled /\ content'[f] = Fixed(Check, base[f])
    BY <1>5, <2>4, TextMoved
  <2> QED
    BY <2>2, <2>3, <2>4 DEF TextKept
<1> QED
  BY <1>1, <1>2, <1>3, <1>4, <1>5 DEF Next, Moves

\* A file nobody is writing has not grown, and has kept what is protected.
LEMMA TextFacts ==
  ASSUME TypeOK, TextKept, BaseInv, NEW f \in Files \ BeingWritten, Safe(f)
  PROVE  Len(content[f]) <= Len(original[f]) /\ Protected(content[f]) = Protected(original[f])
<1>1. /\ Len(base[f]) <= Len(original[f]) /\ Protected(base[f]) = Protected(original[f])
      /\ base[f] \in Seq(Line) /\ Len(base[f]) \in Nat /\ Len(original[f]) \in Nat /\ Len(content[f]) \in Nat
  BY FilesFacts DEF BaseInv
<1>2. CASE content[f] = base[f]
  BY <1>1, <1>2
<1>3. CASE Latest \in opts.enabled /\ content[f] = Fixed(Latest, base[f])
  <2>1. Latest \in Range(CHECKS)
    BY <1>3, OptsFacts
  <2>2. Len(content[f]) <= Len(base[f]) /\ Protected(content[f]) = Protected(base[f])
    BY <1>1, <1>3, <2>1, FixedFacts, ProtectedFixed
  <2> QED
    BY <1>1, <2>2
<1> QED
  BY <1>2, <1>3 DEF TextKept

LEMMA BaseStep ==
  ASSUME TypeOK, PhaseInv, TaskInv, TextKept, BaseInv, [Next]_vars
  PROVE  BaseInv'
<1>1. original' = original
  BY DEF Next, vars, Find, FindRaises, SkipCheck, StartCheck, Collect, CollectRaises, LeavePool, EndCheck,
         Return, Kill, Terminated, Start, Read, ReadRaises, Truncate, TruncateRaises, Flush, Format, poolVars
<1>2. CASE Find
  <2>1. base' = original
    BY <1>2, PhaseParts DEF Find, Fresh
  <2>2. \A f \in Files : Len(original[f]) <= Len(original[f])
    BY FilesFacts
  <2> QED
    BY <1>1, <2>1, <2>2 DEF BaseInv
<1>3. CASE SkipCheck \/ StartCheck
  <2>1. base' = content /\ tasks = <<>> /\ found' = found
    BY <1>3, PhaseParts DEF SkipCheck, StartCheck, Choosing, Fresh
  <2>2. BeingWritten = {} /\ \A f \in Files : Safe(f)' <=> Safe(f)
    BY <1>1, <2>1 DEF BeingWritten, Safe
  <2>3. \A f \in Files : Safe(f) => Len(content[f]) <= Len(original[f])
                                    /\ Protected(content[f]) = Protected(original[f])
    BY <2>2, TextFacts
  <2> QED
    BY <1>1, <2>1, <2>2, <2>3 DEF BaseInv
<1>4. CASE ~Find /\ ~SkipCheck /\ ~StartCheck
  <2>1. base' = base /\ found' = found
    BY <1>4 DEF Next, vars, FindRaises, Collect, CollectRaises, LeavePool, EndCheck,
         Return, Kill, Terminated, Start, Read, ReadRaises, Truncate, TruncateRaises, Flush, Format, poolVars
  <2>2. \A f \in Files : Safe(f)' <=> Safe(f)
    BY <1>1, <2>1 DEF Safe
  <2> QED
    BY <1>1, <2>1, <2>2 DEF BaseInv
<1> QED
  BY <1>2, <1>3, <1>4
\* The format guards are respected: what they protect is as it was.
LEMMA GuardsKept ==
  ASSUME TypeOK, TextKept, BaseInv
  PROVE  GuardsRespected
BY TextFacts DEF GuardsRespected

----------------------------------------------------------------------------
(* The exit code.                                                          *)

\* The calls are for the files found that the check concerns, and for all of them.
LEMMA CalledFiles ==
  ASSUME TypeOK, PhaseInv, phase \in {"pool", "raised"}
  PROVE  /\ \A i \in DOMAIN tasks : /\ tasks[i].file \in Range(found)
                                    /\ Check \in ChecksOf[Tree[tasks[i].file].type]
         /\ \A f \in Range(found) :
              Check \in ChecksOf[Tree[f].type] => \E i \in DOMAIN tasks : tasks[i].file = f
<1>1. /\ \A i \in DOMAIN tasks : At(Mine, i) \in Mine /\ tasks[i].file = found[At(Mine, i)]
      /\ \A j \in Mine : \E i \in DOMAIN tasks : tasks[i].file = found[j]
  BY TasksNamed
<1>2. \A j \in Mine : j \in DOMAIN found /\ Check \in ChecksOf[Tree[found[j]].type]
  BY DEF Mine
<1>3. ASSUME NEW f \in Range(found), Check \in ChecksOf[Tree[f].type]
      PROVE  \E i \in DOMAIN tasks : tasks[i].file = f
  <2>1. PICK j \in DOMAIN found : found[j] = f
    BY DEF Range
  <2>2. j \in Mine
    BY <1>3, <2>1 DEF Mine
  <2> QED
    BY <1>1, <2>1, <2>2
<1>4. ASSUME NEW i \in DOMAIN tasks
      PROVE  tasks[i].file \in Range(found) /\ Check \in ChecksOf[Tree[tasks[i].file].type]
  BY <1>1, <1>2 DEF Range
<1> QED
  BY <1>3, <1>4

LEMMA BehindGrows ==
  ASSUME TypeOK, n < Len(CHECKS), n' = n + 1, opts' = opts
  PROVE  Behind' = Behind \cup ({Check} \cap opts.enabled)
<1>1. n \in Int /\ 0 <= n
  BY CheckFacts
<1>2. \A j \in Int : j \in 1 .. n + 1 <=> j \in 1 .. n \/ j = n + 1
  BY <1>1
<1>3. \A c : (\E j \in 1 .. n + 1 : c = CHECKS[j]) <=> (\E j \in 1 .. n : c = CHECKS[j]) \/ c = CHECKS[n + 1]
  BY <1>1, <1>2
<1> QED
  BY <1>3 DEF Behind, Check

LEMMA BehindAll ==
  ASSUME TypeOK, n = Len(CHECKS)
  PROVE  Behind = opts.enabled
<1>1. \A c \in opts.enabled : \E j \in 1 .. n : c = CHECKS[j]
  BY OptsFacts, NineChecks DEF Range
<1> QED
  BY <1>1 DEF Behind

LEMMA NotTheFirst ==
  ASSUME TypeOK, n < Len(CHECKS), NEW c \in Behind
  PROVE  Check # "include_prefixes"
<1>1. PICK j \in 1 .. n : CHECKS[j] = c
  BY DEF Behind
<1>2. n + 1 \in {2, 3, 4, 5, 6, 7, 8, 9}
  BY <1>1, CheckFacts, NineChecks
<1>3. \A k \in {2, 3, 4, 5, 6, 7, 8, 9} : CHECKS[k] # "include_prefixes"
  BY DEF CHECKS
<1> QED
  BY <1>2, <1>3 DEF Check

\* A check without --fix is right about the files.
LEMMA CheckedRight ==
  ASSUME TypeOK, PhaseInv, TaskInv, EndCheck, ~opts.fix
  PROVE  (\A i \in DOMAIN tasks : tasks[i].ok) <=> \A f \in Range(found) : Accepted(f, Check, original)
<1>1. phase = "pool" /\ base = original /\ Check \in Range(CHECKS)
  BY TaskParts, PhaseParts, OptsFacts DEF EndCheck, Plain, Called
<1>2. ASSUME NEW i \in DOMAIN tasks
      PROVE  tasks[i].ok <=> Readable(tasks[i].file) /\ Accepts(Check, original[tasks[i].file])
  <2>1. tasks[i].pc = "done" /\ Sound(i) /\ tasks[i].file \in Files
    BY AllDone, TaskParts, TasksFacts
  <2>2. /\ Check \in Manual => Decodes(base[tasks[i].file])
        /\ tasks[i].ok <=> Readable(tasks[i].file)
                           /\ Fixed(Check, base[tasks[i].file]) = base[tasks[i].file]
    BY <2>1 DEF Sound
  <2>3. base[tasks[i].file] \in Seq(Line)
    BY <2>1, FilesFacts
  <2>4. Accepts(Check, base[tasks[i].file])
          <=> (Check \in Manual => Decodes(base[tasks[i].file]))
              /\ Fixed(Check, base[tasks[i].file]) = base[tasks[i].file]
    BY <1>1, <2>3, AcceptsSame
  <2> QED
    BY <1>1, <2>2, <2>4
<1>3. ASSUME \A i \in DOMAIN tasks : tasks[i].ok, NEW f \in Range(found), Check \in ChecksOf[Tree[f].type]
      PROVE  Readable(f) /\ Accepts(Check, original[f])
  <2>1. PICK i \in DOMAIN tasks : tasks[i].file = f
    BY <1>1, <1>3, CalledFiles
  <2> QED
    BY <1>2, <1>3, <2>1
<1>4. ASSUME \A f \in Range(found) : Accepted(f, Check, original), NEW i \in DOMAIN tasks
      PROVE  tasks[i].ok
  <2>1. tasks[i].file \in Range(found) /\ Check \in ChecksOf[Tree[tasks[i].file].type]
    BY <1>1, CalledFiles
  <2> QED
    BY <1>2, <1>4, <2>1 DEF Accepted
<1> QED
  BY <1>3, <1>4 DEF Accepted

\* With --fix, a check accepts what it leaves, and the earlier checks still do.
LEMMA FixedRight ==
  ASSUME TypeOK, PhaseInv, TaskInv, TextKept, VerdictInv, EndCheck, opts.fix,
         NEW f \in Range(found), Safe(f), NEW c \in (Behind \cup {Check}) \ Late
  PROVE  Accepted(f, c, content)
<1>1. /\ phase = "pool" /\ Check \in opts.enabled /\ n < Len(CHECKS)
      /\ phase = "pool" /\ tasks = <<>> => base = content
  BY PhaseParts DEF EndCheck, Called, Counted
<1>2. /\ Check \in Range(CHECKS) /\ BeingWritten = {} /\ \A i \in DOMAIN tasks : tasks[i].pc = "done"
  BY <1>1, OptsFacts, AllDone
<1>3. f \in Files /\ base[f] \in Seq(Line)
  <2>1. f \in Files
    BY DEF TypeOK, Range
  <2> QED
    BY <2>1, FilesFacts
<1> SUFFICES ASSUME c \in ChecksOf[Tree[f].type] PROVE Readable(f) /\ Accepts(c, content[f])
  BY DEF Accepted
<1>4. c # "formatting" /\ (c = "include_quotes" => "formatting" \notin opts.enabled)
  <2>1. c \in opts.enabled
    BY <1>1 DEF Behind
  <2> QED
    BY <2>1 DEF Late
<1>5. CASE c = Check
  <2>1. PICK i \in DOMAIN tasks : tasks[i].file = f
    BY <1>1, <1>5, CalledFiles
  <2>2. Writing(i) /\ Sound(i) /\ tasks[i].pc = "done"
    BY <1>2, <2>1, TaskParts
  <2>5. Readable(f)
    BY <1>4, <1>5, <2>1, <2>2 DEF Sound
  <2>3. content[f] = Fixed(Check, base[f]) /\ (Check \in Manual => Decodes(Fixed(Check, base[f])))
    BY <1>2, <1>4, <1>5, <2>1, <2>2 DEF Writing
  <2>4. content[f] \in Seq(Line) /\ Fixed(Check, content[f]) = content[f]
    BY <1>2, <1>3, <2>3, FilesFacts, FixedTwice
  <2> QED
    BY <1>2, <1>5, <2>3, <2>4, <2>5, AcceptsSame
<1>6. CASE c \in Behind
  <2>1. Readable(f) /\ Accepts(c, base[f]) /\ c \in Range(CHECKS)
    <3>1. Accepted(f, c, base)
      BY <1>1, <1>6 DEF VerdictInv
    <3>2. c \in Range(CHECKS)
      BY <1>6, OptsFacts DEF Behind
    <3> QED
      BY <3>1, <3>2 DEF Accepted
  <2>2. content[f] = base[f] \/ content[f] = Fixed(Check, base[f])
    <3>1. CASE tasks = <<>>
      BY <1>1, <3>1
    <3>2. CASE tasks # <<>>
      <4>1. Latest = Check
        BY <3>2, LatestAtWork
      <4> QED
        BY <1>2, <1>3, <4>1 DEF TextKept
    <3> QED
      BY <3>1, <3>2
  <2>3. c = "include_quotes" => Check \notin {"include_prefixes", "formatting"}
    BY <1>1, <1>4, <1>6, NotTheFirst
  <2>4. Accepts(c, Fixed(Check, base[f]))
    BY <1>2, <1>3, <1>4, <2>1, <2>3, AcceptsKept
  <2> QED
    BY <2>1, <2>2, <2>4
<1> QED
  BY <1>5, <1>6

LEMMA VerdictStep ==
  ASSUME TypeOK, PhaseInv, TaskInv, TextKept, VerdictInv, [Next]_vars
  PROVE  VerdictInv'
<1>1. CASE Find
  <2>1. n' = 0 /\ success' = TRUE
    BY <1>1, PhaseParts DEF Find, Fresh
  <2>2. Behind' = {}
    BY <2>1 DEF Behind
  <2> QED
    BY <2>1, <2>2 DEF VerdictInv
<1>2. CASE FindRaises \/ LeavePool \/ Return \/ Kill \/ Terminated
  <2>1. phase' \in {"exited", "killed"}
    BY <1>2 DEF FindRaises, LeavePool, Return, Kill, Terminated, Exit, vars
  <2> QED
    BY <2>1 DEF VerdictInv
<1>3. CASE SkipCheck
  <2>1. /\ phase = "choose" /\ n < Len(CHECKS) /\ Check \notin opts.enabled /\ n' = n + 1
        /\ UNCHANGED <<opts, content, phase, found, success, original>>
    BY <1>3 DEF SkipCheck, Choosing, Check
  <2>2. Behind' = Behind
    BY <2>1, BehindGrows
  <2>3. Late' = Late /\ \A f : Safe(f)' <=> Safe(f)
    BY <2>1 DEF Late, Safe
  <2> QED
    BY <2>1, <2>2, <2>3 DEF VerdictInv, Accepted
<1>4. CASE StartCheck
  <2>1. /\ phase = "choose" /\ phase' \in {"pool", "exited"} /\ base' = content
        /\ UNCHANGED <<opts, content, found, n, success, original>>
    BY <1>4 DEF StartCheck, Choosing, Exit
  <2>2. Behind' = Behind /\ Late' = Late /\ \A f : Safe(f)' <=> Safe(f)
    BY <2>1 DEF Behind, Late, Safe
  <2> QED
    BY <2>1, <2>2 DEF VerdictInv, Accepted
<1>5. CASE EndCheck
  <2>1. /\ phase = "pool" /\ phase' = "choose" /\ n' = n + 1
        /\ success' = (success /\ (opts.fix \/ \A i \in DOMAIN tasks : tasks[i].ok))
        /\ UNCHANGED <<opts, content, found, original>>
    BY <1>5 DEF EndCheck
  <2>2. n < Len(CHECKS) /\ Check \in opts.enabled
    BY <2>1, PhaseParts DEF Called
  <2>3. Behind' = Behind \cup {Check} /\ Late' = Late /\ \A f : Safe(f)' <=> Safe(f)
    BY <2>1, <2>2, BehindGrows DEF Late, Safe
  <2>4. CASE ~opts.fix
    <3>1. success <=> \A f \in Range(found), c \in Behind : Accepted(f, c, original)
      BY <2>1, <2>4 DEF VerdictInv
    <3>2. success' <=> success /\ \A f \in Range(found) : Accepted(f, Check, original)
      BY <1>5, <2>1, <2>4, CheckedRight
    <3>3. success' <=> \A f \in Range(found), c \in Behind' : Accepted(f, c, original)
      BY <2>3, <3>1, <3>2
    <3> QED
      BY <2>1, <2>4, <3>3 DEF VerdictInv, Accepted
  <2>5. CASE opts.fix
    <3>1. success' = TRUE
      BY <2>1, <2>5 DEF VerdictInv
    <3>2. ASSUME NEW f \in Range(found), NEW c \in Behind' \ Late', Safe(f) PROVE Accepted(f, c, content)
      BY <1>5, <2>3, <2>5, <3>2, FixedRight
    <3> QED
      BY <2>1, <2>3, <2>5, <3>1, <3>2 DEF VerdictInv, Accepted
  <2> QED
    BY <2>4, <2>5
<1>6. CASE Collect \/ CollectRaises \/ UNCHANGED vars \/ \E i \in DOMAIN tasks : Moves(i)
  <2>1. /\ UNCHANGED <<opts, found, n, success, original, base>>
        /\ \/ phase' = phase /\ (phase = "choose" => content' = content)
           \/ phase = "pool" /\ phase' = "raised"
    BY <1>6 DEF Collect, CollectRaises, vars, Moves, Start, Read, ReadRaises, Truncate, TruncateRaises, Flush, Format,
                poolVars, PoolUp
  <2>2. Behind' = Behind /\ Late' = Late /\ \A f : Safe(f)' <=> Safe(f)
    BY <2>1 DEF Behind, Late, Safe
  <2> QED
    BY <2>1, <2>2 DEF VerdictInv, Accepted
<1> QED
  BY <1>1, <1>2, <1>3, <1>4, <1>5, <1>6 DEF Next, Moves
LEMMA ExactStep ==
  ASSUME StyleInv, [Next]_vars
  PROVE  VerdictExact'
<1>0. /\ TypeOK /\ PhaseInv /\ TaskInv /\ VerdictInv /\ VerdictExact
      /\ Fresh /\ Present /\ Manned /\ Called /\ Counted
  BY PhaseParts DEF StyleInv
<1>1. CASE FindRaises
  <2>1. exit' = 1 /\ UNCHANGED <<opts, found>>
    BY <1>1 DEF FindRaises, Exit
  <2>2. ~Usable /\ Usable' = Usable
    BY <1>1, <2>1 DEF FindRaises, Usable
  <2> QED
    BY <2>1, <2>2 DEF VerdictExact
<1>2. CASE StartCheck
  <2>1. CASE opts.jobs <= 0
    <3>1. exit' = 1 /\ UNCHANGED <<opts, found>> /\ Check \in opts.enabled
      BY <1>2, <2>1 DEF StartCheck, Exit
    <3>2. ~(opts.jobs > 0)
      BY <1>0, <2>1, OptsFacts
    <3>3. ~Usable /\ Usable' = Usable
      BY <3>1, <3>2 DEF Usable
    <3> QED
      BY <3>1, <3>3 DEF VerdictExact
  <2>2. CASE ~(opts.jobs <= 0)
    BY <1>2, <2>2 DEF StartCheck, VerdictExact
  <2> QED
    BY <2>1, <2>2
<1>3. CASE LeavePool
  <2>1. exit' = 1 /\ UNCHANGED <<opts, content, found>> /\ phase = "raised"
    BY <1>3 DEF LeavePool, Exit
  <2>2. SUFFICES ASSUME ~opts.fix
                 PROVE  ~(\A f \in Range(found), c \in opts.enabled : Accepted(f, c, content))
    BY <2>1 DEF VerdictExact, Accepted
  <2>3. PICK i \in DOMAIN tasks : tasks[i].pc = "failed"
    BY <1>0, <2>1 DEF Counted
  <2>4. /\ ~Readable(tasks[i].file) \/ (Check \in Manual /\ ~Decodes(base[tasks[i].file]))
        /\ base = content
    BY <1>0, <2>2, <2>3, TaskParts DEF Sound, Plain
  <2>5. /\ tasks[i].file \in Range(found) /\ Check \in ChecksOf[Tree[tasks[i].file].type]
        /\ Check \in opts.enabled
    BY <1>0, <2>1, CalledFiles DEF Called
  <2>6. ~Accepted(tasks[i].file, Check, content)
    BY <2>4, <2>5 DEF Accepted, Accepts
  <2> QED
    BY <2>5, <2>6
<1>4. CASE Return
  <2>1. /\ phase = "choose" /\ ("formatting" \in opts.enabled => opts.clang) /\ n = Len(CHECKS)
        /\ exit' = IF success THEN 0 ELSE 1
        /\ UNCHANGED <<opts, content, found, original>>
    BY <1>4 DEF Return, Choosing, Exit
  <2>2. Behind = opts.enabled
    BY <1>0, <2>1, BehindAll
  <2>3. Usable
    <3>1. \A p \in Range(opts.paths) : p.kind # "missing"
      BY <1>0, <2>1 DEF Present
    <3>2. opts.enabled = {} \/ opts.jobs > 0
      <4>1. n > 0
        BY <2>1, NineChecks
      <4>2. opts.enabled # {} => \E j \in 1 .. n : CHECKS[j] \in opts.enabled
        BY <2>2 DEF Behind
      <4> QED
        BY <1>0, <4>1, <4>2 DEF Manned
    <3> QED
      BY <2>1, <3>1, <3>2 DEF Usable
  <2>4. Usable' = Usable /\ Late' = Late /\ \A f : Safe(f)' <=> Safe(f)
    BY <2>1 DEF Usable, Late, Safe
  <2>5. CASE ~opts.fix
    <3>1. success <=> \A f \in Range(found), c \in opts.enabled : Accepted(f, c, content)
      BY <1>0, <2>1, <2>2, <2>5, TaskParts DEF VerdictInv, Plain
    <3> QED
      BY <2>1, <2>3, <2>4, <2>5, <3>1 DEF VerdictExact, Accepted
  <2>6. CASE opts.fix
    <3>1. \A f \in Range(found), c \in opts.enabled \ Late : Safe(f) => Accepted(f, c, content)
      BY <1>0, <2>1, <2>2, <2>6 DEF VerdictInv
    <3> QED
      BY <2>1, <2>3, <2>4, <2>6, <3>1 DEF VerdictExact, Accepted
  <2> QED
    BY <2>5, <2>6
<1>5. CASE Terminated \/ UNCHANGED vars
  <2>1. UNCHANGED vars
    BY <1>5 DEF Terminated
  <2>2. Usable' = Usable /\ Late' = Late /\ \A f : Safe(f)' <=> Safe(f)
    BY <2>1 DEF Usable, Late, Safe, vars
  <2> QED
    BY <1>0, <2>1, <2>2 DEF VerdictExact, Accepted, vars
<1>6. CASE Find \/ SkipCheck \/ Collect \/ CollectRaises \/ EndCheck \/ Kill \/ \E i \in DOMAIN tasks : Moves(i)
  <2>1. phase' # "exited"
    BY <1>6 DEF Find, SkipCheck, Choosing, Collect, CollectRaises, EndCheck, Kill, Moves, Start, Read,
                ReadRaises, Truncate, TruncateRaises, Flush, Format, poolVars, PoolUp
  <2> QED
    BY <2>1 DEF VerdictExact
<1> QED
  BY <1>1, <1>2, <1>3, <1>4, <1>5, <1>6 DEF Next, Moves

----------------------------------------------------------------------------
(* The theorems.                                                           *)

\* The inductive invariant: where the main process is, what every call of a check
\* has done to its file, what the checks have left behind and what the verdict of
\* the checks so far is about (check_style_clang_format, check_style_files and the
\* file functions they hand to the pool).
THEOREM StyleInvariant == Spec => []StyleInv
<1>1. Init => StyleInv
  <2> SUFFICES ASSUME Init PROVE StyleInv
    OBVIOUS
  <2>1. VerdictInv /\ VerdictExact
    BY DEF Init, VerdictInv, VerdictExact
  <2> QED
    BY <2>1, TypeInit, PhaseInit, TaskInit, TextInit DEF StyleInv
<1>2. StyleInv /\ [Next]_vars => StyleInv'
  <2> SUFFICES ASSUME StyleInv, [Next]_vars PROVE StyleInv'
    OBVIOUS
  <2>1. TypeOK /\ PhaseInv /\ TaskInv /\ TextKept /\ BaseInv /\ VerdictInv
    BY DEF StyleInv
  <2>2. TypeOK' /\ PhaseInv'
    BY <2>1, TypeStep, PhaseStep
  <2>3. TaskInv' /\ TextKept' /\ BaseInv'
    BY <2>1, TaskStep, TextStep, BaseStep
  <2>4. VerdictInv' /\ VerdictExact'
    BY <2>1, VerdictStep, ExactStep
  <2> QED
    BY <2>2, <2>3, <2>4 DEF StyleInv
<1> QED
  BY <1>1, <1>2, PTL DEF Spec

\* However the processes of the pool interleave and whenever the run is killed, a
\* file nobody is writing holds the text it had when the check at hand began, or
\* that text as the check fixes it (check_file and its callers).
THEOREM TextKeptAlways == Spec => []TextKept
<1>1. StyleInv => TextKept
  BY DEF StyleInv
<1> QED
  BY <1>1, StyleInvariant, PTL

\* No check changes, moves or deletes a line between the format guards, whatever
\* is deleted around it and however many checks there were before
\* (check_manually_file, clang-format).
THEOREM GuardsRespectedAlways == Spec => []GuardsRespected
<1>1. StyleInv => GuardsRespected
  BY GuardsKept DEF StyleInv
<1> QED
  BY <1>1, StyleInvariant, PTL

\* The exit code of a run that ends says exactly whether every enabled check
\* accepts every file it concerns; with --fix, 0 is given only if what is left is
\* accepted (check_style_clang_format, main).
THEOREM VerdictExactAlways == Spec => []VerdictExact
<1>1. StyleInv => VerdictExact
  BY DEF StyleInv
<1> QED
  BY <1>1, StyleInvariant, PTL
=============================================================================
