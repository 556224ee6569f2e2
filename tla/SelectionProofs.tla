--------------------------- MODULE SelectionProofs ---------------------------
(***************************************************************************)
(* Proofs about Selection, for any suites, examples' files, command lines, *)
(* lock files, patterns and number of processors.                          *)
(***************************************************************************)
EXTENDS Selection, SubsequenceLemmas

----------------------------------------------------------------------------
(* The readers of utils.py, for any file.                                  *)

LEMMA FileFacts ==
  ASSUME NEW file, IsFile(file)
  PROVE  /\ file \in Seq(Token) /\ DOMAIN file = 1 .. Len(file) /\ Len(file) \in Nat
         /\ \A i \in DOMAIN file : file[i].line \in Nat /\ file[i].word \in Words
         /\ \A i, j \in DOMAIN file : i < j => file[i].line <= file[j].line
<1>1. /\ file \in Seq(Token)
      /\ \A i, j \in DOMAIN file : i < j => file[i].line <= file[j].line
  BY DEF IsFile
<1>2. DOMAIN file = 1 .. Len(file) /\ Len(file) \in Nat
  BY <1>1
<1>3. \A i \in DOMAIN file : file[i] \in Token
  BY <1>1, <1>2
<1> QED
  BY <1>1, <1>2, <1>3 DEF Token

\* Without its comments a file is a file.
LEMMA CodeFacts ==
  ASSUME NEW file, IsFile(file)
  PROVE  /\ IsFile(Code(file))
         /\ Statements(file) \in Seq(Words) /\ Len(Statements(file)) = Len(Code(file))
         /\ DOMAIN Code(file) = 1 .. Len(Code(file)) /\ Len(Code(file)) \in Nat
         /\ DOMAIN Statements(file) = DOMAIN Code(file)
         /\ \A i \in DOMAIN Code(file) : Statements(file)[i] = Code(file)[i].word
<1> DEFINE I == {i \in DOMAIN file :
                   \A j \in 1 .. i : file[j].line = file[i].line => file[j].word # "#"}
           code == Code(file)
<1>0. file \in Seq(Token) /\ I \in SUBSET DOMAIN file /\ code = Those(file, I)
  BY DEF IsFile, Code
<1>1. Len(file) \in Nat /\ DOMAIN file = 1 .. Len(file)
  BY <1>0
<1> HIDE DEF I, code
<1>2. /\ Cardinality(I) \in Nat /\ code \in Seq(Token) /\ Len(code) = Cardinality(I)
      /\ \A k \in 1 .. Cardinality(I) : At(I, k) \in I /\ code[k] = file[At(I, k)]
  BY <1>0, ThoseFacts
<1>3. \A k, m \in 1 .. Cardinality(I) : k < m <=> At(I, k) < At(I, m)
  BY <1>0, <1>1, AtFacts
<1>4. ASSUME NEW k \in 1 .. Cardinality(I), NEW m \in 1 .. Cardinality(I), k < m
      PROVE  code[k].line <= code[m].line
  <2>1. At(I, k) \in DOMAIN file /\ At(I, m) \in DOMAIN file /\ At(I, k) < At(I, m)
    BY <1>0, <1>2, <1>3, <1>4
  <2> QED
    BY <1>2, <2>1 DEF IsFile
<1>5. DOMAIN code = 1 .. Len(code) /\ Len(code) \in Nat
  BY <1>2
<1>6. IsFile(code)
  BY <1>2, <1>4, <1>5 DEF IsFile
<1>7. Statements(file) = [i \in DOMAIN code |-> code[i].word]
  BY DEF Statements, Spelled, code
<1>8. \A i \in DOMAIN code : code[i].word \in Words
  BY <1>6, FileFacts
<1>9. Statements(file) \in Seq(Words) /\ Len(Statements(file)) = Len(code)
  BY <1>5, <1>7, <1>8
<1> QED
  BY <1>5, <1>6, <1>7, <1>9 DEF code

\* Whole lines, from the beginning of one to the end of another, are what stands
\* between.
LEMMA TextFacts ==
  ASSUME NEW code, IsFile(code), NEW a \in DOMAIN code, NEW b \in DOMAIN code, a <= b,
         Begins(code, a), Ends(code, b)
  PROVE  Text(code, code[a].line, code[b].line) = SubSeq(Spelled(code), a, b)
<1>1. /\ code \in Seq(Token) /\ DOMAIN code = 1 .. Len(code) /\ Len(code) \in Nat
      /\ \A i \in DOMAIN code : code[i].line \in Nat /\ code[i].word \in Words
      /\ \A i, j \in DOMAIN code : i < j => code[i].line <= code[j].line
  BY FileFacts
<1>2. {i \in DOMAIN code : code[i].line \in code[a].line .. code[b].line} = a .. b
  <2>1. ASSUME NEW i \in DOMAIN code, i < a PROVE code[i].line < code[a].line
    <3>1. a - 1 \in DOMAIN code /\ code[a - 1].line < code[a].line
      <4>1. a - 1 \in DOMAIN code /\ a # 1
        BY <1>1, <2>1
      <4> QED
        BY <1>1, <4>1 DEF Begins
    <3>2. code[i].line <= code[a - 1].line
      BY <1>1, <2>1, <3>1
    <3> QED
      BY <1>1, <3>1, <3>2
  <2>2. ASSUME NEW i \in DOMAIN code, b < i PROVE code[b].line < code[i].line
    <3>1. b + 1 \in DOMAIN code /\ code[b].line < code[b + 1].line
      <4>1. b + 1 \in DOMAIN code /\ b # Len(code)
        BY <1>1, <2>2
      <4> QED
        BY <1>1, <4>1 DEF Ends
    <3>2. code[b + 1].line <= code[i].line
      BY <1>1, <2>2, <3>1
    <3> QED
      BY <1>1, <3>1, <3>2
  <2>3. \A i \in a .. b : i \in DOMAIN code /\ code[a].line <= code[i].line /\ code[i].line <= code[b].line
    BY <1>1
  <2> QED
    BY <1>1, <2>1, <2>2, <2>3
<1>3. Spelled(code) \in Seq(Words) /\ Len(Spelled(code)) = Len(code)
  BY <1>1 DEF Spelled
<1>4. a \in 1 .. Len(Spelled(code)) /\ b \in a .. Len(Spelled(code))
  BY <1>1, <1>3
<1>5. Those(Spelled(code), a .. b) = SubSeq(Spelled(code), a, b)
  BY <1>3, <1>4, ThoseBetween
<1> QED
  BY <1>2, <1>5 DEF Text

\* What follows the "=" is a list of words, or a Boolean.
LEMMA EvalFacts ==
  ASSUME NEW text \in Seq(Words), Len(text) > 2, text[1] # "=", text[2] = "="
  PROVE  /\ /\ Len(text) > 3 /\ text[3] = "[" /\ text[Len(text)] = "]"
            /\ \A k \in 4 .. Len(text) - 1 : text[k] \notin {"[", "]", "="}
            => Eval(text) = Value(SubSeq(text, 4, Len(text) - 1))
         /\ Len(text) = 3 /\ text[3] \in {"True", "False"} => Eval(text) = Value(text[3] = "True")
<1> DEFINE n == Len(text)
           e == SubSeq(text, 3, n)
           inner == SubSeq(e, 2, Len(e) - 1)
<1>1. n \in Nat /\ n > 2 /\ DOMAIN text = 1 .. n
  OBVIOUS
<1>2. Min({i \in DOMAIN text : text[i] = "="}) = 2
  <2> DEFINE I == {i \in DOMAIN text : text[i] = "="}
  <2>1. 2 \in I /\ I \in SUBSET (1 .. n)
    BY <1>1
  <2>2. \A i \in I : 2 <= i
    BY <1>1
  <2> HIDE DEF I, n
  <2>3. Min(I) = 2
    BY <1>1, <2>1, <2>2, Least
  <2> QED
    BY <2>3 DEF I
<1>3. "=" \in Range(text) /\ e # <<>> /\ Len(e) = n - 2 /\ e[1] = text[3] /\ Last(e) = text[n]
  <2>1. 2 \in DOMAIN text
    BY <1>1
  <2>2. "=" \in Range(text)
    BY <2>1 DEF Range
  <2>3. Len(e) = n - 2 /\ \A k \in 1 .. n - 2 : e[k] = text[k + 2]
    BY <1>1
  <2> HIDE DEF e
  <2>4. e[1] = text[3] /\ e[n - 2] = text[n]
    BY <1>1, <2>3
  <2>5. e # <<>>
    BY <1>1, <2>3
  <2> QED
    BY <2>2, <2>3, <2>4, <2>5 DEF Last
<1>4. SubSeq(text, Min({i \in DOMAIN text : text[i] = "="}) + 1, Len(text)) = e
  <2>1. Min({i \in DOMAIN text : text[i] = "="}) + 1 = 3
    BY <1>2
  <2> QED
    BY <2>1, Zenon
<1>5. ASSUME n > 3, text[3] = "[", text[n] = "]",
             \A k \in 4 .. n - 1 : text[k] \notin {"[", "]", "="}
      PROVE  Eval(text) = Value(SubSeq(text, 4, n - 1))
  <2>1. inner = SubSeq(text, 4, n - 1)
    BY <1>1, <1>3, <1>5
  <2>2. \A x \in Range(inner) : \E k \in 4 .. n - 1 : x = text[k]
    <3>1. DOMAIN SubSeq(text, 4, n - 1) = 1 .. n - 4
      BY <1>1, <1>5
    <3>2. \A k \in 1 .. n - 4 : SubSeq(text, 4, n - 1)[k] = text[k + 3] /\ k + 3 \in 4 .. n - 1
      BY <1>1, <1>5
    <3> QED
      BY <2>1, <3>1, <3>2 DEF Range
  <2>3. Range(inner) \cap {"[", "]", "="} = {}
    BY <1>5, <2>2
  <2>4. e[1] = "[" /\ Last(e) = "]" /\ e[1] \notin {"True", "False"}
    BY <1>3, <1>5
  <2> HIDE DEF e, inner, n
  <2> QED
    BY <1>3, <1>4, <2>1, <2>3, <2>4 DEF Eval, inner
<1>6. ASSUME n = 3, text[3] \in {"True", "False"}
      PROVE  Eval(text) = Value(text[3] = "True")
  <2>1. Len(e) = 1 /\ e[1] \in {"True", "False"} /\ e[1] # "[" /\ e[1] = text[3]
    BY <1>3, <1>6
  <2> HIDE DEF e, inner, n
  <2> QED
    BY <1>3, <1>4, <2>1 DEF Eval
<1> QED
  BY <1>5, <1>6

\* Where the name occurs first in a file that can be read.
LEMMA NamedFacts ==
  ASSUME NEW file, IsFile(file), NEW name, NamedFirst(file, name),
         NEW code, code = Code(file), NEW s, s = Statements(file)
  PROVE  /\ Mentioned(code, name) = {i \in DOMAIN code : code[i].word = name}
         /\ Mentioned(code, name) = {} => Assigned(file, name) = {}
         /\ Mentioned(code, name) # {} =>
              LET a == Min(Mentioned(code, name))
              IN /\ a \in 1 .. Len(code) - 2 /\ Begins(code, a)
                 /\ s[a] = name /\ s[a + 1] = "=" /\ a + 2 \in Assigned(file, name)
                 /\ \A i \in Assigned(file, name) : i \in 3 .. Len(s) /\ a + 2 <= i
<1> DEFINE named == {i \in DOMAIN code : code[i].word = name}
           a == Min(named)
<1>1. /\ DOMAIN code = 1 .. Len(code) /\ Len(code) \in Nat /\ s \in Seq(Words) /\ Len(s) = Len(code)
      /\ \A i \in DOMAIN code : s[i] = code[i].word
  BY CodeFacts
<1>2. Mentioned(code, name) = named
  BY DEF Mentioned, NamedFirst
<1>3. \A i : i \in Assigned(file, name) <=> i \in 3 .. Len(s) /\ s[i - 2] = name /\ s[i - 1] = "="
  BY DEF Assigned
<1>4. \A i \in Assigned(file, name) : i \in 3 .. Len(s) /\ i - 2 \in named
  BY <1>1, <1>3
<1>5. ASSUME named # {}
      PROVE  /\ a \in 1 .. Len(code) - 2 /\ Begins(code, a)
             /\ s[a] = name /\ s[a + 1] = "=" /\ a + 2 \in Assigned(file, name)
             /\ \A i \in Assigned(file, name) : i \in 3 .. Len(s) /\ a + 2 <= i
  <2>1. a \in named /\ a \in DOMAIN code /\ \A i \in named : a <= i
    <3>1. named \in SUBSET (1 .. Len(code))
      BY <1>1
    <3> HIDE DEF named
    <3>2. a \in named /\ \A i \in named : a <= i
      BY <1>1, <1>5, <3>1, Extremes
    <3> QED
      BY <1>1, <3>1, <3>2
  <2>2. Begins(code, a) /\ a + 2 \in Assigned(file, name)
    BY <1>5 DEF NamedFirst
  <2> HIDE DEF a
  <2>3. a + 2 \in 3 .. Len(s) /\ s[(a + 2) - 2] = name /\ s[(a + 2) - 1] = "="
    BY <1>3, <2>2, Zenon
  <2>4. a \in 1 .. Len(code) - 2 /\ s[a] = name /\ s[a + 1] = "="
    BY <1>1, <2>1, <2>3
  <2>5. \A i \in Assigned(file, name) : i \in 3 .. Len(s) /\ a + 2 <= i
    BY <1>1, <1>4, <2>1
  <2> QED
    BY <2>2, <2>4, <2>5
<1> QED
  BY <1>2, <1>4, <1>5

\* Before the token a line begins with, the lines are others.
LEMMA BeforeLine ==
  ASSUME NEW code, IsFile(code), NEW a \in DOMAIN code, Begins(code, a),
         NEW k \in DOMAIN code
  PROVE  code[k].line >= code[a].line <=> k >= a
<1>1. /\ DOMAIN code = 1 .. Len(code) /\ Len(code) \in Nat
      /\ \A i \in DOMAIN code : code[i].line \in Nat
      /\ \A i, j \in DOMAIN code : i < j => code[i].line <= code[j].line
  BY FileFacts
<1>2. ASSUME k < a PROVE code[k].line < code[a].line
  <2>1. a - 1 \in DOMAIN code /\ a # 1
    BY <1>1, <1>2
  <2>2. code[a - 1].line < code[a].line
    BY <1>1, <2>1 DEF Begins
  <2>3. k = a - 1 \/ k < a - 1
    BY <1>1, <1>2
  <2>4. code[k].line <= code[a - 1].line
    BY <1>1, <2>1, <2>3
  <2> QED
    BY <1>1, <2>1, <2>2, <2>4
<1>3. a < k => code[a].line <= code[k].line
  BY <1>1
<1> QED
  BY <1>1, <1>2, <1>3

LEMMA Singleton == \A x : Len(<<x>>) < 3
  OBVIOUS

\* A file of less than three tokens assigns nothing.
LEMMA ShortFile ==
  ASSUME NEW file, IsFile(file), Len(file) < 3, NEW name, NEW default
  PROVE  AssignedList(file, name) = <<>> /\ AssignedBool(file, name, default) = default
<1>1. Len(Statements(file)) <= Len(file) /\ Len(Statements(file)) \in Nat /\ Len(file) \in Nat
  <2>1. /\ file \in Seq(Token)
        /\ Len(Statements(file)) = Len(Code(file)) /\ Len(Code(file)) \in Nat
    BY CodeFacts DEF IsFile
  <2>2. Len(Code(file)) <= Len(file)
    BY <2>1, ThoseFacts DEF Code
  <2> QED
    BY <2>1, <2>2
<1>2. Assigned(file, name) = {}
  <2>1. 3 .. Len(Statements(file)) = {}
    BY <1>1
  <2> QED
    BY <2>1, Zenon DEF Assigned
<1> QED
  BY <1>2 DEF AssignedList, AssignedBool

\* The list is read that the file assigns.
THEOREM ListRead ==
  ASSUME NEW file, IsFile(file), NEW name, name # "]", name # "=", ReadableList(file, name)
  PROVE  get_list_from_file(file, name) = Value(AssignedList(file, name))
<1> DEFINE code == Code(file)
           s == Statements(file)
           named == Mentioned(code, name)
           a == Min(named)
           closing == Closing(code, code[a].line)
           ends == {k \in a + 2 .. Len(code) : code[k].word = "]"}
           e == Min(ends)
           at == {i \in Assigned(file, name) : s[i] = "["}
<1>1. NamedFirst(file, name)
  BY DEF ReadableList
<1>2. /\ DOMAIN code = 1 .. Len(code) /\ Len(code) \in Nat /\ s \in Seq(Words) /\ Len(s) = Len(code)
      /\ DOMAIN s = DOMAIN code /\ \A i \in DOMAIN code : s[i] = code[i].word
      /\ IsFile(code) /\ s = Spelled(code)
  BY CodeFacts DEF Statements
<1>3. /\ named = {i \in DOMAIN code : code[i].word = name}
      /\ named = {} => Assigned(file, name) = {}
      /\ named # {} => /\ a \in 1 .. Len(code) - 2 /\ Begins(code, a)
                       /\ s[a] = name /\ s[a + 1] = "=" /\ a + 2 \in Assigned(file, name)
                       /\ \A i \in Assigned(file, name) : i \in 3 .. Len(s) /\ a + 2 <= i
  <2> HIDE DEF code, s
  <2> QED
    BY <1>1, NamedFacts DEF code, s
<1> SUFFICES ASSUME file # Missing
             PROVE  get_list_from_file(file, name) = Value(AssignedList(file, name))
  <2>1. Len(Missing) < 3
    BY Singleton DEF Missing
  <2>2. file = Missing => get_list_from_file(file, name) = Value(<<>>)
    BY DEF get_list_from_file
  <2> QED
    BY <2>1, <2>2, ShortFile
<1>4. get_list_from_file(file, name) =
        IF named = {} \/ closing = {} THEN Value(<<>>)
        ELSE Eval(Text(code, code[a].line, code[Min(closing)].line))
  BY DEF get_list_from_file
<1>5. AssignedList(file, name) =
        LET last == {k \in Min(at) .. Len(s) : s[k] = "]"}
        IN IF at = {} \/ last = {} THEN <<>> ELSE SubSeq(s, Min(at) + 1, Min(last) - 1)
  BY DEF AssignedList
<1>6. CASE named = {}
  <2>1. at = {}
    BY <1>3, <1>6
  <2> QED
    BY <1>4, <1>5, <1>6, <2>1
<1>7. CASE named # {}
  <2>1. /\ a \in 1 .. Len(code) - 2 /\ Begins(code, a) /\ s[a] = name /\ s[a + 1] = "="
        /\ a + 2 \in Assigned(file, name)
        /\ \A i \in Assigned(file, name) : i \in 3 .. Len(s) /\ a + 2 <= i
    BY <1>3, <1>7
  <2>2. /\ code[a + 2].word = "["
        /\ ends # {} => Ends(code, e) /\ \A k \in a + 3 .. e : code[k].word \notin {"[", "="}
    <3>1. name \in Range(s)
      BY <1>2, <2>1 DEF Range
    <3>2. a = Min({i \in DOMAIN code : code[i].word = name})
      BY <1>3
    <3>3. a + 2 + 1 = a + 3
      BY <1>2, <2>1
    <3> QED
      BY <3>1, <3>2, <3>3, Zenon DEF ReadableList
  <2> HIDE DEF a
  <2>3. Min(at) = a + 2 /\ at # {}
    <3>1. s[a + 2] = "["
      BY <1>2, <2>1, <2>2
    <3>2. a + 2 \in at /\ at \in SUBSET (1 .. Len(s)) /\ \A i \in at : a + 2 <= i
      BY <2>1, <3>1
    <3>3. Len(s) \in Nat
      BY <1>2
    <3> HIDE DEF at, s
    <3> QED
      BY <3>2, <3>3, Least
  <2>4. {k \in Min(at) .. Len(s) : s[k] = "]"} = ends
    <3>1. \A k \in a + 2 .. Len(code) : s[k] = code[k].word
      BY <1>2, <2>1
    <3> HIDE DEF at, code, s
    <3> QED
      BY <1>2, <2>3, <3>1
  <2>5. closing = ends
    <3>1. ASSUME NEW k \in DOMAIN code, code[k].word = "]" PROVE k >= a => k >= a + 2
      <4>1. k # a /\ k # a + 1
        BY <1>2, <2>1, <3>1
      <4> QED
        BY <1>2, <2>1, <4>1
    <3>2. ASSUME NEW k \in DOMAIN code PROVE code[k].line >= code[a].line <=> k >= a
      BY <1>2, <2>1, BeforeLine
    <3> HIDE DEF code
    <3> QED
      BY <1>2, <2>1, <3>1, <3>2 DEF Closing
  <2>6. CASE ends = {}
    BY <1>4, <1>5, <2>4, <2>5, <2>6
  <2>7. CASE ends # {}
    <3>1. e \in ends
      <4>1. ends \in SUBSET (1 .. Len(code))
        BY <1>2, <2>1
      <4> HIDE DEF ends
      <4> QED
        BY <1>2, <2>7, <4>1, Extremes
    <3>2. \A k \in ends : e <= k
      <4>1. ends \in SUBSET (1 .. Len(code))
        BY <1>2, <2>1
      <4> HIDE DEF ends
      <4> QED
        BY <1>2, <2>7, <4>1, Extremes
    <3>3. Ends(code, e) /\ \A k \in a + 3 .. e : code[k].word \notin {"[", "="}
      BY <2>2, <2>7
    <3> DEFINE text == SubSeq(s, a, e)
               n == Len(text)
    <3> HIDE DEF code, s, ends, e
    <3>4. e \in a + 3 .. Len(code) /\ s[e] = "]"
      BY <1>2, <2>1, <2>2, <3>1 DEF ends
    <3>5. Text(code, code[a].line, code[e].line) = text
      <4>1. a \in DOMAIN code /\ e \in DOMAIN code /\ a <= e
        BY <1>2, <2>1, <3>4
      <4> QED
        BY <1>2, <2>1, <3>3, <4>1, TextFacts
    <3>6. /\ text \in Seq(Words) /\ n = e - a + 1 /\ n > 3
          /\ \A k \in 1 .. n : text[k] = s[a + k - 1]
      BY <1>2, <2>1, <3>4
    <3>7. text[1] # "=" /\ text[2] = "=" /\ text[3] = "[" /\ text[n] = "]"
      <4>1. text[1] = s[a] /\ text[2] = s[a + 1] /\ text[3] = s[a + 2] /\ text[n] = s[e]
        <5>1. /\ a \in Int /\ e \in Int /\ n \in Int /\ n = e - a + 1 /\ n > 3
              /\ 1 \in 1 .. n /\ 2 \in 1 .. n /\ 3 \in 1 .. n /\ n \in 1 .. n
          BY <1>2, <2>1, <3>4, <3>6
        <5>2. a + 1 - 1 = a /\ a + 2 - 1 = a + 1 /\ a + 3 - 1 = a + 2 /\ a + n - 1 = e
          BY <5>1
        <5> HIDE DEF text, n
        <5> QED
          BY <3>6, <5>1, <5>2
      <4>2. s[a] = name /\ s[a + 1] = "=" /\ s[a + 2] = "[" /\ s[e] = "]"
        BY <1>2, <2>1, <2>2, <3>4
      <4> HIDE DEF text, n
      <4> QED
        BY <4>1, <4>2
    <3>8. \A k \in 4 .. n - 1 : text[k] \notin {"[", "]", "="}
      <4> SUFFICES ASSUME NEW k \in 4 .. n - 1 PROVE text[k] \notin {"[", "]", "="}
        OBVIOUS
      <4>1. text[k] = s[a + k - 1] /\ a + k - 1 \in a + 3 .. e - 1
        BY <1>2, <2>1, <3>4, <3>6
      <4> DEFINE j == a + k - 1
      <4>2. j \in DOMAIN code /\ j \in a + 3 .. e /\ j \in a + 2 .. Len(code) /\ ~(e <= j)
        BY <1>2, <2>1, <3>4, <4>1
      <4> HIDE DEF j
      <4>3. j \notin ends /\ code[j].word \notin {"[", "="} /\ s[j] = code[j].word
        BY <1>2, <3>2, <3>3, <4>2
      <4>4. s[j] \notin {"[", "]", "="}
        BY <4>2, <4>3 DEF ends
      <4> QED
        BY <4>1, <4>4 DEF j
    <3>9. Eval(text) = Value(SubSeq(text, 4, n - 1))
      <4> HIDE DEF text
      <4> QED
        BY <3>6, <3>7, <3>8, EvalFacts
    <3>10. SubSeq(text, 4, n - 1) = SubSeq(s, a + 3, e - 1)
      BY <1>2, <2>1, <3>4, <3>6
    <3>11. AssignedList(file, name) = SubSeq(s, Min(at) + 1, Min(ends) - 1)
      BY <1>5, <2>3, <2>4, <2>7, Zenon
    <3>12. Min(at) + 1 = a + 3
      BY <1>2, <2>1, <2>3
    <3>13. get_list_from_file(file, name) = Eval(Text(code, code[a].line, code[Min(ends)].line))
      BY <1>4, <1>7, <2>5, <2>7, Zenon
    <3> QED
      BY <3>5, <3>9, <3>10, <3>11, <3>12, <3>13, Zenon DEF e
  <2> QED
    BY <2>6, <2>7
<1> QED
  BY <1>6, <1>7

\* The Boolean is read that the file assigns, or the default.
THEOREM BoolRead ==
  ASSUME NEW file, IsFile(file), NEW name, name # "=", ReadableBool(file, name), NEW default
  PROVE  get_bool_from_file(file, name, default) = Value(AssignedBool(file, name, default))
<1> DEFINE code == Code(file)
           s == Statements(file)
           named == Mentioned(code, name)
           a == Min(named)
           at == {i \in Assigned(file, name) : s[i] \in {"True", "False"}}
<1>1. NamedFirst(file, name)
  BY DEF ReadableBool
<1>2. /\ DOMAIN code = 1 .. Len(code) /\ Len(code) \in Nat /\ s \in Seq(Words) /\ Len(s) = Len(code)
      /\ DOMAIN s = DOMAIN code /\ \A i \in DOMAIN code : s[i] = code[i].word
      /\ IsFile(code) /\ s = Spelled(code)
  BY CodeFacts DEF Statements
<1>3. /\ named = {i \in DOMAIN code : code[i].word = name}
      /\ named = {} => Assigned(file, name) = {}
      /\ named # {} => /\ a \in 1 .. Len(code) - 2 /\ Begins(code, a)
                       /\ s[a] = name /\ s[a + 1] = "=" /\ a + 2 \in Assigned(file, name)
                       /\ \A i \in Assigned(file, name) : i \in 3 .. Len(s) /\ a + 2 <= i
  <2> HIDE DEF code, s
  <2> QED
    BY <1>1, NamedFacts DEF code, s
<1> SUFFICES ASSUME file # Missing
             PROVE  get_bool_from_file(file, name, default) = Value(AssignedBool(file, name, default))
  <2>1. Len(Missing) < 3
    BY Singleton DEF Missing
  <2>2. file = Missing => get_bool_from_file(file, name, default) = Value(default)
    BY DEF get_bool_from_file
  <2> QED
    BY <2>1, <2>2, ShortFile
<1>4. get_bool_from_file(file, name, default) =
        IF named = {} THEN Value(default) ELSE Eval(Text(code, code[a].line, code[a].line))
  BY DEF get_bool_from_file
<1>5. AssignedBool(file, name, default) = IF at = {} THEN default ELSE s[Min(at)] = "True"
  BY DEF AssignedBool
<1>6. CASE named = {}
  <2>1. at = {}
    BY <1>3, <1>6
  <2> QED
    BY <1>4, <1>5, <1>6, <2>1
<1>7. CASE named # {}
  <2>1. /\ a \in 1 .. Len(code) - 2 /\ Begins(code, a) /\ s[a] = name /\ s[a + 1] = "="
        /\ a + 2 \in Assigned(file, name)
        /\ \A i \in Assigned(file, name) : i \in 3 .. Len(s) /\ a + 2 <= i
    BY <1>3, <1>7
  <2>2. /\ code[a + 2].word \in {"True", "False"}
        /\ code[a + 2].line = code[a].line /\ Ends(code, a + 2)
    <3>1. name \in Range(s)
      BY <1>2, <2>1 DEF Range
    <3>2. a = Min({i \in DOMAIN code : code[i].word = name})
      BY <1>3
    <3>3. /\ code[a + 2].word \in {"True", "False"}
          /\ code[a + 2].line = code[(a + 2) - 2].line /\ Ends(code, a + 2)
      BY <3>1, <3>2, Zenon DEF ReadableBool
    <3>4. (a + 2) - 2 = a
      BY <1>2, <2>1
    <3> QED
      BY <3>3, <3>4, Zenon
  <2> HIDE DEF a
  <2>3. Min(at) = a + 2 /\ at # {}
    <3>1. s[a + 2] \in {"True", "False"}
      BY <1>2, <2>1, <2>2
    <3>2. a + 2 \in at /\ at \in SUBSET (1 .. Len(s)) /\ \A i \in at : a + 2 <= i
      BY <2>1, <3>1
    <3>3. Len(s) \in Nat
      BY <1>2
    <3> HIDE DEF at, s
    <3> QED
      BY <3>2, <3>3, Least
  <2> DEFINE text == SubSeq(s, a, a + 2)
  <2> HIDE DEF code, s
  <2>4. Text(code, code[a].line, code[a].line) = text
    <3>1. a \in DOMAIN code /\ a + 2 \in DOMAIN code /\ a <= a + 2
      BY <1>2, <2>1
    <3> QED
      BY <1>2, <2>1, <2>2, <3>1, TextFacts
  <2>5. /\ text \in Seq(Words) /\ Len(text) = 3
        /\ text[1] = s[a] /\ text[2] = s[a + 1] /\ text[3] = s[a + 2]
    <3>1. /\ s \in Seq(Words) /\ a \in 1 .. Len(s) /\ a + 2 \in a .. Len(s) /\ (a + 2) - a + 1 = 3
          /\ a + 1 - 1 = a /\ a + 2 - 1 = a + 1 /\ a + 3 - 1 = a + 2
          /\ 1 \in 1 .. 3 /\ 2 \in 1 .. 3 /\ 3 \in 1 .. 3
      BY <1>2, <2>1
    <3>2. /\ text \in Seq(Words) /\ Len(text) = (a + 2) - a + 1
          /\ \A k \in 1 .. (a + 2) - a + 1 : text[k] = s[a + k - 1]
      BY <3>1, SliceFacts
    <3> HIDE DEF text
    <3> QED
      BY <3>1, <3>2
  <2>6. text[1] # "=" /\ text[2] = "=" /\ text[3] \in {"True", "False"}
    BY <1>2, <2>1, <2>2, <2>5
  <2>7. Eval(text) = Value(text[3] = "True")
    <3> HIDE DEF text
    <3> QED
      BY <2>5, <2>6, EvalFacts
  <2>8. text[3] = s[Min(at)]
    BY <2>3, <2>5
  <2> QED
    BY <1>4, <1>5, <1>7, <2>3, <2>4, <2>7, <2>8, Zenon
<1> QED
  BY <1>6, <1>7

\* The readers return what the files say, for all files they are written for.
THEOREM FilesReadAlways == FilesRead
<1>1. ListsRead
  <2> SUFFICES ASSUME NEW file \in Files, ReadableList(file, "modules_enabled")
               PROVE  get_list_from_file(file, "modules_enabled") = Value(AssignedList(file, "modules_enabled"))
    BY DEF ListsRead
  <2>1. IsFile(file)
    BY ConfigAssumption
  <2> QED
    BY <2>1, ListRead
<1>2. ConfigRead
  <2> DEFINE File(cwd, home) == IF cwd # Missing THEN cwd ELSE IF home # Missing THEN home ELSE <<>>
  <2> SUFFICES ASSUME NEW cwd \in RcFiles \cup {Missing}, NEW home \in RcFiles \cup {Missing},
                      ReadableList(File(cwd, home), "modules_enabled"),
                      ReadableBool(File(cwd, home), "examples_enabled"),
                      ReadableBool(File(cwd, home), "tests_enabled")
               PROVE  LET file == File(cwd, home)
                          list == AssignedList(file, "modules_enabled")
                      IN read_config_file(cwd, home) =
                           Value([config_file_exists |-> {cwd, home} # {Missing},
                                  modules_enabled |-> IF list = <<>> THEN <<"all_modules">> ELSE list,
                                  examples_enabled |-> AssignedBool(file, "examples_enabled", FALSE),
                                  tests_enabled |-> AssignedBool(file, "tests_enabled", FALSE)])
    BY Zenon DEF ConfigRead
  <2> DEFINE file == File(cwd, home)
  <2>1. /\ get_list_from_file(ReadFrom(cwd, home), "modules_enabled") = Value(AssignedList(file, "modules_enabled"))
        /\ get_bool_from_file(ReadFrom(cwd, home), "examples_enabled", FALSE) =
             Value(AssignedBool(file, "examples_enabled", FALSE))
        /\ get_bool_from_file(ReadFrom(cwd, home), "tests_enabled", FALSE) =
             Value(AssignedBool(file, "tests_enabled", FALSE))
    <3>1. CASE cwd = Missing /\ home = Missing
      <4>1. IsFile(<<>>) /\ Len(<<>>) < 3
        BY DEF IsFile
      <4> QED
        BY <3>1, <4>1, ShortFile DEF ReadFrom, get_list_from_file, get_bool_from_file
    <3>2. CASE ~(cwd = Missing /\ home = Missing)
      <4>1. ReadFrom(cwd, home) = file /\ IsFile(file)
        BY <3>2, ConfigAssumption DEF ReadFrom
      <4> QED
        BY <4>1, ListRead, BoolRead
    <3> QED
      BY <3>1, <3>2
  <2>2. ({cwd, home} # {Missing}) = (cwd # Missing \/ home # Missing)
    OBVIOUS
  <2> DEFINE list == get_list_from_file(ReadFrom(cwd, home), "modules_enabled")
             example == get_bool_from_file(ReadFrom(cwd, home), "examples_enabled", FALSE)
             tests == get_bool_from_file(ReadFrom(cwd, home), "tests_enabled", FALSE)
  <2>3. /\ list.raised = FALSE /\ list.value = AssignedList(file, "modules_enabled")
        /\ example.raised = FALSE /\ example.value = AssignedBool(file, "examples_enabled", FALSE)
        /\ tests.raised = FALSE /\ tests.value = AssignedBool(file, "tests_enabled", FALSE)
    <3>1. \A v : Value(v).raised = FALSE /\ Value(v).value = v
      BY DEF Value
    <3> HIDE DEF list, example, tests, file
    <3>2. /\ list = Value(AssignedList(file, "modules_enabled"))
          /\ example = Value(AssignedBool(file, "examples_enabled", FALSE))
          /\ tests = Value(AssignedBool(file, "tests_enabled", FALSE))
      BY <2>1, Zenon DEF list, example, tests
    <3> QED
      BY <3>1, <3>2
  <2>4. read_config_file(cwd, home) =
          Value([config_file_exists |-> cwd # Missing \/ home # Missing,
                 modules_enabled |-> IF list.value = <<>> THEN <<"all_modules">> ELSE list.value,
                 examples_enabled |-> example.value,
                 tests_enabled |-> tests.value])
    BY <2>3, Zenon DEF read_config_file
  <2> QED
    BY <2>2, <2>3, <2>4, Zenon
<1> QED
  BY <1>1, <1>2 DEF FilesRead

----------------------------------------------------------------------------
(* Listings.                                                               *)

\* The first elements of a sequence are elements of it, each as often at most.
LEMMA PrefixFacts ==
  ASSUME NEW T, NEW s \in Seq(T), NEW n \in 0 .. Len(s)
  PROVE  /\ SubSeq(s, 1, n) \in Seq(T)
         /\ Range(SubSeq(s, 1, n)) \subseteq Range(s)
         /\ IsInjective(s) => IsInjective(SubSeq(s, 1, n))
         /\ n = Len(s) => SubSeq(s, 1, n) = s
<1> DEFINE p == SubSeq(s, 1, n)
<1>1. p \in Seq(T) /\ Len(p) = n /\ \A i \in 1 .. n : p[i] = s[i]
  OBVIOUS
<1>2. DOMAIN p = 1 .. n /\ DOMAIN s = 1 .. Len(s) /\ 1 .. n \subseteq 1 .. Len(s)
  OBVIOUS
<1>3. n = Len(s) => p = s
  OBVIOUS
<1>4. Range(p) \subseteq Range(s)
  <2> HIDE DEF p
  <2> QED
    BY <1>1, <1>2 DEF Range
<1>5. IsInjective(s) => IsInjective(p)
  <2> HIDE DEF p
  <2> QED
    BY <1>1, <1>2 DEF IsInjective
<1> QED
  BY <1>1, <1>3, <1>4, <1>5

LEMMA OfKindFacts ==
  ASSUME NEW kind
  PROVE  /\ Suites \in Seq(Range(Suites))
         /\ OfKind(kind) \in Seq(Range(Suites))
         /\ Range(OfKind(kind)) = {s \in Range(Suites) : IsOfKind(s, kind)}
         /\ IsInjective(Suites) => IsInjective(OfKind(kind))
<1>1. Suites \in Seq(Range(Suites))
  <2>1. Suites \in Seq(Words)
    BY SelectionAssumption
  <2> QED
    BY <2>1 DEF Range
<1>2. Range(Suites) \cap {s \in Range(Suites) : IsOfKind(s, kind)}
        = {s \in Range(Suites) : IsOfKind(s, kind)}
  OBVIOUS
<1> QED
  BY <1>1, <1>2, WhereFacts DEF OfKind

\* What a listing prints are suites of the kind, all of them unless it crashed.
LEMMA ListingFacts ==
  ASSUME NEW kind, NEW out \in Listings(kind), Lists(kind, out), crashed \in BOOLEAN
  PROVE  /\ out \in Seq(Range(Suites))
         /\ Range(out) \subseteq Range(OfKind(kind))
         /\ IsInjective(Suites) => IsInjective(out)
         /\ crashed' \in BOOLEAN
         /\ crashed => crashed'
         /\ ~crashed' => Range(out) = Range(OfKind(kind))
<1>1. PICK n \in 0 .. Len(OfKind(kind)) : out = SubSeq(OfKind(kind), 1, n)
  BY DEF Listings
<1>2. /\ out \in Seq(Range(Suites)) /\ Range(out) \subseteq Range(OfKind(kind))
      /\ IsInjective(Suites) => IsInjective(out)
  BY <1>1, OfKindFacts, PrefixFacts
<1>3. crashed' = TRUE \/ (out = OfKind(kind) /\ crashed' = crashed)
  BY DEF Lists
<1> QED
  BY <1>2, <1>3

----------------------------------------------------------------------------
(* Jobs.                                                                   *)

TestsOf(jobs, kind) ==
  {<<jobs[i].name, jobs[i].params>> : i \in {i \in DOMAIN jobs : jobs[i].kind = kind}}
AllOf(jobs) == {<<jobs[i].name, jobs[i].params>> : i \in DOMAIN jobs}

\* With jobs of one kind queued behind those of q, the others are as before, and no
\* job is there twice if that was so.
Added(q, jobs, kind) ==
  /\ TestsOf(q \o jobs, kind) = TestsOf(q, kind) \cup AllOf(jobs)
  /\ \A other : other # kind => TestsOf(q \o jobs, other) = TestsOf(q, other)
  /\ TestsOf(q, kind) = {} /\ IsInjective(q) /\ IsInjective(jobs) => IsInjective(q \o jobs)

LEMMA AddJobs ==
  ASSUME NEW q \in Seq(Jobs), NEW jobs \in Seq(Jobs), NEW kind,
         \A i \in DOMAIN jobs : jobs[i].kind = kind
  PROVE  q \o jobs \in Seq(Jobs) /\ Added(q, jobs, kind)
<1> DEFINE r == q \o jobs
<1>1. Len(q) \in Nat /\ Len(jobs) \in Nat /\ DOMAIN q = 1 .. Len(q) /\ DOMAIN jobs = 1 .. Len(jobs)
  OBVIOUS
<1>2. /\ r \in Seq(Jobs) /\ DOMAIN r = 1 .. Len(q) + Len(jobs)
      /\ \A i \in 1 .. Len(q) : r[i] = q[i]
      /\ \A i \in 1 .. Len(jobs) : r[Len(q) + i] = jobs[i]
  BY <1>1
<1>3. /\ \A i \in DOMAIN q : i \in DOMAIN r /\ r[i] = q[i]
      /\ \A i \in DOMAIN jobs : Len(q) + i \in DOMAIN r /\ r[Len(q) + i] = jobs[i]
      /\ \A i \in DOMAIN r : \/ i \in DOMAIN q /\ r[i] = q[i]
                             \/ i - Len(q) \in DOMAIN jobs /\ r[i] = jobs[i - Len(q)]
  <2> HIDE DEF r
  <2>1. /\ \A i \in DOMAIN q : i \in DOMAIN r
        /\ \A i \in DOMAIN jobs : Len(q) + i \in DOMAIN r
    BY <1>1, <1>2
  <2>2. ASSUME NEW i \in DOMAIN r
        PROVE  \/ i \in DOMAIN q /\ r[i] = q[i]
               \/ i - Len(q) \in DOMAIN jobs /\ r[i] = jobs[i - Len(q)]
    <3>1. CASE i <= Len(q)
      BY <1>1, <1>2, <3>1
    <3>2. CASE ~(i <= Len(q))
      <4>1. i - Len(q) \in 1 .. Len(jobs) /\ Len(q) + (i - Len(q)) = i
        BY <1>1, <1>2, <3>2
      <4> QED
        BY <1>1, <1>2, <4>1
    <3> QED
      BY <3>1, <3>2
  <2> QED
    BY <1>1, <1>2, <2>1, <2>2
<1>4. \A other : TestsOf(r, other) = TestsOf(q, other) \cup
       {<<jobs[i].name, jobs[i].params>> : i \in {i \in DOMAIN jobs : kind = other}}
  <2> HIDE DEF r
  <2> TAKE other
  <2>1. \A n \in TestsOf(r, other) :
          n \in TestsOf(q, other) \cup
            {<<jobs[i].name, jobs[i].params>> : i \in {i \in DOMAIN jobs : kind = other}}
    BY <1>3 DEF TestsOf
  <2>2. \A n \in TestsOf(q, other) : n \in TestsOf(r, other)
    BY <1>3 DEF TestsOf
  <2>3. \A i \in DOMAIN jobs : kind = other => <<jobs[i].name, jobs[i].params>> \in TestsOf(r, other)
    <3> TAKE i \in DOMAIN jobs
    <3>1. Len(q) + i \in DOMAIN r /\ r[Len(q) + i] = jobs[i] /\ jobs[i].kind = kind
      BY <1>3
    <3> QED
      BY <3>1 DEF TestsOf
  <2> QED
    BY <2>1, <2>2, <2>3
<1>5. ASSUME TestsOf(q, kind) = {}, IsInjective(q), IsInjective(jobs) PROVE IsInjective(r)
  <2> HIDE DEF r
  <2>1. \A i \in DOMAIN q : q[i].kind # kind
    BY <1>5 DEF TestsOf
  <2>2. ASSUME NEW i \in DOMAIN r, NEW k \in DOMAIN r, r[i] = r[k] PROVE i = k
    <3>1. CASE i \in DOMAIN q /\ r[i] = q[i] /\ k \in DOMAIN q /\ r[k] = q[k]
      BY <1>5, <2>2, <3>1 DEF IsInjective
    <3>2. CASE /\ i - Len(q) \in DOMAIN jobs /\ r[i] = jobs[i - Len(q)]
               /\ k - Len(q) \in DOMAIN jobs /\ r[k] = jobs[k - Len(q)]
      <4>1. i - Len(q) = k - Len(q)
        BY <1>5, <2>2, <3>2 DEF IsInjective
      <4> QED
        BY <1>1, <1>2, <4>1
    <3> QED
      BY <1>3, <2>1, <2>2, <3>1, <3>2
  <2> QED
    BY <2>2 DEF IsInjective
<1>6. /\ TestsOf(r, kind) = TestsOf(q, kind) \cup AllOf(jobs)
      /\ \A other : other # kind => TestsOf(r, other) = TestsOf(q, other)
  <2> HIDE DEF r
  <2> QED
    BY <1>4 DEF AllOf
<1> QED
  BY <1>2, <1>5, <1>6 DEF Added

\* No two entries of a list have the same name and the same parameters.
Distinct(list) == IsInjective([i \in DOMAIN list |-> <<list[i].name, list[i].params>>])

\* The jobs for a list of entries, with which of them are skipped.
JobsOf(kind, run, skip) ==
  [i \in DOMAIN run |-> Job(kind, run[i].name, run[i].params, run[i].fullness, skip[i])]

\* Jobs made of some of the entries of a list are those of the entries' names, and
\* differ if the entries' names or parameters do.
LEMMA EntryJobs ==
  ASSUME NEW list \in Seq(Entry), NEW S, NEW kind \in Kinds,
         NEW skip \in [DOMAIN Where(list, S) -> BOOLEAN],
         NEW jobs, jobs = JobsOf(kind, Where(list, S), skip)
  PROVE  /\ jobs \in Seq(Jobs)
         /\ \A i \in DOMAIN jobs : jobs[i].kind = kind
         /\ AllOf(jobs) = {<<e.name, e.params>> : e \in Range(list) \cap S}
         /\ Distinct(list) => IsInjective(jobs)
<1> DEFINE run == Where(list, S)
<1>1. /\ run \in Seq(Entry) /\ Range(run) = Range(list) \cap S
      /\ \A k, m \in DOMAIN run : k # m =>
           \E i, j \in DOMAIN list : i # j /\ run[k] = list[i] /\ run[m] = list[j]
  BY WhereFacts
<1>2. jobs = [i \in DOMAIN run |-> Job(kind, run[i].name, run[i].params, run[i].fullness, skip[i])]
  BY DEF JobsOf
<1>3. skip \in [DOMAIN run -> BOOLEAN]
  OBVIOUS
<1> HIDE DEF run
<1>4. \A i \in DOMAIN run : /\ jobs[i] \in Jobs /\ jobs[i].kind = kind
                            /\ jobs[i].name = run[i].name /\ jobs[i].params = run[i].params
  <2>1. \A i \in DOMAIN run : run[i] \in Entry
    BY <1>1
  <2> QED
    BY <1>2, <1>3, <2>1 DEF Job, Jobs, Entry
<1>5. jobs \in Seq(Jobs) /\ DOMAIN jobs = DOMAIN run
  <2>1. DOMAIN run = 1 .. Len(run) /\ Len(run) \in Nat
    BY <1>1
  <2> QED
    BY <1>2, <1>4, <2>1
<1>6. AllOf(jobs) = {<<e.name, e.params>> : e \in Range(list) \cap S}
  <2>1. \A i \in DOMAIN jobs : \E e \in Range(list) \cap S :
          jobs[i].name = e.name /\ jobs[i].params = e.params
    BY <1>1, <1>4, <1>5 DEF Range
  <2>2. \A e \in Range(run) : \E i \in DOMAIN jobs :
          jobs[i].name = e.name /\ jobs[i].params = e.params
    BY <1>4, <1>5 DEF Range
  <2> QED
    BY <1>1, <2>1, <2>2 DEF AllOf
<1>7. ASSUME Distinct(list) PROVE IsInjective(jobs)
  <2>1. \A i, j \in DOMAIN list :
          list[i].name = list[j].name /\ list[i].params = list[j].params => i = j
    BY <1>7 DEF Distinct, IsInjective
  <2>2. ASSUME NEW k \in DOMAIN run, NEW m \in DOMAIN run, k # m PROVE jobs[k] # jobs[m]
    <3>1. PICK i \in DOMAIN list, j \in DOMAIN list : i # j /\ run[k] = list[i] /\ run[m] = list[j]
      BY <1>1, <2>2
    <3>2. list[i].name # list[j].name \/ list[i].params # list[j].params
      BY <2>1, <3>1
    <3>3. jobs[k].name # jobs[m].name \/ jobs[k].params # jobs[m].params
      BY <1>4, <3>1, <3>2, Zenon
    <3> QED
      BY <3>3, Zenon
  <2> QED
    BY <1>5, <2>2 DEF IsInjective
<1> QED
  BY <1>4, <1>5, <1>6, <1>7

----------------------------------------------------------------------------
(* The files that are read.                                                *)

LEMMA FlagFacts ==
  ASSUME NEW c \in Cases, lock = c.lock, ~TornConfig,
         NEW name \in ConfigItems, NEW default \in BOOLEAN
  PROVE  Flag(name, default) \in BOOLEAN
<1> DEFINE begun == Begun(lock, name)
<1>1. begun = {} => Flag(name, default) = default
  BY DEF Flag
<1>2. CASE begun # {}
  <2>1. Len(lock) \in Nat /\ DOMAIN lock = 1 .. Len(lock)
    <3>1. IsFile(lock)
      BY SelectionAssumption DEF Locks
    <3> QED
      BY <3>1, FileFacts
  <2>2. Max(begun) \in begun
    <3>1. begun \in SUBSET (1 .. Len(lock))
      BY <2>1 DEF Begun
    <3> HIDE DEF begun
    <3> QED
      BY <1>2, <2>1, <3>1, Extremes
  <2>3. ~Eval(Line(lock, Max(begun))).raised
    BY <2>2 DEF TornConfig
  <2>4. LET flag == Eval(Line(lock, Max(begun))) IN flag.raised \/ flag.value \in BOOLEAN
    BY <2>2, SelectionAssumption
  <2> QED
    BY <1>2, <2>3, <2>4 DEF Flag
<1> QED
  BY <1>1, <1>2

\* Only entries that are right are left, with a fullness there is, and of the
\* Python examples only those whose script was found.
LEMMA ExampleFacts ==
  ASSUME NEW found \in ExampleFiles, ~WrongEntry(found)
  PROVE  /\ CppExamples(found) \in Seq(Entry)
         /\ \A e \in Range(CppExamples(found)) : e.fullness \in Durations
         /\ PythonExamples(found) \in Seq(Entry)
         /\ \A e \in Range(PythonExamples(found)) : e.name \in Present
<1> DEFINE built == Where(found.cpp_examples, {e \in Entry : e.name \in Built})
           present == Where(found.python_examples, {e \in Entry : e.name \in Present})
<1>1. found.cpp_examples \in Seq(Entry) /\ found.python_examples \in Seq(Entry)
  BY SelectionAssumption
<1>2. /\ built \in Seq(Entry) /\ Range(built) \subseteq Range(found.cpp_examples)
      /\ present \in Seq(Entry)
      /\ \A e \in Range(present) : e.name \in Present
  BY <1>1, WhereFacts
<1> HIDE DEF built, present
<1>3. ASSUME NEW i \in DOMAIN built
      PROVE  CppExample(built[i]) \in Entry /\ CppExample(built[i]).fullness \in Durations
  <2>1. built[i] \in Entry /\ built[i] \in Range(found.cpp_examples)
    BY <1>2 DEF Range
  <2>2. ~WrongCpp(built[i])
    BY <2>1 DEF WrongEntry
  <2>3. IF built[i].fields = 3 THEN "QUICK" \in Durations ELSE Upper(built[i].fullness) \in Durations
    BY <2>1, <2>2 DEF WrongCpp, Durations
  <2>4. \A d \in Durations : d \in Words
    BY SelectionAssumption
  <2>5. "QUICK" \in Durations
    BY DEF Durations
  <2> QED
    BY <2>1, <2>3, <2>4, <2>5 DEF CppExample, Entry
<1>4. ASSUME NEW i \in DOMAIN present
      PROVE  PythonExample(present[i]) \in Entry /\ PythonExample(present[i]).name \in Present
  <2>1. present[i] \in Entry /\ present[i] \in Range(present)
    BY <1>2 DEF Range
  <2>2. present[i].name \in Present
    BY <1>2, <2>1
  <2>3. "QUICK" \in Words
    BY SelectionAssumption DEF Durations
  <2>4. PythonExample(present[i]) \in Entry /\ PythonExample(present[i]).name = present[i].name
    BY <2>1, <2>3 DEF PythonExample, Entry
  <2> QED
    BY <2>2, <2>4
<1>5. /\ CppExamples(found) = [i \in DOMAIN built |-> CppExample(built[i])]
      /\ PythonExamples(found) = [i \in DOMAIN present |-> PythonExample(present[i])]
  BY DEF CppExamples, PythonExamples, built, present
<1>6. /\ DOMAIN built = 1 .. Len(built) /\ Len(built) \in Nat
      /\ DOMAIN present = 1 .. Len(present) /\ Len(present) \in Nat
  BY <1>2
<1> QED
  BY <1>3, <1>4, <1>5, <1>6 DEF Range

----------------------------------------------------------------------------
(* Types.                                                                  *)

LEMMA ProcessorsFacts ==
  ASSUME args \in Args
  PROVE  /\ processors \in Int /\ processors <= Processors
         /\ range(processors) \in 0 .. Processors
         /\ range(processors) = 0 => args.process_limit < 0
<1>1. args.process_limit \in Int /\ Processors \in Nat \ {0}
  BY SelectionAssumption DEF Args
<1> QED
  BY <1>1 DEF processors, range

LEMMA ExitCodes ==
  \A code \in {"0", "1", "2"} : code \in {"none", "0", "1", "2"} /\ code # "none"
  OBVIOUS

LEMMA InitType == Init => TypeOK
<1> SUFFICES ASSUME Init PROVE TypeOK
  OBVIOUS
<1>1. args \in Args
  BY SelectionAssumption DEF Init
<1>2. Processors \in Nat
  BY SelectionAssumption
<1>3. /\ <<>> \in Seq(Entry) /\ <<>> \in Seq(Range(Suites)) /\ <<>> \in Seq(Jobs)
      /\ \A e \in Range(<<>>) : e.fullness \in Durations
  BY DEF Range
<1>4. /\ pc = "config" /\ exit = "none" /\ workers = 0 /\ breaks = 0 /\ queue = <<>>
      /\ suite_list = <<>> /\ single_suite = FALSE /\ crashed = FALSE
      /\ example_tests = <<>> /\ python_tests = <<>>
      /\ config = [tests |-> TRUE, examples |-> TRUE, python |-> FALSE]
  BY DEF Init
<1>5. config \in [tests : BOOLEAN, examples : BOOLEAN, python : BOOLEAN]
  BY <1>4
<1>6. /\ pc \in {"config", "build", "parse", "show", "suites", "drop", "workers", "suite jobs",
                "example jobs", "python jobs", "break jobs", "collect", "done"}
      /\ exit \in {"none", "0", "1", "2"} /\ (exit # "none" <=> pc = "done")
  BY <1>4
<1>7. workers \in 0 .. Processors /\ breaks \in {0, workers}
  BY <1>2, <1>4
<1>8. /\ example_tests \in Seq(Entry) /\ python_tests \in Seq(Entry)
      /\ \A e \in Range(example_tests) : e.fullness \in Durations
  BY <1>3, <1>4
<1>9. /\ suite_list \in Seq(Range(Suites)) /\ single_suite \in BOOLEAN /\ crashed \in BOOLEAN
      /\ queue \in Seq(Jobs)
  BY <1>3, <1>4
<1> QED
  BY <1>1, <1>5, <1>6, <1>7, <1>8, <1>9 DEF TypeOK

----------------------------------------------------------------------------
(* What is queued.                                                         *)

LEMMA QueuedTests ==
  /\ \A kind : Tests(kind) = TestsOf(queue, kind) /\ Tests(kind)' = TestsOf(queue', kind)
  /\ \A kind : Queued(kind) = {t[1] : t \in Tests(kind)}
  /\ \A kind : Queued(kind)' = {t[1] : t \in TestsOf(queue', kind)}
<1>1. \A kind : Tests(kind) = TestsOf(queue, kind) /\ Tests(kind)' = TestsOf(queue', kind)
  BY DEF Tests, TestsOf
<1>2. ASSUME NEW q, NEW kind
      PROVE  {q[i].name : i \in {i \in DOMAIN q : q[i].kind = kind}} = {t[1] : t \in TestsOf(q, kind)}
  <2> DEFINE I == {i \in DOMAIN q : q[i].kind = kind}
  <2>1. TestsOf(q, kind) = {<<q[i].name, q[i].params>> : i \in I}
    BY DEF TestsOf
  <2> HIDE DEF I
  <2>2. \A i \in I : \E t \in TestsOf(q, kind) : q[i].name = t[1]
    <3> TAKE i \in I
    <3>1. <<q[i].name, q[i].params>> \in TestsOf(q, kind)
      BY <2>1
    <3>2. <<q[i].name, q[i].params>>[1] = q[i].name
      OBVIOUS
    <3> QED
      BY <3>1, <3>2
  <2>3. \A t \in TestsOf(q, kind) : \E i \in I : q[i].name = t[1]
    BY <2>1
  <2>4. {q[i].name : i \in I} = {t[1] : t \in TestsOf(q, kind)}
    BY <2>2, <2>3
  <2> QED
    BY <2>4 DEF I
<1>3. \A kind : Queued(kind) = {t[1] : t \in TestsOf(queue, kind)}
  BY <1>2 DEF Queued
<1>4. \A kind : Queued(kind)' = {t[1] : t \in TestsOf(queue', kind)}
  BY <1>2 DEF Queued
<1>5. \A kind : Queued(kind) = {t[1] : t \in Tests(kind)}
  BY <1>1, <1>3
<1> QED
  BY <1>1, <1>4, <1>5

\* One job for each suite.
LEMMA SuiteJobs ==
  ASSUME TypeOK, QueueSuites
  PROVE  /\ queue' \in Seq(Jobs)
         /\ Queued("suite")' = Range(suite_list)
         /\ \A kind : kind # "suite" => Tests(kind)' = {}
         /\ IsInjective(suite_list) => IsInjective(queue')
<1> DEFINE skip(s) == \/ args.valgrind /\ s \in core_valgrind_skip_tests
                      \/ <<s, None>> \in args.passed
<1>1. /\ suite_list \in Seq(Range(Suites)) /\ args.fullness \in Durations
      /\ \A s \in Range(Suites) : s \in Words
      /\ None \in Words /\ args.fullness \in Words
  <2>1. Suites \in Seq(Words) /\ Durations \cup {None} \subseteq Words
    BY SelectionAssumption
  <2>2. \A s \in Range(Suites) : s \in Words
    BY <2>1 DEF Range
  <2>3. suite_list \in Seq(Range(Suites)) /\ args \in Args
    BY DEF TypeOK
  <2> QED
    BY <2>1, <2>2, <2>3 DEF Args
<1>2. queue' = [i \in DOMAIN suite_list |->
                  Job("suite", suite_list[i], None, args.fullness, skip(suite_list[i]))]
  BY DEF QueueSuites
<1>3. \A s : skip(s) \in BOOLEAN
  OBVIOUS
<1> HIDE DEF skip
<1>4. DOMAIN suite_list = 1 .. Len(suite_list) /\ Len(suite_list) \in Nat
  BY <1>1
<1>5. \A i \in DOMAIN suite_list : suite_list[i] \in Words
  BY <1>1
<1>6. \A i \in DOMAIN suite_list : /\ queue'[i] \in Jobs /\ queue'[i].kind = "suite"
                                   /\ queue'[i].name = suite_list[i]
  BY <1>1, <1>2, <1>3, <1>5 DEF Job, Jobs, Kinds
<1>7. queue' \in Seq(Jobs) /\ DOMAIN queue' = DOMAIN suite_list
  BY <1>2, <1>4, <1>6
<1>8. Queued("suite")' = Range(suite_list)
  BY <1>6, <1>7 DEF Queued, Range
<1>9. \A kind : kind # "suite" => Tests(kind)' = {}
  BY <1>6, <1>7 DEF Tests
<1>10. IsInjective(suite_list) => IsInjective(queue')
  BY <1>6, <1>7 DEF IsInjective
<1> QED
  BY <1>7, <1>8, <1>9, <1>10

\* What --example asks for: by a wildcard the listed examples it matches, otherwise
\* what is listed as it was asked for, or the example without its parameters.
LEMMA RequestedFacts ==
  ASSUME TypeOK
  PROVE  /\ Requested \in Seq(Entry)
         /\ Distinct(example_tests) => Distinct(Requested)
         /\ args.wild => Range(Requested) =
              {e \in Range(example_tests) : e.name \in Matching[args.example]}
         /\ ~args.wild => \A e \in Range(Requested) :
              e.name = args.example /\ (e.params = args.params \/ e.params = None)
         /\ ~args.wild /\ args.example \in programs => Requested # <<>>
         /\ ~args.wild => \A e \in Range(Requested) : e.run \/
              (e \in Range(example_tests) /\ e.params = args.params)
<1> DEFINE S == {e \in Entry : IF args.wild THEN e.name \in Matching[args.example]
                               ELSE e.name = args.example /\ e.params = args.params}
           found == Where(example_tests, S)
           unlisted == [name |-> args.example, params |-> None, run |-> TRUE, grind |-> TRUE,
                        fullness |-> "QUICK", fields |-> 4]
<1>1. example_tests \in Seq(Entry) /\ args \in Args
  BY DEF TypeOK
<1>2. /\ found \in Seq(Entry) /\ Range(found) = Range(example_tests) \cap S
      /\ \A k, m \in DOMAIN found : k # m =>
           \E i, j \in DOMAIN example_tests :
             i # j /\ found[k] = example_tests[i] /\ found[m] = example_tests[j]
  <2> HIDE DEF S
  <2> QED
    BY <1>1, WhereFacts
<1>3. ~args.wild => \A e \in Range(found) :
        e.name = args.example /\ e.params = args.params /\ e \in Range(example_tests)
  BY <1>2
<1>4. Distinct(example_tests) => Distinct(found)
  <2> HIDE DEF S, found
  <2> QED
    BY <1>2 DEF Distinct, IsInjective
<1>5. args.wild => Range(found) = {e \in Range(example_tests) : e.name \in Matching[args.example]}
  <2>1. \A e \in Range(example_tests) : e \in Entry
    BY <1>1 DEF Range
  <2> QED
    BY <1>2, <2>1
<1>6. unlisted \in Entry /\ unlisted.name = args.example /\ unlisted.params = None /\ unlisted.run
  <2>1. None \in Words /\ "QUICK" \in Words
    BY SelectionAssumption DEF Durations
  <2> QED
    BY <1>1, <2>1 DEF Entry, Args
<1>7. Requested = IF found # <<>> THEN found
                  ELSE IF ~args.wild /\ args.example \in programs THEN <<unlisted>> ELSE <<>>
  BY DEF Requested
<1> HIDE DEF S, found, unlisted
<1>8. /\ <<unlisted>> \in Seq(Entry) /\ <<>> \in Seq(Entry)
      /\ Range(<<unlisted>>) = {unlisted} /\ Range(<<>>) = {} /\ <<unlisted>> # <<>>
      /\ Distinct(<<unlisted>>) /\ Distinct(<<>>)
  BY <1>6 DEF Distinct, IsInjective, Range
<1>9. CASE found # <<>>
  BY <1>2, <1>3, <1>4, <1>5, <1>7, <1>9
<1>10. CASE found = <<>> /\ ~args.wild /\ args.example \in programs
  BY <1>6, <1>7, <1>8, <1>10
<1>11. CASE found = <<>> /\ ~(~args.wild /\ args.example \in programs)
  BY <1>5, <1>7, <1>8, <1>11
<1> QED
  BY <1>9, <1>10, <1>11

\* One job for each example that was asked for and can run.
LEMMA ExampleJobs ==
  ASSUME TypeOK, QueueExamples, ExamplesWanted
  PROVE  \E jobs \in Seq(Jobs) :
           /\ queue' = queue \o jobs
           /\ \A i \in DOMAIN jobs : jobs[i].kind = "example"
           /\ AllOf(jobs) =
                Available(IF args.example = None THEN example_tests ELSE Requested, programs)
           /\ Distinct(example_tests) => IsInjective(jobs)
<1> DEFINE wanted == IF args.example = None THEN example_tests ELSE Requested
           S == {e \in Entry : Runnable(e)}
           run == Where(wanted, S)
           skip == [i \in DOMAIN run |-> \/ args.valgrind /\ ~run[i].grind
                                         \/ <<run[i].name, run[i].params>> \in args.passed
                                         \/ TooLong(run[i].fullness)]
           jobs == JobsOf("example", run, skip)
<1>1. wanted \in Seq(Entry) /\ (Distinct(example_tests) => Distinct(wanted))
  BY RequestedFacts DEF TypeOK
<1>2. queue' = queue \o [i \in DOMAIN run |->
               Job("example", run[i].name, run[i].params, run[i].fullness,
                   \/ args.valgrind /\ ~run[i].grind
                   \/ <<run[i].name, run[i].params>> \in args.passed
                   \/ TooLong(run[i].fullness))]
  BY DEF QueueExamples, ExamplesWanted
<1>3. queue' = queue \o jobs
  BY <1>2 DEF JobsOf
<1>4. skip \in [DOMAIN run -> BOOLEAN] /\ "example" \in Kinds
  BY DEF Kinds, TooLong
<1> HIDE DEF wanted, S, skip
<1>5. /\ jobs \in Seq(Jobs)
      /\ \A i \in DOMAIN jobs : jobs[i].kind = "example"
      /\ AllOf(jobs) = {<<e.name, e.params>> : e \in Range(wanted) \cap S}
      /\ Distinct(wanted) => IsInjective(jobs)
  BY <1>1, <1>4, EntryJobs
<1> HIDE DEF jobs
<1>6. Range(wanted) \cap S = {e \in Range(wanted) : e.run /\ e.name \in programs}
  <2>1. \A e \in Range(wanted) : e \in Entry
    BY <1>1 DEF Range
  <2> QED
    BY <2>1 DEF S, Runnable
<1>7. AllOf(jobs) = Available(wanted, programs)
  BY <1>5, <1>6 DEF Available
<1> QED
  BY <1>1, <1>3, <1>5, <1>7 DEF wanted

\* The Python examples that can run, the script that was asked for, or nothing.
LEMMA PythonJobs ==
  ASSUME TypeOK, QueuePythonExamples
  PROVE  \E jobs \in Seq(Jobs) :
           /\ queue' = queue \o jobs
           /\ \A i \in DOMAIN jobs : jobs[i].kind = "pyexample"
           /\ AllOf(jobs) =
                IF PythonWanted THEN Available(python_tests, scripts)
                ELSE {<<script, None>> :
                        script \in ({args.pyexample} \ {None}) \cap scripts \cap Present}
           /\ Distinct(python_tests) => IsInjective(jobs)
<1>0. queue \in Seq(Jobs) /\ args \in Args /\ python_tests \in Seq(Entry)
  BY DEF TypeOK
<1>1. CASE PythonWanted
  <2> DEFINE S == {e \in Entry : e.name \in scripts /\ e.run}
             run == Where(python_tests, S)
             skip == [i \in DOMAIN run |-> args.valgrind \/ ~config.python \/ TooLong(run[i].fullness)]
             jobs == JobsOf("pyexample", run, skip)
  <2>1. queue' = queue \o [i \in DOMAIN run |->
                Job("pyexample", run[i].name, run[i].params, run[i].fullness,
                    args.valgrind \/ ~config.python \/ TooLong(run[i].fullness))]
    BY <1>1 DEF QueuePythonExamples, NothingNamed, PythonWanted
  <2>2. queue' = queue \o jobs
    BY <2>1 DEF JobsOf
  <2>3. skip \in [DOMAIN run -> BOOLEAN] /\ "pyexample" \in Kinds
    BY DEF Kinds, TooLong
  <2> HIDE DEF S, skip
  <2>4. /\ jobs \in Seq(Jobs)
        /\ \A i \in DOMAIN jobs : jobs[i].kind = "pyexample"
        /\ AllOf(jobs) = {<<e.name, e.params>> : e \in Range(python_tests) \cap S}
        /\ Distinct(python_tests) => IsInjective(jobs)
    BY <1>0, <2>3, EntryJobs
  <2> HIDE DEF jobs
  <2>5. Range(python_tests) \cap S = {e \in Range(python_tests) : e.run /\ e.name \in scripts}
    <3>1. \A e \in Range(python_tests) : e \in Entry
      BY <1>0 DEF Range
    <3> QED
      BY <3>1 DEF S
  <2>6. AllOf(jobs) = Available(python_tests, scripts)
    BY <2>4, <2>5 DEF Available
  <2> QED
    BY <1>1, <2>2, <2>4, <2>6
<1>2. CASE args.pyexample # None /\ args.pyexample \in scripts \cap Present
  <2> DEFINE job == Job("pyexample", args.pyexample, None, "QUICK", FALSE)
  <2>1. queue' = Append(queue, job) /\ ~PythonWanted
    BY <1>2 DEF QueuePythonExamples, NothingNamed, PythonWanted
  <2>2. job \in Jobs /\ job.kind = "pyexample" /\ job.name = args.pyexample /\ job.params = None
    <3>1. None \in Words /\ "QUICK" \in Words
      BY SelectionAssumption DEF Durations
    <3> QED
      BY <1>0, <3>1 DEF Job, Jobs, Kinds, Args
  <2> HIDE DEF job
  <2>3. <<job>> \in Seq(Jobs) /\ queue' = queue \o <<job>> /\ IsInjective(<<job>>)
    BY <1>0, <2>1, <2>2 DEF IsInjective
  <2>4. DOMAIN <<job>> = {1} /\ \A i \in DOMAIN <<job>> : <<job>>[i] = job
    OBVIOUS
  <2>5. AllOf(<<job>>) = {<<args.pyexample, None>>}
    BY <2>2, <2>4 DEF AllOf
  <2>6. ({args.pyexample} \ {None}) \cap scripts \cap Present = {args.pyexample}
    BY <1>2
  <2>7. AllOf(<<job>>) = {<<script, None>> : script \in {args.pyexample}}
    BY <2>5
  <2> QED
    BY <2>1, <2>2, <2>3, <2>4, <2>6, <2>7
<1>3. CASE /\ queue' = queue /\ ~PythonWanted
           /\ args.pyexample = None \/ args.pyexample \notin scripts \cap Present
  <2>1. <<>> \in Seq(Jobs) /\ queue' = queue \o <<>> /\ IsInjective(<<>>) /\ DOMAIN <<>> = {}
    BY <1>0, <1>3 DEF IsInjective
  <2>2. AllOf(<<>>) = {}
    BY <2>1 DEF AllOf
  <2>3. ({args.pyexample} \ {None}) \cap scripts \cap Present = {}
    BY <1>3
  <2>4. {<<script, None>> : script \in {}} = {}
    OBVIOUS
  <2> QED
    BY <1>3, <2>1, <2>2, <2>3, <2>4
<1> QED
  BY <1>1, <1>2, <1>3 DEF QueuePythonExamples, PythonWanted, NothingNamed

----------------------------------------------------------------------------
(* Each step keeps the types.                                              *)

LEMMA FlowKept ==
  ASSUME TypeOK, [Next]_vars
  PROVE  /\ pc' \in {"config", "build", "parse", "show", "suites", "drop", "workers", "suite jobs",
                     "example jobs", "python jobs", "break jobs", "collect", "done"}
         /\ exit' \in {"none", "0", "1", "2"} /\ (exit' # "none" <=> pc' = "done")
<1> DEFINE Goal == /\ pc' \in {"config", "build", "parse", "show", "suites", "drop", "workers",
                               "suite jobs", "example jobs", "python jobs", "break jobs", "collect",
                               "done"}
                   /\ exit' \in {"none", "0", "1", "2"} /\ (exit' # "none" <=> pc' = "done")
<1>1. /\ pc \in {"config", "build", "parse", "show", "suites", "drop", "workers", "suite jobs",
                 "example jobs", "python jobs", "break jobs", "collect", "done"}
      /\ exit \in {"none", "0", "1", "2"} /\ (exit # "none" <=> pc = "done")
  BY DEF TypeOK
<1>2. \A code \in {"0", "1", "2"} : Exit(code) => Goal
  BY DEF Exit
<1>3. \A at \in {"build", "parse", "show", "suites", "drop", "workers", "suite jobs", "example jobs",
                 "python jobs", "break jobs", "collect"} : pc # "done" /\ Continue(at) => Goal
  BY <1>1 DEF Continue
<1>4. UNCHANGED vars => Goal
  BY <1>1 DEF vars
<1> SUFFICES Goal
  OBVIOUS
<1> HIDE DEF Goal
<1>5. CASE read_ns3_config
  BY <1>2, <1>3, <1>5 DEF read_ns3_config
<1>6. CASE Build
  BY <1>2, <1>3, <1>6 DEF Build
<1>7. CASE ParseExamples
  BY <1>2, <1>3, <1>7 DEF ParseExamples
<1>8. CASE Show
  BY <1>2, <1>3, <1>8 DEF Show
<1>9. CASE ListSuites
  BY <1>2, <1>3, <1>9 DEF ListSuites
<1>10. CASE DropPerformance
  BY <1>3, <1>10 DEF DropPerformance
<1>11. CASE StartWorkers
  BY <1>3, <1>11 DEF StartWorkers
<1>12. CASE QueueSuites
  BY <1>3, <1>12 DEF QueueSuites
<1>13. CASE QueueExamples
  BY <1>3, <1>13 DEF QueueExamples
<1>14. CASE QueuePythonExamples
  BY <1>3, <1>14 DEF QueuePythonExamples
<1>15. CASE QueueBreaks
  BY <1>3, <1>15 DEF QueueBreaks
<1>16. CASE Collect
  BY <1>2, <1>16 DEF Collect
<1> QED
  BY <1>4, <1>5, <1>6, <1>7, <1>8, <1>9, <1>10, <1>11, <1>12, <1>13, <1>14, <1>15, <1>16 DEF Next

\* What a step changes besides pc and exit.
LEMMA Changes ==
  ASSUME [Next]_vars
  PROVE  /\ args' = args
         /\ config' = config \/ read_ns3_config
         /\ lock' = lock \/ Build
         /\ UNCHANGED examples \/ ParseExamples
         /\ UNCHANGED <<suite_list, crashed>> \/ ListSuites \/ DropPerformance
         /\ UNCHANGED single_suite \/ ListSuites
         /\ UNCHANGED workers \/ StartWorkers
         /\ UNCHANGED queue \/ QueueSuites \/ QueueExamples \/ QueuePythonExamples
         /\ UNCHANGED breaks \/ QueueBreaks
<1> USE DEF examples, selection
<1>1. CASE read_ns3_config
  BY <1>1 DEF read_ns3_config
<1>2. CASE Build
  BY <1>2 DEF Build
<1>3. CASE ParseExamples
  BY <1>3 DEF ParseExamples
<1>4. CASE Show
  BY <1>4 DEF Show
<1>5. CASE ListSuites
  BY <1>5 DEF ListSuites
<1>6. CASE DropPerformance
  BY <1>6 DEF DropPerformance
<1>7. CASE StartWorkers
  BY <1>7 DEF StartWorkers
<1>8. CASE QueueSuites
  BY <1>8 DEF QueueSuites
<1>9. CASE QueueExamples
  BY <1>9 DEF QueueExamples
<1>10. CASE QueuePythonExamples
  BY <1>10 DEF QueuePythonExamples
<1>11. CASE QueueBreaks
  BY <1>11 DEF QueueBreaks
<1>12. CASE Collect
  BY <1>12 DEF Collect
<1>13. CASE UNCHANGED vars
  BY <1>13 DEF vars
<1> QED
  BY <1>1, <1>2, <1>3, <1>4, <1>5, <1>6, <1>7, <1>8, <1>9, <1>10, <1>11, <1>12, <1>13 DEF Next

LEMMA TypeKept ==
  ASSUME SelectionInv, [Next]_vars
  PROVE  TypeOK'
<1>0. TypeOK /\ ParsedInv /\ ListedInv /\ QueuedInv /\ WorkersInv
  BY DEF SelectionInv
<1>1. args' \in Args
  BY <1>0, Changes DEF TypeOK
<1>2. config' \in [tests : BOOLEAN, examples : BOOLEAN, python : BOOLEAN]
  <2>1. CASE read_ns3_config
    <3>1. PICK c \in Cases : lock = c.lock
      BY <1>0, <2>1 DEF ParsedInv, read_ns3_config
    <3>2. ~TornConfig => /\ Flag("ENABLE_TESTS", TRUE) \in BOOLEAN
                         /\ Flag("ENABLE_EXAMPLES", TRUE) \in BOOLEAN
                         /\ Flag("ENABLE_PYTHON_BINDINGS", FALSE) \in BOOLEAN
      BY <3>1, FlagFacts DEF ConfigItems
    <3>3. config \in [tests : BOOLEAN, examples : BOOLEAN, python : BOOLEAN]
      BY <1>0 DEF TypeOK
    <3>4. \/ config' = config
          \/ /\ ~TornConfig
             /\ config' = [tests |-> Flag("ENABLE_TESTS", TRUE),
                           examples |-> Flag("ENABLE_EXAMPLES", TRUE),
                           python |-> Flag("ENABLE_PYTHON_BINDINGS", FALSE)]
      BY <2>1 DEF read_ns3_config
    <3>5. \A t, e, p \in BOOLEAN : [tests |-> t, examples |-> e, python |-> p]
                                     \in [tests : BOOLEAN, examples : BOOLEAN, python : BOOLEAN]
      OBVIOUS
    <3>6. CASE config' = config
      BY <3>3, <3>6
    <3>7. CASE config' # config
      <4>1. /\ ~TornConfig
            /\ config' = [tests |-> Flag("ENABLE_TESTS", TRUE),
                          examples |-> Flag("ENABLE_EXAMPLES", TRUE),
                          python |-> Flag("ENABLE_PYTHON_BINDINGS", FALSE)]
        BY <3>4, <3>7
      <4>2. /\ Flag("ENABLE_TESTS", TRUE) \in BOOLEAN /\ Flag("ENABLE_EXAMPLES", TRUE) \in BOOLEAN
            /\ Flag("ENABLE_PYTHON_BINDINGS", FALSE) \in BOOLEAN
        BY <3>2, <4>1
      <4> QED
        BY <3>5, <4>1, <4>2, Zenon
    <3> QED
      BY <3>6, <3>7
  <2> QED
    BY <1>0, <2>1, Changes DEF TypeOK
<1>3. /\ example_tests' \in Seq(Entry) /\ python_tests' \in Seq(Entry)
      /\ \A e \in Range(example_tests') : e.fullness \in Durations
  <2>1. /\ example_tests \in Seq(Entry) /\ python_tests \in Seq(Entry)
        /\ \A e \in Range(example_tests) : e.fullness \in Durations
    BY <1>0 DEF TypeOK
  <2>2. CASE UNCHANGED examples
    BY <2>1, <2>2 DEF examples
  <2>3. CASE ~UNCHANGED examples
    <3>1. PICK found \in ExampleFiles :
            /\ ~WrongEntry(found)
            /\ example_tests' = CppExamples(found) /\ python_tests' = PythonExamples(found)
      BY <2>3, Changes DEF ParseExamples
    <3> QED
      BY <3>1, ExampleFacts
  <2> QED
    BY <2>2, <2>3
<1>4. /\ suite_list' \in Seq(Range(Suites)) /\ single_suite' \in BOOLEAN /\ crashed' \in BOOLEAN
  <2>1. suite_list \in Seq(Range(Suites)) /\ single_suite \in BOOLEAN /\ crashed \in BOOLEAN
    BY <1>0 DEF TypeOK
  <2>2. CASE UNCHANGED <<suite_list, single_suite, crashed>>
    BY <2>1, <2>2
  <2>3. CASE ListSuites
    <3>1. CASE args.suite # None
      <4>1. PICK out \in Listings(None) :
              /\ Lists(None, out)
              /\ suite_list' = Where(out, Matching[args.suite]) /\ single_suite' = (Len(suite_list') = 1)
        BY <2>3, <3>1 DEF ListSuites
      <4>2. out \in Seq(Range(Suites)) /\ crashed' \in BOOLEAN
        BY <2>1, <4>1, ListingFacts
      <4> QED
        BY <4>1, <4>2, WhereFacts
    <3>2. CASE args.suite = None
      <4>1. single_suite' = single_suite
        BY <2>3, <3>2 DEF ListSuites
      <4>2. \/ UNCHANGED <<suite_list, crashed>>
            \/ \E out \in Listings(args.constrain) : Lists(args.constrain, out) /\ suite_list' = out
        BY <2>3, <3>2 DEF ListSuites
      <4> QED
        BY <2>1, <4>1, <4>2, ListingFacts
    <3> QED
      BY <3>1, <3>2
  <2>4. CASE DropPerformance
    <3>1. single_suite' = single_suite
      BY <2>4 DEF DropPerformance
    <3>2. \/ UNCHANGED <<suite_list, crashed>>
          \/ \E out \in Listings("performance") :
               /\ Lists("performance", out)
               /\ suite_list' = Where(suite_list, Range(suite_list) \ Range(out))
      BY <2>4 DEF DropPerformance
    <3> QED
      <4>1. CASE UNCHANGED <<suite_list, crashed>>
        BY <2>1, <3>1, <4>1
      <4>2. CASE ~UNCHANGED <<suite_list, crashed>>
        <5>1. PICK out \in Listings("performance") :
                /\ Lists("performance", out)
                /\ suite_list' = Where(suite_list, Range(suite_list) \ Range(out))
          BY <3>2, <4>2
        <5>2. crashed' \in BOOLEAN
          BY <2>1, <5>1, ListingFacts
        <5> QED
          BY <2>1, <3>1, <5>1, <5>2, WhereFacts
      <4> QED
        BY <4>1, <4>2
  <2> QED
    BY <2>2, <2>3, <2>4, Changes
<1>5. queue' \in Seq(Jobs)
  <2>0. queue \in Seq(Jobs)
    BY <1>0 DEF TypeOK
  <2>1. CASE QueueSuites
    BY <1>0, <2>1, SuiteJobs
  <2>2. CASE QueueExamples
    <3>1. CASE ExamplesWanted
      BY <1>0, <2>0, <2>2, <3>1, ExampleJobs, AddJobs
    <3>2. CASE ~ExamplesWanted
      BY <2>0, <2>2, <3>2 DEF QueueExamples, ExamplesWanted
    <3> QED
      BY <3>1, <3>2
  <2>3. CASE QueuePythonExamples
    BY <1>0, <2>0, <2>3, PythonJobs, AddJobs
  <2> QED
    BY <2>0, <2>1, <2>2, <2>3, Changes
<1>6. workers' \in 0 .. Processors /\ breaks' \in {0, workers'}
  <2>1. workers \in 0 .. Processors /\ breaks \in {0, workers} /\ args \in Args
    BY <1>0 DEF TypeOK
  <2>2. range(processors) \in 0 .. Processors
    BY <2>1, ProcessorsFacts
  <2>3. CASE StartWorkers
    <3>1. breaks = 0 /\ breaks' = breaks
      BY <1>0, <2>3 DEF StartWorkers, WorkersInv
    <3> QED
      BY <2>2, <2>3, <3>1 DEF StartWorkers
  <2>4. CASE QueueBreaks
    <3>1. workers = range(processors)
      BY <1>0, <2>4 DEF QueueBreaks, WorkersInv, Queueing
    <3> QED
      BY <2>1, <2>4, <3>1 DEF QueueBreaks
  <2> QED
    BY <2>1, <2>3, <2>4, Changes
<1> QED
  BY <1>0, <1>1, <1>2, <1>3, <1>4, <1>5, <1>6, FlowKept DEF TypeOK

----------------------------------------------------------------------------
(* Each step keeps the rest of the invariant.                              *)

\* The order of the steps.
LEMMA Order ==
  /\ read_ns3_config => pc = "config" /\ pc' \in {"build", "done"}
  /\ Build => pc = "build" /\ pc' \in {"parse", "done"}
  /\ ParseExamples => pc = "parse" /\ pc' \in {"show", "done"}
  /\ Show => pc = "show" /\ pc' \in {"suites", "done"}
  /\ ListSuites => pc = "suites" /\ pc' \in {"drop", "done"}
  /\ DropPerformance => pc = "drop" /\ pc' = "workers"
  /\ StartWorkers => pc = "workers" /\ pc' = "suite jobs"
  /\ QueueSuites => pc = "suite jobs" /\ pc' = "example jobs"
  /\ QueueExamples => pc = "example jobs" /\ pc' = "python jobs"
  /\ QueuePythonExamples => pc = "python jobs" /\ pc' = "break jobs"
  /\ QueueBreaks => pc = "break jobs" /\ pc' = "collect"
  /\ Collect => pc = "collect" /\ pc' = "done"
<1> USE DEF Exit, Continue
<1>1. read_ns3_config => pc = "config" /\ pc' \in {"build", "done"}
  BY DEF read_ns3_config
<1>2. Build => pc = "build" /\ pc' \in {"parse", "done"}
  BY DEF Build
<1>3. ParseExamples => pc = "parse" /\ pc' \in {"show", "done"}
  BY DEF ParseExamples
<1>4. Show => pc = "show" /\ pc' \in {"suites", "done"}
  BY DEF Show
<1>5. ListSuites => pc = "suites" /\ pc' \in {"drop", "done"}
  BY DEF ListSuites
<1>6. DropPerformance => pc = "drop" /\ pc' = "workers"
  BY DEF DropPerformance
<1>7. StartWorkers => pc = "workers" /\ pc' = "suite jobs"
  BY DEF StartWorkers
<1>8. QueueSuites => pc = "suite jobs" /\ pc' = "example jobs"
  BY DEF QueueSuites
<1>9. QueueExamples => pc = "example jobs" /\ pc' = "python jobs"
  BY DEF QueueExamples
<1>10. QueuePythonExamples => pc = "python jobs" /\ pc' = "break jobs"
  BY DEF QueuePythonExamples
<1>11. QueueBreaks => pc = "break jobs" /\ pc' = "collect"
  BY DEF QueueBreaks
<1>12. Collect => pc = "collect" /\ pc' = "done"
  BY DEF Collect
<1> QED
  BY <1>1, <1>2, <1>3, <1>4, <1>5, <1>6, <1>7, <1>8, <1>9, <1>10, <1>11, <1>12

\* From one step to the next, or to the end; Changes and Order together.
LEMMA Moves ==
  ASSUME [Next]_vars
  PROVE  /\ pc' = pc \/ pc' = "done" \/
              <<pc, pc'>> \in {<<"config", "build">>, <<"build", "parse">>, <<"parse", "show">>,
                              <<"show", "suites">>, <<"suites", "drop">>, <<"drop", "workers">>,
                              <<"workers", "suite jobs">>, <<"suite jobs", "example jobs">>,
                              <<"example jobs", "python jobs">>, <<"python jobs", "break jobs">>,
                              <<"break jobs", "collect">>}
         /\ pc' = pc => UNCHANGED vars
         /\ pc = "parse" => ParseExamples \/ UNCHANGED vars
         /\ pc = "suites" => ListSuites \/ UNCHANGED vars
         /\ pc = "drop" => DropPerformance \/ UNCHANGED vars
         /\ pc = "workers" => StartWorkers \/ UNCHANGED vars
         /\ pc = "suite jobs" => QueueSuites \/ UNCHANGED vars
         /\ pc = "example jobs" => QueueExamples \/ UNCHANGED vars
         /\ pc = "python jobs" => QueuePythonExamples \/ UNCHANGED vars
         /\ pc = "break jobs" => QueueBreaks \/ UNCHANGED vars
<1>1. CASE Next
  BY <1>1, Order DEF Next
<1>2. CASE UNCHANGED vars
  BY <1>2 DEF vars
<1> QED
  BY <1>1, <1>2

LEMMA ParsedKept ==
  ASSUME SelectionInv, [Next]_vars
  PROVE  ParsedInv'
<1>0. ParsedInv
  BY DEF SelectionInv
<1>1. \E c \in Cases : args' = c.args /\ (pc' \in {"config", "build"} => lock' = c.lock)
  <2>1. PICK c \in Cases : args = c.args /\ (pc \in {"config", "build"} => lock = c.lock)
    BY <1>0 DEF ParsedInv
  <2>2. pc' \in {"config", "build"} => pc \in {"config", "build"} /\ ~Build
    <3>1. Build => pc' \notin {"config", "build"}
      BY Order
    <3> QED
      BY <3>1, Moves
  <2> QED
    BY <2>1, <2>2, Changes
<1>2. lock' \in Locks
  BY <1>0, Changes DEF ParsedInv, Build, Locks
<1>3. ASSUME pc' \notin Unparsed \cup {"done"}
      PROVE  /\ ~get_list_from_file(lock', "ns3_runnable_programs").raised
             /\ ~get_list_from_file(lock', "ns3_runnable_scripts").raised
             /\ programs' = Range(get_list_from_file(lock', "ns3_runnable_programs").value)
             /\ scripts' = Range(get_list_from_file(lock', "ns3_runnable_scripts").value)
  <2>1. lock' = lock
    <3>1. Build => pc' \in {"parse", "done"}
      BY Order
    <3> QED
      BY <1>3, <3>1, Changes DEF Unparsed
  <2>2. CASE ParseExamples
    <3>1. pc' # "done"
      BY <1>3
    <3>2. /\ ~get_list_from_file(lock, "ns3_runnable_programs").raised
          /\ ~get_list_from_file(lock, "ns3_runnable_scripts").raised
          /\ programs' = Range(get_list_from_file(lock, "ns3_runnable_programs").value)
          /\ scripts' = Range(get_list_from_file(lock, "ns3_runnable_scripts").value)
      BY <2>2, <3>1 DEF ParseExamples, Exit
    <3> QED
      BY <2>1, <3>2
  <2>3. CASE ~ParseExamples
    <3>1. pc \notin Unparsed \cup {"done"}
      BY <1>3, <2>3, Moves DEF Unparsed, vars
    <3>2. programs' = programs /\ scripts' = scripts
      BY <2>3, Changes DEF examples
    <3> QED
      BY <1>0, <2>1, <3>1, <3>2 DEF ParsedInv
  <2> QED
    BY <2>2, <2>3
<1>4. \A e \in Range(python_tests') : e.name \in Present
  <2>1. CASE ~ParseExamples
    BY <1>0, <2>1, Changes DEF ParsedInv, examples
  <2>2. CASE ParseExamples
    <3>1. python_tests' = python_tests \/
            \E found \in ExampleFiles : ~WrongEntry(found) /\ python_tests' = PythonExamples(found)
      BY <2>2 DEF ParseExamples, examples
    <3> QED
      BY <1>0, <3>1, ExampleFacts DEF ParsedInv
  <2> QED
    BY <2>1, <2>2
<1> QED
  BY <1>1, <1>2, <1>3, <1>4 DEF ParsedInv

\* What the options ask for depends on the options and the configuration.
LEMMA Frames ==
  ASSUME args' = args
  PROVE  /\ PythonWanted' = PythonWanted
         /\ range(processors)' = range(processors)
         /\ UNCHANGED examples => Requested' = Requested
         /\ config' = config => SuitesWanted' = SuitesWanted /\ ExamplesWanted' = ExamplesWanted
  BY DEF NothingNamed, PythonWanted, processors, range, SuitesWanted, ExamplesWanted, Requested,
         examples

LEMMA WantedFacts ==
  /\ args.suite # None => SuitesWanted = Matching[args.suite] \cap Range(Suites)
  /\ args.suite = None /\ config.tests /\ args.example = None /\ args.pyexample = None =>
       SuitesWanted = Range(OfKind(args.constrain))
  /\ args.suite = None /\ (~config.tests \/ args.example # None \/ args.pyexample # None) =>
       SuitesWanted = {}
  BY DEF SuitesWanted

LEMMA NothingListed == Range(<<>>) = {} /\ IsInjective(<<>>) /\ Len(<<>>) = 0
  BY DEF Range, IsInjective

LEMMA OneElement ==
  ASSUME NEW T, NEW s \in Seq(T), NEW x, Range(s) = {x}, IsInjective(s)
  PROVE  Len(s) = 1
<1>1. DOMAIN s = 1 .. Len(s) /\ Len(s) \in Nat
  OBVIOUS
<1>2. \A i \in DOMAIN s : s[i] = x
  BY DEF Range
<1>3. \A i, j \in DOMAIN s : i = j
  BY <1>2 DEF IsInjective
<1>4. DOMAIN s # {}
  BY DEF Range
<1>5. 1 \in DOMAIN s /\ Len(s) \in DOMAIN s
  BY <1>1, <1>4
<1> QED
  BY <1>3, <1>5

LEMMA ListedKept ==
  ASSUME SelectionInv, [Next]_vars
  PROVE  ListedInv'
<1>0. TypeOK /\ ListedInv
  BY DEF SelectionInv
<1>1. suite_list \in Seq(Range(Suites)) /\ single_suite \in BOOLEAN /\ crashed \in BOOLEAN
  BY <1>0 DEF TypeOK
<1>2. CASE read_ns3_config
  <2>1. UNCHANGED <<suite_list, crashed, single_suite>>
    BY <1>2 DEF read_ns3_config, selection
  <2>2. pc \in Unlisted /\ pc' \in Unlisted \cup {"done"}
    BY <1>2, Order DEF Unlisted, Unparsed
  <2>3. suite_list' = <<>> /\ ~single_suite' /\ ~crashed'
    BY <1>0, <2>1, <2>2 DEF ListedInv
  <2> QED
    BY <2>2, <2>3, NothingListed DEF ListedInv
<1>3. CASE ListSuites
  <2>0. args' = args /\ config' = config /\ SuitesWanted' = SuitesWanted
    BY <1>3, Frames DEF ListSuites
  <2>1. suite_list = <<>> /\ ~single_suite /\ ~crashed /\ pc' \in {"drop", "done"}
    BY <1>0, <1>3, Order DEF ListedInv, Unlisted, Unparsed
  <2>2. ASSUME args.suite # None
        PROVE  /\ single_suite' => Len(suite_list') = 1
               /\ Range(suite_list') \subseteq SuitesWanted
               /\ IsInjective(Suites) => IsInjective(suite_list')
               /\ ~crashed' => Range(suite_list') = SuitesWanted
               /\ ~crashed' /\ IsInjective(Suites) =>
                    \A s \in Range(Suites) : SuitesWanted = {s} => single_suite'
    <3>1. PICK out \in Listings(None) :
            /\ Lists(None, out)
            /\ suite_list' = Where(out, Matching[args.suite]) /\ single_suite' = (Len(suite_list') = 1)
      BY <1>3, <2>2 DEF ListSuites
    <3>2. /\ out \in Seq(Range(Suites)) /\ Range(out) \subseteq Range(Suites)
          /\ IsInjective(Suites) => IsInjective(out)
          /\ ~crashed' => Range(out) = Range(Suites)
      <4>1. Range(OfKind(None)) = Range(Suites)
        BY OfKindFacts DEF IsOfKind
      <4> QED
        BY <1>1, <3>1, <4>1, ListingFacts
    <3>3. /\ Range(suite_list') = Range(out) \cap Matching[args.suite]
          /\ IsInjective(out) => IsInjective(suite_list')
          /\ suite_list' \in Seq(Range(Suites))
      BY <3>1, <3>2, WhereFacts
    <3>4. ~crashed' => Range(suite_list') = SuitesWanted
      BY <2>2, <3>2, <3>3, WantedFacts
    <3>5. ASSUME ~crashed', IsInjective(Suites), NEW s \in Range(Suites), SuitesWanted = {s}
          PROVE  single_suite'
      <4>1. Len(suite_list') = 1
        BY <3>2, <3>3, <3>4, <3>5, OneElement
      <4> QED
        BY <3>1, <4>1
    <3> QED
      BY <2>2, <3>1, <3>2, <3>3, <3>4, <3>5, WantedFacts
  <2>3. ASSUME args.suite = None
        PROVE  /\ ~single_suite'
               /\ Range(suite_list') \subseteq SuitesWanted
               /\ IsInjective(Suites) => IsInjective(suite_list')
               /\ ~crashed' => Range(suite_list') = SuitesWanted
    <3>1. CASE config.tests /\ args.example = None /\ args.pyexample = None
      <4>1. PICK out \in Listings(args.constrain) : Lists(args.constrain, out) /\ suite_list' = out
        BY <1>3, <2>3, <3>1 DEF ListSuites
      <4>2. single_suite' = single_suite
        BY <1>3, <2>3 DEF ListSuites
      <4> QED
        BY <1>1, <2>1, <2>3, <3>1, <4>1, <4>2, ListingFacts, WantedFacts
    <3>2. CASE ~config.tests \/ args.example # None \/ args.pyexample # None
      <4>1. UNCHANGED <<suite_list, single_suite, crashed>>
        BY <1>3, <2>3, <3>2 DEF ListSuites
      <4> QED
        BY <2>1, <2>3, <3>2, <4>1, NothingListed, WantedFacts
    <3> QED
      BY <3>1, <3>2
  <2>4. pc' \notin Unlisted /\ (pc' \notin Unlisted \cup {"done"} => pc' = "drop")
    BY <2>1 DEF Unlisted, Unparsed
  <2> QED
    BY <2>0, <2>2, <2>3, <2>4 DEF ListedInv
<1>4. CASE DropPerformance
  <2>0. args' = args /\ config' = config /\ SuitesWanted' = SuitesWanted /\ single_suite' = single_suite
    BY <1>4, Frames DEF DropPerformance
  <2>1. pc = "drop" /\ pc' = "workers" /\ pc \notin Unlisted \cup {"done"} /\ pc' \notin Unlisted
    BY <1>4, Order DEF Unlisted, Unparsed
  <2>2. /\ single_suite => args.suite # None /\ Len(suite_list) = 1
        /\ Range(suite_list) \subseteq SuitesWanted
        /\ IsInjective(Suites) => IsInjective(suite_list)
        /\ ~crashed => Range(suite_list) = SuitesWanted
        /\ ~crashed /\ args.suite # None /\ IsInjective(Suites) =>
             \A s \in Range(Suites) : SuitesWanted = {s} => single_suite
    BY <1>0, <2>1 DEF ListedInv
  <2>3. CASE single_suite \/ args.constrain = "performance"
    <3>1. UNCHANGED <<suite_list, crashed>>
      BY <1>4, <2>3 DEF DropPerformance
    <3> QED
      BY <2>0, <2>1, <2>2, <2>3, <3>1 DEF ListedInv
  <2>4. CASE ~single_suite /\ args.constrain # "performance"
    <3>1. PICK out \in Listings("performance") :
            /\ Lists("performance", out)
            /\ suite_list' = Where(suite_list, Range(suite_list) \ Range(out))
      BY <1>4, <2>4 DEF DropPerformance
    <3>2. Range(OfKind("performance")) = Performance
      <4>1. \A s : IsOfKind(s, "performance") <=> KindOf[s] = "performance"
        BY DEF IsOfKind, None
      <4>2. Range(OfKind("performance")) = {s \in Range(Suites) : IsOfKind(s, "performance")}
        BY OfKindFacts
      <4> QED
        BY <4>1, <4>2 DEF Performance
    <3>3. /\ ~crashed' => ~crashed
          /\ ~crashed' => Range(out) = Performance
      BY <1>1, <3>1, <3>2, ListingFacts
    <3>4. /\ Range(suite_list') = Range(suite_list) \ Range(out)
          /\ IsInjective(suite_list) => IsInjective(suite_list')
      BY <1>1, <3>1, WhereFacts
    <3> QED
      BY <2>0, <2>1, <2>2, <2>4, <3>3, <3>4 DEF ListedInv
  <2> QED
    BY <2>3, <2>4
<1>5. CASE ~read_ns3_config /\ ~ListSuites /\ ~DropPerformance
  <2>1. /\ args' = args /\ UNCHANGED <<suite_list, crashed, single_suite>> /\ SuitesWanted' = SuitesWanted
    BY <1>5, Changes, Frames
  <2>2. /\ pc' \in Unlisted => pc \in Unlisted
        /\ pc' \notin Unlisted \cup {"done"} => pc \notin Unlisted \cup {"done"} /\ (pc' = "drop" <=> pc = "drop")
    BY <1>5, Moves DEF Unlisted, Unparsed, vars
  <2> QED
    BY <1>0, <2>1, <2>2 DEF ListedInv
<1> QED
  BY <1>2, <1>3, <1>4, <1>5

LEMMA QueuedKept ==
  ASSUME SelectionInv, [Next]_vars
  PROVE  QueuedInv'
<1>0. TypeOK /\ ParsedInv /\ ListedInv /\ QueuedInv
  BY DEF SelectionInv
<1>1. queue \in Seq(Jobs) /\ args' = args
  BY <1>0, Changes DEF TypeOK
<1>2. ListedOnce <=> IsInjective(Suites) /\ Distinct(example_tests) /\ Distinct(python_tests)
  BY DEF ListedOnce, Distinct
<1>3. /\ "suite" # "example" /\ "suite" # "pyexample" /\ "example" # "pyexample"
  OBVIOUS
<1>4. CASE QueueSuites
  <2>1. /\ queue' \in Seq(Jobs)
        /\ Queued("suite")' = Range(suite_list)
        /\ \A kind : kind # "suite" => Tests(kind)' = {}
        /\ IsInjective(suite_list) => IsInjective(queue')
    BY <1>0, <1>4, SuiteJobs
  <2>2. pc' = "example jobs" /\ suite_list' = suite_list /\ UNCHANGED examples
    BY <1>4, Order DEF QueueSuites
  <2>3. ListedOnce' => IsInjective(queue')
    <3>1. ListedOnce' = ListedOnce
      BY <2>2 DEF ListedOnce, examples
    <3> QED
      BY <1>0, <1>2, <2>1, <3>1 DEF ListedInv
  <2>4. Queued("suite")' = Range(suite_list') /\ Tests("example")' = {} /\ Tests("pyexample")' = {}
    BY <1>3, <2>1, <2>2
  <2> QED
    BY <2>2, <2>3, <2>4 DEF QueuedInv, Unlisted, Unparsed
<1>5. CASE QueueExamples
  <2>1. /\ pc = "example jobs" /\ pc' = "python jobs"
        /\ suite_list' = suite_list /\ config' = config /\ UNCHANGED examples
    BY <1>5, Order DEF QueueExamples
  <2>2. /\ Queued("suite") = Range(suite_list)
        /\ TestsOf(queue, "example") = {} /\ TestsOf(queue, "pyexample") = {}
        /\ ListedOnce => IsInjective(queue)
    BY <1>0, <2>1, QueuedTests DEF QueuedInv, Queueing
  <2>3. /\ ListedOnce' = ListedOnce /\ ExamplesWanted' = ExamplesWanted /\ Requested' = Requested
        /\ programs' = programs /\ example_tests' = example_tests
    BY <1>1, <2>1, Frames DEF ListedOnce, examples
  <2> DEFINE chosen == IF ~ExamplesWanted THEN {}
                       ELSE Available(IF args.example = None THEN example_tests ELSE Requested,
                                      programs)
  <2>4. /\ TestsOf(queue', "suite") = TestsOf(queue, "suite")
        /\ TestsOf(queue', "pyexample") = {}
        /\ TestsOf(queue', "example") = chosen
        /\ ListedOnce => IsInjective(queue')
    <3>1. CASE ExamplesWanted
      <4>1. PICK jobs \in Seq(Jobs) :
              /\ queue' = queue \o jobs
              /\ \A i \in DOMAIN jobs : jobs[i].kind = "example"
              /\ AllOf(jobs) = chosen
              /\ Distinct(example_tests) => IsInjective(jobs)
        BY <1>0, <1>5, <3>1, ExampleJobs
      <4> HIDE DEF chosen
      <4>2. Added(queue, jobs, "example")
        BY <1>1, <4>1, AddJobs
      <4>3. /\ TestsOf(queue', "example") = TestsOf(queue, "example") \cup AllOf(jobs)
            /\ \A other : other # "example" => TestsOf(queue', other) = TestsOf(queue, other)
            /\ TestsOf(queue, "example") = {} /\ IsInjective(queue) /\ IsInjective(jobs) =>
                 IsInjective(queue')
        BY <4>1, <4>2 DEF Added
      <4> QED
        BY <1>2, <1>3, <2>2, <4>1, <4>3
    <3>2. CASE ~ExamplesWanted
      <4>1. queue' = queue
        BY <1>5, <3>2 DEF QueueExamples, ExamplesWanted
      <4> QED
        BY <2>2, <3>2, <4>1
    <3> QED
      BY <3>1, <3>2
  <2>5. ExamplesQueued'
    <3>1. chosen' = chosen
      BY <1>1, <2>3 DEF Available
    <3>2. Tests("example")' = chosen
      BY <2>4, QueuedTests
    <3> QED
      BY <3>1, <3>2 DEF ExamplesQueued
  <2>6. /\ Queued("suite")' = Range(suite_list') /\ Tests("pyexample")' = {}
        /\ ListedOnce' => IsInjective(queue')
    <3>1. Queued("suite")' = Queued("suite")
      BY <2>4, QueuedTests
    <3> QED
      BY <2>1, <2>2, <2>3, <2>4, <3>1, QueuedTests
  <2> QED
    BY <2>1, <2>5, <2>6 DEF QueuedInv, Unlisted, Unparsed
<1>6. CASE QueuePythonExamples
  <2>1. /\ pc = "python jobs" /\ pc' = "break jobs"
        /\ suite_list' = suite_list /\ config' = config /\ UNCHANGED examples
    BY <1>6, Order DEF QueuePythonExamples
  <2>2. /\ Queued("suite") = Range(suite_list)
        /\ TestsOf(queue, "pyexample") = {}
        /\ ExamplesQueued
        /\ ListedOnce => IsInjective(queue)
    BY <1>0, <2>1, QueuedTests DEF QueuedInv, Queueing
  <2>3. /\ ListedOnce' = ListedOnce /\ PythonWanted' = PythonWanted
        /\ ExamplesWanted' = ExamplesWanted /\ Requested' = Requested
        /\ UNCHANGED <<programs, scripts, example_tests, python_tests>>
    BY <1>1, <2>1, Frames DEF ListedOnce, examples
  <2> DEFINE chosen == IF PythonWanted THEN Available(python_tests, scripts)
                       ELSE {<<script, None>> :
                               script \in ({args.pyexample} \ {None}) \cap scripts \cap Present}
  <2>4. PICK jobs \in Seq(Jobs) :
          /\ queue' = queue \o jobs
          /\ \A i \in DOMAIN jobs : jobs[i].kind = "pyexample"
          /\ AllOf(jobs) = chosen
          /\ Distinct(python_tests) => IsInjective(jobs)
    BY <1>0, <1>6, PythonJobs
  <2>5. chosen' = chosen
    BY <1>1, <2>3 DEF Available
  <2>6. PythonQueued' <=> Tests("pyexample")' = chosen'
    BY DEF PythonQueued
  <2> HIDE DEF chosen
  <2>7. /\ TestsOf(queue', "pyexample") = TestsOf(queue, "pyexample") \cup AllOf(jobs)
        /\ \A other : other # "pyexample" => TestsOf(queue', other) = TestsOf(queue, other)
        /\ TestsOf(queue, "pyexample") = {} /\ IsInjective(queue) /\ IsInjective(jobs) =>
             IsInjective(queue')
    <3>1. Added(queue, jobs, "pyexample")
      BY <1>1, <2>4, AddJobs
    <3> QED
      BY <2>4, <3>1 DEF Added
  <2>8. Queued("suite")' = Queued("suite") /\ Tests("example")' = Tests("example")
    BY <1>3, <2>7, QueuedTests
  <2>9. /\ Queued("suite")' = Range(suite_list')
        /\ ListedOnce' => IsInjective(queue')
    BY <1>2, <2>1, <2>2, <2>3, <2>4, <2>7, <2>8
  <2>10. PythonQueued'
    BY <2>2, <2>4, <2>5, <2>6, <2>7, QueuedTests
  <2>11. ExamplesQueued'
    BY <1>1, <2>2, <2>3, <2>8 DEF ExamplesQueued, Available
  <2> QED
    BY <2>1, <2>9, <2>10, <2>11 DEF QueuedInv, Unlisted, Unparsed
<1>7. CASE ~QueueSuites /\ ~QueueExamples /\ ~QueuePythonExamples
  <2>1. /\ queue' = queue
        /\ \A kind : Queued(kind)' = Queued(kind) /\ Tests(kind)' = Tests(kind)
    <3>1. queue' = queue
      BY <1>7, Changes
    <3> QED
      BY <3>1, QueuedTests
  <2>2. CASE pc \in Queueing \/ UNCHANGED vars
    <3>1. UNCHANGED <<config, suite_list, examples>> /\ ListedOnce' = ListedOnce
      <4>1. UNCHANGED <<config, suite_list, examples>>
        BY <2>2, Changes, Order DEF Queueing, vars, examples
      <4> QED
        BY <4>1 DEF ListedOnce, examples
    <3>2. /\ PythonWanted' = PythonWanted /\ ExamplesWanted' = ExamplesWanted
          /\ Requested' = Requested
          /\ UNCHANGED <<programs, scripts, example_tests, python_tests>>
      BY <1>1, <3>1, Frames DEF examples
    <3>3. ExamplesQueued' = ExamplesQueued /\ PythonQueued' = PythonQueued
      BY <1>1, <2>1, <3>2 DEF ExamplesQueued, PythonQueued, Available
    <3>4. pc' = pc \/ pc' = "done" \/ (pc = "break jobs" /\ pc' = "collect")
      BY <1>7, <2>2, Moves, Order DEF Queueing, vars
    <3> QED
      BY <1>0, <2>1, <3>1, <3>3, <3>4 DEF QueuedInv, Queueing, Unlisted, Unparsed
  <2>3. CASE pc \notin Queueing /\ ~UNCHANGED vars
    <3>1. pc # "done" /\ pc' \notin Queueing
      BY <1>7, <2>3, Moves, Order DEF Queueing, Next
    <3>2. queue = <<>>
      BY <1>0, <2>3, <3>1 DEF QueuedInv, Queueing, Unlisted, Unparsed, TypeOK
    <3> QED
      BY <2>1, <3>1, <3>2, NothingListed DEF QueuedInv, Queueing, Unlisted, Unparsed
  <2> QED
    BY <2>2, <2>3
<1> QED
  BY <1>4, <1>5, <1>6, <1>7

LEMMA WorkersKept ==
  ASSUME SelectionInv, [Next]_vars
  PROVE  WorkersInv'
<1>0. WorkersInv
  BY DEF SelectionInv
<1>1. args' = args /\ range(processors)' = range(processors)
  BY Changes, Frames
<1>2. CASE StartWorkers
  <2>1. pc = "workers" /\ pc' = "suite jobs" /\ workers' = range(processors) /\ breaks' = breaks
    BY <1>2, Order DEF StartWorkers
  <2> QED
    BY <1>0, <1>1, <2>1 DEF WorkersInv, Queueing
<1>3. CASE QueueBreaks
  <2>1. pc = "break jobs" /\ pc' = "collect" /\ breaks' = range(processors) /\ workers' = workers
    BY <1>3, Order DEF QueueBreaks
  <2> QED
    BY <1>0, <1>1, <2>1 DEF WorkersInv, Queueing
<1>4. CASE ~StartWorkers /\ ~QueueBreaks
  <2>1. workers' = workers /\ breaks' = breaks
    BY <1>4, Changes
  <2>2. /\ pc' \in Queueing \cup {"suite jobs"} => pc \in Queueing \cup {"suite jobs"}
        /\ pc' \notin {"collect", "done"} => pc \notin {"collect", "done"}
        /\ pc' = "collect" => pc = "collect"
    BY <1>4, Moves DEF Queueing, vars
  <2> QED
    BY <1>0, <1>1, <2>1, <2>2 DEF WorkersInv
<1> QED
  BY <1>2, <1>3, <1>4

----------------------------------------------------------------------------
(* The invariant.                                                          *)

LEMMA InitInv == Init => SelectionInv
<1> SUFFICES ASSUME Init PROVE SelectionInv
  OBVIOUS
<1>1. /\ pc = "config" /\ breaks = 0 /\ queue = <<>> /\ suite_list = <<>> /\ python_tests = <<>>
      /\ single_suite = FALSE /\ crashed = FALSE
      /\ \E c \in Cases : args = c.args /\ lock = c.lock
  BY DEF Init
<1>2. pc \in Unlisted /\ pc \in Unparsed /\ pc \notin Queueing
  BY <1>1 DEF Unlisted, Unparsed, Queueing
<1>3. ParsedInv
  BY <1>1, <1>2, NothingListed DEF ParsedInv, Locks
<1>4. ListedInv
  BY <1>1, <1>2, NothingListed DEF ListedInv
<1>5. QueuedInv
  BY <1>1, <1>2, NothingListed DEF QueuedInv, Queueing
<1>6. WorkersInv
  BY <1>1, <1>2 DEF WorkersInv, Queueing
<1> QED
  BY <1>3, <1>4, <1>5, <1>6, InitType DEF SelectionInv

\* Each step of run_tests finds what the later steps rely on, and leaves it so.
THEOREM SelectionInvariant == Spec => []SelectionInv
<1>1. SelectionInv /\ [Next]_vars => SelectionInv'
  BY TypeKept, ParsedKept, ListedKept, QueuedKept, WorkersKept DEF SelectionInv
<1> QED
  BY <1>1, InitInv, PTL DEF Spec

\* Performance suites run only on request, for any suites, patterns and options: by
\* their type, or by a name that matches no other suite, if no listing crashed.
THEOREM PerformanceOnRequestAlways == Spec => []PerformanceOnRequest
<1>1. SelectionInv => PerformanceOnRequest
  <2> SUFFICES ASSUME SelectionInv, pc = "collect", ~crashed, args.constrain # "performance",
                      NEW p \in Queued("suite") \cap Performance
               PROVE  \E s \in Performance : args.suite # None /\ Matching[args.suite] \cap Range(Suites) = {s}
    BY DEF PerformanceOnRequest, Dispatched
  <2>1. Range(suite_list) = Queued("suite") /\ suite_list \in Seq(Range(Suites))
    BY DEF SelectionInv, QueuedInv, Queueing, TypeOK
  <2>2. Range(suite_list) = IF single_suite THEN SuitesWanted ELSE SuitesWanted \ Performance
    BY DEF SelectionInv, ListedInv, Unlisted, Unparsed
  <2>3. single_suite /\ Range(suite_list) = SuitesWanted
    BY <2>1, <2>2
  <2>4. args.suite # None /\ Len(suite_list) = 1
    BY <2>3 DEF SelectionInv, ListedInv
  <2>5. Range(suite_list) = {suite_list[1]}
    <3>1. DOMAIN suite_list = {1}
      BY <2>1, <2>4
    <3> QED
      BY <3>1 DEF Range
  <2>6. Matching[args.suite] \cap Range(Suites) = {p}
    BY <2>1, <2>3, <2>4, <2>5, WantedFacts
  <2> QED
    BY <2>4, <2>6
<1> QED
  BY <1>1, SelectionInvariant, PTL

\* What the invariant says of the queue once all jobs are in it.
LEMMA DispatchedFacts ==
  ASSUME SelectionInv, pc = "collect"
  PROVE  /\ Queued("suite") = Range(suite_list) /\ ExamplesQueued /\ PythonQueued
         /\ ListedOnce => IsInjective(queue)
         /\ Range(suite_list) \subseteq SuitesWanted
         /\ single_suite => args.suite # None
         /\ ~crashed /\ args.suite # None /\ IsInjective(Suites) =>
              \A s \in Range(Suites) : SuitesWanted = {s} => single_suite
         /\ ~crashed => Range(suite_list) = IF single_suite \/ args.constrain = "performance"
                                            THEN SuitesWanted ELSE SuitesWanted \ Performance
<1>1. /\ Queued("suite") = Range(suite_list) /\ ExamplesQueued /\ PythonQueued
      /\ ListedOnce => IsInjective(queue)
  BY DEF SelectionInv, QueuedInv, Queueing
<1> QED
  BY <1>1 DEF SelectionInv, ListedInv, Unlisted, Unparsed

\* Without a name the suites are those of the kind, and the examples those that can
\* run, unless a kind leaves them out.
LEMMA KindsSelected ==
  ASSUME SelectionInv, pc = "collect"
  PROVE  KindsAsDocumented
<1> SUFFICES ASSUME args.suite = None, args.example = None, args.pyexample = None
             PROVE  KindsAsDocumented
  BY DEF KindsAsDocumented
<1>1. Range(OfKind(args.constrain)) = {s \in Range(Suites) : IsOfKind(s, args.constrain)}
  BY OfKindFacts
<1>2. \A s \in Queued("suite") : IsOfKind(s, args.constrain)
  <2>1. SuitesWanted = {} \/ SuitesWanted = Range(OfKind(args.constrain))
    BY WantedFacts
  <2> QED
    BY <1>1, <2>1, DispatchedFacts
<1>3. ASSUME config.tests, ~crashed
      PROVE  Queued("suite") = {s \in Range(Suites) :
               IsOfKind(s, args.constrain) /\ (s \in Performance => args.constrain = "performance")}
  <2>1. SuitesWanted = {s \in Range(Suites) : IsOfKind(s, args.constrain)}
    BY <1>1, <1>3, WantedFacts
  <2>2. Queued("suite") = IF args.constrain = "performance"
                          THEN SuitesWanted ELSE SuitesWanted \ Performance
    BY <1>3, DispatchedFacts
  <2> QED
    BY <2>1, <2>2
<1>4. config.examples => Tests("example") =
        IF args.constrain \in {None, "example"} THEN Available(example_tests, programs) ELSE {}
  BY DispatchedFacts DEF ExamplesQueued, ExamplesWanted
<1>5. Tests("pyexample") =
        IF args.constrain \in {None, "pyexample"} THEN Available(python_tests, scripts) ELSE {}
  <2>1. args.pyexample \notin {args.pyexample} \ {None}
    OBVIOUS
  <2>2. ({args.pyexample} \ {None}) \cap scripts \cap Present = {}
    BY <2>1
  <2>3. {<<script, None>> : script \in {}} = {}
    OBVIOUS
  <2> QED
    BY <2>2, <2>3, DispatchedFacts DEF PythonQueued, PythonWanted, NothingNamed
<1> QED
  BY <1>2, <1>3, <1>4, <1>5 DEF KindsAsDocumented

\* A suite that is named runs, alone if no other has such a name.
LEMMA SuitesSelected ==
  ASSUME SelectionInv, pc = "collect"
  PROVE  SuitesAsDocumented
<1> SUFFICES ASSUME args.suite # None PROVE SuitesAsDocumented
  BY DEF SuitesAsDocumented
<1> DEFINE found == Matching[args.suite] \cap Range(Suites)
<1>1. SuitesWanted = found
  BY WantedFacts
<1> HIDE DEF found
<1>2. Tests("example") = {}
  BY DispatchedFacts DEF ExamplesQueued, ExamplesWanted
<1>3. Queued("suite") \subseteq found /\ (~crashed => found \subseteq Queued("suite") \cup Performance)
  BY <1>1, DispatchedFacts
<1>4. ASSUME ~crashed, ListedOnce, NEW s \in Range(Suites), found = {s}
      PROVE  Queued("suite") = {s}
  <2>1. single_suite
    BY <1>1, <1>4, DispatchedFacts DEF ListedOnce
  <2> QED
    BY <1>1, <1>4, <2>1, DispatchedFacts
<1> QED
  BY <1>2, <1>3, <1>4 DEF SuitesAsDocumented, found

\* An example that is named runs, those a wildcard matches if they can.
LEMMA ExamplesSelected ==
  ASSUME SelectionInv, pc = "collect"
  PROVE  ExamplesAsDocumented
<1> SUFFICES ASSUME args.suite = None, args.example # None PROVE ExamplesAsDocumented
  BY DEF ExamplesAsDocumented
<1>1. Queued("suite") = {}
  BY DispatchedFacts, WantedFacts
<1>2. Tests("example") = IF ExamplesWanted THEN Available(Requested, programs) ELSE {}
  BY DispatchedFacts DEF ExamplesQueued
<1>3. Queued("example") = {t[1] : t \in Tests("example")}
  BY QueuedTests
<1>4. TypeOK
  BY DEF SelectionInv
<1>5. \A t \in Tests("example") : \E e \in Range(Requested) :
        t = <<e.name, e.params>> /\ e.run /\ e.name \in programs
  BY <1>2 DEF Available
<1>6. ~args.wild => Queued("example") \subseteq {args.example}
  <2> SUFFICES ASSUME ~args.wild, NEW t \in Tests("example") PROVE t[1] = args.example
    BY <1>3
  <2>1. PICK e \in Range(Requested) : t = <<e.name, e.params>>
    BY <1>5
  <2> QED
    BY <1>4, <2>1, RequestedFacts
<1>7. ASSUME args.pyexample = None, args.constrain \in {None, "example"}, config.examples
      PROVE  /\ args.wild => Tests("example") =
                  {t \in Available(example_tests, programs) : t[1] \in Matching[args.example]}
             /\ ~args.wild /\ args.params = None =>
                  Tests("example") \subseteq {<<args.example, None>>}
             /\ /\ ~args.wild /\ args.params = None /\ args.example \in programs
                /\ \A e \in Range(example_tests) :
                     e.name = args.example /\ e.params = None => e.run
                => Tests("example") = {<<args.example, None>>}
  <2>1. Tests("example") = Available(Requested, programs)
    BY <1>2, <1>7 DEF ExamplesWanted
  <2>2. ASSUME args.wild
        PROVE  Tests("example") =
                 {t \in Available(example_tests, programs) : t[1] \in Matching[args.example]}
    <3>1. Range(Requested) = {e \in Range(example_tests) : e.name \in Matching[args.example]}
      BY <1>4, <2>2, RequestedFacts
    <3>2. \A t \in Available(Requested, programs) :
            t \in Available(example_tests, programs) /\ t[1] \in Matching[args.example]
      BY <3>1 DEF Available
    <3>3. \A t \in Available(example_tests, programs) :
            t[1] \in Matching[args.example] => t \in Available(Requested, programs)
      BY <3>1 DEF Available
    <3> QED
      BY <2>1, <3>2, <3>3
  <2>3. ASSUME ~args.wild, args.params = None
        PROVE  Tests("example") \subseteq {<<args.example, None>>}
    <3>1. \A e \in Range(Requested) : e.name = args.example /\ e.params = None
      BY <1>4, <2>3, RequestedFacts
    <3> QED
      BY <1>5, <3>1
  <2>4. ASSUME ~args.wild, args.params = None, args.example \in programs,
               \A e \in Range(example_tests) : e.name = args.example /\ e.params = None => e.run
        PROVE  <<args.example, None>> \in Tests("example")
    <3>1. /\ Requested \in Seq(Entry) /\ Requested # <<>>
          /\ \A e \in Range(Requested) : e.name = args.example /\ e.params = None
          /\ \A e \in Range(Requested) : e.run \/ e \in Range(example_tests)
      BY <1>4, <2>4, RequestedFacts
    <3>2. PICK e \in Range(Requested) : TRUE
      <4>1. 1 \in DOMAIN Requested
        BY <3>1
      <4> QED
        BY <4>1 DEF Range
    <3>3. e.run /\ e.name = args.example /\ e.params = None
      BY <2>4, <3>1
    <3> QED
      BY <2>1, <2>4, <3>3 DEF Available
  <2> QED
    BY <2>2, <2>3, <2>4
<1> QED
  BY <1>1, <1>6, <1>7 DEF ExamplesAsDocumented

\* A script that is named runs if it can.
LEMMA PythonSelected ==
  ASSUME SelectionInv, pc = "collect"
  PROVE  PythonAsDocumented
<1> SUFFICES ASSUME ~NothingNamed PROVE PythonAsDocumented
  BY DEF PythonAsDocumented, NothingNamed
<1> DEFINE found == ({args.pyexample} \ {None}) \cap scripts \cap Present
<1>1. Tests("pyexample") = {<<script, None>> : script \in found}
  BY DispatchedFacts DEF PythonQueued, PythonWanted
<1>2. Queued("pyexample") = {t[1] : t \in Tests("pyexample")}
  BY QueuedTests
<1> HIDE DEF found
<1>3. Queued("pyexample") = found
  <2>1. \A script \in found : <<script, None>> \in Tests("pyexample") /\ <<script, None>>[1] = script
    BY <1>1
  <2>2. \A t \in Tests("pyexample") : t[1] \in found
    BY <1>1
  <2> QED
    BY <1>2, <2>1, <2>2
<1>4. args.suite = None /\ args.pyexample # None => Queued("suite") \cup Queued("example") = {}
  <2> SUFFICES ASSUME args.suite = None, args.pyexample # None
               PROVE  Queued("suite") \cup Queued("example") = {}
    OBVIOUS
  <2>1. Queued("suite") = {}
    BY DispatchedFacts, WantedFacts
  <2>2. Tests("example") = {}
    BY DispatchedFacts DEF ExamplesQueued, ExamplesWanted
  <2>3. Queued("example") = {t[1] : t \in Tests("example")}
    BY QueuedTests
  <2> QED
    BY <2>1, <2>2, <2>3
<1> QED
  BY <1>3, <1>4 DEF PythonAsDocumented, found

\* The queue is what the tables of the comments promise, whatever is listed and
\* whichever options are combined.
THEOREM SelectionAsDocumentedAlways == Spec => []SelectionAsDocumented
<1>1. SelectionInv => SelectionAsDocumented
  BY DispatchedFacts, KindsSelected, SuitesSelected, ExamplesSelected, PythonSelected
     DEF SelectionAsDocumented, Dispatched
<1> QED
  BY <1>1, SelectionInvariant, PTL

\* The readers return what the files say, whatever run_tests does: from every lock
\* file and .ns3rc written for them the settings are those it assigns.
THEOREM ReadersAgreeAlways == Spec => []ReadersAgree
<1>1. LocksRead
  <2> SUFFICES ASSUME NEW file \in Locks, NEW name \in {"ns3_runnable_programs", "ns3_runnable_scripts"},
                      ReadableList(file, name)
               PROVE  get_list_from_file(file, name) = Value(AssignedList(file, name))
    BY DEF LocksRead
  <2>1. IsFile(file)
    BY SelectionAssumption
  <2> QED
    BY <2>1, ListRead
<1>2. ReadersAgree
  BY <1>1, FilesReadAlways DEF ReadersAgree
<1> QED
  BY <1>2, PTL

\* Only programs and scripts are queued that are in the lock file as the build left
\* it, if it is one get_list_from_file is written for.
THEOREM JobsAreRunnableAlways == Spec => []JobsAreRunnable
<1>1. SelectionInv => JobsAreRunnable
  <2> SUFFICES ASSUME SelectionInv, pc = "collect" PROVE JobsAreRunnable
    BY DEF JobsAreRunnable, Dispatched
  <2> DEFINE names == get_list_from_file(lock, "ns3_runnable_programs")
             files == get_list_from_file(lock, "ns3_runnable_scripts")
  <2>1. /\ Queued("example") \subseteq programs
        /\ Queued("pyexample") \subseteq scripts \cap Present
    <3>1. \A list, found : \A t \in Available(list, found) :
            t[1] \in found /\ \E e \in Range(list) : t[1] = e.name
      BY DEF Available
    <3>2. \A e \in Range(python_tests) : e.name \in Present
      BY DEF SelectionInv, ParsedInv
    <3>3. \A t \in Tests("example") : t[1] \in programs
      BY <3>1, DispatchedFacts DEF ExamplesQueued
    <3>4. \A t \in Tests("pyexample") : t[1] \in scripts \cap Present
      <4>1. Tests("pyexample") = Available(python_tests, scripts) \/
              \A t \in Tests("pyexample") : \E script \in scripts \cap Present : t = <<script, None>>
        BY DispatchedFacts DEF PythonQueued
      <4> QED
        BY <3>1, <3>2, <4>1
    <3> QED
      BY <3>3, <3>4, QueuedTests
  <2>2. lock \in Locks /\ programs = Range(names.value) /\ scripts = Range(files.value)
    BY DEF SelectionInv, ParsedInv, Unparsed
  <2>3. IsFile(lock)
    BY <2>2, SelectionAssumption
  <2>4. /\ ReadableList(lock, "ns3_runnable_programs") => names = Value(AssignedList(lock, "ns3_runnable_programs"))
        /\ ReadableList(lock, "ns3_runnable_scripts") => files = Value(AssignedList(lock, "ns3_runnable_scripts"))
    BY <2>3, ListRead
  <2>5. \A v : Value(v).value = v
    BY DEF Value
  <2> HIDE DEF names, files
  <2>6. /\ ReadableList(lock, "ns3_runnable_programs") =>
             programs = Range(AssignedList(lock, "ns3_runnable_programs"))
        /\ ReadableList(lock, "ns3_runnable_scripts") =>
             scripts = Range(AssignedList(lock, "ns3_runnable_scripts"))
    BY <2>2, <2>4, <2>5
  <2> QED
    BY <2>1, <2>6 DEF JobsAreRunnable
<1> QED
  BY <1>1, SelectionInvariant, PTL

\* Whatever --jobs says and however many processors there are, there is a break job
\* for each worker, and a worker unless --jobs is negative.
THEOREM NobodyWaitsAlways == Spec => []NobodyWaits
<1>1. SelectionInv => NobodyWaits
  <2> SUFFICES ASSUME SelectionInv, pc = "collect" PROVE NobodyWaits
    BY DEF NobodyWaits, Dispatched
  <2>1. breaks = workers /\ workers = range(processors)
    BY DEF SelectionInv, WorkersInv, Queueing
  <2>2. range(processors) = 0 => args.process_limit < 0
    BY ProcessorsFacts DEF SelectionInv, TypeOK
  <2> QED
    BY <2>1, <2>2 DEF NobodyWaits
<1> QED
  BY <1>1, SelectionInvariant, PTL
=============================================================================
