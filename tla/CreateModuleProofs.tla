-------------------------- MODULE CreateModuleProofs --------------------------
(* Proofs about CreateModule: for any number of runs over one source tree, any *)
(* command lines, any tree and any failure, the user's files are kept, a       *)
(* module no other run works at is whole or absent, and what happens to those  *)
(* modules is what ModuleStore allows.                                         *)
EXTENDS CreateModule, FiniteSetTheorems, SequenceTheorems, TLAPS

----------------------------------------------------------------------------
(* Paths.                                                                  *)

\* A prefix, by index.
LEMMA PrefixByIndex ==
  ASSUME NEW S, NEW s \in Seq(S), NEW t \in Seq(S)
  PROVE  IsPrefix(s, t) <=> Len(s) <= Len(t) /\ \A i \in 1 .. Len(s) : s[i] = t[i]
<1>1. CASE Len(s) <= Len(t)
  <2>1. SubSeq(s, 1, Len(s)) = s
    BY SubSeqFull
  <2>2. /\ SubSeq(t, 1, Len(s)) \in Seq(S) /\ Len(SubSeq(t, 1, Len(s))) = Len(s)
        /\ \A i \in 1 .. Len(s) : SubSeq(t, 1, Len(s))[i] = t[i]
    BY <1>1
  <2>3. (SubSeq(t, 1, Len(s)) = s) <=> \A i \in 1 .. Len(s) : s[i] = t[i]
    BY <2>2, SeqEqual
  <2> QED
    BY <1>1, <2>1, <2>3 DEF IsPrefix
<1>2. CASE ~(Len(s) <= Len(t))
  BY <1>2 DEF IsPrefix
<1> QED
  BY <1>1, <1>2

\* Prefixes are ordered; of two prefixes of one path, one is a prefix of the other.
LEMMA PrefixOrder ==
  ASSUME NEW S, NEW s \in Seq(S), NEW t \in Seq(S), NEW u \in Seq(S)
  PROVE  /\ IsPrefix(s, s)
         /\ IsPrefix(s, t) /\ IsPrefix(t, u) => IsPrefix(s, u)
         /\ IsPrefix(s, u) /\ IsPrefix(t, u) => IsPrefix(s, t) \/ IsPrefix(t, s)
         /\ IsPrefix(s, t) /\ Len(s) = Len(t) => s = t
<1>1. /\ IsPrefix(s, s) <=> Len(s) <= Len(s) /\ \A i \in 1 .. Len(s) : s[i] = s[i]
      /\ IsPrefix(s, t) <=> Len(s) <= Len(t) /\ \A i \in 1 .. Len(s) : s[i] = t[i]
      /\ IsPrefix(t, s) <=> Len(t) <= Len(s) /\ \A i \in 1 .. Len(t) : t[i] = s[i]
      /\ IsPrefix(s, u) <=> Len(s) <= Len(u) /\ \A i \in 1 .. Len(s) : s[i] = u[i]
      /\ IsPrefix(t, u) <=> Len(t) <= Len(u) /\ \A i \in 1 .. Len(t) : t[i] = u[i]
  BY PrefixByIndex
<1>2. Len(s) \in Nat /\ Len(t) \in Nat /\ Len(u) \in Nat
  OBVIOUS
<1>3. Len(s) = Len(t) /\ (\A i \in 1 .. Len(s) : s[i] = t[i]) => s = t
  BY SeqEqual
<1> QED
  BY <1>1, <1>2, <1>3

\* A prefix that is not the whole path is a prefix of the parent.
LEMMA ProperPrefix ==
  ASSUME NEW S, NEW x \in Seq(S), NEW t \in Seq(S), IsPrefix(x, t), Len(x) # Len(t)
  PROVE  IsPrefix(x, Front(t))
<1>1. Len(x) <= Len(t) /\ \A i \in 1 .. Len(x) : x[i] = t[i]
  BY PrefixByIndex
<1>2. Len(x) \in Nat /\ Len(t) \in Nat
  OBVIOUS
<1>3. Len(t) >= 1 /\ Len(x) <= Len(t) - 1 /\ \A i \in 1 .. Len(x) : i \in 1 .. Len(t) - 1
  BY <1>1, <1>2
<1>4. /\ Front(t) \in Seq(S) /\ Len(Front(t)) = Len(t) - 1
      /\ \A i \in 1 .. Len(t) - 1 : Front(t)[i] = t[i]
  BY <1>3 DEF Front
<1>5. IsPrefix(x, Front(t))
        <=> Len(x) <= Len(Front(t)) /\ \A i \in 1 .. Len(x) : x[i] = Front(t)[i]
  BY <1>4, PrefixByIndex
<1> QED
  BY <1>1, <1>3, <1>4, <1>5

\* What is below a directory has its path as a prefix.
LEMMA PrefixOfConcat ==
  ASSUME NEW S, NEW s \in Seq(S), NEW t \in Seq(S)
  PROVE  /\ s \o t \in Seq(S) /\ Len(s \o t) = Len(s) + Len(t)
         /\ IsPrefix(s, s \o t)
<1>1. /\ s \o t \in Seq(S) /\ Len(s \o t) = Len(s) + Len(t)
      /\ \A i \in 1 .. Len(s) : (s \o t)[i] = s[i]
  OBVIOUS
<1>2. IsPrefix(s, s \o t) <=> Len(s) <= Len(s \o t) /\ \A i \in 1 .. Len(s) : s[i] = (s \o t)[i]
  BY <1>1, PrefixByIndex
<1> QED
  BY <1>1, <1>2

LEMMA InsideModule ==
  ASSUME NEW m \in Paths, NEW s \in Seq(Names)
  PROVE  m \o s \in Paths /\ IsPrefix(m, m \o s)
<1>1. m \o s \in Seq(Names) /\ Len(m \o s) = Len(m) + Len(s) /\ IsPrefix(m, m \o s)
  BY PrefixOfConcat DEF Paths
<1>2. Len(m) # 0 /\ Len(m) \in Nat /\ Len(s) \in Nat
  BY EmptySeq DEF Paths
<1>3. ASSUME NEW q, q = <<>> PROVE Len(q) = 0
  BY <1>3
<1> QED
  BY <1>1, <1>2, <1>3 DEF Paths

\* The parents of a path are its prefixes.
LEMMA ParentsArePrefixes ==
  ASSUME NEW q \in Seq(Names), NEW x \in Paths
  PROVE  x \in WithParents(q) <=> IsPrefix(x, q)
<1>1. ASSUME x \in WithParents(q) PROVE IsPrefix(x, q)
  <2>1. PICK n \in 1 .. Len(q) : x = SubSeq(q, 1, n)
    BY <1>1 DEF WithParents
  <2>2. Len(x) = n /\ \A i \in 1 .. n : x[i] = q[i]
    BY <2>1
  <2> QED
    BY <2>2, PrefixByIndex DEF Paths
<1>2. ASSUME IsPrefix(x, q) PROVE x \in WithParents(q)
  <2>1. Len(x) \in 1 .. Len(q)
    BY <1>2, EmptySeq DEF IsPrefix, Paths
  <2>2. x = SubSeq(q, 1, Len(x))
    BY <1>2, SubSeqFull DEF IsPrefix, Paths
  <2> QED
    BY <2>1, <2>2 DEF WithParents
<1> QED
  BY <1>1, <1>2

LEMMA ParentsArePaths ==
  ASSUME NEW q \in Seq(Names)
  PROVE  WithParents(q) \subseteq Paths
<1> SUFFICES ASSUME NEW n \in 1 .. Len(q) PROVE SubSeq(q, 1, n) \in Paths
  BY DEF WithParents
<1>1. SubSeq(q, 1, n) \in Seq(Names) /\ Len(SubSeq(q, 1, n)) = n
  OBVIOUS
<1> QED
  BY <1>1, EmptySeq DEF Paths

\* The parents of what is there are there.
LEMMA TreeClosed ==
  ASSUME NEW t, IsTree(t), NEW q \in DOMAIN t, NEW x \in Paths, IsPrefix(x, q)
  PROVE  x \in DOMAIN t
<1>1. q \in Seq(Names)
  BY DEF IsTree
<1>2. x \in WithParents(q)
  BY <1>1, ParentsArePrefixes
<1> QED
  BY <1>2 DEF IsTree

----------------------------------------------------------------------------
(* What make_module makes.                                                 *)

LEMMA FifteenItems ==
  ASSUME NEW a1, NEW b1, NEW b2, NEW b3, NEW c1, NEW c2, NEW c3, NEW d1, NEW d2, NEW e1, NEW e2,
         NEW e3, NEW f1, NEW f2, NEW f3, NEW s,
         s = <<a1>> \o <<b1>> \o <<b2, b3, c1>> \o <<c2, c3>> \o <<d1, d2, e1>> \o <<e2, e3, f1>>
               \o <<f2, f3>>
  PROVE  /\ Len(s) = 15 /\ DOMAIN s = 1 .. 15
         /\ s[1] = a1 /\ s[2] = b1 /\ s[3] = b2 /\ s[4] = b3 /\ s[5] = c1
         /\ s[6] = c2 /\ s[7] = c3 /\ s[8] = d1 /\ s[9] = d2 /\ s[10] = e1
         /\ s[11] = e2 /\ s[12] = e3 /\ s[13] = f1 /\ s[14] = f2 /\ s[15] = f3
OBVIOUS

LEMMA ItemList ==
  /\ Len(functions) = 15 /\ DOMAIN functions = 1 .. 15
  /\ functions[1] = Dir(<<>>)
  /\ functions[2] = File(<<"CMakeLists.txt">>, CMAKELISTS_TEMPLATE)
  /\ functions[3] = Dir(<<"model">>)
  /\ functions[4] = File(<<"model", ".cc">>, MODEL_CC_TEMPLATE)
  /\ functions[5] = File(<<"model", ".h">>, MODEL_H_TEMPLATE)
  /\ functions[6] = Dir(<<"test">>)
  /\ functions[7] = File(<<"test", "-test-suite.cc">>, TEST_CC_TEMPLATE)
  /\ functions[8] = Dir(<<"helper">>)
  /\ functions[9] = File(<<"helper", "-helper.cc">>, HELPER_CC_TEMPLATE)
  /\ functions[10] = File(<<"helper", "-helper.h">>, HELPER_H_TEMPLATE)
  /\ functions[11] = Dir(<<"examples">>)
  /\ functions[12] = File(<<"examples", "CMakeLists.txt">>, EXAMPLES_CMAKELISTS_TEMPLATE)
  /\ functions[13] = File(<<"examples", "-example.cc">>, EXAMPLE_CC_TEMPLATE)
  /\ functions[14] = Dir(<<"doc">>)
  /\ functions[15] = File(<<"doc", ".rst">>, DOC_RST_TEMPLATE)
BY FifteenItems
   DEF functions, make_cmakelists, make_model, make_test, make_helper, make_examples, make_doc

\* The module's own directory comes first and a file last, which no other step
\* makes; every file lies in a directory of the module or in the module.
LEMMA ItemFacts ==
  /\ \A i \in 1 .. 15 : functions[i].path \in Seq(Names) /\ functions[i].kind \in {"dir", "file"}
  /\ functions[1].path = <<>> /\ functions[1].kind = "dir"
  /\ functions[15].kind = "file"
  /\ \A i \in 1 .. 14 : functions[i].path # functions[15].path
  /\ \A i \in 1 .. 15 : functions[i].kind = "file" => functions[i].path # <<>>
<1>1. \A i \in 1 .. 15 : functions[i].path \in Seq(Names)
  BY CreateModuleAssumption, ItemList
<1>2. \A i \in 1 .. 15 : functions[i].kind \in {"dir", "file"}
  BY ItemList DEF Dir, File
<1>3. /\ functions[1].path = <<>> /\ functions[1].kind = "dir" /\ functions[15].kind = "file"
      /\ functions[15].path = <<"doc", ".rst">>
  BY ItemList DEF Dir, File
<1>4. \A i \in 1 .. 14 : functions[i].path # functions[15].path
  <2> SUFFICES ASSUME NEW i \in 1 .. 14 PROVE functions[i].path # <<"doc", ".rst">>
    BY <1>3
  <2>1. i \in {1, 3, 6, 8, 11, 14, 2} \cup {4, 5, 7, 9, 10, 12, 13}
    OBVIOUS
  <2>2. \A k \in {1, 3, 6, 8, 11, 14, 2} : Len(functions[k].path) \in {0, 1}
    BY ItemList DEF Dir, File
  <2>3. \A k \in {4, 5, 7, 9, 10, 12, 13} : functions[k].path[1] # "doc"
    BY ItemList DEF File
  <2>4. Len(<<"doc", ".rst">>) = 2 /\ <<"doc", ".rst">>[1] = "doc"
    OBVIOUS
  <2> HIDE DEF functions
  <2> QED
    BY <2>1, <2>2, <2>3, <2>4
<1>5. \A i \in 1 .. 15 : functions[i].kind = "file" => functions[i].path # <<>>
  <2> SUFFICES ASSUME NEW i \in 1 .. 15 PROVE functions[i].kind = "file" => functions[i].path # <<>>
    OBVIOUS
  <2>1. i \in {1, 2, 3, 4, 5, 6, 7, 8, 9, 10, 11, 12, 13, 14, 15}
    OBVIOUS
  <2>2. functions[i].kind = "file" => i \in {2, 4, 5, 7, 9, 10, 12, 13, 15}
    BY <2>1, ItemList DEF Dir, File
  <2>3. \A k \in {2, 4, 5, 7, 9, 10, 12, 13, 15} : Len(functions[k].path) \in {1, 2}
    BY ItemList DEF File
  <2>4. ASSUME NEW q, q = <<>> PROVE Len(q) = 0
    BY <2>4
  <2>5. CASE functions[i].kind = "file"
    <3>1. Len(functions[i].path) \in {1, 2}
      BY <2>2, <2>3, <2>5, Zenon
    <3>2. Len(functions[i].path) # 0
      BY <3>1
    <3> QED
      BY <3>2, <2>4
  <2> QED
    BY <2>5
<1> QED
  BY <1>1, <1>2, <1>3, <1>4, <1>5

\* Every file a template names is one of those that are made.
LEMMA NamesAreMade ==
  ASSUME NEW i \in 1 .. 15, NEW n \in functions[i].names
  PROVE  \E k \in 1 .. 15 : functions[k].path = n
<1>1. n \in CMAKELISTS_TEMPLATE \cup MODEL_CC_TEMPLATE \cup MODEL_H_TEMPLATE \cup HELPER_CC_TEMPLATE
        \cup HELPER_H_TEMPLATE \cup EXAMPLES_CMAKELISTS_TEMPLATE \cup EXAMPLE_CC_TEMPLATE
        \cup TEST_CC_TEMPLATE \cup DOC_RST_TEMPLATE
  <2>1. i \in {1, 2, 3, 4, 5, 6, 7, 8, 9, 10, 11, 12, 13, 14, 15}
    OBVIOUS
  <2> QED
    BY <2>1, ItemList DEF Dir, File
<1>2. n \in {<<"model", ".cc">>, <<"model", ".h">>, <<"helper", "-helper.cc">>,
             <<"helper", "-helper.h">>, <<"test", "-test-suite.cc">>, <<"examples", "-example.cc">>,
             <<>>}
  BY <1>1 DEF CMAKELISTS_TEMPLATE, MODEL_CC_TEMPLATE, MODEL_H_TEMPLATE, HELPER_CC_TEMPLATE,
     HELPER_H_TEMPLATE, EXAMPLES_CMAKELISTS_TEMPLATE, EXAMPLE_CC_TEMPLATE, TEST_CC_TEMPLATE,
     DOC_RST_TEMPLATE
<1>3. /\ functions[4].path = <<"model", ".cc">> /\ functions[5].path = <<"model", ".h">>
      /\ functions[9].path = <<"helper", "-helper.cc">>
      /\ functions[10].path = <<"helper", "-helper.h">>
      /\ functions[7].path = <<"test", "-test-suite.cc">>
      /\ functions[13].path = <<"examples", "-example.cc">> /\ functions[1].path = <<>>
  BY ItemList DEF Dir, File
<1>4. {1, 4, 5, 7, 9, 10, 13} \subseteq 1 .. 15
  OBVIOUS
<1> HIDE DEF functions
<1>5. \E k \in {1, 4, 5, 7, 9, 10, 13} : functions[k].path = n
  BY <1>2, <1>3
<1> QED
  BY <1>4, <1>5
----------------------------------------------------------------------------
(* The modules a command line asks for.                                    *)

CommandLine == [project : Seq(Names), modnames : Seq(Seq(Names))]

\* A set of naturals that is not empty has a least element.
LEMMA Least ==
  ASSUME NEW S \in SUBSET Nat, S # {}
  PROVE  \E m \in S : \A k \in S : m <= k
<1> DEFINE R == {ss \in Nat \X Nat : ss[1] < ss[2]}
<1>1. IsWellFoundedOn(R, Nat)
  BY NatLessThanWellFounded DEF OpToRel
<1>2. \E m \in S : \A k \in S : ~(<<k, m>> \in R)
  <2> HIDE DEF R
  <2> QED
    BY <1>1, WFMin
<1>3. \A k, m \in Nat : ~(<<k, m>> \in R) => m <= k
  OBVIOUS
<1> HIDE DEF R
<1> QED
  BY <1>2, <1>3

\* The loop over the names is a function of the number of turns.
LEMMA CollectedLoop ==
  ASSUME NEW a \in CommandLine
  PROVE  Collected(a) = [n \in 0 .. Len(a.modnames) |->
           IF n = 0 THEN <<>>
           ELSE IF Named(a, a.modnames[n])
                THEN Append(Collected(a)[n - 1], ModulePath(a, a.modnames[n]))
                ELSE Collected(a)[n - 1]]
<1> DEFINE T(x, n) == IF Named(a, a.modnames[n]) THEN Append(x, ModulePath(a, a.modnames[n])) ELSE x
           G(N, f) == f = [n \in 0 .. N |-> IF n = 0 THEN <<>> ELSE T(f[n - 1], n)]
           Bad == {N \in Nat : ~\E f : G(N, f)}
<1>1. Bad = {}
  <2> SUFFICES ASSUME Bad # {} PROVE FALSE
    OBVIOUS
  <2>1. PICK m \in Bad : \A k \in Bad : m <= k
    <3>1. Bad \in SUBSET Nat
      OBVIOUS
    <3> HIDE DEF Bad
    <3> QED
      BY <3>1, Least
  <2>2. m \in Nat /\ \A k \in 0 .. m - 1 : \E f : G(k, f)
    <3> HIDE DEF G
    <3> QED
      BY <2>1
  <2>3. CASE m = 0
    <3> DEFINE f == [n \in 0 .. 0 |-> <<>>]
    <3> HIDE DEF T
    <3>1. G(0, f)
      OBVIOUS
    <3> HIDE DEF f, G
    <3> QED
      BY <3>1, <2>1, <2>3
  <2>4. CASE m # 0
    <3> HIDE DEF T
    <3>1. PICK g : G(m - 1, g)
      <4> HIDE DEF G
      <4>1. m - 1 \in 0 .. m - 1
        BY <2>2, <2>4
      <4> QED
        BY <2>2, <4>1
    <3> DEFINE f == [n \in 0 .. m |-> IF n = m THEN T(g[m - 1], m) ELSE g[n]]
    <3>2. \A n \in 0 .. m - 1 : g[n] = IF n = 0 THEN <<>> ELSE T(g[n - 1], n)
      BY <3>1
    <3>3. ASSUME NEW n \in 0 .. m PROVE f[n] = IF n = 0 THEN <<>> ELSE T(f[n - 1], n)
      <4> DEFINE h == f
      <4>0. \A k \in 0 .. m : h[k] = IF k = m THEN T(g[m - 1], m) ELSE g[k]
        OBVIOUS
      <4> HIDE DEF h
      <4>1. CASE n = m
        <5>1. n # 0 /\ m - 1 \in 0 .. m /\ m - 1 # m
          BY <4>1, <2>2, <2>4
        <5>2. h[m - 1] = g[m - 1] /\ h[n] = T(g[m - 1], m)
          BY <4>0, <4>1, <5>1
        <5> QED
          BY <5>1, <5>2, <4>1 DEF h
      <4>2. CASE n # m
        <5>1. n \in 0 .. m - 1 /\ (n # 0 => n - 1 \in 0 .. m /\ n - 1 # m)
          BY <4>2, <2>2
        <5>2. h[n] = g[n] /\ (n # 0 => h[n - 1] = g[n - 1])
          BY <4>0, <4>2, <5>1
        <5> QED
          BY <5>1, <5>2, <3>2 DEF h
      <4> QED
        BY <4>1, <4>2
    <3>4. G(m, f)
      <4>1. f = [n \in 0 .. m |-> f[n]]
        OBVIOUS
      <4> HIDE DEF f
      <4> QED
        BY <4>1, <3>3
    <3> HIDE DEF f, G
    <3> QED
      BY <3>4, <2>1
  <2> QED
    BY <2>3, <2>4
<1>2. Len(a.modnames) \in Nat
  BY DEF CommandLine
<1>3. \E f : G(Len(a.modnames), f)
  <2> HIDE DEF G
  <2> QED
    BY <1>1, <1>2
<1> QED
  BY <1>3 DEF Collected

\* A name that is taken gives a path below src, contrib or the project, and all
\* names of one command line give paths of one length.
Depth(a) == Len(Project(a)) + 2
Located(a) == {m \in Paths : Len(m) = Depth(a)}

LEMMA ModulePathType ==
  ASSUME NEW a \in CommandLine, NEW name \in Seq(Names), Named(a, name)
  PROVE  ModulePath(a, name) \in Located(a)
<1>1. name # <<>> /\ Rest(name) \in Seq(Names) /\ Rest(name) # <<>>
  BY DEF Named, Skipped, NoName, Rest
<1>2. <<Rest(name)[1]>> \in Seq(Names) /\ Len(<<Rest(name)[1]>>) = 1
  BY <1>1
<1>3. <<"contrib">> \in Seq(Names) /\ <<"src">> \in Seq(Names)
  BY CreateModuleAssumption
<1> DEFINE top == CASE a.project # <<>> -> <<"contrib">> \o Project(a)
                    [] name[1] = "src"  -> <<"src">>
                    [] OTHER            -> <<"contrib">>
<1>4. top \in Seq(Names) /\ Len(top) = Depth(a) - 1
  <2>1. CASE a.project # <<>>
    <3>0. <<>> \in Seq(Names) /\ a.project \in Seq(Names)
      BY DEF CommandLine
    <3>1. Project(a) \in Seq(Names) /\ top = <<"contrib">> \o Project(a)
      <4>1. Project(a) \in Seq(Names)
        BY <3>0 DEF Project
      <4>2. name[1] # "src"
        BY <2>1 DEF Named, Rejected
      <4>3. top = <<"contrib">> \o Project(a)
        <5> HIDE DEF Project
        <5> QED
          BY <2>1, <4>2
      <4> QED
        BY <4>1, <4>3
    <3>2. Len(<<"contrib">>) = 1 /\ Len(Project(a)) \in Nat
      BY <3>1
    <3>3. /\ <<"contrib">> \o Project(a) \in Seq(Names)
          /\ Len(<<"contrib">> \o Project(a)) = Len(<<"contrib">>) + Len(Project(a))
      BY <3>1, <1>3, PrefixOfConcat
    <3> HIDE DEF top
    <3>4. top \in Seq(Names) /\ Len(top) = 1 + Len(Project(a))
      BY <3>1, <3>2, <3>3
    <3> QED
      BY <3>2, <3>4 DEF Depth
  <2>2. CASE a.project = <<>>
    BY <1>3, <2>2 DEF Depth, Project, Here
  <2> QED
    BY <2>1, <2>2
<1>5. ModulePath(a, name) = top \o <<Rest(name)[1]>>
  BY DEF ModulePath
<1> HIDE DEF top
<1>6. ModulePath(a, name) \in Seq(Names) /\ Len(ModulePath(a, name)) = Depth(a)
  BY <1>2, <1>4, <1>5 DEF Depth, Project, CommandLine
<1>7. Depth(a) \in Nat /\ Depth(a) # 0
  BY DEF Depth, Project, CommandLine
<1>8. ASSUME NEW q, q = <<>> PROVE Len(q) = 0
  BY <1>8
<1>9. ModulePath(a, name) # <<>>
  BY <1>6, <1>7, <1>8
<1> QED
  BY <1>6, <1>9 DEF Located, Paths

LEMMA ModulesType ==
  ASSUME NEW a \in CommandLine
  PROVE  Modules(a) \in Seq(Located(a))
<1> DEFINE N == Len(a.modnames)
           C == Collected(a)
           Bad == {n \in 0 .. N : C[n] \notin Seq(Located(a))}
<1>1. N \in Nat /\ \A n \in 1 .. N : a.modnames[n] \in Seq(Names)
  BY DEF CommandLine
<1>2. /\ C[0] = <<>>
      /\ \A n \in 1 .. N :
           C[n] = IF Named(a, a.modnames[n]) THEN Append(C[n - 1], ModulePath(a, a.modnames[n]))
                  ELSE C[n - 1]
  <2> DEFINE E(n) == IF n = 0 THEN <<>>
                     ELSE IF Named(a, a.modnames[n])
                          THEN Append(C[n - 1], ModulePath(a, a.modnames[n])) ELSE C[n - 1]
  <2>1. C = [n \in 0 .. N |-> E(n)]
    BY CollectedLoop
  <2> HIDE DEF E, C
  <2>2. \A n \in 0 .. N : C[n] = E(n)
    BY <2>1
  <2>3. 0 \in 0 .. N /\ \A n \in 1 .. N : n \in 0 .. N /\ n # 0
    BY <1>1
  <2> QED
    BY <2>2, <2>3 DEF E
<1> HIDE DEF C
<1>3. Bad = {}
  <2> SUFFICES ASSUME Bad # {} PROVE FALSE
    OBVIOUS
  <2>1. PICK m \in Bad : \A k \in Bad : m <= k
    <3>1. Bad \in SUBSET Nat
      BY <1>1
    <3> HIDE DEF Bad
    <3> QED
      BY <3>1, Least
  <2>2. m # 0
    <3>1. C[0] \in Seq(Located(a))
      BY <1>2
    <3> QED
      BY <3>1
  <2>3. m \in 1 .. N /\ C[m - 1] \in Seq(Located(a))
    BY <2>1, <2>2, <1>1
  <2>4. Named(a, a.modnames[m]) => ModulePath(a, a.modnames[m]) \in Located(a)
    BY <2>3, <1>1, ModulePathType
  <2>5. C[m] \in Seq(Located(a))
    <3>1. CASE Named(a, a.modnames[m])
      <4> DEFINE e == ModulePath(a, a.modnames[m])
      <4>1. C[m] = Append(C[m - 1], e) /\ e \in Located(a)
        BY <2>3, <2>4, <1>2, <3>1
      <4> HIDE DEF e
      <4> QED
        BY <4>1, <2>3, AppendProperties
    <3>2. CASE ~Named(a, a.modnames[m])
      BY <2>3, <1>2, <3>2
    <3> QED
      BY <3>1, <3>2
  <2> QED
    BY <2>1, <2>5
<1> QED
  BY <1>1, <1>3 DEF Modules, C
----------------------------------------------------------------------------
(* The list of modules not finished.                                       *)

\* A suffix, by index.
LEMMA SuffixByIndex ==
  ASSUME NEW S, NEW s \in Seq(S), NEW t \in Seq(S)
  PROVE  IsSuffix(s, t) <=>
           Len(s) <= Len(t) /\ \A i \in 1 .. Len(s) : s[i] = t[Len(t) - Len(s) + i]
<1>1. /\ Reverse(s) \in Seq(S) /\ Len(Reverse(s)) = Len(s)
      /\ \A i \in 1 .. Len(s) : Reverse(s)[i] = s[Len(s) - i + 1]
  BY DEF Reverse
<1>2. /\ Reverse(t) \in Seq(S) /\ Len(Reverse(t)) = Len(t)
      /\ \A i \in 1 .. Len(t) : Reverse(t)[i] = t[Len(t) - i + 1]
  BY DEF Reverse
<1>3. IsSuffix(s, t) <=>
        Len(s) <= Len(t) /\ \A i \in 1 .. Len(s) : Reverse(s)[i] = Reverse(t)[i]
  BY <1>1, <1>2, PrefixByIndex DEF IsSuffix
<1>4. CASE Len(s) <= Len(t)
  <2>1. Len(s) \in Nat /\ Len(t) \in Nat
    OBVIOUS
  <2>2. ASSUME \A i \in 1 .. Len(s) : Reverse(s)[i] = Reverse(t)[i], NEW i \in 1 .. Len(s)
        PROVE  s[i] = t[Len(t) - Len(s) + i]
    <3> DEFINE k == Len(s) - i + 1
    <3>1. k \in 1 .. Len(s) /\ k \in 1 .. Len(t) /\ Len(s) - k + 1 = i
          /\ Len(t) - k + 1 = Len(t) - Len(s) + i
      BY <1>4, <2>1
    <3> HIDE DEF k
    <3> QED
      BY <3>1, <2>2, <1>1, <1>2
  <2>3. ASSUME \A i \in 1 .. Len(s) : s[i] = t[Len(t) - Len(s) + i], NEW i \in 1 .. Len(s)
        PROVE  Reverse(s)[i] = Reverse(t)[i]
    <3> DEFINE k == Len(s) - i + 1
    <3>1. k \in 1 .. Len(s) /\ i \in 1 .. Len(t) /\ Len(t) - i + 1 = Len(t) - Len(s) + k
      BY <1>4, <2>1
    <3>2. Reverse(s)[i] = s[k] /\ Reverse(t)[i] = t[Len(t) - i + 1]
      BY <3>1, <1>1, <1>2
    <3> HIDE DEF k
    <3> QED
      BY <3>1, <3>2, <2>3
  <2> QED
    BY <1>3, <1>4, <2>2, <2>3
<1> QED
  BY <1>3, <1>4

LEMMA TailShorter ==
  ASSUME NEW S, NEW s \in Seq(S), s # <<>>
  PROVE  Tail(s) # s
<1> DEFINE b == Len(s)
           c == Len(Tail(s))
<1>1. b \in Nat /\ c = b - 1
  BY HeadTailProperties
<1> HIDE DEF b, c
<1>2. b # c
  BY <1>1
<1> QED
  BY <1>2 DEF b, c

\* The list is what is left of the modules asked for: its head is the module whose
\* turn it is, and its tail what is left after that.
LEMMA TurnFacts ==
  ASSUME TypeOK, NEW p \in Procs
  PROVE  /\ Len(asked[p]) \in Nat /\ Len(todo[p]) \in Nat /\ Turn(p) \in 0 .. Len(asked[p])
         /\ \A i \in 1 .. Len(todo[p]) : todo[p][i] = asked[p][Turn(p) + i]
         /\ todo[p] = <<>> => Turn(p) = Len(asked[p])
         /\ todo[p] # <<>> =>
              /\ Turn(p) + 1 \in 1 .. Len(asked[p]) /\ Head(todo[p]) = asked[p][Turn(p) + 1]
              /\ Head(todo[p]) \in Paths
              /\ Tail(todo[p]) \in Seq(Paths) /\ IsSuffix(Tail(todo[p]), asked[p])
              /\ Len(Tail(todo[p])) = Len(todo[p]) - 1
<1>1. todo[p] \in Seq(Paths) /\ asked[p] \in Seq(Paths) /\ IsSuffix(todo[p], asked[p])
  BY DEF TypeOK
<1>2. Len(asked[p]) \in Nat /\ Len(todo[p]) \in Nat
  BY <1>1
<1>3. /\ Len(todo[p]) <= Len(asked[p])
      /\ \A i \in 1 .. Len(todo[p]) : todo[p][i] = asked[p][Turn(p) + i]
  BY <1>1, SuffixByIndex DEF Turn
<1>4. todo[p] = <<>> => Len(todo[p]) = 0
  BY <1>1
<1>6. Turn(p) = Len(asked[p]) - Len(todo[p]) /\ Turn(p) \in 0 .. Len(asked[p])
  <2> DEFINE a == Len(asked[p])
             b == Len(todo[p])
  <2>1. a \in Nat /\ b \in Nat /\ b <= a /\ Turn(p) = a - b
    BY <1>2, <1>3 DEF Turn
  <2> HIDE DEF a, b
  <2>2. Turn(p) = a - b /\ Turn(p) \in 0 .. a
    BY <2>1
  <2> QED
    BY <2>2 DEF a, b
<1>5. CASE todo[p] # <<>>
  <2> DEFINE s == Tail(todo[p])
  <2>1. /\ Head(todo[p]) = todo[p][1] /\ Len(todo[p]) # 0 /\ s \in Seq(Paths)
        /\ Len(s) = Len(todo[p]) - 1 /\ \A i \in 1 .. Len(s) : s[i] = todo[p][i + 1]
    BY <1>1, <1>5
  <2>2. Head(todo[p]) \in Paths
    BY <1>1, <2>1
  <2>3. IsSuffix(s, asked[p])
    <3>1. ASSUME NEW i \in 1 .. Len(s)
          PROVE  s[i] = asked[p][Len(asked[p]) - Len(s) + i]
      <4> DEFINE a == Len(asked[p])
                 b == Len(todo[p])
                 c == Len(s)
      <4>2. a \in Nat /\ b \in Nat /\ c = b - 1 /\ b # 0 /\ i \in 1 .. c /\ Turn(p) = a - b
        BY <2>1, <1>2, <1>6
      <4>1. i + 1 \in 1 .. Len(todo[p]) /\ Len(asked[p]) - Len(s) + i = Turn(p) + (i + 1)
        <5> HIDE DEF a, b, c
        <5>1. i + 1 \in 1 .. b /\ a - c + i = Turn(p) + (i + 1)
          BY <4>2
        <5> QED
          BY <5>1 DEF a, b, c
      <4> QED
        BY <4>1, <2>1, <1>3
    <3>2. Len(s) <= Len(asked[p])
      BY <2>1, <1>2, <1>3
    <3> HIDE DEF s
    <3> QED
      BY <3>1, <3>2, <2>1, <1>1, SuffixByIndex
  <2>4. 1 \in 1 .. Len(todo[p]) /\ Turn(p) + 1 \in 1 .. Len(asked[p])
    <3> DEFINE a == Len(asked[p])
               b == Len(todo[p])
    <3>1. a \in Nat /\ b \in Nat /\ b # 0 /\ b <= a /\ Turn(p) = a - b
      BY <2>1, <1>2, <1>3, <1>6
    <3> HIDE DEF a, b
    <3>2. 1 \in 1 .. b /\ Turn(p) + 1 \in 1 .. a
      BY <3>1
    <3> QED
      BY <3>2 DEF a, b
  <2>5. Head(todo[p]) = asked[p][Turn(p) + 1]
    BY <2>1, <2>4, <1>3
  <2> HIDE DEF s
  <2>6. Len(s) = Len(todo[p]) - 1 /\ s \in Seq(Paths)
    BY <2>1
  <2> QED
    BY <2>2, <2>3, <2>4, <2>5, <2>6, <1>2, <1>3, <1>5, <1>6 DEF s
<1>7. CASE todo[p] = <<>>
  BY <1>2, <1>3, <1>4, <1>6, <1>7
<1> QED
  BY <1>5, <1>7

----------------------------------------------------------------------------
(* What a step does to the tree.                                           *)

\* Nothing outside the directory m is removed or changed, and what is new is in
\* that directory or on the way to it.
Confined(m) ==
  /\ \A x \in DOMAIN tree : ~IsPrefix(m, x) => x \in DOMAIN tree' /\ tree'[x] = tree[x]
  /\ \A x \in DOMAIN tree' \ DOMAIN tree : IsPrefix(m, x) \/ IsPrefix(x, m)

\* mkdir, or open(..., "w"), in a directory that is there.
LEMMA OpenTree ==
  ASSUME IsTree(tree), NEW m \in Paths, NEW t \in Paths,
         IsPrefix(m, t) \/ (IsPrefix(t, m) /\ t \notin DOMAIN tree),
         Front(t) \in DOMAIN tree, NEW v \in {"dir", "empty", "whole"}, tree' = With(t, v)
  PROVE  /\ IsTree(tree)' /\ Confined(m)
         /\ t \in DOMAIN tree' /\ tree'[t] = v
         /\ \A x \in DOMAIN tree : x \in DOMAIN tree' /\ (x # t => tree'[x] = tree[x])
<1>1. t \in Paths /\ (IsPrefix(m, t) \/ IsPrefix(t, m))
  OBVIOUS
<1>2. /\ DOMAIN tree' = DOMAIN tree \cup {t} /\ tree'[t] = v
      /\ \A x \in DOMAIN tree : x # t => tree'[x] = tree[x]
      /\ tree' = [q \in DOMAIN tree' |-> tree'[q]]
  BY DEF With
<1>3. IsTree(tree)'
  <2>1. IsFiniteSet(DOMAIN tree') /\ DOMAIN tree' \subseteq Paths
    <3>1. IsFiniteSet(DOMAIN tree) /\ DOMAIN tree \subseteq Paths
      BY DEF IsTree, Paths
    <3>2. IsFiniteSet(DOMAIN tree \cup {t})
      BY <3>1, FS_AddElement
    <3> QED
      BY <3>1, <3>2, <1>1, <1>2
  <2>2. tree' \in [DOMAIN tree' -> {"dir", "empty", "whole"}]
    <3>1. \A x \in DOMAIN tree : tree[x] \in {"dir", "empty", "whole"}
      BY DEF IsTree
    <3> QED
      BY <3>1, <1>2
  <2>3. ASSUME NEW q \in DOMAIN tree', NEW x \in WithParents(q) PROVE x \in DOMAIN tree'
    <3>1. CASE q \in DOMAIN tree
      BY <3>1, <2>3, <1>2 DEF IsTree
    <3>2. CASE q = t
      <4>1. x \in Paths /\ IsPrefix(x, t)
        BY <3>2, <2>3, <1>1, ParentsArePaths, ParentsArePrefixes DEF Paths
      <4>4. x \in Seq(Names) /\ t \in Seq(Names) /\ Len(x) \in Nat /\ Len(t) \in Nat
        BY <4>1, <1>1 DEF Paths
      <4>2. CASE Len(x) = Len(t)
        <5>1. x = t
          BY <4>1, <4>2, <4>4, PrefixOrder
        <5> QED
          BY <5>1, <1>2
      <4>3. CASE Len(x) # Len(t)
        <5>4. IsPrefix(x, Front(t))
          BY <4>1, <4>3, <4>4, ProperPrefix
        <5> QED
          BY <4>1, <5>4, <1>2, TreeClosed
      <4> QED
        BY <4>2, <4>3
    <3> QED
      BY <3>1, <3>2, <1>2
  <2> QED
    BY <2>1, <2>2, <2>3 DEF IsTree, Paths
<1>4. Confined(m)
  <2>1. ASSUME NEW x \in DOMAIN tree, ~IsPrefix(m, x) PROVE x # t
    BY <2>1
  <2>2. ASSUME NEW x \in DOMAIN tree' \ DOMAIN tree PROVE x = t
    BY <2>2, <1>2
  <2> QED
    BY <1>1, <1>2, <2>1, <2>2 DEF Confined
<1> QED
  BY <1>2, <1>3, <1>4

\* rmtree removes d, which is in the directory m, and all that is below it.
LEMMA PrunedTree ==
  ASSUME IsTree(tree), NEW m \in Paths, NEW d \in Paths, IsPrefix(m, d),
         tree' = [q \in DOMAIN tree \ Below(d) |-> tree[q]]
  PROVE  /\ IsTree(tree)' /\ Confined(m)
         /\ \A x \in DOMAIN tree' : x \in DOMAIN tree /\ tree'[x] = tree[x]
<1>1. /\ DOMAIN tree' = DOMAIN tree \ Below(d)
      /\ \A x \in DOMAIN tree' : x \in DOMAIN tree /\ tree'[x] = tree[x]
      /\ tree' = [q \in DOMAIN tree' |-> tree'[q]]
  OBVIOUS
<1>2. IsFiniteSet(DOMAIN tree) /\ DOMAIN tree \subseteq Paths
  BY DEF IsTree, Paths
<1>3. IsTree(tree)'
  <2>1. IsFiniteSet(DOMAIN tree') /\ DOMAIN tree' \subseteq Paths
    BY <1>1, <1>2, FS_Subset
  <2>2. tree' \in [DOMAIN tree' -> {"dir", "empty", "whole"}]
    <3>1. \A x \in DOMAIN tree : tree[x] \in {"dir", "empty", "whole"}
      BY DEF IsTree
    <3> QED
      BY <3>1, <1>1
  <2>3. ASSUME NEW q \in DOMAIN tree', NEW x \in WithParents(q) PROVE x \in DOMAIN tree'
    <3>1. q \in DOMAIN tree /\ x \in DOMAIN tree /\ q \in Paths /\ x \in Paths
      BY <2>3, <1>1, <1>2 DEF IsTree
    <3>2. IsPrefix(x, q)
      BY <3>1, <2>3, ParentsArePrefixes DEF Paths
    <3>3. IsPrefix(d, x) => IsPrefix(d, q)
      BY <3>1, <3>2, PrefixOrder DEF Paths
    <3> QED
      BY <3>1, <3>3, <1>1 DEF Below
  <2> QED
    BY <2>1, <2>2, <2>3 DEF IsTree, Paths
<1>4. Confined(m)
  <2>1. ASSUME NEW x \in DOMAIN tree, ~IsPrefix(m, x) PROVE x \in DOMAIN tree'
    <3>1. x \in Paths
      BY <1>2
    <3>2. ~IsPrefix(d, x)
      BY <2>1, <3>1, PrefixOrder DEF Paths
    <3> QED
      BY <3>2, <1>1 DEF Below
  <2> QED
    BY <2>1, <1>1 DEF Confined
<1> QED
  BY <1>1, <1>3, <1>4
\* A directory that neither holds m nor is inside m is left as it is by what is
\* confined to m.
LEMMA Undisturbed ==
  ASSUME NEW m \in Paths, NEW n \in Paths, Confined(m), ~IsPrefix(m, n), ~IsPrefix(n, m),
         IsTree(tree), IsTree(tree)'
  PROVE  /\ n \in DOMAIN tree' <=> n \in DOMAIN tree
         /\ \A s \in Seq(Names) : n \o s \in DOMAIN tree' <=> n \o s \in DOMAIN tree
         /\ \A i \in DOMAIN functions : Right(n, functions[i])' <=> Right(n, functions[i])
         /\ Whole(n)' <=> Whole(n)
<1>1. ASSUME NEW s \in Seq(Names)
      PROVE  /\ n \o s \in DOMAIN tree' <=> n \o s \in DOMAIN tree
             /\ n \o s \in DOMAIN tree => tree'[n \o s] = tree[n \o s]
  <2> DEFINE x == n \o s
  <2>1. x \in Seq(Names) /\ IsPrefix(n, x) /\ m \in Seq(Names) /\ n \in Seq(Names)
    BY PrefixOfConcat DEF Paths
  <2> HIDE DEF x
  <2>2. ~IsPrefix(m, x) /\ ~IsPrefix(x, m)
    BY <2>1, PrefixOrder
  <2>3. /\ x \in DOMAIN tree' <=> x \in DOMAIN tree
        /\ x \in DOMAIN tree => tree'[x] = tree[x]
    BY <2>2 DEF Confined
  <2> QED
    BY <2>3 DEF x
<1>2. n \o <<>> = n /\ <<>> \in Seq(Names)
  BY EmptySeq, ConcatEmptySeq DEF Paths
<1>3. ASSUME NEW i \in DOMAIN functions PROVE Right(n, functions[i])' <=> Right(n, functions[i])
  <2>1. functions[i].path \in Seq(Names)
    BY ItemList, ItemFacts
  <2> QED
    BY <2>1, <1>1 DEF Right
<1>4. ASSUME NEW i \in DOMAIN functions, NEW s \in functions[i].names PROVE s \in Seq(Names)
  <2>1. \E k \in 1 .. 15 : functions[k].path = s
    BY ItemList, NamesAreMade
  <2> QED
    BY <2>1, ItemFacts
<1>5. Whole(n)' <=> Whole(n)
  BY <1>1, <1>3, <1>4 DEF Whole
<1> QED
  BY <1>1, <1>2, <1>3, <1>5

\* What is right inside the directory m is there, and so is m.
LEMMA RightInside ==
  ASSUME IsTree(tree), NEW m \in Paths, NEW i \in 1 .. 15, Right(m, functions[i])
  PROVE  m \in DOMAIN tree
<1>1. functions[i].path \in Seq(Names)
  BY ItemFacts
<1>2. m \o functions[i].path \in DOMAIN tree /\ IsPrefix(m, m \o functions[i].path)
  BY <1>1, PrefixOfConcat DEF Right, Paths
<1> QED
  BY <1>2, TreeClosed

\* A module of which every step is done is whole: its files are among them.
LEMMA AllRight ==
  ASSUME NEW m, \A i \in 1 .. 15 : Right(m, functions[i])
  PROVE  Whole(m)
<1>1. ASSUME NEW i \in 1 .. 15, NEW n \in functions[i].names PROVE m \o n \in DOMAIN tree
  <2>1. PICK k \in 1 .. 15 : functions[k].path = n
    BY NamesAreMade
  <2> QED
    BY <2>1 DEF Right
<1> QED
  BY <1>1, ItemList DEF Whole

\* Different paths in one directory are different.
LEMMA SameDirectory ==
  ASSUME NEW m \in Seq(Names), NEW s \in Seq(Names), NEW t \in Seq(Names), m \o s = m \o t
  PROVE  s = t
<1> DEFINE a == Len(m)
           b == Len(s)
           c == Len(t)
<1>1. a \in Nat /\ b \in Nat /\ c \in Nat /\ a + b = a + c
  BY PrefixOfConcat
<1> HIDE DEF a, b, c
<1>2. b = c
  BY <1>1
<1>3. ASSUME NEW i \in 1 .. Len(s) PROVE s[i] = t[i]
  <2>1. i \in 1 .. Len(t)
    BY <1>2 DEF b, c
  <2>2. s[i] = (m \o s)[Len(m) + i] /\ t[i] = (m \o t)[Len(m) + i]
    BY <2>1
  <2> QED
    BY <2>2
<1> QED
  BY <1>2, <1>3, SeqEqual DEF b, c

\* A path whose parent is the directory m is inside m.
LEMMA EntryInside ==
  ASSUME NEW m \in Paths, NEW d \in Paths, Front(d) = m
  PROVE  IsPrefix(m, d)
<1> DEFINE n == Len(d)
<1>1. n \in Nat /\ n # 0 /\ d \in Seq(Names)
  BY EmptySeq DEF Paths
<1>2. m = SubSeq(d, 1, n - 1)
  BY DEF Front
<1> HIDE DEF n
<1>3. 1 .. n - 1 \subseteq 1 .. n /\ n - 1 \in Nat /\ n - 1 <= n
  BY <1>1
<1>4. Len(m) = n - 1 /\ \A i \in 1 .. n - 1 : m[i] = d[i]
  <2> DEFINE k == n - 1
  <2>1. k \in Nat /\ \A i \in 1 .. k : i \in 1 .. Len(d)
    BY <1>1, <1>3 DEF n
  <2> HIDE DEF k
  <2>2. Len(SubSeq(d, 1, k)) = k /\ \A i \in 1 .. k : SubSeq(d, 1, k)[i] = d[i]
    BY <1>1, <2>1
  <2> QED
    BY <2>2, <1>2 DEF k
<1> QED
  BY <1>1, <1>3, <1>4, PrefixByIndex DEF n, Paths

\* The list rmtree works through: the entries of the directory.
LEMMA EntryList ==
  ASSUME IsTree(tree), NEW m \in Paths
  PROVE  /\ SetToSeq(Entries(m)) \in Seq(Paths)
         /\ \A i \in DOMAIN SetToSeq(Entries(m)) : Front(SetToSeq(Entries(m))[i]) = m
<1> DEFINE E == Entries(m)
           N == Cardinality(E)
<1>1. IsFiniteSet(E) /\ E \subseteq Paths
  BY FS_Subset DEF IsTree, Entries, Below, Paths
<1>2. \A q \in E : Front(q) = m
  <2> SUFFICES ASSUME NEW q \in E PROVE Front(q) = m
    OBVIOUS
  <2>1. q \in Seq(Names) /\ m \in Seq(Names) /\ IsPrefix(m, q) /\ Len(q) = Len(m) + 1
    BY <1>1 DEF Entries, Below, Paths
  <2> DEFINE a == Len(m)
             b == Len(q)
  <2>2. a \in Nat /\ b = a + 1
    BY <2>1
  <2> HIDE DEF a, b
  <2>3. b - 1 = a /\ 0 <= a
    BY <2>2
  <2>4. SubSeq(m, 1, a) = SubSeq(q, 1, a) /\ SubSeq(m, 1, a) = m
    BY <2>1, SubSeqFull DEF IsPrefix, a
  <2>5. Front(q) = SubSeq(q, 1, b - 1)
    BY DEF Front, b
  <2> QED
    BY <2>3, <2>4, <2>5
<1> HIDE DEF E
<1>3. N \in Nat /\ \E f \in [1 .. N -> E] : IsInjective(f)
  <2>1. N \in Nat /\ ExistsBijection(1 .. N, E)
    BY <1>1, FS_CardinalityType
  <2>2. PICK f : f \in Bijection(1 .. N, E)
    BY <2>1 DEF ExistsBijection
  <2>3. f \in [1 .. N -> E] /\ IsInjective(f)
    BY <2>2 DEF Bijection, Injection, IsInjective
  <2> QED
    BY <2>1, <2>3
<1>4. SetToSeq(E) \in [1 .. N -> E]
  BY <1>3 DEF SetToSeq
<1> DEFINE s == SetToSeq(E)
<1> HIDE DEF s, N
<1>5. s \in Seq(Paths) /\ \A i \in DOMAIN s : s[i] \in E
  BY <1>1, <1>3, <1>4 DEF s
<1> QED
  BY <1>2, <1>5 DEF s, E

----------------------------------------------------------------------------
(* What each step does to the tree.                                        *)

\* The module at hand, and the item of it that is next.
LEMMA AtHand ==
  ASSUME TypeOK, RunInv, NEW p \in Procs, pc[p] \in {"make", "undo", "remove"}
  PROVE  /\ todo[p] # <<>> /\ Head(todo[p]) \in Paths /\ Head(todo[p]) \notin DOMAIN before
         /\ Making(p) => step[p] + 1 \in 1 .. 15 /\ Item(p) = functions[step[p] + 1]
                         /\ Item(p).path \in Seq(Names) /\ Item(p).kind \in {"dir", "file"}
                         /\ (Item(p).kind = "file" => Item(p).path # <<>>)
<1>1. todo[p] # <<>> /\ Head(todo[p]) \notin DOMAIN before
  BY DEF RunInv
<1>2. Head(todo[p]) \in Paths
  BY <1>1, TurnFacts
<1>3. ASSUME Making(p) PROVE step[p] + 1 \in 1 .. 15
  <2>1. step[p] \in 0 .. 15 /\ step[p] < 15
    BY <1>3, ItemList DEF TypeOK, Making
  <2> QED
    BY <2>1
<1> QED
  BY <1>1, <1>2, <1>3, ItemFacts DEF Item

LEMMA ParentOfFront ==
  ASSUME NEW t \in Paths, NEW q \in WithParents(Front(t))
  PROVE  q \in Paths /\ IsPrefix(q, t)
<1>1. t \in Seq(Names) /\ Len(t) \in Nat /\ Len(t) # 0
  BY EmptySeq DEF Paths
<1>2. PICK n \in 1 .. Len(t) - 1 : q = SubSeq(Front(t), 1, n)
  BY <1>1 DEF WithParents, Front
<1>3. q = SubSeq(t, 1, n) /\ n \in 1 .. Len(t)
  BY <1>1, <1>2 DEF Front
<1>4. q \in WithParents(t)
  BY <1>3 DEF WithParents
<1>5. q \in Paths
  BY <1>1, <1>4, ParentsArePaths
<1> QED
  BY <1>1, <1>4, <1>5, ParentsArePrefixes

\* A directory that was not there, at the module at hand, in it or on the way to it.
LEMMA DirTree ==
  ASSUME IsTree(tree), NEW m \in Paths, NEW t \in Paths, IsPrefix(m, t) \/ IsPrefix(t, m),
         Front(t) \in DOMAIN tree, t \notin DOMAIN tree, tree' = With(t, "dir")
  PROVE  /\ IsTree(tree)' /\ Confined(m) /\ t \in DOMAIN tree' /\ tree'[t] = "dir"
         /\ \A i \in 1 .. 15 : Right(m, functions[i]) => Right(m, functions[i])'
         /\ ~Right(m, functions[15]) => ~Right(m, functions[15])'
<1>1. PICK v \in {"dir", "empty", "whole"} : v = "dir"
  OBVIOUS
<1>2. tree' = With(t, v)
  BY <1>1
<1>3. /\ IsTree(tree)' /\ Confined(m) /\ t \in DOMAIN tree' /\ tree'[t] = v
      /\ \A x \in DOMAIN tree : x \in DOMAIN tree' /\ (x # t => tree'[x] = tree[x])
  BY <1>2, OpenTree
<1>4. DOMAIN tree' = DOMAIN tree \cup {t}
  BY DEF With
<1>5. functions[15].kind = "file"
  BY ItemFacts
<1>6. \A i \in 1 .. 15 : Right(m, functions[i]) => Right(m, functions[i])'
  BY <1>3 DEF Right
<1>7. ~Right(m, functions[15]) => ~Right(m, functions[15])'
  BY <1>1, <1>3, <1>4, <1>5 DEF Right
<1> QED
  BY <1>1, <1>3, <1>6, <1>7

\* One parent that was missing.
LEMMA ParentTree ==
  ASSUME TypeOK, RunInv, NEW p \in Procs, MakeParent(p), NEW m, m = Head(todo[p])
  PROVE  /\ IsTree(tree)' /\ Confined(m)
         /\ \A i \in 1 .. 15 : Right(m, functions[i]) => Right(m, functions[i])'
         /\ ~Right(m, functions[15]) => ~Right(m, functions[15])'
<1>1. /\ Making(p) /\ pc[p] = "make" /\ IsTree(tree)
  BY DEF MakeParent, Making, TypeOK
<1>2. m \in Paths /\ Item(p).path \in Seq(Names)
  BY <1>1, AtHand
<1>3. PICK t : t = Target(p)
  OBVIOUS
<1>4. t \in Paths /\ IsPrefix(m, t)
  BY <1>2, <1>3, InsideModule DEF Target
<1>5. PICK q \in WithParents(Front(t)) : /\ q \notin DOMAIN tree /\ Front(q) \in DOMAIN tree
                                        /\ tree' = With(q, "dir")
  BY <1>3 DEF MakeParent, Dirs
<1>6. q \in Paths /\ IsPrefix(q, t)
  BY <1>4, <1>5, ParentOfFront
<1>7. IsPrefix(m, q) \/ IsPrefix(q, m)
  BY <1>2, <1>4, <1>6, PrefixOrder DEF Paths
<1> QED
  BY <1>1, <1>2, <1>5, <1>6, <1>7, DirTree

\* mkdir, or open and write, that succeeds.
LEMMA MakeTree ==
  ASSUME TypeOK, RunInv, NEW p \in Procs, Make(p),
         NEW m, m = Head(todo[p]), NEW n, n = step[p] + 1
  PROVE  /\ IsTree(tree)' /\ Confined(m) /\ n \in 1 .. 15
         /\ Right(m, functions[n])'
         /\ \A i \in 1 .. 15 : Right(m, functions[i]) => Right(m, functions[i])'
         /\ n < 15 /\ ~Right(m, functions[15]) => ~Right(m, functions[15])'
<1>0. PICK s, t, f : s = Item(p).path /\ t = Target(p) /\ f = functions[n]
  OBVIOUS
<1>1. /\ Making(p) /\ Possible(p) /\ tree' = Made(p) /\ IsTree(tree) /\ pc[p] = "make"
  BY DEF Make, TypeOK, Making
<1>2. /\ m \in Paths /\ n \in 1 .. 15 /\ Item(p) = f /\ f.path = s
      /\ s \in Seq(Names) /\ f.kind \in {"dir", "file"} /\ (f.kind = "file" => s # <<>>)
  BY <1>0, <1>1, AtHand
<1>3. t = m \o s /\ t \in Paths /\ IsPrefix(m, t)
  BY <1>0, <1>2, InsideModule DEF Target
<1>4. ASSUME n < 15 PROVE s # functions[15].path
  <2>1. n \in 1 .. 14
    BY <1>2, <1>4
  <2>2. functions[n].path # functions[15].path
    BY <2>1, ItemFacts
  <2> QED
    BY <1>0, <1>2, <2>2
<1>5. functions[15].kind = "file" /\ \A i \in 1 .. 15 : functions[i].path \in Seq(Names)
  BY ItemFacts
<1>6. CASE f.kind = "dir"
  <2>1. Front(t) \in DOMAIN tree /\ t \notin DOMAIN tree /\ tree' = With(t, "dir")
    BY <1>0, <1>1, <1>2, <1>6 DEF Made, Possible, Dirs
  <2>2. /\ IsTree(tree)' /\ Confined(m)
        /\ \A i \in 1 .. 15 : Right(m, functions[i]) => Right(m, functions[i])'
        /\ ~Right(m, functions[15]) => ~Right(m, functions[15])'
        /\ t \in DOMAIN tree' /\ tree'[t] = "dir"
    BY <1>1, <1>2, <1>3, <2>1, DirTree
  <2>3. Right(m, functions[n])'
    BY <1>0, <1>2, <1>3, <1>6, <2>2 DEF Right
  <2> QED
    BY <1>2, <2>2, <2>3
<1>7. CASE f.kind = "file"
  <2>1. Front(t) \in DOMAIN tree /\ t \notin Dirs /\ tree' = With(t, "whole")
    BY <1>0, <1>1, <1>2, <1>7 DEF Made, Possible, Dirs
  <2>2. /\ IsTree(tree)' /\ Confined(m) /\ t \in DOMAIN tree' /\ tree'[t] = "whole"
        /\ \A x \in DOMAIN tree : x \in DOMAIN tree' /\ (x # t => tree'[x] = tree[x])
    <3>1. PICK v \in {"empty", "whole"} : v = "whole"
      OBVIOUS
    <3>2. IsTree(tree) /\ m \in Paths /\ tree' = With(t, v) /\ Front(t) \in DOMAIN tree
      BY <1>1, <1>2, <2>1, <3>1
    <3>3. /\ IsTree(tree)' /\ Confined(m) /\ t \in DOMAIN tree' /\ tree'[t] = v
          /\ \A x \in DOMAIN tree : x \in DOMAIN tree' /\ (x # t => tree'[x] = tree[x])
      BY <1>3, <3>2, OpenTree
    <3> QED
      BY <3>1, <3>3
  <2>3. Right(m, functions[n])'
    BY <1>0, <1>2, <1>3, <1>7, <2>2 DEF Right
  <2>4. ASSUME NEW i \in 1 .. 15, Right(m, functions[i]) PROVE Right(m, functions[i])'
    <3>1. CASE m \o functions[i].path = t
      <4>1. tree[t] # "dir"
        BY <2>1, <2>4, <3>1 DEF Dirs, Right
      <4> QED
        BY <3>1, <4>1, <2>2, <2>4 DEF Right
    <3>2. CASE m \o functions[i].path # t
      BY <3>2, <2>2, <2>4 DEF Right
    <3> QED
      BY <3>1, <3>2
  <2>5. ASSUME n < 15, ~Right(m, functions[15]) PROVE ~Right(m, functions[15])'
    <3>0. m \in Seq(Names) /\ functions[15].path \in Seq(Names) /\ s # functions[15].path
      <4>1. 15 \in 1 .. 15
        OBVIOUS
      <4> QED
        BY <1>2, <1>4, <1>5, <2>5, <4>1 DEF Paths
    <3>1. m \o functions[15].path # t
      BY <1>2, <1>3, <3>0, SameDirectory
    <3>2. DOMAIN tree' = DOMAIN tree \cup {t}
      BY <2>1 DEF With
    <3> QED
      BY <3>1, <3>2, <2>2, <2>5 DEF Right
  <2> QED
    BY <1>2, <2>2, <2>3, <2>4, <2>5
<1> QED
  BY <1>2, <1>6, <1>7

\* open that succeeds, and a write that fails or is cut short.
LEMMA OpenedTree ==
  ASSUME TypeOK, RunInv, NEW p \in Procs, Making(p), Item(p).kind = "file", tree' = Opened(p),
         NEW m, m = Head(todo[p])
  PROVE  /\ IsTree(tree)' /\ (tree' # tree => Confined(m))
         /\ ~Right(m, functions[15]) => ~Right(m, functions[15])'
<1>0. PICK s, t : s = Item(p).path /\ t = Target(p)
  OBVIOUS
<1>1. IsTree(tree) /\ pc[p] = "make"
  BY DEF TypeOK, Making
<1>2. m \in Paths /\ s \in Seq(Names) /\ s # <<>>
  BY <1>0, <1>1, AtHand
<1>3. t = m \o s /\ t \in Paths /\ IsPrefix(m, t)
  BY <1>0, <1>2, InsideModule DEF Target
<1>4. functions[15].kind = "file"
  BY ItemFacts
<1>5. CASE ~Possible(p)
  BY <1>1, <1>5 DEF Opened, Right, IsTree
<1>6. CASE Possible(p)
  <2>1. Front(t) \in DOMAIN tree /\ tree' = With(t, "empty")
    BY <1>0, <1>6 DEF Opened, Possible, Dirs
  <2>2. /\ IsTree(tree)' /\ Confined(m) /\ tree'[t] = "empty"
        /\ \A x \in DOMAIN tree : x \in DOMAIN tree' /\ (x # t => tree'[x] = tree[x])
    <3>1. "empty" \in {"empty", "whole"}
      OBVIOUS
    <3> QED
      BY <1>1, <1>2, <1>3, <2>1, <3>1, OpenTree
  <2>3. DOMAIN tree' = DOMAIN tree \cup {t}
    BY <2>1 DEF With
  <2>4. ~Right(m, functions[15]) => ~Right(m, functions[15])'
    <3>1. CASE m \o functions[15].path = t
      BY <3>1, <2>2, <1>4 DEF Right
    <3>2. CASE m \o functions[15].path # t
      BY <3>2, <2>2, <2>3 DEF Right
    <3> QED
      BY <3>1, <3>2
  <2> QED
    BY <2>2, <2>4
<1> QED
  BY <1>5, <1>6

\* rmtree: an entry of the directory, or the directory.
LEMMA RemovedTree ==
  ASSUME TypeOK, RunInv, NEW p \in Procs, RemoveEntry(p) \/ RemoveDirectory(p), NEW m, m = Head(todo[p])
  PROVE  /\ IsTree(tree)' /\ Confined(m)
         /\ ~Right(m, functions[15]) => ~Right(m, functions[15])'
         /\ RemoveDirectory(p) => m \notin DOMAIN tree'
<1>1. m \in Paths /\ IsTree(tree)
  BY AtHand DEF RemoveEntry, RemoveDirectory, TypeOK
<1>2. PICK d \in Paths : IsPrefix(m, d) /\ tree' = [q \in DOMAIN tree \ Below(d) |-> tree[q]]
  <2>1. CASE RemoveEntry(p)
    <3> DEFINE d == Head(doomed[p])
    <3>1. doomed[p] \in Seq(Paths) /\ doomed[p] # <<>>
      BY <2>1 DEF RemoveEntry, TypeOK
    <3>2. d \in Paths /\ 1 \in DOMAIN doomed[p] /\ d = doomed[p][1]
      BY <3>1, EmptySeq
    <3>3. Front(d) = m
      BY <3>2 DEF TypeOK
    <3>4. tree' = [q \in DOMAIN tree \ Below(d) |-> tree[q]]
      BY <2>1 DEF RemoveEntry
    <3> HIDE DEF d
    <3> QED
      BY <3>2, <3>3, <3>4, <1>1, EntryInside
  <2>2. CASE RemoveDirectory(p)
    <3>1. IsPrefix(m, m)
      BY <1>1, PrefixOrder DEF Paths
    <3> QED
      BY <1>1, <2>2, <3>1 DEF RemoveDirectory
  <2> QED
    BY <2>1, <2>2
<1>3. /\ IsTree(tree)' /\ Confined(m)
      /\ \A x \in DOMAIN tree' : x \in DOMAIN tree /\ tree'[x] = tree[x]
  BY <1>1, <1>2, PrunedTree
<1>4. ~Right(m, functions[15]) => ~Right(m, functions[15])'
  BY <1>3 DEF Right
<1>5. RemoveDirectory(p) => m \notin DOMAIN tree'
  BY DEF RemoveDirectory
<1> QED
  BY <1>3, <1>4, <1>5

\* A run changes nothing outside the directory of the module at hand.
LEMMA RunTree ==
  ASSUME TypeOK, RunInv, NEW p \in Procs, Run(p)
  PROVE  /\ IsTree(tree)'
         /\ tree' # tree => Confined(Head(todo[p])) /\ pc[p] \in {"make", "remove"}
<1>1. CASE UNCHANGED tree
  BY <1>1 DEF TypeOK, IsTree
<1>2. CASE Make(p)
  BY <1>2, MakeTree DEF Make, Making
<1>3. CASE Fail(p)
  BY <1>1, <1>3, OpenedTree DEF Fail, Raises, Making
<1>4. CASE Kill(p)
  BY <1>4, OpenedTree DEF Kill, Making
<1>5. CASE RemoveEntry(p) \/ RemoveDirectory(p)
  BY <1>5, RemovedTree DEF RemoveEntry, RemoveDirectory
<1>6. CASE MakeParent(p)
  BY <1>6, ParentTree DEF MakeParent, Making
<1> QED
  BY <1>1, <1>2, <1>3, <1>4, <1>5, <1>6
     DEF Run, Start, Check, Succeed, NextModule, Undo, RemoveRaises
----------------------------------------------------------------------------
(* The parts of the invariant one by one.                                  *)

LEMMA StartTypeOK == Init => TypeOK
<1> SUFFICES ASSUME Init PROVE TypeOK
  OBVIOUS
<1>1. \A q \in Procs : args[q] \in CommandLine
  BY CreateModuleAssumption DEF Init, CommandLine
<1>2. \A q \in Procs : asked[q] \in Seq(Paths)
  <2> SUFFICES ASSUME NEW q \in Procs PROVE asked[q] \in Seq(Paths)
    OBVIOUS
  <2>1. asked[q] \in Seq(Located(args[q]))
    BY <1>1, ModulesType DEF Init
  <2>2. Located(args[q]) \subseteq Paths
    BY DEF Located
  <2> QED
    BY <2>1, <2>2
<1>3. asked \in [Procs -> Seq(Paths)]
  BY <1>2 DEF Init
<1>4. \A q \in Procs : IsSuffix(todo[q], asked[q])
  <2> SUFFICES ASSUME NEW q \in Procs PROVE IsSuffix(<<>>, asked[q])
    BY DEF Init
  <2>1. PICK s \in Seq(Paths) : s = <<>>
    BY EmptySeq
  <2>2. asked[q] \in Seq(Paths) /\ Len(s) <= Len(asked[q]) /\ 1 .. Len(s) = {}
    <3>1. Len(s) = 0 /\ asked[q] \in Seq(Paths) /\ Len(asked[q]) \in Nat
      BY <1>2, <2>1
    <3> QED
      BY <3>1
  <2>3. IsSuffix(s, asked[q])
    BY <2>2, SuffixByIndex
  <2> QED
    BY <2>1, <2>3
<1>5. before \in Trees /\ IsTree(tree) /\ args \in CommandLines
  BY CreateModuleAssumption DEF Init
<1>6. /\ todo \in [Procs -> Seq(Paths)] /\ doomed \in [Procs -> Seq(Paths)]
      /\ \A q \in Procs : DOMAIN doomed[q] = {}
  BY EmptySeq DEF Init
<1>7. step \in [Procs -> 0 .. Len(functions)]
  BY ItemList DEF Init
<1> QED
  BY <1>3, <1>4, <1>5, <1>6, <1>7 DEF Init, TypeOK

LEMMA StartRunInv == Init => RunInv
<1> SUFFICES ASSUME Init, NEW q \in Procs
             PROVE  /\ \A i, k \in 1 .. Len(asked[q]) : Len(asked[q][i]) = Len(asked[q][k])
                    /\ todo[q] = <<>> /\ pc[q] = "idle" /\ doomed[q] = <<>> /\ said[q] = "nothing"
  BY DEF RunInv
<1>1. args[q] \in CommandLine
  BY CreateModuleAssumption DEF Init, CommandLine
<1>2. asked[q] \in Seq(Located(args[q]))
  BY <1>1, ModulesType DEF Init
<1>3. \A i \in 1 .. Len(asked[q]) : Len(asked[q][i]) = Depth(args[q])
  BY <1>2 DEF Located
<1> QED
  BY <1>3 DEF Init

LEMMA StartMakeInv == Init => MakeInv
<1> SUFFICES ASSUME Init PROVE MakeInv
  OBVIOUS
<1>1. ASSUME NEW q \in Procs PROVE Mine(q) \cap DOMAIN tree = {} /\ pc[q] = "idle"
  BY DEF Init, Mine
<1>2. ModuleInv
  BY <1>1 DEF ModuleInv, Started
<1>3. UserFilesKept
  BY DEF Init, UserFilesKept
<1> QED
  BY <1>2, <1>3, StartTypeOK, StartRunInv DEF MakeInv

\* A run writes only its own entries of the functions that describe the runs.
LEMMA OwnEntries ==
  ASSUME TypeOK, NEW p \in Procs, Run(p)
  PROVE  /\ UNCHANGED <<args, asked, before>>
         /\ pc' \in [Procs -> {"idle", "check", "make", "undo", "remove", "done", "killed"}]
         /\ said' \in [Procs -> {"nothing", "usage", "exception", "exists", "failed", "created"}]
         /\ \A q \in Procs \ {p} :
              /\ pc'[q] = pc[q] /\ todo'[q] = todo[q] /\ step'[q] = step[q]
              /\ doomed'[q] = doomed[q] /\ said'[q] = said[q]
<1> USE DEF TypeOK, Set, End
<1>1. ASSUME Start(p)
      PROVE  Refusal(args[p]) \in {"usage", "exception", "nothing"}
  BY DEF Refusal
<1>2. CASE Start(p)
  BY <1>1, <1>2 DEF Start
<1>3. CASE Check(p) \/ Succeed(p) \/ NextModule(p)
  BY <1>3 DEF Check, Succeed, NextModule
<1>4. CASE MakeParent(p) \/ Make(p) \/ Fail(p) \/ Kill(p)
  BY <1>4 DEF MakeParent, Make, Fail, Kill
<1>5. CASE Undo(p) \/ RemoveEntry(p) \/ RemoveDirectory(p) \/ RemoveRaises(p)
  BY <1>5 DEF Undo, RemoveEntry, RemoveDirectory, RemoveRaises
<1> QED
  BY <1>2, <1>3, <1>4, <1>5 DEF Run

\* The module another run is at, and the other modules of this one, are apart from
\* the modules of this run alone.
LEMMA Apart ==
  ASSUME TypeOK, RunInv, NEW p \in Procs, todo[p] # <<>>, NEW m, m = Head(todo[p]),
         NEW q \in Procs, NEW n \in Mine(q), q = p => n # m
  PROVE  m \in Paths /\ n \in Paths /\ ~IsPrefix(m, n) /\ ~IsPrefix(n, m)
<1>1. asked[p] \in Seq(Paths) /\ asked[q] \in Seq(Paths)
  BY DEF TypeOK
<1>2. PICK i \in 1 .. Len(asked[p]) : asked[p][i] = m
  BY TurnFacts
<1>3. PICK k \in 1 .. Len(asked[q]) : asked[q][k] = n
  BY <1>1 DEF Mine, Range
<1>4. m \in Paths /\ n \in Paths
  BY <1>1, <1>2, <1>3
<1>5. CASE q = p
  <2>1. Len(m) = Len(n)
    BY <1>2, <1>3, <1>5 DEF RunInv
  <2> QED
    BY <1>4, <1>5, <2>1, PrefixOrder DEF Paths
<1>6. CASE q # p
  <2>1. m \in Range(asked[p])
    BY <1>1, <1>2 DEF Range
  <2> QED
    BY <1>4, <1>6, <2>1 DEF Mine, Contended
<1> QED
  BY <1>4, <1>5, <1>6

\* What a run does leaves the modules of the others alone as they are, and its own
\* except the one at hand.
LEMMA Elsewhere ==
  ASSUME TypeOK, RunInv, NEW p \in Procs, Run(p), NEW q \in Procs, NEW n \in Mine(q),
         q = p /\ pc[p] \in {"make", "undo", "remove"} => n # Head(todo[p])
  PROVE  /\ n \in DOMAIN tree' <=> n \in DOMAIN tree
         /\ \A i \in DOMAIN functions : Right(n, functions[i])' <=> Right(n, functions[i])
         /\ Whole(n)' <=> Whole(n)
<1>1. CASE tree' = tree
  BY <1>1 DEF Right, Whole
<1>2. CASE tree' # tree
  <2>1. PICK m : m = Head(todo[p])
    OBVIOUS
  <2>2. Confined(m) /\ pc[p] \in {"make", "remove"} /\ IsTree(tree)' /\ IsTree(tree)
    BY <1>2, <2>1, RunTree DEF TypeOK
  <2>3. todo[p] # <<>>
    BY <2>2, AtHand
  <2>4. m \in Paths /\ n \in Paths /\ ~IsPrefix(m, n) /\ ~IsPrefix(n, m)
    BY <2>1, <2>2, <2>3, Apart
  <2> QED
    BY <2>2, <2>4, Undisturbed
<1> QED
  BY <1>1, <1>2

\* The user's files: a run never works in a directory of theirs that it is not
\* to make, since every directory above one of their files is there.
LEMMA StepUserFiles ==
  ASSUME TypeOK, RunInv, UserFilesKept, NEW p \in Procs, Run(p)
  PROVE  UserFilesKept'
<1>1. UNCHANGED before
  BY OwnEntries
<1>2. CASE tree' = tree
  BY <1>1, <1>2 DEF UserFilesKept
<1>3. CASE tree' # tree
  <2>1. PICK m : m = Head(todo[p])
    OBVIOUS
  <2>2. Confined(m) /\ m \in Paths /\ m \notin DOMAIN before
    BY <1>3, <2>1, RunTree, AtHand
  <2>3. IsTree(before)
    BY CreateModuleAssumption DEF TypeOK
  <2>4. ASSUME NEW x \in DOMAIN before PROVE x \in DOMAIN tree' /\ tree'[x] = before[x]
    <3>1. ~IsPrefix(m, x)
      BY <2>2, <2>3, TreeClosed
    <3> QED
      BY <3>1, <2>2 DEF UserFilesKept, Confined
  <2> QED
    BY <1>1, <2>4 DEF UserFilesKept
<1> QED
  BY <1>2, <1>3
LEMMA StepTypeOK ==
  ASSUME TypeOK, RunInv, NEW p \in Procs, Run(p)
  PROVE  TypeOK'
<1>1. /\ UNCHANGED <<args, asked, before>> /\ IsTree(tree)'
      /\ pc' \in [Procs -> {"idle", "check", "make", "undo", "remove", "done", "killed"}]
      /\ said' \in [Procs -> {"nothing", "usage", "exception", "exists", "failed", "created"}]
      /\ \A q \in Procs \ {p} : todo'[q] = todo[q] /\ doomed'[q] = doomed[q]
  BY RunTree, OwnEntries
<1>2. /\ todo \in [Procs -> Seq(Paths)] /\ step \in [Procs -> 0 .. Len(functions)]
      /\ doomed \in [Procs -> Seq(Paths)] /\ asked[p] \in Seq(Paths)
      /\ IsSuffix(todo[p], asked[p])
      /\ \A i \in DOMAIN doomed[p] : Front(doomed[p][i]) = Head(todo[p])
  BY DEF TypeOK
<1>3. /\ todo' \in [Procs -> Seq(Paths)] /\ IsSuffix(todo'[p], asked[p])
  <2>1. CASE UNCHANGED todo
    BY <2>1, <1>2
  <2>2. CASE Start(p)
    <3>1. IsSuffix(asked[p], asked[p])
      BY <1>2, SuffixByIndex
    <3> QED
      BY <2>1, <2>2, <3>1, <1>2 DEF Start, Set
  <2>3. CASE NextModule(p)
    <3>1. todo[p] # <<>>
      BY <2>3, AtHand DEF NextModule
    <3>2. Tail(todo[p]) \in Seq(Paths) /\ IsSuffix(Tail(todo[p]), asked[p])
      BY <3>1, TurnFacts
    <3> QED
      BY <2>3, <3>2, <1>2 DEF NextModule, Set
  <2> QED
    BY <2>1, <2>2, <2>3
       DEF Run, Check, Succeed, MakeParent, Make, Fail, Undo, RemoveEntry, RemoveDirectory, RemoveRaises, Kill
<1>4. step' \in [Procs -> 0 .. Len(functions)]
  <2>1. CASE UNCHANGED step
    BY <2>1, <1>2
  <2>2. CASE Check(p)
    <3>1. 0 \in 0 .. Len(functions)
      BY ItemList
    <3> QED
      BY <2>1, <2>2, <3>1, <1>2 DEF Check, Set
  <2>3. CASE Make(p)
    <3>1. step[p] + 1 \in 0 .. Len(functions)
      <4>1. step[p] \in 0 .. 15 /\ step[p] < 15 /\ Len(functions) = 15
        BY <2>3, <1>2, ItemList DEF Make, Making
      <4> QED
        BY <4>1
    <3> QED
      BY <2>3, <3>1, <1>2 DEF Make, Set
  <2> QED
    BY <2>1, <2>2, <2>3 DEF Run, Start, Succeed, NextModule, MakeParent, Fail, Undo, RemoveEntry,
       RemoveDirectory, RemoveRaises, Kill
<1>5. /\ doomed' \in [Procs -> Seq(Paths)]
      /\ \A i \in DOMAIN doomed'[p] : Front(doomed'[p][i]) = Head(todo'[p])
  <2>1. CASE UNCHANGED <<doomed, todo>>
    BY <2>1, <1>2
  <2>2. CASE Start(p) \/ NextModule(p)
    <3>1. UNCHANGED doomed /\ pc[p] \in {"idle", "make"}
      BY <2>2 DEF Start, NextModule
    <3>2. doomed[p] = <<>>
      BY <3>1 DEF RunInv
    <3>3. DOMAIN doomed[p] = {}
      BY <3>2
    <3> QED
      BY <3>1, <3>3, <1>2
  <2>3. CASE Undo(p)
    <3>1. Head(todo[p]) \in Paths /\ IsTree(tree)
      BY <2>3, AtHand DEF Undo, TypeOK
    <3> DEFINE s == SetToSeq(Entries(Head(todo[p])))
    <3>2. s \in Seq(Paths) /\ \A i \in DOMAIN s : Front(s[i]) = Head(todo[p])
      BY <3>1, EntryList
    <3>3. todo' = todo /\ (doomed' = doomed \/ doomed' = Set(doomed, p, s))
      BY <2>3 DEF Undo
    <3> HIDE DEF s
    <3> QED
      BY <2>1, <3>2, <3>3, <1>2 DEF Set
  <2>4. CASE RemoveEntry(p)
    <3> DEFINE s == doomed[p]
    <3>1. s \in Seq(Paths) /\ s # <<>> /\ todo' = todo /\ doomed' = Set(doomed, p, Tail(s))
          /\ \A i \in DOMAIN s : Front(s[i]) = Head(todo[p])
      BY <2>4, <1>2 DEF RemoveEntry
    <3> HIDE DEF s
    <3>2. Tail(s) \in Seq(Paths) /\ \A i \in DOMAIN Tail(s) : i + 1 \in DOMAIN s /\ Tail(s)[i] = s[i + 1]
      BY <3>1
    <3> QED
      BY <3>1, <3>2, <1>2 DEF Set
  <2> QED
    BY <2>1, <2>2, <2>3, <2>4 DEF Run, Check, Succeed, MakeParent, Make, Fail, RemoveDirectory, RemoveRaises, Kill
<1>6. \A q \in Procs : IsSuffix(todo'[q], asked'[q])
  BY <1>1, <1>3 DEF TypeOK
<1>7. \A q \in Procs : \A i \in DOMAIN doomed'[q] : Front(doomed'[q][i]) = Head(todo'[q])
  BY <1>1, <1>5 DEF TypeOK
<1>8. /\ args' \in CommandLines /\ before' \in Trees /\ asked' \in [Procs -> Seq(Paths)]
  BY <1>1 DEF TypeOK
<1> QED
  BY <1>1, <1>3, <1>4, <1>5, <1>6, <1>7, <1>8 DEF TypeOK

LEMMA StepRunInv ==
  ASSUME TypeOK, RunInv, UserFilesKept, NEW p \in Procs, Run(p)
  PROVE  RunInv'
<1>1. /\ UNCHANGED <<asked, before>>
      /\ \A q \in Procs \ {p} : /\ todo'[q] = todo[q] /\ doomed'[q] = doomed[q]
                                /\ pc'[q] = pc[q] /\ said'[q] = said[q]
  BY OwnEntries
<1> DEFINE T == todo[p]
           D == doomed[p]
<1>2. /\ pc[p] = "idle" => T = <<>>
      /\ pc[p] \in {"make", "undo", "remove"} => T # <<>> /\ Head(T) \notin DOMAIN before
      /\ D # <<>> => pc[p] \in {"remove", "done"}
      /\ pc[p] = "done" <=> said[p] # "nothing"
      /\ said[p] = "created" => T = <<>>
      /\ said[p] \in {"exists", "failed"} => T # <<>>
  BY DEF RunInv
<1>3. /\ \A v : Set(pc, p, v)[p] = v /\ Set(todo, p, v)[p] = v /\ Set(doomed, p, v)[p] = v
             /\ Set(said, p, v)[p] = v
  BY DEF TypeOK, Set
<1>4. DOMAIN before \subseteq DOMAIN tree
  BY DEF UserFilesKept
<1> HIDE DEF T, D
<1>5. /\ pc'[p] = "idle" => todo'[p] = <<>>
      /\ pc'[p] \in {"make", "undo", "remove"} => todo'[p] # <<>> /\ Head(todo'[p]) \notin DOMAIN before
      /\ doomed'[p] # <<>> => pc'[p] \in {"remove", "done"}
      /\ pc'[p] = "done" <=> said'[p] # "nothing"
      /\ said'[p] = "created" => todo'[p] = <<>>
      /\ said'[p] \in {"exists", "failed"} => todo'[p] # <<>>
  <2>1. CASE Start(p)
    <3>1. Refusal(args[p]) \in {"usage", "exception", "nothing"}
      BY DEF Refusal
    <3> QED
      BY <2>1, <3>1, <1>2, <1>3 DEF Start, End, T, D
  <2>2. CASE Check(p)
    BY <2>2, <1>2, <1>3, <1>4 DEF Check, End, T, D
  <2>3. CASE Succeed(p)
    BY <2>3, <1>2, <1>3 DEF Succeed, End, T, D
  <2>4. CASE MakeParent(p) \/ Make(p)
    BY <2>4, <1>2, <1>3 DEF MakeParent, Make, Making, T, D
  <2>5. CASE NextModule(p)
    BY <2>5, <1>2, <1>3 DEF NextModule, T, D
  <2>6. CASE Fail(p) \/ Kill(p)
    BY <2>6, <1>2, <1>3 DEF Fail, Kill, Making, T, D
  <2>7. CASE Undo(p)
    BY <2>7, <1>2, <1>3 DEF Undo, End, T, D
  <2>8. CASE RemoveEntry(p) \/ RemoveDirectory(p) \/ RemoveRaises(p)
    BY <2>8, <1>2, <1>3 DEF RemoveEntry, RemoveDirectory, RemoveRaises, End, T, D
  <2> QED
    BY <2>1, <2>2, <2>3, <2>4, <2>5, <2>6, <2>7, <2>8 DEF Run
<1> QED
  BY <1>1, <1>5 DEF RunInv
----------------------------------------------------------------------------
(* What the runs know of the modules that are theirs alone.                *)

ModuleInvOf(p) ==
  /\ pc[p] = "idle" => Mine(p) \cap DOMAIN tree = {}
  /\ Started(p) => BehindInv(p) /\ AheadInv(p) /\ AtHandInv(p)

\* The modules of another run are not touched.
LEMMA StepOthers ==
  ASSUME TypeOK, RunInv, NEW p \in Procs, Run(p), NEW q \in Procs \ {p}, ModuleInvOf(q)
  PROVE  ModuleInvOf(q)'
<1>1. /\ UNCHANGED <<asked, before>>
      /\ pc'[q] = pc[q] /\ todo'[q] = todo[q] /\ step'[q] = step[q] /\ said'[q] = said[q]
  BY OwnEntries
<1>2. Mine(q)' = Mine(q) /\ Turn(q)' = Turn(q) /\ Started(q)' = Started(q)
      /\ Settled(q)' = Settled(q) /\ Unfinished(q)' = Unfinished(q) /\ asked'[q] = asked[q]
  BY <1>1 DEF Mine, Contended, Turn, Started, Settled, Unfinished
<1>3. ASSUME NEW n \in Mine(q)
      PROVE  /\ n \in DOMAIN tree' <=> n \in DOMAIN tree
             /\ \A i \in DOMAIN functions : Right(n, functions[i])' <=> Right(n, functions[i])
             /\ Whole(n)' <=> Whole(n)
  BY Elsewhere
<1>4. pc'[q] = "idle" => Mine(q)' \cap DOMAIN tree' = {}
  BY <1>1, <1>2, <1>3 DEF ModuleInvOf
<1>5. ASSUME Started(q)' PROVE BehindInv(q)' /\ AheadInv(q)' /\ AtHandInv(q)'
  <2>1. BehindInv(q) /\ AheadInv(q) /\ AtHandInv(q)
    BY <1>2, <1>5 DEF ModuleInvOf
  <2>2. BehindInv(q)'
    BY <1>2, <1>3, <2>1 DEF BehindInv
  <2>3. AheadInv(q)'
    <3> SUFFICES ASSUME NEW i \in Turn(q) + 1 .. Len(asked[q]), asked[q][i] \in Mine(q),
                        \A k \in 1 .. Turn(q) : asked[q][k] # asked[q][i],
                        asked[q][i] = Head(todo[q]) => Settled(q)
                 PROVE  asked[q][i] \notin DOMAIN tree'
      BY <1>1, <1>2 DEF AheadInv
    <3>1. asked[q][i] \notin DOMAIN tree
      BY <2>1 DEF AheadInv
    <3> QED
      BY <3>1, <1>3
  <2>4. AtHandInv(q)'
    <3> SUFFICES ASSUME todo[q] # <<>>, NEW h, h = Head(todo[q]), h \in Mine(q)
                 PROVE  /\ pc[q] = "make" => \A i \in 1 .. step[q] : Right(h, functions[i])'
                        /\ Unfinished(q) => ~Right(h, functions[Len(functions)])'
      BY <1>1, <1>2 DEF AtHandInv
    <3>1. /\ pc[q] = "make" => \A i \in 1 .. step[q] : Right(h, functions[i])
          /\ Unfinished(q) => ~Right(h, functions[Len(functions)])
      BY <2>1 DEF AtHandInv
    <3>2. step[q] \in 0 .. 15 /\ DOMAIN functions = 1 .. 15 /\ Len(functions) = 15
      BY ItemList DEF TypeOK
    <3>3. 15 \in DOMAIN functions /\ \A i \in 1 .. step[q] : i \in DOMAIN functions
      BY <3>2
    <3> QED
      BY <3>1, <3>2, <3>3, <1>3
  <2> QED
    BY <2>2, <2>3, <2>4
<1> QED
  BY <1>4, <1>5 DEF ModuleInvOf
\* The module at hand, if it is p's alone, is where the next phase expects it.
LEMMA StepAtHand ==
  ASSUME TypeOK, RunInv, NEW p \in Procs, Run(p), Started(p), AtHandInv(p), todo' = todo,
         NEW h, todo[p] # <<>>, h = Head(todo[p]), h \in Mine(p)
  PROVE  /\ pc'[p] = "make" => \A i \in 1 .. step'[p] : Right(h, functions[i])'
         /\ Unfinished(p)' => ~Right(h, functions[15])'
<1>1. /\ pc[p] = "make" => \A i \in 1 .. step[p] : Right(h, functions[i])
      /\ Unfinished(p) => ~Right(h, functions[15])
      /\ Len(functions) = 15
  BY ItemList DEF AtHandInv
<1>2. /\ \A v : Set(pc, p, v)[p] = v /\ Set(step, p, v)[p] = v /\ Set(said, p, v)[p] = v
      /\ h \in Paths /\ IsTree(tree) /\ step[p] \in 0 .. 15
  BY TurnFacts, <1>1 DEF TypeOK, Set
<1>3. CASE Start(p)
  BY <1>3 DEF Start, Started
<1>4. CASE Check(p)
  <2>1. CASE h \in DOMAIN tree
    <3>1. pc'[p] = "done" /\ said'[p] = "exists"
      BY <1>2, <1>4, <2>1 DEF Check, End
    <3> QED
      BY <3>1 DEF Unfinished
  <2>2. CASE h \notin DOMAIN tree
    <3>1. step'[p] = 0 /\ tree' = tree
      BY <1>2, <1>4, <2>2 DEF Check
    <3>2. ~Right(h, functions[15])
      BY <1>2, <2>2, RightInside
    <3>3. ~Right(h, functions[15])'
      BY <3>1, <3>2 DEF Right
    <3>4. 1 .. step'[p] = {}
      BY <3>1
    <3> QED
      BY <3>3, <3>4
  <2> QED
    BY <2>1, <2>2
<1>5. CASE Succeed(p) \/ NextModule(p)
  <2>1. Tail(todo[p]) = todo[p] \/ (pc'[p] = "done" /\ said'[p] = "created")
    BY <1>2, <1>5 DEF Succeed, NextModule, End, Set, TypeOK
  <2>2. Tail(todo[p]) # todo[p]
    <3>1. todo[p] \in Seq(Paths)
      BY DEF TypeOK
    <3> QED
      BY <3>1, TailShorter
  <2> QED
    BY <2>1, <2>2 DEF Unfinished
<1>6. CASE Make(p)
  <2>1. PICK n : n = step[p] + 1
    OBVIOUS
  <2>2. /\ Right(h, functions[n])' /\ n \in 1 .. 15
        /\ \A i \in 1 .. 15 : Right(h, functions[i]) => Right(h, functions[i])'
        /\ n < 15 /\ ~Right(h, functions[15]) => ~Right(h, functions[15])'
    BY <1>6, <2>1, MakeTree
  <2>3. step'[p] = n /\ pc'[p] = pc[p] /\ said'[p] = said[p] /\ pc[p] = "make" /\ step[p] < 15
    BY <1>1, <1>2, <1>6, <2>1 DEF Make, Making
  <2>4. \A i \in 1 .. n : Right(h, functions[i])'
    <3>1. \A i \in 1 .. step[p] : i \in 1 .. 15 /\ Right(h, functions[i])
      BY <1>1, <1>2, <2>3
    <3>2. \A i \in 1 .. n : i \in 1 .. step[p] \/ i = n
      BY <1>2, <2>1
    <3> QED
      BY <3>1, <3>2, <2>2
  <2>5. ASSUME Unfinished(p)' PROVE n < 15
    <3>1. said[p] = "nothing"
      BY <2>3 DEF RunInv
    <3>2. n < Len(functions)
      BY <2>3, <2>5, <3>1 DEF Unfinished
    <3> QED
      BY <3>2, <1>1
  <2>6. Unfinished(p)
    BY <2>3, <1>1 DEF Unfinished
  <2> QED
    BY <1>1, <2>2, <2>3, <2>4, <2>5, <2>6
<1>7. CASE Fail(p) \/ Kill(p)
  <2>1. Making(p) /\ pc'[p] # "make" /\ Unfinished(p)
    BY <1>2, <1>7 DEF Fail, Kill, Making, Unfinished
  <2>2. CASE UNCHANGED tree
    BY <1>1, <2>1, <2>2 DEF Right
  <2>3. CASE Item(p).kind = "file" /\ tree' = Opened(p)
    BY <1>1, <2>1, <2>3, OpenedTree
  <2> QED
    BY <1>7, <2>2, <2>3 DEF Fail, Kill, Raises
<1>10. CASE MakeParent(p)
  <2>1. /\ \A i \in 1 .. 15 : Right(h, functions[i]) => Right(h, functions[i])'
        /\ ~Right(h, functions[15]) => ~Right(h, functions[15])'
    BY <1>10, ParentTree
  <2>2. step' = step /\ pc' = pc /\ said' = said /\ pc[p] = "make" /\ step[p] < 15
    BY <1>1, <1>10 DEF MakeParent, Making
  <2>3. Unfinished(p)
    BY <2>2, <1>1 DEF Unfinished
  <2>4. \A i \in 1 .. step[p] : i \in 1 .. 15
    BY <1>2
  <2> QED
    BY <1>1, <2>1, <2>2, <2>3, <2>4
<1>8. CASE Undo(p) \/ RemoveRaises(p)
  <2>1. tree' = tree /\ pc'[p] # "make" /\ Unfinished(p)
    BY <1>2, <1>8 DEF Undo, RemoveRaises, End, Unfinished
  <2> QED
    BY <1>1, <2>1 DEF Right
<1>9. CASE RemoveEntry(p) \/ RemoveDirectory(p)
  <2>1. pc'[p] # "make" /\ Unfinished(p)
    BY <1>2, <1>9 DEF RemoveEntry, RemoveDirectory, End, Unfinished
  <2> QED
    BY <1>1, <1>9, <2>1, RemovedTree
<1> QED
  BY <1>3, <1>4, <1>5, <1>6, <1>7, <1>8, <1>9, <1>10 DEF Run

\* A step that keeps the list of modules.
LEMMA StepSameTurn ==
  ASSUME TypeOK, RunInv, NEW p \in Procs, Run(p), Started(p), todo' = todo,
         BehindInv(p), AheadInv(p), AtHandInv(p)
  PROVE  BehindInv(p)' /\ AheadInv(p)' /\ AtHandInv(p)'
<1>1. /\ UNCHANGED <<asked, before>> /\ Mine(p)' = Mine(p) /\ Turn(p)' = Turn(p)
  BY OwnEntries DEF Mine, Contended, Turn
<1>2. /\ \A v : Set(pc, p, v)[p] = v /\ Set(said, p, v)[p] = v
      /\ \A i \in 1 .. Len(asked[p]) : asked[p][i] \in Paths
      /\ Len(functions) = 15 /\ DOMAIN functions = 1 .. 15
  BY ItemList DEF TypeOK, Set
<1>3. ASSUME pc[p] \in {"make", "undo", "remove"}
      PROVE  todo[p] # <<>> /\ Unfinished(p) /\ said[p] = "nothing"
  <2>1. todo[p] # <<>> /\ said[p] = "nothing"
    BY <1>3 DEF RunInv
  <2>2. ~NextModule(p)
    <3>1. todo[p] \in Seq(Paths)
      BY DEF TypeOK
    <3>2. Tail(todo[p]) # todo[p]
      BY <2>1, <3>1, TailShorter
    <3> QED
      BY <3>2 DEF NextModule, Set, TypeOK
  <2>3. pc[p] = "make" => Making(p)
    BY <2>2 DEF Run, Start, Check, Succeed, MakeParent, Make, Fail, Undo, RemoveEntry, RemoveDirectory,
       RemoveRaises, Kill
  <2> QED
    BY <1>3, <2>1, <2>3 DEF Unfinished, Making
\* The module at hand is not among those made before.
<1>4. ASSUME pc[p] \in {"make", "undo", "remove"}, Head(todo[p]) \in Mine(p)
      PROVE  ~Whole(Head(todo[p]))
  <2>1. ~Right(Head(todo[p]), functions[15])
    BY <1>2, <1>3, <1>4 DEF AtHandInv
  <2>2. 15 \in DOMAIN functions
    BY <1>2
  <2> QED
    BY <2>1, <2>2 DEF Whole
<1>5. BehindInv(p)'
  <2> SUFFICES ASSUME NEW i \in 1 .. Turn(p), NEW n, n = asked[p][i], n \in Mine(p)
               PROVE  Whole(n)'
    BY <1>1 DEF BehindInv
  <2>1. Whole(n)
    BY DEF BehindInv
  <2>2. pc[p] \in {"make", "undo", "remove"} => n # Head(todo[p])
    BY <2>1, <1>4
  <2> QED
    BY <2>1, <2>2, Elsewhere
<1>6. AheadInv(p)'
  <2> SUFFICES ASSUME NEW i \in Turn(p) + 1 .. Len(asked[p]), NEW n, n = asked[p][i], n \in Mine(p),
                      \A k \in 1 .. Turn(p) : asked[p][k] # n, n = Head(todo[p]) => Settled(p)'
               PROVE  n \notin DOMAIN tree'
    BY <1>1 DEF AheadInv
  <2>1. CASE n # Head(todo[p])
    <3>1. n \notin DOMAIN tree
      BY <2>1 DEF AheadInv
    <3> QED
      BY <2>1, <3>1, Elsewhere
  <2>2. CASE n = Head(todo[p])
    <3>1. todo[p] # <<>>
      <4> DEFINE a == Len(asked[p])
      <4>1. a \in Nat /\ Turn(p) \in 0 .. a /\ i \in Turn(p) + 1 .. a
        BY TurnFacts
      <4> HIDE DEF a
      <4>2. Turn(p) # a
        BY <4>1
      <4> QED
        BY <4>2, TurnFacts DEF a
    <3>2. pc'[p] = "check" \/ said'[p] \in {"exists", "failed"}
      BY <2>2 DEF Settled
    <3>3. CASE Check(p)
      <4>1. n \notin DOMAIN tree /\ tree' = tree
        BY <3>3 DEF AheadInv, Settled, Check
      <4> QED
        BY <4>1
    <3>4. CASE Undo(p)
      <4>1. pc'[p] = "remove" \/ n \notin DOMAIN tree
        BY <1>2, <2>2, <3>4 DEF Undo
      <4>2. said[p] = "nothing" /\ tree' = tree /\ (n \in DOMAIN tree => said' = said)
        BY <1>3, <2>2, <3>4 DEF Undo
      <4> QED
        BY <4>1, <4>2, <3>2
    <3>5. CASE RemoveDirectory(p)
      BY <2>2, <3>5, RemovedTree
    <3>6. CASE Succeed(p)
      BY <3>1, <3>6 DEF Succeed
    <3>7. CASE RemoveRaises(p)
      BY <1>2, <3>2, <3>7 DEF RemoveRaises, End
    <3>8. CASE MakeParent(p) \/ Make(p) \/ Fail(p) \/ Kill(p) \/ RemoveEntry(p)
      <4>1. pc[p] \in {"make", "remove"} /\ said' = said /\ pc'[p] # "check"
        BY <1>2, <3>8 DEF MakeParent, Make, Fail, Kill, RemoveEntry, Making
      <4> QED
        BY <4>1, <1>3, <3>2
    <3>9. CASE Start(p)
      BY <3>9 DEF Start, Started
    <3>10. CASE NextModule(p)
      <4>1. pc[p] = "make" /\ ~Making(p)
        BY <3>10 DEF NextModule, Making
      <4>2. Unfinished(p) /\ said[p] = "nothing"
        BY <4>1, <1>3
      <4> QED
        BY <4>1, <4>2 DEF Unfinished, Making
    <3> QED
      BY <3>3, <3>4, <3>5, <3>6, <3>7, <3>8, <3>9, <3>10 DEF Run
  <2> QED
    BY <2>1, <2>2
<1>7. AtHandInv(p)'
  <2> SUFFICES ASSUME todo[p] # <<>>, NEW h, h = Head(todo[p]), h \in Mine(p)
               PROVE  /\ pc'[p] = "make" => \A i \in 1 .. step'[p] : Right(h, functions[i])'
                      /\ Unfinished(p)' => ~Right(h, functions[15])'
    BY <1>1, <1>2 DEF AtHandInv
  <2> QED
    BY StepAtHand
<1> QED
  BY <1>5, <1>6, <1>7
\* A run starts: its own modules are not there yet.
LEMMA StepStart ==
  ASSUME TypeOK, RunInv, NEW p \in Procs, Start(p), ModuleInvOf(p)
  PROVE  ModuleInvOf(p)'
<1>1. /\ UNCHANGED <<asked, before, tree>> /\ Mine(p)' = Mine(p)
  BY DEF Start, Mine, Contended
<1>2. /\ \A v : Set(pc, p, v)[p] = v /\ Set(said, p, v)[p] = v /\ Set(todo, p, v)[p] = v
      /\ asked[p] \in Seq(Paths) /\ Len(asked[p]) \in Nat
      /\ Refusal(args[p]) \in {"usage", "exception", "nothing"}
  BY DEF TypeOK, Set, Refusal
<1>3. pc[p] = "idle" /\ todo[p] = <<>> /\ said[p] = "nothing" /\ Mine(p) \cap DOMAIN tree = {}
  BY DEF Start, RunInv, ModuleInvOf
<1>4. CASE Refusal(args[p]) = "nothing"
  <2>1. pc'[p] = "check" /\ todo'[p] = asked[p] /\ said'[p] = "nothing"
    BY <1>2, <1>3, <1>4 DEF Start
  <2>2. Turn(p)' = 0
    <3>1. Turn(p)' = Len(asked[p]) - Len(asked[p])
      BY <1>1, <2>1 DEF Turn
    <3> QED
      BY <3>1, <1>2
  <2>3. BehindInv(p)'
    <3>1. 1 .. 0 = {}
      OBVIOUS
    <3> QED
      BY <2>2, <3>1 DEF BehindInv
  <2>4. AheadInv(p)'
    <3> SUFFICES ASSUME NEW i \in 1 .. Len(asked[p]), asked[p][i] \in Mine(p)
                 PROVE  asked[p][i] \notin DOMAIN tree
      BY <1>1, <2>2 DEF AheadInv
    <3> QED
      BY <1>3
  <2>5. AtHandInv(p)'
    BY <2>1 DEF AtHandInv, Unfinished
  <2> QED
    BY <2>1, <2>3, <2>4, <2>5 DEF ModuleInvOf
<1>5. CASE Refusal(args[p]) # "nothing"
  <2>1. pc'[p] = "done" /\ todo'[p] = <<>> /\ said'[p] \in {"usage", "exception"}
    BY <1>2, <1>3, <1>5 DEF Start, End
  <2> QED
    BY <2>1 DEF ModuleInvOf, Started
<1> QED
  BY <1>4, <1>5

\* A module is finished: everything of it is there.
LEMMA StepNextModule ==
  ASSUME TypeOK, RunInv, NEW p \in Procs, NextModule(p), ModuleInvOf(p)
  PROVE  ModuleInvOf(p)'
<1>1. /\ UNCHANGED <<asked, before, tree>> /\ Mine(p)' = Mine(p) /\ pc[p] = "make"
  BY DEF NextModule, Mine, Contended
<1>2. /\ pc'[p] = "check" /\ todo'[p] = Tail(todo[p]) /\ said'[p] = "nothing"
  BY <1>1 DEF NextModule, Set, TypeOK, RunInv
<1>3. BehindInv(p) /\ AheadInv(p) /\ AtHandInv(p)
  <2>1. Started(p)
    BY <1>1, <1>2 DEF Started, NextModule
  <2> QED
    BY <2>1 DEF ModuleInvOf
<1> DEFINE a == Len(asked[p])
           b == Len(todo[p])
           c == Len(Tail(todo[p]))
<1>4. todo[p] # <<>> /\ Head(todo[p]) = asked[p][Turn(p) + 1] /\ Turn(p) \in 0 .. a
      /\ Turn(p) + 1 \in 1 .. a /\ a \in Nat /\ b \in Nat /\ c = b - 1
  <2>1. todo[p] # <<>>
    BY <1>1 DEF RunInv
  <2> QED
    BY <2>1, TurnFacts
<1>5. Turn(p)' = Turn(p) + 1
  <2>1. Turn(p)' = a - c /\ Turn(p) = a - b
    BY <1>1, <1>2 DEF Turn
  <2> HIDE DEF a, b, c
  <2> QED
    BY <2>1, <1>4
<1>6. Head(todo[p]) \in Mine(p) => Whole(Head(todo[p]))
  <2> SUFFICES ASSUME Head(todo[p]) \in Mine(p) PROVE Whole(Head(todo[p]))
    OBVIOUS
  <2>1. step[p] = 15
    BY ItemList DEF NextModule
  <2>2. \A i \in 1 .. 15 : Right(Head(todo[p]), functions[i])
    BY <1>1, <1>3, <1>4, <2>1 DEF AtHandInv
  <2> QED
    BY <2>2, AllRight
<1>7. BehindInv(p)'
  <2> SUFFICES ASSUME NEW i \in 1 .. Turn(p) + 1, asked[p][i] \in Mine(p)
               PROVE  Whole(asked[p][i])
    BY <1>1, <1>5 DEF BehindInv, Whole, Right
  <2>1. i \in 1 .. Turn(p) \/ i = Turn(p) + 1
    BY <1>4
  <2> QED
    BY <1>3, <1>4, <1>6, <2>1 DEF BehindInv
<1>8. AheadInv(p)'
  <2> SUFFICES ASSUME NEW i \in Turn(p) + 1 + 1 .. Len(asked[p]), asked[p][i] \in Mine(p),
                      \A k \in 1 .. Turn(p) + 1 : asked[p][k] # asked[p][i]
               PROVE  asked[p][i] \notin DOMAIN tree
    BY <1>1, <1>5 DEF AheadInv
  <2>1. i \in Turn(p) + 1 .. Len(asked[p]) /\ Turn(p) + 1 \in 1 .. Turn(p) + 1
        /\ \A k \in 1 .. Turn(p) : k \in 1 .. Turn(p) + 1
    BY <1>4
  <2>2. asked[p][i] # Head(todo[p]) /\ \A k \in 1 .. Turn(p) : asked[p][k] # asked[p][i]
    BY <2>1, <1>4
  <2> QED
    BY <1>3, <2>1, <2>2 DEF AheadInv
<1>9. AtHandInv(p)'
  BY <1>2 DEF AtHandInv, Unfinished
<1> QED
  BY <1>2, <1>7, <1>8, <1>9 DEF ModuleInvOf

LEMMA StepOwn ==
  ASSUME TypeOK, RunInv, NEW p \in Procs, Run(p), ModuleInvOf(p)
  PROVE  ModuleInvOf(p)'
<1>1. CASE Start(p)
  BY <1>1, StepStart
<1>2. CASE NextModule(p)
  BY <1>2, StepNextModule
<1>3. CASE ~Start(p) /\ ~NextModule(p)
  <2>1. todo' = todo /\ pc[p] \in {"check", "make", "undo", "remove"}
    BY <1>3 DEF Run, Check, Succeed, MakeParent, Make, Fail, Undo, RemoveEntry, RemoveDirectory, RemoveRaises,
       Kill, Making
  <2>2. said[p] = "nothing"
    BY <2>1 DEF RunInv
  <2>3. Started(p)
    BY <2>1, <2>2 DEF Started
  <2>4. BehindInv(p)' /\ AheadInv(p)' /\ AtHandInv(p)'
    BY <2>1, <2>3, StepSameTurn DEF ModuleInvOf
  <2>5. pc'[p] # "idle"
    BY <1>3, <2>1 DEF Run, Check, Succeed, MakeParent, Make, Fail, Undo, RemoveEntry, RemoveDirectory,
       RemoveRaises, Kill, Making, End, Set, TypeOK
  <2> QED
    BY <2>4, <2>5 DEF ModuleInvOf
<1> QED
  BY <1>1, <1>2, <1>3

LEMMA StepMakeInv ==
  ASSUME MakeInv, [Next]_vars
  PROVE  MakeInv'
<1>1. TypeOK /\ RunInv /\ UserFilesKept /\ \A q \in Procs : ModuleInvOf(q)
  BY DEF MakeInv, ModuleInv, ModuleInvOf
<1>2. CASE UNCHANGED vars
  <2>1. TypeOK'
    BY <1>1, <1>2 DEF vars, TypeOK, IsTree
  <2>2. UserFilesKept' /\ RunInv'
    BY <1>1, <1>2 DEF vars, UserFilesKept, RunInv
  <2>3. ASSUME NEW q \in Procs PROVE ModuleInvOf(q)'
    <3>1. ModuleInvOf(q)
      BY <1>1
    <3>2. Mine(q)' = Mine(q) /\ Turn(q)' = Turn(q) /\ Started(q)' = Started(q)
          /\ Settled(q)' = Settled(q) /\ Unfinished(q)' = Unfinished(q)
      BY <1>2 DEF vars, Mine, Contended, Turn, Started, Settled, Unfinished
    <3>3. BehindInv(q)' <=> BehindInv(q)
      BY <1>2, <3>2 DEF vars, BehindInv, Whole, Right
    <3>4. AheadInv(q)' <=> AheadInv(q)
      BY <1>2, <3>2 DEF vars, AheadInv
    <3>5. AtHandInv(q)' <=> AtHandInv(q)
      BY <1>2, <3>2 DEF vars, AtHandInv, Right
    <3> QED
      BY <1>2, <3>1, <3>2, <3>3, <3>4, <3>5 DEF vars, ModuleInvOf
  <2> QED
    BY <2>1, <2>2, <2>3 DEF MakeInv, ModuleInv, ModuleInvOf
<1>3. ASSUME NEW p \in Procs, Run(p) PROVE MakeInv'
  <2>1. TypeOK' /\ RunInv' /\ UserFilesKept'
    BY <1>1, <1>3, StepTypeOK, StepRunInv, StepUserFiles
  <2>2. ASSUME NEW q \in Procs PROVE ModuleInvOf(q)'
    <3>1. CASE q = p
      BY <1>1, <1>3, <3>1, StepOwn
    <3>2. CASE q # p
      BY <1>1, <1>3, <3>2, StepOthers
    <3> QED
      BY <3>1, <3>2
  <2>3. ModuleInv'
    BY <2>2 DEF ModuleInv, ModuleInvOf
  <2> QED
    BY <2>1, <2>3 DEF MakeInv
<1> QED
  BY <1>2, <1>3 DEF Next

----------------------------------------------------------------------------
(* Theorems.                                                               *)

\* What each run knows of the tree and of the modules that are its own, whatever
\* the others do and whatever fails.
THEOREM MakeInvInvariant == Spec => []MakeInv
<1>1. Init => MakeInv
  BY StartMakeInv
<1>2. MakeInv /\ [Next]_vars => MakeInv'
  BY StepMakeInv
<1> QED
  BY <1>1, <1>2, PTL DEF Spec

\* What the user had in the source tree before the first run stays there and as it
\* was: neither the making of a module nor the removal of a half-made one reaches it.
THEOREM UserFilesSafe == Spec => []UserFilesKept
<1>1. MakeInv => UserFilesKept
  BY DEF MakeInv
<1> QED
  BY <1>1, MakeInvInvariant, PTL

LEMMA MakeInvAllOrNothing == MakeInv => AllOrNothing
<1> SUFFICES ASSUME MakeInv, NEW p \in Procs, said[p] \in {"created", "exists", "failed"},
                    NEW i \in DOMAIN asked[p], asked[p][i] \in Mine(p),
                    \A k \in 1 .. i - 1 : asked[p][k] # asked[p][i]
             PROVE  /\ Whole(asked[p][i]) \/ asked[p][i] \notin DOMAIN tree
                    /\ said[p] = "created" => Whole(asked[p][i])
                    /\ Whole(asked[p][i]) => \A k \in DOMAIN asked[p] :
                         asked[p][k] \in Mine(p) /\ k < i => Whole(asked[p][k])
  BY DEF AllOrNothing
<1>1. TypeOK /\ BehindInv(p) /\ AheadInv(p) /\ (said[p] = "created" => todo[p] = <<>>)
  <2>1. pc[p] # "idle" /\ said[p] # "usage" /\ said[p] # "exception"
    BY DEF MakeInv, RunInv
  <2> QED
    BY <2>1 DEF MakeInv, ModuleInv, Started, RunInv
<1>2. /\ DOMAIN asked[p] = 1 .. Len(asked[p]) /\ Len(asked[p]) \in Nat /\ Turn(p) \in 0 .. Len(asked[p])
      /\ todo[p] = <<>> => Turn(p) = Len(asked[p])
      /\ asked[p][i] \in Paths
  BY <1>1, TurnFacts DEF TypeOK
<1>3. Whole(asked[p][i]) => asked[p][i] \in DOMAIN tree
  <2>1. Whole(asked[p][i]) => Right(asked[p][i], functions[1]) /\ 1 \in 1 .. 15
    BY ItemList DEF Whole
  <2> QED
    BY <1>1, <1>2, <2>1, RightInside DEF TypeOK
<1> DEFINE a == Len(asked[p])
<1>4. i \in 1 .. a /\ a \in Nat /\ Turn(p) \in 0 .. a
  BY <1>2
<1>5. CASE i <= Turn(p)
  <2>1. i \in 1 .. Turn(p) /\ \A k \in DOMAIN asked[p] : k < i => k \in 1 .. Turn(p)
    BY <1>2, <1>4, <1>5
  <2> QED
    BY <1>1, <2>1 DEF BehindInv
<1>6. CASE i > Turn(p)
  <2>1. i \in Turn(p) + 1 .. a /\ Turn(p) # a /\ \A k \in 1 .. Turn(p) : k \in 1 .. i - 1
    <3> HIDE DEF a
    <3> QED
      BY <1>4, <1>6
  <2>2. said[p] \in {"exists", "failed"}
    BY <1>1, <1>2, <2>1
  <2>3. asked[p][i] \notin DOMAIN tree
    BY <1>1, <2>1, <2>2 DEF AheadInv, Settled
  <2> QED
    BY <1>3, <2>2, <2>3
<1> QED
  BY <1>4, <1>5, <1>6

\* A module that one run alone is asked for, and that was not there, is whole or
\* absent once the run has said how it ended; it says that all were made only if
\* they are, and it made them in the order it was asked. So the removal of a
\* half-made module is complete, and no run takes away what another has made.
THEOREM WholeOrAbsent == Spec => []AllOrNothing
  BY MakeInvInvariant, MakeInvAllOrNothing, PTL
----------------------------------------------------------------------------
(* CreateModule implements ModuleStore.                                    *)

\* The substitution of Store.
ModulesMade ==
  {m \in UNION {Range(asked[p]) : p \in Procs} :
     \/ \E p \in Procs : m \in Range(asked[p]) \ Mine(p)
     \/ Whole(m)}
Answers ==
  [p \in Procs |-> CASE said[p] = "created" -> "yes" [] said[p] = "nothing" -> "none" [] OTHER -> "no"]

\* A step of p makes or removes no module but the one at hand.
LEMMA MadeElsewhere ==
  ASSUME TypeOK, RunInv, NEW p \in Procs, Run(p), NEW m,
         pc[p] \in {"make", "undo", "remove"} => m # Head(todo[p])
  PROVE  m \in ModulesMade' <=> m \in ModulesMade
<1>1. UNCHANGED <<asked, before>> /\ \A q \in Procs : Mine(q)' = Mine(q)
  BY OwnEntries DEF Mine, Contended
<1> SUFFICES ASSUME NEW q \in Procs, m \in Range(asked[q]), m \in Mine(q)
             PROVE  Whole(m)' <=> Whole(m)
  BY <1>1 DEF ModulesMade
<1> QED
  BY Elsewhere

\* As long as p has not said anything it has not taken a whole module away, and all
\* modules before the one at hand are made.
LEMMA MadeAtHand ==
  ASSUME MakeInv, NEW p \in Procs, Run(p), pc[p] \in {"make", "undo", "remove"},
         ~NextModule(p), NEW h, h = Head(todo[p])
  PROVE  /\ h \in ModulesMade => h \in ModulesMade'
         /\ said'[p] # said[p] /\ h \in ModulesMade' => h \in ModulesMade
         /\ \A k \in 1 .. Turn(p) : asked[p][k] \in ModulesMade
         /\ Turn(p) + 1 \in 1 .. Len(asked[p]) /\ asked[p][Turn(p) + 1] = h
<1>1. /\ TypeOK /\ RunInv /\ ModuleInvOf(p) /\ said[p] = "nothing" /\ todo[p] # <<>>
  BY DEF MakeInv, ModuleInv, ModuleInvOf, RunInv
<1>2. Turn(p) + 1 \in 1 .. Len(asked[p]) /\ asked[p][Turn(p) + 1] = h /\ Turn(p) \in 0 .. Len(asked[p])
      /\ Len(asked[p]) \in Nat /\ h \in Paths
  BY <1>1, TurnFacts
<1>3. UNCHANGED <<asked, before>> /\ \A q \in Procs : Mine(q)' = Mine(q)
  BY <1>1, OwnEntries DEF Mine, Contended
<1>4. Started(p) /\ BehindInv(p) /\ AtHandInv(p)
  BY <1>1 DEF Started, ModuleInvOf
<1>5. Unfinished(p)
  BY ItemList DEF Unfinished, Making, Run, Start, Check, Succeed, MakeParent, Make, Fail, Undo, RemoveEntry,
     RemoveDirectory, RemoveRaises, Kill
<1>6. 15 \in DOMAIN functions /\ 1 \in DOMAIN functions /\ Len(functions) = 15
  BY ItemList
<1>7. h \in Mine(p) => ~Whole(h)
  <2>1. h \in Mine(p) => ~Right(h, functions[15])
    BY <1>1, <1>4, <1>5, <1>6 DEF AtHandInv
  <2> QED
    BY <1>6, <2>1 DEF Whole
<1>8. h \in Range(asked[p])
  BY <1>1, <1>2 DEF Range, TypeOK
<1>9. h \in ModulesMade => h \in ModulesMade'
  <2>1. h \in ModulesMade => \E q \in Procs : h \in Range(asked[q]) \ Mine(q)
    <3>1. h \in ModulesMade => h \notin Mine(p) \/ \E q \in Procs : h \in Range(asked[q]) \ Mine(q)
      BY <1>7 DEF ModulesMade
    <3> QED
      BY <3>1, <1>8
  <2> QED
    BY <1>3, <2>1 DEF ModulesMade
<1>10. ASSUME said'[p] # said[p], h \in ModulesMade' PROVE h \in ModulesMade
  <2>1. tree' = tree \/ RemoveDirectory(p)
    BY <1>10 DEF Run, Start, Check, Succeed, MakeParent, Make, NextModule, Fail, Undo, RemoveEntry,
       RemoveRaises, Kill
  <2>2. CASE tree' = tree
    BY <1>3, <1>10, <2>2 DEF ModulesMade, Whole, Right
  <2>3. CASE RemoveDirectory(p)
    <3>1. IsTree(tree)' /\ h \notin DOMAIN tree'
      BY <1>1, <2>3, RemovedTree
    <3>2. ~Right(h, functions[1])'
      <4>1. functions[1].path = <<>> /\ h \o <<>> = h
        BY <1>2, ItemFacts, ConcatEmptySeq DEF Paths
      <4> QED
        BY <3>1, <4>1 DEF Right
    <3>3. ~Whole(h)'
      BY <1>6, <3>2 DEF Whole
    <3> QED
      BY <1>3, <1>10, <3>3 DEF ModulesMade
  <2> QED
    BY <2>1, <2>2, <2>3
<1>11. ASSUME NEW k \in 1 .. Turn(p) PROVE asked[p][k] \in ModulesMade
  <2>1. k \in 1 .. Len(asked[p]) /\ asked[p][k] \in Range(asked[p])
    <3>1. k \in 1 .. Len(asked[p])
      BY <1>2
    <3> QED
      BY <1>1, <3>1 DEF TypeOK, Range
  <2>2. asked[p][k] \in Mine(p) => Whole(asked[p][k])
    BY <1>4 DEF BehindInv
  <2> QED
    BY <2>1, <2>2 DEF ModulesMade
<1> QED
  BY <1>2, <1>9, <1>10, <1>11

LEMMA StoreStart == Init => Store!Init
<1> SUFFICES ASSUME Init PROVE Answers = [p \in DOMAIN asked |-> "none"]
  BY DEF Store!Init, Answers
<1>1. DOMAIN asked = Procs /\ \A p \in Procs : said[p] = "nothing"
  BY DEF Init
<1> QED
  BY <1>1 DEF Answers

LEMMA StoreStep ==
  ASSUME MakeInv, [Next]_vars
  PROVE  [Store!Next]_Store!vars
<1>1. CASE UNCHANGED vars
  <2>1. UNCHANGED <<asked, ModulesMade, Answers>>
    BY <1>1 DEF vars, ModulesMade, Mine, Contended, Whole, Right, Answers
  <2> QED
    BY <2>1 DEF Store!vars, ModulesMade, Answers
<1>2. ASSUME NEW p \in Procs, Run(p) PROVE [Store!Next]_Store!vars
  <2>1. /\ TypeOK /\ RunInv /\ ModuleInvOf(p) /\ asked' = asked /\ DOMAIN asked = Procs
        /\ \A q \in Procs \ {p} : said'[q] = said[q]
    <3>1. TypeOK /\ RunInv /\ ModuleInvOf(p)
      BY DEF MakeInv, ModuleInv, ModuleInvOf
    <3> QED
      BY <1>2, <3>1, OwnEntries DEF TypeOK
  <2> DEFINE working == pc[p] \in {"make", "undo", "remove"} /\ ~NextModule(p)
             h == Head(todo[p])
  <2>2. ASSUME NEW m, working => m # h PROVE m \in ModulesMade' <=> m \in ModulesMade
    <3>1. CASE NextModule(p)
      BY <3>1 DEF NextModule, ModulesMade, Mine, Contended, Whole, Right
    <3>2. CASE ~NextModule(p)
      BY <1>2, <2>1, <2>2, <3>2, MadeElsewhere
    <3> QED
      BY <3>1, <3>2
  <2>3. CASE said'[p] = said[p]
    <3>1. Answers' = Answers
      BY <2>1, <2>3 DEF Answers
    <3>2. CASE ModulesMade' = ModulesMade
      BY <2>1, <3>1, <3>2 DEF Store!vars, ModulesMade, Answers
    <3>3. CASE ModulesMade' # ModulesMade
      <4>1. working
        BY <2>2, <3>3 DEF ModulesMade
      <4>2. PICK x : x = h
        OBVIOUS
      <4>3. /\ x \in ModulesMade => x \in ModulesMade'
            /\ \A k \in 1 .. Turn(p) : asked[p][k] \in ModulesMade
            /\ Turn(p) + 1 \in 1 .. Len(asked[p]) /\ asked[p][Turn(p) + 1] = x
        BY <1>2, <4>1, <4>2, MadeAtHand
      <4>4. \A m : m # x => (m \in ModulesMade' <=> m \in ModulesMade)
        BY <2>2, <4>2
      <4>5. ModulesMade' \ ModulesMade = {x} /\ ModulesMade \subseteq ModulesMade'
        <5>1. x \in ModulesMade' /\ x \notin ModulesMade
          <6>1. ASSUME x \in ModulesMade' => x \in ModulesMade PROVE FALSE
            <7>1. \A m : m \in ModulesMade' <=> m \in ModulesMade
              BY <4>3, <4>4, <6>1
            <7>2. ModulesMade' = ModulesMade
              BY <7>1
            <7> QED
              BY <7>2, <3>3
          <6> QED
            BY <6>1
        <5> QED
          BY <5>1, <4>4
      <4>6. Turn(p) \in Nat /\ Turn(p) + 1 \in DOMAIN asked[p]
        <5>1. Turn(p) \in 0 .. Len(asked[p]) /\ Len(asked[p]) \in Nat
          BY <2>1, TurnFacts
        <5> QED
          BY <2>1, <4>3, <5>1 DEF TypeOK
      <4>7. Answers[p] = "none"
        BY <2>1, <4>1 DEF Answers, RunInv
      <4>8. Store!Create(p)
        <5>0. PICK n : n = Turn(p) + 1
          OBVIOUS
        <5>1. /\ n \in DOMAIN asked[p] /\ x = asked[p][n]
              /\ \A k \in 1 .. n - 1 : asked[p][k] \in ModulesMade
          <6>1. ASSUME NEW k \in 1 .. n - 1 PROVE asked[p][k] \in ModulesMade
            <7>1. k \in 1 .. Turn(p)
              BY <4>6, <5>0, <6>1
            <7> QED
              BY <4>3, <7>1
          <6> QED
            BY <4>3, <4>6, <5>0, <6>1
        <5>2. \E i \in DOMAIN asked[p] :
                /\ ModulesMade' \ ModulesMade = {asked[p][i]} /\ ModulesMade \subseteq ModulesMade'
                /\ \A k \in 1 .. i - 1 : asked[p][k] \in ModulesMade
          BY <4>5, <5>1
        <5> QED
          BY <2>1, <3>1, <4>7, <5>2 DEF Store!Create, ModulesMade, Answers
      <4> QED
        BY <2>1, <4>8 DEF Store!Next
    <3> QED
      BY <3>2, <3>3
  <2>4. CASE said'[p] # said[p]
    <3>1. pc[p] # "done" /\ said[p] = "nothing"
      BY <1>2, <2>1 DEF Run, Start, Check, Succeed, MakeParent, Make, NextModule, Fail, Undo, RemoveEntry,
         RemoveDirectory, RemoveRaises, Kill, Making, RunInv
    <3>2. ModulesMade' = ModulesMade
      <4>1. ASSUME NEW m PROVE m \in ModulesMade' <=> m \in ModulesMade
        <5>1. CASE working /\ m = h
          BY <1>2, <2>4, <5>1, MadeAtHand
        <5>2. CASE working => m # h
          BY <2>2, <5>2
        <5> QED
          BY <5>1, <5>2
      <4> HIDE DEF ModulesMade
      <4> QED
        BY <4>1
    <3>3. Answers[p] = "none" /\ Answers' = [Answers EXCEPT ![p] = IF said'[p] = "created" THEN "yes" ELSE "no"]
      BY <2>1, <2>4, <3>1 DEF Answers
    <3>4. ASSUME said'[p] = "created" PROVE Range(asked[p]) \subseteq ModulesMade
      <4>1. todo[p] = <<>> /\ pc[p] = "check"
        BY <1>2, <3>1, <3>4, <2>1 DEF Run, Start, Check, Succeed, MakeParent, Make, NextModule, Fail, Undo,
           RemoveEntry, RemoveDirectory, RemoveRaises, Kill, End, Set, TypeOK, Refusal
      <4>2. BehindInv(p) /\ Turn(p) = Len(asked[p])
        BY <2>1, <3>1, <4>1, TurnFacts DEF ModuleInvOf, Started
      <4>3. asked[p] \in Seq(Paths)
        BY <2>1 DEF TypeOK
      <4>4. ASSUME NEW m \in Range(asked[p]) PROVE m \in ModulesMade
        <5>1. PICK k \in 1 .. Len(asked[p]) : m = asked[p][k]
          BY <4>3, <4>4 DEF Range
        <5>2. m \in Mine(p) => Whole(m)
          BY <4>2, <5>1 DEF BehindInv
        <5> QED
          BY <4>4, <5>2 DEF ModulesMade
      <4> QED
        BY <4>4
    <3>5. Store!Answer(p)
      BY <2>1, <3>2, <3>3, <3>4 DEF Store!Answer, Store!Range, Range, ModulesMade, Answers
    <3> QED
      BY <2>1, <3>5 DEF Store!Next
  <2> QED
    BY <2>3, <2>4
<1> QED
  BY <1>1, <1>2 DEF Next

\* The script implements ModuleStore: however the runs interleave and whatever
\* fails, what they do to the modules that are one run's alone is to add them
\* whole, in the order asked, and to take none away; a run that says it has created
\* its modules has.
THEOREM GeneratorImplementsModuleStore == Spec => ImplementsModuleStore
<1>1. MakeInv /\ [Next]_vars => [Store!Next]_Store!vars
  BY StoreStep
<1> QED
  BY <1>1, StoreStart, MakeInvInvariant, PTL DEF Spec, ImplementsModuleStore, Store!Spec
=============================================================================
