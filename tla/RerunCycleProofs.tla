--------------------------- MODULE RerunCycleProofs ---------------------------
(* Proofs about RerunCycle: what any number of overlapping invocations of     *)
(* test.py leave of each other's files, and what --rerun-failed and the exit  *)
(* code mean when they follow one another.                                    *)
EXTENDS RerunCycle, FiniteSetTheorems, SequenceTheorems, TLAPS

----------------------------------------------------------------------------
(* Files.                                                                  *)

Entry == [name : Tests \cup {"Results", "none"}, result : Results \cup {"end"}]

\* The closing line and the entries of tests are entries, and different ones; no
\* file that holds only them is NoFile.
LEMMA EntryFacts ==
  /\ EndTag \in Entry /\ EndTag \notin [name : Tests, result : Results]
  /\ [name : Tests, result : Results] \subseteq Entry
  /\ NoFile \in Seq(Entry) /\ NoFile # <<>> /\ Len(NoFile) = 1
  /\ NoFile[1] # EndTag /\ NoFile[1] \notin [name : Tests, result : Results]
BY DEF Entry, EndTag, NoFile, Results

\* What Append does to a sequence, by index.
LEMMA Appended ==
  ASSUME NEW S, NEW s \in Seq(S), NEW e \in S, NEW t, t = Append(s, e)
  PROVE  /\ t \in Seq(S) /\ Len(t) = Len(s) + 1 /\ Len(s) \in Nat
         /\ \A i \in 1 .. Len(s) : t[i] = s[i]
         /\ t[Len(s) + 1] = e
OBVIOUS

\* The file of a live run that it has created.
LEMMA OwnFile ==
  ASSUME CycleInv, NEW p \in Procs, pc[p] \in {"running", "closed"}
  PROVE  /\ stamp[p] \in Stamps /\ stamp[p] \in Existing /\ files[stamp[p]] \in Seq(Entry)
         /\ Len(files[stamp[p]]) \in Nat
<1>1. stamp[p] \in Existing /\ Existing \subseteq Stamps
  BY DEF CycleInv, FilesInv, Existing
<1>2. files \in [Stamps -> Seq(Entry)]
  BY DEF CycleInv, TypeOK, Entry
<1>3. files[stamp[p]] \in Seq(Entry)
  BY <1>1, <1>2
<1> QED
  BY <1>1, <1>3, LenProperties

\* A run that appends a line to its file changes no other file.
LEMMA AppendFacts ==
  ASSUME CycleInv, NEW p \in Procs, pc[p] = "running",
         NEW e, e = EndTag \/ e \in [name : Tests, result : Results],
         files' = [files EXCEPT ![stamp[p]] = Append(@, e)]
  PROVE  /\ files' \in [Stamps -> Seq(Entry)] /\ Existing' = Existing
         /\ \A t \in Stamps : t # stamp[p] => files'[t] = files[t]
         /\ Len(files'[stamp[p]]) = Len(files[stamp[p]]) + 1
         /\ files'[stamp[p]][Len(files[stamp[p]]) + 1] = e
         /\ \A i \in 1 .. Len(files[stamp[p]]) : files'[stamp[p]][i] = files[stamp[p]][i]
<1> DEFINE s == stamp[p]
           f == files[s]
<1>1. /\ s \in Stamps /\ s \in Existing /\ f \in Seq(Entry) /\ Len(f) \in Nat
      /\ files \in [Stamps -> Seq(Entry)]
  BY OwnFile DEF CycleInv, TypeOK, Entry
<1>2. e \in Entry
  BY EntryFacts
<1>3. files'[s] = Append(f, e) /\ \A t \in Stamps : t # s => files'[t] = files[t]
  BY <1>1 DEF CycleInv, TypeOK
<1>4. /\ files'[s] \in Seq(Entry) /\ Len(files'[s]) = Len(f) + 1 /\ files'[s][Len(f) + 1] = e
      /\ \A i \in 1 .. Len(f) : files'[s][i] = f[i]
  BY <1>1, <1>2, <1>3, Appended
<1>5. files' \in [Stamps -> Seq(Entry)]
  BY <1>1, <1>3, <1>4
<1>6. files'[s] # NoFile
  <2>1. CASE Len(f) = 0
    <3>1. files'[s][1] = e
      BY <2>1, <1>4
    <3> QED
      BY <3>1, EntryFacts
  <2>2. CASE Len(f) > 0
    BY <2>2, <1>1, <1>4, EntryFacts
  <2> QED
    BY <2>1, <2>2, <1>1
<1>7. Existing' = Existing
  BY <1>1, <1>3, <1>6 DEF Existing
<1> QED
  BY <1>3, <1>4, <1>5, <1>7

----------------------------------------------------------------------------
(* CycleInv, whatever the invocations.                                     *)

LEMMA InitCycleInv == Init => CycleInv
<1> SUFFICES ASSUME Init PROVE CycleInv
  OBVIOUS
<1>1. TypeOK
  BY CycleAssumption, EntryFacts DEF Init, TypeOK, Entry
<1>2. FilesInv
  BY DEF Init, FilesInv, Existing, Active
<1>3. OwnerInv
  BY DEF Init, OwnerInv
<1> QED
  BY <1>1, <1>2, <1>3 DEF CycleInv

\* A step that writes no file and takes no stamp, but may end a run or load.
LEMMA QuietFrame ==
  ASSUME CycleInv, UNCHANGED <<clock, files, stamp, shared>>,
         \A q \in Procs : \/ pc'[q] = pc[q] \/ pc'[q] = "idle"
                          \/ pc[q] = "named" /\ pc'[q] = "loaded"
  PROVE  FilesInv' /\ OwnerInv'
BY DEF CycleInv, FilesInv, OwnerInv, Existing, Active

\* A nonempty set of natural numbers has a least element.
LEMMA Least ==
  ASSUME NEW S \in SUBSET Nat, S # {}
  PROVE  \E m \in S : \A k \in S : m <= k
<1> DEFINE R == {ss \in Nat \X Nat : ss[1] < ss[2]}
<1>1. IsWellFoundedOn(R, Nat)
  BY NatLessThanWellFounded DEF OpToRel
<1>2. \E m \in S : \A k \in S : ~(<<k, m>> \in R)
  <2> HIDE DEF R
  <2> QED
    BY <1>1, WFMin
<1>3. \A k, m \in Nat : ~(<<k, m>> \in R) => m <= k
  OBVIOUS
<1> HIDE DEF R
<1> QED
  BY <1>2, <1>3

\* The latest stamp with a file, if there is one.
LEMMA LatestFacts ==
  ASSUME TypeOK, Existing # {}
  PROVE  Latest \in Existing /\ \A u \in Existing : u <= Latest
<1> DEFINE Above(m) == \A u \in Existing : u <= m
<1>1. Existing \subseteq 1 .. MaxClock /\ MaxClock \in Nat
  BY CycleAssumption DEF Existing, Stamps
<1> DEFINE U == {m \in Nat : Above(m)}
<1>2. U \in SUBSET Nat /\ U # {}
  BY <1>1
<1>3. PICK m \in U : \A k \in U : m <= k
  <2> HIDE DEF U
  <2> QED
    BY <1>2, Least
<1>4. m \in Existing
  <2> SUFFICES ASSUME m \notin Existing PROVE FALSE
    OBVIOUS
  <2>1. m \in Nat /\ \A u \in Existing : u <= m /\ u # m /\ u \in 1 .. MaxClock
    BY <1>1, <1>3
  <2>2. m - 1 \in Nat /\ \A u \in Existing : u <= m - 1
    <3>1. PICK u \in Existing : TRUE
      OBVIOUS
    <3>2. \A v \in Existing : v <= m - 1
      BY <2>1, <1>1
    <3> QED
      BY <3>1, <3>2, <2>1, <1>1
  <2> QED
    BY <2>1, <2>2, <1>3
<1> QED
  BY <1>3, <1>4 DEF Latest

\* What --rerun-failed reads are tests.
LEMMA SuccessesAreTests ==
  ASSUME CycleInv, Readable
  PROVE  Successes(files[Latest]) \subseteq Tests
<1>1. Latest \in Existing /\ files[Latest] \in Seq(Entry)
  BY LatestFacts DEF Readable, CycleInv, TypeOK, Existing, Entry
<1>2. \A i \in 1 .. Len(files[Latest]) :
         files[Latest][i].result \in {"PASS", "SKIP"} => files[Latest][i].name \in Tests
  BY <1>1 DEF CycleInv, FilesInv, EndTag
<1> QED
  BY <1>1, <1>2, LenProperties DEF Successes

LEMMA BeginCycle ==
  ASSUME CycleInv, NEW p \in Procs, Begin(p)
  PROVE  CycleInv'
<1>1. /\ pc[p] = "idle" /\ clock \in Nat /\ clock' \in 1 .. MaxClock
      /\ \/ clock' = clock + 1 /\ shared' = shared
         \/ clock' = clock /\ shared' = shared \cup {clock}
      /\ stamp' = [stamp EXCEPT ![p] = clock'] /\ pc' = [pc EXCEPT ![p] = "named"]
      /\ UNCHANGED files
  <2>1. clock \in 0 .. MaxClock /\ MaxClock \in Nat
    BY CycleAssumption DEF CycleInv, TypeOK
  <2>2. \/ clock < MaxClock /\ clock' = clock + 1
        \/ clock # 0 /\ clock' = clock
    BY DEF Begin, NewSecond
  <2>3. shared' = shared \cup ({clock} \cap {clock'})
    BY DEF Begin
  <2>4. clock' = clock + 1 => {clock} \cap {clock'} = {}
    BY <2>1
  <2>5. clock' = clock => {clock} \cap {clock'} = {clock}
    OBVIOUS
  <2>6. /\ pc[p] = "idle" /\ UNCHANGED files
        /\ stamp' = [stamp EXCEPT ![p] = clock'] /\ pc' = [pc EXCEPT ![p] = "named"]
    BY DEF Begin, Set
  <2>7. /\ clock' \in 1 .. MaxClock
        /\ \/ clock' = clock + 1 /\ shared' = shared
           \/ clock' = clock /\ shared' = shared \cup {clock}
    BY <2>1, <2>2, <2>3, <2>4, <2>5
  <2> QED
    BY <2>1, <2>6, <2>7
<1>2. TypeOK'
  <2>1. /\ rerun' \in [Procs -> BOOLEAN] /\ green' \in [Procs -> BOOLEAN]
        /\ selected' \in [Procs -> SUBSET Tests] /\ optSkip' \in [Procs -> SUBSET Tests]
        /\ left' \in [Procs -> SUBSET Tests]
        /\ \A q \in Procs : optSkip'[q] \subseteq selected'[q] /\ left'[q] \subseteq selected'[q]
    BY DEF Begin, Set, CycleInv, TypeOK
  <2>2. /\ known' \in [Procs -> SUBSET Tests] /\ exit' \in [Procs -> {"none", "-1", "0", "1"}]
        /\ UNCHANGED <<files, last, exempted>>
    BY DEF Begin, Set, CycleInv, TypeOK
  <2>6. /\ blank' \in [Procs -> SUBSET Tests]
        /\ \A q \in Procs : blank'[q] \subseteq selected'[q] \ left'[q]
    <3>1. /\ blank' = [blank EXCEPT ![p] = {}]
          /\ \A q \in Procs : q # p => selected'[q] = selected[q] /\ left'[q] = left[q]
      BY DEF Begin, Set, CycleInv, TypeOK
    <3> QED
      BY <3>1 DEF CycleInv, TypeOK
  <2>3. dirs' \subseteq Stamps
    BY <1>1 DEF Begin, CycleInv, TypeOK, Stamps
  <2>4. /\ clock' \in 0 .. MaxClock /\ stamp' \in [Procs -> 0 .. clock']
        /\ shared' \subseteq 1 .. clock'
    <3>1. clock \in 0 .. MaxClock /\ stamp \in [Procs -> 0 .. clock] /\ shared \subseteq 1 .. clock
      BY DEF CycleInv, TypeOK
    <3>2. clock' \in 0 .. MaxClock /\ clock <= clock' /\ 0 .. clock \subseteq 0 .. clock'
      BY <1>1, <3>1
    <3>3. stamp' \in [Procs -> 0 .. clock']
      BY <1>1, <3>1, <3>2
    <3>4. shared' \subseteq 1 .. clock'
      <4>1. CASE shared' = shared
        BY <4>1, <3>1, <3>2
      <4>2. CASE clock' = clock /\ shared' = shared \cup {clock}
        BY <4>2, <1>1, <3>1
      <4> QED
        BY <4>1, <4>2, <1>1
    <3> QED
      BY <3>2, <3>3, <3>4
  <2>5. pc' \in [Procs -> {"idle", "named", "loaded", "running", "closed"}]
    BY <1>1 DEF CycleInv, TypeOK
  <2> QED
    BY <2>1, <2>2, <2>3, <2>4, <2>5, <2>6 DEF CycleInv, TypeOK
<1>3. \A q \in Procs : /\ stamp'[q] = IF q = p THEN clock' ELSE stamp[q]
                       /\ pc'[q] = IF q = p THEN "named" ELSE pc[q]
                       /\ stamp[q] \in 0 .. clock
  BY <1>1 DEF CycleInv, TypeOK
<1>4. FilesInv'
  BY <1>1, <1>3 DEF CycleInv, FilesInv, Existing, Active, Stamps
<1>5. OwnerInv'
  <2>1. \A q \in Procs : q # p /\ stamp'[q] = clock' => clock' \in shared'
    BY <1>1, <1>3
  <2>2. clock' \notin shared' => clock' \notin Existing
    BY <1>1 DEF CycleInv, FilesInv, Existing, Stamps
  <2> QED
    BY <1>1, <1>3, <2>1, <2>2 DEF CycleInv, OwnerInv, Existing
<1> QED
  BY <1>2, <1>4, <1>5 DEF CycleInv

LEMMA LoadCycle ==
  ASSUME CycleInv, NEW p \in Procs, Load(p)
  PROVE  CycleInv'
<1>1. /\ \E a \in {"loaded", "idle"} : pc' = [pc EXCEPT ![p] = a]
      /\ pc[p] = "named"
      /\ UNCHANGED <<clock, files, stamp, shared, dirs, rerun, selected, optSkip, left, green,
                     blank, last, exempted>>
  BY DEF Load, Set
<1>2. known' \in [Procs -> SUBSET Tests] /\ exit' \in [Procs -> {"none", "-1", "0", "1"}]
  BY SuccessesAreTests, ZenonT(60) DEF Load, Set, CycleInv, TypeOK
<1>3. TypeOK'
  <2>1. pc' \in [Procs -> {"idle", "named", "loaded", "running", "closed"}]
    BY <1>1 DEF CycleInv, TypeOK
  <2> QED
    BY <2>1, <1>1, <1>2 DEF CycleInv, TypeOK
<1>4. FilesInv' /\ OwnerInv'
  <2>1. \A q \in Procs : pc'[q] = pc[q] \/ pc'[q] = "idle" \/ (pc[q] = "named" /\ pc'[q] = "loaded")
    BY <1>1 DEF CycleInv, TypeOK
  <2> QED
    BY <1>1, <2>1, QuietFrame
<1> QED
  BY <1>3, <1>4 DEF CycleInv

LEMMA CreateCycle ==
  ASSUME CycleInv, NEW p \in Procs, Create(p)
  PROVE  CycleInv'
<1>1. /\ pc[p] = "loaded" /\ pc' = [pc EXCEPT ![p] = "running"]
      /\ files' = [files EXCEPT ![stamp[p]] = <<>>]
      /\ UNCHANGED <<clock, dirs, stamp, rerun, selected, optSkip, known, left, green, exit,
                     blank, last, exempted, shared>>
  BY DEF Create, Set
<1>2. stamp[p] \in Stamps /\ stamp[p] <= clock
  <2>1. stamp[p] \in 0 .. clock /\ clock \in 0 .. MaxClock /\ MaxClock \in Nat
    BY CycleAssumption DEF CycleInv, TypeOK
  <2>2. stamp[p] # 0
    BY <1>1 DEF CycleInv, FilesInv, Active
  <2> QED
    BY <2>1, <2>2 DEF Stamps
<1>3. /\ files' \in [Stamps -> Seq(Entry)] /\ files'[stamp[p]] = <<>>
      /\ \A t \in Stamps : t # stamp[p] => files'[t] = files[t]
  <2>1. files \in [Stamps -> Seq(Entry)] /\ <<>> \in Seq(Entry)
    BY EmptySeq DEF CycleInv, TypeOK, Entry
  <2> QED
    BY <2>1, <1>1, <1>2
<1>4. Existing' = Existing \cup {stamp[p]}
  BY <1>2, <1>3, EntryFacts DEF Existing
<1>5. \A q \in Procs : pc'[q] = IF q = p THEN "running" ELSE pc[q]
  BY <1>1 DEF CycleInv, TypeOK
<1>6. TypeOK'
  BY <1>1, <1>3 DEF CycleInv, TypeOK, Entry
<1>7. FilesInv'
  BY <1>1, <1>2, <1>3, <1>4, <1>5 DEF CycleInv, FilesInv, Active, Existing
<1>8. OwnerInv'
  BY <1>1, <1>2, <1>3, <1>4, <1>5 DEF CycleInv, OwnerInv, FilesInv, Active, Existing
<1> QED
  BY <1>6, <1>7, <1>8 DEF CycleInv

\* A run that appends a line, the closing line only when it leaves its loop.
LEMMA AppendCycle ==
  ASSUME CycleInv, NEW p \in Procs, pc[p] = "running",
         NEW e, files' = [files EXCEPT ![stamp[p]] = Append(@, e)],
         \/ e \in [name : Tests, result : Results] /\ UNCHANGED pc
         \/ e = EndTag /\ pc' = [pc EXCEPT ![p] = "closed"],
         UNCHANGED <<clock, stamp, shared>>
  PROVE  FilesInv' /\ OwnerInv'
<1>1. /\ stamp[p] \in Stamps /\ stamp[p] \in Existing /\ Len(files[stamp[p]]) \in Nat
      /\ Existing' = Existing
      /\ \A t \in Stamps : t # stamp[p] => files'[t] = files[t]
      /\ Len(files'[stamp[p]]) = Len(files[stamp[p]]) + 1
      /\ files'[stamp[p]][Len(files[stamp[p]]) + 1] = e
      /\ \A i \in 1 .. Len(files[stamp[p]]) : files'[stamp[p]][i] = files[stamp[p]][i]
  BY OwnFile, AppendFacts
<1>2. \A q \in Procs : pc'[q] = IF q = p /\ e = EndTag THEN "closed" ELSE pc[q]
  BY EntryFacts DEF CycleInv, TypeOK
<1>3. FilesInv'
  <2>1. ASSUME NEW t \in Existing', NEW i \in 1 .. Len(files'[t])
        PROVE  files'[t][i] = EndTag \/ files'[t][i] \in [name : Tests, result : Results]
    <3>1. CASE t # stamp[p]
      BY <2>1, <3>1, <1>1 DEF CycleInv, FilesInv, Existing
    <3>2. CASE t = stamp[p] /\ i = Len(files[t]) + 1
      BY <3>2, <1>1
    <3>3. CASE t = stamp[p] /\ i # Len(files[t]) + 1
      BY <2>1, <3>3, <1>1 DEF CycleInv, FilesInv
    <3> QED
      BY <3>1, <3>2, <3>3
  <2> QED
    BY <2>1, <1>1, <1>2 DEF CycleInv, FilesInv, Active
<1>4. OwnerInv'
  <2>1. \A q, r \in Procs : q # r /\ stamp'[q] = stamp'[r] /\ stamp'[q] # 0 => stamp'[q] \in shared'
    BY DEF CycleInv, OwnerInv
  <2>2. ASSUME NEW q \in Procs, stamp[q] \notin shared
        PROVE  /\ pc'[q] \in {"named", "loaded"} => stamp[q] \notin Existing'
               /\ pc'[q] = "running" =>
                    \A i \in 1 .. Len(files'[stamp[q]]) : files'[stamp[q]][i] # EndTag
    <3>1. CASE q = p
      BY <2>2, <3>1, <1>1, <1>2, EntryFacts DEF CycleInv, OwnerInv
    <3>2. CASE q # p
      <4>1. stamp[q] # stamp[p]
        BY <3>2, <2>2, <1>1 DEF CycleInv, OwnerInv, Stamps
      <4>2. pc'[q] = "running" => stamp[q] \in Stamps
        BY <3>2, <1>2 DEF CycleInv, FilesInv, Existing
      <4> QED
        BY <4>1, <4>2, <3>2, <2>2, <1>1, <1>2 DEF CycleInv, OwnerInv
    <3> QED
      BY <3>1, <3>2
  <2> QED
    BY <2>1, <2>2 DEF OwnerInv
<1> QED
  BY <1>3, <1>4

Verdicts == {"PASS", "FAIL", "MIXED"}

\* What a job that ran leaves as its verdict.
LEMMA VerdictFacts == \A v \in {"PASS", "FAIL"}, w \in Written : VerdictOf(v, w) \in Verdicts
BY DEF VerdictOf, Verdicts

LEMMA LastTyped ==
  ASSUME TypeOK, NEW t \in Tests,
         last' = last \/ \E v \in Verdicts : last' = [last EXCEPT ![t] = v]
  PROVE  last' \in [Tests -> {"none", "PASS", "FAIL", "MIXED"}]
<1>1. last \in [Tests -> {"none", "PASS", "FAIL", "MIXED"}]
  BY DEF TypeOK
<1> QED
  BY <1>1 DEF Verdicts

LEMMA CollectCycle ==
  ASSUME CycleInv, NEW p \in Procs, NEW t \in Tests, CollectSkip(p, t) \/ CollectRun(p, t)
  PROVE  CycleInv'
<1>1. /\ pc[p] = "running"
      /\ UNCHANGED <<clock, dirs, pc, stamp, rerun, selected, optSkip, known, exit, blank, shared>>
      /\ left' = [left EXCEPT ![p] = left[p] \ {t}]
      /\ exempted' \subseteq exempted \cup {t}
      /\ green' = green \/ \E v \in BOOLEAN : green' = [green EXCEPT ![p] = green[p] /\ v]
      /\ last' = last \/ \E v \in Verdicts : last' = [last EXCEPT ![t] = v]
  BY VerdictFacts, ZenonT(60) DEF CollectSkip, CollectRun, Set
<1>2. PICK r \in Results :
        files' = [files EXCEPT ![stamp[p]] = Append(@, [name |-> t, result |-> r])]
  BY DEF CollectSkip, CollectRun, Write, Written, Results
<1> DEFINE e == [name |-> t, result |-> r]
<1>3. e \in [name : Tests, result : Results]
  OBVIOUS
<1>4. files' \in [Stamps -> Seq(Entry)] /\ FilesInv' /\ OwnerInv'
  <2> HIDE DEF e
  <2> QED
    BY <1>1, <1>2, <1>3, AppendFacts, AppendCycle DEF e
<1>5. TypeOK'
  <2>1. /\ left' \in [Procs -> SUBSET Tests] /\ green' \in [Procs -> BOOLEAN]
        /\ \A q \in Procs : left'[q] \subseteq left[q]
    BY <1>1, ZenonT(60) DEF CycleInv, TypeOK
  <2>4. \A q \in Procs : blank'[q] \subseteq selected'[q] \ left'[q]
    BY <2>1, <1>1 DEF CycleInv, TypeOK
  <2>2. last' \in [Tests -> {"none", "PASS", "FAIL", "MIXED"}]
    BY <1>1, LastTyped DEF CycleInv, TypeOK
  <2>3. exempted' \subseteq Tests
    BY <1>1 DEF CycleInv, TypeOK
  <2> QED
    BY <2>1, <2>2, <2>3, <2>4, <1>1, <1>4 DEF CycleInv, TypeOK, Entry
<1> QED
  BY <1>4, <1>5 DEF CycleInv

\* A suite that writes nothing leaves every file as it is.
LEMMA CollectBlankCycle ==
  ASSUME CycleInv, NEW p \in Procs, NEW t \in Tests, CollectEmpty(p, t) \/ CollectRaises(p, t)
  PROVE  CycleInv'
<1>1. /\ UNCHANGED <<clock, files, dirs, stamp, rerun, selected, optSkip, known, exempted, shared>>
      /\ pc' = pc \/ pc' = [pc EXCEPT ![p] = "idle"]
      /\ exit' = exit \/ exit' = [exit EXCEPT ![p] = "1"]
      /\ t \in left[p] /\ left' = [left EXCEPT ![p] = left[p] \ {t}]
      /\ blank' = blank \/ blank' = [blank EXCEPT ![p] = blank[p] \cup {t}]
      /\ green' = green \/ \E v \in BOOLEAN : green' = [green EXCEPT ![p] = green[p] /\ v]
      /\ \E v \in {"PASS", "FAIL"} : last' = [last EXCEPT ![t] = v]
  BY ZenonT(60) DEF CollectEmpty, CollectRaises, Set
<1>2. TypeOK'
  <2>1. left' \in [Procs -> SUBSET Tests] /\ green' \in [Procs -> BOOLEAN]
    BY <1>1, ZenonT(60) DEF CycleInv, TypeOK
  <2>2. /\ blank' \in [Procs -> SUBSET Tests]
        /\ \A q \in Procs : /\ left'[q] \subseteq left[q]
                             /\ blank'[q] \subseteq selected'[q] \ left'[q]
    <3>1. /\ left \in [Procs -> SUBSET Tests] /\ blank \in [Procs -> SUBSET Tests]
          /\ \A q \in Procs : /\ left[q] \subseteq selected[q]
                               /\ blank[q] \subseteq selected[q] \ left[q]
          /\ selected' = selected
      BY <1>1 DEF CycleInv, TypeOK
    <3> QED
      BY <3>1, <1>1
  <2>3. last' \in [Tests -> {"none", "PASS", "FAIL", "MIXED"}]
    BY <1>1, LastTyped DEF CycleInv, Verdicts
  <2>4. /\ pc' \in [Procs -> {"idle", "named", "loaded", "running", "closed"}]
        /\ exit' \in [Procs -> {"none", "-1", "0", "1"}]
    BY <1>1 DEF CycleInv, TypeOK
  <2> QED
    BY <2>1, <2>2, <2>3, <2>4, <1>1 DEF CycleInv, TypeOK
<1>3. \A q \in Procs : pc'[q] = pc[q] \/ pc'[q] = "idle"
  BY <1>1 DEF CycleInv, TypeOK
<1> QED
  BY <1>1, <1>2, <1>3, QuietFrame DEF CycleInv

LEMMA CloseCycle ==
  ASSUME CycleInv, NEW p \in Procs, Close(p)
  PROVE  CycleInv'
<1>1. /\ pc[p] = "running" /\ pc' = [pc EXCEPT ![p] = "closed"]
      /\ files' = [files EXCEPT ![stamp[p]] = Append(@, EndTag)]
      /\ UNCHANGED <<clock, dirs, stamp, rerun, selected, optSkip, known, left, green, exit,
                     blank, last, exempted, shared>>
  BY DEF Close, Set
<1>2. files' \in [Stamps -> Seq(Entry)] /\ FilesInv' /\ OwnerInv'
  BY <1>1, AppendFacts, AppendCycle
<1>3. TypeOK'
  BY <1>1, <1>2 DEF CycleInv, TypeOK, Entry
<1> QED
  BY <1>2, <1>3 DEF CycleInv

LEMMA EndCycle ==
  ASSUME CycleInv, NEW p \in Procs, Interrupt(p) \/ Die(p) \/ Return(p)
  PROVE  CycleInv'
<1>1. /\ UNCHANGED <<clock, files, stamp, rerun, selected, optSkip, known, blank, last,
                     exempted, shared>>
      /\ pc' = pc \/ pc' = [pc EXCEPT ![p] = "idle"]
      /\ left' = left \/ \E rest \in SUBSET left[p] : left' = [left EXCEPT ![p] = rest]
      /\ green' = green \/ green' = [green EXCEPT ![p] = FALSE]
      /\ exit' = exit \/ \E x \in {"0", "1"} : exit' = [exit EXCEPT ![p] = x]
      /\ dirs' \subseteq dirs
  BY DEF Interrupt, Die, Return, Set
<1>2. TypeOK'
  <2>1. left' \in [Procs -> SUBSET Tests] /\ \A q \in Procs : left'[q] \subseteq left[q]
    <3>1. left \in [Procs -> SUBSET Tests]
      BY DEF CycleInv, TypeOK
    <3>2. CASE \E rest \in SUBSET left[p] : left' = [left EXCEPT ![p] = rest]
      <4>1. PICK rest \in SUBSET left[p] : left' = [left EXCEPT ![p] = rest]
        BY <3>2
      <4> QED
        BY <3>1, <4>1
    <3> QED
      BY <3>1, <3>2, <1>1
  <2>2. /\ pc' \in [Procs -> {"idle", "named", "loaded", "running", "closed"}]
        /\ green' \in [Procs -> BOOLEAN] /\ dirs' \subseteq Stamps
    BY <1>1 DEF CycleInv, TypeOK
  <2>3. exit' \in [Procs -> {"none", "-1", "0", "1"}]
    <3>1. exit \in [Procs -> {"none", "-1", "0", "1"}]
      BY DEF CycleInv, TypeOK
    <3> QED
      BY <3>1, <1>1
  <2>4. \A q \in Procs : blank'[q] \subseteq selected'[q] \ left'[q]
    BY <2>1, <1>1 DEF CycleInv, TypeOK
  <2> QED
    BY <2>1, <2>2, <2>3, <2>4, <1>1 DEF CycleInv, TypeOK
<1>3. \A q \in Procs : pc'[q] = pc[q] \/ pc'[q] = "idle"
  BY <1>1 DEF CycleInv, TypeOK
<1> QED
  BY <1>1, <1>2, <1>3, QuietFrame DEF CycleInv

LEMMA NextCycleInv == CycleInv /\ [Next]_vars => CycleInv'
<1> SUFFICES ASSUME CycleInv, [Next]_vars PROVE CycleInv'
  OBVIOUS
<1>1. CASE Next
  BY <1>1, BeginCycle, LoadCycle, CreateCycle, CollectCycle, CollectBlankCycle, CloseCycle,
     EndCycle DEF Next
<1>2. CASE UNCHANGED vars
  BY <1>2 DEF vars, procVars, CycleInv, TypeOK, FilesInv, OwnerInv, Existing, Active
<1> QED
  BY <1>1, <1>2

\* Stamps, files and the runs that own them agree, however the runs overlap.
THEOREM CycleInvInvariant == Spec => []CycleInv
BY InitCycleInv, NextCycleInv, PTL DEF Spec

\* Every variable keeps its type.
THEOREM CycleTypeCorrect == Spec => []TypeOK
<1>1. CycleInv => TypeOK
  BY DEF CycleInv
<1> QED
  BY CycleInvInvariant, <1>1, PTL
\* A complete results file is never written again, unless two runs took its stamp.
THEOREM CompleteKept == Spec => CompleteFilesKept
<1>1. CycleInv /\ [Next]_vars =>
        [\A t \in Stamps \ shared :
           files[t] # NoFile /\ Closed(files[t]) => files'[t] = files[t]]_vars
  <2> SUFFICES ASSUME CycleInv, Next, NEW t \in Stamps, t \notin shared,
                      files[t] # NoFile, Closed(files[t])
               PROVE  files'[t] = files[t]
    OBVIOUS
  <2>1. PICK p \in Procs : \/ Begin(p) \/ Load(p) \/ Create(p) \/ Interrupt(p) \/ Die(p) \/ Close(p)
                           \/ Return(p)
                           \/ \E u \in Tests : \/ CollectSkip(p, u) \/ CollectRun(p, u)
                                               \/ CollectEmpty(p, u) \/ CollectRaises(p, u)
    BY DEF Next
  <2>2. t \in Existing /\ files \in [Stamps -> Seq(Entry)] /\ files[t] \in Seq(Entry)
    BY DEF Existing, CycleInv, TypeOK, Entry
  <2>3. Len(files[t]) \in 1 .. Len(files[t]) /\ files[t][Len(files[t])] = EndTag
    BY <2>2, EmptySeq, LenProperties DEF Closed
  <2>4. CASE pc[p] \in {"loaded", "running"}
    <3>1. stamp[p] # t
      BY <2>2, <2>3, <2>4 DEF CycleInv, OwnerInv
    <3>2. files' = files \/ \E f : files' = [files EXCEPT ![stamp[p]] = f]
      BY <2>1 DEF Begin, Load, Create, Interrupt, Die, Close, Return, CollectSkip, CollectRun,
         CollectEmpty, CollectRaises, Write, Set
    <3> QED
      BY <3>1, <3>2, <2>2
  <2>5. CASE pc[p] \notin {"loaded", "running"}
    BY <2>1, <2>5 DEF Begin, Load, Create, Interrupt, Die, Close, Return, CollectSkip, CollectRun,
       CollectEmpty, CollectRaises
  <2> QED
    BY <2>4, <2>5
<1> QED
  BY CycleInvInvariant, <1>1, PTL DEF Spec, CompleteFilesKept

----------------------------------------------------------------------------
(* One invocation after the other.                                         *)

LEMMA InitVerdictInv == Init => VerdictInv
BY DEF Init, VerdictInv, HonestInv, LiveInv, GreenInv, RerunHidesNoFailure, GreenLeavesFile,
   Existing, Active

\* A live run's file is the latest there is.
LEMMA OwnIsLatest ==
  ASSUME SoloInv, NEW p \in Procs, Active(p), NEW t \in Existing, t # stamp[p]
  PROVE  t < stamp[p] /\ t \in Nat /\ stamp[p] \in Nat
<1>1. t <= clock /\ clock = stamp[p]
  BY DEF SoloInv, CycleInv, FilesInv, VerdictInv, LiveInv
<1>2. t \in Nat /\ clock \in Nat
  BY DEF Existing, Stamps, SoloInv, CycleInv, TypeOK
<1> QED
  BY <1>1, <1>2

LEMMA BeginVerdict ==
  ASSUME Solo, SoloInv, NEW p \in Procs, Begin(p)
  PROVE  VerdictInv'
<1>1. \A q \in Procs : q = p
  BY DEF Solo
<1>2. /\ UNCHANGED <<files, last, exempted>>
      /\ stamp'[p] = clock' /\ pc'[p] = "named" /\ known'[p] = {} /\ exit'[p] = "none"
      /\ left'[p] = selected'[p]
  BY DEF Begin, Set, SoloInv, CycleInv, TypeOK
<1> QED
  BY <1>1, <1>2 DEF SoloInv, VerdictInv, HonestInv, Honest, LiveInv, GreenInv, Earned,
     RerunHidesNoFailure, GreenLeavesFile, Existing, Active

LEMMA LoadVerdict ==
  ASSUME Solo, SoloInv, NEW p \in Procs, Load(p)
  PROVE  VerdictInv'
<1>1. \A q \in Procs : q = p
  BY DEF Solo
<1>2. /\ UNCHANGED <<clock, files, stamp, rerun, selected, left, green, blank, last, exempted>>
      /\ pc[p] = "named" /\ pc'[p] \in {"loaded", "idle"}
      /\ exit'[p] \in {exit[p], "-1"} /\ exit[p] # "0"
      /\ known'[p] = known[p] \/ (Readable /\ known'[p] = Successes(files[Latest]))
  BY DEF Load, Set, SoloInv, CycleInv, TypeOK, VerdictInv, GreenInv, Active
<1>3. ASSUME Readable, NEW t \in Successes(files[Latest]), t \notin exempted
      PROVE  last[t] \in {"PASS", "MIXED"}
  <2>1. Latest \in Existing /\ files[Latest] \in Seq(Entry) /\ Honest(files[Latest])
    BY <1>3, LatestFacts DEF Readable, SoloInv, CycleInv, TypeOK, Existing, Entry, VerdictInv,
       HonestInv
  <2>2. DOMAIN files[Latest] = 1 .. Len(files[Latest])
    BY <2>1, LenProperties
  <2> QED
    BY <1>3, <2>1, <2>2 DEF Successes, Honest
<1>4. RerunHidesNoFailure'
  BY <1>1, <1>2, <1>3 DEF SoloInv, VerdictInv, RerunHidesNoFailure
<1>5. HonestInv' /\ LiveInv'
  BY <1>1, <1>2 DEF SoloInv, VerdictInv, HonestInv, Honest, LiveInv, Existing, Active
<1>6. GreenInv' /\ GreenLeavesFile'
  <2>1. selected[p] \ left[p] = {} /\ exit[p] # "0"
    BY <1>2 DEF SoloInv, VerdictInv, GreenInv, Active
  <2> QED
    BY <2>1, <1>1, <1>2 DEF GreenInv, GreenLeavesFile, SoloInv, VerdictInv
<1> QED
  BY <1>4, <1>5, <1>6 DEF VerdictInv

LEMMA CreateVerdict ==
  ASSUME Solo, SoloInv, NEW p \in Procs, Create(p)
  PROVE  VerdictInv'
<1>1. \A q \in Procs : q = p
  BY DEF Solo
<1>2. /\ pc[p] = "loaded" /\ pc'[p] = "running"
      /\ files' = [files EXCEPT ![stamp[p]] = <<>>]
      /\ UNCHANGED <<clock, stamp, rerun, selected, left, known, green, exit, blank, last,
                     exempted>>
  BY DEF Create, Set, SoloInv, CycleInv, TypeOK
<1>3. stamp[p] = clock /\ stamp[p] \in Stamps /\ clock \in Nat
  <2>1. stamp[p] = clock /\ stamp[p] # 0 /\ clock \in 0 .. MaxClock
    BY <1>2 DEF SoloInv, VerdictInv, LiveInv, CycleInv, FilesInv, TypeOK, Active
  <2> QED
    BY <2>1, CycleAssumption DEF Stamps
<1>4. /\ files'[stamp[p]] = <<>> /\ Len(files'[stamp[p]]) = 0
      /\ \A t \in Stamps : t # stamp[p] => files'[t] = files[t]
  BY <1>2, <1>3 DEF SoloInv, CycleInv, TypeOK
<1>5. HonestInv'
  <2> SUFFICES ASSUME NEW t \in Existing', \A u \in Existing' : u <= t
               PROVE  Honest(files[t])'
    BY DEF HonestInv
  <2>1. stamp[p] \in Existing'
    BY <1>3, <1>4, EntryFacts DEF Existing
  <2>2. t = stamp[p]
    <3>1. t # stamp[p] => t \in Existing
      BY <1>4 DEF Existing
    <3> QED
      BY <3>1, <2>1, <1>2, OwnIsLatest DEF Active
  <2> QED
    BY <2>2, <1>4 DEF Honest
<1>6. left[p] = selected[p] /\ exit[p] # "0"
  BY <1>2 DEF SoloInv, VerdictInv, GreenInv, Active
<1>7. Covers(files[stamp[p]], (selected[p] \ left[p]) \ blank[p])'
  <2>1. (selected'[p] \ left'[p]) \ blank'[p] = {}
    BY <1>2, <1>6
  <2>2. {files'[stamp[p]][i].name : i \in 1 .. Len(files'[stamp[p]])} = {}
    BY <1>4
  <2>3. stamp'[p] = stamp[p] /\ Cardinality({}) = 0
    BY <1>2, FS_EmptySet
  <2> QED
    BY <2>1, <2>2, <2>3, <1>4, Zenon DEF Covers
<1>8. LiveInv'
  BY <1>1, <1>2, <1>3, <1>4 DEF LiveInv, SoloInv, VerdictInv, Active
<1>9. GreenInv'
  BY <1>1, <1>2, <1>6, <1>7 DEF GreenInv
<1>10. RerunHidesNoFailure' /\ GreenLeavesFile'
  BY <1>1, <1>2, <1>6 DEF SoloInv, VerdictInv, RerunHidesNoFailure, GreenLeavesFile
<1> QED
  BY <1>5, <1>8, <1>9, <1>10 DEF VerdictInv

LEMMA EndVerdict ==
  ASSUME Solo, SoloInv, NEW p \in Procs, Interrupt(p) \/ Die(p) \/ Return(p)
  PROVE  VerdictInv'
<1>1. \A q \in Procs : q = p
  BY DEF Solo
<1>2. UNCHANGED <<clock, files, stamp, rerun, selected, known, blank, last, exempted>>
  BY DEF Interrupt, Die, Return
<1>3. HonestInv'
  BY <1>2 DEF SoloInv, VerdictInv, HonestInv, Honest, Existing
<1>4. CASE Interrupt(p)
  <2>1. /\ pc' = pc /\ exit' = exit /\ pc[p] = "running"
        /\ left'[p] \subseteq left[p] /\ ~green'[p]
    BY <1>4 DEF Interrupt, Set, SoloInv, CycleInv, TypeOK
  <2> QED
    BY <1>1, <1>2, <1>3, <2>1, ZenonT(60) DEF SoloInv, VerdictInv, LiveInv, GreenInv, Earned,
       RerunHidesNoFailure, GreenLeavesFile, Active
<1>5. CASE Die(p)
  <2>1. pc'[p] = "idle" /\ exit'[p] = "1" /\ left' = left
    BY <1>5 DEF Die, Set, SoloInv, CycleInv, TypeOK
  <2> QED
    BY <1>1, <1>2, <1>3, <2>1 DEF SoloInv, VerdictInv, LiveInv, GreenInv, Earned,
       RerunHidesNoFailure, GreenLeavesFile, Active
<1>6. CASE Return(p)
  <2>1. /\ pc[p] = "closed" /\ pc'[p] = "idle" /\ UNCHANGED <<left, green>>
        /\ exit'[p] = "0" => green[p]
    BY <1>6 DEF Return, Set, SoloInv, CycleInv, TypeOK
  <2> QED
    BY <1>1, <1>2, <1>3, <2>1, ZenonT(60) DEF SoloInv, VerdictInv, LiveInv, GreenInv, Earned,
       RerunHidesNoFailure, GreenLeavesFile, Active
<1> QED
  BY <1>4, <1>5, <1>6
\* Within the run, what was reported is not run again: the new entry is honest, and
\* so the old ones stay.
LEMMA CollectVerdict ==
  ASSUME Solo, SoloInv, NEW p \in Procs, NEW t \in Tests, CollectSkip(p, t) \/ CollectRun(p, t)
  PROVE  VerdictInv'
<1> DEFINE s == stamp[p]
           n == Len(files[s])
           done == selected[p] \ left[p]
           had == done \ blank[p]
<1>1. \A q \in Procs : q = p
  BY DEF Solo
<1>2. /\ pc[p] = "running" /\ t \in left[p] /\ t \in selected[p]
      /\ UNCHANGED <<clock, pc, stamp, rerun, selected, known, exit, blank>>
      /\ left'[p] = left[p] \ {t}
      /\ selected'[p] \ left'[p] = done \cup {t} /\ t \notin done
      /\ (selected'[p] \ left'[p]) \ blank'[p] = had \cup {t} /\ t \notin had
  BY DEF CollectSkip, CollectRun, Set, SoloInv, CycleInv, TypeOK
<1>3. PICK r \in Results, v \in {"PASS", "FAIL"} :
        /\ files' = [files EXCEPT ![s] = Append(@, [name |-> t, result |-> r])]
        /\ \/ /\ r = "SKIP" /\ UNCHANGED <<last, green>>
              /\ t \in optSkip[p] \/ (rerun[p] /\ t \in known[p])
              /\ exempted' = exempted \cup (optSkip[p] \cap {t})
           \/ /\ r # "SKIP" /\ last' = [last EXCEPT ![t] = VerdictOf(v, r)]
              /\ green'[p] = (green[p] /\ v = "PASS") /\ UNCHANGED exempted
  <2>1. CASE CollectSkip(p, t)
    BY <2>1 DEF CollectSkip, Skips, Write, Results
  <2>2. CASE CollectRun(p, t)
    <3>1. PICK x \in {"PASS", "FAIL"}, w \in Written :
            /\ Write(p, t, w) /\ last' = [last EXCEPT ![t] = VerdictOf(x, w)]
            /\ green' = [green EXCEPT ![p] = green[p] /\ x = "PASS"]
      BY <2>2 DEF CollectRun, Set
    <3>2. green'[p] = (green[p] /\ x = "PASS")
      BY <3>1 DEF SoloInv, CycleInv, TypeOK
    <3>3. w \in Results /\ w # "SKIP" /\ UNCHANGED exempted
      BY <2>2 DEF Written, CollectRun
    <3> QED
      BY <3>1, <3>2, <3>3 DEF Write
  <2> QED
    BY <2>1, <2>2
<1> DEFINE e == [name |-> t, result |-> r]
<1>4. /\ s \in Stamps /\ s \in Existing /\ n \in Nat /\ Existing' = Existing
      /\ \A u \in Stamps : u # s => files'[u] = files[u]
      /\ Len(files'[s]) = n + 1 /\ files'[s][n + 1] = e
      /\ \A i \in 1 .. n : files'[s][i] = files[s][i]
  <2>1. e \in [name : Tests, result : Results]
    OBVIOUS
  <2> HIDE DEF e
  <2>2. files' = [files EXCEPT ![s] = Append(@, e)]
    BY <1>3 DEF e
  <2> QED
    BY <2>1, <2>2, <1>2, AppendFacts, OwnFile DEF SoloInv
<1>5. /\ \A i \in 1 .. n : files[s][i] # EndTag /\ files[s][i].name \in done
      /\ s = clock
  BY <1>2 DEF SoloInv, VerdictInv, LiveInv, Active
<1>6. /\ exempted \subseteq exempted' /\ \A u \in Tests : u # t => last'[u] = last[u]
      /\ done \subseteq Tests
  BY <1>3 DEF SoloInv, CycleInv, TypeOK
<1>7. /\ r \in {"PASS", "SKIP"} => t \in exempted' \/ last'[t] \in {"PASS", "MIXED"}
      /\ green'[p] => green[p] /\ Earned(p, t)'
  <2>1. CASE /\ r = "SKIP" /\ UNCHANGED <<last, green>>
             /\ t \in optSkip[p] \/ (rerun[p] /\ t \in known[p])
             /\ exempted' = exempted \cup (optSkip[p] \cap {t})
    <3>1. t \in known[p] => t \in exempted \/ last[t] \in {"PASS", "MIXED"}
      BY <1>2 DEF SoloInv, VerdictInv, RerunHidesNoFailure
    <3> QED
      BY <2>1, <3>1, <1>2 DEF Earned
  <2>2. CASE /\ r # "SKIP" /\ last' = [last EXCEPT ![t] = VerdictOf(v, r)]
             /\ green'[p] = (green[p] /\ v = "PASS") /\ UNCHANGED exempted
    <3>1. last'[t] = VerdictOf(v, r)
      BY <2>2 DEF SoloInv, CycleInv, TypeOK
    <3>2. r = "PASS" => VerdictOf(v, r) \in {"PASS", "MIXED"}
      BY DEF VerdictOf
    <3>3. v = "PASS" => VerdictOf(v, r) = "PASS"
      BY DEF VerdictOf
    <3> QED
      BY <2>2, <3>1, <3>2, <3>3 DEF Earned
  <2> QED
    BY <1>3, <2>1, <2>2
<1>8. HonestInv'
  <2> SUFFICES ASSUME NEW u \in Existing', \A w \in Existing' : w <= u
               PROVE  Honest(files[u])'
    BY DEF HonestInv
  <2>1. u = s
    BY <1>2, <1>4, OwnIsLatest DEF Active
  <2>2. Honest(files[s])
    <3>1. \A w \in Existing : w <= s
      BY <2>1, <1>4
    <3> QED
      BY <3>1, <1>4 DEF SoloInv, VerdictInv, HonestInv
  <2>3. ASSUME NEW i \in 1 .. n + 1, files'[s][i].result \in {"PASS", "SKIP"}
        PROVE  files'[s][i].name \in exempted' \/ last'[files'[s][i].name] \in {"PASS", "MIXED"}
    <3>1. CASE i = n + 1
      BY <2>3, <3>1, <1>4, <1>7
    <3>2. CASE i \in 1 .. n
      <4>1. files'[s][i] = files[s][i] /\ files[s][i].name \in done
        BY <3>2, <1>4, <1>5
      <4>2. files[s][i].name \in exempted \/ last[files[s][i].name] \in {"PASS", "MIXED"}
        BY <2>2, <2>3, <3>2, <4>1 DEF Honest
      <4> QED
        BY <4>1, <4>2, <1>2, <1>6
    <3> QED
      BY <3>1, <3>2, <1>4
  <2> QED
    BY <2>1, <2>3, <1>2, <1>4 DEF Honest
<1>9. LiveInv'
  <2>1. ASSUME NEW i \in 1 .. n + 1
        PROVE  files'[s][i] # EndTag /\ files'[s][i].name \in done \cup {t}
    <3>1. CASE i = n + 1
      BY <3>1, <1>4 DEF EndTag, Results
    <3>2. CASE i \in 1 .. n
      BY <3>2, <1>4, <1>5
    <3> QED
      BY <3>1, <3>2, <1>4
  <2> QED
    BY <2>1, <1>1, <1>2, <1>4, <1>5 DEF LiveInv
<1>10. exit[p] # "0"
  BY <1>2 DEF SoloInv, VerdictInv, GreenInv, Active
<1>11. ASSUME green'[p]
       PROVE  /\ \A u \in done \cup {t} : Earned(p, u)'
              /\ Covers(files'[s], had \cup {t})
  <2>1. green[p] /\ Earned(p, t)'
    BY <1>7, <1>11
  <2>2. /\ \A u \in done : Earned(p, u)
        /\ n = Cardinality(had) /\ {files[s][i].name : i \in 1 .. n} = had
    BY <2>1, <1>2 DEF SoloInv, VerdictInv, GreenInv, Active, Covers
  <2>3. \A u \in done \cup {t} : Earned(p, u)'
    BY <2>1, <2>2, <1>2, <1>6 DEF Earned
  <2>4. Cardinality(had \cup {t}) = n + 1
    <3>1. IsFiniteSet(had) /\ t \notin had
      <4>1. had \subseteq Tests
        BY <1>6
      <4> QED
        BY <4>1, <1>2, CycleAssumption, FS_Subset
    <3> HIDE DEF had
    <3> QED
      BY <3>1, <2>2, FS_AddElement, ZenonT(60)
  <2>5. {files'[s][i].name : i \in 1 .. n + 1} = had \cup {t}
    <3>1. {files'[s][i].name : i \in 1 .. n + 1} = {files'[s][i].name : i \in 1 .. n} \cup {t}
      BY <1>4, SMTT(30)
    <3>2. {files'[s][i].name : i \in 1 .. n} = {files[s][i].name : i \in 1 .. n}
      BY <1>4
    <3> HIDE DEF had
    <3> QED
      BY <3>1, <3>2, <2>2
  <2> QED
    BY <2>3, <2>4, <2>5, <1>4 DEF Covers
<1>12. GreenInv'
  <2>1. Covers(files[stamp[p]], (selected[p] \ left[p]) \ blank[p])' <=>
          Covers(files'[s], had \cup {t})
    BY <1>2 DEF Covers
  <2>2. selected'[p] \ left'[p] = done \cup {t}
    BY <1>2
  <2> HIDE DEF done, had
  <2> QED
    BY <1>1, <1>2, <1>10, <1>11, <2>1, <2>2 DEF GreenInv, Active
<1>13. RerunHidesNoFailure'
  BY <1>1, <1>2, <1>6 DEF SoloInv, CycleInv, TypeOK, VerdictInv, RerunHidesNoFailure
<1>14. GreenLeavesFile'
  BY <1>1, <1>2, <1>10 DEF GreenLeavesFile
<1> QED
  BY <1>8, <1>9, <1>12, <1>13, <1>14 DEF VerdictInv

\* A suite that writes nothing: what the file says stays true, for it says nothing of
\* that suite.
LEMMA CollectBlankVerdict ==
  ASSUME Solo, SoloInv, NEW p \in Procs, NEW t \in Tests, CollectEmpty(p, t) \/ CollectRaises(p, t)
  PROVE  VerdictInv'
<1> DEFINE s == stamp[p]
           done == selected[p] \ left[p]
<1>1. \A q \in Procs : q = p
  BY DEF Solo
<1>2. /\ pc[p] = "running" /\ t \in left[p] /\ t \in selected[p]
      /\ UNCHANGED <<clock, files, stamp, rerun, selected, known, exempted>>
      /\ left'[p] = left[p] \ {t}
      /\ \A u \in Tests : u # t => last'[u] = last[u]
      /\ done \subseteq Tests /\ t \notin done /\ selected'[p] \ left'[p] = done \cup {t}
  BY DEF CollectEmpty, CollectRaises, Set, SoloInv, CycleInv, TypeOK
<1>3. \A i \in 1 .. Len(files[s]) : files[s][i].name \in done
  BY <1>2 DEF SoloInv, VerdictInv, LiveInv
<1>4. HonestInv'
  <2> SUFFICES ASSUME NEW u \in Existing', \A v \in Existing' : v <= u
               PROVE  Honest(files[u])'
    BY DEF HonestInv
  <2>1. Existing' = Existing /\ s \in Existing
    BY <1>2, OwnFile DEF Existing, SoloInv
  <2>2. u = s
    BY <1>2, <2>1, OwnIsLatest DEF Active
  <2>3. Honest(files[s])
    BY <2>1, <2>2 DEF SoloInv, VerdictInv, HonestInv
  <2> QED
    BY <2>2, <2>3, <1>2, <1>3 DEF Honest
<1>5. exit[p] # "0"
  BY <1>2 DEF SoloInv, VerdictInv, GreenInv, Active
<1>6. RerunHidesNoFailure'
  BY <1>1, <1>2 DEF SoloInv, CycleInv, TypeOK, VerdictInv, RerunHidesNoFailure
<1>7. CASE CollectEmpty(p, t)
  <2>1. /\ pc' = pc /\ exit' = exit
        /\ blank'[p] = blank[p] \cup {t}
        /\ green'[p] => green[p] /\ last'[t] = "PASS"
    <3>1. PICK v \in {"PASS", "FAIL"} :
            /\ green' = [green EXCEPT ![p] = green[p] /\ v = "PASS"]
            /\ last' = [last EXCEPT ![t] = v]
      BY <1>7 DEF CollectEmpty, Set
    <3>2. green'[p] = (green[p] /\ v = "PASS") /\ last'[t] = v
      BY <3>1 DEF SoloInv, CycleInv, TypeOK
    <3>3. pc' = pc /\ exit' = exit /\ blank'[p] = blank[p] \cup {t}
      BY <1>7 DEF CollectEmpty, Set, SoloInv, CycleInv, TypeOK
    <3> QED
      BY <3>2, <3>3
  <2>2. LiveInv'
    BY <1>1, <1>2, <1>3, <2>1 DEF LiveInv, SoloInv, VerdictInv, Active
  <2>3. (selected'[p] \ left'[p]) \ blank'[p] = done \ blank[p]
    BY <1>2, <2>1
  <2>4. ASSUME green'[p]
        PROVE  /\ \A u \in done \cup {t} : Earned(p, u)'
               /\ Covers(files[s], done \ blank[p])
    <3>1. /\ \A u \in done : Earned(p, u)
          /\ Covers(files[s], done \ blank[p])
      BY <1>2, <2>1, <2>4 DEF SoloInv, VerdictInv, GreenInv, Active
    <3>2. \A u \in done \cup {t} : Earned(p, u)'
      BY <3>1, <1>2, <2>1, <2>4 DEF Earned
    <3> QED
      BY <3>1, <3>2
  <2>5. GreenInv'
    <3>1. Covers(files[stamp[p]], (selected[p] \ left[p]) \ blank[p])' <=>
            Covers(files[s], done \ blank[p])
      <4>1. files'[stamp'[p]] = files[s]
        BY <1>2
      <4> HIDE DEF done
      <4> QED
        BY <4>1, <2>3, Zenon DEF Covers
    <3>2. selected'[p] \ left'[p] = done \cup {t}
      BY <1>2
    <3> HIDE DEF done
    <3> QED
      BY <1>1, <1>2, <1>5, <2>1, <2>4, <3>1, <3>2 DEF GreenInv, Active
  <2>6. GreenLeavesFile'
    BY <1>1, <1>5, <2>1 DEF GreenLeavesFile
  <2> QED
    BY <1>4, <1>6, <2>2, <2>5, <2>6 DEF VerdictInv
<1>8. CASE CollectRaises(p, t)
  <2>1. pc'[p] = "idle" /\ exit'[p] = "1"
    BY <1>8 DEF CollectRaises, Set, SoloInv, CycleInv, TypeOK
  <2>2. LiveInv' /\ GreenInv' /\ GreenLeavesFile'
    BY <1>1, <2>1 DEF LiveInv, GreenInv, GreenLeavesFile, Active
  <2> QED
    BY <1>4, <1>6, <2>2 DEF VerdictInv
<1> QED
  BY <1>7, <1>8

LEMMA CloseVerdict ==
  ASSUME Solo, SoloInv, NEW p \in Procs, Close(p)
  PROVE  VerdictInv'
<1> DEFINE s == stamp[p]
           n == Len(files[s])
           had == selected[p] \ blank[p]
<1>1. \A q \in Procs : q = p
  BY DEF Solo
<1>2. /\ pc[p] = "running" /\ left[p] = {} /\ pc'[p] = "closed"
      /\ files' = [files EXCEPT ![s] = Append(@, EndTag)]
      /\ UNCHANGED <<clock, stamp, rerun, selected, left, known, green, exit, blank, last,
                     exempted>>
  BY DEF Close, Set, SoloInv, CycleInv, TypeOK
<1>3. /\ s \in Stamps /\ s \in Existing /\ n \in Nat /\ Existing' = Existing
      /\ Len(files'[s]) = n + 1 /\ files'[s][n + 1] = EndTag /\ files'[s] \in Seq(Entry)
      /\ \A i \in 1 .. n : files'[s][i] = files[s][i]
  BY <1>2, AppendFacts, OwnFile DEF SoloInv
<1>4. \A i \in 1 .. n : files[s][i] # EndTag
  BY <1>2 DEF SoloInv, VerdictInv, LiveInv
<1>5. HonestInv'
  <2> SUFFICES ASSUME NEW u \in Existing', \A v \in Existing' : v <= u
               PROVE  Honest(files[u])'
    BY DEF HonestInv
  <2>1. u = s
    BY <1>2, <1>3, OwnIsLatest DEF Active
  <2>2. Honest(files[s])
    <3>1. \A v \in Existing : v <= s
      BY <2>1, <1>3
    <3> QED
      BY <3>1, <1>3 DEF SoloInv, VerdictInv, HonestInv
  <2>3. EndTag.result \notin {"PASS", "SKIP"}
    BY DEF EndTag
  <2> QED
    BY <2>1, <2>2, <2>3, <1>2, <1>3 DEF Honest
<1>6. exit[p] # "0"
  BY <1>2 DEF SoloInv, VerdictInv, GreenInv, Active
<1>7. green[p] => Complete(files[s], selected[p] \ blank[p])'
  <2> SUFFICES ASSUME green[p] PROVE Complete(files'[s], had)
    BY <1>2 DEF Complete, Closed
  <2>1. n = Cardinality(had) /\ {files[s][i].name : i \in 1 .. n} = had
    <3>1. (selected[p] \ left[p]) \ blank[p] = had
      BY <1>2
    <3>2. Covers(files[s], (selected[p] \ left[p]) \ blank[p])
      BY <1>2 DEF SoloInv, VerdictInv, GreenInv
    <3>3. Covers(files[s], had)
      BY <3>1, <3>2, Zenon
    <3> HIDE DEF had
    <3> QED
      BY <3>3 DEF Covers
  <2>2. Closed(files'[s])
    <3>1. DOMAIN files'[s] = 1 .. n + 1 /\ files'[s] # <<>>
      BY <1>3, LenProperties, EmptySeq
    <3> QED
      BY <3>1, <1>3, <1>4 DEF Closed
  <2> HIDE DEF had
  <2>3. {files'[s][i].name : i \in 1 .. n} = had
    BY <2>1, <1>3
  <2>4. Len(files'[s]) = Cardinality(had) + 1 /\ Len(files'[s]) - 1 = n
    BY <2>1, <1>3
  <2> QED
    BY <2>2, <2>3, <2>4 DEF Complete
<1>8. LiveInv'
  BY <1>1, <1>2 DEF SoloInv, VerdictInv, LiveInv, Active
<1>9. GreenInv'
  BY <1>1, <1>2, <1>6, <1>7 DEF SoloInv, VerdictInv, GreenInv, Active, Earned
<1>10. RerunHidesNoFailure' /\ GreenLeavesFile'
  BY <1>1, <1>2, <1>6 DEF SoloInv, VerdictInv, RerunHidesNoFailure, GreenLeavesFile
<1> QED
  BY <1>5, <1>8, <1>9, <1>10 DEF VerdictInv

LEMMA NextSoloInv == Solo /\ SoloInv /\ [Next]_vars => SoloInv'
<1> SUFFICES ASSUME Solo, SoloInv, [Next]_vars PROVE VerdictInv'
  BY NextCycleInv DEF SoloInv
<1>1. CASE Next
  BY <1>1, BeginVerdict, LoadVerdict, CreateVerdict, CollectVerdict, CollectBlankVerdict,
     CloseVerdict, EndVerdict DEF Next
<1>2. CASE UNCHANGED vars
  <2>1. UNCHANGED <<clock, files, pc, stamp, rerun, selected, known, left, green, exit, blank,
                    last, exempted>>
    BY <1>2 DEF vars, procVars
  <2>2. HonestInv' /\ LiveInv'
    BY <2>1 DEF SoloInv, VerdictInv, HonestInv, Honest, LiveInv, Existing, Active
  <2>3. GreenInv'
    BY <2>1 DEF SoloInv, VerdictInv, GreenInv, Earned, Active
  <2>4. RerunHidesNoFailure' /\ GreenLeavesFile'
    BY <2>1 DEF SoloInv, VerdictInv, RerunHidesNoFailure, GreenLeavesFile
  <2> QED
    BY <2>2, <2>3, <2>4 DEF VerdictInv
<1> QED
  BY <1>1, <1>2

\* Successive runs of test.py, complete, killed or interrupted, whatever the XML files of
\* their suites say, within the same second or not, keep what the latest file says true.
THEOREM SoloInvInvariant == ASSUME Solo PROVE Spec => []SoloInv
<1>1. Init => SoloInv
  BY InitCycleInv, InitVerdictInv DEF SoloInv
<1>2. SoloInv /\ [Next]_vars => SoloInv'
  BY NextSoloInv
<1> QED
  BY <1>1, <1>2, PTL DEF Spec

\* --rerun-failed hides no failure but that of a suite whose own XML file said PASS.
THEOREM RerunSound == ASSUME Solo PROVE Spec => []RerunHidesNoFailure
<1>1. SoloInv => RerunHidesNoFailure
  BY DEF SoloInv, VerdictInv
<1> QED
  BY SoloInvInvariant, <1>1, PTL

\* An exit code of 0 is earned by every selected test, but for what --rerun-failed left
\* out because its own XML file had said PASS.
THEOREM GreenSound == ASSUME Solo PROVE Spec => []GreenIsEarned
<1>1. SoloInv => GreenIsEarned
  BY DEF SoloInv, VerdictInv, GreenInv, Earned, GreenIsEarned
<1> QED
  BY SoloInvInvariant, <1>1, PTL

\* After an exit code of 0 the next --rerun-failed finds a closed file with
\* one piece for each test but the suites that wrote none.
THEOREM GreenReadable == ASSUME Solo PROVE Spec => []GreenLeavesFile
<1>1. SoloInv => GreenLeavesFile
  BY DEF SoloInv, VerdictInv
<1> QED
  BY SoloInvInvariant, <1>1, PTL
=============================================================================
