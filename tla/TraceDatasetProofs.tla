-------------------------- MODULE TraceDatasetProofs --------------------------
(***************************************************************************)
(* Proofs about TraceDataset: whatever the trace files hold, however many  *)
(* simulations there are and wherever a converter is killed, the rows of   *)
(* the dataset are exact, and all there once it is written to the end.     *)
(***************************************************************************)
EXTENDS TraceDataset, FiniteSetTheorems, TLAPS

----------------------------------------------------------------------------
(* Packets and their rows.                                                 *)

Keys == (1 .. 10) \X Windows

\* The packet is one that the converter counts.
Counts(p) == p.ip /\ p.proto \in {"udp", "tcp"}

\* The label of a packet is that of its destination port, or else of its source port.
LEMMA Labels ==
  ASSUME NEW p
  PROVE  /\ Label(p) \subseteq 1 .. 10
         /\ \A l \in 1 .. 10 : l \in Label(p) <=>
              p.dport = 9000 + l \/ (p.sport = 9000 + l /\ p.dport \notin 9001 .. 9010)
<1> DEFINE Port(q) == q \in 9001 .. 9010
           L(q) == IF Port(q) THEN {q - 9000} ELSE {}
<1>1. \A q : L(q) \subseteq 1 .. 10 /\ \A l \in 1 .. 10 : l \in L(q) <=> q = 9000 + l
  OBVIOUS
<1>2. DOMAIN PORT_TO_LABEL = 9001 .. 9010 /\ \A q \in 9001 .. 9010 : PORT_TO_LABEL[q] = q - 9000
  BY DEF PORT_TO_LABEL
<1>3. CASE Port(p.dport)
  <2>1. Label(p) = {PORT_TO_LABEL[p.dport]}
    BY <1>2, <1>3 DEF Label
  <2>2. Label(p) = L(p.dport)
    BY <1>2, <1>3, <2>1
  <2> HIDE DEF L
  <2> QED
    BY <1>1, <1>3, <2>2
<1>4. CASE ~Port(p.dport)
  <2>1. Label(p) = L(p.sport)
    <3>1. CASE Port(p.sport)
      <4>1. {p.sport} \cap DOMAIN PORT_TO_LABEL = {p.sport}
        <5>1. p.sport \in DOMAIN PORT_TO_LABEL
          BY <1>2, <3>1
        <5> QED
          BY <5>1, Zenon
      <4>2. Label(p) = {PORT_TO_LABEL[q] : q \in {p.sport}}
        BY <1>2, <1>4, <4>1 DEF Label
      <4> QED
        BY <1>2, <3>1, <4>2
    <3>2. CASE ~Port(p.sport)
      BY <1>2, <1>4, <3>2 DEF Label
    <3> QED
      BY <3>1, <3>2
  <2>2. \A l \in 1 .. 10 : p.dport # 9000 + l
    BY <1>1, <1>4
  <2> QED
    BY <1>1, <1>4, <2>1, <2>2
<1> QED
  BY <1>3, <1>4

\* A packet belongs to the rows whose label and window are its own.
LEMMA KeysOfPacket ==
  ASSUME NEW p \in Packets
  PROVE  /\ KeysOf(p) \subseteq Keys
         /\ \A k \in Keys : k \in KeysOf(p) <=>
              /\ p.time \div CHUNK_SIZE = k[2]
              /\ p.dport = 9000 + k[1] \/ (p.sport = 9000 + k[1] /\ p.dport \notin 9001 .. 9010)
<1>1. p.time \div CHUNK_SIZE \in Windows
  BY DEF Windows
<1>2. KeysOf(p) \subseteq Keys
  BY <1>1, Labels DEF KeysOf, Keys
<1>3. ASSUME NEW k \in Keys
      PROVE  k \in KeysOf(p) <=> k[1] \in Label(p) /\ p.time \div CHUNK_SIZE = k[2]
  BY DEF KeysOf, Keys
<1> QED
  BY <1>2, <1>3, Labels DEF Keys

\* The packets of a row are among those of the file.
LEMMA BelongingFacts ==
  ASSUME NEW f \in DOMAIN traces, traces[f] \in Seq(Packets)
  PROVE  \A k \in Keys :
           Belonging(f, k[1], k[2]) =
             {i \in 1 .. Len(traces[f]) : Counts(traces[f][i]) /\ k \in KeysOf(traces[f][i])}
<1>1. DOMAIN traces[f] = 1 .. Len(traces[f]) /\ \A i \in 1 .. Len(traces[f]) : traces[f][i] \in Packets
  OBVIOUS
<1> QED
  BY <1>1, KeysOfPacket DEF Belonging, Counts

\* One packet more.
LEMMA PassedStep ==
  ASSUME NEW f \in DOMAIN traces, traces[f] \in Seq(Packets), NEW m \in 1 .. Len(traces[f]), NEW k \in Keys
  PROVE  /\ m \notin Passed(f, k, m - 1)
         /\ Passed(f, k, m) = Passed(f, k, m - 1)
              \cup (IF Counts(traces[f][m]) /\ k \in KeysOf(traces[f][m]) THEN {m} ELSE {})
<1> DEFINE In(i) == Counts(traces[f][i]) /\ k \in KeysOf(traces[f][i])
<1>1. Belonging(f, k[1], k[2]) = {i \in 1 .. Len(traces[f]) : In(i)}
  BY BelongingFacts
<1> HIDE DEF In
<1>2. /\ Passed(f, k, m) = {i \in 1 .. m : In(i)}
      /\ Passed(f, k, m - 1) = {i \in 1 .. m - 1 : In(i)}
  BY <1>1 DEF Passed
<1>3. m \notin Passed(f, k, m - 1) /\ Passed(f, k, m) = Passed(f, k, m - 1) \cup (IF In(m) THEN {m} ELSE {})
  BY <1>2
<1> QED
  BY <1>3 DEF In

\* Counts are those of finite sets.
LEMMA PassedFacts ==
  ASSUME NEW f \in DOMAIN traces, traces[f] \in Seq(Packets), NEW m \in 0 .. Len(traces[f]), NEW k \in Keys
  PROVE  LET all == Passed(f, k, m)
         IN /\ IsFiniteSet(all)
            /\ all # {} => Counted(f, all) \in [all : 1 .. m, tcp : Nat]
            /\ Counted(f, all).tcp <= Counted(f, all).all
<1> DEFINE all == Passed(f, k, m)
           tcp == {i \in all : traces[f][i].proto = "tcp"}
<1>1. all \subseteq 1 .. m
  BY BelongingFacts DEF Passed
<1>2. IsFiniteSet(1 .. m) /\ Cardinality(1 .. m) = m
  BY FS_Interval
<1>3. IsFiniteSet(all) /\ Cardinality(all) <= m
  BY <1>1, <1>2, FS_Subset
<1>4. IsFiniteSet(tcp) /\ Cardinality(tcp) <= Cardinality(all)
  BY <1>3, FS_Subset
<1>5. Cardinality(all) \in Nat /\ Cardinality(tcp) \in Nat
  BY <1>3, <1>4, FS_CardinalityType
<1>6. all # {} => Cardinality(all) # 0
  BY <1>3, FS_EmptySet
<1>7. Counted(f, all) = [all |-> Cardinality(all), tcp |-> Cardinality(tcp)]
  BY DEF Counted
<1> HIDE DEF all, tcp
<1>8. all # {} => Cardinality(all) \in 1 .. m
  BY <1>3, <1>5, <1>6
<1>9. /\ all # {} => Counted(f, all) \in [all : 1 .. m, tcp : Nat]
      /\ Counted(f, all).tcp <= Counted(f, all).all
  BY <1>4, <1>5, <1>7, <1>8
<1> QED
  BY <1>3, <1>9 DEF all

\* No packet counts for nothing; one more counts for one more.
LEMMA CountedFacts ==
  ASSUME NEW f
  PROVE  /\ Counted(f, {}) = [all |-> 0, tcp |-> 0]
         /\ \A S, m : IsFiniteSet(S) /\ m \notin S =>
              Counted(f, S \cup {m}) =
                [all |-> Counted(f, S).all + 1,
                 tcp |-> Counted(f, S).tcp + IF traces[f][m].proto = "tcp" THEN 1 ELSE 0]
<1>1. Counted(f, {}) = [all |-> 0, tcp |-> 0]
  <2>1. {i \in {} : traces[f][i].proto = "tcp"} = {}
    OBVIOUS
  <2> QED
    BY <2>1, FS_EmptySet DEF Counted
<1>2. ASSUME NEW S, NEW m, IsFiniteSet(S), m \notin S
      PROVE  Counted(f, S \cup {m}) =
                [all |-> Counted(f, S).all + 1,
                 tcp |-> Counted(f, S).tcp + IF traces[f][m].proto = "tcp" THEN 1 ELSE 0]
  <2> DEFINE T(U) == {i \in U : traces[f][i].proto = "tcp"}
  <2>1. IsFiniteSet(T(S)) /\ Cardinality(T(S)) \in Nat
    BY <1>2, FS_Subset, FS_CardinalityType
  <2>2. Cardinality(S \cup {m}) = Cardinality(S) + 1
    BY <1>2, FS_AddElement
  <2>3. Cardinality(T(S \cup {m})) = Cardinality(T(S)) + IF traces[f][m].proto = "tcp" THEN 1 ELSE 0
    <3>1. CASE traces[f][m].proto = "tcp"
      <4>1. T(S \cup {m}) = T(S) \cup {m} /\ m \notin T(S)
        BY <1>2, <3>1
      <4> HIDE DEF T
      <4>2. Cardinality(T(S) \cup {m}) = Cardinality(T(S)) + 1
        BY <2>1, <4>1, FS_AddElement
      <4> QED
        BY <3>1, <4>1, <4>2
    <3>2. CASE traces[f][m].proto # "tcp"
      <4>1. T(S \cup {m}) = T(S)
        BY <3>2
      <4> HIDE DEF T
      <4> QED
        BY <2>1, <3>2, <4>1
    <3> QED
      BY <3>1, <3>2
  <2>4. \A U : Counted(f, U) = [all |-> Cardinality(U), tcp |-> Cardinality(T(U))]
    BY DEF Counted
  <2> HIDE DEF T
  <2> QED
    BY <2>2, <2>3, <2>4
<1> QED
  BY <1>1, <1>2

----------------------------------------------------------------------------
(* The dictionary of a file.                                               *)

\* Before the first packet it is empty.
LEMMA TallyStart ==
  ASSUME NEW f \in DOMAIN traces, traces[f] \in Seq(Packets)
  PROVE  Tally(f, 0) = NoFlows
<1>1. \A k \in Keys : Passed(f, k, 0) = {}
  BY BelongingFacts DEF Passed
<1>2. {k \in Keys : Passed(f, k, 0) # {}} = {}
  BY <1>1
<1> QED
  BY <1>2 DEF Tally, NoFlows, Keys

\* A packet that is counted is added to the row of its label and window; any other
\* packet changes nothing.
LEMMA TallyStep ==
  ASSUME NEW f \in DOMAIN traces, traces[f] \in Seq(Packets), NEW m \in 1 .. Len(traces[f])
  PROVE  Tally(f, m) = IF Counts(traces[f][m]) THEN Added(Tally(f, m - 1), traces[f][m]) ELSE Tally(f, m - 1)
<1> DEFINE p == traces[f][m]
           D(n) == {k \in Keys : Passed(f, k, n) # {}}
           new == [all |-> 0, tcp |-> 0]
<1>1. p \in Packets /\ m - 1 \in 0 .. Len(traces[f])
  OBVIOUS
<1>2. \A n : Tally(f, n) = [k \in D(n) |-> Counted(f, Passed(f, k, n))]
  BY DEF Tally, Keys
<1>3. \A k \in Keys :
        /\ m \notin Passed(f, k, m - 1)
        /\ Passed(f, k, m) = Passed(f, k, m - 1) \cup (IF Counts(p) /\ k \in KeysOf(p) THEN {m} ELSE {})
  BY PassedStep
<1>4. KeysOf(p) \subseteq Keys
  BY <1>1, KeysOfPacket
<1>5. \A k \in Keys : IsFiniteSet(Passed(f, k, m - 1))
  BY <1>1, PassedFacts
<1> HIDE DEF p
<1>6. CASE ~Counts(p)
  <2>1. \A k \in Keys : Passed(f, k, m) = Passed(f, k, m - 1)
    BY <1>3, <1>6
  <2>2. D(m) = D(m - 1)
    BY <2>1
  <2>3. \A k \in D(m) : Counted(f, Passed(f, k, m)) = Counted(f, Passed(f, k, m - 1))
    BY <2>1
  <2> HIDE DEF D
  <2>4. Tally(f, m) = Tally(f, m - 1)
    BY <1>2, <2>2, <2>3
  <2> QED
    BY <1>6, <2>4 DEF p
<1>7. CASE Counts(p)
  <2>1. D(m) = D(m - 1) \cup KeysOf(p)
    BY <1>3, <1>4, <1>7
  <2> DEFINE old(k) == IF k \in D(m - 1) THEN Counted(f, Passed(f, k, m - 1)) ELSE new
             v(k) == IF k \notin KeysOf(p) THEN old(k)
                     ELSE [all |-> old(k).all + 1, tcp |-> old(k).tcp + IF p.proto = "tcp" THEN 1 ELSE 0]
  <2>2. \A k \in Keys : old(k) = Counted(f, Passed(f, k, m - 1))
    <3>1. \A k \in Keys : k \notin D(m - 1) => Passed(f, k, m - 1) = {}
      OBVIOUS
    <3> QED
      BY <3>1, CountedFacts
  <2>3. D(m) \subseteq Keys
    OBVIOUS
  <2>4. Added(Tally(f, m - 1), p) = [k \in D(m) |-> v(k)]
    BY <1>2, <2>1 DEF Added
  <2> HIDE DEF D, old, new
  <2>5. ASSUME NEW k \in D(m)
        PROVE  v(k) = Counted(f, Passed(f, k, m))
    <3>1. CASE k \in KeysOf(p)
      <4>1. Passed(f, k, m) = Passed(f, k, m - 1) \cup {m} /\ m \notin Passed(f, k, m - 1)
        BY <1>3, <1>7, <2>3, <3>1
      <4>2. Counted(f, Passed(f, k, m)) =
              [all |-> Counted(f, Passed(f, k, m - 1)).all + 1,
               tcp |-> Counted(f, Passed(f, k, m - 1)).tcp + IF p.proto = "tcp" THEN 1 ELSE 0]
        BY <1>5, <2>3, <4>1, CountedFacts DEF p
      <4> QED
        BY <2>2, <2>3, <3>1, <4>2
    <3>2. CASE k \notin KeysOf(p)
      <4>1. Passed(f, k, m) = Passed(f, k, m - 1)
        BY <1>3, <2>3, <3>2
      <4> QED
        BY <2>2, <2>3, <3>2, <4>1
    <3> QED
      BY <3>1, <3>2
  <2> HIDE DEF v
  <2>6. Tally(f, m) = Added(Tally(f, m - 1), p)
    BY <1>2, <2>4, <2>5
  <2> QED
    BY <1>7, <2>6 DEF p
<1> QED
  BY <1>6, <1>7

\* The keys are labels and windows, and the counts are not above the packets read.
LEMMA TallyType ==
  ASSUME NEW f \in DOMAIN traces, traces[f] \in Seq(Packets), NEW m \in 0 .. Len(traces[f])
  PROVE  /\ DOMAIN Tally(f, m) = {k \in Keys : Passed(f, k, m) # {}}
         /\ \A k \in DOMAIN Tally(f, m) :
              /\ Tally(f, m)[k] = Counted(f, Passed(f, k, m))
              /\ Tally(f, m)[k].all \in 1 .. m /\ Tally(f, m)[k].tcp \in 0 .. Tally(f, m)[k].all
<1>1. Tally(f, m) = [k \in {k \in Keys : Passed(f, k, m) # {}} |-> Counted(f, Passed(f, k, m))]
  BY DEF Tally, Keys
<1>2. ASSUME NEW k \in Keys, Passed(f, k, m) # {}
      PROVE  LET c == Counted(f, Passed(f, k, m)) IN c.all \in 1 .. m /\ c.tcp \in 0 .. c.all
  BY <1>2, PassedFacts
<1> QED
  BY <1>1, <1>2

----------------------------------------------------------------------------
(* The rows of the dataset.                                                *)

\* The row that a file, a label, a window and two counts make.
RowAt(f, k, c) == [file |-> f, label |-> k[1], chunk |-> k[2], all |-> c.all, tcp |-> c.tcp]

\* What is expected are the rows of the readable files, one for each label and window
\* with a packet.
LEMMA ExpectedRows ==
  ASSUME \A f \in DOMAIN traces : traces[f] \in Seq(Packets)
  PROVE  Expected = UNION {{RowAt(f, k, Tally(f, Len(traces[f]))[k]) : k \in DOMAIN Tally(f, Len(traces[f]))} :
                             f \in DOMAIN traces \ broken}
<1> DEFINE B(f, k) == Belonging(f, k[1], k[2])
           K(f) == {k \in Keys : B(f, k) # {}}
           R(f) == {RowAt(f, k, Counted(f, B(f, k))) : k \in K(f)}
<1>1. ASSUME NEW f \in DOMAIN traces
      PROVE  /\ \A k \in Keys : Passed(f, k, Len(traces[f])) = B(f, k)
             /\ Len(traces[f]) \in 0 .. Len(traces[f]) /\ traces[f] \in Seq(Packets)
  <2>1. traces[f] \in Seq(Packets) /\ Len(traces[f]) \in Nat
    OBVIOUS
  <2> QED
    BY <2>1, BelongingFacts DEF Passed
<1>2. ASSUME NEW f \in DOMAIN traces
      PROVE  {RowAt(f, k, Tally(f, Len(traces[f]))[k]) : k \in DOMAIN Tally(f, Len(traces[f]))} = R(f)
  <2> DEFINE m == Len(traces[f])
  <2>1. DOMAIN Tally(f, m) = {k \in Keys : Passed(f, k, m) # {}}
    BY <1>1, TallyType
  <2>2. DOMAIN Tally(f, m) = K(f)
    BY <1>1, <2>1
  <2>3. \A k \in DOMAIN Tally(f, m) : Tally(f, m)[k] = Counted(f, Passed(f, k, m))
    BY <1>1, TallyType
  <2>4. \A k \in K(f) : Tally(f, m)[k] = Counted(f, B(f, k))
    BY <1>1, <2>2, <2>3
  <2> HIDE DEF K, B, m
  <2> QED
    BY <2>2, <2>4 DEF m
<1>3. Expected = {Exact(x[1], x[2], x[3]) : x \in {x \in (DOMAIN traces \ broken) \X (1 .. 10) \X Windows :
                                                     Belonging(x[1], x[2], x[3]) # {}}}
  BY DEF Expected
<1>4. \A f, l, c : Exact(f, l, c) = RowAt(f, <<l, c>>, Counted(f, B(f, <<l, c>>)))
  BY DEF Exact, RowAt, Counted
<1>5. ASSUME NEW r \in Expected
      PROVE  \E f \in DOMAIN traces \ broken : r \in R(f)
  <2>1. PICK x \in (DOMAIN traces \ broken) \X (1 .. 10) \X Windows :
          Belonging(x[1], x[2], x[3]) # {} /\ r = Exact(x[1], x[2], x[3])
    BY <1>3
  <2>2. <<x[2], x[3]>> \in K(x[1]) /\ x[1] \in DOMAIN traces \ broken
    BY <2>1 DEF Keys
  <2> QED
    BY <1>4, <2>1, <2>2
<1>6. ASSUME NEW f \in DOMAIN traces \ broken, NEW r \in R(f)
      PROVE  r \in Expected
  <2>1. PICK k \in K(f) : r = RowAt(f, k, Counted(f, B(f, k)))
    OBVIOUS
  <2> DEFINE x == <<f, k[1], k[2]>>
  <2>2. k = <<k[1], k[2]>> /\ x \in (DOMAIN traces \ broken) \X (1 .. 10) \X Windows
    BY DEF Keys
  <2>3. Belonging(x[1], x[2], x[3]) # {} /\ r = Exact(x[1], x[2], x[3])
    BY <1>4, <2>1, <2>2
  <2> QED
    BY <1>3, <2>2, <2>3
<1> HIDE DEF R
<1>7. Expected = UNION {R(f) : f \in DOMAIN traces \ broken}
  BY <1>5, <1>6
<1> QED
  BY <1>2, <1>7

\* They are rows of readable files.
LEMMA ExpectedType ==
  ASSUME \A f \in DOMAIN traces : traces[f] \in Seq(Packets), DOMAIN traces \subseteq Files
  PROVE  Expected \subseteq Row /\ \A r \in Expected : r.file \in DOMAIN traces \ broken
<1>1. Windows \subseteq Nat
  BY DatasetAssumption DEF Windows, CHUNK_SIZE
<1>2. ASSUME NEW f \in DOMAIN traces, NEW k \in DOMAIN Tally(f, Len(traces[f]))
      PROVE  LET r == RowAt(f, k, Tally(f, Len(traces[f]))[k]) IN r \in Row /\ r.file = f
  <2>1. traces[f] \in Seq(Packets) /\ Len(traces[f]) \in 0 .. Len(traces[f])
    OBVIOUS
  <2> DEFINE m == Len(traces[f])
             c == Tally(f, m)[k]
  <2>2. k \in Keys
    BY <2>1, TallyType
  <2>3. m \in Nat /\ c.all \in 1 .. m /\ c.tcp \in 0 .. c.all
    <3>1. \A j \in DOMAIN Tally(f, m) :
            Tally(f, m)[j].all \in 1 .. m /\ Tally(f, m)[j].tcp \in 0 .. Tally(f, m)[j].all
      BY <2>1, TallyType
    <3> QED
      BY <2>1, <3>1
  <2> HIDE DEF c, m
  <2>4. c.all \in Nat \ {0} /\ c.tcp \in Nat
    BY <2>3
  <2>5. LET r == RowAt(f, k, c) IN r \in Row /\ r.file = f
    BY <1>1, <2>2, <2>4 DEF RowAt, Row, Keys
  <2> QED
    BY <2>5 DEF c, m
<1> QED
  BY <1>2, ExpectedRows

\* The rows of one readable file are those of its dictionary after its last packet.
LEMMA RowsOfFile ==
  ASSUME \A f \in DOMAIN traces : traces[f] \in Seq(Packets), NEW f \in DOMAIN traces \ broken
  PROVE  {r \in Expected : r.file = f} =
           {RowAt(f, k, Tally(f, Len(traces[f]))[k]) : k \in DOMAIN Tally(f, Len(traces[f]))}
<1> DEFINE R(g) == {RowAt(g, k, Tally(g, Len(traces[g]))[k]) : k \in DOMAIN Tally(g, Len(traces[g]))}
<1>1. \A g : \A r \in R(g) : r.file = g
  BY DEF RowAt
<1>2. Expected = UNION {R(g) : g \in DOMAIN traces \ broken}
  BY ExpectedRows
<1> HIDE DEF R
<1>3. {r \in Expected : r.file = f} = R(f)
  BY <1>1, <1>2
<1> QED
  BY <1>3 DEF R

----------------------------------------------------------------------------
(* The invariant.                                                          *)

\* What the converter works on stays as it is while it works.
LEMMA ExpectedKept ==
  ASSUME UNCHANGED <<traces, broken>>
  PROVE  Expected' = Expected
BY DEF Expected, Exact, Belonging

LEMMA InitInv == Init => DatasetInv
<1> SUFFICES ASSUME Init PROVE DatasetInv
  OBVIOUS
<1>1. (CHOOSE f \in Files : TRUE) \in Files
  BY DatasetAssumption
<1>2. TypeOK
  BY <1>1, DatasetAssumption DEF Init, TypeOK, NoFlows
<1>3. ConverterInv
  BY DEF Init, ConverterInv
<1> QED
  BY <1>2, <1>3 DEF DatasetInv

\* Each step of the two scripts, and each simulation, keeps the invariant.
LEMMA SimulateInv == DatasetInv /\ Simulate => DatasetInv'
<1> SUFFICES ASSUME DatasetInv, Simulate PROVE DatasetInv'
  OBVIOUS
<1> USE DEF DatasetInv
<1>1. PICK fs \in SUBSET Files : \E bad \in SUBSET fs : traces' \in [fs -> SeqOf(Packets, MaxLength)] /\ broken' = bad
  BY DEF Simulate
<1>2. \A f \in fs : traces'[f] \in Seq(Packets) /\ Len(traces'[f]) <= MaxLength
  <2>1. \A s \in SeqOf(Packets, MaxLength) : s \in Seq(Packets) /\ Len(s) <= MaxLength
    BY DatasetAssumption DEF SeqOf
  <2> QED
    BY <1>1, <2>1
<1>3. todo = {} /\ pc = "idle"
  BY DEF Simulate, ConverterInv
<1>4. TypeOK'
  BY <1>1, <1>2, <1>3, DatasetAssumption DEF TypeOK, Simulate
<1>5. ConverterInv'
  BY <1>3 DEF Simulate, ConverterInv
<1> QED
  BY <1>4, <1>5

\* The rows of the converter's files, before and after it begins.
LEMMA GlobInv == DatasetInv /\ Glob => DatasetInv'
<1> SUFFICES ASSUME DatasetInv, Glob PROVE DatasetInv'
  OBVIOUS
<1> USE DEF DatasetInv
<1>1. TypeOK'
  BY DEF TypeOK, Glob
<1>2. Expected' = Expected /\ \A r \in Expected : r.file \in DOMAIN traces
  BY ExpectedKept, ExpectedType DEF TypeOK, Glob
<1>3. ConverterInv'
  BY <1>2 DEF ConverterInv, Pending, Glob
<1> QED
  BY <1>1, <1>3

\* A file that cannot be opened has no row.
LEMMA SkipFileInv == ASSUME NEW f \in Files, DatasetInv, SkipFile(f) PROVE DatasetInv'
<1> USE DEF DatasetInv
<1>1. TypeOK'
  BY DEF TypeOK, SkipFile
<1>2. Expected' = Expected /\ \A r \in Expected : r.file # f
  BY ExpectedKept, ExpectedType DEF TypeOK, SkipFile
<1>3. ConverterInv'
  BY <1>2 DEF ConverterInv, Pending, SkipFile
<1> QED
  BY <1>1, <1>3

\* The dictionary begins empty.
LEMMA OpenFileInv == ASSUME NEW f \in Files, DatasetInv, OpenFile(f) PROVE DatasetInv'
<1> USE DEF DatasetInv
<1>1. f \in DOMAIN traces \ broken /\ traces[f] \in Seq(Packets)
  BY DEF TypeOK, OpenFile
<1>2. TypeOK'
  BY DatasetAssumption DEF TypeOK, OpenFile, NoFlows
<1>3. Expected' = Expected
  BY ExpectedKept DEF OpenFile
<1>4. flows' = Tally(f, 0)
  BY <1>1, TallyStart DEF OpenFile
<1>5. Tally(file, pos - 1)' = Tally(f, 0)
  BY DEF Tally, Counted, Passed, Belonging, OpenFile
<1>6. /\ f \notin todo' /\ pos' <= Len(traces'[f]) + 1
      /\ pc' = "read" /\ file' = f /\ pos' = 1 /\ Pending' = Pending
  <2>1. Len(traces[f]) \in Nat
    BY <1>1
  <2> QED
    BY <2>1 DEF OpenFile, Pending
<1>7. ConverterInv'
  BY <1>1, <1>3, <1>4, <1>5, <1>6 DEF ConverterInv, OpenFile
<1> QED
  BY <1>2, <1>7

\* The dictionary counts one packet more.
LEMMA ReadPacketInv == DatasetInv /\ ReadPacket => DatasetInv'
<1> SUFFICES ASSUME DatasetInv, ReadPacket PROVE DatasetInv'
  OBVIOUS
<1> USE DEF DatasetInv
<1> DEFINE p == traces[file][pos]
<1>1. /\ file \in DOMAIN traces \ (broken \cup todo) /\ traces[file] \in Seq(Packets)
      /\ Len(traces[file]) <= MaxLength /\ pos \in 1 .. Len(traces[file]) /\ flows = Tally(file, pos - 1)
  <2>1. file \in DOMAIN traces \ (broken \cup todo) /\ flows = Tally(file, pos - 1)
    BY DEF ReadPacket, ConverterInv
  <2>2. traces[file] \in Seq(Packets) /\ Len(traces[file]) <= MaxLength
    BY <2>1 DEF TypeOK
  <2>3. pos \in 1 .. Len(traces[file])
    BY <2>2 DEF TypeOK, ReadPacket
  <2> QED
    BY <2>1, <2>2, <2>3
<1>2. p \in Packets /\ pos \in 0 .. Len(traces[file])
  BY <1>1
<1>3. Counts(p) <=> ~(~p.ip \/ p.proto = "icmp")
  BY <1>2, DatasetAssumption DEF Counts
<1>4. flows' = Tally(file, pos)
  <2>1. flows' = IF Counts(p) THEN Added(flows, p) ELSE flows
    BY <1>3 DEF ReadPacket
  <2>2. Tally(file, pos) = IF Counts(p) THEN Added(flows, p) ELSE flows
    BY <1>1, TallyStep
  <2> QED
    BY <2>1, <2>2
<1> HIDE DEF p
<1>5. Tally(file, pos - 1)' = Tally(file, pos)
  <2>1. traces' = traces /\ file' = file /\ pos' - 1 = pos
    BY <1>1 DEF ReadPacket
  <2>2. Tally(file, pos - 1)' = [k \in {k \in Keys : Passed(file, k, pos - 1)' # {}} |->
                                   Counted(file, Passed(file, k, pos - 1))']
    BY DEF Tally, Keys
  <2>3. ASSUME NEW k
        PROVE  Passed(file, k, pos - 1)' = Passed(file, k, pos)
    BY <2>1 DEF Passed, Belonging
  <2>4. ASSUME NEW k
        PROVE  Counted(file, Passed(file, k, pos - 1))' = Counted(file, Passed(file, k, pos))
    BY <2>1, <2>3 DEF Counted
  <2> QED
    BY <2>2, <2>3, <2>4 DEF Tally, Keys
<1>6. /\ DOMAIN flows' \subseteq (1 .. 10) \X Nat
      /\ \A k \in DOMAIN flows' : flows'[k].all \in 1 .. MaxLength /\ flows'[k].tcp \in 0 .. flows'[k].all
  <2>1. Keys \subseteq (1 .. 10) \X Nat
    BY DatasetAssumption DEF Keys, Windows, CHUNK_SIZE
  <2>2. DOMAIN flows' \subseteq Keys
    BY <1>1, <1>2, <1>4, TallyType
  <2>3. \A k \in DOMAIN flows' : flows'[k].all \in 1 .. pos /\ flows'[k].tcp \in 0 .. flows'[k].all
    BY <1>1, <1>2, <1>4, TallyType
  <2>4. 1 .. pos \subseteq 1 .. MaxLength
    BY <1>1, DatasetAssumption
  <2> QED
    BY <2>1, <2>2, <2>3, <2>4
<1>7. pos' \in 1 .. MaxLength + 1 /\ pos' <= Len(traces[file]) + 1
  BY <1>1, DatasetAssumption DEF ReadPacket
<1>8. TypeOK'
  BY <1>6, <1>7 DEF TypeOK, ReadPacket
<1>9. Expected' = Expected
  BY ExpectedKept DEF ReadPacket
<1>10. ConverterInv'
  BY <1>1, <1>4, <1>5, <1>7, <1>9 DEF ConverterInv, Pending, ReadPacket
<1> QED
  BY <1>8, <1>10

\* The rows of a file are those expected of it.
LEMMA AggregateInv == DatasetInv /\ Aggregate => DatasetInv'
<1> SUFFICES ASSUME DatasetInv, Aggregate PROVE DatasetInv'
  OBVIOUS
<1> USE DEF DatasetInv
<1>1. /\ file \in DOMAIN traces \ (broken \cup todo) /\ traces[file] \in Seq(Packets)
      /\ flows = Tally(file, Len(traces[file]))
  <2>1. file \in DOMAIN traces \ (broken \cup todo) /\ flows = Tally(file, pos - 1) /\ pos <= Len(traces[file]) + 1
    BY DEF Aggregate, ConverterInv
  <2>2. traces[file] \in Seq(Packets)
    BY <2>1 DEF TypeOK
  <2>3. pos - 1 = Len(traces[file])
    BY <2>1, <2>2 DEF TypeOK, Aggregate
  <2> QED
    BY <2>1, <2>2, <2>3
<1>2. Expected' = Expected
  BY ExpectedKept DEF Aggregate
<1>3. final_dataset' = final_dataset \cup {RowAt(file, k, flows[k]) : k \in DOMAIN flows}
  BY DEF Aggregate, RowAt
<1>4. {RowAt(file, k, flows[k]) : k \in DOMAIN flows} = {r \in Expected : r.file = file}
  BY <1>1, RowsOfFile DEF TypeOK
<1>5. final_dataset = {r \in Expected : r.file \notin todo \cup {file}}
  BY DEF ConverterInv, Pending, Aggregate
<1>6. final_dataset' = {r \in Expected : r.file \notin todo}
  BY <1>1, <1>3, <1>4, <1>5
<1>7. Expected \subseteq Row
  BY ExpectedType DEF TypeOK
<1>8. TypeOK'
  BY <1>6, <1>7 DEF TypeOK, Aggregate
<1>9. ConverterInv'
  BY <1>2, <1>6 DEF ConverterInv, Pending, Aggregate
<1> QED
  BY <1>8, <1>9

\* The end of the converter, whether it wrote the dataset or not, and the classifier.
LEMMA EndInv ==
  DatasetInv /\ (LeaveDataset \/ Truncate \/ Flush \/ Fill \/ Die \/ Train) => DatasetInv'
<1> SUFFICES ASSUME DatasetInv, LeaveDataset \/ Truncate \/ Flush \/ Fill \/ Die \/ Train
             PROVE  DatasetInv'
  OBVIOUS
<1> USE DEF DatasetInv
<1>1. CASE LeaveDataset
  BY <1>1, DatasetAssumption DEF LeaveDataset, Leave, TypeOK, ConverterInv, NoFlows
<1>2. CASE Truncate
  <2>1. Expected' = Expected
    BY <1>2, ExpectedKept DEF Truncate
  <2> QED
    BY <1>2, <2>1 DEF Truncate, TypeOK, ConverterInv, Pending
<1>3. CASE Fill
  BY <1>3, DatasetAssumption DEF Fill, Leave, TypeOK, ConverterInv, NoFlows
<1>6. CASE Flush
  <2>1. Expected' = Expected
    BY <1>6, ExpectedKept DEF Flush
  <2>2. /\ csv' \in {"header", "part"}
        /\ csv' = "header" => rows' = {}
        /\ rows' \subseteq final_dataset
    BY <1>6 DEF Flush, TypeOK, ConverterInv
  <2>3. /\ pc = "fill" /\ pc' = "fill"
        /\ UNCHANGED <<traces, broken, runs, todo, file, pos, flows, final_dataset, model>>
    BY <1>6 DEF Flush
  <2>4. TypeOK'
    <3>1. /\ rows' \subseteq Row
          /\ csv' \in {"missing", "empty", "header"} => rows' = {}
      BY <2>2 DEF TypeOK
    <3>2. csv' \in {"missing", "empty", "header", "part", "rows"}
      BY <2>2
    <3> QED
      BY <2>3, <3>1, <3>2 DEF TypeOK
  <2>5. ConverterInv'
    <3>1. Pending' = Pending
      BY <2>3 DEF Pending
    <3>2. todo = {} /\ final_dataset = {r \in Expected : r.file \notin Pending}
      BY <2>3 DEF ConverterInv
    <3>3. final_dataset' = {r \in Expected' : r.file \notin Pending'}
      BY <2>1, <2>3, <3>1, <3>2
    <3> QED
      BY <2>2, <2>3, <3>2, <3>3 DEF ConverterInv
  <2> QED
    BY <2>4, <2>5
<1>4. CASE Die
  BY <1>4, DatasetAssumption DEF Die, Leave, TypeOK, ConverterInv, NoFlows
<1>5. CASE Train
  <2>1. Expected' = Expected
    BY <1>5, ExpectedKept DEF Train
  <2>2. model' \in {"none", "refused", "raised", "trained"}
    BY <1>5 DEF Train, TypeOK
  <2>3. pc = "idle" /\ UNCHANGED <<traces, broken, runs, pc, todo, file, pos, flows, final_dataset, csv, rows>>
    BY <1>5 DEF Train
  <2>4. TypeOK'
    BY <2>2, <2>3 DEF TypeOK
  <2>5. ConverterInv'
    BY <2>3 DEF ConverterInv
  <2> QED
    BY <2>4, <2>5
<1> QED
  BY <1>1, <1>2, <1>3, <1>4, <1>5, <1>6

LEMMA StutterInv == DatasetInv /\ UNCHANGED vars => DatasetInv'
<1> SUFFICES ASSUME DatasetInv, UNCHANGED vars PROVE DatasetInv'
  OBVIOUS
<1>1. Expected' = Expected
  BY ExpectedKept DEF vars
<1>2. Tally(file, pos - 1)' = Tally(file, pos - 1)
  BY DEF vars, Tally, Counted, Passed, Belonging
<1>3. TypeOK'
  BY DEF DatasetInv, TypeOK, vars
<1>4. ConverterInv'
  BY <1>1, <1>2 DEF DatasetInv, ConverterInv, Pending, vars
<1> QED
  BY <1>3, <1>4 DEF DatasetInv

----------------------------------------------------------------------------
(* Theorems.                                                               *)

\* The inductive invariant: the dictionary counts the packets of the file at hand that
\* were read, and the rows collected are the exact rows of the files behind.
THEOREM DatasetInvariant == Spec => []DatasetInv
<1>1. DatasetInv /\ [Next]_vars => DatasetInv'
  BY SimulateInv, GlobInv, SkipFileInv, OpenFileInv, ReadPacketInv, AggregateInv, EndInv, StutterInv DEF Next
<1> QED
  BY <1>1, InitInv, PTL DEF Spec

\* Whenever the dataset changes its rows are exact, it has all of them once it is written
\* to the end, and a converter leaves an older one in place only if there is no row: for
\* any traces, any order of the files, and a kill at any moment of the writing.
THEOREM DatasetExactAlways == Spec => DatasetExact
<1> DEFINE A == /\ rows' # rows => rows' \subseteq Expected
                /\ csv' # csv /\ csv' = "rows" => rows' = Expected
                /\ pc = "fill" => rows \subseteq rows'
                /\ LeaveDataset => Expected = {}
<1>1. ASSUME DatasetInv, [Next]_vars
      PROVE  [A]_vars
  <2>1. Truncate \/ Flush \/ Fill \/ UNCHANGED <<csv, rows>>
    BY <1>1 DEF Next, vars, Simulate, Glob, ReadPacket, Aggregate, LeaveDataset, Die, Train,
       SkipFile, OpenFile
  <2>2. pc = "fill" => final_dataset = Expected /\ rows \subseteq final_dataset
    BY <1>1 DEF DatasetInv, ConverterInv, Pending
  <2>3. Truncate => rows' = {} /\ csv' = "empty" /\ pc = "open"
    BY DEF Truncate
  <2>4. Flush => /\ pc = "fill" /\ csv' \in {"header", "part"}
                 /\ rows \subseteq rows' /\ rows' \subseteq rows \cup final_dataset
    BY DEF Flush
  <2>5. Fill => pc = "fill" /\ rows' = rows \cup final_dataset
    BY DEF Fill
  <2>6. LeaveDataset => Expected = {}
    BY <1>1 DEF LeaveDataset, DatasetInv, ConverterInv, Pending
  <2> QED
    BY <2>1, <2>2, <2>3, <2>4, <2>5, <2>6
<1>2. DatasetInv /\ [Next]_vars => [A]_vars
  BY <1>1
<1>3. Spec => [][A]_vars
  BY <1>2, DatasetInvariant, PTL DEF Spec
<1> QED
  BY <1>3 DEF DatasetExact
=============================================================================
