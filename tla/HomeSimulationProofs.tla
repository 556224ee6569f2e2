------------------------ MODULE HomeSimulationProofs ------------------------
(***************************************************************************)
(* Proofs about HomeSimulation, and about the plots drawn from its CSV     *)
(* file: HomeInv is an invariant, from which the properties follow, for    *)
(* every number of clients and any plan they are enough for.               *)
(***************************************************************************)
EXTENDS PerformancePlots, FiniteSetTheorems, SequenceTheorems, WellFoundedInduction, TLAPS

----------------------------------------------------------------------------
(* The sum of the values of a function over a finite set, which the library *)
(* defines by recursion over the set: facts about it that need no recursion *)
(* to be used.                                                              *)

Sum(g, S) == SumFunctionOnSet(g, S)

----------------------------------------------------------------------------
(* Induction, for one set at a time.                                       *)

\* A set of naturals that is not empty has a least element.
LEMMA LeastNatural ==
  ASSUME NEW S \in SUBSET Nat, S # {}
  PROVE  \E m \in S : \A k \in S : m <= k
<1> DEFINE R == {ss \in Nat \X Nat : ss[1] < ss[2]}
<1>1. IsWellFoundedOn(R, Nat)
  BY NatLessThanWellFounded DEF OpToRel
<1>2. \E m \in S : \A k \in S : ~(<<k, m>> \in R)
  <2> HIDE DEF R
  <2> QED
    BY <1>1, WFMin
<1>3. \A k, m \in Nat : ~(<<k, m>> \in R) => m <= k
  OBVIOUS
<1> HIDE DEF R
<1> QED
  BY <1>2, <1>3

\* A set of subsets of a finite set that is not empty has a member none of whose
\* proper subsets is a member.
LEMMA SmallestSubset ==
  ASSUME NEW S, IsFiniteSet(S), NEW B \in SUBSET (SUBSET S), B # {}
  PROVE  \E T \in B : \A U \in SUBSET T : U # T => U \notin B
<1>1. \A T \in SUBSET S : IsFiniteSet(T) /\ Cardinality(T) \in Nat
  BY FS_Subset, FS_CardinalityType
<1> DEFINE C == {Cardinality(T) : T \in B}
<1>2. C \in SUBSET Nat /\ C # {}
  BY <1>1
<1>3. PICK m \in C : \A k \in C : m <= k
  <2> HIDE DEF C
  <2> QED
    BY <1>2, LeastNatural
<1>4. PICK T \in B : Cardinality(T) = m
  OBVIOUS
<1>5. ASSUME NEW U \in SUBSET T, U # T, U \in B PROVE FALSE
  <2>1. Cardinality(U) < Cardinality(T)
    BY <1>1, <1>5, FS_Subset
  <2>2. Cardinality(U) \in C
    BY <1>5
  <2> QED
    BY <1>1, <1>3, <1>4, <1>5, <2>1, <2>2
<1> QED
  BY <1>5

----------------------------------------------------------------------------
(* The recursion.                                                          *)

Pick(s) == CHOOSE x \in s : TRUE

\* h sums up g over the subsets that are in D.
Sums(h, g, D) == h = [s \in D |-> IF s = {} THEN 0 ELSE g[Pick(s)] + h[s \ {Pick(s)}]]

\* One function sums up g over all the subsets of a finite set.
LEMMA SumsExist ==
  ASSUME NEW S, IsFiniteSet(S), NEW g
  PROVE  \E h : Sums(h, g, SUBSET S)
<1> DEFINE H(n) == {s \in SUBSET S : Cardinality(s) <= n}
           Bad == {n \in Nat : ~\E h : Sums(h, g, H(n))}
<1>1. \A s \in SUBSET S : IsFiniteSet(s) /\ Cardinality(s) \in Nat
  BY FS_Subset, FS_CardinalityType
<1>2. Bad = {}
  <2> SUFFICES ASSUME Bad # {} PROVE FALSE
    OBVIOUS
  <2>1. PICK m \in Bad : \A k \in Bad : m <= k
    <3>1. Bad \in SUBSET Nat
      OBVIOUS
    <3> HIDE DEF Bad
    <3> QED
      BY <3>1, LeastNatural
  <2>2. m \in Nat /\ (m # 0 => \E h : Sums(h, g, H(m - 1)))
    <3>1. m \in Nat
      OBVIOUS
    <3>2. m # 0 => m - 1 \notin Bad /\ m - 1 \in Nat
      <4> HIDE DEF Bad
      <4> QED
        BY <2>1, <3>1
    <3> QED
      BY <3>1, <3>2
  <2>4. PICK f : m # 0 => Sums(f, g, H(m - 1))
    BY <2>2
  <2> DEFINE h == [s \in H(m) |-> IF s = {} THEN 0 ELSE g[Pick(s)] + f[s \ {Pick(s)}]]
  <2>5. ASSUME NEW s \in H(m), s # {}
        PROVE  m # 0 /\ s \ {Pick(s)} \in H(m - 1) /\ s \ {Pick(s)} \in H(m)
    <3>1. Pick(s) \in s
      BY <2>5 DEF Pick
    <3>2. Cardinality(s \ {Pick(s)}) = Cardinality(s) - 1 /\ s \ {Pick(s)} \in SUBSET S
      BY <1>1, <3>1, FS_RemoveElement
    <3> QED
      BY <1>1, <2>2, <3>2
  <2>6. ASSUME NEW s \in H(m), s # {} PROVE f[s \ {Pick(s)}] = h[s \ {Pick(s)}]
    <3> DEFINE t == s \ {Pick(s)}
    <3>1. m # 0 /\ t \in H(m - 1) /\ t \in H(m)
      BY <2>5, <2>6
    <3>2. f[t] = IF t = {} THEN 0 ELSE g[Pick(t)] + f[t \ {Pick(t)}]
      <4> HIDE DEF t, H
      <4> QED
        BY <2>4, <3>1 DEF Sums
    <3>3. h[t] = IF t = {} THEN 0 ELSE g[Pick(t)] + f[t \ {Pick(t)}]
      <4> HIDE DEF t, H
      <4> QED
        BY <3>1
    <3> QED
      BY <3>2, <3>3
  <2>7. Sums(h, g, H(m))
    <3>1. h = [s \in H(m) |-> IF s = {} THEN 0 ELSE g[Pick(s)] + h[s \ {Pick(s)}]]
      <4> HIDE DEF H
      <4>1. \A s \in H(m) : h[s] = IF s = {} THEN 0 ELSE g[Pick(s)] + h[s \ {Pick(s)}]
        <5>1. \A s \in H(m) : h[s] = IF s = {} THEN 0 ELSE g[Pick(s)] + f[s \ {Pick(s)}]
          OBVIOUS
        <5> HIDE DEF h
        <5> QED
          BY <5>1, <2>6
      <4>2. h = [s \in H(m) |-> h[s]]
        OBVIOUS
      <4> HIDE DEF h
      <4> QED
        BY <4>1, <4>2
    <3> HIDE DEF h, H
    <3> QED
      BY <3>1 DEF Sums
  <2> QED
    <3> HIDE DEF h, H
    <3> QED
      BY <2>7
<1>3. Cardinality(S) \in Nat /\ H(Cardinality(S)) = SUBSET S
  BY <1>1, FS_Subset
<1>4. \E h : Sums(h, g, H(Cardinality(S)))
  <2> HIDE DEF H
  <2> QED
    BY <1>2, <1>3
<1> QED
  <2> HIDE DEF H
  <2> QED
    BY <1>3, <1>4

----------------------------------------------------------------------------
(* The sum, element by element.                                            *)

\* The function whose value at S is the sum, at every subset of S.
LEMMA SumUnfold ==
  ASSUME NEW S, IsFiniteSet(S), NEW g
  PROVE  \E h : /\ Sum(g, S) = h[S]
                /\ Sums(h, g, SUBSET S)
<1> DEFINE h == CHOOSE h : Sums(h, g, SUBSET S)
<1>1. Sum(g, S) = h[S]
  BY DEF Sum, SumFunctionOnSet, FoldFunctionOnSet, MapThenFoldSet, Sums, Pick
<1>2. Sums(h, g, SUBSET S)
  BY SumsExist
<1> HIDE DEF h
<1> QED
  BY <1>1, <1>2

LEMMA SumEmpty ==
  ASSUME NEW g
  PROVE  Sum(g, {}) = 0
<1>1. IsFiniteSet({})
  BY FS_EmptySet
<1>2. PICK h : Sum(g, {}) = h[{}] /\ Sums(h, g, SUBSET {})
  BY <1>1, SumUnfold
<1> QED
  BY <1>2 DEF Sums

\* The set is taken apart at the element the recursion picks.
LEMMA SumPick ==
  ASSUME NEW S, IsFiniteSet(S), S # {}, NEW g
  PROVE  Pick(S) \in S /\ Sum(g, S) = g[Pick(S)] + Sum(g, S \ {Pick(S)})
<1>1. Pick(S) \in S
  BY DEF Pick
<1> DEFINE T == S \ {Pick(S)}
<1>2. T \in SUBSET S /\ IsFiniteSet(T)
  BY FS_Subset
<1>3. PICK h : Sum(g, S) = h[S] /\ \A s \in SUBSET S :
                 h[s] = IF s = {} THEN 0 ELSE g[Pick(s)] + h[s \ {Pick(s)}]
  <2>1. PICK h : Sum(g, S) = h[S] /\ Sums(h, g, SUBSET S)
    BY SumUnfold
  <2> QED
    BY <2>1 DEF Sums
<1>4. PICK k : Sum(g, T) = k[T] /\ \A s \in SUBSET T :
                 k[s] = IF s = {} THEN 0 ELSE g[Pick(s)] + k[s \ {Pick(s)}]
  <2> HIDE DEF T
  <2>1. PICK k : Sum(g, T) = k[T] /\ Sums(k, g, SUBSET T)
    BY <1>2, SumUnfold
  <2> QED
    BY <2>1 DEF Sums
<1>5. Sum(g, S) = g[Pick(S)] + h[T]
  BY <1>3
<1> DEFINE B == {s \in SUBSET T : k[s] # h[s]}
<1> HIDE DEF T
<1>6. ASSUME B # {} PROVE FALSE
  <2>1. B \in SUBSET (SUBSET T)
    OBVIOUS
  <2>2. PICK U \in B : \A V \in SUBSET U : V # U => V \notin B
    <3> HIDE DEF B
    <3> QED
      BY <1>2, <1>6, <2>1, SmallestSubset
  <2>3. U \in SUBSET T /\ U \in SUBSET S /\ k[U] # h[U]
    BY <1>2
  <2>4. U # {}
    BY <1>3, <1>4, <2>3
  <2> DEFINE V == U \ {Pick(U)}
  <2>5. V \in SUBSET U /\ V # U /\ V \in SUBSET T
    BY <2>3, <2>4 DEF Pick
  <2>6. k[V] = h[V]
    BY <2>2, <2>5
  <2> QED
    BY <1>3, <1>4, <2>3, <2>4, <2>6
<1>7. k[T] = h[T]
  BY <1>6
<1> QED
  BY <1>1, <1>4, <1>5, <1>7 DEF T

\* The sum of naturals is a natural.
LEMMA SumNatural ==
  ASSUME NEW S, IsFiniteSet(S), NEW g, \A x \in S : g[x] \in Nat
  PROVE  Sum(g, S) \in Nat
<1> DEFINE B == {T \in SUBSET S : Sum(g, T) \notin Nat}
<1>1. ASSUME B # {} PROVE FALSE
  <2>1. PICK T \in B : \A U \in SUBSET T : U # T => U \notin B
    <3>1. B \in SUBSET (SUBSET S)
      OBVIOUS
    <3> HIDE DEF B
    <3> QED
      BY <1>1, <3>1, SmallestSubset
  <2>2. T \in SUBSET S /\ IsFiniteSet(T) /\ Sum(g, T) \notin Nat
    BY FS_Subset
  <2>3. T # {}
    BY <2>2, SumEmpty
  <2>4. Pick(T) \in T /\ Sum(g, T) = g[Pick(T)] + Sum(g, T \ {Pick(T)})
    BY <2>2, <2>3, SumPick
  <2>5. Sum(g, T \ {Pick(T)}) \in Nat
    BY <2>1, <2>2, <2>4
  <2> QED
    BY <2>2, <2>4, <2>5
<1> QED
  BY <1>1

\* The order does not matter: any element may be taken out first.
LEMMA SumRemove ==
  ASSUME NEW S, IsFiniteSet(S), NEW g, \A x \in S : g[x] \in Nat, NEW e \in S
  PROVE  Sum(g, S) = g[e] + Sum(g, S \ {e})
<1> DEFINE B == {T \in SUBSET S : \E x \in T : Sum(g, T) # g[x] + Sum(g, T \ {x})}
<1>0. \A T \in SUBSET S : IsFiniteSet(T) /\ Sum(g, T) \in Nat
  BY FS_Subset, SumNatural
<1>1. ASSUME B # {} PROVE FALSE
  <2>1. PICK T \in B : \A U \in SUBSET T : U # T => U \notin B
    <3>1. B \in SUBSET (SUBSET S)
      OBVIOUS
    <3> HIDE DEF B
    <3> QED
      BY <1>1, <3>1, SmallestSubset
  <2>2. T \in SUBSET S /\ IsFiniteSet(T)
    BY <1>0
  <2>3. PICK x \in T : Sum(g, T) # g[x] + Sum(g, T \ {x})
    OBVIOUS
  <2> DEFINE p == Pick(T)
  <2>4. p \in T /\ Sum(g, T) = g[p] + Sum(g, T \ {p})
    BY <2>2, <2>3, SumPick
  <2>5. p # x
    BY <2>3, <2>4
  <2> HIDE DEF p
  <2>6. Sum(g, T \ {p}) = g[x] + Sum(g, (T \ {p}) \ {x})
    BY <2>1, <2>2, <2>3, <2>4, <2>5
  <2>7. Sum(g, T \ {x}) = g[p] + Sum(g, (T \ {x}) \ {p})
    BY <2>1, <2>2, <2>3, <2>4, <2>5
  <2> DEFINE R == (T \ {x}) \ {p}
  <2>8. (T \ {p}) \ {x} = R
    OBVIOUS
  <2>9. R \in SUBSET S /\ g[x] \in Nat /\ g[p] \in Nat
    BY <2>2, <2>3, <2>4
  <2> HIDE DEF R
  <2>10. Sum(g, R) \in Nat
    BY <1>0, <2>9
  <2>11. Sum(g, T) = g[p] + (g[x] + Sum(g, R)) /\ Sum(g, T \ {x}) = g[p] + Sum(g, R)
    BY <2>4, <2>6, <2>7, <2>8 DEF R
  <2> QED
    BY <2>3, <2>9, <2>10, <2>11
<1> QED
  BY <1>1

----------------------------------------------------------------------------
(* Comparing sums.                                                         *)

\* Only the values on the set matter.
LEMMA SumEqual ==
  ASSUME NEW S, IsFiniteSet(S), NEW g, NEW h, \A x \in S : g[x] = h[x]
  PROVE  Sum(g, S) = Sum(h, S)
<1> DEFINE B == {T \in SUBSET S : Sum(g, T) # Sum(h, T)}
<1>1. ASSUME B # {} PROVE FALSE
  <2>1. PICK T \in B : \A U \in SUBSET T : U # T => U \notin B
    <3>1. B \in SUBSET (SUBSET S)
      OBVIOUS
    <3> HIDE DEF B
    <3> QED
      BY <1>1, <3>1, SmallestSubset
  <2>2. T \in SUBSET S /\ IsFiniteSet(T) /\ Sum(g, T) # Sum(h, T)
    BY FS_Subset
  <2>3. T # {}
    BY <2>2, SumEmpty
  <2>4. /\ Pick(T) \in T
        /\ Sum(g, T) = g[Pick(T)] + Sum(g, T \ {Pick(T)})
        /\ Sum(h, T) = h[Pick(T)] + Sum(h, T \ {Pick(T)})
    BY <2>2, <2>3, SumPick
  <2>5. Sum(g, T \ {Pick(T)}) = Sum(h, T \ {Pick(T)})
    BY <2>1, <2>2, <2>4
  <2> QED
    BY <2>2, <2>4, <2>5
<1> QED
  BY <1>1

\* Two addends that stay below a third one do so in the sum.
LEMMA SumOfTwo ==
  ASSUME NEW S, IsFiniteSet(S), NEW a, NEW b, NEW c,
         \A x \in S : a[x] \in Nat /\ b[x] \in Nat /\ c[x] \in Nat /\ a[x] + b[x] <= c[x]
  PROVE  Sum(a, S) + Sum(b, S) <= Sum(c, S)
<1> DEFINE B == {T \in SUBSET S : ~(Sum(a, T) + Sum(b, T) <= Sum(c, T))}
<1>1. ASSUME B # {} PROVE FALSE
  <2>1. PICK T \in B : \A U \in SUBSET T : U # T => U \notin B
    <3>1. B \in SUBSET (SUBSET S)
      OBVIOUS
    <3> HIDE DEF B
    <3> QED
      BY <1>1, <3>1, SmallestSubset
  <2>2. T \in SUBSET S /\ IsFiniteSet(T) /\ ~(Sum(a, T) + Sum(b, T) <= Sum(c, T))
    BY FS_Subset
  <2>3. T # {}
    <3>1. Sum(a, {}) = 0 /\ Sum(b, {}) = 0 /\ Sum(c, {}) = 0
      BY SumEmpty
    <3>2. T = {} => Sum(a, T) + Sum(b, T) <= Sum(c, T)
      <4>1. 0 + 0 <= 0
        OBVIOUS
      <4> QED
        BY <3>1, <4>1
    <3> QED
      BY <2>2, <3>2
  <2> DEFINE p == Pick(T)
             R == T \ {p}
  <2>4. /\ p \in T
        /\ Sum(a, T) = a[p] + Sum(a, R)
        /\ Sum(b, T) = b[p] + Sum(b, R)
        /\ Sum(c, T) = c[p] + Sum(c, R)
    BY <2>2, <2>3, SumPick
  <2>5. R \in SUBSET S /\ IsFiniteSet(R) /\ R \in SUBSET T /\ R # T
    BY <2>2, <2>4, FS_Subset
  <2>6. Sum(a, R) + Sum(b, R) <= Sum(c, R)
    BY <2>1, <2>2, <2>5
  <2>7. a[p] \in Nat /\ b[p] \in Nat /\ c[p] \in Nat /\ a[p] + b[p] <= c[p]
    BY <2>2, <2>4
  <2> HIDE DEF p, R, B
  <2>8. Sum(a, R) \in Nat /\ Sum(b, R) \in Nat /\ Sum(c, R) \in Nat
    BY <2>5, SumNatural
  <2> QED
    BY <2>2, <2>4, <2>6, <2>7, <2>8
<1> QED
  BY <1>1

\* One addend.
LEMMA SumAtMost ==
  ASSUME NEW S, IsFiniteSet(S), NEW a, NEW c,
         \A x \in S : a[x] \in Nat /\ c[x] \in Nat /\ a[x] <= c[x]
  PROVE  Sum(a, S) <= Sum(c, S)
<1> DEFINE z == [x \in S |-> 0]
<1>1. \A x \in S : z[x] \in Nat /\ a[x] + z[x] <= c[x]
  OBVIOUS
<1> HIDE DEF z
<1>2. Sum(a, S) + Sum(z, S) <= Sum(c, S)
  BY <1>1, SumOfTwo
<1>3. Sum(a, S) \in Nat /\ Sum(z, S) \in Nat /\ Sum(c, S) \in Nat
  BY <1>1, SumNatural
<1> QED
  BY <1>2, <1>3

\* Nothing but zeros.
LEMMA SumZero ==
  ASSUME NEW S, IsFiniteSet(S), NEW g, \A x \in S : g[x] = 0
  PROVE  Sum(g, S) = 0
<1> DEFINE B == {T \in SUBSET S : Sum(g, T) # 0}
<1>1. ASSUME B # {} PROVE FALSE
  <2>1. PICK T \in B : \A U \in SUBSET T : U # T => U \notin B
    <3>1. B \in SUBSET (SUBSET S)
      OBVIOUS
    <3> HIDE DEF B
    <3> QED
      BY <1>1, <3>1, SmallestSubset
  <2>2. T \in SUBSET S /\ IsFiniteSet(T) /\ Sum(g, T) # 0
    BY FS_Subset
  <2>3. T # {}
    BY <2>2, SumEmpty
  <2>4. Pick(T) \in T /\ Sum(g, T) = g[Pick(T)] + Sum(g, T \ {Pick(T)})
    BY <2>2, <2>3, SumPick
  <2>5. Sum(g, T \ {Pick(T)}) = 0
    BY <2>1, <2>2, <2>4
  <2> QED
    BY <2>2, <2>4, <2>5
<1> QED
  BY <1>1

\* A sum over values of at most k.
LEMMA SumBound ==
  ASSUME NEW S, IsFiniteSet(S), NEW g, NEW k \in Nat, \A x \in S : g[x] \in Nat /\ g[x] <= k
  PROVE  Sum(g, S) <= k * Cardinality(S)
<1> DEFINE B == {T \in SUBSET S : ~(Sum(g, T) <= k * Cardinality(T))}
<1>1. ASSUME B # {} PROVE FALSE
  <2>1. PICK T \in B : \A U \in SUBSET T : U # T => U \notin B
    <3>1. B \in SUBSET (SUBSET S)
      OBVIOUS
    <3> HIDE DEF B
    <3> QED
      BY <1>1, <3>1, SmallestSubset
  <2>2. T \in SUBSET S /\ IsFiniteSet(T) /\ ~(Sum(g, T) <= k * Cardinality(T))
    BY FS_Subset
  <2>3. T # {}
    BY <2>2, SumEmpty, FS_EmptySet
  <2> DEFINE p == Pick(T)
             R == T \ {p}
  <2>4. p \in T /\ Sum(g, T) = g[p] + Sum(g, R)
    BY <2>2, <2>3, SumPick
  <2>5. R \in SUBSET S /\ IsFiniteSet(R) /\ R \in SUBSET T /\ R # T
    BY <2>2, <2>4, FS_Subset
  <2>6. Sum(g, R) <= k * Cardinality(R)
    BY <2>1, <2>2, <2>5
  <2>7. g[p] \in Nat /\ g[p] <= k
    BY <2>2, <2>4
  <2>8. Cardinality(R) = Cardinality(T) - 1 /\ Cardinality(R) \in Nat /\ Cardinality(T) \in Nat
    BY <2>2, <2>4, <2>5, FS_RemoveElement, FS_CardinalityType
  <2> HIDE DEF p, R, B
  <2>9. Sum(g, R) \in Nat
    BY <2>5, SumNatural
  <2>10. k * Cardinality(T) = k * Cardinality(R) + k
    BY <2>8
  <2> QED
    BY <2>2, <2>4, <2>6, <2>7, <2>8, <2>9, <2>10
<1> QED
  BY <1>1

----------------------------------------------------------------------------
(* Sums over parts.                                                        *)

\* Two parts.
LEMMA SumUnion ==
  ASSUME NEW S, IsFiniteSet(S), NEW T, IsFiniteSet(T), S \cap T = {},
         NEW g, \A x \in S \cup T : g[x] \in Nat
  PROVE  Sum(g, S \cup T) = Sum(g, S) + Sum(g, T)
<1> DEFINE B == {U \in SUBSET T : Sum(g, S \cup U) # Sum(g, S) + Sum(g, U)}
<1>1. \A U \in SUBSET T : /\ IsFiniteSet(U) /\ IsFiniteSet(S \cup U)
                          /\ Sum(g, U) \in Nat /\ Sum(g, S \cup U) \in Nat
  BY FS_Subset, FS_Union, SumNatural
<1>2. Sum(g, S) \in Nat
  BY SumNatural
<1>3. ASSUME B # {} PROVE FALSE
  <2>1. PICK U \in B : \A V \in SUBSET U : V # U => V \notin B
    <3>1. B \in SUBSET (SUBSET T)
      OBVIOUS
    <3> HIDE DEF B
    <3> QED
      BY <1>3, <3>1, SmallestSubset
  <2>2. U \in SUBSET T /\ Sum(g, S \cup U) # Sum(g, S) + Sum(g, U)
    OBVIOUS
  <2>3. PICK x \in U : TRUE
    <3>1. U = {} => Sum(g, S \cup U) = Sum(g, S) + Sum(g, U)
      <4>1. S \cup {} = S
        OBVIOUS
      <4> QED
        BY <4>1, <1>2, SumEmpty
    <3> QED
      BY <2>2, <3>1
  <2> DEFINE R == U \ {x}
  <2>4. R \in SUBSET T /\ R \in SUBSET U /\ R # U
    BY <2>2
  <2>5. Sum(g, S \cup R) = Sum(g, S) + Sum(g, R)
    BY <2>1, <2>4
  <2>6. Sum(g, U) = g[x] + Sum(g, R)
    BY <1>1, <2>2, SumRemove
  <2>7. Sum(g, S \cup U) = g[x] + Sum(g, S \cup R)
    <3>1. (S \cup U) \ {x} = S \cup R
      BY <2>2
    <3>2. Sum(g, S \cup U) = g[x] + Sum(g, (S \cup U) \ {x})
      BY <1>1, <2>2, SumRemove
    <3> QED
      BY <3>1, <3>2
  <2>8. Sum(g, R) \in Nat /\ g[x] \in Nat
    BY <1>1, <2>2, <2>4
  <2> HIDE DEF R, B
  <2> QED
    BY <1>2, <2>2, <2>5, <2>6, <2>7, <2>8
<1> QED
  BY <1>3

\* Any number of parts M[e] that have no element in common: G sums up the parts.
LEMMA SumParts ==
  ASSUME NEW E, IsFiniteSet(E), NEW D, IsFiniteSet(D),
         NEW M, \A e \in E : M[e] \in SUBSET D, \A d, e \in E : d # e => M[d] \cap M[e] = {},
         NEW g, \A x \in D : g[x] \in Nat,
         NEW G, \A e \in E : G[e] = Sum(g, M[e])
  PROVE  Sum(G, E) = Sum(g, UNION {M[e] : e \in E})
<1> DEFINE All(U) == UNION {M[e] : e \in U}
           B == {U \in SUBSET E : Sum(G, U) # Sum(g, All(U))}
<1>1. \A U \in SUBSET E : IsFiniteSet(U)
  BY FS_Subset
<1>2. ASSUME B # {} PROVE FALSE
  <2>1. PICK U \in B : \A V \in SUBSET U : V # U => V \notin B
    <3>1. B \in SUBSET (SUBSET E)
      OBVIOUS
    <3> HIDE DEF B
    <3> QED
      BY <1>2, <3>1, SmallestSubset
  <2>2. U \in SUBSET E /\ IsFiniteSet(U) /\ Sum(G, U) # Sum(g, All(U))
    BY <1>1
  <2>3. U # {}
    <3>1. All({}) = {}
      OBVIOUS
    <3> QED
      BY <2>2, <3>1, SumEmpty
  <2> DEFINE p == Pick(U)
             R == U \ {p}
  <2>4. p \in U /\ Sum(G, U) = G[p] + Sum(G, R)
    BY <2>2, <2>3, SumPick
  <2>5. R \in SUBSET U /\ R # U /\ R \in SUBSET E
    BY <2>2, <2>4
  <2> HIDE DEF p
  <2>6. All(U) = M[p] \cup All(R) /\ M[p] \cap All(R) = {}
    BY <2>2, <2>4
  <2>7. All(R) \in SUBSET D /\ M[p] \in SUBSET D
    BY <2>2, <2>4
  <2>8. Sum(G, R) = Sum(g, All(R))
    <3> HIDE DEF R, All
    <3> QED
      BY <2>1, <2>5
  <2> HIDE DEF R, All, B
  <2>9. IsFiniteSet(All(R)) /\ IsFiniteSet(M[p])
    BY <2>7, FS_Subset
  <2>10. Sum(g, M[p] \cup All(R)) = Sum(g, M[p]) + Sum(g, All(R))
    BY <2>6, <2>7, <2>9, SumUnion
  <2>11. G[p] = Sum(g, M[p])
    BY <2>2, <2>4
  <2> QED
    BY <2>2, <2>4, <2>6, <2>8, <2>10, <2>11
<1> QED
  BY <1>2

----------------------------------------------------------------------------
(* The applications.                                                       *)

\* Every application has one stream or two; a port stands for one application and
\* one transport.
LEMMA Streams ==
  ASSUME NEW t \in 1 .. K_TYPES
  PROVE  /\ Len(Applications[t]) \in {1, 2} /\ DOMAIN Applications[t] = 1 .. Len(Applications[t])
         /\ \A k \in DOMAIN Applications[t] :
              /\ Applications[t][k].port \in 9001 .. 9011
              /\ Applications[t][k].start \in {0, UpdateStart}
              /\ Applications[t][k].proto = Transport(Applications[t][k].port)
              /\ PORT_TO_APP_NAME[Applications[t][k].port] = t
<1> DEFINE Fine(app) ==
      /\ Len(app) \in {1, 2} /\ DOMAIN app = 1 .. Len(app)
      /\ \A k \in DOMAIN app : /\ app[k].port \in 9001 .. 9011 /\ app[k].start \in {0, UpdateStart}
                               /\ app[k].proto = Transport(app[k].port)
                               /\ PORT_TO_APP_NAME[app[k].port] = t
<1> USE DEF Transport, PORT_TO_APP_NAME, Up, Down, UpdateStart
<1>1. t = 1 => Fine(Camera)
  BY DEF Camera
<1>2. t = 2 => Fine(Sensor)
  BY DEF Sensor
<1>3. t = 3 => Fine(VoiceAssistant)
  BY DEF VoiceAssistant
<1>4. t = 4 => Fine(Download)
  BY DEF Download
<1>5. t = 5 => Fine(VoIP)
  BY DEF VoIP
<1>6. t = 6 => Fine(Domotics)
  BY DEF Domotics
<1>7. t = 7 => Fine(Streaming)
  BY DEF Streaming
<1>8. t = 8 => Fine(Doorbell)
  BY DEF Doorbell
<1>9. t = 9 => Fine(FirmwareUpdate)
  BY DEF FirmwareUpdate
<1>10. t = 10 => Fine(Monitoring)
  BY DEF Monitoring
<1> HIDE DEF Fine
<1>11. Fine(Applications[t])
  BY <1>1, <1>2, <1>3, <1>4, <1>5, <1>6, <1>7, <1>8, <1>9, <1>10 DEF Applications, K_TYPES
<1> QED
  BY <1>11 DEF Fine
----------------------------------------------------------------------------
(* The plan.                                                               *)

\* The types take the clients in order, each as many as it wants.
LEMMA ClientCounts ==
  /\ \A n \in 0 .. K_TYPES : Clients(n) \in Nat
  /\ Clients(0) = 0
  /\ \A t \in 1 .. K_TYPES : Clients(t) = Counts[t] + Clients(t - 1)
  /\ \A m, n \in 0 .. K_TYPES : m <= n => Clients(m) <= Clients(n)
<1>1. ASSUME NEW m \in 0 .. K_TYPES, NEW n \in 0 .. K_TYPES
      PROVE  IsFiniteSet(m + 1 .. n) /\ \A t \in m + 1 .. n : Counts[t] \in Nat
  <2>1. m + 1 \in Int /\ n \in Int /\ m + 1 .. n \subseteq 1 .. K_TYPES
    BY DEF K_TYPES
  <2>2. IsFiniteSet(m + 1 .. n)
    BY <2>1, FS_Interval
  <2>3. \A t \in 1 .. K_TYPES : Counts[t] \in Nat
    BY DeploymentAssumption
  <2> QED
    BY <2>1, <2>2, <2>3
<1>2. ASSUME NEW n \in 0 .. K_TYPES
      PROVE  IsFiniteSet(1 .. n) /\ (\A t \in 1 .. n : Counts[t] \in Nat) /\ Clients(n) \in Nat
  <2>1. 0 \in 0 .. K_TYPES /\ 0 + 1 = 1
    BY DEF K_TYPES
  <2>2. IsFiniteSet(1 .. n) /\ \A t \in 1 .. n : Counts[t] \in Nat
    BY <1>1, <1>2, <2>1
  <2> QED
    BY <2>2, SumNatural DEF Clients, Sum
<1>3. Clients(0) = 0
  <2>1. 1 .. 0 = {}
    OBVIOUS
  <2> QED
    BY <2>1, SumEmpty DEF Clients, Sum
<1>4. ASSUME NEW t \in 1 .. K_TYPES PROVE Clients(t) = Counts[t] + Clients(t - 1)
  <2>1. t \in 0 .. K_TYPES /\ t \in 1 .. t /\ (1 .. t) \ {t} = 1 .. t - 1
    BY DEF K_TYPES
  <2>2. IsFiniteSet(1 .. t) /\ \A u \in 1 .. t : Counts[u] \in Nat
    BY <1>2, <2>1
  <2>3. Sum(Counts, 1 .. t) = Counts[t] + Sum(Counts, (1 .. t) \ {t})
    BY <2>1, <2>2, SumRemove
  <2> QED
    BY <2>1, <2>3 DEF Clients, Sum
<1>5. ASSUME NEW m \in 0 .. K_TYPES, NEW n \in 0 .. K_TYPES, m <= n
      PROVE  Clients(m) <= Clients(n)
  <2>1. 1 .. n = (1 .. m) \cup (m + 1 .. n) /\ (1 .. m) \cap (m + 1 .. n) = {}
    BY <1>5 DEF K_TYPES
  <2>2. IsFiniteSet(1 .. m) /\ IsFiniteSet(m + 1 .. n)
    BY <1>1, <1>2
  <2>3. \A t \in (1 .. m) \cup (m + 1 .. n) : Counts[t] \in Nat
    BY <1>1, <1>2
  <2>4. Sum(Counts, 1 .. n) = Sum(Counts, 1 .. m) + Sum(Counts, m + 1 .. n)
    BY <2>1, <2>2, <2>3, SumUnion
  <2>5. Sum(Counts, 1 .. m) \in Nat /\ Sum(Counts, m + 1 .. n) \in Nat
    BY <2>2, <2>3, SumNatural
  <2> QED
    BY <2>4, <2>5 DEF Clients, Sum
<1> QED
  BY <1>2, <1>3, <1>4, <1>5

\* Every client the plan has work for is taken by a type.
LEMMA TakenByOne ==
  ASSUME NEW c \in Nat, c < Clients(K_TYPES)
  PROVE  \E t \in 1 .. K_TYPES : c \in Clients(t - 1) .. Clients(t) - 1
<1> DEFINE Above == {n \in 0 .. K_TYPES : c < Clients(n)}
<1>1. Above \in SUBSET Nat /\ Above # {}
  BY DEF K_TYPES
<1>2. PICK t \in Above : \A n \in Above : t <= n
  <2> HIDE DEF Above
  <2> QED
    BY <1>1, LeastNatural
<1>3. t \in 0 .. K_TYPES /\ c < Clients(t) /\ t # 0
  BY ClientCounts
<1>4. t - 1 \in 0 .. K_TYPES /\ t - 1 \notin Above
  BY <1>2, <1>3 DEF K_TYPES
<1>5. Clients(t - 1) <= c
  BY <1>4, ClientCounts
<1> QED
  BY <1>3, <1>4, <1>5, ClientCounts DEF K_TYPES

\* A source of application t at client c: the port tells the application.
SourceType == [from : ClientNodes \cup ServerNodes, to : Endpoints, proto : {"udp", "tcp"},
               start : {0, UpdateStart}]

LEMMA SourceFacts ==
  ASSUME NEW t \in 1 .. K_TYPES, NEW c \in ClientNodes, NEW s \in Range(Sources(t, c))
  PROVE  /\ s \in SourceType
         /\ s.proto = Transport(s.to[2])
         /\ PORT_TO_APP_NAME[s.to[2]] = t
         /\ {s.from, s.to[1]} = {c, Server(t)}
<1>1. Server(t) \in ServerNodes
  BY DeploymentAssumption DEF Server, ServerNodes, K_TYPES
<1>2. PICK k \in DOMAIN Applications[t] : s = Source(Applications[t][k], c, Server(t))
  BY DEF Range, Sources
<1> DEFINE a == Applications[t][k]
<1>3. /\ a.port \in 9001 .. 9011 /\ a.start \in {0, UpdateStart}
      /\ a.proto = Transport(a.port) /\ PORT_TO_APP_NAME[a.port] = t
  BY Streams
<1> HIDE DEF a
<1>4. /\ s.from = IF a.up THEN c ELSE Server(t)
      /\ s.to = <<IF a.up THEN Server(t) ELSE c, a.port>>
      /\ s.proto = a.proto /\ s.start = a.start
      /\ s = [from |-> s.from, to |-> s.to, proto |-> s.proto, start |-> s.start]
  BY <1>2 DEF Source, a
<1>5. s.to[1] = (IF a.up THEN Server(t) ELSE c) /\ s.to[2] = a.port
  BY <1>4
<1>6. s.proto \in {"udp", "tcp"}
  BY <1>3, <1>4 DEF Transport
<1>7. s.from \in ClientNodes \cup ServerNodes /\ s.to \in Endpoints
  BY <1>1, <1>3, <1>4 DEF Endpoints
<1>8. s \in SourceType
  BY <1>3, <1>4, <1>6, <1>7 DEF SourceType
<1>9. {s.from, s.to[1]} = {c, Server(t)}
  BY <1>4, <1>5
<1> QED
  BY <1>3, <1>4, <1>5, <1>8, <1>9

\* Those of the first clients.
LEMMA DeployedFacts ==
  ASSUME NEW n \in 0 .. N_EQUIPMENTS
  PROVE  \A s : s \in Deployed[n] <=>
           \E t \in 1 .. K_TYPES, c \in 0 .. n - 1 :
             c \in Clients(t - 1) .. Clients(t) - 1 /\ s \in Range(Sources(t, c))
<1> DEFINE Pairs == {d \in (1 .. K_TYPES) \X (0 .. n - 1) :
                       d[2] \in Clients(d[1] - 1) .. Clients(d[1]) - 1}
           S(d) == Range(Sources(d[1], d[2]))
<1>1. Deployed[n] = UNION {S(d) : d \in Pairs}
  BY DEF Deployed
<1>2. \A s : s \in UNION {S(d) : d \in Pairs} <=> \E d \in Pairs : s \in S(d)
  <2> HIDE DEF S, Pairs
  <2> QED
    OBVIOUS
<1>3. ASSUME NEW t \in 1 .. K_TYPES, NEW c \in 0 .. n - 1
      PROVE  /\ S(<<t, c>>) = Range(Sources(t, c))
             /\ <<t, c>> \in Pairs <=> c \in Clients(t - 1) .. Clients(t) - 1
  OBVIOUS
<1>4. ASSUME NEW d \in Pairs
      PROVE  \E t \in 1 .. K_TYPES, c \in 0 .. n - 1 : d = <<t, c>>
  OBVIOUS
<1> HIDE DEF S, Pairs
<1>5. ASSUME NEW s, NEW d \in Pairs, s \in S(d)
      PROVE  \E t \in 1 .. K_TYPES, c \in 0 .. n - 1 :
               c \in Clients(t - 1) .. Clients(t) - 1 /\ s \in Range(Sources(t, c))
  BY <1>3, <1>4, <1>5
<1>6. ASSUME NEW s, NEW t \in 1 .. K_TYPES, NEW c \in 0 .. n - 1,
             c \in Clients(t - 1) .. Clients(t) - 1, s \in Range(Sources(t, c))
      PROVE  \E d \in Pairs : s \in S(d)
  BY <1>3, <1>6
<1> QED
  BY <1>1, <1>2, <1>5, <1>6
----------------------------------------------------------------------------
(* Packets and counters.                                                   *)

Copies(B, x) == IF x \in DOMAIN B THEN B[x] ELSE 0

\* One packet more.
LEMMA PacketSent ==
  ASSUME NEW B, IsABag(B), NEW f
  PROVE  /\ IsABag(B (+) Packet(f))
         /\ DOMAIN (B (+) Packet(f)) = DOMAIN B \cup {f}
         /\ \A x : Copies(B (+) Packet(f), x) = Copies(B, x) + (IF x = f THEN 1 ELSE 0)
<1> DEFINE P == Packet(f)
           C == B (+) P
<1>1. DOMAIN P = {f} /\ P[f] = 1
  BY DEF Packet, SetToBag
<1> HIDE DEF P
<1>2. /\ DOMAIN C = DOMAIN B \cup {f}
      /\ \A x \in DOMAIN C : C[x] = Copies(B, x) + (IF x = f THEN 1 ELSE 0)
      /\ C = [x \in DOMAIN C |-> C[x]]
  BY <1>1 DEF (+), Copies
<1>3. \A x \in DOMAIN B : B[x] \in Nat /\ B[x] > 0
  BY DEF IsABag
<1> HIDE DEF C
<1>4. \A x : Copies(C, x) = Copies(B, x) + (IF x = f THEN 1 ELSE 0)
  BY <1>2, <1>3 DEF Copies
<1>5. \A x \in DOMAIN C : C[x] \in {n \in Nat : n > 0}
  BY <1>2, <1>3 DEF Copies
<1>6. IsABag(C)
  BY <1>2, <1>5 DEF IsABag
<1> QED
  BY <1>2, <1>4, <1>6 DEF C, P

\* One packet less.
LEMMA PacketGone ==
  ASSUME NEW B, IsABag(B), NEW f \in DOMAIN B
  PROVE  /\ IsABag(B (-) Packet(f))
         /\ DOMAIN (B (-) Packet(f)) \subseteq DOMAIN B
         /\ \A x : Copies(B (-) Packet(f), x) = Copies(B, x) - (IF x = f THEN 1 ELSE 0)
<1> DEFINE P == Packet(f)
           C == B (-) P
           D == [x \in DOMAIN B |-> IF x \in DOMAIN P THEN B[x] - P[x] ELSE B[x]]
<1>1. DOMAIN P = {f} /\ P[f] = 1
  BY DEF Packet, SetToBag
<1>2. \A x \in DOMAIN B : B[x] \in Nat /\ B[x] > 0
  BY DEF IsABag
<1> HIDE DEF P
<1>3. C = [x \in {d \in DOMAIN D : D[d] > 0} |-> D[x]]
  BY DEF (-)
<1>4. DOMAIN D = DOMAIN B /\ \A x \in DOMAIN B : D[x] = IF x = f THEN B[x] - 1 ELSE B[x]
  BY <1>1
<1> HIDE DEF C, D
<1>5. DOMAIN C = {x \in DOMAIN B : D[x] > 0} /\ \A x \in DOMAIN C : C[x] = D[x]
  BY <1>3, <1>4
<1>6. IsABag(C)
  <2>1. \A x \in DOMAIN C : C[x] \in {n \in Nat : n > 0}
    BY <1>2, <1>4, <1>5
  <2>2. C = [x \in DOMAIN C |-> C[x]]
    BY <1>3
  <2> QED
    BY <2>1, <2>2 DEF IsABag
<1>7. \A x : Copies(C, x) = Copies(B, x) - (IF x = f THEN 1 ELSE 0)
  BY <1>2, <1>4, <1>5 DEF Copies
<1> QED
  BY <1>5, <1>6, <1>7 DEF C, P

\* The flows FlowMonitor knows after it counted, and their counters.
LEMMA CountedFlows ==
  ASSUME NEW st, NEW f, NEW d, opts.enableFlowMonitor
  PROVE  DOMAIN Count(st, f, d) = DOMAIN st \cup {f}
BY DEF Count

LEMMA CountFacts ==
  ASSUME NEW st, \A x \in DOMAIN st : st[x] \in Counter, NEW f, NEW d \in Counter,
         opts.enableFlowMonitor
  PROVE  /\ \A x \in DOMAIN st \cup {f} :
              /\ Count(st, f, d)[x] \in Counter /\ Stat(st, x) \in Counter
              /\ x # f => Count(st, f, d)[x] = Stat(st, x)
         /\ Count(st, f, d)[f].tx = Stat(st, f).tx + d.tx
         /\ Count(st, f, d)[f].rx = Stat(st, f).rx + d.rx
         /\ Count(st, f, d)[f].lost = Stat(st, f).lost + d.lost
         /\ Count(st, f, d)[f].rxBytes = Stat(st, f).rxBytes + d.rxBytes
<1> DEFINE c == Stat(st, f)
           new == [tx |-> c.tx + d.tx, rx |-> c.rx + d.rx, lost |-> c.lost + d.lost,
                   rxBytes |-> c.rxBytes + d.rxBytes]
<1>1. Count(st, f, d) = [x \in DOMAIN st \cup {f} |-> IF x = f THEN new ELSE st[x]]
  BY DEF Count
<1>2. \A x : Stat(st, x) \in Counter
  BY DEF Stat, Counter
<1>3. new \in Counter /\ new.tx = c.tx + d.tx /\ new.rx = c.rx + d.rx /\ new.lost = c.lost + d.lost
      /\ new.rxBytes = c.rxBytes + d.rxBytes
  BY <1>2 DEF Counter
<1>4. \A x \in DOMAIN st : Stat(st, x) = st[x]
  BY DEF Stat
<1> HIDE DEF new, c
<1>5. ASSUME NEW x \in DOMAIN st \cup {f}
      PROVE  Count(st, f, d)[x] = IF x = f THEN new ELSE st[x]
  BY <1>1
<1> QED
  BY <1>1, <1>2, <1>3, <1>4, <1>5 DEF c

----------------------------------------------------------------------------
(* Sums of counters.                                                       *)

\* A total over flows of which none arrived or was lost more often than sent.
LEMMA TotalFacts ==
  ASSUME NEW st, NEW M, IsFiniteSet(M), \A f \in M : st[f].tx \in Nat /\ st[f].rx \in Nat /\ st[f].lost \in Nat /\ st[f].rxBytes \in Nat
  PROVE  /\ Total(st, M).tx = Sum([f \in M |-> st[f].tx], M)
         /\ Total(st, M).rx = Sum([f \in M |-> st[f].rx], M)
         /\ Total(st, M).lost = Sum([f \in M |-> st[f].lost], M)
         /\ Total(st, M).rxBytes = Sum([f \in M |-> st[f].rxBytes], M)
         /\ Total(st, M) \in Counter
         /\ (\A f \in M : st[f].rx + st[f].lost <= st[f].tx) =>
               Total(st, M).rx + Total(st, M).lost <= Total(st, M).tx
<1> DEFINE t == [f \in M |-> st[f].tx]
           r == [f \in M |-> st[f].rx]
           l == [f \in M |-> st[f].lost]
           y == [f \in M |-> st[f].rxBytes]
<1>1. DOMAIN t = M /\ DOMAIN r = M /\ DOMAIN l = M /\ DOMAIN y = M
  OBVIOUS
<1>2. Total(st, M) = [tx |-> SumFunction(t), rx |-> SumFunction(r), lost |-> SumFunction(l),
                      rxBytes |-> SumFunction(y)]
  BY DEF Total
<1>3. \A f \in M : t[f] = st[f].tx /\ r[f] = st[f].rx /\ l[f] = st[f].lost /\ y[f] = st[f].rxBytes
  OBVIOUS
<1> HIDE DEF t, r, l, y
<1>4. /\ SumFunction(t) = Sum(t, M) /\ SumFunction(r) = Sum(r, M)
      /\ SumFunction(l) = Sum(l, M) /\ SumFunction(y) = Sum(y, M)
  BY <1>1 DEF SumFunction, Sum
<1>5. Sum(t, M) \in Nat /\ Sum(r, M) \in Nat /\ Sum(l, M) \in Nat /\ Sum(y, M) \in Nat
  BY <1>3, SumNatural
<1>6. (\A f \in M : st[f].rx + st[f].lost <= st[f].tx) => Sum(r, M) + Sum(l, M) <= Sum(t, M)
  BY <1>3, SumOfTwo
<1> QED
  BY <1>2, <1>4, <1>5, <1>6 DEF Counter, t, r, l, y

\* A sum of which one number grows, or is added.
LEMMA SumGrows ==
  ASSUME NEW M, NEW N, IsFiniteSet(M), IsFiniteSet(N), NEW f, N = M \cup {f},
         NEW g, NEW h, \A x \in M : g[x] \in Nat, \A x \in M : x # f => h[x] = g[x],
         NEW old \in Nat, NEW n \in Nat, f \in M => g[f] = old, f \notin M => old = 0,
         h[f] = old + n
  PROVE  Sum(h, N) = Sum(g, M) + n
<1>1. \A x \in N : h[x] \in Nat
  OBVIOUS
<1>2. Sum(h, N) = h[f] + Sum(h, N \ {f})
  BY <1>1, SumRemove
<1>3. IsFiniteSet(N \ {f})
  BY FS_Subset
<1>4. \A x \in N \ {f} : h[x] = g[x] /\ g[x] \in Nat
  OBVIOUS
<1>5. Sum(h, N \ {f}) = Sum(g, N \ {f}) /\ Sum(g, N \ {f}) \in Nat
  BY <1>3, <1>4, SumEqual, SumNatural
<1>6. Sum(g, M) = old + Sum(g, N \ {f})
  <2>1. CASE f \in M
    <3>1. N \ {f} = M \ {f}
      OBVIOUS
    <3> QED
      BY <2>1, <3>1, SumRemove
  <2>2. CASE f \notin M
    <3>1. N \ {f} = M
      BY <2>2
    <3> QED
      BY <1>5, <2>2, <3>1
  <2> QED
    BY <2>1, <2>2
<1> QED
  BY <1>2, <1>5, <1>6

\* What arrived at an endpoint, after FlowMonitor counted.
LEMMA ArrivedCounted ==
  ASSUME NEW st, IsFiniteSet(DOMAIN st), \A x \in DOMAIN st : st[x] \in Counter,
         NEW f, NEW d \in Counter, opts.enableFlowMonitor, NEW e
  PROVE  LET old == Total(st, To(st, e))
             new == Total(Count(st, f, d), To(Count(st, f, d), e))
         IN /\ new.rx = old.rx + (IF <<f.dst, f.dport>> = e THEN d.rx ELSE 0)
            /\ new.rxBytes = old.rxBytes + (IF <<f.dst, f.dport>> = e THEN d.rxBytes ELSE 0)
<1> DEFINE c == Count(st, f, d)
           M == To(st, e)
           N == To(c, e)
<1>1. /\ DOMAIN c = DOMAIN st \cup {f}
      /\ \A x \in DOMAIN c : c[x] \in Counter /\ Stat(st, x) \in Counter /\ (x # f => c[x] = Stat(st, x))
      /\ c[f].rx = Stat(st, f).rx + d.rx /\ c[f].rxBytes = Stat(st, f).rxBytes + d.rxBytes
  <2>1. DOMAIN c = DOMAIN st \cup {f}
    BY CountedFlows
  <2>2. c[f].rx = Stat(st, f).rx + d.rx /\ c[f].rxBytes = Stat(st, f).rxBytes + d.rxBytes
    BY CountFacts
  <2>3. \A x \in DOMAIN st \cup {f} : c[x] \in Counter /\ Stat(st, x) \in Counter /\ (x # f => c[x] = Stat(st, x))
    BY CountFacts
  <2> QED
    BY <2>1, <2>2, <2>3
<1> HIDE DEF c
<1>2. IsFiniteSet(DOMAIN c) /\ N \in SUBSET DOMAIN c /\ M \in SUBSET DOMAIN st
  BY <1>1, FS_AddElement DEF To
<1>3. IsFiniteSet(M) /\ IsFiniteSet(N)
  BY <1>2, FS_Subset
<1> DEFINE g == [x \in M |-> st[x].rx]
           h == [x \in N |-> c[x].rx]
           v == [x \in M |-> st[x].rxBytes]
           w == [x \in N |-> c[x].rxBytes]
<1>4. /\ Total(st, M).rx = Sum(g, M) /\ Total(c, N).rx = Sum(h, N)
      /\ Total(st, M).rxBytes = Sum(v, M) /\ Total(c, N).rxBytes = Sum(w, N)
  <2> HIDE DEF M, N
  <2>1. \A x \in M : st[x].tx \in Nat /\ st[x].rx \in Nat /\ st[x].lost \in Nat /\ st[x].rxBytes \in Nat
    BY <1>2 DEF Counter
  <2>2. \A x \in N : c[x].tx \in Nat /\ c[x].rx \in Nat /\ c[x].lost \in Nat /\ c[x].rxBytes \in Nat
    BY <1>1, <1>2 DEF Counter
  <2> QED
    BY <1>3, <2>1, <2>2, TotalFacts
<1>5. /\ \A x \in M : g[x] \in Nat /\ g[x] = Stat(st, x).rx
      /\ \A x \in M : v[x] \in Nat /\ v[x] = Stat(st, x).rxBytes
  BY <1>2 DEF Counter, Stat
<1>6. /\ \A x \in N : x # f => h[x] = Stat(st, x).rx /\ w[x] = Stat(st, x).rxBytes
      /\ f \in N => h[f] = Stat(st, f).rx + d.rx /\ w[f] = Stat(st, f).rxBytes + d.rxBytes
  BY <1>1, <1>2
<1>7. f \notin DOMAIN st => Stat(st, f).rx = 0 /\ Stat(st, f).rxBytes = 0
  BY DEF Stat
<1>8. /\ Stat(st, f).rx \in Nat /\ Stat(st, f).rxBytes \in Nat /\ d.rx \in Nat /\ d.rxBytes \in Nat
  BY <1>1 DEF Counter
<1>9. CASE <<f.dst, f.dport>> = e
  <2>1. N = M \cup {f} /\ (f \in M <=> f \in DOMAIN st)
    BY <1>1, <1>9 DEF To
  <2> HIDE DEF M, N, g, h, v, w
  <2>2. /\ \A x \in M : x # f => h[x] = g[x] /\ w[x] = v[x]
        /\ f \in M => g[f] = Stat(st, f).rx /\ v[f] = Stat(st, f).rxBytes
        /\ f \notin M => Stat(st, f).rx = 0 /\ Stat(st, f).rxBytes = 0
        /\ h[f] = Stat(st, f).rx + d.rx /\ w[f] = Stat(st, f).rxBytes + d.rxBytes
    BY <1>5, <1>6, <1>7, <2>1
  <2>3. Sum(h, N) = Sum(g, M) + d.rx
    BY <1>3, <1>5, <1>8, <2>1, <2>2, SumGrows
  <2>4. Sum(w, N) = Sum(v, M) + d.rxBytes
    BY <1>3, <1>5, <1>8, <2>1, <2>2, SumGrows
  <2> QED
    BY <1>4, <1>9, <2>3, <2>4 DEF M, N, c
<1>10. CASE <<f.dst, f.dport>> # e
  <2>1. N = M /\ f \notin N
    BY <1>1, <1>10 DEF To
  <2> HIDE DEF M, N, g, h, v, w
  <2>2. \A x \in N : h[x] = g[x] /\ w[x] = v[x]
    BY <1>5, <1>6, <2>1
  <2>3. /\ Sum(h, N) = Sum(g, M) /\ Sum(g, M) \in Nat
        /\ Sum(w, N) = Sum(v, M) /\ Sum(v, M) \in Nat
    BY <1>3, <1>5, <2>1, <2>2, SumEqual, SumNatural
  <2> QED
    BY <1>4, <1>10, <2>3 DEF M, N, c
<1> QED
  BY <1>9, <1>10

\* The same when only losses were counted.
LEMMA ArrivedLost ==
  ASSUME NEW st, IsFiniteSet(DOMAIN st), NEW new, DOMAIN new = DOMAIN st,
         \A x \in DOMAIN st : /\ st[x] \in Counter /\ new[x] \in Counter
                              /\ new[x].rx = st[x].rx /\ new[x].rxBytes = st[x].rxBytes,
         NEW e
  PROVE  /\ Total(new, To(new, e)).rx = Total(st, To(st, e)).rx
         /\ Total(new, To(new, e)).rxBytes = Total(st, To(st, e)).rxBytes
<1> DEFINE M == To(st, e)
<1>1. To(new, e) = M /\ M \in SUBSET DOMAIN st
  BY DEF To
<1>2. IsFiniteSet(M)
  BY <1>1, FS_Subset
<1>3. \A x \in M : /\ st[x].tx \in Nat /\ st[x].rx \in Nat /\ st[x].lost \in Nat /\ st[x].rxBytes \in Nat
                   /\ new[x].tx \in Nat /\ new[x].rx \in Nat /\ new[x].lost \in Nat /\ new[x].rxBytes \in Nat
  BY <1>1 DEF Counter
<1> HIDE DEF M
<1>4. /\ Total(st, M).rx = Sum([x \in M |-> st[x].rx], M)
      /\ Total(new, M).rx = Sum([x \in M |-> new[x].rx], M)
      /\ Total(st, M).rxBytes = Sum([x \in M |-> st[x].rxBytes], M)
      /\ Total(new, M).rxBytes = Sum([x \in M |-> new[x].rxBytes], M)
  BY <1>2, <1>3, TotalFacts
<1>5. /\ [x \in M |-> st[x].rx] = [x \in M |-> new[x].rx]
      /\ [x \in M |-> st[x].rxBytes] = [x \in M |-> new[x].rxBytes]
  BY <1>1
<1> QED
  BY <1>1, <1>4, <1>5 DEF M

----------------------------------------------------------------------------
(* Flows and receivers.                                                    *)

\* The endpoints of a flow.
Dest(f) == <<f.dst, f.dport>>
Orig(f) == <<f.src, f.sport>>

\* A flow is one of a source's packets, to a receiver there is, or one of the
\* acknowledgements of that receiver.
LEMMA FlowShape ==
  ASSUME TypeOK, SourcesInv, SinkInv, NEW f \in AllFlows
  PROVE  \/ /\ f \in Flows /\ f.proto = Transport(f.dport)
            /\ f.dport \in 9001 .. 9011 /\ f.sport \notin 9001 .. 9011
            /\ Dest(f) \in DOMAIN sinks.map
         \/ /\ ReturnFlow(f) \in Flows /\ f.proto = "tcp"
            /\ f.sport \in 9001 .. 9011 /\ f.dport \notin 9001 .. 9011
            /\ Orig(f) \in DOMAIN sinks.map
<1>1. ASSUME NEW g \in Flows
      PROVE  /\ g.proto = Transport(g.dport)
             /\ g.dport \in 9001 .. 9011 /\ g.sport \notin 9001 .. 9011
             /\ Dest(g) \in DOMAIN sinks.map
             /\ ReturnFlow(ReturnFlow(g)) = g
  <2>1. PICK i \in DOMAIN g_trafficSources : g = Flow(i)
    BY DEF Flows
  <2> DEFINE s == g_trafficSources[i]
  <2>2. s \in SourceType /\ i \in Nat /\ i > 0
    <3>1. g_trafficSources \in Seq(SourceType)
      BY DEF TypeOK, SourceType
    <3>2. DOMAIN g_trafficSources = 1 .. Len(g_trafficSources) /\ Len(g_trafficSources) \in Nat
      BY <3>1, LenProperties
    <3> QED
      BY <3>1, <3>2, ElementOfSeq
  <2>3. s.proto = Transport(s.to[2])
    <3>1. nextClientIndex \in 0 .. N_EQUIPMENTS /\ s \in Deployed[nextClientIndex]
      BY DEF TypeOK, SourcesInv, Range
    <3>2. PICK t \in 1 .. K_TYPES, c \in 0 .. nextClientIndex - 1 : s \in Range(Sources(t, c))
      BY <3>1, DeployedFacts
    <3>3. c \in ClientNodes
      BY <3>1, DeploymentAssumption DEF ClientNodes
    <3> QED
      BY <3>2, <3>3, SourceFacts
  <2>4. s.to \in DOMAIN sinks.map
    BY DEF SinkInv
  <2> HIDE DEF s
  <2>5. g = [src |-> s.from, sport |-> 49152 + i, dst |-> s.to[1], dport |-> s.to[2], proto |-> s.proto]
    BY <2>1 DEF Flow, s
  <2>6. s.to = <<s.to[1], s.to[2]>> /\ s.to[2] \in 9001 .. 9011
    BY <2>2 DEF SourceType, Endpoints
  <2>7. ReturnFlow(ReturnFlow(g)) = g
    BY <2>5 DEF ReturnFlow
  <2> QED
    BY <2>2, <2>3, <2>4, <2>5, <2>6, <2>7 DEF Dest
<1>2. CASE f \in Flows
  BY <1>1, <1>2
<1>3. ASSUME NEW g \in Flows, g.proto = "tcp", f = ReturnFlow(g)
      PROVE  /\ ReturnFlow(f) \in Flows /\ f.proto = "tcp"
             /\ f.sport \in 9001 .. 9011 /\ f.dport \notin 9001 .. 9011
             /\ Orig(f) \in DOMAIN sinks.map
  <2>1. Orig(f) = Dest(g) /\ f.sport = g.dport /\ f.dport = g.sport /\ f.proto = g.proto
    BY <1>3 DEF ReturnFlow, Orig, Dest
  <2> QED
    BY <1>1, <1>3, <2>1
<1> QED
  BY <1>2, <1>3 DEF AllFlows
----------------------------------------------------------------------------
(* Deployment.                                                             *)

\* One client more: the sources of the type whose turn it is.
LEMMA DeployedNext ==
  ASSUME NEW t \in 1 .. K_TYPES, NEW c \in 0 .. N_EQUIPMENTS - 1, c \in Clients(t - 1) .. Clients(t) - 1
  PROVE  Deployed[c + 1] = Deployed[c] \cup Range(Sources(t, c))
<1>1. /\ c \in 0 .. N_EQUIPMENTS /\ c + 1 \in 0 .. N_EQUIPMENTS
      /\ 0 .. (c + 1) - 1 = (0 .. c - 1) \cup {c}
  BY DeploymentAssumption
<1>2. ASSUME NEW u \in 1 .. K_TYPES, c \in Clients(u - 1) .. Clients(u) - 1 PROVE u = t
  <2>1. /\ Clients(u) \in Nat /\ Clients(u - 1) \in Nat /\ Clients(t) \in Nat /\ Clients(t - 1) \in Nat
        /\ u <= t - 1 => Clients(u) <= Clients(t - 1)
        /\ t <= u - 1 => Clients(t) <= Clients(u - 1)
    <3>1. /\ u \in 0 .. K_TYPES /\ u - 1 \in 0 .. K_TYPES
          /\ t \in 0 .. K_TYPES /\ t - 1 \in 0 .. K_TYPES
      BY DEF K_TYPES
    <3> QED
      BY <3>1, ClientCounts
  <2> QED
    BY <1>2, <2>1 DEF K_TYPES
<1>3. ASSUME NEW s, s \in Deployed[c + 1] PROVE s \in Deployed[c] \cup Range(Sources(t, c))
  <2>1. PICK u \in 1 .. K_TYPES, d \in 0 .. (c + 1) - 1 :
          d \in Clients(u - 1) .. Clients(u) - 1 /\ s \in Range(Sources(u, d))
    BY <1>1, <1>3, DeployedFacts
  <2>2. CASE d = c
    BY <1>2, <2>1, <2>2
  <2>3. CASE d \in 0 .. c - 1
    BY <1>1, <2>1, <2>3, DeployedFacts
  <2> QED
    BY <1>1, <2>2, <2>3
<1>4. ASSUME NEW s, s \in Deployed[c] PROVE s \in Deployed[c + 1]
  <2>1. PICK u \in 1 .. K_TYPES, d \in 0 .. c - 1 :
          d \in Clients(u - 1) .. Clients(u) - 1 /\ s \in Range(Sources(u, d))
    BY <1>1, <1>4, DeployedFacts
  <2>2. d \in 0 .. (c + 1) - 1
    BY <1>1, <2>1
  <2> QED
    BY <1>1, <2>1, <2>2, DeployedFacts
<1>5. ASSUME NEW s \in Range(Sources(t, c)) PROVE s \in Deployed[c + 1]
  <2>1. c \in 0 .. (c + 1) - 1
    BY <1>1
  <2> QED
    BY <1>1, <2>1, DeployedFacts
<1> QED
  BY <1>3, <1>4, <1>5

\* The sources of one client are a sequence of one or two.
LEMMA SourcesAreSeq ==
  ASSUME NEW t \in 1 .. K_TYPES, NEW c \in ClientNodes
  PROVE  /\ Sources(t, c) \in Seq(SourceType)
         /\ Len(Sources(t, c)) \in {1, 2}
         /\ DOMAIN Sources(t, c) = 1 .. Len(Sources(t, c))
         /\ \A k \in DOMAIN Sources(t, c) : Sources(t, c)[k].proto = Transport(Sources(t, c)[k].to[2])
<1> DEFINE S == Sources(t, c)
           n == Len(Applications[t])
<1>1. n \in {1, 2} /\ DOMAIN Applications[t] = 1 .. n
  BY Streams
<1>2. S = [k \in 1 .. n |-> S[k]]
  BY <1>1 DEF Sources
<1> HIDE DEF S, n
<1>3. \A k \in 1 .. n : S[k] \in Range(S)
  BY <1>2 DEF Range
<1>4. \A k \in 1 .. n : S[k] \in SourceType /\ S[k].proto = Transport(S[k].to[2])
  BY <1>3, SourceFacts DEF S
<1>5. S \in Seq(SourceType) /\ Len(S) = n
  BY <1>1, <1>2, <1>4, IsASeq, LenProperties
<1> QED
  BY <1>1, <1>2, <1>4, <1>5 DEF S

\* The part of SourcesInv and TypeOK about the sources.
LEMMA SourcesStep ==
  ASSUME TypeOK, SourcesInv, NEW t \in 1 .. K_TYPES, Configure(t)
  PROVE  /\ SourcesInv'
         /\ nextClientIndex \in ClientNodes /\ nextClientIndex' \in 0 .. N_EQUIPMENTS
         /\ g_trafficSources' \in Seq(SourceType)
         /\ \A i \in DOMAIN g_trafficSources' :
              \/ i \in DOMAIN g_trafficSources /\ g_trafficSources'[i] = g_trafficSources[i]
              \/ \E k \in DOMAIN Sources(t, nextClientIndex) :
                   g_trafficSources'[i] = Sources(t, nextClientIndex)[k]
<1> DEFINE c == nextClientIndex
           new == Sources(t, c)
           g == g_trafficSources
<1>1. /\ c \in Nat /\ c \in Clients(t - 1) .. Clients(t) - 1 /\ Clients(t) \in Nat
      /\ Clients(t) <= Clients(K_TYPES) /\ Clients(K_TYPES) \in Nat /\ Clients(K_TYPES) <= N_EQUIPMENTS
  <2>1. t \in 0 .. K_TYPES /\ K_TYPES \in 0 .. K_TYPES /\ t <= K_TYPES
    BY DEF K_TYPES
  <2>2. c \in Nat /\ c \in Clients(t - 1) .. Clients(t) - 1
    BY DeploymentAssumption DEF TypeOK, Configure, Turn
  <2> QED
    BY <2>1, <2>2, ClientCounts, DeploymentAssumption
<1>2. c < Clients(K_TYPES) /\ c \in ClientNodes /\ c \in 0 .. N_EQUIPMENTS - 1 /\ c + 1 \in 0 .. N_EQUIPMENTS
  BY <1>1, DeploymentAssumption, ClientCounts DEF ClientNodes, K_TYPES
<1>3. c' = c + 1 /\ g' = g \o new /\ phase = "deploy" /\ phase' = "deploy"
  BY DEF Configure
<1>4. g \in Seq(SourceType) /\ new \in Seq(SourceType)
  BY <1>2, SourcesAreSeq DEF TypeOK, SourceType
<1> HIDE DEF new, g, c
<1>5. /\ g \o new \in Seq(SourceType)
      /\ Len(g \o new) = Len(g) + Len(new) /\ Len(g) \in Nat /\ Len(new) \in Nat
      /\ \A i \in 1 .. Len(g) + Len(new) :
           (g \o new)[i] = IF i <= Len(g) THEN g[i] ELSE new[i - Len(g)]
      /\ DOMAIN (g \o new) = 1 .. Len(g) + Len(new)
      /\ DOMAIN g = 1 .. Len(g) /\ DOMAIN new = 1 .. Len(new)
  BY <1>4, ConcatProperties, LenProperties
<1>6. \A i \in DOMAIN g' : \/ i \in DOMAIN g /\ g'[i] = g[i]
                           \/ \E k \in DOMAIN new : g'[i] = new[k]
  <2> SUFFICES ASSUME NEW i \in 1 .. Len(g) + Len(new)
               PROVE  \/ i \in 1 .. Len(g) /\ (g \o new)[i] = g[i]
                      \/ \E k \in 1 .. Len(new) : (g \o new)[i] = new[k]
    BY <1>3, <1>5
  <2>1. CASE i <= Len(g)
    BY <1>5, <2>1
  <2>2. CASE ~(i <= Len(g))
    <3>1. i - Len(g) \in 1 .. Len(new) /\ (g \o new)[i] = new[i - Len(g)]
      BY <1>5, <2>2
    <3> QED
      BY <3>1
  <2> QED
    BY <2>1, <2>2
<1>7. Range(g') = Range(g) \cup Range(new)
  <2>1. Range(g') \subseteq Range(g) \cup Range(new)
    BY <1>6 DEF Range
  <2>2. ASSUME NEW i \in 1 .. Len(g) PROVE g[i] \in Range(g')
    <3>1. i \in DOMAIN (g \o new) /\ (g \o new)[i] = g[i]
      BY <1>5
    <3> QED
      BY <1>3, <3>1 DEF Range
  <2>3. ASSUME NEW k \in 1 .. Len(new) PROVE new[k] \in Range(g')
    <3>1. k + Len(g) \in DOMAIN (g \o new) /\ (g \o new)[k + Len(g)] = new[k]
      BY <1>5
    <3> QED
      BY <1>3, <3>1 DEF Range
  <2> QED
    BY <1>5, <2>1, <2>2, <2>3 DEF Range
<1>8. Range(g) = Deployed[c]
  BY DEF SourcesInv, g, c
<1>9. Range(g') = Deployed[c + 1]
  BY <1>1, <1>2, <1>7, <1>8, DeployedNext DEF new
<1>10. SourcesInv'
  BY <1>1, <1>2, <1>3, <1>9 DEF SourcesInv, g, c
<1> QED
  BY <1>2, <1>3, <1>5, <1>6, <1>10 DEF new, g, c

\* The part of SinkInv and TypeOK about the receivers alone.
AppType == [at : Endpoints, proto : {"udp", "tcp"}, rx : Nat]

SinksOK(s) ==
  /\ s = [apps |-> s.apps, map |-> s.map]
  /\ s.apps \in Seq(AppType) /\ DOMAIN s.map \subseteq Endpoints
  /\ \A a \in DOMAIN s.apps :
       /\ s.apps[a].at \in DOMAIN s.map /\ s.map[s.apps[a].at] = a
       /\ s.apps[a].proto = Transport(s.apps[a].at[2])
  /\ \A e \in DOMAIN s.map : s.map[e] \in DOMAIN s.apps /\ s.apps[s.map[e]].at = e

\* Nothing was received yet.
Idle(s) == \A a \in DOMAIN s.apps : s.apps[a].rx = 0

\* One call of InstallSinkIfNeeded.
LEMMA InstallFacts ==
  ASSUME NEW s, SinksOK(s), Idle(s), NEW e \in Endpoints, NEW proto \in {"udp", "tcp"},
         proto = Transport(e[2])
  PROVE  LET new == InstallSinkIfNeeded(s, e, proto)
         IN /\ SinksOK(new) /\ Idle(new)
            /\ DOMAIN new.map = DOMAIN s.map \cup {e}
<1> DEFINE new == InstallSinkIfNeeded(s, e, proto)
           n == Len(s.apps)
           app == [at |-> e, proto |-> proto, rx |-> 0]
           apps == Append(s.apps, app)
           map == [d \in DOMAIN s.map \cup {e} |-> IF d = e THEN n + 1 ELSE s.map[d]]
<1>1. CASE e \in DOMAIN s.map
  BY <1>1 DEF InstallSinkIfNeeded
<1>2. CASE e \notin DOMAIN s.map
  <2>1. new = [apps |-> apps, map |-> map]
    BY <1>2 DEF InstallSinkIfNeeded
  <2>2. app \in AppType /\ app.at = e /\ app.proto = proto /\ app.rx = 0
    BY DEF AppType
  <2>3. /\ DOMAIN map = DOMAIN s.map \cup {e} /\ map[e] = n + 1
        /\ \A d \in DOMAIN s.map : map[d] = s.map[d]
    BY <1>2
  <2>4. s.apps \in Seq(AppType) /\ n \in Nat /\ DOMAIN s.apps = 1 .. n
    BY LenProperties DEF SinksOK
  <2> HIDE DEF app, map
  <2>5. /\ apps \in Seq(AppType) /\ DOMAIN apps = 1 .. n + 1
        /\ \A a \in 1 .. n : apps[a] = s.apps[a]
        /\ apps[n + 1] = app
    BY <2>2, <2>4, AppendProperties, LenProperties
  <2> HIDE DEF apps, new, n
  <2>6. new.apps = apps /\ new.map = map
    BY <2>1
  <2>7. ASSUME NEW a \in 1 .. n
        PROVE  /\ apps[a].at \in DOMAIN map /\ map[apps[a].at] = a
               /\ apps[a].proto = Transport(apps[a].at[2]) /\ apps[a].rx = 0
    BY <1>2, <2>3, <2>4, <2>5 DEF SinksOK, Idle
  <2>8. \A a \in 1 .. n + 1 : a \in 1 .. n \/ a = n + 1
    BY <2>4
  <2>9. ASSUME NEW a \in DOMAIN apps
        PROVE  /\ apps[a].at \in DOMAIN map /\ map[apps[a].at] = a
               /\ apps[a].proto = Transport(apps[a].at[2]) /\ apps[a].rx = 0
    BY <2>2, <2>3, <2>5, <2>7, <2>8
  <2>10. ASSUME NEW d \in DOMAIN map PROVE map[d] \in DOMAIN apps /\ apps[map[d]].at = d
    <3>1. CASE d = e
      BY <2>2, <2>3, <2>4, <2>5, <3>1
    <3>2. CASE d \in DOMAIN s.map
      <4>1. s.map[d] \in 1 .. n /\ s.apps[s.map[d]].at = d
        BY <2>4, <3>2 DEF SinksOK
      <4> QED
        BY <2>3, <2>4, <2>5, <3>2, <4>1
    <3> QED
      BY <2>3, <3>1, <3>2
  <2>11. DOMAIN map \subseteq Endpoints
    BY <2>3 DEF SinksOK
  <2>12. SinksOK(new)
    BY <2>1, <2>5, <2>6, <2>9, <2>10, <2>11 DEF SinksOK
  <2> QED
    BY <2>3, <2>6, <2>9, <2>12 DEF Idle, new
<1> QED
  BY <1>1, <1>2

\* The receivers of a client's sources.
LEMMA ReceiveFacts ==
  ASSUME NEW s, SinksOK(s), Idle(s), NEW new \in Seq(SourceType), Len(new) \in {1, 2},
         \A k \in DOMAIN new : new[k].proto = Transport(new[k].to[2])
  PROVE  /\ SinksOK(Receive(s, new)) /\ Idle(Receive(s, new))
         /\ DOMAIN Receive(s, new).map = DOMAIN s.map \cup {new[k].to : k \in DOMAIN new}
<1> DEFINE first == InstallSinkIfNeeded(s, new[1].to, new[1].proto)
           second == InstallSinkIfNeeded(first, new[2].to, new[2].proto)
<1>1. DOMAIN new = 1 .. Len(new)
  BY LenProperties
<1>2. \A k \in DOMAIN new : /\ new[k].to \in Endpoints /\ new[k].proto \in {"udp", "tcp"}
                            /\ new[k].proto = Transport(new[k].to[2])
  <2>1. \A k \in DOMAIN new : new[k] \in SourceType
    BY <1>1, ElementOfSeq
  <2> QED
    BY <2>1 DEF SourceType
<1>3. /\ SinksOK(first) /\ Idle(first)
      /\ DOMAIN first.map = DOMAIN s.map \cup {new[1].to}
  <2>1. 1 \in DOMAIN new
    BY <1>1
  <2> QED
    BY <1>2, <2>1, InstallFacts
<1> HIDE DEF first
<1>4. CASE Len(new) = 1
  <2>1. DOMAIN new = {1} /\ Receive(s, new) = first
    BY <1>1, <1>4 DEF Receive, first
  <2> QED
    BY <1>3, <2>1
<1>5. CASE Len(new) = 2
  <2>1. DOMAIN new = {1, 2} /\ Receive(s, new) = second
    BY <1>1, <1>5 DEF Receive, first
  <2>2. /\ SinksOK(second) /\ Idle(second)
        /\ DOMAIN second.map = DOMAIN first.map \cup {new[2].to}
    BY <1>2, <1>3, <2>1, InstallFacts
  <2> HIDE DEF second
  <2> QED
    BY <1>3, <2>1, <2>2
<1> QED
  BY <1>4, <1>5

LEMMA SinksOKNow ==
  ASSUME TypeOK, SinkInv
  PROVE  SinksOK(sinks)
BY DEF TypeOK, SinkInv, SinksOK, AppType

\* The part of SinkInv and ReceivedInv about the receivers.
LEMMA SinksStep ==
  ASSUME TypeOK, SourcesInv, SinkInv, ReceivedInv, NEW t \in 1 .. K_TYPES, Configure(t)
  PROVE  SinksOK(sinks)' /\ SinkInv' /\ Idle(sinks)'
<1> DEFINE new == Sources(t, nextClientIndex)
<1>1. /\ nextClientIndex \in ClientNodes
      /\ \A i \in DOMAIN g_trafficSources' :
           \/ i \in DOMAIN g_trafficSources /\ g_trafficSources'[i] = g_trafficSources[i]
           \/ \E k \in DOMAIN new : g_trafficSources'[i] = new[k]
  BY SourcesStep
<1>2. new \in Seq(SourceType) /\ Len(new) \in {1, 2} /\ \A k \in DOMAIN new : new[k].proto = Transport(new[k].to[2])
  BY <1>1, SourcesAreSeq
<1>3. sinks' = Receive(sinks, new) /\ phase = "deploy"
  BY DEF Configure
<1> HIDE DEF new
<1>4. SinksOK(sinks) /\ Idle(sinks)
  BY <1>3, SinksOKNow DEF ReceivedInv, Idle
<1>5. SinksOK(sinks') /\ Idle(sinks') /\ DOMAIN sinks'.map = DOMAIN sinks.map \cup {new[k].to : k \in DOMAIN new}
  BY <1>2, <1>3, <1>4, ReceiveFacts
<1>6. \A i \in DOMAIN g_trafficSources' : g_trafficSources'[i].to \in DOMAIN sinks'.map
  BY <1>1, <1>5 DEF SinkInv
<1> QED
  BY <1>5, <1>6 DEF SinkInv, SinksOK, Idle
----------------------------------------------------------------------------
(* Packets on their way.                                                   *)

\* The part of FlowInv and TypeOK about the counters st and the packets B while the
\* simulation runs.
FlowsOK(st, B) ==
  /\ IsABag(B) /\ DOMAIN B \subseteq AllFlows
  /\ DOMAIN st \subseteq AllFlows /\ IsFiniteSet(DOMAIN st)
  /\ \A f \in DOMAIN st : st[f] \in Counter
  /\ ~opts.enableFlowMonitor => DOMAIN st = {}
  /\ opts.enableFlowMonitor => DOMAIN B \subseteq DOMAIN st
  /\ \A f \in DOMAIN st : st[f].rx + st[f].lost + Copies(B, f) <= st[f].tx
  /\ \A f \in DOMAIN st : st[f].rx = 0 => st[f].rxBytes = 0

\* FlowMonitor saw every packet there is leave.
LEMMA Balance ==
  ASSUME NEW st, NEW B, FlowsOK(st, B), opts.enableFlowMonitor, NEW f
  PROVE  /\ Stat(st, f) \in Counter /\ Copies(B, f) \in Nat
         /\ Stat(st, f).rx + Stat(st, f).lost + Copies(B, f) <= Stat(st, f).tx
         /\ Stat(st, f).rx = 0 => Stat(st, f).rxBytes = 0
<1>1. Copies(B, f) \in Nat
  BY DEF Copies, FlowsOK, IsABag
<1>2. CASE f \in DOMAIN st
  BY <1>1, <1>2 DEF Stat, FlowsOK
<1>3. CASE f \notin DOMAIN st
  <2>1. Copies(B, f) = 0
    BY <1>3 DEF Copies, FlowsOK
  <2>2. Stat(st, f) = [tx |-> 0, rx |-> 0, lost |-> 0, rxBytes |-> 0]
    BY <1>3 DEF Stat
  <2> QED
    BY <2>1, <2>2 DEF Counter
<1> QED
  BY <1>2, <1>3

\* The counters and packets stay in balance if those of one flow do.
LEMMA OneFlow ==
  ASSUME NEW st, NEW B, FlowsOK(st, B), opts.enableFlowMonitor,
         NEW f \in AllFlows, NEW d \in Counter, NEW C, IsABag(C),
         DOMAIN C \subseteq DOMAIN B \cup {f},
         \A x : x # f => Copies(C, x) = Copies(B, x),
         Stat(st, f).rx + d.rx + Stat(st, f).lost + d.lost + Copies(C, f) <= Stat(st, f).tx + d.tx,
         d.rx = 0 => d.rxBytes = 0
  PROVE  FlowsOK(Count(st, f, d), C)
<1> DEFINE c == Count(st, f, d)
<1>0. \A x \in DOMAIN st : st[x] \in Counter
  BY DEF FlowsOK
<1>1. DOMAIN c = DOMAIN st \cup {f}
  BY CountedFlows
<1>2. \A x \in DOMAIN st \cup {f} : c[x] \in Counter /\ (x # f => c[x] = Stat(st, x))
  BY <1>0, CountFacts
<1>3. c[f].tx = Stat(st, f).tx + d.tx /\ c[f].rx = Stat(st, f).rx + d.rx /\ c[f].lost = Stat(st, f).lost + d.lost
      /\ c[f].rxBytes = Stat(st, f).rxBytes + d.rxBytes
  BY <1>0, CountFacts
<1> HIDE DEF c
<1>4. c[f].rx + c[f].lost + Copies(C, f) <= c[f].tx
  <2>1. Stat(st, f) \in Counter /\ Copies(C, f) \in Nat
    BY Balance DEF Copies, IsABag
  <2> QED
    BY <1>3, <2>1 DEF Counter
<1>5. \A x \in DOMAIN c : c[x].rx + c[x].lost + Copies(C, x) <= c[x].tx
  BY <1>1, <1>2, <1>4, Balance
<1>7. \A x \in DOMAIN c : c[x].rx = 0 => c[x].rxBytes = 0
  <2>1. Stat(st, f) \in Counter /\ (Stat(st, f).rx = 0 => Stat(st, f).rxBytes = 0)
    BY Balance
  <2>2. c[f].rx = 0 => c[f].rxBytes = 0
    BY <1>3, <2>1 DEF Counter
  <2> QED
    BY <1>1, <1>2, <2>2, Balance
<1>6. /\ DOMAIN c \subseteq AllFlows /\ IsFiniteSet(DOMAIN c)
      /\ DOMAIN C \subseteq AllFlows /\ DOMAIN C \subseteq DOMAIN c
  BY <1>1, FS_AddElement DEF FlowsOK
<1> QED
  BY <1>1, <1>2, <1>5, <1>6, <1>7 DEF FlowsOK, c

LEMMA Steps ==
  /\ Tx \in Counter /\ Tx.rxBytes = 0
  /\ Lost \in Counter /\ Lost.rxBytes = 0
  /\ \A n \in Nat : Rx(n) \in Counter /\ Rx(n).rx = 1
BY DEF Tx, Rx, Lost, Counter

\* A packet leaves.
LEMMA Leaves ==
  ASSUME NEW st, NEW B, FlowsOK(st, B), NEW f \in AllFlows
  PROVE  FlowsOK(Count(st, f, Tx), B (+) Packet(f))
<1> DEFINE C == B (+) Packet(f)
<1>1. /\ IsABag(C) /\ DOMAIN C = DOMAIN B \cup {f}
      /\ \A x : Copies(C, x) = Copies(B, x) + (IF x = f THEN 1 ELSE 0)
      /\ \A x : Copies(B, x) \in Nat
  BY PacketSent DEF FlowsOK, Copies, IsABag
<1> HIDE DEF C
<1>2. \A x : (x # f => Copies(C, x) = Copies(B, x)) /\ Copies(C, f) = Copies(B, f) + 1
  BY <1>1
<1>3. CASE opts.enableFlowMonitor
  <2>1. /\ Stat(st, f) \in Counter /\ Copies(B, f) \in Nat
        /\ Stat(st, f).rx + Stat(st, f).lost + Copies(B, f) <= Stat(st, f).tx
    BY <1>3, Balance
  <2>2. Stat(st, f).rx + Tx.rx + Stat(st, f).lost + Tx.lost + Copies(C, f) <= Stat(st, f).tx + Tx.tx
    BY <1>2, <2>1 DEF Tx, Counter
  <2> QED
    BY <1>1, <1>2, <1>3, <2>2, Steps, OneFlow DEF C
<1>4. CASE ~opts.enableFlowMonitor
  <2>1. Count(st, f, Tx) = st
    BY <1>4 DEF Count
  <2>2. DOMAIN C \subseteq AllFlows
    BY <1>1 DEF FlowsOK
  <2> QED
    BY <1>1, <1>4, <2>1, <2>2 DEF FlowsOK, C
<1> QED
  BY <1>3, <1>4

\* A packet arrives or is dropped, or vanishes unseen.
LEMMA Ends ==
  ASSUME NEW st, NEW B, FlowsOK(st, B), NEW f \in DOMAIN B, NEW n \in Nat
  PROVE  /\ FlowsOK(Count(st, f, Rx(n)), B (-) Packet(f))
         /\ FlowsOK(Count(st, f, Lost), B (-) Packet(f))
         /\ FlowsOK(st, B (-) Packet(f))
<1> DEFINE C == B (-) Packet(f)
<1>1. /\ IsABag(C) /\ DOMAIN C \subseteq DOMAIN B
      /\ \A x : Copies(C, x) = Copies(B, x) - (IF x = f THEN 1 ELSE 0)
      /\ \A x : Copies(B, x) \in Nat
  BY PacketGone DEF FlowsOK, Copies, IsABag
<1> HIDE DEF C
<1>2. \A x : (x # f => Copies(C, x) = Copies(B, x)) /\ Copies(C, f) = Copies(B, f) - 1
  BY <1>1
<1>3. f \in AllFlows /\ DOMAIN C \subseteq AllFlows
  BY <1>1 DEF FlowsOK
<1>4. FlowsOK(st, C)
  <2>1. \A x \in DOMAIN st : st[x].rx + st[x].lost + Copies(C, x) <= st[x].tx
    <3>1. \A x \in DOMAIN st : /\ st[x].rx \in Nat /\ st[x].lost \in Nat /\ st[x].rxBytes \in Nat /\ st[x].tx \in Nat
                               /\ st[x].rx + st[x].lost + Copies(B, x) <= st[x].tx
      BY DEF FlowsOK, Counter
    <3> QED
      BY <1>1, <1>2, <3>1
  <2> QED
    BY <1>1, <1>3, <2>1 DEF FlowsOK
<1>5. CASE opts.enableFlowMonitor
  <2>1. /\ Stat(st, f) \in Counter /\ Copies(B, f) \in Nat
        /\ Stat(st, f).rx + Stat(st, f).lost + Copies(B, f) <= Stat(st, f).tx
    BY <1>5, Balance
  <2>2. /\ Stat(st, f).rx + Rx(n).rx + Stat(st, f).lost + Rx(n).lost + Copies(C, f) <= Stat(st, f).tx + Rx(n).tx
        /\ Stat(st, f).rx + Lost.rx + Stat(st, f).lost + Lost.lost + Copies(C, f) <= Stat(st, f).tx + Lost.tx
    BY <1>2, <2>1 DEF Rx, Lost, Counter
  <2>3. DOMAIN C \subseteq DOMAIN B \cup {f}
    BY <1>1
  <2> QED
    BY <1>1, <1>2, <1>3, <1>4, <1>5, <2>2, <2>3, Steps, OneFlow DEF C
<1>6. CASE ~opts.enableFlowMonitor
  BY <1>4, <1>6 DEF Count, C
<1> QED
  BY <1>5, <1>6
----------------------------------------------------------------------------
(* What the receivers count.                                               *)

\* The first part of ReceivedInv, about counters st and receivers s.
ReceivedOK(st, s) ==
  opts.enableFlowMonitor =>
    \A e \in DOMAIN s.map :
      LET a == s.apps[s.map[e]]
          arrived == Total(st, To(st, e))
      IN /\ a.rx <= arrived.rx /\ (a.proto = "udp" => a.rx = arrived.rx)
         /\ a.rx + arrived.rx <= arrived.rxBytes
         /\ arrived.rx = 0 => arrived.rxBytes = 0

LEMMA ArrivedNatural ==
  ASSUME NEW st, IsFiniteSet(DOMAIN st), \A x \in DOMAIN st : st[x] \in Counter, NEW e
  PROVE  Total(st, To(st, e)).rx \in Nat /\ Total(st, To(st, e)).rxBytes \in Nat
<1>1. To(st, e) \in SUBSET DOMAIN st
  BY DEF To
<1>2. IsFiniteSet(To(st, e))
  BY <1>1, FS_Subset
<1>3. \A x \in To(st, e) : st[x].tx \in Nat /\ st[x].rx \in Nat /\ st[x].lost \in Nat /\ st[x].rxBytes \in Nat
  BY <1>1 DEF Counter
<1>4. Total(st, To(st, e)) \in Counter
  BY <1>2, <1>3, TotalFacts
<1> QED
  BY <1>4 DEF Counter

\* A packet that leaves, or is dropped, does not matter.
LEMMA ReceivedSame ==
  ASSUME NEW st, NEW B, FlowsOK(st, B), NEW s, ReceivedOK(st, s), NEW f, NEW d \in {Tx, Lost}
  PROVE  ReceivedOK(Count(st, f, d), s)
<1> SUFFICES ASSUME opts.enableFlowMonitor, NEW e \in DOMAIN s.map
             PROVE  /\ Total(Count(st, f, d), To(Count(st, f, d), e)).rx = Total(st, To(st, e)).rx
                    /\ Total(Count(st, f, d), To(Count(st, f, d), e)).rxBytes
                         = Total(st, To(st, e)).rxBytes
  BY DEF ReceivedOK
<1>1. d \in Counter /\ d.rx = 0 /\ d.rxBytes = 0
  BY Steps DEF Tx, Lost
<1>2. IsFiniteSet(DOMAIN st) /\ \A x \in DOMAIN st : st[x] \in Counter
  BY DEF FlowsOK
<1>3. Total(st, To(st, e)).rx \in Nat /\ Total(st, To(st, e)).rxBytes \in Nat
  BY <1>2, ArrivedNatural
<1>4. /\ Total(Count(st, f, d), To(Count(st, f, d), e)).rx
           = Total(st, To(st, e)).rx + (IF <<f.dst, f.dport>> = e THEN d.rx ELSE 0)
      /\ Total(Count(st, f, d), To(Count(st, f, d), e)).rxBytes
           = Total(st, To(st, e)).rxBytes + (IF <<f.dst, f.dport>> = e THEN d.rxBytes ELSE 0)
  BY <1>1, <1>2, ArrivedCounted
<1> QED
  BY <1>1, <1>3, <1>4

\* Nor does one that finds no receiver.
LEMMA ReceivedNowhere ==
  ASSUME NEW st, NEW B, FlowsOK(st, B), NEW s, ReceivedOK(st, s), NEW f,
         Dest(f) \notin DOMAIN s.map, NEW n \in Nat
  PROVE  ReceivedOK(Count(st, f, Rx(n)), s)
<1> SUFFICES ASSUME opts.enableFlowMonitor, NEW e \in DOMAIN s.map
             PROVE  /\ Total(Count(st, f, Rx(n)), To(Count(st, f, Rx(n)), e)).rx = Total(st, To(st, e)).rx
                    /\ Total(Count(st, f, Rx(n)), To(Count(st, f, Rx(n)), e)).rxBytes
                         = Total(st, To(st, e)).rxBytes
  BY DEF ReceivedOK
<1>1. <<f.dst, f.dport>> # e
  BY DEF Dest
<1>2. IsFiniteSet(DOMAIN st) /\ \A x \in DOMAIN st : st[x] \in Counter
  BY DEF FlowsOK
<1>3. Total(st, To(st, e)).rx \in Nat /\ Total(st, To(st, e)).rxBytes \in Nat
  BY <1>2, ArrivedNatural
<1>4. /\ Total(Count(st, f, Rx(n)), To(Count(st, f, Rx(n)), e)).rx
           = Total(st, To(st, e)).rx + (IF <<f.dst, f.dport>> = e THEN Rx(n).rx ELSE 0)
      /\ Total(Count(st, f, Rx(n)), To(Count(st, f, Rx(n)), e)).rxBytes
           = Total(st, To(st, e)).rxBytes + (IF <<f.dst, f.dport>> = e THEN Rx(n).rxBytes ELSE 0)
  BY <1>2, Steps, ArrivedCounted
<1> QED
  BY <1>1, <1>3, <1>4

\* A receiver counts n more.
Counted(s, a, n) == [s EXCEPT !.apps[a].rx = @ + n]

LEMMA ReceiverCounts ==
  ASSUME NEW s, SinksOK(s), NEW a \in DOMAIN s.apps, NEW n \in Nat,
         NEW new, new = Counted(s, a, n)
  PROVE  /\ SinksOK(new) /\ new.map = s.map /\ DOMAIN new.apps = DOMAIN s.apps
         /\ \A b \in DOMAIN s.apps : /\ new.apps[b].at = s.apps[b].at
                                     /\ new.apps[b].proto = s.apps[b].proto
                                     /\ b # a => new.apps[b].rx = s.apps[b].rx
         /\ new.apps[a].rx = s.apps[a].rx + n
<1> DEFINE app == [at |-> s.apps[a].at, proto |-> s.apps[a].proto, rx |-> s.apps[a].rx + n]
<1>1. s.apps \in Seq(AppType) /\ DOMAIN s.apps = 1 .. Len(s.apps)
  BY LenProperties DEF SinksOK
<1>2. \A b \in DOMAIN s.apps : s.apps[b] \in AppType
  BY <1>1, ElementOfSeq
<1>3. s = [apps |-> s.apps, map |-> s.map]
  BY DEF SinksOK
<1>4. [s.apps[a] EXCEPT !.rx = @ + n] = app /\ app \in AppType
  BY <1>2 DEF AppType
<1>5. new.map = s.map /\ new.apps = [s.apps EXCEPT ![a].rx = @ + n] /\ new = [apps |-> new.apps, map |-> new.map]
  BY <1>3 DEF Counted
<1>6. new.apps = [s.apps EXCEPT ![a] = app]
  BY <1>4, <1>5
<1>7. /\ app.at = s.apps[a].at /\ app.proto = s.apps[a].proto /\ app.rx = s.apps[a].rx + n
  OBVIOUS
<1> HIDE DEF app
<1>8. new.apps \in Seq(AppType) /\ DOMAIN new.apps = DOMAIN s.apps
  <2>1. a \in 1 .. Len(s.apps)
    BY <1>1
  <2> DEFINE seq == s.apps
             res == [seq EXCEPT ![a] = app]
  <2>2. res \in Seq(AppType) /\ Len(res) = Len(seq)
    <3> HIDE DEF seq, res
    <3>1. seq \in Seq(AppType) /\ a \in 1 .. Len(seq)
      BY <1>1, <2>1 DEF seq
    <3> QED
      BY <1>4, <3>1, ExceptSeq DEF res
  <2>3. res = new.apps /\ DOMAIN res = DOMAIN seq
    BY <1>6
  <2> QED
    BY <2>2, <2>3
<1>9. \A b \in DOMAIN s.apps : (b # a => new.apps[b] = s.apps[b]) /\ new.apps[a] = app
  BY <1>6
<1>10. \A b \in DOMAIN s.apps : /\ new.apps[b].at = s.apps[b].at
                                /\ new.apps[b].proto = s.apps[b].proto
                                /\ b # a => new.apps[b].rx = s.apps[b].rx
  BY <1>7, <1>9
<1>11. SinksOK(new)
  BY <1>5, <1>8, <1>10 DEF SinksOK
<1> QED
  BY <1>5, <1>7, <1>8, <1>9, <1>10, <1>11

\* What a packet brings: the data for the receiver come on top of the headers.
LEMMA CarriedFacts ==
  ASSUME NEW proto, NEW c \in Carried(proto)
  PROVE  /\ c.data \in {0, 1} /\ (proto = "udp" => c.data = 1)
         /\ c.size \in Nat /\ c.data + 1 <= c.size
BY DEF Carried, Headers, Data

\* A packet arrives at a receiver, which counts it or not, a datagram always.
LEMMA ReceivedCounted ==
  ASSUME NEW st, NEW B, FlowsOK(st, B), NEW s, SinksOK(s), ReceivedOK(st, s), NEW f,
         Dest(f) \in DOMAIN s.map, NEW n \in {0, 1},
         s.apps[s.map[Dest(f)]].proto = "udp" => n = 1, NEW size \in Nat, n + 1 <= size,
         NEW new, new = Counted(s, s.map[Dest(f)], n)
  PROVE  ReceivedOK(Count(st, f, Rx(size)), new)
<1> DEFINE d == Dest(f)
           a == s.map[d]
<1>1. a \in DOMAIN s.apps /\ n \in Nat
  BY DEF SinksOK
<1>2. /\ new.map = s.map
      /\ \A b \in DOMAIN s.apps : /\ new.apps[b].proto = s.apps[b].proto
                                  /\ b # a => new.apps[b].rx = s.apps[b].rx
      /\ new.apps[a].rx = s.apps[a].rx + n
  <2>1. new = Counted(s, a, n)
    OBVIOUS
  <2> HIDE DEF a
  <2> QED
    BY <1>1, <2>1, ReceiverCounts
<1> SUFFICES ASSUME opts.enableFlowMonitor, NEW e \in DOMAIN s.map
             PROVE  LET r == new.apps[s.map[e]]
                        arrived == Total(Count(st, f, Rx(size)), To(Count(st, f, Rx(size)), e))
                    IN /\ r.rx <= arrived.rx /\ (r.proto = "udp" => r.rx = arrived.rx)
                       /\ r.rx + arrived.rx <= arrived.rxBytes
                       /\ arrived.rx = 0 => arrived.rxBytes = 0
  BY <1>2 DEF ReceivedOK
<1> DEFINE then == Total(st, To(st, e))
           after == Total(Count(st, f, Rx(size)), To(Count(st, f, Rx(size)), e))
           old == then.rx
           now == after.rx
           oldBytes == then.rxBytes
           nowBytes == after.rxBytes
<1>3. IsFiniteSet(DOMAIN st) /\ \A x \in DOMAIN st : st[x] \in Counter
  BY DEF FlowsOK
<1>4. old \in Nat /\ oldBytes \in Nat
  BY <1>3, ArrivedNatural
<1>5. now = old + (IF d = e THEN 1 ELSE 0) /\ nowBytes = oldBytes + (IF d = e THEN size ELSE 0)
  <2>1. /\ now = old + (IF d = e THEN Rx(size).rx ELSE 0)
        /\ nowBytes = oldBytes + (IF d = e THEN Rx(size).rxBytes ELSE 0)
    BY <1>3, Steps, ArrivedCounted DEF Dest
  <2>2. Rx(size).rx = 1 /\ Rx(size).rxBytes = size
    BY DEF Rx
  <2> QED
    BY <2>1, <2>2
<1>6. /\ s.apps[s.map[e]].rx <= old /\ (s.apps[s.map[e]].proto = "udp" => s.apps[s.map[e]].rx = old)
      /\ s.apps[s.map[e]].rx + old <= oldBytes /\ (old = 0 => oldBytes = 0)
  BY DEF ReceivedOK
<1>7. s.map[e] \in DOMAIN s.apps /\ s.apps[s.map[e]].at = e /\ s.apps[a].at = d
  BY DEF SinksOK
<1>8. s.apps[s.map[e]].rx \in Nat
  <2>1. s.apps \in Seq(AppType) /\ DOMAIN s.apps = 1 .. Len(s.apps)
    BY LenProperties DEF SinksOK
  <2>2. s.apps[s.map[e]] \in AppType
    BY <1>7, <2>1, ElementOfSeq
  <2> QED
    BY <2>2 DEF AppType
<1> HIDE DEF old, now, oldBytes, nowBytes
<1>9. CASE e = d
  <2>1. now = old + 1 /\ nowBytes = oldBytes + size /\ s.map[e] = a /\ (s.apps[a].proto = "udp" => n = 1)
    BY <1>5, <1>9
  <2>2. new.apps[a].proto = s.apps[a].proto /\ new.apps[a].rx = s.apps[a].rx + n
    BY <1>1, <1>2
  <2>3. /\ new.apps[a].rx <= now /\ (new.apps[a].proto = "udp" => new.apps[a].rx = now)
        /\ new.apps[a].rx + now <= nowBytes /\ now # 0
    <3> HIDE DEF a
    <3> QED
      BY <1>4, <1>6, <1>8, <2>1, <2>2
  <2> QED
    BY <2>1, <2>3 DEF now, nowBytes
<1>10. CASE e # d
  <2>1. now = old /\ nowBytes = oldBytes
    BY <1>4, <1>5, <1>10
  <2>2. s.map[e] # a
    BY <1>7, <1>10
  <2>3. /\ new.apps[s.map[e]].proto = s.apps[s.map[e]].proto
        /\ new.apps[s.map[e]].rx = s.apps[s.map[e]].rx
    BY <1>2, <1>7, <2>2
  <2> QED
    BY <1>6, <2>1, <2>3 DEF now, nowBytes
<1> QED
  BY <1>9, <1>10

\* The receiver of a flow, if there is one.
LEMMA ReceiversOf ==
  ASSUME TypeOK, SourcesInv, SinkInv, NEW f \in AllFlows
  PROVE  /\ Dest(f) \in DOMAIN sinks.map =>
              /\ Receivers(f) = {sinks.map[Dest(f)]}
              /\ Min(Receivers(f)) = sinks.map[Dest(f)]
              /\ sinks.apps[sinks.map[Dest(f)]].proto = f.proto
         /\ Dest(f) \notin DOMAIN sinks.map => Receivers(f) = {}
<1> DEFINE e == Dest(f)
           a == sinks.map[e]
<1>1. SinksOK(sinks)
  BY SinksOKNow
<1>2. ASSUME NEW b \in Receivers(f) PROVE e \in DOMAIN sinks.map /\ b = a
  <2>1. b \in DOMAIN sinks.apps /\ sinks.apps[b].at = e
    BY DEF Receivers, Dest
  <2> QED
    BY <1>1, <2>1 DEF SinksOK
<1>3. ASSUME e \in DOMAIN sinks.map
      PROVE  a \in Nat /\ a \in DOMAIN sinks.apps /\ sinks.apps[a].at = e /\ sinks.apps[a].proto = f.proto
  <2>1. a \in DOMAIN sinks.apps /\ sinks.apps[a].at = e /\ sinks.apps[a].proto = Transport(f.dport)
    <3>1. a \in DOMAIN sinks.apps /\ sinks.apps[a].at = e
      BY <1>1, <1>3 DEF SinksOK
    <3>2. sinks.apps[a].proto = Transport(sinks.apps[a].at[2])
      BY <1>1, <3>1 DEF SinksOK
    <3>3. e[2] = f.dport
      BY DEF Dest
    <3> HIDE DEF a, e
    <3> QED
      BY <3>1, <3>2, <3>3
  <2>2. a \in Nat
    <3>1. sinks.apps \in Seq(AppType) /\ DOMAIN sinks.apps = 1 .. Len(sinks.apps) /\ Len(sinks.apps) \in Nat
      BY <1>1, LenProperties DEF SinksOK
    <3> QED
      BY <2>1, <3>1
  <2>3. f.dport \in 9001 .. 9011
    BY <1>1, <1>3 DEF SinksOK, Endpoints, Dest
  <2>4. f.proto = Transport(f.dport)
    <3> HIDE DEF e, a
    <3> QED
      BY <2>3, FlowShape
  <2> QED
    BY <2>1, <2>2, <2>4
<1>4. ASSUME e \in DOMAIN sinks.map PROVE Receivers(f) = {a}
  <2>1. a \in Receivers(f)
    BY <1>3, <1>4 DEF Receivers, Dest
  <2> QED
    BY <1>2, <2>1
<1>5. ASSUME e \in DOMAIN sinks.map PROVE Min(Receivers(f)) = a
  <2> HIDE DEF a
  <2>1. a \in Nat /\ Receivers(f) = {a}
    BY <1>3, <1>4, <1>5
  <2>2. Min({a}) = a
    BY <2>1 DEF Min
  <2> QED
    BY <2>1, <2>2
<1> QED
  BY <1>2, <1>3, <1>4, <1>5
----------------------------------------------------------------------------
(* The run.                                                                *)

LEMMA FlowsNow ==
  ASSUME TypeOK, FlowInv, phase # "measured"
  PROVE  FlowsOK(stats, air)
<1>1. \A f \in DOMAIN stats : stats[f].rx + stats[f].lost + Copies(air, f) <= stats[f].tx
  BY DEF FlowInv, Copies
<1>2. DOMAIN air \subseteq AllFlows
  BY DEF TypeOK, BagToSet
<1> QED
  BY <1>1, <1>2 DEF TypeOK, FlowInv, FlowsOK

\* The flows are those of the sources.
LEMMA SameFlows ==
  ASSUME UNCHANGED g_trafficSources
  PROVE  AllFlows' = AllFlows
BY DEF AllFlows, Flows, Flow

\* The parts together, after a step of the run.
LEMMA StillRunning ==
  ASSUME HomeInv, phase' = "run", UNCHANGED <<opts, nextClientIndex, g_trafficSources, files>>,
         phase = "run" \/ (phase = "deploy" /\ nextClientIndex = Clients(K_TYPES)),
         FlowsOK(stats', air'), SinksOK(sinks'), DOMAIN sinks'.map = DOMAIN sinks.map,
         ReceivedOK(stats', sinks'),
         late' \in BOOLEAN, sent' \in 0 .. MaxSent,
         opts.duration = 0 => DOMAIN air' = {} /\ Idle(sinks')
  PROVE  HomeInv'
<1>1. /\ TypeOK /\ SourcesInv /\ SinkInv /\ AllFlows' = AllFlows
      /\ opts' = opts /\ nextClientIndex' = nextClientIndex /\ g_trafficSources' = g_trafficSources
      /\ report' = report /\ flows' = flows /\ summary' = summary
  BY SameFlows DEF HomeInv, files
<1>2. TypeOK'
  <2>1. /\ opts' \in [enableFlowMonitor : BOOLEAN, enableCsv : BOOLEAN, duration : Nat]
        /\ phase' \in {"deploy", "run", "measured"}
        /\ nextClientIndex' \in 0 .. N_EQUIPMENTS
        /\ g_trafficSources' \in Seq([from : ClientNodes \cup ServerNodes, to : Endpoints,
                                     proto : {"udp", "tcp"}, start : {0, UpdateStart}])
    BY <1>1 DEF TypeOK
  <2>2. /\ sinks' = [apps |-> sinks'.apps, map |-> sinks'.map]
        /\ sinks'.apps \in Seq([at : Endpoints, proto : {"udp", "tcp"}, rx : Nat])
        /\ DOMAIN sinks'.map \subseteq Endpoints
        /\ \A e \in DOMAIN sinks'.map : sinks'.map[e] \in DOMAIN sinks'.apps
    BY DEF SinksOK, AppType
  <2>3. /\ IsABag(air') /\ BagToSet(air') \subseteq AllFlows'
        /\ DOMAIN stats' \subseteq AllFlows'
        /\ \A f \in DOMAIN stats' : stats'[f] \in Counter
    BY <1>1 DEF FlowsOK, BagToSet
  <2>4. /\ \A e \in DOMAIN report' :
             report'[e] \in ResultRow
        /\ \A f \in DOMAIN flows' :
             flows'[f] \in FlowsRow
        /\ \A e \in DOMAIN summary' :
             summary'[e] \in FlowsRow
    BY <1>1 DEF TypeOK
  <2> QED
    BY <2>1, <2>2, <2>3, <2>4 DEF TypeOK
<1>3. SourcesInv'
  BY <1>1 DEF SourcesInv
<1>4. SinkInv'
  BY <1>1 DEF SinksOK, SinkInv
<1>5. FlowInv'
  BY <1>1 DEF FlowsOK, FlowInv, Copies
<1>6. ReceivedInv'
  BY <1>1 DEF ReceivedOK, ReceivedInv, Idle
<1>7. ReportInv'
  <2>1. phase # "measured"
    OBVIOUS
  <2> QED
    BY <1>1, <2>1 DEF ReportInv, HomeInv
<1> QED
  BY <1>2, <1>3, <1>4, <1>5, <1>6, <1>7 DEF HomeInv

\* The parts, before it.
LEMMA Running ==
  ASSUME HomeInv, phase # "measured"
  PROVE  /\ TypeOK /\ SourcesInv /\ SinkInv
         /\ FlowsOK(stats, air) /\ SinksOK(sinks) /\ ReceivedOK(stats, sinks)
         /\ late \in BOOLEAN /\ sent \in 0 .. MaxSent
         /\ phase = "deploy" \/ opts.duration = 0 => DOMAIN air = {} /\ Idle(sinks)
<1>1. TypeOK /\ SourcesInv /\ SinkInv /\ FlowInv /\ ReceivedInv
  BY DEF HomeInv
<1>2. FlowsOK(stats, air) /\ SinksOK(sinks)
  BY <1>1, FlowsNow, SinksOKNow
<1>3. ReceivedOK(stats, sinks)
  BY <1>1 DEF ReceivedInv, ReceivedOK
<1>4. late \in BOOLEAN /\ sent \in 0 .. MaxSent
  BY <1>1 DEF TypeOK
<1>5. phase = "deploy" \/ opts.duration = 0 => DOMAIN air = {} /\ Idle(sinks)
  BY <1>1 DEF ReceivedInv, Idle
<1> QED
  BY <1>1, <1>2, <1>3, <1>4, <1>5

LEMMA LaunchStep ==
  ASSUME HomeInv, Launch
  PROVE  HomeInv'
<1>1. phase = "deploy" /\ phase' = "run" /\ nextClientIndex = Clients(K_TYPES)
      /\ UNCHANGED <<opts, nextClientIndex, g_trafficSources, files>>
      /\ stats' = stats /\ air' = air /\ sinks' = sinks /\ late' = late /\ sent' = sent
  BY DEF Launch
<1> QED
  BY <1>1, Running, StillRunning

LEMMA AdvanceStep ==
  ASSUME HomeInv, Advance
  PROVE  HomeInv'
<1>1. phase = "run" /\ phase' = "run" /\ UNCHANGED <<opts, nextClientIndex, g_trafficSources, files>>
      /\ stats' = stats /\ air' = air /\ sinks' = sinks /\ late' \in BOOLEAN /\ sent' = sent
  BY DEF Advance
<1> QED
  BY <1>1, Running, StillRunning

LEMMA SendStep ==
  ASSUME HomeInv, NEW i \in DOMAIN g_trafficSources, Send(i)
  PROVE  HomeInv'
<1>1. /\ phase = "run" /\ phase' = "run" /\ UNCHANGED <<opts, nextClientIndex, g_trafficSources, files>>
      /\ sinks' = sinks /\ late' = late /\ sent < MaxSent /\ sent' = sent + 1
      /\ opts.duration > 0
      /\ air' = air (+) Packet(Flow(i)) /\ stats' = Count(stats, Flow(i), Tx)
  BY DEF Send
<1>2. Flow(i) \in AllFlows
  BY DEF AllFlows, Flows
<1>3. FlowsOK(stats, air) /\ SinksOK(sinks) /\ ReceivedOK(stats, sinks) /\ late \in BOOLEAN /\ sent \in 0 .. MaxSent
  BY <1>1, Running
<1>4. sent' \in 0 .. MaxSent
  BY <1>1, <1>3, DeploymentAssumption
<1>5. FlowsOK(stats', air') /\ ReceivedOK(stats', sinks')
  BY <1>1, <1>2, <1>3, Leaves, ReceivedSame
<1>6. opts.duration # 0
  BY <1>1
<1> QED
  BY <1>1, <1>3, <1>4, <1>5, <1>6, StillRunning

LEMMA LoseStep ==
  ASSUME HomeInv, NEW f \in BagToSet(air), Lose(f)
  PROVE  HomeInv'
<1>1. /\ phase = "run" /\ phase' = "run" /\ UNCHANGED <<opts, nextClientIndex, g_trafficSources, files>>
      /\ sinks' = sinks /\ late' = late /\ sent' = sent
      /\ air' = air (-) Packet(f) /\ (stats' = Count(stats, f, Lost) \/ stats' = stats)
  BY DEF Lose
<1>2. f \in DOMAIN air
  BY DEF BagToSet
<1>3. /\ FlowsOK(stats, air) /\ SinksOK(sinks) /\ ReceivedOK(stats, sinks) /\ late \in BOOLEAN /\ sent \in 0 .. MaxSent
      /\ opts.duration # 0
  BY <1>1, <1>2, Running
<1>4. FlowsOK(stats', air')
  BY <1>1, <1>2, <1>3, Ends
<1>5. ReceivedOK(stats', sinks')
  BY <1>1, <1>3, ReceivedSame
<1> QED
  BY <1>1, <1>3, <1>4, <1>5, StillRunning

\* A receiver acknowledges what comes over TCP.
LEMMA Acknowledged ==
  ASSUME TypeOK, SourcesInv, SinkInv, NEW f \in AllFlows, Dest(f) \in DOMAIN sinks.map, f.proto # "udp"
  PROVE  ReturnFlow(f) \in AllFlows
<1>1. f.dport \in 9001 .. 9011
  BY DEF TypeOK, Endpoints, Dest
<1>2. f \in Flows /\ f.proto = Transport(f.dport)
  BY <1>1, FlowShape
<1>3. f.proto = "tcp"
  BY <1>2 DEF Transport
<1> QED
  BY <1>2, <1>3 DEF AllFlows

LEMMA DeliverStep ==
  ASSUME HomeInv, NEW f \in BagToSet(air), Deliver(f)
  PROVE  HomeInv'
<1> DEFINE a == sinks.map[Dest(f)]
           B == air (-) Packet(f)
           st(size) == Count(stats, f, Rx(size))
<1>1. /\ phase = "run" /\ phase' = "run" /\ UNCHANGED <<opts, nextClientIndex, g_trafficSources, files>>
      /\ late' = late /\ sent' = sent
  BY DEF Deliver
<1>2. f \in DOMAIN air
  BY DEF BagToSet
<1>3. /\ TypeOK /\ SourcesInv /\ SinkInv
      /\ FlowsOK(stats, air) /\ SinksOK(sinks) /\ ReceivedOK(stats, sinks) /\ late \in BOOLEAN /\ sent \in 0 .. MaxSent
      /\ opts.duration # 0
  BY <1>1, <1>2, Running
<1>4. f \in AllFlows
  BY <1>2, <1>3 DEF FlowsOK
<1>5. \A size \in Nat : FlowsOK(st(size), B)
  BY <1>2, <1>3, Ends
<1>6. CASE Dest(f) \notin DOMAIN sinks.map
  <2>1. Receivers(f) = {}
    BY <1>3, <1>4, <1>6, ReceiversOf
  <2>2. air' = B /\ stats' = st(Headers) /\ sinks' = sinks
    BY <2>1 DEF Deliver
  <2>3. FlowsOK(st(Headers), B) /\ ReceivedOK(st(Headers), sinks)
    BY <1>3, <1>5, <1>6, ReceivedNowhere DEF Headers
  <2> HIDE DEF B, st
  <2> QED
    BY <1>1, <1>3, <2>2, <2>3, StillRunning
<1>7. CASE Dest(f) \in DOMAIN sinks.map
  <2>1. Receivers(f) # {} /\ Min(Receivers(f)) = a /\ sinks.apps[a].proto = f.proto /\ a \in DOMAIN sinks.apps
    <3>1. Receivers(f) = {a} /\ Min(Receivers(f)) = a /\ sinks.apps[a].proto = f.proto
      BY <1>3, <1>4, <1>7, ReceiversOf
    <3>2. a \in DOMAIN sinks.apps
      BY <1>3, <1>7 DEF SinksOK
    <3> QED
      BY <3>1, <3>2
  <2>2. PICK c \in Carried(f.proto) :
          /\ sinks' = Counted(sinks, a, c.data)
          /\ IF f.proto = "udp" THEN air' = B /\ stats' = st(c.size)
             ELSE /\ air' = B (+) Packet(ReturnFlow(f))
                  /\ stats' = Count(st(c.size), ReturnFlow(f), Tx)
    BY <2>1 DEF Deliver, Counted
  <2> DEFINE size == c.size
  <2>7. c.data \in {0, 1} /\ (f.proto = "udp" => c.data = 1) /\ size \in Nat /\ c.data + 1 <= size
    BY CarriedFacts
  <2>3. SinksOK(sinks') /\ DOMAIN sinks'.map = DOMAIN sinks.map
    <3> HIDE DEF a
    <3> QED
      BY <1>3, <2>1, <2>2, <2>7, ReceiverCounts
  <2>4. FlowsOK(st(size), B) /\ ReceivedOK(st(size), sinks')
    BY <1>3, <1>5, <1>7, <2>1, <2>2, <2>7, ReceivedCounted
  <2>5. CASE f.proto = "udp"
    <3>1. air' = B /\ stats' = st(size)
      BY <2>2, <2>5
    <3> HIDE DEF B, st, size
    <3> QED
      BY <1>1, <1>3, <2>3, <2>4, <3>1, StillRunning
  <2>6. CASE f.proto # "udp"
    <3> DEFINE r == ReturnFlow(f)
    <3>1. air' = B (+) Packet(r) /\ stats' = Count(st(size), r, Tx)
      BY <2>2, <2>6
    <3>2. r \in AllFlows
      BY <1>3, <1>4, <1>7, <2>6, Acknowledged
    <3> HIDE DEF B, st, r, size
    <3>3. FlowsOK(stats', air') /\ ReceivedOK(stats', sinks')
      BY <2>4, <3>1, <3>2, Leaves, ReceivedSame
    <3> QED
      BY <1>1, <1>3, <2>3, <3>3, StillRunning
  <2> QED
    BY <2>5, <2>6
<1> QED
  BY <1>6, <1>7

\* Nothing was counted before the simulation runs.
LEMMA NothingArrived ==
  ASSUME NEW st, DOMAIN st = {}, NEW e
  PROVE  Total(st, To(st, e)).rx = 0 /\ Total(st, To(st, e)).rxBytes = 0
<1>1. To(st, e) = {} /\ IsFiniteSet({})
  BY FS_EmptySet DEF To
<1>2. /\ Total(st, {}).rx = Sum([f \in {} |-> st[f].rx], {})
      /\ Total(st, {}).rxBytes = Sum([f \in {} |-> st[f].rxBytes], {})
  BY <1>1, TotalFacts
<1> QED
  BY <1>1, <1>2, SumEmpty

LEMMA ConfigureStep ==
  ASSUME HomeInv, NEW t \in 1 .. K_TYPES, Configure(t)
  PROVE  HomeInv'
<1>1. phase = "deploy" /\ UNCHANGED <<opts, phase, late, air, sent, stats, files>>
  BY DEF Configure
<1>2. TypeOK /\ SourcesInv /\ SinkInv /\ FlowInv /\ ReceivedInv
  BY DEF HomeInv
<1>3. /\ SourcesInv' /\ nextClientIndex' \in 0 .. N_EQUIPMENTS
      /\ g_trafficSources' \in Seq(SourceType)
  BY <1>2, SourcesStep
<1>4. SinksOK(sinks)' /\ SinkInv' /\ Idle(sinks)'
  BY <1>2, SinksStep
<1>5. DOMAIN air = {} /\ DOMAIN stats = {}
  BY <1>1, <1>2 DEF ReceivedInv, FlowInv
<1>6. TypeOK'
  <2>1. /\ opts' \in [enableFlowMonitor : BOOLEAN, enableCsv : BOOLEAN, duration : Nat]
        /\ phase' \in {"deploy", "run", "measured"}
        /\ late' \in BOOLEAN /\ sent' \in 0 .. MaxSent
        /\ IsABag(air') /\ BagToSet(air') = {}
        /\ DOMAIN stats' = {}
    BY <1>1, <1>2, <1>5 DEF TypeOK, BagToSet
  <2>2. /\ sinks' = [apps |-> sinks'.apps, map |-> sinks'.map]
        /\ sinks'.apps \in Seq([at : Endpoints, proto : {"udp", "tcp"}, rx : Nat])
        /\ DOMAIN sinks'.map \subseteq Endpoints
        /\ \A e \in DOMAIN sinks'.map : sinks'.map[e] \in DOMAIN sinks'.apps
    BY <1>4 DEF SinksOK, AppType
  <2>3. g_trafficSources' \in Seq([from : ClientNodes \cup ServerNodes, to : Endpoints,
                                   proto : {"udp", "tcp"}, start : {0, UpdateStart}])
    BY <1>3 DEF SourceType
  <2>4. /\ \A e \in DOMAIN report' :
             report'[e] \in ResultRow
        /\ \A f \in DOMAIN flows' :
             flows'[f] \in FlowsRow
        /\ \A e \in DOMAIN summary' :
             summary'[e] \in FlowsRow
    BY <1>1, <1>2 DEF TypeOK, files
  <2> QED
    BY <1>3, <2>1, <2>2, <2>3, <2>4 DEF TypeOK
<1>7. FlowInv'
  BY <1>1, <1>2, <1>5 DEF FlowInv
<1>8. ReceivedInv'
  <2>1. \A e \in DOMAIN sinks'.map : sinks'.apps[sinks'.map[e]].rx = 0
    BY <1>4 DEF SinksOK, Idle
  <2>2. \A e : Total(stats', To(stats', e)).rx = 0 /\ Total(stats', To(stats', e)).rxBytes = 0
    BY <1>1, <1>5, NothingArrived
  <2>3. DOMAIN air' = {} /\ \A a \in DOMAIN sinks'.apps : sinks'.apps[a].rx = 0
    BY <1>1, <1>4, <1>5 DEF Idle
  <2> QED
    BY <2>1, <2>2, <2>3 DEF ReceivedInv
<1>9. ReportInv'
  BY <1>1 DEF ReportInv, HomeInv, files
<1> QED
  BY <1>3, <1>4, <1>6, <1>7, <1>8, <1>9 DEF HomeInv
----------------------------------------------------------------------------
(* The metrics.                                                            *)

\* A percentage of what was sent; all of it only if nothing arrived.
LEMMA LossFacts ==
  ASSUME NEW a, a \in Counter, a.rx <= a.tx
  PROVE  /\ Loss(a) \in 0 .. 100
         /\ a.rx > 0 => Loss(a) \in 0 .. 99
<1> DEFINE t == a.tx
           r == a.rx
           q == ((t - r) * 100) \div t
<1>1. t \in Nat /\ r \in Nat /\ r <= t
  BY DEF Counter
<1>2. Loss(a) = IF t > 0 THEN q ELSE 0
  BY DEF Loss
<1> HIDE DEF t, r
<1>3. CASE t > 0
  <2>1. q \in Int /\ t * q <= (t - r) * 100 /\ (t - r) * 100 < t * q + t
    BY <1>1, <1>3
  <2> HIDE DEF q
  <2>2. q >= 0
    <3> SUFFICES ASSUME q <= -1 PROVE FALSE
      BY <2>1
    <3>1. t * q <= t * (-1)
      BY <1>1, <2>1
    <3> QED
      BY <1>1, <2>1, <3>1
  <2>3. q <= 100
    <3> SUFFICES ASSUME q >= 101 PROVE FALSE
      BY <2>1
    <3>1. t * q >= t * 101
      BY <1>1, <2>1
    <3> QED
      BY <1>1, <1>3, <2>1, <3>1
  <2>4. r > 0 => q # 100
    BY <1>1, <2>1
  <2> QED
    BY <1>1, <1>2, <1>3, <2>1, <2>2, <2>3, <2>4 DEF r
<1>4. CASE ~(t > 0)
  BY <1>1, <1>2, <1>4 DEF r
<1> QED
  BY <1>3, <1>4

\* The counters after a run.
StatsOK(st) ==
  /\ IsFiniteSet(DOMAIN st)
  /\ \A f \in DOMAIN st : st[f] \in Counter /\ st[f].rx + st[f].lost <= st[f].tx

\* The figures of a receiver.
LEMMA AggregateFacts ==
  ASSUME NEW st, StatsOK(st), NEW e
  PROVE  /\ Aggregate(st, e) \in Counter
         /\ Aggregate(st, e).rx + Aggregate(st, e).lost <= Aggregate(st, e).tx
         /\ Loss(Aggregate(st, e)) \in 0 .. 100
<1> DEFINE M == {f \in DOMAIN st : Matches(f, e)}
<1>1. M \in SUBSET DOMAIN st /\ Aggregate(st, e) = Total(st, M)
  BY DEF Aggregate
<1>2. IsFiniteSet(M)
  BY <1>1, FS_Subset DEF StatsOK
<1>3. /\ \A f \in M : st[f].tx \in Nat /\ st[f].rx \in Nat /\ st[f].lost \in Nat /\ st[f].rxBytes \in Nat
      /\ \A f \in M : st[f].rx + st[f].lost <= st[f].tx
  BY <1>1 DEF StatsOK, Counter
<1> HIDE DEF M
<1>4. Total(st, M) \in Counter /\ Total(st, M).rx + Total(st, M).lost <= Total(st, M).tx
  BY <1>2, <1>3, TotalFacts
<1> DEFINE a == Total(st, M)
<1>5. a \in Counter /\ a.rx <= a.tx
  BY <1>4 DEF Counter
<1> HIDE DEF a
<1>6. Loss(a) \in 0 .. 100
  BY <1>5, LossFacts
<1> QED
  BY <1>1, <1>4, <1>6 DEF a

LEMMA RowFacts ==
  ASSUME NEW st, StatsOK(st), SinksOK(sinks), NEW e \in DOMAIN sinks.map, opts.duration \in Nat
  PROVE  /\ Row(st, e) \in ResultRow /\ Row(st, e).lossPct \in 0 .. 100
         /\ SummaryRow(st, e) \in FlowsRow /\ SummaryRow(st, e).lossPct \in 0 .. 100
         /\ SummaryRow(st, e).throughput[2] > 0
<1> DEFINE a == Aggregate(st, e)
           app == sinks.apps[sinks.map[e]]
           d == opts.duration
           x == <<app.rx, d>>
           y == IF d > 0 THEN <<a.rxBytes, d>> ELSE NoThroughput
<1>1. a \in Counter /\ Loss(a) \in 0 .. 100
  BY AggregateFacts
<1>2. app.rx \in Nat
  <2>1. sinks.apps \in Seq(AppType) /\ DOMAIN sinks.apps = 1 .. Len(sinks.apps) /\ sinks.map[e] \in DOMAIN sinks.apps
    BY LenProperties DEF SinksOK
  <2>2. app \in AppType
    BY <2>1, ElementOfSeq
  <2> QED
    BY <2>2 DEF AppType
<1>3. /\ Row(st, e) = [received |-> app.rx, throughput |-> x, lossPct |-> Loss(a)]
      /\ SummaryRow(st, e) = [tx |-> a.tx, rx |-> a.rx, lost |-> a.lost, lossPct |-> Loss(a),
                              rxBytes |-> a.rxBytes, throughput |-> y]
  BY DEF Row, SummaryRow
<1>4. a.tx \in Nat /\ a.rx \in Nat /\ a.lost \in Nat /\ a.rxBytes \in Nat
  BY <1>1 DEF Counter
<1> HIDE DEF a, app
<1>5. x \in Nat \X Nat /\ y \in Nat \X Nat /\ y[2] > 0
  BY <1>2, <1>4 DEF NoThroughput
<1>6. Loss(a) \in Nat
  BY <1>1
<1> HIDE DEF x, y
<1> QED
  BY <1>1, <1>2, <1>3, <1>4, <1>5, <1>6 DEF ResultRow, FlowsRow

\* A flow lasts for a part of the simulation.
LEMMA LastingFacts ==
  ASSUME NEW st, NEW span \in Lasting(st), NEW f \in DOMAIN st
  PROVE  span[f] \in Nat /\ span[f] <= opts.duration
<1>1. span \in [DOMAIN st -> {0} \cup Spans] /\ span[f] <= opts.duration
  BY DEF Lasting
<1>2. span[f] \in {0} \cup Spans
  BY <1>1
<1>3. Spans \subseteq Nat
  BY DeploymentAssumption
<1>4. span[f] \in Nat
  <2> DEFINE k == span[f]
  <2>1. k = 0 \/ k \in Spans
    BY <1>2
  <2> HIDE DEF k
  <2>2. CASE k = 0
    BY <2>2 DEF k
  <2>3. CASE k \in Spans
    BY <1>3, <2>3, Zenon DEF k
  <2> QED
    BY <2>1, <2>2, <2>3
<1>5. span[f] <= opts.duration
  BY <1>1
<1> QED
  BY <1>4, <1>5

LEMMA FlowRowFacts ==
  ASSUME NEW st, StatsOK(st), NEW f \in DOMAIN st, NEW span \in Lasting(st)
  PROVE  /\ FlowRow(st, f, span) \in FlowsRow /\ FlowRow(st, f, span).lossPct \in 0 .. 100
         /\ FlowRow(st, f, span).throughput[2] > 0
         /\ FlowRow(st, f, span).throughput[1] > 0 => st[f].rxBytes > 0
<1> DEFINE x == IF span[f] > 0 THEN <<st[f].rxBytes, span[f]>> ELSE NoThroughput
<1>1. st[f] \in Counter /\ st[f].rx <= st[f].tx
  BY DEF StatsOK, Counter
<1>2. Loss(st[f]) \in 0 .. 100
  BY <1>1, LossFacts
<1>3. span[f] \in Nat
  BY LastingFacts
<1>4. st[f].tx \in Nat /\ st[f].rx \in Nat /\ st[f].lost \in Nat /\ st[f].rxBytes \in Nat
  BY <1>1 DEF Counter
<1>5. x \in Nat \X Nat /\ x[2] > 0 /\ (x[1] > 0 => st[f].rxBytes > 0)
  BY <1>3, <1>4 DEF NoThroughput
<1>6. FlowRow(st, f, span) = [tx |-> st[f].tx, rx |-> st[f].rx, lost |-> st[f].lost,
                              lossPct |-> Loss(st[f]), rxBytes |-> st[f].rxBytes, throughput |-> x]
  BY DEF FlowRow
<1> HIDE DEF x
<1>7. Loss(st[f]) \in Nat
  BY <1>2
<1> QED
  BY <1>2, <1>4, <1>5, <1>6, <1>7 DEF FlowsRow

\* CheckForLostPackets counts packets as lost that were neither seen to arrive nor
\* to be dropped, and changes nothing else.
LEMMA Checked ==
  ASSUME TypeOK, FlowInv, phase # "measured", NEW old \in Overdue
  PROVE  LET new == CheckForLostPackets(old)
         IN /\ DOMAIN new = DOMAIN stats /\ StatsOK(new)
            /\ \A f \in DOMAIN stats : /\ new[f].tx = stats[f].tx /\ new[f].rx = stats[f].rx
                                       /\ new[f].rxBytes = stats[f].rxBytes
<1> DEFINE new == CheckForLostPackets(old)
<1>1. new = [f \in DOMAIN stats |-> [stats[f] EXCEPT !.lost = @ + old[f]]]
  BY DEF CheckForLostPackets
<1>2. old \in [DOMAIN stats -> 0 .. MaxSent] /\ \A f \in DOMAIN stats : old[f] <= Unaccounted(f)
  BY DEF Overdue
<1> HIDE DEF new
<1>3. ASSUME NEW f \in DOMAIN stats
      PROVE  /\ new[f] \in Counter /\ new[f].rx + new[f].lost <= new[f].tx
             /\ new[f].tx = stats[f].tx /\ new[f].rx = stats[f].rx
             /\ new[f].rxBytes = stats[f].rxBytes
  <2>1. old[f] \in Nat /\ old[f] <= stats[f].tx - stats[f].rx - stats[f].lost
    BY <1>2, DeploymentAssumption DEF Unaccounted
  <2>2. stats[f] \in Counter
    BY DEF TypeOK
  <2>3. /\ new[f] = [stats[f] EXCEPT !.lost = @ + old[f]]
    BY <1>1
  <2> QED
    BY <2>1, <2>2, <2>3 DEF Counter
<1>4. IsFiniteSet(DOMAIN stats) /\ DOMAIN new = DOMAIN stats
  BY <1>1 DEF FlowInv
<1> QED
  BY <1>3, <1>4 DEF StatsOK, new

LEMMA MeasureStep ==
  ASSUME HomeInv, Measure
  PROVE  HomeInv'
<1>1. /\ phase = "run" /\ phase' = "measured"
      /\ opts' = opts /\ nextClientIndex' = nextClientIndex /\ g_trafficSources' = g_trafficSources
      /\ sinks' = sinks /\ late' = late /\ air' = air /\ sent' = sent
      /\ report' = [e \in DOMAIN sinks.map |-> Row(stats', e)]
      /\ CsvWanted => \E span \in Lasting(stats') :
                         /\ flows' = [f \in DOMAIN stats' |-> FlowRow(stats', f, span)]
                         /\ summary' = [e \in DOMAIN sinks.map |-> SummaryRow(stats', e)]
      /\ ~CsvWanted => flows' = flows /\ summary' = summary
  BY DEF Measure
<1>2. TypeOK /\ SourcesInv /\ SinkInv /\ FlowInv /\ ReceivedInv /\ AllFlows' = AllFlows
  BY <1>1, SameFlows DEF HomeInv
<1>3. PICK old \in Overdue : stats' = CheckForLostPackets(old)
  BY DEF Measure
<1>4. /\ DOMAIN stats' = DOMAIN stats /\ StatsOK(stats')
      /\ \A f \in DOMAIN stats : /\ stats'[f].tx = stats[f].tx /\ stats'[f].rx = stats[f].rx
                                 /\ stats'[f].rxBytes = stats[f].rxBytes
  BY <1>1, <1>2, <1>3, Checked
<1>5. SinksOK(sinks) /\ FlowsOK(stats, air) /\ opts.duration \in Nat
  BY <1>1, <1>2, SinksOKNow, FlowsNow, DeploymentAssumption DEF TypeOK
<1>6. TypeOK'
  <2>1. /\ opts' \in [enableFlowMonitor : BOOLEAN, enableCsv : BOOLEAN, duration : Nat]
        /\ phase' \in {"deploy", "run", "measured"}
        /\ nextClientIndex' \in 0 .. N_EQUIPMENTS
        /\ g_trafficSources' \in Seq([from : ClientNodes \cup ServerNodes, to : Endpoints,
                                     proto : {"udp", "tcp"}, start : {0, UpdateStart}])
        /\ late' \in BOOLEAN /\ sent' \in 0 .. MaxSent
        /\ IsABag(air') /\ BagToSet(air') \subseteq AllFlows'
    BY <1>1, <1>2 DEF TypeOK
  <2>2. /\ sinks' = [apps |-> sinks'.apps, map |-> sinks'.map]
        /\ sinks'.apps \in Seq([at : Endpoints, proto : {"udp", "tcp"}, rx : Nat])
        /\ DOMAIN sinks'.map \subseteq Endpoints
        /\ \A e \in DOMAIN sinks'.map : sinks'.map[e] \in DOMAIN sinks'.apps
    BY <1>1, <1>5 DEF SinksOK, AppType
  <2>3. /\ DOMAIN stats' \subseteq AllFlows'
        /\ \A f \in DOMAIN stats' : stats'[f] \in Counter
    BY <1>2, <1>4 DEF TypeOK, StatsOK
  <2>4. \A e \in DOMAIN report' :
             report'[e] \in ResultRow
    <3> SUFFICES ASSUME NEW e \in DOMAIN sinks.map
                 PROVE  Row(stats', e) \in ResultRow
      BY <1>1
    <3> QED
      BY <1>4, <1>5, RowFacts
  <2>5. \A f \in DOMAIN flows' :
             flows'[f] \in FlowsRow
    <3>1. CASE ~CsvWanted
      BY <1>1, <1>2, <3>1 DEF TypeOK
    <3>2. CASE CsvWanted
      <4>1. PICK span \in Lasting(stats') : flows' = [f \in DOMAIN stats' |-> FlowRow(stats', f, span)]
        BY <1>1, <3>2
      <4>2. ASSUME NEW f \in DOMAIN stats'
            PROVE  FlowRow(stats', f, span) \in FlowsRow
        BY <1>4, FlowRowFacts
      <4> QED
        BY <4>1, <4>2
    <3> QED
      BY <3>1, <3>2
  <2>6. \A e \in DOMAIN summary' :
             summary'[e] \in FlowsRow
    <3>1. CASE ~CsvWanted
      BY <1>1, <1>2, <3>1 DEF TypeOK
    <3>2. CASE CsvWanted
      <4>1. summary' = [e \in DOMAIN sinks.map |-> SummaryRow(stats', e)]
        BY <1>1, <3>2
      <4>2. ASSUME NEW e \in DOMAIN sinks.map
            PROVE  SummaryRow(stats', e) \in FlowsRow
        BY <1>4, <1>5, RowFacts
      <4> QED
        BY <4>1, <4>2
    <3> QED
      BY <3>1, <3>2
  <2> QED
    BY <2>1, <2>2, <2>3, <2>4, <2>5, <2>6 DEF TypeOK
<1>7. SourcesInv' /\ SinkInv'
  BY <1>1, <1>2 DEF SourcesInv, SinkInv
<1>8. FlowInv'
  BY <1>1, <1>2, <1>4, <1>5 DEF FlowInv, FlowsOK, StatsOK, Counter
<1>9. ReceivedInv'
  <2>1. \A e : /\ Total(stats', To(stats', e)).rx = Total(stats, To(stats, e)).rx
              /\ Total(stats', To(stats', e)).rxBytes = Total(stats, To(stats, e)).rxBytes
    <3>1. \A f \in DOMAIN stats : /\ stats[f] \in Counter /\ stats'[f] \in Counter
                                  /\ stats'[f].rx = stats[f].rx /\ stats'[f].rxBytes = stats[f].rxBytes
      BY <1>2, <1>4 DEF TypeOK, StatsOK
    <3> QED
      BY <1>2, <1>4, <3>1, ArrivedLost DEF FlowInv
  <2> QED
    BY <1>1, <1>2, <2>1 DEF ReceivedInv
<1>10. ReportInv'
  <2>1. \A e : /\ Row(stats', e) = Row(stats, e)' /\ SummaryRow(stats', e) = SummaryRow(stats, e)'
    BY <1>1 DEF Row, SummaryRow, NoThroughput, Aggregate, Total, Matches, Loss
  <2>2. CsvWanted' = CsvWanted
    BY <1>1 DEF CsvWanted
  <2>3. report' = [e \in DOMAIN sinks'.map |-> Row(stats, e)']
    BY <1>1, <2>1
  <2>4. CASE CsvWanted
    <3>1. PICK span \in Lasting(stats') :
            /\ flows' = [f \in DOMAIN stats' |-> FlowRow(stats', f, span)]
            /\ summary' = [e \in DOMAIN sinks.map |-> SummaryRow(stats', e)]
      BY <1>1, <2>4
    <3>2. summary' = [e \in DOMAIN sinks'.map |-> SummaryRow(stats, e)']
      BY <1>1, <2>1, <3>1
    <3>3. Lasting(stats)' = Lasting(stats')
      BY <1>1 DEF Lasting
    <3>4. \A f : FlowRow(stats, f, span)' = FlowRow(stats', f, span)
      BY DEF FlowRow, Loss, NoThroughput
    <3>5. span \in Lasting(stats)' /\ flows' = [f \in DOMAIN stats' |-> FlowRow(stats, f, span)']
      BY <3>1, <3>3, <3>4
    <3> QED
      BY <1>1, <2>2, <2>3, <2>4, <3>2, <3>5 DEF ReportInv
  <2>5. CASE ~CsvWanted
    <3>1. flows = <<>> /\ summary = <<>>
      BY <1>1 DEF HomeInv, ReportInv
    <3> QED
      BY <1>1, <2>2, <2>3, <2>5, <3>1 DEF ReportInv
  <2> QED
    BY <2>4, <2>5
<1> QED
  BY <1>6, <1>7, <1>8, <1>9, <1>10 DEF HomeInv

LEMMA HomeInit ==
  ASSUME Init
  PROVE  HomeInv
<1>1. /\ opts \in [enableFlowMonitor : BOOLEAN, enableCsv : BOOLEAN, duration : Nat]
      /\ phase = "deploy" /\ nextClientIndex = 0 /\ g_trafficSources = <<>>
      /\ sinks = [apps |-> <<>>, map |-> <<>>] /\ late = FALSE /\ air = EmptyBag /\ sent = 0
      /\ stats = <<>> /\ report = <<>> /\ flows = <<>> /\ summary = <<>>
  BY DeploymentAssumption DEF Init
<1>2. DOMAIN <<>> = {} /\ IsABag(EmptyBag) /\ DOMAIN EmptyBag = {}
  BY DEF EmptyBag, IsABag, SetToBag
<1>3. sinks.apps = <<>> /\ sinks.map = <<>>
  BY <1>1
<1>4. TypeOK
  <2>1. \A S : <<>> \in Seq(S)
    OBVIOUS
  <2>2. /\ nextClientIndex \in 0 .. N_EQUIPMENTS /\ sent \in 0 .. MaxSent /\ phase \in {"deploy", "run", "measured"}
        /\ late \in BOOLEAN
    <3>1. 0 \in 0 .. N_EQUIPMENTS /\ 0 \in 0 .. MaxSent
      BY DeploymentAssumption
    <3>2. late \in BOOLEAN
      BY <1>1
    <3> QED
      BY <1>1, <3>1, <3>2
  <2>5. sinks = [apps |-> sinks.apps, map |-> sinks.map]
    BY <1>1, <1>3
  <2>3. /\ IsABag(air) /\ BagToSet(air) \subseteq AllFlows
        /\ DOMAIN sinks.map = {} /\ DOMAIN stats = {}
        /\ DOMAIN report = {} /\ DOMAIN flows = {} /\ DOMAIN summary = {}
    BY <1>1, <1>2, <1>3 DEF BagToSet
  <2>4. /\ g_trafficSources \in Seq([from : ClientNodes \cup ServerNodes, to : Endpoints,
                                     proto : {"udp", "tcp"}, start : {0, UpdateStart}])
        /\ sinks.apps \in Seq([at : Endpoints, proto : {"udp", "tcp"}, rx : Nat])
    BY <1>1, <1>3, <2>1
  <2> QED
    BY <1>1, <2>2, <2>3, <2>4, <2>5 DEF TypeOK
<1>5. SourcesInv
  <2>1. Deployed[0] = {}
    <3>1. 0 \in 0 .. N_EQUIPMENTS /\ 0 .. 0 - 1 = {}
      BY DeploymentAssumption
    <3>2. \A s : s \notin Deployed[0]
      BY <3>1, DeployedFacts
    <3> QED
      BY <3>2
  <2>2. Clients(K_TYPES) \in Nat
    BY ClientCounts DEF K_TYPES
  <2> QED
    BY <1>1, <1>2, <2>1, <2>2 DEF SourcesInv, Range
<1>6. SinkInv
  BY <1>1, <1>2, <1>3 DEF SinkInv
<1>7. FlowInv
  BY <1>1, <1>2, FS_EmptySet DEF FlowInv
<1>8. ReceivedInv
  BY <1>1, <1>2, <1>3 DEF ReceivedInv
<1>9. ReportInv
  BY <1>1 DEF ReportInv
<1> QED
  BY <1>4, <1>5, <1>6, <1>7, <1>8, <1>9 DEF HomeInv

\* A step that changes nothing.
LEMMA Stutter ==
  ASSUME HomeInv, UNCHANGED vars
  PROVE  HomeInv'
<1>1. /\ opts' = opts /\ phase' = phase /\ nextClientIndex' = nextClientIndex
      /\ g_trafficSources' = g_trafficSources /\ sinks' = sinks /\ late' = late /\ air' = air
      /\ sent' = sent /\ stats' = stats /\ report' = report /\ flows' = flows /\ summary' = summary
  BY DEF vars, files
<1>2. TypeOK'
  BY <1>1, SameFlows DEF HomeInv, TypeOK
<1>3. SourcesInv' /\ SinkInv' /\ FlowInv'
  BY <1>1 DEF HomeInv, SourcesInv, SinkInv, FlowInv
<1>4. ReceivedInv'
  BY <1>1 DEF HomeInv, ReceivedInv
<1>5. ReportInv'
  <2>1. CsvWanted' = CsvWanted /\ \A e : Row(stats, e)' = Row(stats, e) /\ SummaryRow(stats, e)' = SummaryRow(stats, e)
    BY <1>1 DEF Row, SummaryRow, NoThroughput, Aggregate, Total, Matches, Loss, CsvWanted
  <2>2. ReportInv
    BY DEF HomeInv
  <2>3. phase' = "measured" => report' = [e \in DOMAIN sinks'.map |-> Row(stats, e)']
    BY <1>1, <2>1, <2>2 DEF ReportInv
  <2>4. CASE phase = "measured" /\ CsvWanted
    <3>1. PICK span \in Lasting(stats) : flows = [f \in DOMAIN stats |-> FlowRow(stats, f, span)]
      BY <2>2, <2>4 DEF ReportInv
    <3>2. Lasting(stats)' = Lasting(stats)
      BY <1>1 DEF Lasting
    <3>3. \A f : FlowRow(stats, f, span)' = FlowRow(stats, f, span)
      BY <1>1 DEF FlowRow, Loss, NoThroughput
    <3>4. span \in Lasting(stats)' /\ flows' = [f \in DOMAIN stats' |-> FlowRow(stats, f, span)']
      BY <1>1, <3>1, <3>2, <3>3
    <3>5. summary' = [e \in DOMAIN sinks'.map |-> SummaryRow(stats, e)']
      BY <1>1, <2>1, <2>2, <2>4 DEF ReportInv
    <3> QED
      BY <1>1, <2>1, <2>3, <2>4, <3>4, <3>5 DEF ReportInv
  <2>5. CASE ~(phase = "measured" /\ CsvWanted)
    BY <1>1, <2>1, <2>2, <2>3, <2>5 DEF ReportInv
  <2> QED
    BY <2>4, <2>5
<1> QED
  BY <1>2, <1>3, <1>4, <1>5 DEF HomeInv

\* Through deployment, run and metrics, the sources, receivers, packets, counters
\* and reports fit together as HomeInv says.
THEOREM HomeInvariant == Spec => []HomeInv
<1>1. Init => HomeInv
  BY HomeInit
<1>2. HomeInv /\ [Next]_vars => HomeInv'
  <2> SUFFICES ASSUME HomeInv, [Next]_vars PROVE HomeInv'
    OBVIOUS
  <2>1. ASSUME NEW t \in 1 .. K_TYPES, Configure(t) PROVE HomeInv'
    BY <2>1, ConfigureStep
  <2>2. CASE Launch
    BY <2>2, LaunchStep
  <2>3. CASE Advance
    BY <2>3, AdvanceStep
  <2>4. CASE Measure
    BY <2>4, MeasureStep
  <2>5. ASSUME NEW i \in DOMAIN g_trafficSources, Send(i) PROVE HomeInv'
    BY <2>5, SendStep
  <2>6. ASSUME NEW f \in BagToSet(air), Deliver(f) PROVE HomeInv'
    BY <2>6, DeliverStep
  <2>7. ASSUME NEW f \in BagToSet(air), Lose(f) PROVE HomeInv'
    BY <2>7, LoseStep
  <2>8. CASE UNCHANGED vars
    BY <2>8, Stutter
  <2> QED
    BY <2>1, <2>2, <2>3, <2>4, <2>5, <2>6, <2>7, <2>8 DEF Next
<1> QED
  BY <1>1, <1>2, PTL DEF Spec
----------------------------------------------------------------------------
(* What follows from it.                                                   *)

\* A source is one of an application at a client.
LEMMA SourceAt ==
  ASSUME TypeOK, SourcesInv, NEW i \in DOMAIN g_trafficSources
  PROVE  /\ g_trafficSources[i] \in SourceType
         /\ g_trafficSources[i].proto = Transport(g_trafficSources[i].to[2])
         /\ \E t \in 1 .. K_TYPES, c \in ClientNodes : g_trafficSources[i] \in Range(Sources(t, c))
<1> DEFINE s == g_trafficSources[i]
<1>1. nextClientIndex \in 0 .. N_EQUIPMENTS /\ s \in Deployed[nextClientIndex]
  BY DEF TypeOK, SourcesInv, Range
<1>2. PICK t \in 1 .. K_TYPES, c \in 0 .. nextClientIndex - 1 : s \in Range(Sources(t, c))
  BY <1>1, DeployedFacts
<1>3. c \in ClientNodes
  BY <1>1, DeploymentAssumption DEF ClientNodes
<1> QED
  BY <1>2, <1>3, SourceFacts

\* SourcesReachSinks for every number of clients: no receiver is missing or shared
\* over the wrong transport, and no port is bound twice.
THEOREM SourcesReachSinksAlways == Spec => []SourcesReachSinks
<1>1. HomeInv => SourcesReachSinks
  <2> SUFFICES ASSUME HomeInv, NEW i \in DOMAIN g_trafficSources
               PROVE  LET s == g_trafficSources[i]
                          bound == {a \in DOMAIN sinks.apps : sinks.apps[a].at = s.to}
                      IN /\ s.to \in DOMAIN sinks.map
                         /\ bound = {sinks.map[s.to]}
                         /\ sinks.apps[sinks.map[s.to]].proto = s.proto
    BY DEF SourcesReachSinks
  <2> DEFINE e == g_trafficSources[i].to
             a == sinks.map[e]
  <2>1. TypeOK /\ SourcesInv /\ SinkInv
    BY DEF HomeInv
  <2>2. e \in DOMAIN sinks.map
    BY <2>1 DEF SinkInv
  <2>3. a \in DOMAIN sinks.apps /\ sinks.apps[a].at = e
    BY <2>1, <2>2 DEF SinkInv
  <2>4. \A b \in DOMAIN sinks.apps : sinks.apps[b].at = e => b = a
    BY <2>1 DEF SinkInv
  <2>5. sinks.apps[a].proto = g_trafficSources[i].proto
    <3>1. g_trafficSources[i].proto = Transport(e[2])
      BY <2>1, SourceAt
    <3>2. sinks.apps[a].proto = Transport(sinks.apps[a].at[2])
      BY <2>1, <2>3 DEF SinkInv
    <3> QED
      BY <2>3, <3>1, <3>2
  <2>6. {b \in DOMAIN sinks.apps : sinks.apps[b].at = e} = {a}
    BY <2>3, <2>4
  <2> QED
    BY <2>2, <2>5, <2>6
<1> QED
  BY <1>1, HomeInvariant, PTL

\* ReceiversAgreeWithFlows for every run: what FlowMonitor saw arrive is what the
\* receivers counted.
THEOREM ReceiversAgreeAlways == Spec => []ReceiversAgreeWithFlows
<1>1. HomeInv => ReceiversAgreeWithFlows
  <2> SUFFICES ASSUME HomeInv, phase = "measured", opts.enableFlowMonitor, NEW e \in DOMAIN report
               PROVE  LET arrived == Total(stats, To(stats, e)).rx
                      IN IF sinks.apps[sinks.map[e]].proto = "udp" THEN report[e].received = arrived
                                                                  ELSE report[e].received <= arrived
    BY DEF ReceiversAgreeWithFlows
  <2>1. e \in DOMAIN sinks.map /\ report[e] = Row(stats, e)
    BY DEF HomeInv, ReportInv
  <2>2. report[e].received = sinks.apps[sinks.map[e]].rx
    BY <2>1 DEF Row
  <2>3. LET a == sinks.apps[sinks.map[e]]
            arrived == Total(stats, To(stats, e))
        IN a.rx <= arrived.rx /\ (a.proto = "udp" => a.rx = arrived.rx)
    BY <2>1 DEF HomeInv, ReceivedInv
  <2> QED
    BY <2>2, <2>3
<1> QED
  BY <1>1, HomeInvariant, PTL

\* The counters and receivers the metrics are computed from.
LEMMA Measured ==
  ASSUME HomeInv, phase = "measured"
  PROVE  /\ StatsOK(stats) /\ SinksOK(sinks)
         /\ DOMAIN report = DOMAIN sinks.map
         /\ \A e \in DOMAIN report : report[e] = Row(stats, e)
         /\ opts.duration \in Nat
<1>1. TypeOK /\ SinkInv /\ FlowInv /\ ReportInv
  BY DEF HomeInv
<1>2. \A f \in DOMAIN stats : stats[f] \in Counter /\ stats[f].rx + stats[f].lost <= stats[f].tx
  BY <1>1 DEF TypeOK, FlowInv, Counter
<1>3. IsFiniteSet(DOMAIN stats)
  BY <1>1 DEF FlowInv
<1>4. report = [e \in DOMAIN sinks.map |-> Row(stats, e)]
  BY <1>1 DEF ReportInv
<1> QED
  BY <1>1, <1>2, <1>3, <1>4, SinksOKNow, DeploymentAssumption DEF StatsOK, TypeOK

\* LossInRange for every run: no difference of unsigned numbers wraps around.
THEOREM LossInRangeAlways == Spec => []LossInRange
<1>1. HomeInv => LossInRange
  <2> SUFFICES ASSUME HomeInv, phase = "measured" PROVE LossInRange
    BY DEF LossInRange
  <2>1. /\ StatsOK(stats) /\ SinksOK(sinks) /\ DOMAIN report = DOMAIN sinks.map
        /\ ReportInv /\ ReceivedInv /\ opts.duration \in Nat
    BY Measured DEF HomeInv
  <2>2. ASSUME NEW e \in DOMAIN report
        PROVE  /\ report[e].lossPct \in 0 .. 100
               /\ report[e].throughput[2] = 0 => opts.duration = 0 /\ report[e].received = 0
    <3>1. report[e] = Row(stats, e) /\ report[e].lossPct \in 0 .. 100
      BY <2>1, <2>2, Measured, RowFacts
    <3>2. /\ report[e].throughput[2] = opts.duration
          /\ report[e].received = sinks.apps[sinks.map[e]].rx
      BY <3>1 DEF Row
    <3>3. opts.duration = 0 => sinks.apps[sinks.map[e]].rx = 0
      BY <2>1, <2>2 DEF ReceivedInv, SinksOK
    <3> QED
      BY <3>1, <3>2, <3>3
  <2>3. \A f \in DOMAIN flows : flows[f].lossPct \in 0 .. 100 /\ flows[f].throughput[2] > 0
    <3>1. CASE CsvWanted
      <4>1. PICK span \in Lasting(stats) : flows = [f \in DOMAIN stats |-> FlowRow(stats, f, span)]
        BY <2>1, <3>1 DEF ReportInv
      <4>2. \A f \in DOMAIN stats : /\ FlowRow(stats, f, span).lossPct \in 0 .. 100
                                   /\ FlowRow(stats, f, span).throughput[2] > 0
        BY <2>1, FlowRowFacts
      <4> QED
        BY <4>1, <4>2
    <3>2. CASE ~CsvWanted
      BY <2>1, <3>2 DEF ReportInv
    <3> QED
      BY <3>1, <3>2
  <2>4. ASSUME NEW e \in DOMAIN summary
        PROVE  /\ summary[e].lossPct \in 0 .. 100 /\ summary[e].throughput[2] > 0
               /\ summary[e].lost <= summary[e].tx - summary[e].rx
    <3> DEFINE a == Aggregate(stats, e)
    <3>1. CASE CsvWanted
      <4>1. e \in DOMAIN sinks.map /\ summary[e] = SummaryRow(stats, e)
        BY <2>1, <2>4, <3>1 DEF ReportInv
      <4>2. summary[e].lossPct \in 0 .. 100 /\ summary[e].throughput[2] > 0
        BY <2>1, <4>1, RowFacts
      <4>3. summary[e].tx = a.tx /\ summary[e].rx = a.rx /\ summary[e].lost = a.lost
        BY <4>1 DEF SummaryRow
      <4>4. a \in Counter /\ a.rx + a.lost <= a.tx
        BY <2>1, AggregateFacts
      <4> HIDE DEF a
      <4>5. a.lost <= a.tx - a.rx
        BY <4>4 DEF Counter
      <4> QED
        BY <4>2, <4>3, <4>5
    <3>2. CASE ~CsvWanted
      BY <2>1, <2>4, <3>2 DEF ReportInv
    <3> QED
      BY <3>1, <3>2
  <2> QED
    BY <2>2, <2>3, <2>4 DEF LossInRange
<1> QED
  BY <1>1, HomeInvariant, PTL

\* Figures that are the same for each flow have the same total.
LEMMA SameTotals ==
  ASSUME NEW M, IsFiniteSet(M), NEW st, NEW new,
         \A f \in M : /\ st[f].tx \in Nat /\ st[f].rx \in Nat /\ st[f].lost \in Nat /\ st[f].rxBytes \in Nat
                      /\ new[f].tx = st[f].tx /\ new[f].rx = st[f].rx /\ new[f].lost = st[f].lost
                      /\ new[f].rxBytes = st[f].rxBytes
  PROVE  Total(new, M) = Total(st, M)
<1>1. /\ [f \in M |-> new[f].tx] = [f \in M |-> st[f].tx]
      /\ [f \in M |-> new[f].rx] = [f \in M |-> st[f].rx]
      /\ [f \in M |-> new[f].lost] = [f \in M |-> st[f].lost]
      /\ [f \in M |-> new[f].rxBytes] = [f \in M |-> st[f].rxBytes]
  OBVIOUS
<1> QED
  BY <1>1 DEF Total

\* The bytes on the way to a receiver are among those of both ways.
LEMMA BothWays ==
  ASSUME NEW st, StatsOK(st), NEW e
  PROVE  /\ Total(st, To(st, e)).rxBytes \in Nat /\ Aggregate(st, e).rxBytes \in Nat
         /\ Total(st, To(st, e)).rxBytes <= Aggregate(st, e).rxBytes
<1> DEFINE M == To(st, e)
           N == {f \in DOMAIN st : Matches(f, e)}
           g == [f \in DOMAIN st |-> st[f].rxBytes]
<1>1. M \in SUBSET N /\ N \in SUBSET DOMAIN st /\ Aggregate(st, e) = Total(st, N)
  BY DEF To, Matches, Aggregate
<1>2. \A f \in DOMAIN st : /\ st[f].tx \in Nat /\ st[f].rx \in Nat /\ st[f].lost \in Nat
                           /\ st[f].rxBytes \in Nat /\ g[f] = st[f].rxBytes
  BY DEF StatsOK, Counter
<1> HIDE DEF M, N, g
<1>3. N \in SUBSET DOMAIN st /\ M \in SUBSET DOMAIN st /\ N \ M \in SUBSET DOMAIN st
  BY <1>1
<1>4. IsFiniteSet(M) /\ IsFiniteSet(N) /\ IsFiniteSet(N \ M)
  BY <1>3, FS_Subset DEF StatsOK
<1>5. ASSUME NEW S, S \in SUBSET DOMAIN st, IsFiniteSet(S)
      PROVE  Total(st, S).rxBytes = Sum(g, S) /\ Sum(g, S) \in Nat
  <2> DEFINE h == [f \in S |-> st[f].rxBytes]
  <2>1. \A f \in S : /\ st[f].tx \in Nat /\ st[f].rx \in Nat /\ st[f].lost \in Nat
                     /\ st[f].rxBytes \in Nat /\ g[f] \in Nat /\ h[f] = g[f]
    BY <1>2, <1>5
  <2>2. Total(st, S).rxBytes = Sum(h, S)
    BY <1>5, <2>1, TotalFacts
  <2> HIDE DEF h
  <2>3. Sum(h, S) = Sum(g, S) /\ Sum(g, S) \in Nat
    BY <1>5, <2>1, SumEqual, SumNatural
  <2> QED
    BY <2>2, <2>3
<1>6. Sum(g, N) = Sum(g, M) + Sum(g, N \ M)
  <2>1. N = M \cup (N \ M) /\ M \cap (N \ M) = {}
    BY <1>1
  <2>2. \A f \in M \cup (N \ M) : g[f] \in Nat
    BY <1>2, <1>3
  <2>3. Sum(g, M \cup (N \ M)) = Sum(g, M) + Sum(g, N \ M)
    BY <1>4, <2>1, <2>2, SumUnion
  <2> QED
    BY <2>1, <2>3
<1>7. Sum(g, M) \in Nat /\ Sum(g, N) \in Nat /\ Sum(g, N \ M) \in Nat
  BY <1>3, <1>4, <1>5
<1>8. Total(st, M).rxBytes = Sum(g, M) /\ Total(st, N).rxBytes = Sum(g, N)
  BY <1>3, <1>4, <1>5
<1> QED
  BY <1>1, <1>6, <1>7, <1>8 DEF M

\* Products of natural numbers grow with their factors.
LEMMA Products ==
  ASSUME NEW x \in Nat, NEW y \in Nat, NEW k \in Nat, x <= y
  PROVE  /\ x * k <= y * k /\ k * x <= k * y
         /\ x < y /\ k > 0 => x * k < y * k
<1>1. PICK z \in Nat : y = x + z
  <2>1. y - x \in Nat /\ y = x + (y - x)
    OBVIOUS
  <2> QED
    BY <2>1
<1>2. y * k = x * k + z * k /\ k * y = k * x + k * z
  BY <1>1
<1>3. z * k \in Nat /\ k * z \in Nat /\ x * k \in Nat /\ k * x \in Nat
  OBVIOUS
<1>4. z > 0 /\ k > 0 => z * k > 0
  OBVIOUS
<1> QED
  BY <1>1, <1>2, <1>3, <1>4

\* ThroughputsOrdered for every run: the receiver's data are below FlowMonitor's bytes,
\* and a part of the simulation is not longer than all of it.
THEOREM ThroughputsOrderedAlways == Spec => []ThroughputsOrdered
<1>1. HomeInv => ThroughputsOrdered
  <2> SUFFICES ASSUME HomeInv, phase = "measured", CsvWanted PROVE ThroughputsOrdered
    BY DEF ThroughputsOrdered
  <2> DEFINE d == opts.duration
  <2>1. StatsOK(stats) /\ SinksOK(sinks) /\ DOMAIN report = DOMAIN sinks.map /\ d \in Nat
    BY Measured
  <2>2. PICK span \in Lasting(stats) : flows = [f \in DOMAIN stats |-> FlowRow(stats, f, span)]
    BY DEF HomeInv, ReportInv
  <2>3. summary = [e \in DOMAIN sinks.map |-> SummaryRow(stats, e)]
    BY DEF HomeInv, ReportInv
  <2>4. DOMAIN flows = DOMAIN stats
        /\ \A f \in DOMAIN stats : /\ flows[f].tx = stats[f].tx /\ flows[f].rx = stats[f].rx
                                   /\ flows[f].lost = stats[f].lost
                                   /\ flows[f].rxBytes = stats[f].rxBytes
    BY <2>2 DEF FlowRow
  <2>5. ASSUME NEW e \in DOMAIN report, NEW M, M = Matched(e)
        PROVE  LET sum == Total(flows, M)
               IN /\ summary[e].tx = sum.tx /\ summary[e].rx = sum.rx
                  /\ summary[e].lost = sum.lost /\ summary[e].rxBytes = sum.rxBytes
    <3> DEFINE a == Aggregate(stats, e)
    <3>1. summary[e] = SummaryRow(stats, e)
      BY <2>1, <2>3
    <3>2. /\ summary[e].tx = a.tx /\ summary[e].rx = a.rx
          /\ summary[e].lost = a.lost /\ summary[e].rxBytes = a.rxBytes
      BY <3>1 DEF SummaryRow
    <3>3. M = {f \in DOMAIN stats : Matches(f, e)}
      BY <2>4, <2>5 DEF Matches, Matched
    <3>4. M \in SUBSET DOMAIN stats /\ IsFiniteSet(M)
      BY <2>1, <3>3, FS_Subset DEF StatsOK
    <3>5. \A f \in M : /\ stats[f].tx \in Nat /\ stats[f].rx \in Nat /\ stats[f].lost \in Nat
                       /\ stats[f].rxBytes \in Nat /\ flows[f].rxBytes = stats[f].rxBytes
                       /\ flows[f].tx = stats[f].tx /\ flows[f].rx = stats[f].rx
                       /\ flows[f].lost = stats[f].lost
      BY <2>1, <2>4, <3>4 DEF StatsOK, Counter
    <3>6. Total(flows, M) = Total(stats, M)
      BY <3>4, <3>5, SameTotals
    <3>7. a = Total(stats, M)
      BY <3>3 DEF Aggregate
    <3> HIDE DEF a
    <3> QED
      BY <3>2, <3>6, <3>7
  <2>6. ASSUME NEW e \in DOMAIN report
        PROVE  /\ AtMost(report[e].throughput, summary[e].throughput)
               /\ d > 0 /\ summary[e].rxBytes > 0 =>
                    ~AtMost(summary[e].throughput, report[e].throughput)
    <3> DEFINE r == sinks.apps[sinks.map[e]].rx
               b == Aggregate(stats, e).rxBytes
               arrived == Total(stats, To(stats, e))
    <3>1. report[e] = Row(stats, e) /\ summary[e] = SummaryRow(stats, e)
      BY <2>1, <2>3, Measured
    <3>2. /\ report[e].throughput = <<r, d>> /\ summary[e].rxBytes = b
          /\ summary[e].throughput = IF d > 0 THEN <<b, d>> ELSE <<0, 1>>
      BY <3>1 DEF Row, SummaryRow, NoThroughput
    <3>3. r + arrived.rx <= arrived.rxBytes /\ (arrived.rx = 0 => arrived.rxBytes = 0)
      BY <2>1 DEF HomeInv, ReceivedInv, CsvWanted
    <3>4. arrived.rx \in Nat
      BY <2>1, ArrivedNatural DEF StatsOK
    <3>5. b \in Nat /\ arrived.rxBytes \in Nat /\ arrived.rxBytes <= b
      BY <2>1, BothWays
    <3>6. r \in Nat
      <4>1. report[e] \in ResultRow
        BY <2>6 DEF HomeInv, TypeOK
      <4>2. report[e].received = r
        BY <3>1 DEF Row
      <4> QED
        BY <4>1, <4>2 DEF ResultRow
    <3>7. d = 0 => r = 0
      BY <2>1 DEF HomeInv, ReceivedInv, SinksOK
    <3> HIDE DEF r, b, d, arrived
    <3>8. r <= b /\ (b > 0 => r < b)
      BY <3>3, <3>4, <3>5, <3>6
    <3>9. CASE d > 0
      <4>1. r * d <= b * d /\ (b > 0 => r * d < b * d)
        BY <2>1, <3>5, <3>6, <3>8, <3>9, Products
      <4>2. /\ AtMost(report[e].throughput, summary[e].throughput) <=> r * d <= b * d
            /\ AtMost(summary[e].throughput, report[e].throughput) <=> b * d <= r * d
        BY <3>2, <3>9 DEF AtMost
      <4>3. r * d \in Nat /\ b * d \in Nat
        BY <2>1, <3>5, <3>6
      <4> QED
        BY <3>2, <4>1, <4>2, <4>3
    <3>10. CASE d = 0
      BY <3>2, <3>7, <3>10 DEF AtMost
    <3> QED
      BY <2>1, <3>9, <3>10
  <2>7. ASSUME NEW e, NEW f \in Matched(e), flows[f].throughput # NoThroughput
        PROVE  AtMost(<<flows[f].rxBytes, d>>, flows[f].throughput)
    <3> DEFINE b == stats[f].rxBytes
               k == span[f]
    <3>1. f \in DOMAIN stats /\ flows[f] = FlowRow(stats, f, span) /\ flows[f].rxBytes = b
      BY <2>2, <2>4 DEF Matched
    <3>2. flows[f].throughput = <<b, k>>
      BY <2>7, <3>1 DEF FlowRow
    <3>3. b \in Nat
      BY <2>1, <3>1 DEF StatsOK, Counter
    <3>4. k \in Nat /\ k <= d
      BY <3>1, LastingFacts
    <3> HIDE DEF b, k, d
    <3>5. b * k <= b * d
      BY <2>1, <3>3, <3>4, Products
    <3> QED
      BY <3>1, <3>2, <3>5 DEF AtMost
  <2>8. DOMAIN summary = DOMAIN report
    BY <2>1, <2>3
  <2> QED
    BY <2>5, <2>6, <2>7, <2>8 DEF ThroughputsOrdered
<1> QED
  BY <1>1, HomeInvariant, PTL

\* The flows of the receivers: every flow is matched by one receiver.
LEMMA MatchedOnce ==
  ASSUME HomeInv
  PROVE  /\ IsFiniteSet(DOMAIN sinks.map)
         /\ \A d, e \in DOMAIN sinks.map : \A f \in DOMAIN stats : Matches(f, d) /\ Matches(f, e) => d = e
         /\ \A f \in DOMAIN stats : \E e \in DOMAIN sinks.map : Matches(f, e)
<1>1. TypeOK /\ SourcesInv /\ SinkInv
  BY DEF HomeInv
<1>2. DOMAIN sinks.map \subseteq Endpoints
  BY <1>1 DEF TypeOK
<1>3. IsFiniteSet(DOMAIN sinks.map)
  <2>1. ClientNodes \cup ServerNodes \in SUBSET (0 .. N_EQUIPMENTS + 9)
    BY DeploymentAssumption DEF ClientNodes, ServerNodes, K_TYPES
  <2>2. IsFiniteSet(0 .. N_EQUIPMENTS + 9) /\ IsFiniteSet(9001 .. 9011)
    <3>1. 0 \in Int /\ N_EQUIPMENTS + 9 \in Int /\ 9001 \in Int /\ 9011 \in Int
      BY DeploymentAssumption
    <3>2. ASSUME NEW a \in Int, NEW b \in Int PROVE IsFiniteSet(a .. b)
      BY FS_Interval
    <3>3. IsFiniteSet(0 .. N_EQUIPMENTS + 9)
      BY <3>1, <3>2
    <3>4. IsFiniteSet(9001 .. 9011)
      <4> DEFINE a == 9001
                 b == 9011
      <4>1. a \in Int /\ b \in Int
        OBVIOUS
      <4> HIDE DEF a, b
      <4>2. IsFiniteSet(a .. b)
        BY <3>2, <4>1
      <4> QED
        BY <4>2 DEF a, b
    <3> QED
      BY <3>3, <3>4
  <2>3. IsFiniteSet(ClientNodes \cup ServerNodes)
    <3> DEFINE N == 0 .. N_EQUIPMENTS + 9
               C == ClientNodes \cup ServerNodes
    <3>1. IsFiniteSet(N) /\ C \in SUBSET N
      BY <2>1, <2>2
    <3> HIDE DEF N, C
    <3>2. IsFiniteSet(C)
      BY <3>1, FS_Subset
    <3> QED
      BY <3>2 DEF C
  <2>4. IsFiniteSet(Endpoints)
    BY <2>2, <2>3, FS_Product DEF Endpoints
  <2> QED
    BY <1>2, <2>4, FS_Subset
<1>4. ASSUME NEW f \in DOMAIN stats
      PROVE  \E e \in DOMAIN sinks.map : Matches(f, e) /\ \A d \in DOMAIN sinks.map : Matches(f, d) => d = e
  <2>1. f \in AllFlows
    BY <1>1 DEF TypeOK
  <2>2. \A e : Matches(f, e) <=> e = Dest(f) \/ e = Orig(f)
    BY DEF Matches, Dest, Orig
  <2>3. /\ Dest(f) \in Endpoints => f.dport \in 9001 .. 9011
        /\ Orig(f) \in Endpoints => f.sport \in 9001 .. 9011
    BY DEF Endpoints, Dest, Orig
  <2>4. CASE f.dport \in 9001 .. 9011 /\ f.sport \notin 9001 .. 9011 /\ Dest(f) \in DOMAIN sinks.map
    BY <1>2, <2>2, <2>3, <2>4
  <2>5. CASE f.sport \in 9001 .. 9011 /\ f.dport \notin 9001 .. 9011 /\ Orig(f) \in DOMAIN sinks.map
    BY <1>2, <2>2, <2>3, <2>5
  <2> QED
    BY <1>1, <2>1, <2>4, <2>5, FlowShape
<1> QED
  BY <1>3, <1>4

\* A sum over the receivers of sums over their flows is one over all flows.
LEMMA OverReceivers ==
  ASSUME HomeInv, StatsOK(stats), NEW g, \A f \in DOMAIN stats : g[f] \in Nat,
         NEW G, \A e \in DOMAIN sinks.map : G[e] = Sum(g, {f \in DOMAIN stats : Matches(f, e)})
  PROVE  Sum(G, DOMAIN sinks.map) = Sum(g, DOMAIN stats)
<1> DEFINE E == DOMAIN sinks.map
           D == DOMAIN stats
           M == [e \in E |-> {f \in D : Matches(f, e)}]
<1>1. \A e \in E : M[e] \in SUBSET D /\ G[e] = Sum(g, M[e])
  OBVIOUS
<1>2. \A d, e \in E : d # e => M[d] \cap M[e] = {}
  BY MatchedOnce
<1>3. UNION {M[e] : e \in E} = D
  <2>1. \A f : f \in UNION {M[e] : e \in E} <=> \E e \in E : f \in M[e]
    <3> HIDE DEF M, E
    <3> QED
      OBVIOUS
  <2>2. \A e \in E : \A f : f \in M[e] <=> f \in D /\ Matches(f, e)
    OBVIOUS
  <2>3. \A f \in D : \E e \in E : Matches(f, e)
    BY MatchedOnce
  <2> HIDE DEF M, E, D
  <2> QED
    BY <2>1, <2>2, <2>3
<1>4. IsFiniteSet(E) /\ IsFiniteSet(D) /\ \A x \in D : g[x] \in Nat
  BY MatchedOnce DEF StatsOK
<1> HIDE DEF M, E, D
<1>5. Sum(G, E) = Sum(g, UNION {M[e] : e \in E})
  BY <1>1, <1>2, <1>4, SumParts
<1> QED
  BY <1>3, <1>5 DEF E, D

\* CountedOnce for every run: the rows add up to what FlowMonitor counted.
THEOREM CountedOnceAlways == Spec => []CountedOnce
<1>1. HomeInv => CountedOnce
  <2> SUFFICES ASSUME HomeInv, phase = "measured", CsvWanted PROVE CountedOnce
    BY DEF CountedOnce
  <2> DEFINE E == DOMAIN sinks.map
             M(e) == {f \in DOMAIN stats : Matches(f, e)}
             t == [f \in DOMAIN stats |-> stats[f].tx]
             r == [f \in DOMAIN stats |-> stats[f].rx]
             l == [f \in DOMAIN stats |-> stats[f].lost]
             y == [f \in DOMAIN stats |-> stats[f].rxBytes]
             T == [e \in E |-> summary[e].tx]
             R == [e \in E |-> summary[e].rx]
             L == [e \in E |-> summary[e].lost]
             Y == [e \in E |-> summary[e].rxBytes]
  <2>1. /\ StatsOK(stats) /\ IsFiniteSet(E) /\ TypeOK
        /\ summary = [e \in E |-> SummaryRow(stats, e)]
    BY Measured, MatchedOnce DEF HomeInv, ReportInv
  <2>2. \A f \in DOMAIN stats : /\ stats[f].tx \in Nat /\ stats[f].rx \in Nat /\ stats[f].lost \in Nat /\ stats[f].rxBytes \in Nat
                                /\ t[f] = stats[f].tx /\ r[f] = stats[f].rx /\ l[f] = stats[f].lost
                                /\ y[f] = stats[f].rxBytes
    BY <2>1 DEF StatsOK, Counter
  <2>3. ASSUME NEW e \in E
        PROVE  /\ T[e] = Sum(t, M(e)) /\ R[e] = Sum(r, M(e))
               /\ L[e] = Sum(l, M(e)) /\ Y[e] = Sum(y, M(e))
    <3> DEFINE S == M(e)
               a == Aggregate(stats, e)
    <3>1. summary[e] = SummaryRow(stats, e)
      BY <2>1
    <3>2. T[e] = a.tx /\ R[e] = a.rx /\ L[e] = a.lost /\ Y[e] = a.rxBytes
      BY <3>1 DEF SummaryRow
    <3>3. a = Total(stats, S) /\ S \in SUBSET DOMAIN stats
      BY DEF Aggregate
    <3>4. IsFiniteSet(S)
      BY <2>1, <3>3, FS_Subset DEF StatsOK
    <3>5. \A f \in S : /\ [x \in S |-> stats[x].tx][f] = t[f]
                       /\ [x \in S |-> stats[x].rx][f] = r[f]
                       /\ [x \in S |-> stats[x].lost][f] = l[f]
                       /\ [x \in S |-> stats[x].rxBytes][f] = y[f]
      BY <3>3
    <3> HIDE DEF S, a, t, r, l, y, T, R, L, Y
    <3>6. /\ Total(stats, S).tx = Sum([x \in S |-> stats[x].tx], S)
          /\ Total(stats, S).rx = Sum([x \in S |-> stats[x].rx], S)
          /\ Total(stats, S).lost = Sum([x \in S |-> stats[x].lost], S)
          /\ Total(stats, S).rxBytes = Sum([x \in S |-> stats[x].rxBytes], S)
      BY <2>2, <3>3, <3>4, TotalFacts
    <3>7. /\ Sum([x \in S |-> stats[x].tx], S) = Sum(t, S)
          /\ Sum([x \in S |-> stats[x].rx], S) = Sum(r, S)
          /\ Sum([x \in S |-> stats[x].lost], S) = Sum(l, S)
          /\ Sum([x \in S |-> stats[x].rxBytes], S) = Sum(y, S)
      BY <3>4, <3>5, SumEqual
    <3> QED
      BY <3>2, <3>3, <3>6, <3>7 DEF S
  <2>4. /\ Total(stats, DOMAIN stats).tx = Sum(t, DOMAIN stats)
        /\ Total(stats, DOMAIN stats).rx = Sum(r, DOMAIN stats)
        /\ Total(stats, DOMAIN stats).lost = Sum(l, DOMAIN stats)
        /\ Total(stats, DOMAIN stats).rxBytes = Sum(y, DOMAIN stats)
    BY <2>1, <2>2, TotalFacts DEF StatsOK
  <2>5. \A e \in E : summary[e].tx \in Nat /\ summary[e].rx \in Nat /\ summary[e].lost \in Nat /\ summary[e].rxBytes \in Nat
    <3>1. \A e \in E : summary[e] \in FlowsRow
      BY <2>1 DEF TypeOK
    <3> QED
      BY <3>1 DEF FlowsRow
  <2>6. /\ Total(summary, E).tx = Sum(T, E)
        /\ Total(summary, E).rx = Sum(R, E)
        /\ Total(summary, E).lost = Sum(L, E)
        /\ Total(summary, E).rxBytes = Sum(Y, E)
    BY <2>1, <2>5, TotalFacts
  <2> HIDE DEF t, r, l, y, T, R, L, Y
  <2>7. /\ Sum(T, E) = Sum(t, DOMAIN stats) /\ Sum(R, E) = Sum(r, DOMAIN stats)
        /\ Sum(L, E) = Sum(l, DOMAIN stats) /\ Sum(Y, E) = Sum(y, DOMAIN stats)
    BY <2>1, <2>2, <2>3, OverReceivers
  <2>8. ASSUME NEW st, NEW S
        PROVE  Total(st, S) = [tx |-> Total(st, S).tx, rx |-> Total(st, S).rx,
                               lost |-> Total(st, S).lost, rxBytes |-> Total(st, S).rxBytes]
    BY DEF Total
  <2>9. Total(summary, E) = Total(stats, DOMAIN stats)
    BY <2>4, <2>6, <2>7, <2>8
  <2>10. DOMAIN summary = E
    BY <2>1
  <2> HIDE DEF E
  <2> QED
    BY <2>9, <2>10 DEF CountedOnce
<1> QED
  BY <1>1, HomeInvariant, PTL

\* Which clients a type takes.
Share(t) == Clients(t - 1) .. Clients(t) - 1

LEMMA ShareFacts ==
  ASSUME NEW t \in 1 .. K_TYPES
  PROVE  /\ Share(t) \subseteq ClientNodes
         /\ Cardinality(Share(t)) = Counts[t]
<1>1. t \in 0 .. K_TYPES /\ t - 1 \in 0 .. K_TYPES /\ K_TYPES \in 0 .. K_TYPES /\ t <= K_TYPES
  BY DEF K_TYPES
<1>2. /\ Clients(t - 1) \in Nat /\ Clients(t) \in Nat /\ Clients(K_TYPES) \in Nat
      /\ Clients(t) <= Clients(K_TYPES)
      /\ Clients(t) = Counts[t] + Clients(t - 1)
  BY <1>1, ClientCounts
<1>3. Counts[t] \in Nat /\ Clients(K_TYPES) <= N_EQUIPMENTS /\ N_EQUIPMENTS \in Nat
  BY DeploymentAssumption
<1>4. Share(t) \subseteq ClientNodes
  BY <1>2, <1>3 DEF Share, ClientNodes
<1>5. Cardinality(Share(t)) = Counts[t]
  <2> DEFINE a == Clients(t - 1)
             b == Clients(t) - 1
  <2>1. a \in Int /\ b \in Int /\ b - a + 1 = Counts[t] /\ (a > b => Counts[t] = 0)
    BY <1>2, <1>3
  <2>2. Share(t) = a .. b
    BY DEF Share
  <2> HIDE DEF a, b
  <2>3. Cardinality(a .. b) = IF a > b THEN 0 ELSE b - a + 1
    BY <2>1, FS_Interval
  <2> QED
    BY <2>1, <2>2, <2>3
<1> QED
  BY <1>4, <1>5

\* Both ends of a stream of application u at client c.
LEMMA TwoEnds ==
  ASSUME NEW t \in 1 .. K_TYPES, NEW u \in 1 .. K_TYPES, NEW c \in ClientNodes, NEW x, NEW y,
         (x = c /\ y = Server(u)) \/ (x = Server(u) /\ y = c)
  PROVE  /\ y = Server(t) => u = t /\ x = c
         /\ x = Server(t) => u = t /\ y = c
         /\ {x, y} \cap ServerNodes = {Server(u)}
<1>1. /\ Server(t) \in ServerNodes /\ Server(u) \in ServerNodes
      /\ c \notin ServerNodes /\ (Server(t) = Server(u) => t = u)
  BY DeploymentAssumption DEF Server, ServerNodes, ClientNodes, K_TYPES
<1> QED
  BY <1>1

\* The clients that talk to the server of a type.
LEMMA ServedFacts ==
  ASSUME TypeOK, SourcesInv, nextClientIndex = Clients(K_TYPES), NEW t \in 1 .. K_TYPES
  PROVE  LET g == g_trafficSources
         IN {g[i].from : i \in {i \in DOMAIN g : g[i].to[1] = Server(t)}}
              \cup {g[i].to[1] : i \in {i \in DOMAIN g : g[i].from = Server(t)}} = Share(t)
<1> DEFINE g == g_trafficSources
           S == {g[i].from : i \in {i \in DOMAIN g : g[i].to[1] = Server(t)}}
                  \cup {g[i].to[1] : i \in {i \in DOMAIN g : g[i].from = Server(t)}}
<1>1. nextClientIndex \in 0 .. N_EQUIPMENTS /\ Range(g) = Deployed[nextClientIndex]
  BY DEF TypeOK, SourcesInv
<1>2. ASSUME NEW i \in DOMAIN g
      PROVE  /\ g[i].to[1] = Server(t) => g[i].from \in Share(t)
             /\ g[i].from = Server(t) => g[i].to[1] \in Share(t)
  <2>1. g[i] \in Deployed[nextClientIndex]
    BY <1>1 DEF Range
  <2>2. PICK u \in 1 .. K_TYPES, c \in 0 .. nextClientIndex - 1 :
          c \in Clients(u - 1) .. Clients(u) - 1 /\ g[i] \in Range(Sources(u, c))
    BY <1>1, <2>1, DeployedFacts
  <2>3. c \in Share(u) /\ c \in ClientNodes
    BY <2>2, ShareFacts DEF Share
  <2>4. {g[i].from, g[i].to[1]} = {c, Server(u)}
    BY <2>2, <2>3, SourceFacts
  <2> DEFINE x == g[i].from
             y == g[i].to[1]
             w == Server(u)
  <2>5. {x, y} = {c, w}
    BY <2>4
  <2> HIDE DEF x, y, w
  <2>6. (x = c /\ y = w) \/ (x = w /\ y = c)
    BY <2>5
  <2>7. (y = Server(t) => u = t /\ x = c) /\ (x = Server(t) => u = t /\ y = c)
    BY <2>3, <2>6, TwoEnds DEF w
  <2> QED
    BY <2>3, <2>7 DEF x, y
<1>3. ASSUME NEW c \in Share(t)
      PROVE  \E i \in DOMAIN g : \/ g[i].from = c /\ g[i].to[1] = Server(t)
                                 \/ g[i].to[1] = c /\ g[i].from = Server(t)
  <2> DEFINE s == Sources(t, c)[1]
  <2>1. c \in ClientNodes /\ c \in 0 .. nextClientIndex - 1 /\ c \in Clients(t - 1) .. Clients(t) - 1
    <3>1. t \in 0 .. K_TYPES /\ t - 1 \in 0 .. K_TYPES /\ K_TYPES \in 0 .. K_TYPES /\ t <= K_TYPES
      BY DEF K_TYPES
    <3>2. /\ Clients(t - 1) \in Nat /\ Clients(t) \in Nat /\ Clients(K_TYPES) \in Nat
          /\ Clients(t) <= Clients(K_TYPES)
      BY <3>1, ClientCounts
    <3> QED
      BY <3>2, ShareFacts DEF Share
  <2>2. s \in Range(Sources(t, c))
    BY <2>1, SourcesAreSeq DEF Range
  <2> HIDE DEF s
  <2>3. s \in Range(g)
    BY <1>1, <2>1, <2>2, DeployedFacts
  <2>4. PICK i \in DOMAIN g : g[i] = s
    BY <2>3 DEF Range
  <2>5. {s.from, s.to[1]} = {c, Server(t)}
    BY <2>1, <2>2, SourceFacts
  <2> DEFINE x == s.from
             y == s.to[1]
             w == Server(t)
  <2>6. {x, y} = {c, w}
    BY <2>5
  <2> HIDE DEF x, y, w
  <2>7. (x = c /\ y = w) \/ (y = c /\ x = w)
    BY <2>6
  <2> QED
    BY <2>4, <2>7 DEF x, y, w
<1>4. \A c : c \in S <=> \E i \in DOMAIN g : \/ g[i].from = c /\ g[i].to[1] = Server(t)
                                             \/ g[i].to[1] = c /\ g[i].from = Server(t)
  <2> HIDE DEF g
  <2> QED
    OBVIOUS
<1>5. S = Share(t)
  <2> HIDE DEF S, g
  <2> QED
    BY <1>2, <1>3, <1>4
<1> QED
  BY <1>5

\* DeployedAsPlanned for every plan that uses every client: the assertion after the
\* loops holds, no client is left out, and each type gets its own.
THEOREM DeployedAlways ==
  ASSUME Clients(K_TYPES) = N_EQUIPMENTS
  PROVE  Spec => []DeployedAsPlanned
<1>1. HomeInv => DeployedAsPlanned
  <2> SUFFICES ASSUME HomeInv, phase = "run" PROVE DeployedAsPlanned
    BY DEF DeployedAsPlanned
  <2> DEFINE g == g_trafficSources
             served == [t \in 1 .. K_TYPES |->
                          {g[i].from : i \in {i \in DOMAIN g : g[i].to[1] = Server(t)}}
                            \cup {g[i].to[1] : i \in {i \in DOMAIN g : g[i].from = Server(t)}}]
  <2>1. TypeOK /\ SourcesInv /\ nextClientIndex = Clients(K_TYPES)
    BY DEF HomeInv, SourcesInv
  <2>2. DOMAIN served = 1 .. K_TYPES /\ \A t \in 1 .. K_TYPES : served[t] = Share(t)
    BY <2>1, ServedFacts
  <2> HIDE DEF served
  <2>3. \A t \in 1 .. K_TYPES : Cardinality(served[t]) = Counts[t]
    BY <2>2, ShareFacts
  <2>4. UNION Range(served) = ClientNodes
    <3>1. \A c : c \in UNION Range(served) <=> \E t \in 1 .. K_TYPES : c \in Share(t)
      BY <2>2 DEF Range
    <3>2. \A c \in ClientNodes : \E t \in 1 .. K_TYPES : c \in Share(t)
      <4> SUFFICES ASSUME NEW c \in ClientNodes PROVE \E t \in 1 .. K_TYPES : c \in Share(t)
        OBVIOUS
      <4>1. c \in Nat /\ c < Clients(K_TYPES)
        BY DeploymentAssumption DEF ClientNodes
      <4> QED
        BY <4>1, TakenByOne DEF Share
    <3> QED
      BY <3>1, <3>2, ShareFacts
  <2>5. nextClientIndex = N_EQUIPMENTS
    BY <2>1
  <2> QED
    BY <2>3, <2>4, <2>5 DEF DeployedAsPlanned, served
<1> QED
  BY <1>1, HomeInvariant, PTL

\* What a bar stands for.
LEMMA BarFacts ==
  ASSUME TypeOK, SourcesInv, SinkInv, NEW f \in AllFlows
  PROVE  IF get_app_names(f.dport) = Unknown THEN ReturnFlow(f) \in Flows
         ELSE f \in Flows /\ {f.src, f.dst} \cap ServerNodes = {Server(get_app_names(f.dport))}
<1>1. CASE f \in Flows /\ f.dport \in 9001 .. 9011
  <2>1. PICK i \in DOMAIN g_trafficSources : f = Flow(i)
    BY <1>1 DEF Flows
  <2> DEFINE s == g_trafficSources[i]
  <2>2. PICK t \in 1 .. K_TYPES, c \in ClientNodes : s \in Range(Sources(t, c))
    BY SourceAt
  <2>3. PORT_TO_APP_NAME[s.to[2]] = t /\ {s.from, s.to[1]} = {c, Server(t)}
    BY <2>2, SourceFacts
  <2> HIDE DEF s
  <2>4. f.src = s.from /\ f.dst = s.to[1] /\ f.dport = s.to[2]
    BY <2>1 DEF Flow, s
  <2>5. get_app_names(f.dport) = t
    BY <1>1, <2>3, <2>4 DEF get_app_names, PORT_TO_APP_NAME
  <2>6. t # Unknown
    BY DEF Unknown, K_TYPES
  <2> DEFINE x == f.src
             y == f.dst
             w == Server(t)
  <2>7. {x, y} = {c, w}
    BY <2>3, <2>4
  <2> HIDE DEF x, y, w
  <2>8. (x = c /\ y = w) \/ (x = w /\ y = c)
    BY <2>7
  <2>9. {x, y} \cap ServerNodes = {Server(t)}
    BY <2>2, <2>8, TwoEnds DEF w
  <2> QED
    BY <1>1, <2>5, <2>6, <2>9 DEF x, y
<1>2. CASE ReturnFlow(f) \in Flows /\ f.dport \notin 9001 .. 9011
  <2>1. get_app_names(f.dport) = Unknown
    BY <1>2 DEF get_app_names, PORT_TO_APP_NAME
  <2> QED
    BY <1>2, <2>1
<1> QED
  BY <1>1, <1>2, FlowShape

\* The mean of figures that are at most 99.
LEMMA MeanFacts ==
  ASSUME NEW S, IsFiniteSet(S), S # {}, NEW h, DOMAIN h = S, \A x \in S : h[x] \in 0 .. 99
  PROVE  SumFunction(h) \div Cardinality(S) \in 0 .. 99
<1> DEFINE n == Cardinality(S)
           m == Sum(h, S)
           q == m \div n
<1>1. SumFunction(h) = m
  BY DEF SumFunction, Sum
<1>2. m \in Nat /\ m <= 99 * n
  <2>1. \A x \in S : h[x] \in Nat /\ h[x] <= 99
    OBVIOUS
  <2> QED
    BY <2>1, SumNatural, SumBound
<1>3. n \in Nat /\ n > 0
  <2>1. n \in Nat /\ n # 0
    BY FS_CardinalityType, FS_EmptySet
  <2> QED
    BY <2>1
<1> HIDE DEF n, m
<1>4. q \in Int /\ n * q <= m /\ m < n * q + n
  BY <1>2, <1>3
<1> HIDE DEF q
<1>5. q >= 0
  <2> SUFFICES ASSUME q <= -1 PROVE FALSE
    BY <1>4
  <2>1. n * q <= n * (-1)
    BY <1>3, <1>4
  <2> QED
    BY <1>2, <1>3, <1>4, <2>1
<1>6. q <= 99
  <2> SUFFICES ASSUME q >= 100 PROVE FALSE
    BY <1>4
  <2>1. n * q >= n * 100
    BY <1>3, <1>4
  <2> QED
    BY <1>2, <1>3, <1>4, <2>1
<1> QED
  BY <1>1, <1>4, <1>5, <1>6 DEF q, n

\* BarsNameApplications for every run: no bar mixes applications, or a stream with
\* acknowledgements.
THEOREM BarsNameApplicationsAlways == Spec => []BarsNameApplications
<1>1. HomeInv => BarsNameApplications
  <2> SUFFICES ASSUME HomeInv, phase = "measured", NEW port \in Bars, NEW f \in Grouped(port)
               PROVE  LET app == get_app_names(port)
                          ends == {f.src, f.dst}
                      IN /\ loss_by_app(port) \in 0 .. 99
                         /\ IF app = Unknown THEN ReturnFlow(f) \in Flows
                            ELSE f \in Flows /\ ends \cap ServerNodes = {Server(app)}
    BY DEF BarsNameApplications
  <2>1. TypeOK /\ SourcesInv /\ SinkInv /\ ReportInv /\ StatsOK(stats)
    BY Measured DEF HomeInv
  <2>2. f \in DOMAIN flows /\ f.dport = port
    BY DEF Grouped, active_df, dstPort
  <2>3. CsvWanted
    BY <2>1, <2>2 DEF ReportInv
  <2>4. PICK span \in Lasting(stats) : flows = [x \in DOMAIN stats |-> FlowRow(stats, x, span)]
    BY <2>1, <2>3 DEF ReportInv
  <2>5. ASSUME NEW x \in Grouped(port) PROVE x \in DOMAIN stats /\ flows[x].lossPct \in 0 .. 99
    <3>1. x \in DOMAIN stats /\ flows[x].throughput[1] > 0 /\ flows[x] = FlowRow(stats, x, span)
      BY <2>4 DEF Grouped, active_df
    <3>3. stats[x] \in Counter /\ stats[x].rx <= stats[x].tx
      BY <2>1, <3>1 DEF StatsOK, Counter
    <3>2. stats[x].rx > 0
      <4>1. stats[x].rxBytes > 0
        BY <2>1, <3>1, FlowRowFacts
      <4>2. stats[x].rx # 0
        BY <3>1, <4>1 DEF HomeInv, FlowInv
      <4> QED
        BY <3>3, <4>2 DEF Counter
    <3>4. Loss(stats[x]) \in 0 .. 99
      BY <3>2, <3>3, LossFacts
    <3>5. flows[x].lossPct = Loss(stats[x])
      BY <3>1 DEF FlowRow
    <3> QED
      BY <3>1, <3>4, <3>5
  <2>6. loss_by_app(port) \in 0 .. 99
    <3> DEFINE S == Grouped(port)
               h == [x \in S |-> flows[x].lossPct]
    <3>1. S \in SUBSET DOMAIN stats /\ S # {} /\ DOMAIN h = S /\ \A x \in S : h[x] \in 0 .. 99
      BY <2>5
    <3>2. loss_by_app(port) = SumFunction(h) \div Cardinality(S)
      BY DEF loss_by_app
    <3> HIDE DEF S, h
    <3>3. IsFiniteSet(S)
      BY <2>1, <3>1, FS_Subset DEF StatsOK
    <3> QED
      BY <3>1, <3>2, <3>3, MeanFacts
  <2>7. f \in AllFlows
    BY <2>1, <2>5 DEF TypeOK
  <2> QED
    BY <2>1, <2>2, <2>6, <2>7, BarFacts
<1> QED
  BY <1>1, HomeInvariant, PTL
=============================================================================
