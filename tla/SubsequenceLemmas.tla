------------------------- MODULE SubsequenceLemmas -------------------------
(***************************************************************************)
(* Facts about Subsequence: the positions of a set are counted off in      *)
(* order, and so are the elements at them.                                 *)
(***************************************************************************)
EXTENDS Subsequence, FiniteSetsExt, Functions, FiniteSetTheorems, SequenceTheorems, TLAPS

----------------------------------------------------------------------------
(* Counting positions.                                                     *)

LEMMA PositionsFacts ==
  ASSUME NEW n \in Nat, NEW I \in SUBSET (1 .. n)
  PROVE  /\ IsFiniteSet(I) /\ Cardinality(I) \in Nat /\ Cardinality(I) <= n
         /\ Cardinality(I) = n => I = 1 .. n
         /\ \A i \in Int : /\ IsFiniteSet({j \in I : j <= i})
                           /\ Rank(I, i) \in Nat /\ Rank(I, i) <= Cardinality(I)
<1>1. IsFiniteSet(1 .. n) /\ Cardinality(1 .. n) = n
  BY FS_Interval
<1>2. /\ IsFiniteSet(I) /\ Cardinality(I) \in Nat /\ Cardinality(I) <= n
      /\ Cardinality(I) = n => I = 1 .. n
  BY <1>1, FS_Subset, FS_CardinalityType
<1>3. ASSUME NEW i \in Int
      PROVE  /\ IsFiniteSet({j \in I : j <= i})
             /\ Rank(I, i) \in Nat /\ Rank(I, i) <= Cardinality(I)
  <2>1. {j \in I : j <= i} \in SUBSET I
    OBVIOUS
  <2> QED
    BY <1>2, <2>1, FS_Subset, FS_CardinalityType DEF Rank
<1> QED
  BY <1>2, <1>3

\* The count grows by one at each position, and nowhere else.
LEMMA RankSteps ==
  ASSUME NEW n \in Nat, NEW I \in SUBSET (1 .. n)
  PROVE  /\ Rank(I, 0) = 0 /\ Rank(I, n) = Cardinality(I)
         /\ \A i \in 1 .. n : Rank(I, i) = IF i \in I THEN Rank(I, i - 1) + 1 ELSE Rank(I, i - 1)
<1>0. \A j \in I : j \in Int /\ 1 <= j /\ j <= n
  OBVIOUS
<1>1. {j \in I : j <= 0} = {} /\ {j \in I : j <= n} = I
  <2>1. \A j \in I : ~(j <= 0) /\ j <= n
    BY <1>0
  <2> QED
    BY <2>1, Zenon
<1>2. ASSUME NEW i \in 1 .. n
      PROVE  Rank(I, i) = IF i \in I THEN Rank(I, i - 1) + 1 ELSE Rank(I, i - 1)
  <2> DEFINE A == {j \in I : j <= i - 1}
             B == {j \in I : j <= i}
  <2>1. IsFiniteSet(A)
    BY PositionsFacts
  <2>2. i \notin A /\ B = IF i \in I THEN A \cup {i} ELSE A
    <3>1. \A j \in I : j <= i <=> j <= i - 1 \/ j = i
      BY <1>0
    <3>2. ~(i <= i - 1) /\ i <= i
      OBVIOUS
    <3>3. B = IF i \in I THEN A \cup {i} ELSE A
      BY <3>1, <3>2, Zenon
    <3> QED
      BY <3>2, <3>3
  <2>3. Rank(I, i) = Cardinality(B) /\ Rank(I, i - 1) = Cardinality(A)
    BY DEF Rank
  <2> HIDE DEF A, B
  <2> QED
    BY <2>1, <2>2, <2>3, FS_AddElement
<1> QED
  BY <1>1, <1>2, FS_EmptySet DEF Rank

LEMMA RankGrows ==
  ASSUME NEW n \in Nat, NEW I \in SUBSET (1 .. n), NEW i \in Int, NEW k \in Int, i <= k
  PROVE  /\ Rank(I, i) <= Rank(I, k)
         /\ i < k /\ k \in I => Rank(I, i) < Rank(I, k)
<1> DEFINE A == {j \in I : j <= i}
           B == {j \in I : j <= k}
<1>1. IsFiniteSet(B) /\ A \in SUBSET B /\ Cardinality(A) \in Nat /\ Cardinality(B) \in Nat
  <2>1. \A j \in I : j \in Int
    OBVIOUS
  <2>2. A \in SUBSET B
    <3>1. \A j \in I : j <= i => j <= k
      BY <2>1
    <3> QED
      BY <3>1, Zenon
  <2>3. IsFiniteSet(A) /\ IsFiniteSet(B)
    BY PositionsFacts
  <2> QED
    BY <2>2, <2>3, FS_CardinalityType
<1>2. i < k /\ k \in I => A # B
  <2>1. SUFFICES ASSUME i < k, k \in I PROVE k \in B /\ k \notin A
    OBVIOUS
  <2> QED
    BY <2>1
<1>3. Rank(I, i) = Cardinality(A) /\ Rank(I, k) = Cardinality(B)
  BY DEF Rank
<1> HIDE DEF A, B
<1>4. Cardinality(A) <= Cardinality(B) /\ (Cardinality(A) = Cardinality(B) => A = B)
  BY <1>1, FS_Subset
<1> QED
  BY <1>1, <1>2, <1>3, <1>4

\* At and Rank are inverse to each other, and keep the order.
LEMMA AtFacts ==
  ASSUME NEW n \in Nat, NEW I \in SUBSET (1 .. n)
  PROVE  /\ \A k \in 1 .. Cardinality(I) : At(I, k) \in I /\ Rank(I, At(I, k)) = k
         /\ \A i \in I : Rank(I, i) \in 1 .. Cardinality(I) /\ At(I, Rank(I, i)) = i
         /\ \A k, m \in 1 .. Cardinality(I) : k < m <=> At(I, k) < At(I, m)
<1> DEFINE f == [i \in I |-> Rank(I, i)]
           R == 1 .. Cardinality(I)
<1>1. IsFiniteSet(I) /\ Cardinality(I) \in Nat
  BY PositionsFacts
<1>2. ASSUME NEW i \in I PROVE Rank(I, i) \in R
  <2>1. Rank(I, i - 1) \in Nat /\ Rank(I, i) \in Nat /\ Rank(I, i) <= Cardinality(I)
    <3>1. i \in Int /\ i - 1 \in Int
      OBVIOUS
    <3> QED
      BY <3>1, PositionsFacts
  <2>2. Rank(I, i) = Rank(I, i - 1) + 1
    BY RankSteps
  <2> QED
    BY <1>1, <2>1, <2>2
<1>3. ASSUME NEW i \in I, NEW k \in I, i < k PROVE Rank(I, i) < Rank(I, k)
  <2>1. i \in Int /\ k \in Int
    OBVIOUS
  <2>2. i <= k
    BY <1>3, <2>1
  <2> HIDE DEF f, R
  <2>3. i < k /\ k \in I => Rank(I, i) < Rank(I, k)
    BY <2>1, <2>2, RankGrows
  <2> QED
    BY <1>3, <2>3, Zenon
<1>4. ASSUME NEW i \in I, NEW k \in I, Rank(I, i) = Rank(I, k) PROVE i = k
  <2>1. i \in Int /\ k \in Int /\ Rank(I, i) \in Int /\ Rank(I, k) \in Int
    BY <1>2
  <2> QED
    BY <1>3, <1>4, <2>1
<1>5. f \in Injection(I, R)
  BY <1>2, <1>4 DEF Injection, IsInjective
<1>6. IsFiniteSet(R) /\ Cardinality(R) = Cardinality(I)
  BY <1>1, FS_Interval
<1>7. f \in Surjection(I, R)
  <2> HIDE DEF f, R
  <2> QED
    BY <1>5, <1>6, FS_Injection
<1>8. ASSUME NEW k \in R PROVE \E i \in I : Rank(I, i) = k
  <2>1. \E i \in I : f[i] = k
    BY <1>7 DEF Surjection
  <2> QED
    BY <2>1
<1>9. ASSUME NEW k \in R PROVE At(I, k) \in I /\ Rank(I, At(I, k)) = k
  BY <1>8 DEF At
<1>10. ASSUME NEW i \in I PROVE At(I, Rank(I, i)) = i
  BY <1>2, <1>4, <1>9
<1>11. ASSUME NEW k \in R, NEW m \in R PROVE k < m <=> At(I, k) < At(I, m)
  <2>0. \A i \in I : i \in Int
    OBVIOUS
  <2>1. At(I, k) \in I /\ At(I, m) \in I /\ At(I, k) \in Int /\ At(I, m) \in Int
    BY <1>9, <2>0
  <2>2. Rank(I, At(I, k)) = k /\ Rank(I, At(I, m)) = m
    BY <1>9
  <2> QED
    BY <1>3, <2>1, <2>2
<1> QED
  BY <1>2, <1>9, <1>10, <1>11

----------------------------------------------------------------------------
(* Elements at positions.                                                  *)

LEMMA ThoseFacts ==
  ASSUME NEW T, NEW s \in Seq(T), NEW I \in SUBSET DOMAIN s
  PROVE  /\ Cardinality(I) \in Nat /\ Cardinality(I) <= Len(s)
         /\ Those(s, I) \in Seq(T) /\ Len(Those(s, I)) = Cardinality(I)
         /\ \A k \in 1 .. Cardinality(I) : At(I, k) \in I /\ Those(s, I)[k] = s[At(I, k)]
         /\ \A i \in I : Rank(I, i) \in 1 .. Cardinality(I) /\ Those(s, I)[Rank(I, i)] = s[i]
<1>1. Len(s) \in Nat /\ DOMAIN s = 1 .. Len(s)
  OBVIOUS
<1>2. Cardinality(I) \in Nat /\ Cardinality(I) <= Len(s)
  BY <1>1, PositionsFacts
<1>3. /\ \A k \in 1 .. Cardinality(I) : At(I, k) \in I
      /\ \A i \in I : Rank(I, i) \in 1 .. Cardinality(I) /\ At(I, Rank(I, i)) = i
  BY <1>1, AtFacts
<1>4. \A k \in 1 .. Cardinality(I) : s[At(I, k)] \in T
  BY <1>3
<1>5. Those(s, I) \in Seq(T) /\ Len(Those(s, I)) = Cardinality(I)
  BY <1>2, <1>4 DEF Those
<1> QED
  BY <1>2, <1>3, <1>5 DEF Those

\* All positions: the sequence itself.
LEMMA ThoseAll ==
  ASSUME NEW T, NEW s \in Seq(T)
  PROVE  Those(s, DOMAIN s) = s
<1> DEFINE n == Len(s)
<1>1. n \in Nat /\ DOMAIN s = 1 .. n /\ s = [k \in 1 .. n |-> s[k]]
  OBVIOUS
<1>2. Cardinality(1 .. n) = n
  BY <1>1, FS_Interval
<1>3. ASSUME NEW k \in 1 .. n PROVE At(1 .. n, k) = k
  <2>1. {j \in 1 .. n : j <= k} = 1 .. k
    BY <1>1
  <2>2. Rank(1 .. n, k) = k
    <3>1. k \in Int /\ 1 <= k
      BY <1>1
    <3>2. Cardinality(1 .. k) = k
      BY <3>1, FS_Interval
    <3> QED
      BY <2>1, <3>2 DEF Rank
  <2>3. \A i \in 1 .. n : At(1 .. n, Rank(1 .. n, i)) = i
    <3> HIDE DEF n
    <3> QED
      BY <1>1, AtFacts
  <2> QED
    BY <2>2, <2>3
<1> QED
  BY <1>1, <1>2, <1>3 DEF Those

\* Some positions left out: fewer elements.
LEMMA ThoseShorter ==
  ASSUME NEW T, NEW s \in Seq(T), NEW I \in SUBSET DOMAIN s, I # DOMAIN s
  PROVE  Len(Those(s, I)) < Len(s)
BY ThoseFacts, PositionsFacts

\* The elements of two sequences at the same positions, if they agree there.
LEMMA ThoseEqual ==
  ASSUME NEW T, NEW s \in Seq(T), NEW U, NEW t \in Seq(U), NEW I \in SUBSET DOMAIN s,
         I \subseteq DOMAIN t, \A i \in I : s[i] = t[i]
  PROVE  Those(s, I) = Those(t, I)
BY ThoseFacts DEF Those

\* Positions of positions.
LEMMA ThoseOfThose ==
  ASSUME NEW T, NEW s \in Seq(T), NEW I \in SUBSET DOMAIN s, NEW J \in SUBSET I
  PROVE  Those(Those(s, I), {k \in DOMAIN Those(s, I) : At(I, k) \in J}) = Those(s, J)
<1> DEFINE N == Cardinality(I)
           K == {k \in 1 .. N : At(I, k) \in J}
<1>1. Len(s) \in Nat /\ DOMAIN s = 1 .. Len(s) /\ I \in SUBSET (1 .. Len(s)) /\ J \in SUBSET (1 .. Len(s))
  OBVIOUS
<1>2. N \in Nat /\ DOMAIN Those(s, I) = 1 .. N /\ K \in SUBSET (1 .. N)
  BY <1>1, ThoseFacts
<1>3. /\ \A k \in 1 .. N : At(I, k) \in I /\ Rank(I, At(I, k)) = k
      /\ \A i \in I : Rank(I, i) \in 1 .. N /\ At(I, Rank(I, i)) = i
      /\ \A k, m \in 1 .. N : k < m <=> At(I, k) < At(I, m)
  BY <1>1, AtFacts
<1> HIDE DEF N
<1>4. \A k \in K : k \in 1 .. N /\ At(I, k) \in J
  OBVIOUS
<1>5. \A j \in J : Rank(I, j) \in K /\ At(I, Rank(I, j)) = j
  BY <1>3
<1> HIDE DEF K
<1>6. IsFiniteSet(K) /\ IsFiniteSet(J)
  BY <1>1, <1>2, PositionsFacts
\* At takes the first part of K to the first part of J.
<1>7. ASSUME NEW A \in SUBSET K, NEW B \in SUBSET J,
             \A k \in A : At(I, k) \in B, \A j \in B : Rank(I, j) \in A
      PROVE  Cardinality(A) = Cardinality(B)
  <2> DEFINE f == [k \in A |-> At(I, k)]
  <2>1. f \in [A -> B]
    BY <1>7
  <2>2. \A j \in B : Rank(I, j) \in A /\ f[Rank(I, j)] = j
    BY <1>3, <1>7
  <2>3. \A k, m \in A : f[k] = f[m] => k = m
    BY <1>3, <1>4
  <2>4. f \in Bijection(A, B)
    <3> HIDE DEF f
    <3>1. f \in Injection(A, B)
      BY <2>1, <2>3 DEF Injection, IsInjective
    <3>2. f \in Surjection(A, B)
      BY <2>1, <2>2 DEF Surjection
    <3> QED
      BY <3>1, <3>2 DEF Bijection
  <2>5. IsFiniteSet(A)
    BY <1>6, FS_Subset
  <2> QED
    BY <2>4, <2>5, FS_Bijection DEF ExistsBijection
<1>8. Cardinality(K) = Cardinality(J)
  BY <1>4, <1>5, <1>7
<1>9. ASSUME NEW k \in K PROVE Rank(K, k) = Rank(J, At(I, k))
  <2> DEFINE A == {m \in K : m <= k}
             B == {j \in J : j <= At(I, k)}
  <2>1. \A m \in A : At(I, m) \in B
    <3> TAKE m \in A
    <3>1. m \in 1 .. N /\ k \in 1 .. N /\ At(I, m) \in J /\ m <= k
      BY <1>4
    <3>2. At(I, m) <= At(I, k)
      BY <1>1, <1>2, <1>3, <3>1
    <3> QED
      BY <3>1, <3>2
  <2>2. \A j \in B : Rank(I, j) \in A
    <3> TAKE j \in B
    <3>1. Rank(I, j) \in K /\ At(I, Rank(I, j)) = j /\ j <= At(I, k)
      BY <1>5
    <3>2. Rank(I, j) \in 1 .. N /\ k \in 1 .. N
      BY <1>4, <3>1
    <3>3. ~(k < Rank(I, j))
      BY <1>1, <1>3, <3>1, <3>2
    <3> QED
      BY <1>2, <3>1, <3>2, <3>3
  <2>3. A \in SUBSET K /\ B \in SUBSET J
    OBVIOUS
  <2>4. Rank(K, k) = Cardinality(A) /\ Rank(J, At(I, k)) = Cardinality(B)
    BY DEF Rank
  <2> HIDE DEF A, B
  <2> QED
    BY <1>7, <2>1, <2>2, <2>3, <2>4
<1>10. ASSUME NEW x \in 1 .. Cardinality(K)
       PROVE  At(K, x) \in K /\ At(I, At(K, x)) = At(J, x)
  <2>1. At(K, x) \in K /\ Rank(K, At(K, x)) = x
    BY <1>2, AtFacts
  <2>2. At(I, At(K, x)) \in J /\ Rank(J, At(I, At(K, x))) = x
    BY <1>4, <1>9, <2>1
  <2>3. \A j \in J : At(J, Rank(J, j)) = j
    BY <1>1, AtFacts
  <2> QED
    BY <2>1, <2>2, <2>3
<1>11. \A k \in 1 .. N : Those(s, I)[k] = s[At(I, k)]
  BY ThoseFacts DEF N
<1>12. Those(Those(s, I), K) = Those(s, J)
  BY <1>2, <1>4, <1>8, <1>10, <1>11 DEF Those
<1> QED
  BY <1>2, <1>12 DEF K

\* A filter leaves the elements of S, each as often as it was there.
LEMMA WhereFacts ==
  ASSUME NEW T, NEW s \in Seq(T), NEW S
  PROVE  /\ Where(s, S) \in Seq(T)
         /\ Range(Where(s, S)) = Range(s) \cap S
         /\ \A k, m \in DOMAIN Where(s, S) : k # m =>
              \E i, j \in DOMAIN s : i # j /\ Where(s, S)[k] = s[i] /\ Where(s, S)[m] = s[j]
         /\ IsInjective(s) => IsInjective(Where(s, S))
<1> DEFINE I == {i \in DOMAIN s : s[i] \in S}
           W == Those(s, I)
<1>0. I \in SUBSET DOMAIN s /\ Where(s, S) = W
  BY DEF Where
<1>1. /\ Cardinality(I) \in Nat /\ W \in Seq(T) /\ Len(W) = Cardinality(I)
      /\ \A k \in 1 .. Cardinality(I) : At(I, k) \in I /\ W[k] = s[At(I, k)]
      /\ \A i \in I : Rank(I, i) \in 1 .. Cardinality(I) /\ W[Rank(I, i)] = s[i]
  BY <1>0, ThoseFacts
<1>2. DOMAIN W = 1 .. Cardinality(I)
  <2> HIDE DEF W, I
  <2> QED
    BY <1>1
<1>3. \A k, m \in 1 .. Cardinality(I) : k < m <=> At(I, k) < At(I, m)
  <2>1. Len(s) \in Nat /\ DOMAIN s = 1 .. Len(s)
    OBVIOUS
  <2> QED
    BY <1>0, <2>1, AtFacts
<1>4. Range(W) = Range(s) \cap S
  <2>1. \A k \in DOMAIN W : W[k] \in Range(s) \cap S
    BY <1>1, <1>2 DEF Range
  <2>2. \A i \in DOMAIN s : s[i] \in S => \E k \in DOMAIN W : W[k] = s[i]
    BY <1>1, <1>2
  <2> HIDE DEF W, I
  <2> QED
    BY <2>1, <2>2 DEF Range
<1>5. ASSUME NEW k \in DOMAIN W, NEW m \in DOMAIN W, k # m
      PROVE  \E i, j \in DOMAIN s : i # j /\ W[k] = s[i] /\ W[m] = s[j]
  <2>1. At(I, k) \in DOMAIN s /\ At(I, m) \in DOMAIN s /\ W[k] = s[At(I, k)] /\ W[m] = s[At(I, m)]
    BY <1>1, <1>2
  <2>2. At(I, k) # At(I, m)
    <3>1. k \in Int /\ m \in Int /\ At(I, k) \in Int /\ At(I, m) \in Int
      BY <1>1, <1>2, <2>1
    <3>2. k < m \/ m < k
      BY <1>5, <3>1
    <3> HIDE DEF W, I
    <3> QED
      BY <1>2, <1>3, <3>1, <3>2
  <2> QED
    BY <2>1, <2>2
<1>6. IsInjective(s) => IsInjective(W)
  <2> HIDE DEF W, I
  <2> QED
    BY <1>5 DEF IsInjective
<1> QED
  BY <1>0, <1>1, <1>4, <1>5, <1>6

\* The least and the greatest of some positions.
LEMMA Extremes ==
  ASSUME NEW n \in Nat, NEW I \in SUBSET (1 .. n), I # {}
  PROVE  /\ Min(I) \in I /\ \A i \in I : Min(I) <= i
         /\ Max(I) \in I /\ \A i \in I : i <= Max(I)
<1> DEFINE N == Cardinality(I)
<1>1. /\ N \in Nat
      /\ \A k \in 1 .. N : At(I, k) \in I
      /\ \A i \in I : Rank(I, i) \in 1 .. N /\ At(I, Rank(I, i)) = i
      /\ \A k, m \in 1 .. N : k < m <=> At(I, k) < At(I, m)
  BY PositionsFacts, AtFacts
<1> HIDE DEF N
<1>2. 1 \in 1 .. N /\ N \in 1 .. N
  <2>1. PICK i \in I : TRUE
    OBVIOUS
  <2>2. Rank(I, i) \in 1 .. N
    BY <1>1
  <2> QED
    BY <1>1, <2>2
<1>3. \A i \in I : i \in Int
  OBVIOUS
<1>4. ASSUME NEW k \in 1 .. N PROVE At(I, 1) <= At(I, k) /\ At(I, k) <= At(I, N)
  <2>1. At(I, 1) \in Int /\ At(I, k) \in Int /\ At(I, N) \in Int
    BY <1>1, <1>2, <1>3
  <2>2. k = 1 \/ At(I, 1) < At(I, k)
    BY <1>1, <1>2
  <2>3. k = N \/ At(I, k) < At(I, N)
    BY <1>1, <1>2
  <2> QED
    BY <2>1, <2>2, <2>3
<1>5. /\ At(I, 1) \in I /\ \A i \in I : At(I, 1) <= i
      /\ At(I, N) \in I /\ \A i \in I : i <= At(I, N)
  BY <1>1, <1>2, <1>4
<1>6. Min(I) \in I /\ \A i \in I : Min(I) <= i
  BY <1>5 DEF Min
<1>7. Max(I) \in I /\ \A i \in I : i <= Max(I)
  BY <1>5 DEF Max
<1> QED
  BY <1>6, <1>7

LEMMA Least ==
  ASSUME NEW n \in Nat, NEW I \in SUBSET (1 .. n), NEW k \in I, \A i \in I : k <= i
  PROVE  Min(I) = k
<1>1. Min(I) \in I /\ Min(I) <= k
  BY Extremes
<1>2. \A i \in I : i \in Int
  OBVIOUS
<1>3. Min(I) \in Int /\ k \in Int /\ k <= Min(I)
  BY <1>1, <1>2, Zenon
<1> QED
  BY <1>1, <1>3

\* All elements from one position to another.
LEMMA SliceFacts ==
  ASSUME NEW T, NEW s \in Seq(T), NEW a \in 1 .. Len(s), NEW b \in a .. Len(s)
  PROVE  /\ SubSeq(s, a, b) \in Seq(T) /\ Len(SubSeq(s, a, b)) = b - a + 1
         /\ \A k \in 1 .. b - a + 1 : SubSeq(s, a, b)[k] = s[a + k - 1]
OBVIOUS

LEMMA ThoseBetween ==
  ASSUME NEW T, NEW s \in Seq(T), NEW a \in 1 .. Len(s), NEW b \in a .. Len(s)
  PROVE  Those(s, a .. b) = SubSeq(s, a, b)
<1>1. Len(s) \in Nat /\ DOMAIN s = 1 .. Len(s) /\ a .. b \in SUBSET DOMAIN s
  OBVIOUS
<1>2. Cardinality(a .. b) = b - a + 1
  BY <1>1, FS_Interval
<1>3. ASSUME NEW k \in 1 .. b - a + 1 PROVE At(a .. b, k) = a + k - 1
  <2>1. a + k - 1 \in a .. b
    BY <1>1
  <2>2. {j \in a .. b : j <= a + k - 1} = a .. a + k - 1
    BY <1>1
  <2>3. Rank(a .. b, a + k - 1) = k
    <3>1. Cardinality(a .. a + k - 1) = k
      <4>1. a \in Int /\ a + k - 1 \in Int /\ a <= a + k - 1
        BY <1>1
      <4> QED
        BY <4>1, FS_Interval
    <3> QED
      BY <2>2, <3>1 DEF Rank
  <2>4. Len(s) \in Nat /\ a .. b \in SUBSET (1 .. Len(s))
    BY <1>1
  <2>5. \A i \in a .. b : At(a .. b, Rank(a .. b, i)) = i
    BY <2>4, AtFacts, Zenon
  <2>6. At(a .. b, Rank(a .. b, a + k - 1)) = a + k - 1
    BY <2>1, <2>5, Zenon
  <2> QED
    BY <2>3, <2>6, Zenon
<1>4. Those(s, a .. b) = [k \in 1 .. b - a + 1 |-> s[a + k - 1]]
  BY <1>2, <1>3 DEF Those
<1> QED
  BY <1>1, <1>4
=============================================================================
