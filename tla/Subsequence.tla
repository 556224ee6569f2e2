---------------------------- MODULE Subsequence ----------------------------
(***************************************************************************)
(* The elements of a sequence at some of its positions, in their order:    *)
(* what a filter, or a list without its deleted lines, leaves. The library *)
(* has this as a recursion over the sequence; here it is a function of the *)
(* positions, which can be proved about.                                   *)
(***************************************************************************)
EXTENDS Integers, Sequences, FiniteSets

\* How many positions of I come before i, or at i.
Rank(I, i) == Cardinality({j \in I : j <= i})

\* The k-th position of I.
At(I, k) == CHOOSE i \in I : Rank(I, i) = k

\* The elements of s at the positions of I.
Those(s, I) == [k \in 1 .. Cardinality(I) |-> s[At(I, k)]]

\* The elements of s that are in S.
Where(s, S) == Those(s, {i \in DOMAIN s : s[i] \in S})
=============================================================================
