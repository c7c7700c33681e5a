--------------------------- MODULE SequenceLemmas ---------------------------
(***************************************************************************)
(* Facts about natural numbers and sequences that the proofs of several    *)
(* modules need.  Induction is stated for sets, so that it can be used for *)
(* what recursive functions compute.                                       *)
(***************************************************************************)
EXTENDS Integers, Sequences, SequenceTheorems, WellFoundedInduction, TLAPS

\* A set of natural numbers that is not empty has a least element.
LEMMA LeastNumber ==
  ASSUME NEW S \in SUBSET Nat, S # {}
  PROVE  \E x \in S : \A y \in S : x <= y
<1> DEFINE R == OpToRel(<, Nat)
<1>1. PICK x \in S : \A y \in S : ~(<<y, x>> \in R)
  BY WFMin, NatLessThanWellFounded
<1>2. \A y \in S : <<y, x>> \in Nat \X Nat /\ (<<y, x>>[1] < <<y, x>>[2] => <<y, x>> \in R)
  BY Zenon DEF OpToRel
<1>3. \A y \in S : ~(y < x)
  BY <1>1, <1>2
<1> QED BY <1>3

\* Induction over the natural numbers.
LEMMA NumberInduction ==
  ASSUME NEW S, 0 \in S, \A n \in Nat : n \in S => n + 1 \in S
  PROVE  \A n \in Nat : n \in S
<1> SUFFICES ASSUME Nat \ S # {} PROVE FALSE
  OBVIOUS
<1>1. PICK x \in Nat \ S : \A y \in Nat \ S : x <= y
  BY LeastNumber
<1>2. x # 0 /\ x - 1 \in Nat
  BY <1>1
<1>3. x - 1 \in S
  BY <1>1, <1>2
<1> QED BY <1>1, <1>2, <1>3

\* Induction over sequences.
LEMMA SequenceInduction ==
  ASSUME NEW S, NEW T, <<>> \in T,
         \A s \in Seq(S), e \in S : s \in T => Append(s, e) \in T
  PROVE  \A s \in Seq(S) : s \in T
<1> DEFINE P == {n \in Nat : \A s \in Seq(S) : Len(s) = n => s \in T}
<1>1. 0 \in P
  <2>1. \A s \in Seq(S) : Len(s) = 0 => s = <<>>
    OBVIOUS
  <2> QED BY <2>1
<1>2. ASSUME NEW n \in Nat, n \in P PROVE n + 1 \in P
  <2> SUFFICES ASSUME NEW s \in Seq(S), Len(s) = n + 1 PROVE s \in T
    OBVIOUS
  <2>1. PICK r \in Seq(S), e \in S : s = Append(r, e)
    BY SequenceEmptyOrAppend
  <2>2. Len(r) = n
    BY <2>1
  <2> QED BY <1>2, <2>1, <2>2
<1>3. \A n \in Nat : n \in P
  <2> HIDE DEF P
  <2> QED BY <1>1, <1>2, NumberInduction
<1> QED BY <1>3

\* Equality of sequences, for the provers not to look at their elements.
Same(s, t) == s = t

LEMMA AppendElements ==
  ASSUME NEW S, NEW s \in Seq(S), NEW e \in S
  PROVE  /\ Append(s, e) \in Seq(S) /\ Len(Append(s, e)) = Len(s) + 1 /\ Append(s, e) # <<>>
         /\ \A i \in 1 .. Len(s) : Append(s, e)[i] = s[i]
         /\ Append(s, e)[Len(s) + 1] = e
  OBVIOUS

LEMMA TailElements ==
  ASSUME NEW S, NEW s \in Seq(S), s # <<>>
  PROVE  /\ Tail(s) \in Seq(S) /\ Len(Tail(s)) = Len(s) - 1
         /\ \A i \in 1 .. Len(s) - 1 : Tail(s)[i] = s[i + 1]
  OBVIOUS

LEMMA ConcatThree ==
  ASSUME NEW S, NEW s \in Seq(S), NEW t \in Seq(S), NEW u \in Seq(S)
  PROVE  Same((s \o t) \o u, s \o (t \o u))
  BY ConcatAssociative DEF Same

LEMMA AppendConcat ==
  ASSUME NEW S, NEW s \in Seq(S), NEW t \in Seq(S), NEW e \in S
  PROVE  Same(Append(s \o t, e), s \o Append(t, e))
<1>1. <<e>> \in Seq(S) /\ s \o t \in Seq(S)
  OBVIOUS
<1>2. (s \o t) \o <<e>> = s \o (t \o <<e>>)
  BY <1>1, ConcatAssociative
<1>3. Append(s \o t, e) = (s \o t) \o <<e>> /\ Append(t, e) = t \o <<e>>
  BY <1>1, AppendIsConcat
<1> QED BY <1>2, <1>3 DEF Same

\* f is defined on 0 .. N by recursion: from v0, by means of G.
ByRecursion(f, V, v0, N, G) ==
  f \in [0 .. N -> V] /\ f[0] = v0 /\ \A n \in 1 .. N : f[n] = G[<<n, f[n - 1]>>]

\* There is such a function.
LEMMA RecursionExists ==
  ASSUME NEW V, NEW v0 \in V, NEW N \in Nat, NEW G \in [(1 .. N) \X V -> V]
  PROVE  \E f : ByRecursion(f, V, v0, N, G)
<1> DEFINE Good(f, n) == /\ f \in [0 .. n -> V] /\ f[0] = v0
                         /\ \A i \in 1 .. n : f[i] = G[<<i, f[i - 1]>>]
           P == {n \in Nat : n <= N => \E f : Good(f, n)}
<1>1. 0 \in P
  <2>1. Good([i \in 0 .. 0 |-> v0], 0)
    OBVIOUS
  <2> HIDE DEF Good
  <2> QED BY <2>1
<1>2. ASSUME NEW n \in Nat, n \in P PROVE n + 1 \in P
  <2> HIDE DEF Good
  <2> SUFFICES ASSUME n + 1 <= N PROVE \E f : Good(f, n + 1)
    OBVIOUS
  <2>1. PICK f : Good(f, n)
    BY <1>2
  <2> HIDE DEF P
  <2>2. f \in [0 .. n -> V] /\ f[0] = v0 /\ \A i \in 1 .. n : f[i] = G[<<i, f[i - 1]>>]
    BY <2>1 DEF Good
  <2> DEFINE v == G[<<n + 1, f[n]>>]
             g == [i \in 0 .. n + 1 |-> IF i = n + 1 THEN v ELSE f[i]]
  <2>3. v \in V
    BY <2>2
  <2>4. v = G[<<n + 1, f[n]>>]
    OBVIOUS
  <2> HIDE DEF v
  <2>5. g \in [0 .. n + 1 -> V] /\ g[n + 1] = v /\ \A i \in 0 .. n : g[i] = f[i]
    BY <2>2, <2>3
  <2> HIDE DEF g
  <2>6. ASSUME NEW i \in 1 .. n + 1 PROVE g[i] = G[<<i, g[i - 1]>>]
    <3>1. CASE i = n + 1
      <4>1. i - 1 \in 0 .. n /\ i - 1 = n
        BY <3>1
      <4> QED BY <4>1, <3>1, <2>4, <2>5
    <3>2. CASE i # n + 1
      <4>1. i \in 1 .. n /\ i \in 0 .. n /\ i - 1 \in 0 .. n
        BY <3>2
      <4> QED BY <4>1, <2>2, <2>5
    <3> QED BY <3>1, <3>2
  <2>7. g[0] = v0
    BY <2>2, <2>5
  <2>8. Good(g, n + 1)
    BY <2>5, <2>6, <2>7 DEF Good
  <2> QED BY <2>8
<1>3. N \in P
  <2> HIDE DEF P
  <2> QED BY <1>1, <1>2, NumberInduction
<1>4. PICK f : Good(f, N)
  BY <1>3
<1>5. ByRecursion(f, V, v0, N, G)
  BY <1>4 DEF ByRecursion
<1> QED BY <1>5
=============================================================================
