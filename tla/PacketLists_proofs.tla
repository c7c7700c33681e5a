--------------------------- MODULE PacketLists_proofs ---------------------------
(***************************************************************************)
(* What the operators of TrafficPipeline and SegmentTags do to lists: the  *)
(* packets of an application on the devices of its route, and the items of *)
(* a send buffer.                                                          *)
(***************************************************************************)
EXTENDS TrafficPipeline, SequenceLemmas, FiniteSetTheorems

-----------------------------------------------------------------------------
(* The packets of one application in a list.                               *)

\* f gives the packets of application a among the first n, for each n.
Firsts(f, S, l, a) ==
  /\ f \in [0 .. Len(l) -> Seq(S)]
  /\ f[0] = <<>>
  /\ \A n \in 1 .. Len(l) : f[n] = IF l[n].src = a THEN Append(f[n - 1], l[n]) ELSE f[n - 1]

LEMMA OfAppRecursion ==
  ASSUME NEW S, NEW l \in Seq(S), NEW a
  PROVE  \E f : Firsts(f, S, l, a) /\ OfApp(l, a) = f[Len(l)]
<1> DEFINE N == Len(l)
           IsFirst(f) == f = [n \in 0 .. N |-> IF n = 0 THEN <<>>
                                ELSE IF l[n].src = a THEN Append(f[n - 1], l[n]) ELSE f[n - 1]]
           F == CHOOSE f : IsFirst(f)
           G == [x \in (1 .. N) \X Seq(S) |-> IF l[x[1]].src = a THEN Append(x[2], l[x[1]]) ELSE x[2]]
<1>1. \E f : IsFirst(f)
  <2>1. G \in [(1 .. N) \X Seq(S) -> Seq(S)]
    OBVIOUS
  <2>2. <<>> \in Seq(S) /\ N \in Nat
    OBVIOUS
  <2>3. \A n \in 1 .. N, v \in Seq(S) : G[<<n, v>>] = IF l[n].src = a THEN Append(v, l[n]) ELSE v
    OBVIOUS
  <2> DEFINE V == Seq(S)
  <2> HIDE DEF G, N, V
  <2>9. G \in [(1 .. N) \X V -> V] /\ <<>> \in V
    BY <2>1, <2>2 DEF V
  <2>10. PICK f : ByRecursion(f, V, <<>>, N, G)
    BY <2>2, <2>9, RecursionExists
  <2>4. f \in [0 .. N -> Seq(S)] /\ f[0] = <<>> /\ \A n \in 1 .. N : f[n] = G[<<n, f[n - 1]>>]
    BY <2>10 DEF V, ByRecursion
  <2>5. ASSUME NEW n \in 1 .. N PROVE f[n] = IF l[n].src = a THEN Append(f[n - 1], l[n]) ELSE f[n - 1]
    <3>1. n - 1 \in 0 .. N
      BY <2>2
    <3> QED BY <3>1, <2>3, <2>4
  <2>6. \A n \in 0 .. N : n = 0 \/ n \in 1 .. N
    BY <2>2
  <2>7. f = [n \in 0 .. N |-> f[n]]
    BY <2>4
  <2>8. IsFirst(f)
    BY <2>4, <2>5, <2>6, <2>7
  <2> QED BY <2>8
<1>2. OfApp(l, a) = F[N]
  BY DEF OfApp
<1>3. IsFirst(F)
  BY <1>1
<1> HIDE DEF F
<1>4. F[0] = <<>>
  BY <1>3
<1>5. ASSUME NEW n \in 1 .. N PROVE F[n] = IF l[n].src = a THEN Append(F[n - 1], l[n]) ELSE F[n - 1]
  <2>1. n \in 0 .. N /\ n # 0
    OBVIOUS
  <2> QED BY <1>3, <2>1
<1>6. \A n \in 0 .. N : F[n] \in Seq(S)
  <2> DEFINE P == {n \in Nat : n \in 0 .. N => F[n] \in Seq(S)}
  <2>1. 0 \in P
    <3>1. <<>> \in Seq(S)
      OBVIOUS
    <3> QED BY <3>1, <1>4
  <2>2. ASSUME NEW n \in Nat, n \in P PROVE n + 1 \in P
    <3> SUFFICES ASSUME n + 1 \in 1 .. N PROVE F[n + 1] \in Seq(S)
      OBVIOUS
    <3>1. n \in 0 .. N /\ (n + 1) - 1 = n /\ l[n + 1] \in S
      OBVIOUS
    <3>2. F[n] \in Seq(S)
      BY <3>1, <2>2
    <3>3. Append(F[n], l[n + 1]) \in Seq(S)
      BY <3>1, <3>2
    <3> QED BY <3>1, <3>2, <3>3, <1>5
  <2>3. \A n \in Nat : n \in P
    <3> HIDE DEF P
    <3> QED BY <2>1, <2>2, NumberInduction
  <2> QED BY <2>3
<1>7. F \in [0 .. N -> Seq(S)]
  <2>1. F = [n \in 0 .. N |-> F[n]]
    BY <1>3
  <2> QED BY <2>1, <1>6
<1>8. Firsts(F, S, l, a)
  BY <1>4, <1>5, <1>7 DEF Firsts
<1> QED BY <1>2, <1>8

LEMMA OfAppType ==
  ASSUME NEW S, NEW l \in Seq(S), NEW a
  PROVE  OfApp(l, a) \in Seq(S)
<1>1. PICK f : Firsts(f, S, l, a) /\ OfApp(l, a) = f[Len(l)]
  BY OfAppRecursion
<1> QED BY <1>1 DEF Firsts

LEMMA OfAppEmpty == ASSUME NEW a PROVE OfApp(<<>>, a) = <<>>
<1>1. <<>> \in Seq({})
  OBVIOUS
<1>2. PICK f : Firsts(f, {}, <<>>, a) /\ OfApp(<<>>, a) = f[Len(<<>>)]
  BY <1>1, OfAppRecursion
<1> QED BY <1>2 DEF Firsts

LEMMA OfAppAppend ==
  ASSUME NEW S, NEW l \in Seq(S), NEW p \in S, NEW a
  PROVE  OfApp(Append(l, p), a) = IF p.src = a THEN Append(OfApp(l, a), p) ELSE OfApp(l, a)
<1> DEFINE m == Append(l, p)
           N == Len(l)
<1>1. m \in Seq(S) /\ Len(m) = N + 1 /\ m[N + 1] = p /\ (\A n \in 1 .. N : m[n] = l[n]) /\ N \in Nat
  OBVIOUS
<1> HIDE DEF m
<1>7. PICK f : Firsts(f, S, l, a) /\ OfApp(l, a) = f[N]
  BY OfAppRecursion
<1>8. PICK g : Firsts(g, S, m, a) /\ OfApp(m, a) = g[Len(m)]
  BY <1>1, OfAppRecursion
<1>2. /\ f[0] = <<>>
      /\ \A n \in 1 .. N : f[n] = IF l[n].src = a THEN Append(f[n - 1], l[n]) ELSE f[n - 1]
  BY <1>7 DEF Firsts
<1> HIDE DEF N
<1>3. /\ g[0] = <<>>
      /\ \A n \in 1 .. N + 1 : g[n] = IF m[n].src = a THEN Append(g[n - 1], m[n]) ELSE g[n - 1]
  BY <1>1, <1>8 DEF Firsts
<1>4. \A n \in Nat : n <= N => g[n] = f[n]
  <2> DEFINE P == {n \in Nat : n <= N => g[n] = f[n]}
  <2>1. 0 \in P
    BY <1>2, <1>3
  <2>2. ASSUME NEW n \in Nat, n \in P PROVE n + 1 \in P
    <3> SUFFICES ASSUME n + 1 <= N PROVE g[n + 1] = f[n + 1]
      OBVIOUS
    <3>1. n + 1 \in 1 .. N /\ n + 1 \in 1 .. N + 1 /\ (n + 1) - 1 = n
      BY <1>1
    <3>2. m[n + 1] = l[n + 1] /\ g[n] = f[n]
      BY <3>1, <2>2, <1>1
    <3> QED BY <3>1, <3>2, <1>2, <1>3
  <2>3. \A n \in Nat : n \in P
    <3> HIDE DEF P
    <3> QED BY <2>1, <2>2, NumberInduction
  <2> QED BY <2>3
<1>5. N + 1 \in 1 .. N + 1 /\ (N + 1) - 1 = N /\ g[N] = f[N]
  BY <1>1, <1>4
<1>6. g[N + 1] = IF p.src = a THEN Append(g[N], p) ELSE g[N]
  BY <1>1, <1>3, <1>5
<1> QED BY <1>1, <1>7, <1>8, <1>5, <1>6 DEF m

LEMMA OfAppConcat ==
  ASSUME NEW S, NEW l \in Seq(S), NEW m \in Seq(S), NEW a
  PROVE  OfApp(l \o m, a) = OfApp(l, a) \o OfApp(m, a)
<1> DEFINE T == {t \in Seq(S) : OfApp(l \o t, a) = OfApp(l, a) \o OfApp(t, a)}
<1>1. <<>> \in T
  <2>1. l \o <<>> = l /\ OfApp(l, a) \o <<>> = OfApp(l, a)
    BY OfAppType
  <2>2. OfApp(l \o <<>>, a) = OfApp(l, a) \o OfApp(<<>>, a)
    BY <2>1, OfAppEmpty, Zenon
  <2> QED BY <2>2
<1>2. ASSUME NEW t \in Seq(S), NEW p \in S, t \in T PROVE Append(t, p) \in T
  <2>8. PICK L \in Seq(S) : L = OfApp(l, a)
    BY OfAppType
  <2>9. PICK M \in Seq(S) : M = OfApp(t, a)
    BY OfAppType
  <2>1. l \o Append(t, p) = Append(l \o t, p) /\ l \o t \in Seq(S)
    OBVIOUS
  <2>2. OfApp(Append(l \o t, p), a) = IF p.src = a THEN Append(OfApp(l \o t, a), p) ELSE OfApp(l \o t, a)
    BY <2>1, OfAppAppend
  <2>3. OfApp(Append(t, p), a) = IF p.src = a THEN Append(M, p) ELSE M
    BY <2>9, OfAppAppend
  <2>4. OfApp(l \o t, a) = L \o M
    BY <1>2, <2>8, <2>9
  <2>6. Append(L \o M, p) = L \o Append(M, p)
    <3>1. Same(Append(L \o M, p), L \o Append(M, p))
      BY AppendConcat
    <3> QED BY <3>1 DEF Same
  <2>7. OfApp(l \o Append(t, p), a) = L \o OfApp(Append(t, p), a)
    BY <2>1, <2>2, <2>3, <2>4, <2>6, Zenon
  <2> QED BY <2>7, <2>8
<1>3. \A t \in Seq(S) : t \in T
  <2> HIDE DEF T
  <2> QED BY <1>1, <1>2, SequenceInduction
<1> QED BY <1>3

LEMMA OfAppOne ==
  ASSUME NEW p, NEW a
  PROVE  OfApp(<<p>>, a) = IF p.src = a THEN <<p>> ELSE <<>>
<1>1. <<>> \in Seq({p}) /\ Append(<<>>, p) = <<p>>
  OBVIOUS
<1>2. OfApp(Append(<<>>, p), a) = IF p.src = a THEN Append(OfApp(<<>>, a), p) ELSE OfApp(<<>>, a)
  BY <1>1, OfAppAppend, p \in {p}, Zenon
<1> QED BY <1>1, <1>2, OfAppEmpty

LEMMA OfAppTail ==
  ASSUME NEW S, NEW l \in Seq(S), l # <<>>, NEW a
  PROVE  /\ Head(l).src = a => /\ OfApp(l, a) # <<>>
                               /\ Head(OfApp(l, a)) = Head(l)
                               /\ OfApp(Tail(l), a) = Tail(OfApp(l, a))
         /\ Head(l).src # a => OfApp(Tail(l), a) = OfApp(l, a)
<1> DEFINE p == Head(l)
           T == OfApp(Tail(l), a)
<1>1. l = <<p>> \o Tail(l) /\ <<p>> \in Seq(S) /\ Tail(l) \in Seq(S)
  OBVIOUS
<1>2. OfApp(l, a) = OfApp(<<p>>, a) \o T
  <2> HIDE DEF p
  <2>1. PICK q \in Seq(S) : q = <<p>>
    BY <1>1
  <2>2. PICK t \in Seq(S) : t = Tail(l)
    BY <1>1
  <2>3. OfApp(q \o t, a) = OfApp(q, a) \o OfApp(t, a)
    BY OfAppConcat
  <2> QED BY <1>1, <2>1, <2>2, <2>3
<1>3. T \in Seq(S)
  BY <1>1, OfAppType
<1> HIDE DEF T
<1>4. <<p>> \o T # <<>> /\ Head(<<p>> \o T) = p /\ Tail(<<p>> \o T) = T /\ <<>> \o T = T
  BY <1>3, <1>1
<1>5. OfApp(<<p>>, a) = IF p.src = a THEN <<p>> ELSE <<>>
  BY OfAppOne
<1> QED BY <1>2, <1>4, <1>5 DEF T

LEMMA OfAppElements ==
  ASSUME NEW S, NEW l \in Seq(S), NEW a, NEW k \in 1 .. Len(OfApp(l, a))
  PROVE  \E i \in 1 .. Len(l) : OfApp(l, a)[k] = l[i] /\ l[i].src = a
<1> DEFINE E(t) == \A x \in 1 .. Len(OfApp(t, a)) :
                      \E i \in 1 .. Len(t) : OfApp(t, a)[x] = t[i] /\ t[i].src = a
           T == {t \in Seq(S) : E(t)}
<1>1. <<>> \in T
  BY OfAppEmpty
<1>2. ASSUME NEW t \in Seq(S), NEW p \in S, t \in T PROVE Append(t, p) \in T
  <2> DEFINE u == Append(t, p)
             F == OfApp(t, a)
  <2>1. OfApp(u, a) = IF p.src = a THEN Append(F, p) ELSE F
    BY OfAppAppend
  <2>2. F \in Seq(S)
    BY OfAppType
  <2>3. u \in Seq(S) /\ Len(u) = Len(t) + 1 /\ Len(t) \in Nat /\ u[Len(t) + 1] = p /\ \A i \in 1 .. Len(t) : u[i] = t[i]
    OBVIOUS
  <2>4. E(t)
    BY <1>2
  <2> HIDE DEF u
  <2>5. ASSUME NEW x \in 1 .. Len(F) PROVE \E i \in 1 .. Len(u) : F[x] = u[i] /\ u[i].src = a
    <3>1. PICK i \in 1 .. Len(t) : F[x] = t[i] /\ t[i].src = a
      BY <2>4
    <3>2. i \in 1 .. Len(u) /\ u[i] = t[i]
      BY <2>3
    <3> QED BY <3>1, <3>2
  <2> HIDE DEF F
  <2>6. ASSUME p.src = a, NEW x \in 1 .. Len(Append(F, p))
        PROVE  \E i \in 1 .. Len(u) : Append(F, p)[x] = u[i] /\ u[i].src = a
    <3>1. CASE x \in 1 .. Len(F)
      <4>1. Append(F, p)[x] = F[x]
        BY <2>2, <3>1
      <4> QED BY <4>1, <2>5, <3>1
    <3>2. CASE x \notin 1 .. Len(F)
      <4>1. Append(F, p)[x] = p
        BY <2>2, <3>2
      <4>2. Len(t) + 1 \in 1 .. Len(u)
        BY <2>3
      <4> QED BY <4>1, <4>2, <2>3, <2>6
    <3> QED BY <3>1, <3>2
  <2>7. E(u)
    BY <2>1, <2>5, <2>6
  <2> QED BY <2>3, <2>7 DEF u
<1>3. \A t \in Seq(S) : t \in T
  <2> HIDE DEF T
  <2> QED BY <1>1, <1>2, SequenceInduction
<1> QED BY <1>3

-----------------------------------------------------------------------------
(* The contents of the devices on a route, one after the other.            *)

\* Each of the first n elements of F is a list.
Lists(F, S, n) == \A i \in 1 .. n : F[i] \in Seq(S)

\* f gives what the first i lists are when joined, for each i up to n.
JoinedBy(f, S, F, n) ==
  /\ f \in [0 .. n -> Seq(S)]
  /\ f[0] = <<>>
  /\ \A i \in 1 .. n : f[i] = F[i] \o f[i - 1]

LEMMA JoinedRecursion ==
  ASSUME NEW S, NEW n \in Nat, NEW F, Lists(F, S, n)
  PROVE  \E f : JoinedBy(f, S, F, n) /\ Joined(F, n) = f[n]
<1> DEFINE IsJoined(f) == f = [i \in 0 .. n |-> IF i = 0 THEN <<>> ELSE F[i] \o f[i - 1]]
           U == CHOOSE f : IsJoined(f)
           G == [x \in (1 .. n) \X Seq(S) |-> F[x[1]] \o x[2]]
           V == Seq(S)
<1>1. \E f : IsJoined(f)
  <2>1. \A i \in 1 .. n, v \in Seq(S) : G[<<i, v>>] = F[i] \o v
    OBVIOUS
  <2>2. G \in [(1 .. n) \X Seq(S) -> Seq(S)]
    BY DEF Lists
  <2>3. <<>> \in Seq(S)
    OBVIOUS
  <2>4. G \in [(1 .. n) \X V -> V] /\ <<>> \in V
    BY <2>2, <2>3
  <2> HIDE DEF G, V
  <2>5. PICK f : ByRecursion(f, V, <<>>, n, G)
    BY <2>4, RecursionExists
  <2>6. f \in [0 .. n -> Seq(S)] /\ f[0] = <<>> /\ \A i \in 1 .. n : f[i] = G[<<i, f[i - 1]>>]
    BY <2>5 DEF V, ByRecursion
  <2>7. ASSUME NEW i \in 1 .. n PROVE f[i] = F[i] \o f[i - 1]
    <3>1. i - 1 \in 0 .. n
      OBVIOUS
    <3> QED BY <3>1, <2>1, <2>6
  <2>8. \A i \in 0 .. n : i = 0 \/ i \in 1 .. n
    OBVIOUS
  <2>9. f = [i \in 0 .. n |-> f[i]]
    BY <2>6
  <2>10. IsJoined(f)
    BY <2>6, <2>7, <2>8, <2>9
  <2> QED BY <2>10
<1>2. Joined(F, n) = U[n]
  BY DEF Joined
<1>3. IsJoined(U)
  BY <1>1
<1> HIDE DEF U
<1>4. U[0] = <<>>
  BY <1>3
<1>5. ASSUME NEW i \in 1 .. n PROVE U[i] = F[i] \o U[i - 1]
  <2>1. i \in 0 .. n /\ i # 0
    OBVIOUS
  <2> QED BY <1>3, <2>1
<1>6. \A i \in 0 .. n : U[i] \in Seq(S)
  <2> DEFINE P == {i \in Nat : i \in 0 .. n => U[i] \in Seq(S)}
  <2>1. 0 \in P
    <3>1. <<>> \in Seq(S)
      OBVIOUS
    <3> QED BY <3>1, <1>4
  <2>2. ASSUME NEW i \in Nat, i \in P PROVE i + 1 \in P
    <3> SUFFICES ASSUME i + 1 \in 1 .. n PROVE U[i + 1] \in Seq(S)
      OBVIOUS
    <3>1. i \in 0 .. n /\ (i + 1) - 1 = i /\ F[i + 1] \in Seq(S)
      BY DEF Lists
    <3>2. U[i] \in Seq(S)
      BY <3>1, <2>2
    <3>3. F[i + 1] \o U[i] \in Seq(S)
      BY <3>1, <3>2
    <3> QED BY <3>1, <3>3, <1>5
  <2>3. \A i \in Nat : i \in P
    <3> HIDE DEF P
    <3> QED BY <2>1, <2>2, NumberInduction
  <2> QED BY <2>3
<1>7. U \in [0 .. n -> Seq(S)]
  <2>1. U = [i \in 0 .. n |-> U[i]]
    BY <1>3
  <2> QED BY <2>1, <1>6
<1>8. JoinedBy(U, S, F, n)
  BY <1>4, <1>5, <1>7 DEF JoinedBy
<1> QED BY <1>2, <1>8

LEMMA JoinedType ==
  ASSUME NEW S, NEW n \in Nat, NEW F, Lists(F, S, n)
  PROVE  Joined(F, n) \in Seq(S)
<1>1. PICK f : JoinedBy(f, S, F, n) /\ Joined(F, n) = f[n]
  BY JoinedRecursion
<1> QED BY <1>1 DEF JoinedBy

LEMMA JoinedNone == ASSUME NEW F PROVE Joined(F, 0) = <<>>
<1>1. Lists(F, {}, 0)
  BY DEF Lists
<1>2. PICK f : JoinedBy(f, {}, F, 0) /\ Joined(F, 0) = f[0]
  BY <1>1, JoinedRecursion
<1> QED BY <1>2 DEF JoinedBy

LEMMA JoinedStep ==
  ASSUME NEW S, NEW n \in Nat, NEW F, Lists(F, S, n + 1)
  PROVE  Joined(F, n + 1) = F[n + 1] \o Joined(F, n)
<1>0. Lists(F, S, n)
  BY DEF Lists
<1>1. PICK f : JoinedBy(f, S, F, n) /\ Joined(F, n) = f[n]
  BY <1>0, JoinedRecursion
<1>2. PICK g : JoinedBy(g, S, F, n + 1) /\ Joined(F, n + 1) = g[n + 1]
  BY JoinedRecursion
<1>3. f[0] = <<>> /\ \A i \in 1 .. n : f[i] = F[i] \o f[i - 1]
  BY <1>1 DEF JoinedBy
<1>4. g[0] = <<>> /\ \A i \in 1 .. n + 1 : g[i] = F[i] \o g[i - 1]
  BY <1>2 DEF JoinedBy
<1> DEFINE P == {i \in Nat : i <= n => g[i] = f[i]}
<1>5. 0 \in P
  BY <1>3, <1>4
<1>6. ASSUME NEW i \in Nat, i \in P PROVE i + 1 \in P
  <2> SUFFICES ASSUME i + 1 <= n PROVE g[i + 1] = f[i + 1]
    OBVIOUS
  <2>1. i + 1 \in 1 .. n /\ i + 1 \in 1 .. n + 1 /\ (i + 1) - 1 = i
    OBVIOUS
  <2>2. g[i] = f[i]
    BY <1>6
  <2> QED BY <2>1, <2>2, <1>3, <1>4
<1>7. n \in P
  <2> HIDE DEF P
  <2> QED BY <1>5, <1>6, NumberInduction
<1>8. n + 1 \in 1 .. n + 1 /\ (n + 1) - 1 = n
  OBVIOUS
<1>9. g[n] = f[n]
  BY <1>7
<1>10. g[n + 1] = F[n + 1] \o g[n]
  BY <1>4, <1>8
<1> QED BY <1>1, <1>2, <1>9, <1>10, Zenon

\* What is joined depends on the first n lists only.
LEMMA JoinedSame ==
  ASSUME NEW S, NEW n \in Nat, NEW F, Lists(F, S, n), NEW G, \A i \in 1 .. n : G[i] = F[i]
  PROVE  Joined(G, n) = Joined(F, n)
<1> DEFINE P == {i \in Nat : i <= n => Joined(G, i) = Joined(F, i)}
<1>1. 0 \in P
  BY JoinedNone
<1>2. ASSUME NEW i \in Nat, i \in P PROVE i + 1 \in P
  <2> SUFFICES ASSUME i + 1 <= n PROVE Joined(G, i + 1) = Joined(F, i + 1)
    OBVIOUS
  <2>1. Lists(F, S, i + 1) /\ Lists(G, S, i + 1) /\ G[i + 1] = F[i + 1]
    BY DEF Lists
  <2>2. Joined(G, i) = Joined(F, i)
    BY <1>2
  <2>3. Joined(F, i + 1) = F[i + 1] \o Joined(F, i) /\ Joined(G, i + 1) = G[i + 1] \o Joined(G, i)
    BY <2>1, JoinedStep
  <2> QED BY <2>1, <2>2, <2>3
<1>3. n \in P
  <2> HIDE DEF P
  <2> QED BY <1>1, <1>2, NumberInduction
<1> QED BY <1>3

\* Lists above the h-th that are the same contribute the same in front.
LEMMA JoinedAbove ==
  ASSUME NEW S, NEW n \in Nat, NEW h \in 0 .. n, NEW F, Lists(F, S, n), NEW G, Lists(G, S, n),
         \A i \in h + 1 .. n : G[i] = F[i]
  PROVE  \E u \in Seq(S) : /\ Same(Joined(F, n), u \o Joined(F, h))
                           /\ Same(Joined(G, n), u \o Joined(G, h))
<1> DEFINE E(i) == \E u \in Seq(S) : /\ Same(Joined(F, i), u \o Joined(F, h))
                                     /\ Same(Joined(G, i), u \o Joined(G, h))
           P == {i \in Nat : i <= n - h => E(h + i)}
<1>1. 0 \in P
  <2>1. Lists(F, S, h) /\ Lists(G, S, h)
    BY DEF Lists
  <2>2. Joined(F, h) \in Seq(S) /\ Joined(G, h) \in Seq(S)
    BY <2>1, JoinedType
  <2>3. <<>> \in Seq(S) /\ Joined(F, h) = <<>> \o Joined(F, h) /\ Joined(G, h) = <<>> \o Joined(G, h)
    BY <2>2
  <2>4. E(h)
    BY <2>3 DEF Same
  <2> QED BY <2>4
<1>2. ASSUME NEW i \in Nat, i \in P PROVE i + 1 \in P
  <2> HIDE DEF E
  <2> SUFFICES ASSUME i + 1 <= n - h PROVE E(h + (i + 1))
    OBVIOUS
  <2>1. E(h + i)
    BY <1>2
  <2>2. PICK k \in Nat : k = h + i
    OBVIOUS
  <2>3. k + 1 = h + (i + 1) /\ k + 1 \in h + 1 .. n /\ h \in Nat
    BY <2>2
  <2>4. PICK u \in Seq(S) : Same(Joined(F, k), u \o Joined(F, h)) /\ Same(Joined(G, k), u \o Joined(G, h))
    BY <2>1, <2>2 DEF E
  <2>5. Lists(F, S, k + 1) /\ Lists(G, S, k + 1) /\ F[k + 1] \in Seq(S) /\ G[k + 1] = F[k + 1]
    BY <2>3 DEF Lists
  <2>6. Joined(F, k + 1) = F[k + 1] \o Joined(F, k) /\ Joined(G, k + 1) = F[k + 1] \o Joined(G, k)
    BY <2>5, JoinedStep
  <2>7. Lists(F, S, h) /\ Lists(G, S, h)
    BY DEF Lists
  <2>8. Joined(F, h) \in Seq(S) /\ Joined(G, h) \in Seq(S)
    BY <2>3, <2>7, JoinedType
  <2>9. Same((F[k + 1] \o u) \o Joined(F, h), F[k + 1] \o (u \o Joined(F, h)))
    BY <2>5, <2>8, ConcatThree
  <2>10. Same((F[k + 1] \o u) \o Joined(G, h), F[k + 1] \o (u \o Joined(G, h)))
    BY <2>5, <2>8, ConcatThree
  <2>11. Same(Joined(F, k + 1), (F[k + 1] \o u) \o Joined(F, h))
    BY <2>4, <2>6, <2>9, Zenon DEF Same
  <2>12. Same(Joined(G, k + 1), (F[k + 1] \o u) \o Joined(G, h))
    BY <2>4, <2>6, <2>10, Zenon DEF Same
  <2>13. F[k + 1] \o u \in Seq(S)
    BY <2>5
  <2>14. E(k + 1)
    BY <2>11, <2>12, <2>13 DEF E
  <2> QED BY <2>3, <2>14
<1>3. n - h \in P
  <2> HIDE DEF P
  <2>1. n - h \in Nat
    OBVIOUS
  <2> QED BY <1>1, <1>2, <2>1, NumberInduction
<1>4. E(h + (n - h))
  <2> HIDE DEF E
  <2> QED BY <1>3
<1>5. h + (n - h) = n
  OBVIOUS
<1>6. E(n)
  <2> HIDE DEF E
  <2> QED BY <1>4, <1>5
<1> QED BY <1>6

LEMMA JoinedFirst ==
  ASSUME NEW S, NEW F, F[1] \in Seq(S)
  PROVE  Joined(F, 1) = F[1]
<1>1. Lists(F, S, 0 + 1) /\ 0 + 1 = 1
  BY DEF Lists
<1>2. Joined(F, 0 + 1) = F[0 + 1] \o Joined(F, 0)
  BY <1>1, JoinedStep
<1>3. F[1] \o <<>> = F[1]
  OBVIOUS
<1> QED BY <1>1, <1>2, <1>3, JoinedNone

\* A packet that enters the first list is the last of all.
LEMMA JoinedEnter ==
  ASSUME NEW S, NEW n \in Nat \ {0}, NEW F, Lists(F, S, n), NEW G, NEW p \in S,
         G[1] = Append(F[1], p), \A i \in 2 .. n : G[i] = F[i]
  PROVE  Same(Joined(G, n), Append(Joined(F, n), p))
<1>1. F[1] \in Seq(S) /\ G[1] \in Seq(S) /\ Lists(G, S, n) /\ 1 \in 0 .. n
  BY DEF Lists
<1>2. \A i \in 1 + 1 .. n : G[i] = F[i]
  OBVIOUS
<1>3. PICK u \in Seq(S) : /\ Same(Joined(F, n), u \o Joined(F, 1))
                          /\ Same(Joined(G, n), u \o Joined(G, 1))
  BY <1>1, <1>2, JoinedAbove
<1>4. Joined(F, 1) = F[1] /\ Joined(G, 1) = G[1]
  BY <1>1, JoinedFirst
<1>5. Same(Append(u \o F[1], p), u \o Append(F[1], p))
  BY <1>1, AppendConcat
<1> QED BY <1>3, <1>4, <1>5, Zenon DEF Same

\* The first packet of the last list is the first of all.
LEMMA JoinedLeave ==
  ASSUME NEW S, NEW n \in Nat \ {0}, NEW F, Lists(F, S, n), NEW G,
         F[n] # <<>>, G[n] = Tail(F[n]), \A i \in 1 .. n - 1 : G[i] = F[i]
  PROVE  /\ Joined(F, n) # <<>> /\ Head(Joined(F, n)) = Head(F[n])
         /\ Same(Joined(G, n), Tail(Joined(F, n)))
<1>1. PICK k \in Nat : n = k + 1
  <2>1. n - 1 \in Nat /\ n = (n - 1) + 1
    OBVIOUS
  <2> QED BY <2>1
<1>2. F[n] \in Seq(S) /\ G[n] \in Seq(S) /\ Lists(F, S, k) /\ Lists(F, S, k + 1)
  BY <1>1 DEF Lists
<1>3. Lists(G, S, k + 1) /\ \A i \in 1 .. k : G[i] = F[i]
  <2>1. \A i \in 1 .. k : i \in 1 .. n - 1 /\ i \in 1 .. n
    BY <1>1
  <2>2. \A i \in 1 .. k + 1 : i \in 1 .. k \/ i = n
    BY <1>1
  <2>3. \A i \in 1 .. k : G[i] = F[i]
    BY <2>1
  <2>4. \A i \in 1 .. k : F[i] \in Seq(S)
    BY <2>1 DEF Lists
  <2> QED BY <2>2, <2>3, <2>4, <1>2 DEF Lists
<1>4. Joined(G, k) = Joined(F, k)
  BY <1>2, <1>3, JoinedSame
<1>5. Joined(F, n) = F[n] \o Joined(F, k) /\ Joined(G, n) = G[n] \o Joined(F, k)
  BY <1>1, <1>2, <1>3, <1>4, JoinedStep
<1>6. Joined(F, k) \in Seq(S)
  BY <1>2, JoinedType
<1>7. /\ F[n] \o Joined(F, k) # <<>> /\ Head(F[n] \o Joined(F, k)) = Head(F[n])
      /\ Tail(F[n] \o Joined(F, k)) = Tail(F[n]) \o Joined(F, k)
  <2>1. ASSUME NEW x \in Seq(S), NEW y \in Seq(S), x # <<>>
        PROVE  x \o y # <<>> /\ Head(x \o y) = Head(x) /\ Tail(x \o y) = Tail(x) \o y
    BY <2>1
  <2> QED BY <2>1, <1>2, <1>6
<1> QED BY <1>5, <1>7, Zenon DEF Same

\* A packet that moves from the front of a list to the end of the next one
\* stays where it is.
LEMMA JoinedMove ==
  ASSUME NEW S, NEW n \in Nat, NEW h \in 1 .. n - 1, NEW F, Lists(F, S, n), NEW G,
         F[h] # <<>>, G[h] = Tail(F[h]), G[h + 1] = Append(F[h + 1], Head(F[h])),
         \A i \in 1 .. n : i # h /\ i # h + 1 => G[i] = F[i]
  PROVE  Same(Joined(G, n), Joined(F, n))
<1>1. PICK k \in Nat : h = k + 1
  <2>1. h - 1 \in Nat /\ h = (h - 1) + 1
    OBVIOUS
  <2> QED BY <2>1
<1>2. F[h] \in Seq(S) /\ F[h + 1] \in Seq(S)
  BY DEF Lists
<1>3. G[h] \in Seq(S) /\ G[h + 1] \in Seq(S) /\ Head(F[h]) \in S
  BY <1>2
<1>4. ASSUME NEW i \in 1 .. n PROVE F[i] \in Seq(S) /\ G[i] \in Seq(S)
  BY <1>3 DEF Lists
<1>5. /\ Lists(F, S, k) /\ Lists(F, S, k + 1) /\ Lists(F, S, h + 1)
      /\ Lists(G, S, k + 1) /\ Lists(G, S, h + 1) /\ Lists(G, S, n)
  BY <1>1, <1>4 DEF Lists
<1>6. (\A i \in 1 .. k : G[i] = F[i]) /\ \A i \in (h + 1) + 1 .. n : G[i] = F[i]
  BY <1>1
<1>7. PICK J \in Seq(S) : J = Joined(F, k) /\ J = Joined(G, k)
  <2>1. Joined(F, k) \in Seq(S)
    BY <1>5, JoinedType
  <2>2. Joined(G, k) = Joined(F, k)
    BY <1>5, <1>6, JoinedSame
  <2> QED BY <2>1, <2>2
<1>8. Joined(F, h) = F[h] \o J /\ Joined(G, h) = G[h] \o J
  BY <1>1, <1>5, <1>7, JoinedStep
<1>9. Joined(F, h + 1) = F[h + 1] \o Joined(F, h) /\ Joined(G, h + 1) = G[h + 1] \o Joined(G, h)
  BY <1>5, JoinedStep, h \in Nat
<1>10. ASSUME NEW x \in Seq(S), NEW y \in Seq(S), NEW z \in Seq(S), y # <<>>
       PROVE  Same(Append(x, Head(y)) \o (Tail(y) \o z), x \o (y \o z))
  <2>0. Head(y) \in S /\ Tail(y) \in Seq(S)
    BY <1>10
  <2>1. PICK e \in S, t \in Seq(S) : e = Head(y) /\ t = Tail(y)
    BY <2>0
  <2>2. <<e>> \in Seq(S) /\ t \o z \in Seq(S) /\ x \o <<e>> = Append(x, e) /\ y = <<e>> \o t
    BY <2>1, <1>10
  <2>3. Same((x \o <<e>>) \o (t \o z), x \o (<<e>> \o (t \o z)))
    BY <2>2, ConcatThree
  <2>4. Same((<<e>> \o t) \o z, <<e>> \o (t \o z))
    BY <2>2, ConcatThree
  <2> QED BY <2>1, <2>2, <2>3, <2>4, Zenon DEF Same
<1>11. Same(Joined(G, h + 1), Joined(F, h + 1))
  <2>1. Same(Append(F[h + 1], Head(F[h])) \o (Tail(F[h]) \o J), F[h + 1] \o (F[h] \o J))
    BY <1>2, <1>10
  <2> QED BY <2>1, <1>8, <1>9, Zenon DEF Same
<1>12. PICK u \in Seq(S) : /\ Same(Joined(F, n), u \o Joined(F, h + 1))
                           /\ Same(Joined(G, n), u \o Joined(G, h + 1))
  <2>1. h + 1 \in 0 .. n
    OBVIOUS
  <2> QED BY <2>1, <1>5, <1>6, JoinedAbove
<1> QED BY <1>11, <1>12, Zenon DEF Same

LEMMA WithoutFirst ==
  ASSUME NEW S, NEW u \in Seq(S), NEW x \in Seq(S), x # <<>>
  PROVE  /\ Len(u) + 1 \in 1 .. Len(u \o x)
         /\ Same(u \o Tail(x), Fifo!Without(u \o x, Len(u) + 1))
<1> DEFINE w == u \o x
           i == Len(u) + 1
<1>1. w \in Seq(S) /\ Len(w) = Len(u) + Len(x) /\ Len(x) \in Nat \ {0} /\ Len(u) \in Nat
  OBVIOUS
<1>2. SubSeq(w, 1, i - 1) = u
  OBVIOUS
<1>3. SubSeq(w, i + 1, Len(w)) = Tail(x)
  OBVIOUS
<1>4. Fifo!Without(w, i) = SubSeq(w, 1, i - 1) \o SubSeq(w, i + 1, Len(w))
  BY DEF Fifo!Without
<1>5. Len(u) + 1 \in 1 .. Len(w)
  <2> HIDE DEF w
  <2> QED BY <1>1
<1>6. u \o Tail(x) = Fifo!Without(w, i)
  <2> HIDE DEF w, i
  <2> QED BY <1>2, <1>3, <1>4
<1> QED BY <1>5, <1>6 DEF Same

\* A packet that is lost at the front of a list is missing there, and nothing
\* else changes.
LEMMA JoinedLose ==
  ASSUME NEW S, NEW n \in Nat, NEW h \in 1 .. n, NEW F, Lists(F, S, n), NEW G,
         F[h] # <<>>, G[h] = Tail(F[h]), \A i \in 1 .. n : i # h => G[i] = F[i]
  PROVE  \E i \in 1 .. Len(Joined(F, n)) : Same(Joined(G, n), Fifo!Without(Joined(F, n), i))
<1>1. F[h] \in Seq(S) /\ G[h] \in Seq(S)
  BY DEF Lists
<1>2. ASSUME NEW i \in 1 .. n PROVE F[i] \in Seq(S) /\ G[i] \in Seq(S)
  BY <1>1 DEF Lists
<1>3. Lists(F, S, h) /\ Lists(G, S, h) /\ Lists(G, S, n) /\ h \in Nat \ {0} /\ h \in 0 .. n
  BY <1>2 DEF Lists
<1>4. (\A i \in 1 .. h - 1 : G[i] = F[i]) /\ \A i \in h + 1 .. n : G[i] = F[i]
  OBVIOUS
<1>5. /\ Joined(F, h) # <<>>
      /\ Same(Joined(G, h), Tail(Joined(F, h)))
  BY <1>3, <1>4, JoinedLeave
<1>6. PICK x \in Seq(S) : x = Joined(F, h)
  BY <1>3, JoinedType
<1>7. PICK u \in Seq(S) : /\ Same(Joined(F, n), u \o Joined(F, h))
                          /\ Same(Joined(G, n), u \o Joined(G, h))
  BY <1>3, <1>4, JoinedAbove
<1>8. /\ Len(u) + 1 \in 1 .. Len(u \o x)
      /\ Same(u \o Tail(x), Fifo!Without(u \o x, Len(u) + 1))
  BY <1>5, <1>6, WithoutFirst
<1>9. Joined(F, n) = u \o x
  BY <1>6, <1>7 DEF Same
<1>10. Same(Joined(G, n), Fifo!Without(Joined(F, n), Len(u) + 1))
  BY <1>5, <1>6, <1>7, <1>8, <1>9, Zenon DEF Same
<1>11. Len(u) + 1 \in 1 .. Len(Joined(F, n))
  BY <1>8, <1>9, Zenon
<1> QED BY <1>10, <1>11

LEMMA JoinedElements ==
  ASSUME NEW S, NEW n \in Nat, NEW F, Lists(F, S, n), NEW k \in 1 .. Len(Joined(F, n))
  PROVE  \E i \in 1 .. n : \E j \in 1 .. Len(F[i]) : Joined(F, n)[k] = F[i][j]
<1> DEFINE E(m) == \A x \in 1 .. Len(Joined(F, m)) :
                      \E i \in 1 .. m : \E j \in 1 .. Len(F[i]) : Joined(F, m)[x] = F[i][j]
           P == {m \in Nat : m <= n => E(m)}
<1>1. 0 \in P
  BY JoinedNone
<1>2. ASSUME NEW m \in Nat, m \in P PROVE m + 1 \in P
  <2> HIDE DEF E
  <2> SUFFICES ASSUME m + 1 <= n PROVE E(m + 1)
    OBVIOUS
  <2>1. E(m)
    BY <1>2
  <2>2. Lists(F, S, m) /\ Lists(F, S, m + 1)
    BY DEF Lists
  <2>3. PICK J \in Seq(S) : J = Joined(F, m)
    BY <2>2, JoinedType
  <2>4. PICK f \in Seq(S) : f = F[m + 1]
    BY <2>2 DEF Lists
  <2>5. Joined(F, m + 1) = f \o J
    BY <2>2, <2>3, <2>4, JoinedStep
  <2>6. ASSUME NEW x \in 1 .. Len(f \o J)
        PROVE  \E i \in 1 .. m + 1 : \E j \in 1 .. Len(F[i]) : (f \o J)[x] = F[i][j]
    <3>1. CASE x \in 1 .. Len(f)
      <4>1. (f \o J)[x] = f[x] /\ m + 1 \in 1 .. m + 1
        BY <3>1
      <4> QED BY <4>1, <3>1, <2>4
    <3>2. CASE x \notin 1 .. Len(f)
      <4>1. x - Len(f) \in 1 .. Len(J) /\ (f \o J)[x] = J[x - Len(f)]
        BY <3>2
      <4>2. PICK i \in 1 .. m : \E j \in 1 .. Len(F[i]) : J[x - Len(f)] = F[i][j]
        BY <4>1, <2>1, <2>3 DEF E
      <4>3. i \in 1 .. m + 1
        OBVIOUS
      <4> QED BY <4>1, <4>2, <4>3
    <3> QED BY <3>1, <3>2
  <2> QED BY <2>5, <2>6 DEF E
<1>3. n \in P
  <2> HIDE DEF P
  <2> QED BY <1>1, <1>2, NumberInduction
<1>4. E(n)
  <2> HIDE DEF E
  <2> QED BY <1>3
<1> QED BY <1>4

-----------------------------------------------------------------------------
(* Send buffers: the items of a list that covers a range of bytes.         *)

LEMMA ItemFields ==
  ASSUME NEW l \in Seq(Item)
  PROVE  \A i \in 1 .. Len(l) : /\ l[i] \in Item
                                /\ l[i].from \in Nat /\ l[i].to \in Nat /\ l[i].msg \in Nat
                                /\ l[i].lastSent \in Int
<1>1. \A i \in 1 .. Len(l) : l[i] \in Item
  OBVIOUS
<1>2. \A e \in Item : /\ e.from \in Nat /\ e.to \in Nat /\ e.msg \in Nat /\ e.lastSent \in Int
  BY DEF Item
<1> QED BY <1>1, <1>2

LEMMA CoversInterior ==
  ASSUME NEW l \in Seq(Item), l # <<>>, NEW a, NEW b, Covers(l, a, b)
  PROVE  /\ l[1].from = a /\ l[Len(l)].to = b
         /\ \A i \in 1 .. Len(l) : l[i].from < l[i].to
         /\ \A i \in 1 .. Len(l) - 1 : l[i].to = l[i + 1].from
         /\ a \in Nat /\ b \in Nat
<1>1. 1 \in 1 .. Len(l) /\ Len(l) \in 1 .. Len(l)
  OBVIOUS
<1>2. \A i \in 1 .. Len(l) : l[i].from \in Nat /\ l[i].to \in Nat
  BY ItemFields
<1> QED BY <1>1, <1>2 DEF Covers

\* Every item lies between the ends.
LEMMA CoversBounds ==
  ASSUME NEW l \in Seq(Item), NEW a, NEW b, Covers(l, a, b), NEW k \in 1 .. Len(l)
  PROVE  a <= l[k].from /\ l[k].to <= b /\ a \in Nat /\ b \in Nat
<1>0. l # <<>>
  OBVIOUS
<1> DEFINE N == Len(l)
<1>1. /\ l[1].from = a /\ l[N].to = b /\ N \in Nat
      /\ \A i \in 1 .. N : l[i].from < l[i].to
      /\ \A i \in 1 .. N - 1 : l[i].to = l[i + 1].from
      /\ a \in Nat /\ b \in Nat
  BY <1>0, CoversInterior
<1>2. \A i \in 1 .. N : l[i].from \in Nat /\ l[i].to \in Nat
  BY ItemFields
<1> HIDE DEF N
<1> DEFINE P == {i \in Nat : i \in 1 .. N => a <= l[i].from}
           Q == {i \in Nat : i < N => l[N - i].to <= b}
<1>3. \A i \in Nat : i \in P
  <2>1. 0 \in P
    OBVIOUS
  <2>2. ASSUME NEW i \in Nat, i \in P PROVE i + 1 \in P
    <3> SUFFICES ASSUME i + 1 \in 1 .. N PROVE a <= l[i + 1].from
      OBVIOUS
    <3>1. CASE i = 0
      <4>1. l[i + 1] = l[1]
        BY <3>1
      <4> QED BY <4>1, <1>1
    <3>2. CASE i # 0
      <4>1. i \in 1 .. N /\ i \in 1 .. N - 1
        BY <3>2, <1>1
      <4>2. a <= l[i].from
        BY <4>1, <2>2
      <4>3. l[i].from < l[i].to /\ l[i].to = l[i + 1].from
        BY <4>1, <1>1
      <4>4. l[i].from \in Nat /\ l[i].to \in Nat
        BY <4>1, <1>2
      <4> QED BY <4>2, <4>3, <4>4, <1>1
    <3> QED BY <3>1, <3>2
  <2> HIDE DEF P
  <2> QED BY <2>1, <2>2, NumberInduction
<1>4. \A i \in Nat : i \in Q
  <2>1. 0 \in Q
    BY <1>1
  <2>2. ASSUME NEW i \in Nat, i \in Q PROVE i + 1 \in Q
    <3> SUFFICES ASSUME i + 1 < N PROVE l[N - (i + 1)].to <= b
      OBVIOUS
    <3>1. PICK j \in 1 .. N - 1 : j = N - (i + 1) /\ j + 1 = N - i /\ j \in 1 .. N /\ j + 1 \in 1 .. N
      <4>1. N - (i + 1) \in 1 .. N - 1 /\ (N - (i + 1)) + 1 = N - i
        BY <1>1
      <4> QED BY <4>1, <1>1
    <3>2. l[j + 1].to <= b
      <4>1. i < N /\ j + 1 = N - i
        BY <3>1, <1>1
      <4>2. l[N - i].to <= b
        BY <4>1, <2>2
      <4> QED BY <4>1, <4>2
    <3>3. l[j].to = l[j + 1].from /\ l[j + 1].from < l[j + 1].to
      BY <3>1, <1>1
    <3> QED BY <3>1, <3>2, <3>3, <1>1, <1>2
  <2> HIDE DEF Q
  <2> QED BY <2>1, <2>2, NumberInduction
<1>5. a <= l[k].from
  <2>1. k \in P /\ k \in 1 .. N
    <3> HIDE DEF P
    <3> QED BY <1>3 DEF N
  <2> QED BY <2>1
<1>6. l[k].to <= b
  <2>1. N - k \in Nat /\ N - k < N /\ N - (N - k) = k
    BY <1>1 DEF N
  <2>2. N - k \in Q
    <3> HIDE DEF Q
    <3> QED BY <1>4, <2>1
  <2> QED BY <2>1, <2>2
<1> QED BY <1>1, <1>5, <1>6

\* Every position between the ends is in one of the items.
LEMMA CoversFind ==
  ASSUME NEW l \in Seq(Item), NEW a, NEW b, Covers(l, a, b), l # <<>>,
         NEW e \in Nat, a < e, e <= b
  PROVE  \E k \in 1 .. Len(l) : l[k].from < e /\ e <= l[k].to
<1> DEFINE N == Len(l)
           T == {k \in Nat : k \in 1 .. N /\ e <= l[k].to}
<1>1. /\ l[1].from = a /\ l[N].to = b /\ N \in Nat /\ N \in 1 .. N
      /\ \A i \in 1 .. N - 1 : l[i].to = l[i + 1].from
  BY CoversInterior
<1>2. \A i \in 1 .. N : l[i].from \in Nat /\ l[i].to \in Nat
  BY ItemFields
<1> HIDE DEF N
<1>3. N \in T
  BY <1>1
<1>4. PICK k \in T : \A j \in T : k <= j
  BY <1>3, LeastNumber
<1>5. k \in 1 .. N /\ e <= l[k].to
  BY <1>4
<1>6. l[k].from < e
  <2>1. CASE k = 1
    BY <2>1, <1>1
  <2>2. CASE k # 1
    <3>1. PICK j \in 1 .. N - 1 : j + 1 = k /\ j \in 1 .. N /\ j \in Nat /\ ~(k <= j)
      <4>1. k - 1 \in 1 .. N - 1 /\ (k - 1) + 1 = k /\ k - 1 \in 1 .. N /\ k - 1 \in Nat /\ ~(k <= k - 1)
        BY <1>5, <2>2, <1>1
      <4> QED BY <4>1
    <3>2. j \notin T
      BY <1>4, <3>1
    <3>3. ~(e <= l[j].to)
      BY <3>1, <3>2
    <3>4. l[j].to = l[k].from
      BY <3>1, <1>1
    <3> QED BY <3>1, <3>3, <3>4, <1>2
  <2> QED BY <2>1, <2>2
<1> QED BY <1>5, <1>6 DEF N

LEMMA CoversSub ==
  ASSUME NEW l \in Seq(Item), NEW a, NEW b, Covers(l, a, b),
         NEW i \in 1 .. Len(l), NEW j \in i .. Len(l)
  PROVE  SubSeq(l, i, j) \in Seq(Item) /\ Covers(SubSeq(l, i, j), l[i].from, l[j].to)
<1> DEFINE m == SubSeq(l, i, j)
<1>0. l # <<>>
  OBVIOUS
<1>1. /\ \A k \in 1 .. Len(l) : l[k].from < l[k].to
      /\ \A k \in 1 .. Len(l) - 1 : l[k].to = l[k + 1].from
  BY <1>0, CoversInterior
<1>2. /\ m \in Seq(Item) /\ Len(m) = j - i + 1 /\ m # <<>>
      /\ \A k \in 1 .. j - i + 1 : m[k] = l[i + k - 1]
  OBVIOUS
<1> HIDE DEF m
<1>3. \A k \in 1 .. Len(m) : i + k - 1 \in 1 .. Len(l) /\ m[k].from < m[k].to
  <2>1. \A k \in 1 .. Len(m) : i + k - 1 \in 1 .. Len(l) /\ k \in 1 .. j - i + 1
    BY <1>2
  <2> QED BY <2>1, <1>1, <1>2
<1>4. ASSUME NEW k \in 1 .. Len(m) - 1 PROVE m[k].to = m[k + 1].from
  <2>1. k \in 1 .. j - i + 1 /\ k + 1 \in 1 .. j - i + 1 /\ i + k - 1 \in 1 .. Len(l) - 1
    BY <1>2
  <2>2. m[k] = l[i + k - 1] /\ m[k + 1] = l[(i + k - 1) + 1]
    <3>1. i + (k + 1) - 1 = (i + k - 1) + 1
      OBVIOUS
    <3> QED BY <2>1, <3>1, <1>2
  <2>3. l[i + k - 1].to = l[(i + k - 1) + 1].from
    BY <2>1, <1>1
  <2> QED BY <2>2, <2>3
<1>5. m[1] = l[i] /\ m[Len(m)] = l[j]
  BY <1>2
<1> QED BY <1>2, <1>3, <1>4, <1>5 DEF m, Covers

LEMMA CoversConcat ==
  ASSUME NEW l \in Seq(Item), NEW m \in Seq(Item), NEW a, NEW b, NEW c,
         Covers(l, a, b), Covers(m, b, c)
  PROVE  l \o m \in Seq(Item) /\ Covers(l \o m, a, c)
<1>1. CASE l = <<>>
  <2>1. l \o m = m /\ a = b
    BY <1>1 DEF Covers
  <2> QED BY <2>1
<1>2. CASE m = <<>>
  <2>1. l \o m = l /\ b = c
    BY <1>2 DEF Covers
  <2> QED BY <2>1
<1>3. CASE l # <<>> /\ m # <<>>
  <2> DEFINE r == l \o m
             N == Len(l)
             M == Len(m)
  <2>1. /\ l[1].from = a /\ l[N].to = b
        /\ \A k \in 1 .. N : l[k].from < l[k].to
        /\ \A k \in 1 .. N - 1 : l[k].to = l[k + 1].from
    BY <1>3, CoversInterior
  <2>2. /\ m[1].from = b /\ m[M].to = c
        /\ \A k \in 1 .. M : m[k].from < m[k].to
        /\ \A k \in 1 .. M - 1 : m[k].to = m[k + 1].from
    BY <1>3, CoversInterior
  <2>3. /\ r \in Seq(Item) /\ r # <<>> /\ Len(r) = N + M /\ N \in Nat \ {0} /\ M \in Nat \ {0}
        /\ \A k \in 1 .. N : r[k] = l[k]
        /\ \A k \in N + 1 .. N + M : r[k] = m[k - N]
    BY <1>3
  <2> HIDE DEF r, N, M
  <2>4. r[1].from = a /\ r[Len(r)].to = c
    <3>1. 1 \in 1 .. N /\ N + M \in N + 1 .. N + M /\ (N + M) - N = M
      BY <2>3
    <3> QED BY <3>1, <2>1, <2>2, <2>3
  <2>5. ASSUME NEW k \in 1 .. N + M PROVE r[k].from < r[k].to
    <3>1. CASE k \in 1 .. N
      BY <3>1, <2>1, <2>3
    <3>2. CASE k \in N + 1 .. N + M
      <4>1. k - N \in 1 .. M
        BY <3>2, <2>3
      <4> QED BY <4>1, <3>2, <2>2, <2>3
    <3> QED BY <3>1, <3>2, <2>3
  <2>6. ASSUME NEW k \in 1 .. N + M - 1 PROVE r[k].to = r[k + 1].from
    <3>1. CASE k \in 1 .. N - 1
      <4>1. k \in 1 .. N /\ k + 1 \in 1 .. N
        BY <3>1, <2>3
      <4> QED BY <4>1, <3>1, <2>1, <2>3
    <3>2. CASE k = N
      <4>1. k \in 1 .. N /\ k + 1 \in N + 1 .. N + M /\ (k + 1) - N = 1
        BY <3>2, <2>3
      <4> QED BY <4>1, <3>2, <2>1, <2>2, <2>3
    <3>3. CASE k \in N + 1 .. N + M - 1
      <4>1. k \in N + 1 .. N + M /\ k + 1 \in N + 1 .. N + M /\ (k + 1) - N = (k - N) + 1 /\ k - N \in 1 .. M - 1
        BY <3>3, <2>3
      <4> QED BY <4>1, <2>2, <2>3
    <3> QED BY <3>1, <3>2, <3>3, <2>3
  <2>7. Covers(r, a, c)
    BY <2>3, <2>4, <2>5, <2>6 DEF Covers
  <2> QED BY <2>3, <2>7 DEF r
<1> QED BY <1>1, <1>2, <1>3

LEMMA CoversOne ==
  ASSUME NEW e \in Item, e.from < e.to
  PROVE  <<e>> \in Seq(Item) /\ Covers(<<e>>, e.from, e.to)
  BY DEF Covers

LEMMA CoversTail ==
  ASSUME NEW l \in Seq(Item), NEW a, NEW b, Covers(l, a, b), l # <<>>
  PROVE  Tail(l) \in Seq(Item) /\ Covers(Tail(l), l[1].to, b)
<1>1. CASE Len(l) = 1
  <2>1. Tail(l) \in Seq(Item) /\ Len(Tail(l)) = 0
    BY <1>1
  <2>2. Tail(l) = <<>>
    <3>1. \A t \in Seq(Item) : Len(t) = 0 => t = <<>>
      OBVIOUS
    <3> QED BY <2>1, <3>1
  <2>3. l[1].to = b
    BY <1>1, CoversInterior
  <2> QED BY <2>1, <2>2, <2>3 DEF Covers
<1>2. CASE Len(l) # 1
  <2>1. 2 \in 1 .. Len(l) /\ Len(l) \in 2 .. Len(l) /\ 1 \in 1 .. Len(l) - 1 /\ 1 + 1 = 2
    BY <1>2
  <2>2. Tail(l) = SubSeq(l, 2, Len(l))
    BY TailIsSubSeq
  <2>3. Covers(SubSeq(l, 2, Len(l)), l[2].from, l[Len(l)].to) /\ SubSeq(l, 2, Len(l)) \in Seq(Item)
    BY <2>1, CoversSub
  <2>4. l[1].to = l[2].from /\ l[Len(l)].to = b
    <3>1. \A i \in 1 .. Len(l) - 1 : l[i].to = l[i + 1].from
      BY CoversInterior
    <3> QED BY <2>1, <3>1, CoversInterior
  <2> QED BY <2>2, <2>3, <2>4
<1> QED BY <1>1, <1>2

-----------------------------------------------------------------------------
(* Cutting and acknowledging.                                              *)

\* Every item of list r is made of an item of l: it has its tag and does not
\* start before it.
TagsFrom(r, l) ==
  \A i \in 1 .. Len(r) : \E j \in 1 .. Len(l) : r[i].msg = l[j].msg /\ l[j].from <= r[i].from

LEMMA TagsSub ==
  ASSUME NEW l \in Seq(Item), NEW i \in 1 .. Len(l) + 1, NEW j \in 0 .. Len(l)
  PROVE  /\ SubSeq(l, i, j) \in Seq(Item)
         /\ TagsFrom(SubSeq(l, i, j), l)
         /\ \A k \in 1 .. Len(SubSeq(l, i, j)) : i + k - 1 \in i .. j /\ SubSeq(l, i, j)[k] = l[i + k - 1]
<1> DEFINE r == SubSeq(l, i, j)
<1>1. r \in Seq(Item) /\ \A k \in 1 .. Len(r) : i + k - 1 \in i .. j /\ i + k - 1 \in 1 .. Len(l) /\ r[k] = l[i + k - 1]
  OBVIOUS
<1> HIDE DEF r
<1>2. \A k \in 1 .. Len(l) : l[k].from <= l[k].from
  BY ItemFields
<1>3. TagsFrom(r, l)
  BY <1>1, <1>2 DEF TagsFrom
<1> QED BY <1>1, <1>3 DEF r

LEMMA TagsConcat ==
  ASSUME NEW r \in Seq(Item), NEW t \in Seq(Item), NEW l, TagsFrom(r, l), TagsFrom(t, l)
  PROVE  TagsFrom(r \o t, l)
<1>1. \A i \in 1 .. Len(r \o t) : IF i <= Len(r) THEN i \in 1 .. Len(r) /\ (r \o t)[i] = r[i]
                                  ELSE i - Len(r) \in 1 .. Len(t) /\ (r \o t)[i] = t[i - Len(r)]
  OBVIOUS
<1> SUFFICES ASSUME NEW i \in 1 .. Len(r \o t)
             PROVE  \E j \in 1 .. Len(l) : (r \o t)[i].msg = l[j].msg /\ l[j].from <= (r \o t)[i].from
  BY DEF TagsFrom
<1>2. CASE i <= Len(r)
  BY <1>1, <1>2 DEF TagsFrom
<1>3. CASE ~(i <= Len(r))
  BY <1>1, <1>3 DEF TagsFrom
<1> QED BY <1>2, <1>3

LEMMA CutFirstCovers ==
  ASSUME NEW l \in Seq(Item), l # <<>>, NEW a, NEW b, Covers(l, a, b), NEW n \in Nat \ {0}
  PROVE  /\ CutFirst(l, n) \in Seq(Item) /\ CutFirst(l, n) # <<>>
         /\ Covers(CutFirst(l, n), a, b)
         /\ TagsFrom(CutFirst(l, n), l)
<1> DEFINE N == Len(l)
           end == EndOfCut(l, n)
           k == ItemAt(l, end)
           head == [l[1] EXCEPT !.to = end]
           surplus == [l[1] EXCEPT !.from = end, !.to = l[k].to]
           mid == IF l[k].to > end THEN <<surplus>> ELSE <<>>
           rest == SubSeq(l, k + 1, N)
<1>1. /\ 1 \in 1 .. N /\ N \in 1 .. N /\ N \in Nat
      /\ l[1].from = a /\ l[N].to = b /\ l[1].from < l[1].to
      /\ a \in Nat /\ b \in Nat /\ l[1].to \in Nat
      /\ \A i \in 1 .. N - 1 : l[i].to = l[i + 1].from
  BY CoversInterior, ItemFields
<1>2. l[1].to <= b
  BY <1>1, CoversBounds
<1>3. end \in Nat /\ a < end /\ end <= b
  BY <1>1, <1>2 DEF EndOfCut, Minimum
<1> HIDE DEF end
<1>4. k \in 1 .. N /\ l[k].from < end /\ end <= l[k].to
  <2>1. \E x \in 1 .. N : l[x].from < end /\ end <= l[x].to
    BY <1>3, CoversFind
  <2> QED BY <2>1 DEF ItemAt
<1> HIDE DEF k
<1>5. l[k].to \in Nat /\ l[k].from \in Nat /\ l[1] \in Item
  BY <1>1, <1>4, ItemFields
<1>6. /\ head \in Item /\ head.from = a /\ head.to = end /\ head.msg = l[1].msg
      /\ surplus \in Item /\ surplus.from = end /\ surplus.to = l[k].to /\ surplus.msg = l[1].msg
  BY <1>1, <1>3, <1>5 DEF Item
<1> HIDE DEF head, surplus
<1>7. <<head>> \in Seq(Item) /\ Covers(<<head>>, a, end) /\ TagsFrom(<<head>>, l)
  <2>1. <<head>> \in Seq(Item) /\ Covers(<<head>>, a, end)
    BY <1>3, <1>6, CoversOne
  <2>2. Len(<<head>>) = 1 /\ <<head>>[1] = head
    OBVIOUS
  <2> QED BY <2>1, <2>2, <1>1, <1>6 DEF TagsFrom
<1>8. mid \in Seq(Item) /\ Covers(mid, end, l[k].to) /\ TagsFrom(mid, l)
  <2>1. CASE l[k].to > end
    <3>1. <<surplus>> \in Seq(Item) /\ Covers(<<surplus>>, end, l[k].to)
      BY <2>1, <1>3, <1>5, <1>6, CoversOne
    <3>2. Len(<<surplus>>) = 1 /\ <<surplus>>[1] = surplus /\ a <= end
      BY <1>1, <1>3
    <3> QED BY <2>1, <3>1, <3>2, <1>1, <1>6 DEF TagsFrom
  <2>2. CASE ~(l[k].to > end)
    <3>1. <<>> \in Seq(Item) /\ Covers(<<>>, end, l[k].to) /\ TagsFrom(<<>>, l)
      BY <2>2, <1>3, <1>4, <1>5 DEF Covers, TagsFrom
    <3> QED BY <2>2, <3>1
  <2> QED BY <2>1, <2>2
<1> HIDE DEF mid
<1>9. rest \in Seq(Item) /\ Covers(rest, l[k].to, b) /\ TagsFrom(rest, l)
  <2>1. rest \in Seq(Item) /\ TagsFrom(rest, l)
    BY <1>1, <1>4, TagsSub
  <2>2. CASE k = N
    <3>1. rest = <<>> /\ l[k].to = b
      BY <2>2, <1>1
    <3> QED BY <2>1, <3>1 DEF Covers
  <2>3. CASE k # N
    <3>1. k + 1 \in 1 .. N /\ N \in k + 1 .. N /\ k \in 1 .. N - 1
      BY <2>3, <1>1, <1>4
    <3>2. Covers(rest, l[k + 1].from, l[N].to)
      BY <3>1, CoversSub
    <3> QED BY <2>1, <3>1, <3>2, <1>1
  <2> QED BY <2>2, <2>3
<1> HIDE DEF rest
<1>10. <<head>> \o mid \in Seq(Item) /\ Covers(<<head>> \o mid, a, l[k].to) /\ TagsFrom(<<head>> \o mid, l)
  BY <1>7, <1>8, CoversConcat, TagsConcat
<1>11. /\ (<<head>> \o mid) \o rest \in Seq(Item) /\ Covers((<<head>> \o mid) \o rest, a, b)
       /\ TagsFrom((<<head>> \o mid) \o rest, l)
  BY <1>9, <1>10, CoversConcat, TagsConcat
<1>12. (<<head>> \o mid) \o rest # <<>>
  BY <1>7, <1>8, <1>9
<1>13. CutFirst(l, n) = (<<head>> \o mid) \o rest
  BY DEF CutFirst, head, mid, rest, surplus, k, end, N
<1> QED BY <1>11, <1>12, <1>13

LEMMA CutAtCovers ==
  ASSUME NEW l \in Seq(Item), NEW a, NEW b, Covers(l, a, b), NEW i \in 1 .. Len(l), NEW n \in Nat \ {0}
  PROVE  /\ CutAt(l, i, n) \in Seq(Item) /\ i \in 1 .. Len(CutAt(l, i, n))
         /\ Covers(CutAt(l, i, n), a, b)
         /\ TagsFrom(CutAt(l, i, n), l)
<1> DEFINE N == Len(l)
           s == SubSeq(l, 1, i - 1)
           t == SubSeq(l, i, N)
           c == CutFirst(t, n)
<1>1. /\ N \in Nat /\ N \in i .. N /\ N \in 1 .. N /\ l[1].from = a /\ l[N].to = b
      /\ \A j \in 1 .. N - 1 : l[j].to = l[j + 1].from
  BY CoversInterior
<1>2. t \in Seq(Item) /\ Covers(t, l[i].from, b) /\ Len(t) = N - i + 1 /\ t # <<>>
  <2>1. t \in Seq(Item) /\ Covers(t, l[i].from, l[N].to)
    BY <1>1, CoversSub
  <2>2. Len(t) = N - i + 1
    OBVIOUS
  <2>3. t # <<>>
    <3>1. N - i + 1 # 0
      BY <1>1
    <3>2. \A x : x = <<>> => Len(x) = 0
      OBVIOUS
    <3> HIDE DEF t, N
    <3> QED BY <2>2, <3>1, <3>2
  <2> QED BY <2>1, <2>2, <2>3, <1>1
<1>3. s \in Seq(Item) /\ TagsFrom(s, l) /\ Len(s) = i - 1
  BY TagsSub
<1>4. TagsFrom(t, l)
  BY <1>1, TagsSub
<1>5. Covers(s, a, l[i].from)
  <2>1. CASE i = 1
    <3>1. s = <<>>
      BY <2>1
    <3> QED BY <2>1, <3>1, <1>1 DEF Covers
  <2>2. CASE i # 1
    <3>1. 1 \in 1 .. N /\ i - 1 \in 1 .. N /\ i - 1 \in 1 .. N - 1 /\ (i - 1) + 1 = i
      BY <2>2, <1>1
    <3>2. Covers(s, l[1].from, l[i - 1].to)
      BY <3>1, CoversSub
    <3> QED BY <3>1, <3>2, <1>1
  <2> QED BY <2>1, <2>2
<1> HIDE DEF s, t
<1>6. c \in Seq(Item) /\ c # <<>> /\ Covers(c, l[i].from, b) /\ TagsFrom(c, t)
  BY <1>2, CutFirstCovers
<1> HIDE DEF c
<1>7. TagsFrom(c, l)
  <2> SUFFICES ASSUME NEW x \in 1 .. Len(c)
               PROVE  \E j \in 1 .. N : c[x].msg = l[j].msg /\ l[j].from <= c[x].from
    BY DEF TagsFrom
  <2>1. PICK y \in 1 .. Len(t) : c[x].msg = t[y].msg /\ t[y].from <= c[x].from
    BY <1>6 DEF TagsFrom
  <2>2. PICK j \in 1 .. N : t[y].msg = l[j].msg /\ l[j].from <= t[y].from
    BY <1>4 DEF TagsFrom
  <2>3. c[x].from \in Nat /\ t[y].from \in Nat /\ l[j].from \in Nat
    BY <1>2, <1>6, ItemFields
  <2> QED BY <2>1, <2>2, <2>3
<1>8. s \o c \in Seq(Item) /\ Covers(s \o c, a, b) /\ TagsFrom(s \o c, l)
  BY <1>3, <1>5, <1>6, <1>7, CoversConcat, TagsConcat
<1>9. i \in 1 .. Len(s \o c)
  <2>1. Len(s \o c) = (i - 1) + Len(c) /\ Len(c) \in Nat \ {0}
    BY <1>3, <1>6
  <2> QED BY <2>1
<1>10. CutAt(l, i, n) = s \o c
  BY DEF CutAt, s, c, t, N
<1> QED BY <1>8, <1>9, <1>10

LEMMA DiscardCovers ==
  ASSUME NEW l \in Seq(Item), NEW a \in Nat, NEW b \in Nat, Covers(l, a, b), NEW n \in Nat, a < n, n <= b
  PROVE  /\ DiscardUpTo(l, n) \in Seq(Item)
         /\ Covers(DiscardUpTo(l, n), n, b)
         /\ TagsFrom(DiscardUpTo(l, n), l)
<1> DEFINE N == Len(l)
           Ok(k) == (\A i \in 1 .. k : l[i].to <= n) /\ (k < N => l[k + 1].to > n)
           k == Acknowledged(l, n)
           rest == SubSeq(l, k + 1, N)
<1>0. N \in Nat
  OBVIOUS
<1>1. \A i \in 1 .. N : l[i] \in Item /\ l[i].from \in Nat /\ l[i].to \in Nat
  BY ItemFields
<1>2. k \in 0 .. N /\ Ok(k)
  <2> DEFINE S == {x \in Nat : x <= N /\ (x < N => l[x + 1].to > n)}
  <2>1. N \in S
    BY <1>0
  <2>2. PICK x \in S : \A y \in S : x <= y
    BY <2>1, LeastNumber
  <2>3. ASSUME NEW i \in 1 .. x PROVE l[i].to <= n
    <3>1. i - 1 \in Nat /\ i - 1 < x /\ i - 1 < N /\ (i - 1) + 1 = i /\ i \in 1 .. N
      BY <1>0, <2>2
    <3>2. i - 1 \notin S
      BY <2>2, <3>1
    <3> QED BY <3>1, <3>2, <1>1
  <2>4. x \in 0 .. N /\ Ok(x)
    BY <2>2, <2>3, <1>0
  <2>5. k = CHOOSE y \in 0 .. N : Ok(y)
    BY DEF Acknowledged
  <2> HIDE DEF Ok, k
  <2> QED BY <2>4, <2>5
<1> HIDE DEF k
<1>3. l # <<>>
  <2> SUFFICES ASSUME l = <<>> PROVE FALSE
    OBVIOUS
  <2>1. a = b
    BY DEF Covers
  <2> QED BY <2>1
<1>4. /\ 1 \in 1 .. N /\ N \in 1 .. N /\ l[1].from = a /\ l[N].to = b /\ a \in Nat /\ b \in Nat
      /\ \A i \in 1 .. N : l[i].from < l[i].to
      /\ \A i \in 1 .. N - 1 : l[i].to = l[i + 1].from
  BY <1>3, CoversInterior
<1>5. rest \in Seq(Item) /\ TagsFrom(rest, l)
  BY <1>2, TagsSub
<1>6. CASE k = N
  <2>1. rest = <<>>
    BY <1>6
  <2>2. n = b
    BY <1>2, <1>4, <1>6
  <2>3. DiscardUpTo(l, n) = rest
    BY <2>1 DEF DiscardUpTo, k
  <2> QED BY <2>1, <2>2, <2>3, <1>5 DEF Covers
<1>7. CASE k # N
  <2>1. k < N /\ k + 1 \in 1 .. N /\ N \in k + 1 .. N
    BY <1>2, <1>7, <1>0
  <2>2. Covers(rest, l[k + 1].from, b)
    BY <2>1, <1>4, CoversSub
  <2>3. rest[1] = l[k + 1] /\ rest # <<>> /\ Len(rest) = N - k /\ 1 \in 1 .. Len(rest)
    <3>1. Len(rest) = N - k
      BY <1>2, <2>1
    <3>2. 1 \in 1 .. Len(rest) /\ N - k # 0
      <4>1. N - k \in Nat \ {0}
        BY <1>0, <1>2, <2>1
      <4> HIDE DEF N, rest
      <4> QED BY <3>1, <4>1
    <3>3. rest[1] = l[(k + 1) + 1 - 1] /\ (k + 1) + 1 - 1 = k + 1
      BY <1>2, <3>2, TagsSub
    <3>4. rest # <<>>
      BY <3>1, <3>2
    <3> QED BY <3>1, <3>2, <3>3, <3>4
  <2>4. l[k + 1].to > n
    BY <1>2, <2>1
  <2>8. l[k + 1] \in Item /\ l[k + 1].from \in Nat /\ l[k + 1].to \in Nat
    BY <1>1, <2>1
  <2> HIDE DEF rest
  <2>5. CASE rest[1].from < n
    <3> DEFINE r == [rest EXCEPT ![1].from = n]
               e == [l[k + 1] EXCEPT !.from = n]
    <3>1. e \in Item /\ e.from = n /\ e.to = l[k + 1].to /\ e.msg = l[k + 1].msg
      BY <2>8 DEF Item
    <3> HIDE DEF e
    <3>2. Len(r) = Len(rest) /\ r[1] = e /\ \A i \in 1 .. Len(rest) : i # 1 => r[i] = rest[i]
      BY <2>3, <1>5 DEF e
    <3>3. r \in Seq(Item)
      BY <3>1, <2>3, <1>5 DEF e
    <3> HIDE DEF r
    <3>4. /\ rest[Len(rest)].to = b
          /\ \A i \in 1 .. Len(rest) : rest[i].from < rest[i].to
          /\ \A i \in 1 .. Len(rest) - 1 : rest[i].to = rest[i + 1].from
          /\ Len(rest) \in Nat
      BY <2>2, <2>3, <1>5, CoversInterior
    <3>5. Covers(r, n, b)
      <4>1. r # <<>> /\ r[1].from = n /\ r[Len(r)].to = b
        BY <3>1, <3>2, <3>3, <3>4, <2>3
      <4>2. \A i \in 1 .. Len(r) : r[i].from < r[i].to
        BY <3>1, <3>2, <3>4, <2>4
      <4>3. \A i \in 1 .. Len(r) - 1 : r[i].to = r[i + 1].from
        BY <3>1, <3>2, <3>4, <2>3
      <4> QED BY <4>1, <4>2, <4>3 DEF Covers
    <3>6. TagsFrom(r, l)
      <4>1. e.msg = l[k + 1].msg /\ l[k + 1].from <= e.from
        BY <3>1, <2>3, <2>5, <2>8
      <4>2. \A i \in 1 .. Len(r) : i \in 1 .. Len(rest) /\ (i = 1 \/ r[i] = rest[i])
        BY <3>2
      <4> QED BY <4>1, <4>2, <3>2, <2>1, <1>5 DEF TagsFrom
    <3>7. DiscardUpTo(l, n) = r
      BY <2>3, <2>5 DEF DiscardUpTo, rest, r, k
    <3> QED BY <3>3, <3>5, <3>6, <3>7
  <2>6. CASE ~(rest[1].from < n)
    <3>1. k # 0
      BY <2>3, <2>6, <1>4
    <3>2. k \in 1 .. N /\ k \in 1 .. N - 1 /\ k \in 1 .. k
      BY <3>1, <1>2, <2>1
    <3>3. l[k].to <= n /\ l[k].to = l[k + 1].from
      BY <3>2, <1>2, <1>4
    <3>4. l[k + 1].from = n
      BY <3>3, <2>3, <2>6, <2>8
    <3>5. DiscardUpTo(l, n) = rest
      BY <2>6 DEF DiscardUpTo, rest, k
    <3> QED BY <3>4, <3>5, <2>2, <1>5
  <2> QED BY <2>5, <2>6
<1> QED BY <1>6, <1>7
=============================================================================
