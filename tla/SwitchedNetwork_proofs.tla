------------------------ MODULE SwitchedNetwork_proofs ------------------------
(***************************************************************************)
(* Proofs about SwitchedNetwork, for any numbers of senders.               *)
(*                                                                         *)
(* First the links.  Every network is a tree: each part of the code hangs  *)
(* its nodes on what is there already.  So a link cuts a network into two  *)
(* sides, the sides behind the links of a node are apart, and the model's  *)
(* Side, which is computed step by step, is one of them (Beyond).          *)
(*                                                                         *)
(* Then the frames.  Switches hear a node by the link behind which it is   *)
(* (TablesOK).  A frame moves away from its source (Heading) and every     *)
(* switch it has passed has heard that source (Trail), so that a receiver  *)
(* that has been asked is known on the whole way to it (KnownOK), and data *)
(* frames go there and nowhere else (CountOK).                             *)
(*                                                                         *)
(* Last the routes.  The way of a flow stays on the far side of each link  *)
(* it has passed, so it takes no link twice and comes to an end (RouteIs); *)
(* data frames keep to it (RouteInv), which makes this an implementation   *)
(* of RoutedNetwork.                                                       *)
(***************************************************************************)
EXTENDS SwitchedNetwork, SequenceLemmas, FiniteSetTheorems

-----------------------------------------------------------------------------
(* Trees of links.                                                         *)

PlacesOf(L) == UNION {{L[k][1], L[k][2]} : k \in 1 .. Len(L)}

\* Link k joins node c to the node above it.
Hangs(L, k, c, up) == L[k] = <<c, up[c]>> \/ L[k] = <<up[c], c>>

\* The links make a tree with root "A" whose inner nodes are switches: each
\* node but the root has one link upwards, and there are no others.
TreeBy(L, up, depth) ==
  /\ "A" \in PlacesOf(L)
  /\ up \in [PlacesOf(L) \ {"A"} -> PlacesOf(L) \intersect Switches]
  /\ depth \in [PlacesOf(L) -> Nat]
  /\ \A c \in PlacesOf(L) \ {"A"} :
       depth[up[c]] < depth[c] /\ \E k \in 1 .. Len(L) : Hangs(L, k, c, up)
  /\ \A k \in 1 .. Len(L) : \E c \in PlacesOf(L) \ {"A"} : Hangs(L, k, c, up)
  /\ \A j, k \in 1 .. Len(L), c \in PlacesOf(L) \ {"A"} :
       Hangs(L, j, c, up) /\ Hangs(L, k, c, up) => j = k

IsTree(L) == Len(L) \in Nat /\ \E up, depth : TreeBy(L, up, depth)

\* No link leads out of X.
Closed(L, X) == \A k \in 1 .. Len(L) : L[k][1] \in X <=> L[k][2] \in X

\* Link k is the only one that leads out of X.
Cut(L, k, X) ==
  /\ L[k][1] \in X <=> L[k][2] \notin X
  /\ \A j \in 1 .. Len(L) \ {k} : L[j][1] \in X <=> L[j][2] \in X

\* A set of nodes has one that is not below any other.
LEMMA Highest ==
  ASSUME NEW D, NEW depth \in [D -> Nat], NEW X \in SUBSET D, X # {}
  PROVE  \E x \in X : \A y \in X : depth[x] <= depth[y]
<1> DEFINE S == {depth[y] : y \in X}
<1>1. S \in SUBSET Nat /\ S # {}
  OBVIOUS
<1>2. PICK v \in S : \A w \in S : v <= w
  <2> HIDE DEF S
  <2> QED BY <1>1, LeastNumber
<1>3. PICK x \in X : v = depth[x]
  BY <1>2
<1> QED BY <1>2, <1>3

\* A link of a tree joins a node to the one above it, which is a switch.
LEMMA LinkEnds ==
  ASSUME NEW L, NEW up, NEW depth, TreeBy(L, up, depth), NEW k \in 1 .. Len(L)
  PROVE  \E c \in PlacesOf(L) \ {"A"} :
           /\ Hangs(L, k, c, up) /\ {L[k][1], L[k][2]} = {c, up[c]}
           /\ \A X : (L[k][1] \in X <=> L[k][2] \in X) <=> (c \in X <=> up[c] \in X)
           /\ \A X : (L[k][1] \in X <=> L[k][2] \notin X) <=> (c \in X <=> up[c] \notin X)
           /\ c # up[c] /\ up[c] \in PlacesOf(L) /\ up[c] \in Switches
<1>1. PICK c \in PlacesOf(L) \ {"A"} : Hangs(L, k, c, up)
  BY DEF TreeBy
<1>2. (L[k][1] = c /\ L[k][2] = up[c]) \/ (L[k][1] = up[c] /\ L[k][2] = c)
  BY <1>1 DEF Hangs
<1>3. up[c] \in PlacesOf(L) /\ up[c] \in Switches
  BY DEF TreeBy
<1>4. c # up[c]
  BY <1>3 DEF TreeBy
<1>5. {L[k][1], L[k][2]} = {c, up[c]}
  BY <1>2
<1> QED BY <1>1, <1>2, <1>3, <1>4, <1>5, Zenon

\* Every node is reached from every other.
LEMMA Connected ==
  ASSUME NEW L, IsTree(L), NEW X \in SUBSET PlacesOf(L), Closed(L, X), NEW x \in X
  PROVE  X = PlacesOf(L)
<1>1. PICK up, depth : TreeBy(L, up, depth)
  BY DEF IsTree
<1>2. ASSUME NEW c \in PlacesOf(L) \ {"A"} PROVE c \in X <=> up[c] \in X
  <2>1. PICK k \in 1 .. Len(L) : Hangs(L, k, c, up)
    BY <1>1 DEF TreeBy
  <2>2. (L[k][1] = c /\ L[k][2] = up[c]) \/ (L[k][1] = up[c] /\ L[k][2] = c)
    BY <2>1 DEF Hangs
  <2> QED BY <2>2 DEF Closed
<1>3. depth \in [PlacesOf(L) -> Nat] /\ "A" \in PlacesOf(L)
  BY <1>1 DEF TreeBy
<1>4. \A c \in PlacesOf(L) \ {"A"} : up[c] \in PlacesOf(L) /\ depth[up[c]] < depth[c]
  BY <1>1 DEF TreeBy
<1>5. "A" \in X
  <2>1. PICK y \in X : \A z \in X : depth[y] <= depth[z]
    BY <1>3, Highest
  <2>2. ASSUME y # "A" PROVE FALSE
    <3>1. y \in PlacesOf(L) \ {"A"}
      BY <2>2
    <3>2. up[y] \in X /\ depth[up[y]] < depth[y] /\ depth[up[y]] \in Nat /\ depth[y] \in Nat
      BY <3>1, <1>2, <1>3, <1>4
    <3> QED BY <3>2, <2>1
  <2> QED BY <2>1, <2>2
<1>6. ASSUME PlacesOf(L) \ X # {} PROVE FALSE
  <2>1. PICK y \in PlacesOf(L) \ X : \A z \in PlacesOf(L) \ X : depth[y] <= depth[z]
    BY <1>3, <1>6, Highest
  <2>2. y \in PlacesOf(L) \ {"A"}
    BY <1>5
  <2>3. up[y] \in PlacesOf(L) \ X /\ depth[up[y]] < depth[y]
    BY <2>2, <1>2, <1>4
  <2>4. depth[up[y]] \in Nat /\ depth[y] \in Nat
    BY <2>2, <2>3, <1>3
  <2> QED BY <2>1, <2>3, <2>4
<1> QED BY <1>6

\* The nodes below a link are a part that only this link leads out of.
LEMMA Cuts ==
  ASSUME NEW L, IsTree(L), NEW k \in 1 .. Len(L)
  PROVE  \E X \in SUBSET PlacesOf(L) : Cut(L, k, X)
<1>1. PICK up, depth : TreeBy(L, up, depth)
  BY DEF IsTree
<1>2. PICK c \in PlacesOf(L) \ {"A"} :
        /\ Hangs(L, k, c, up)
        /\ \A X : (L[k][1] \in X <=> L[k][2] \notin X) <=> (c \in X <=> up[c] \notin X)
  BY <1>1, LinkEnds
<1> DEFINE Inner == PlacesOf(L) \ {"A"}
           Good(X) == c \in X /\ \A x \in Inner : up[x] \in X => x \in X
           Below == {m \in PlacesOf(L) : \A X \in SUBSET PlacesOf(L) : Good(X) => m \in X}
<1>3. Good(Below)
  OBVIOUS
<1>4. \A X \in SUBSET PlacesOf(L) : Good(X) => Below \subseteq X
  OBVIOUS
<1>5. Below \in SUBSET PlacesOf(L)
  OBVIOUS
<1> HIDE DEF Below
<1>6. up[c] \notin Below
  <2> DEFINE Deep == {m \in PlacesOf(L) : depth[c] <= depth[m]}
  <2>1. Good(Deep)
    BY <1>1 DEF TreeBy
  <2>2. Below \subseteq Deep
    BY <2>1, <1>4, Zenon
  <2>3. up[c] \notin Deep
    BY <1>1 DEF TreeBy
  <2> QED BY <2>2, <2>3
<1>7. ASSUME NEW x \in Inner, x # c, x \in Below PROVE up[x] \in Below
  <2> DEFINE X == {m \in Below : m = c \/ (m \in Inner /\ up[m] \in Below)}
  <2>1. Good(X)
    BY <1>3
  <2>2. X \in SUBSET PlacesOf(L)
    BY <1>5
  <2>3. Below \subseteq X
    <3> HIDE DEF X
    <3> QED BY <2>1, <2>2, <1>4, Zenon
  <2> QED BY <2>3, <1>7
<1>8. ASSUME NEW j \in 1 .. Len(L) \ {k} PROVE L[j][1] \in Below <=> L[j][2] \in Below
  <2>1. PICK x \in PlacesOf(L) \ {"A"} :
          /\ Hangs(L, j, x, up)
          /\ \A X : (L[j][1] \in X <=> L[j][2] \in X) <=> (x \in X <=> up[x] \in X)
    BY <1>1, LinkEnds
  <2>2. x # c
    BY <2>1, <1>1, <1>2, <1>8 DEF TreeBy
  <2>3. x \in Below <=> up[x] \in Below
    BY <2>2, <1>3, <1>7
  <2> QED BY <2>1, <2>3, Zenon
<1>9. L[k][1] \in Below <=> L[k][2] \notin Below
  BY <1>2, <1>3, <1>6, Zenon
<1> QED BY <1>5, <1>8, <1>9 DEF Cut

\* There is at most one node more than links.
LEMMA FewPlaces ==
  ASSUME NEW L, IsTree(L)
  PROVE  IsFiniteSet(PlacesOf(L)) /\ Cardinality(PlacesOf(L)) <= Len(L) + 1
<1>1. PICK up, depth : TreeBy(L, up, depth)
  BY DEF IsTree
<1>2. Len(L) \in Nat
  BY DEF IsTree
<1> DEFINE I == 0 .. Len(L)
           f == [k \in I |-> IF k = 0 THEN "A"
                             ELSE CHOOSE c \in PlacesOf(L) \ {"A"} : Hangs(L, k, c, up)]
<1>3. ASSUME NEW k \in I PROVE f[k] \in PlacesOf(L)
  <2>1. CASE k = 0
    BY <2>1, <1>1 DEF TreeBy
  <2>2. CASE k # 0
    <3>1. k \in 1 .. Len(L)
      BY <2>2, <1>2
    <3>2. \E c \in PlacesOf(L) \ {"A"} : Hangs(L, k, c, up)
      BY <3>1, <1>1 DEF TreeBy
    <3> QED BY <2>2, <3>2
  <2> QED BY <2>1, <2>2
<1>4. ASSUME NEW c \in PlacesOf(L) PROVE \E k \in I : f[k] = c
  <2>1. CASE c = "A"
    BY <2>1, <1>2
  <2>2. CASE c # "A"
    <3>1. PICK k \in 1 .. Len(L) : Hangs(L, k, c, up)
      BY <2>2, <1>1 DEF TreeBy
    <3>2. k \in I /\ k # 0
      BY <1>2
    <3>3. PICK d \in PlacesOf(L) \ {"A"} : d = f[k] /\ Hangs(L, k, d, up)
      BY <3>1, <3>2, <2>2
    <3>4. depth[up[c]] < depth[c] /\ depth[up[d]] < depth[d] /\ depth[c] \in Nat /\ depth[d] \in Nat
      BY <2>2, <1>1 DEF TreeBy
    <3>5. (L[k][1] = c /\ L[k][2] = up[c]) \/ (L[k][1] = up[c] /\ L[k][2] = c)
      BY <3>1 DEF Hangs
    <3>6. (L[k][1] = d /\ L[k][2] = up[d]) \/ (L[k][1] = up[d] /\ L[k][2] = d)
      BY <3>3 DEF Hangs
    <3>7. c = d
      <4>1. ASSUME c = up[d], d = up[c] PROVE FALSE
        BY <4>1, <3>4
      <4> QED BY <4>1, <3>5, <3>6
    <3> QED BY <3>2, <3>3, <3>7
  <2> QED BY <2>1, <2>2
<1> HIDE DEF f
<1>5. IsFiniteSet(I) /\ Cardinality(I) = Len(L) + 1
  <2>1. 0 \in Int /\ Len(L) \in Int
    BY <1>2
  <2> QED BY <2>1, <1>2, FS_Interval
<1>6. [k \in I |-> f[k]] \in Surjection(I, PlacesOf(L))
  BY <1>3, <1>4 DEF Surjection
<1> HIDE DEF I
<1> QED BY <1>5, <1>6, FS_Surjection

\* Node h has one link, to a switch.
OneLink(L, h) ==
  \E k \in 1 .. Len(L) :
     /\ \A j \in 1 .. Len(L) : h \in {L[j][1], L[j][2]} <=> j = k
     /\ \E s \in PlacesOf(L) \intersect Switches : {L[k][1], L[k][2]} = {h, s}

\* A host of a tree has one link, to a switch.
LEMMA HostLink ==
  ASSUME NEW L, IsTree(L), NEW h, h \in PlacesOf(L), h \notin Switches
  PROVE  OneLink(L, h)
<1>1. PICK up, depth : TreeBy(L, up, depth)
  BY DEF IsTree
<1>2. h # "A"
  BY DEF Switches
<1>3. PICK k \in 1 .. Len(L) : Hangs(L, k, h, up)
  BY <1>1, <1>2 DEF TreeBy
<1>4. up[h] \in PlacesOf(L) \intersect Switches
  BY <1>1, <1>2 DEF TreeBy
<1>5. {L[k][1], L[k][2]} = {h, up[h]}
  BY <1>3 DEF Hangs
<1>6. ASSUME NEW j \in 1 .. Len(L), h \in {L[j][1], L[j][2]} PROVE j = k
  <2>1. PICK c \in PlacesOf(L) \ {"A"} :
          Hangs(L, j, c, up) /\ {L[j][1], L[j][2]} = {c, up[c]} /\ up[c] \in Switches
    BY <1>1, LinkEnds
  <2>2. h = c
    BY <2>1, <1>6
  <2> QED BY <2>1, <2>2, <1>1, <1>2, <1>3 DEF TreeBy
<1> QED BY <1>3, <1>4, <1>5, <1>6 DEF OneLink

\* A link has two ends.
LEMMA TwoEnds ==
  ASSUME NEW L, IsTree(L), NEW k \in 1 .. Len(L)
  PROVE  L[k][1] # L[k][2]
<1>1. PICK up, depth : TreeBy(L, up, depth)
  BY DEF IsTree
<1>2. PICK c \in PlacesOf(L) \ {"A"} : {L[k][1], L[k][2]} = {c, up[c]} /\ c # up[c]
  BY <1>1, LinkEnds
<1> QED BY <1>2

-----------------------------------------------------------------------------
(* The networks of the programs are trees.                                 *)

NodeNames == {"receiver1", "disturbance1", "receiver2", "disturbance2", "receiver3", "disturbance3",
              "A", "B", "C", "D", "E", "F", "G"}

SenderNames == {Senders[x[1]][x[2]] : x \in {y \in Groups \X Nat : y[2] \in 1 .. Len(Senders[y[1]])}}

Names == NodeNames \union SenderNames

Pairs == Names \X Names

\* Nodes P with the node above each, and the lower end of each link.
Grown(L, P, up, depth, ch) ==
  /\ Len(L) \in Nat /\ "A" \in P /\ P # {"A"}
  /\ up \in [P \ {"A"} -> P \intersect Switches] /\ depth \in [P -> Nat]
  /\ \A c \in P \ {"A"} : depth[up[c]] < depth[c]
  /\ ch \in [1 .. Len(L) -> P \ {"A"}]
  /\ \A j, k \in 1 .. Len(L) : ch[j] = ch[k] => j = k
  /\ \A c \in P \ {"A"} : \E k \in 1 .. Len(L) : ch[k] = c
  /\ \A k \in 1 .. Len(L) : Hangs(L, k, ch[k], up)

\* How to show that links make a tree.
LEMMA TreeFrom ==
  ASSUME NEW L, NEW P, NEW up, NEW depth, NEW ch, Grown(L, P, up, depth, ch)
  PROVE  IsTree(L) /\ PlacesOf(L) = P
<1> DEFINE Inner == P \ {"A"}
<1>1. \A c \in Inner : up[c] \in P /\ depth[c] \in Nat /\ depth[up[c]] \in Nat /\ depth[up[c]] < depth[c]
  BY DEF Grown
<1>2. \A k \in 1 .. Len(L) : ch[k] \in Inner /\ Hangs(L, k, ch[k], up)
  BY DEF Grown
<1> HIDE DEF Inner
<1>3. \A c, d \in Inner : ~(c = up[d] /\ d = up[c])
  <2> SUFFICES ASSUME NEW c \in Inner, NEW d \in Inner, c = up[d], d = up[c] PROVE FALSE
    OBVIOUS
  <2>1. depth[d] < depth[c] /\ depth[c] < depth[d] /\ depth[c] \in Nat /\ depth[d] \in Nat
    BY <1>1
  <2> QED BY <2>1
<1>4. ASSUME NEW k \in 1 .. Len(L), NEW c \in Inner, Hangs(L, k, c, up)
      PROVE  c = ch[k]
  <2>1. PICK d \in Inner : d = ch[k] /\ Hangs(L, k, d, up)
    BY <1>2
  <2>2. (L[k][1] = c /\ L[k][2] = up[c]) \/ (L[k][1] = up[c] /\ L[k][2] = c)
    BY <1>4 DEF Hangs
  <2>3. (L[k][1] = d /\ L[k][2] = up[d]) \/ (L[k][1] = up[d] /\ L[k][2] = d)
    BY <2>1 DEF Hangs
  <2> QED BY <2>1, <2>2, <2>3, <1>3
<1>5. ASSUME NEW k \in 1 .. Len(L) PROVE {L[k][1], L[k][2]} = {ch[k], up[ch[k]]}
  <2>1. PICK d \in Inner : d = ch[k] /\ Hangs(L, k, d, up)
    BY <1>2
  <2>2. (L[k][1] = d /\ L[k][2] = up[d]) \/ (L[k][1] = up[d] /\ L[k][2] = d)
    BY <2>1 DEF Hangs
  <2> QED BY <2>1, <2>2
<1>6. \A c \in Inner : \E k \in 1 .. Len(L) : ch[k] = c
  BY DEF Grown, Inner
<1>7. \E c \in Inner : up[c] = "A"
  <2>1. Inner \in SUBSET P /\ Inner # {} /\ depth \in [P -> Nat]
    BY DEF Grown, Inner
  <2>2. PICK c \in Inner : \A d \in Inner : depth[c] <= depth[d]
    BY <2>1, Highest
  <2>3. ASSUME up[c] # "A" PROVE FALSE
    <3>1. up[c] \in Inner
      BY <2>3, <1>1 DEF Inner
    <3>2. depth[c] <= depth[up[c]] /\ depth[up[c]] < depth[c] /\ depth[c] \in Nat /\ depth[up[c]] \in Nat
      BY <3>1, <2>2, <1>1
    <3> QED BY <3>2
  <2> QED BY <2>2, <2>3
<1>8. \A k \in 1 .. Len(L) : {L[k][1], L[k][2]} \subseteq P
  <2>1. ASSUME NEW k \in 1 .. Len(L) PROVE ch[k] \in P /\ up[ch[k]] \in P
    BY <1>1, <1>2 DEF Inner
  <2> QED BY <2>1, <1>5
<1>9. \A c \in Inner : c \in PlacesOf(L) /\ up[c] \in PlacesOf(L)
  <2> SUFFICES ASSUME NEW c \in Inner PROVE c \in PlacesOf(L) /\ up[c] \in PlacesOf(L)
    OBVIOUS
  <2>1. PICK k \in 1 .. Len(L) : ch[k] = c
    BY <1>6
  <2>2. {L[k][1], L[k][2]} = {c, up[c]}
    BY <2>1, <1>5
  <2>3. \A x \in {L[k][1], L[k][2]} : x \in PlacesOf(L)
    BY Zenon DEF PlacesOf
  <2> QED BY <2>2, <2>3
<1>10. PlacesOf(L) = P
  <2>1. "A" \in PlacesOf(L) /\ "A" \in P
    BY <1>7, <1>9 DEF Grown
  <2>2. PlacesOf(L) \subseteq P
    BY <1>8 DEF PlacesOf
  <2> QED BY <2>1, <2>2, <1>9 DEF Inner
<1>11. TreeBy(L, up, depth)
  <2>1. \A j, k \in 1 .. Len(L), c \in Inner : Hangs(L, j, c, up) /\ Hangs(L, k, c, up) => j = k
    BY <1>4 DEF Grown
  <2>2. \A c \in Inner : \E k \in 1 .. Len(L) : Hangs(L, k, c, up)
    BY <1>2, <1>6
  <2>3. \A k \in 1 .. Len(L) : \E c \in Inner : Hangs(L, k, c, up)
    BY <1>2
  <2> HIDE DEF Inner
  <2>4. /\ "A" \in P /\ up \in [P \ {"A"} -> P \intersect Switches] /\ depth \in [P -> Nat]
        /\ \A c \in Inner : depth[up[c]] < depth[c]
    BY DEF Grown, Inner
  <2> QED BY <2>1, <2>2, <2>3, <2>4, <1>10 DEF TreeBy, Inner
<1>12. Len(L) \in Nat
  BY DEF Grown
<1> QED BY <1>10, <1>11, <1>12 DEF IsTree

\* Hosts hung on a switch of a tree make a tree.
LEMMA HangHosts ==
  ASSUME NEW L \in Seq(Pairs), IsTree(L),
         NEW hosts \in Seq(Names), NEW s \in Names, s \in PlacesOf(L) \intersect Switches,
         \A i \in 1 .. Len(hosts) : hosts[i] \notin PlacesOf(L),
         \A i, j \in 1 .. Len(hosts) : hosts[i] = hosts[j] => i = j
  PROVE  /\ IsTree(L \o Join(hosts, s))
         /\ L \o Join(hosts, s) \in Seq(Pairs)
         /\ PlacesOf(L \o Join(hosts, s)) = PlacesOf(L) \union {hosts[i] : i \in 1 .. Len(hosts)}
         /\ Len(L) <= Len(L \o Join(hosts, s))
         /\ \A k \in 1 .. Len(L) : (L \o Join(hosts, s))[k] = L[k]
<1> DEFINE J == Join(hosts, s)
           N == Len(L)
           Q == {hosts[i] : i \in 1 .. Len(hosts)}
<1>1. J \in Seq(Pairs) /\ Len(J) = Len(hosts) /\ \A i \in 1 .. Len(hosts) : J[i] = <<hosts[i], s>>
  <2>1. Len(hosts) \in Nat /\ \A i \in 1 .. Len(hosts) : <<hosts[i], s>> \in Pairs
    <3>1. Len(hosts) \in Nat /\ \A i \in 1 .. Len(hosts) : hosts[i] \in Names
      OBVIOUS
    <3>2. \A x, y \in Names : <<x, y>> \in Names \X Names
      OBVIOUS
    <3> QED BY <3>1, <3>2 DEF Pairs
  <2> HIDE DEF Pairs
  <2>2. J = [i \in 1 .. Len(hosts) |-> <<hosts[i], s>>]
    BY DEF Join
  <2>3. J \in [1 .. Len(hosts) -> Pairs]
    BY <2>1, <2>2
  <2>4. J \in Seq(Pairs) /\ Len(J) = Len(hosts)
    <3>1. PICK m \in Nat : m = Len(hosts)
      BY <2>1
    <3>2. DOMAIN J = 1 .. m /\ J \in [1 .. m -> Pairs]
      BY <2>3, <3>1
    <3>3. J \in Seq(Pairs)
      <4> HIDE DEF J
      <4>1. \A f \in [1 .. m -> Pairs] : f \in Seq(Pairs)
        OBVIOUS
      <4> QED BY <4>1, <3>2
    <3>4. Len(J) = m
      <4> HIDE DEF J
      <4> QED BY <3>2, <3>3, LenProperties
    <3> QED BY <3>1, <3>3, <3>4
  <2> QED BY <2>2, <2>4
<1>2. /\ L \o J \in Seq(Pairs) /\ Len(L \o J) = N + Len(hosts) /\ N \in Nat /\ Len(hosts) \in Nat
      /\ \A k \in 1 .. N : (L \o J)[k] = L[k]
      /\ \A k \in N + 1 .. N + Len(hosts) : (L \o J)[k] = J[k - N]
  <2> HIDE DEF J, Q
  <2>1. L \o J \in Seq(Pairs) /\ Len(L \o J) = Len(L) + Len(J)
        /\ \A k \in 1 .. Len(L) + Len(J) : (L \o J)[k] = IF k <= Len(L) THEN L[k] ELSE J[k - Len(L)]
    BY <1>1, ConcatProperties
  <2>2. Len(L) \in Nat /\ Len(hosts) \in Nat
    OBVIOUS
  <2>3. PICK M : M = L \o J
    OBVIOUS
  <2>4. PICK N1 \in Nat, n2 \in Nat : N1 = Len(L) /\ n2 = Len(hosts) /\ n2 = Len(J)
    BY <2>2, <1>1
  <2>5. \A k \in 1 .. N1 + n2 : M[k] = IF k <= N1 THEN L[k] ELSE J[k - N1]
    BY <2>1, <2>3, <2>4
  <2>6. (\A k \in 1 .. N1 : M[k] = L[k]) /\ \A k \in N1 + 1 .. N1 + n2 : M[k] = J[k - N1]
    <3>1. ASSUME NEW k \in 1 .. N1 PROVE M[k] = L[k]
      <4>1. k \in 1 .. N1 + n2 /\ k <= N1
        OBVIOUS
      <4> QED BY <4>1, <2>5
    <3>2. ASSUME NEW k \in N1 + 1 .. N1 + n2 PROVE M[k] = J[k - N1]
      <4>1. k \in 1 .. N1 + n2 /\ ~(k <= N1)
        OBVIOUS
      <4> QED BY <4>1, <2>5
    <3> QED BY <3>1, <3>2
  <2>7. M \in Seq(Pairs) /\ Len(M) = N1 + n2
    BY <2>1, <2>3, <2>4
  <2> QED BY <2>3, <2>4, <2>6, <2>7
<1> HIDE DEF J
<1>3. PICK M : M = L \o J
  OBVIOUS
<1>4. /\ M \in Seq(Pairs) /\ Len(M) = N + Len(hosts)
      /\ \A k \in 1 .. N : M[k] = L[k]
      /\ \A i \in 1 .. Len(hosts) : M[N + i] = <<hosts[i], s>>
  <2>1. ASSUME NEW i \in 1 .. Len(hosts) PROVE M[N + i] = <<hosts[i], s>>
    <3>1. N + i \in N + 1 .. N + Len(hosts) /\ (N + i) - N = i
      BY <1>2
    <3> QED BY <3>1, <1>1, <1>2, <1>3
  <2> QED BY <2>1, <1>2, <1>3
<1>5. PICK up, depth : TreeBy(L, up, depth)
  BY DEF IsTree
<1> DEFINE P == PlacesOf(L) \union Q
           upM == [m \in P \ {"A"} |-> IF m \in PlacesOf(L) THEN up[m] ELSE s]
           depthM == [m \in P |-> IF m \in PlacesOf(L) THEN depth[m] ELSE depth[s] + 1]
           Lower(k) == CHOOSE c \in PlacesOf(L) \ {"A"} : Hangs(L, k, c, up)
           ch == [k \in 1 .. Len(M) |-> IF k <= N THEN Lower(k) ELSE hosts[k - N]]
<1>6. ASSUME NEW k \in 1 .. N PROVE Lower(k) \in PlacesOf(L) \ {"A"} /\ Hangs(L, k, Lower(k), up)
  <2>1. \E c \in PlacesOf(L) \ {"A"} : Hangs(L, k, c, up)
    BY <1>5 DEF TreeBy
  <2> QED BY <2>1
<1>7. ASSUME NEW c \in PlacesOf(L) \ {"A"}, NEW k \in 1 .. N, Hangs(L, k, c, up)
      PROVE  Lower(k) = c
  <2> DEFINE d == Lower(k)
  <2>1. d \in PlacesOf(L) \ {"A"} /\ Hangs(L, k, d, up)
    BY <1>6
  <2> HIDE DEF d
  <2>2. depth[up[c]] < depth[c] /\ depth[up[d]] < depth[d] /\ depth[c] \in Nat /\ depth[d] \in Nat
    BY <2>1, <1>5 DEF TreeBy
  <2>3. (L[k][1] = c /\ L[k][2] = up[c]) \/ (L[k][1] = up[c] /\ L[k][2] = c)
    BY <1>7 DEF Hangs
  <2>4. (L[k][1] = d /\ L[k][2] = up[d]) \/ (L[k][1] = up[d] /\ L[k][2] = d)
    BY <2>1 DEF Hangs
  <2>5. ASSUME c = up[d], d = up[c] PROVE FALSE
    BY <2>5, <2>2
  <2>6. c = d
    BY <2>3, <2>4, <2>5
  <2> QED BY <2>6 DEF d
<1> HIDE DEF Lower
<1>8. "A" \in PlacesOf(L) /\ "A" \in P
  BY <1>5 DEF TreeBy
<1>9. upM \in [P \ {"A"} -> P \intersect Switches] /\ depthM \in [P -> Nat]
  BY <1>5 DEF TreeBy
<1>10. \A c \in P \ {"A"} : depthM[upM[c]] < depthM[c]
  <2>1. ASSUME NEW c \in PlacesOf(L) \ {"A"} PROVE depthM[upM[c]] < depthM[c]
    <3>1. up[c] \in PlacesOf(L) /\ depth[up[c]] < depth[c]
      BY <1>5 DEF TreeBy
    <3>2. upM[c] = up[c]
      OBVIOUS
    <3>3. depthM[up[c]] = depth[up[c]] /\ depthM[c] = depth[c]
      BY <3>1
    <3> QED BY <3>1, <3>2, <3>3
  <2>2. ASSUME NEW c \in P \ PlacesOf(L) PROVE depthM[upM[c]] < depthM[c]
    <3>1. upM[c] = s /\ depthM[s] = depth[s] /\ depthM[c] = depth[s] + 1
      BY <1>8
    <3>2. depth[s] \in Nat
      BY <1>5 DEF TreeBy
    <3> QED BY <3>1, <3>2
  <2> QED BY <2>1, <2>2
<1>11. ASSUME NEW i \in 1 .. Len(hosts)
       PROVE  /\ N + i \in 1 .. Len(M) /\ ~(N + i <= N) /\ (N + i) - N = i
              /\ ch[N + i] = hosts[i] /\ hosts[i] \in Q /\ hosts[i] \notin PlacesOf(L)
  <2>1. N + i \in 1 .. Len(M) /\ ~(N + i <= N) /\ (N + i) - N = i
    BY <1>2, <1>4
  <2> QED BY <2>1
<1>12. ASSUME NEW k \in 1 .. N
       PROVE  k \in 1 .. Len(M) /\ ch[k] = Lower(k) /\ ch[k] \in PlacesOf(L) \ {"A"}
  <2>1. k \in 1 .. Len(M) /\ k <= N
    BY <1>2, <1>4
  <2> QED BY <2>1, <1>6
<1>13. \A k \in 1 .. Len(M) : k \in 1 .. N \/ \E i \in 1 .. Len(hosts) : k = N + i
  <2>1. ASSUME NEW k \in 1 .. Len(M), k \notin 1 .. N PROVE k - N \in 1 .. Len(hosts) /\ k = N + (k - N)
    BY <2>1, <1>2, <1>4
  <2> QED BY <2>1
<1> HIDE DEF Q
<1>14. DOMAIN ch = 1 .. Len(M) /\ ch = [k \in 1 .. Len(M) |-> ch[k]]
  OBVIOUS
<1>15. \A c \in PlacesOf(L) \ {"A"} : upM[c] = up[c]
  OBVIOUS
<1>16. \A c \in Q \ PlacesOf(L) : c \in P \ {"A"} /\ upM[c] = s
  BY <1>8
<1> HIDE DEF ch, upM, depthM
<1>17. ch \in [1 .. Len(M) -> P \ {"A"}]
  <2>1. ASSUME NEW k \in 1 .. Len(M) PROVE ch[k] \in P \ {"A"}
    <3>1. CASE k \in 1 .. N
      BY <3>1, <1>12
    <3>2. CASE \E i \in 1 .. Len(hosts) : k = N + i
      BY <3>2, <1>11, <1>8
    <3> QED BY <3>1, <3>2, <1>13
  <2> QED BY <2>1, <1>14
<1>18. ASSUME NEW j \in 1 .. Len(M), NEW k \in 1 .. Len(M), ch[j] = ch[k] PROVE j = k
  <2>1. CASE j \in 1 .. N /\ k \in 1 .. N
    <3>1. Hangs(L, j, ch[j], up) /\ Hangs(L, k, ch[k], up) /\ ch[j] \in PlacesOf(L) \ {"A"}
      BY <2>1, <1>12, <1>6
    <3> QED BY <3>1, <2>1, <1>18, <1>5 DEF TreeBy
  <2>2. CASE j \notin 1 .. N /\ k \notin 1 .. N
    <3>1. PICK a \in 1 .. Len(hosts), b \in 1 .. Len(hosts) : j = N + a /\ k = N + b
      BY <2>2, <1>13
    <3>2. hosts[a] = hosts[b]
      BY <3>1, <1>11, <1>18
    <3> QED BY <3>1, <3>2
  <2>3. CASE j \in 1 .. N /\ k \notin 1 .. N
    <3>1. PICK i \in 1 .. Len(hosts) : k = N + i
      BY <2>3, <1>13
    <3>2. ch[k] \notin PlacesOf(L)
      BY <3>1, <1>11
    <3>3. ch[j] \in PlacesOf(L)
      BY <2>3, <1>12
    <3> QED BY <3>2, <3>3, <1>18
  <2>4. CASE j \notin 1 .. N /\ k \in 1 .. N
    <3>1. PICK i \in 1 .. Len(hosts) : j = N + i
      BY <2>4, <1>13
    <3>2. ch[j] \notin PlacesOf(L)
      BY <3>1, <1>11
    <3>3. ch[k] \in PlacesOf(L)
      BY <2>4, <1>12
    <3> QED BY <3>2, <3>3, <1>18
  <2> QED BY <2>1, <2>2, <2>3, <2>4
<1>19. ASSUME NEW c \in P \ {"A"} PROVE \E k \in 1 .. Len(M) : ch[k] = c
  <2>1. CASE c \in PlacesOf(L)
    <3>1. PICK k \in 1 .. N : Hangs(L, k, c, up)
      BY <2>1, <1>5 DEF TreeBy
    <3>2. Lower(k) = c
      BY <3>1, <2>1, <1>7
    <3> QED BY <3>2, <1>12
  <2>2. CASE c \notin PlacesOf(L)
    <3>1. PICK i \in 1 .. Len(hosts) : c = hosts[i]
      BY <2>2 DEF Q
    <3> QED BY <3>1, <1>11
  <2> QED BY <2>1, <2>2
<1>20. ASSUME NEW k \in 1 .. Len(M) PROVE Hangs(M, k, ch[k], upM)
  <2>1. CASE k \in 1 .. N
    <3>1. Hangs(L, k, ch[k], up) /\ ch[k] \in PlacesOf(L) \ {"A"}
      BY <2>1, <1>12, <1>6
    <3>2. M[k] = L[k] /\ upM[ch[k]] = up[ch[k]]
      BY <2>1, <3>1, <1>4, <1>15
    <3> QED BY <3>1, <3>2 DEF Hangs
  <2>2. CASE \E i \in 1 .. Len(hosts) : k = N + i
    <3>1. PICK i \in 1 .. Len(hosts) : k = N + i
      BY <2>2
    <3>2. ch[k] = hosts[i] /\ M[k] = <<hosts[i], s>> /\ upM[hosts[i]] = s
      BY <3>1, <1>4, <1>11, <1>16
    <3> QED BY <3>2 DEF Hangs
  <2> QED BY <2>1, <2>2, <1>13
<1>21. P # {"A"}
  <2>1. PICK k \in 1 .. Len(L) : "A" \in {L[k][1], L[k][2]}
    BY <1>8 DEF PlacesOf
  <2>2. \E c \in PlacesOf(L) \ {"A"} : TRUE
    BY <2>1, <1>5, LinkEnds
  <2> QED BY <2>2
<1>22. Len(M) \in Nat
  BY <1>4, <1>2
<1> HIDE DEF P, N
<1>23. Grown(M, P, upM, depthM, ch)
  BY <1>8, <1>9, <1>10, <1>17, <1>18, <1>19, <1>20, <1>21, <1>22 DEF Grown
<1>24. IsTree(M) /\ PlacesOf(M) = P
  BY <1>23, TreeFrom
<1>25. M = L \o Join(hosts, s) /\ P = PlacesOf(L) \union {hosts[i] : i \in 1 .. Len(hosts)}
  BY <1>3 DEF J, P, Q
<1>26. N = Len(L) /\ N <= Len(M)
  BY <1>2, <1>4 DEF N
<1> QED BY <1>4, <1>24, <1>25, <1>26

\* The links among switches, receivers and sources of congestion, where e is the
\* switch by which the third part is reached.
Trunk(e) ==
  << <<"receiver1", "B">>, <<"disturbance1", "B">>, <<"A", "B">>,
     <<"A", "C">>, <<"C", "D">>, <<"receiver2", "D">>, <<"disturbance2", "D">>,
     <<e, "E">>, <<"E", "F">>, <<"F", "G">>, <<"receiver3", "G">>, <<"disturbance3", "G">> >>

\* The links among switches, receivers and sources of congestion join such nodes.
LEMMA TrunkPairs ==
  ASSUME NEW e \in {"C", "D"}
  PROVE  Trunk(e) \in Seq(Pairs) /\ Len(Trunk(e)) = 12
<1>1. \A x, y \in NodeNames : <<x, y>> \in Pairs
  BY DEF Pairs, Names
<1>2. e \in NodeNames
  BY DEF NodeNames
<1>3. /\ "A" \in NodeNames /\ "B" \in NodeNames /\ "C" \in NodeNames /\ "D" \in NodeNames
      /\ "E" \in NodeNames /\ "F" \in NodeNames /\ "G" \in NodeNames
      /\ "receiver1" \in NodeNames /\ "receiver2" \in NodeNames /\ "receiver3" \in NodeNames
      /\ "disturbance1" \in NodeNames /\ "disturbance2" \in NodeNames /\ "disturbance3" \in NodeNames
  BY DEF NodeNames
<1>4. /\ <<"receiver1", "B">> \in Pairs /\ <<"disturbance1", "B">> \in Pairs /\ <<"A", "B">> \in Pairs
      /\ <<"A", "C">> \in Pairs /\ <<"C", "D">> \in Pairs /\ <<"receiver2", "D">> \in Pairs
      /\ <<"disturbance2", "D">> \in Pairs /\ <<e, "E">> \in Pairs /\ <<"E", "F">> \in Pairs
      /\ <<"F", "G">> \in Pairs /\ <<"receiver3", "G">> \in Pairs /\ <<"disturbance3", "G">> \in Pairs
  BY <1>1, <1>2, <1>3
<1> QED BY <1>4 DEF Trunk

\* A list of twelve in three pieces.
InPieces(u, r, s, t) ==
  /\ Len(r) = 7 /\ Len(s) = 1 /\ Len(t) = 4 /\ Len(u) = 12
  /\ \A i \in 1 .. 7 : u[i] = r[i]
  /\ u[8] = s[1]
  /\ \A i \in 9 .. 12 : u[i] = t[i - 8]

\* Three lists given piece by piece are joined to a fourth.
LEMMA Pieces ==
  ASSUME NEW S, NEW r \in Seq(S), NEW s \in Seq(S), NEW t \in Seq(S), NEW u \in Seq(S),
         InPieces(u, r, s, t)
  PROVE  (r \o s) \o t = u
<1>1. Len(r) = 7 /\ Len(s) = 1 /\ Len(t) = 4 /\ Len(u) = 12
  BY DEF InPieces
<1>2. r \o s \in Seq(S) /\ Len(r \o s) = Len(r) + Len(s)
      /\ \A i \in 1 .. Len(r) + Len(s) : (r \o s)[i] = IF i <= Len(r) THEN r[i] ELSE s[i - Len(r)]
  BY ConcatProperties
<1>3. PICK q \in Seq(S) : q = r \o s
  BY <1>2
<1>4. Len(q) = 8
  BY <1>1, <1>2, <1>3
<1>5. ASSUME NEW i \in 1 .. 8 PROVE q[i] = u[i]
  <2>1. q[i] = IF i <= 7 THEN r[i] ELSE s[i - 7]
    BY <1>1, <1>2, <1>3
  <2>2. CASE i \in 1 .. 7
    BY <2>1, <2>2 DEF InPieces
  <2>3. CASE i = 8
    <3>1. q[8] = s[1]
      BY <2>1, <2>3
    <3> QED BY <3>1, <2>3 DEF InPieces
  <2> QED BY <2>2, <2>3
<1>6. q \o t \in Seq(S) /\ Len(q \o t) = Len(q) + Len(t)
      /\ \A i \in 1 .. Len(q) + Len(t) : (q \o t)[i] = IF i <= Len(q) THEN q[i] ELSE t[i - Len(q)]
  BY ConcatProperties
<1>7. PICK v \in Seq(S) : v = q \o t
  BY <1>6
<1>8. Len(v) = 12
  BY <1>1, <1>4, <1>6, <1>7
<1>9. ASSUME NEW i \in 1 .. 12 PROVE v[i] = u[i]
  <2>1. v[i] = IF i <= 8 THEN q[i] ELSE t[i - 8]
    <3>1. i \in 1 .. Len(q) + Len(t)
      BY <1>1, <1>4
    <3>2. v[i] = IF i <= Len(q) THEN q[i] ELSE t[i - Len(q)]
      BY <3>1, <1>6, <1>7
    <3> QED BY <3>2, <1>4
  <2>2. CASE i \in 1 .. 8
    <3>1. v[i] = q[i]
      BY <2>1, <2>2
    <3> QED BY <3>1, <2>2, <1>5
  <2>3. CASE i \in 9 .. 12
    <3>1. v[i] = t[i - 8]
      BY <2>1, <2>3
    <3> QED BY <3>1, <2>3 DEF InPieces
  <2> QED BY <2>2, <2>3
<1>10. v = u
  BY <1>1, <1>8, <1>9, SeqEqual
<1> QED BY <1>3, <1>7, <1>10

\* In both topologies the backbone is such a trunk.
LEMMA BackboneTrunk ==
  ASSUME NEW topo \in {1, 2}
  PROVE  \E e \in {"C", "D"} : Backbone(topo) = Trunk(e)
<1> DEFINE r == << <<"receiver1", "B">>, <<"disturbance1", "B">>, <<"A", "B">>,
                   <<"A", "C">>, <<"C", "D">>, <<"receiver2", "D">>, <<"disturbance2", "D">> >>
           t == << <<"E", "F">>, <<"F", "G">>, <<"receiver3", "G">>, <<"disturbance3", "G">> >>
<1>1. PICK e \in {"C", "D"} : Branch(topo) = << <<e, "E">> >>
  <2>1. CASE topo = 1
    BY <2>1 DEF Branch
  <2>2. CASE topo = 2
    BY <2>2 DEF Branch
  <2> QED BY <2>1, <2>2
<1>2. PICK s : s = Branch(topo) /\ s = << <<e, "E">> >>
  BY <1>1
<1>3. PICK u : u = Trunk(e)
  OBVIOUS
<1>4. u \in Seq(Pairs) /\ Len(u) = 12
  BY <1>3, TrunkPairs
<1>5. /\ u[1] = <<"receiver1", "B">> /\ u[2] = <<"disturbance1", "B">>
      /\ u[3] = <<"A", "B">> /\ u[4] = <<"A", "C">> /\ u[5] = <<"C", "D">>
      /\ u[6] = <<"receiver2", "D">> /\ u[7] = <<"disturbance2", "D">>
      /\ u[8] = <<e, "E">> /\ u[9] = <<"E", "F">> /\ u[10] = <<"F", "G">>
      /\ u[11] = <<"receiver3", "G">> /\ u[12] = <<"disturbance3", "G">>
  BY <1>3 DEF Trunk
<1>6. \A i \in 1 .. Len(u) : u[i] \in Pairs
  BY <1>4, ElementOfSeq
<1>7. /\ u[1] \in Pairs /\ u[2] \in Pairs /\ u[3] \in Pairs /\ u[4] \in Pairs /\ u[5] \in Pairs /\ u[6] \in Pairs
      /\ u[7] \in Pairs /\ u[8] \in Pairs /\ u[9] \in Pairs /\ u[10] \in Pairs /\ u[11] \in Pairs /\ u[12] \in Pairs
  BY <1>4, <1>6
<1>8. r \in Seq(Pairs) /\ Len(r) = 7 /\ \A i \in 1 .. 7 : u[i] = r[i]
  <2>1. r = <<u[1], u[2], u[3], u[4], u[5], u[6], u[7]>>
    BY <1>5
  <2> HIDE DEF r
  <2> QED BY <2>1, <1>7
<1>9. t \in Seq(Pairs) /\ Len(t) = 4 /\ \A i \in 9 .. 12 : u[i] = t[i - 8]
  <2>1. t = <<u[9], u[10], u[11], u[12]>>
    BY <1>5
  <2> HIDE DEF t
  <2> QED BY <2>1, <1>7
<1>10. s \in Seq(Pairs) /\ Len(s) = 1 /\ u[8] = s[1]
  <2>1. s = <<u[8]>>
    BY <1>2, <1>5
  <2> QED BY <2>1, <1>7
<1>11. Backbone(topo) = (r \o s) \o t
  BY <1>2 DEF Backbone
<1> HIDE DEF r, t
<1>12. InPieces(u, r, s, t)
  BY <1>4, <1>8, <1>9, <1>10 DEF InPieces
<1>13. PICK r0, t0 : r0 = r /\ t0 = t
  OBVIOUS
<1>14. (r0 \o s) \o t0 = u
  BY <1>4, <1>8, <1>9, <1>10, <1>12, <1>13, Pieces
<1> QED BY <1>3, <1>11, <1>13, <1>14

TrunkUp(e) ==
  [m \in NodeNames \ {"A"} |->
     CASE m \in {"B", "C"} -> "A"
       [] m \in {"receiver1", "disturbance1"} -> "B"
       [] m = "D" -> "C"
       [] m \in {"receiver2", "disturbance2"} -> "D"
       [] m = "E" -> e
       [] m = "F" -> "E"
       [] m = "G" -> "F"
       [] m \in {"receiver3", "disturbance3"} -> "G"]

TrunkDepth ==
  [m \in NodeNames |->
     CASE m = "A" -> 0
       [] m \in {"B", "C"} -> 1
       [] m \in {"D", "receiver1", "disturbance1"} -> 2
       [] m \in {"E", "receiver2", "disturbance2"} -> 3
       [] m = "F" -> 4
       [] m = "G" -> 5
       [] m \in {"receiver3", "disturbance3"} -> 6]

TrunkLower ==
  <<"receiver1", "disturbance1", "B", "C", "D", "receiver2", "disturbance2",
    "E", "F", "G", "receiver3", "disturbance3">>

\* Such a trunk is a tree.
LEMMA TrunkTree ==
  ASSUME NEW e \in {"C", "D"}
  PROVE  IsTree(Trunk(e)) /\ PlacesOf(Trunk(e)) = NodeNames
<1>1. Len(Trunk(e)) = 12
  BY TrunkPairs
<1>2. \A k \in 1 .. 12 : k = 1 \/ k = 2 \/ k = 3 \/ k = 4 \/ k = 5 \/ k = 6 \/ k = 7 \/ k = 8
                         \/ k = 9 \/ k = 10 \/ k = 11 \/ k = 12
  OBVIOUS
<1>3. \A m \in NodeNames \ {"A"} :
        m = "B" \/ m = "C" \/ m = "D" \/ m = "E" \/ m = "F" \/ m = "G" \/ m = "receiver1" \/ m = "receiver2"
        \/ m = "receiver3" \/ m = "disturbance1" \/ m = "disturbance2" \/ m = "disturbance3"
  BY DEF NodeNames
<1>4. /\ TrunkUp(e)["B"] = "A" /\ TrunkUp(e)["C"] = "A" /\ TrunkUp(e)["D"] = "C" /\ TrunkUp(e)["E"] = e
      /\ TrunkUp(e)["F"] = "E" /\ TrunkUp(e)["G"] = "F"
      /\ TrunkUp(e)["receiver1"] = "B" /\ TrunkUp(e)["disturbance1"] = "B"
      /\ TrunkUp(e)["receiver2"] = "D" /\ TrunkUp(e)["disturbance2"] = "D"
      /\ TrunkUp(e)["receiver3"] = "G" /\ TrunkUp(e)["disturbance3"] = "G"
      /\ DOMAIN TrunkUp(e) = NodeNames \ {"A"} /\ TrunkUp(e) = [m \in NodeNames \ {"A"} |-> TrunkUp(e)[m]]
  BY DEF TrunkUp, NodeNames
<1>5. /\ TrunkDepth["A"] = 0 /\ TrunkDepth["B"] = 1 /\ TrunkDepth["C"] = 1 /\ TrunkDepth["D"] = 2
      /\ TrunkDepth["E"] = 3 /\ TrunkDepth["F"] = 4 /\ TrunkDepth["G"] = 5
      /\ TrunkDepth["receiver1"] = 2 /\ TrunkDepth["disturbance1"] = 2
      /\ TrunkDepth["receiver2"] = 3 /\ TrunkDepth["disturbance2"] = 3
      /\ TrunkDepth["receiver3"] = 6 /\ TrunkDepth["disturbance3"] = 6
      /\ TrunkDepth = [m \in NodeNames |-> TrunkDepth[m]]
  BY DEF TrunkDepth, NodeNames
<1>6. /\ TrunkLower[1] = "receiver1" /\ TrunkLower[2] = "disturbance1" /\ TrunkLower[3] = "B"
      /\ TrunkLower[4] = "C" /\ TrunkLower[5] = "D" /\ TrunkLower[6] = "receiver2"
      /\ TrunkLower[7] = "disturbance2" /\ TrunkLower[8] = "E" /\ TrunkLower[9] = "F"
      /\ TrunkLower[10] = "G" /\ TrunkLower[11] = "receiver3" /\ TrunkLower[12] = "disturbance3"
      /\ TrunkLower = [k \in 1 .. 12 |-> TrunkLower[k]]
  BY DEF TrunkLower
<1>7. /\ Trunk(e)[1] = <<"receiver1", "B">> /\ Trunk(e)[2] = <<"disturbance1", "B">>
      /\ Trunk(e)[3] = <<"A", "B">> /\ Trunk(e)[4] = <<"A", "C">> /\ Trunk(e)[5] = <<"C", "D">>
      /\ Trunk(e)[6] = <<"receiver2", "D">> /\ Trunk(e)[7] = <<"disturbance2", "D">>
      /\ Trunk(e)[8] = <<e, "E">> /\ Trunk(e)[9] = <<"E", "F">> /\ Trunk(e)[10] = <<"F", "G">>
      /\ Trunk(e)[11] = <<"receiver3", "G">> /\ Trunk(e)[12] = <<"disturbance3", "G">>
  BY DEF Trunk
<1>8. TrunkUp(e) \in [NodeNames \ {"A"} -> NodeNames \intersect Switches]
  <2>1. \A m \in NodeNames \ {"A"} : TrunkUp(e)[m] \in {"A", "B", "C", "D", "E", "F", "G"}
    BY <1>3, <1>4
  <2>2. {"A", "B", "C", "D", "E", "F", "G"} = NodeNames \intersect Switches
    BY DEF NodeNames, Switches
  <2> HIDE DEF NodeNames, Switches, TrunkUp
  <2> QED BY <2>1, <2>2, <1>4
<1>9. TrunkDepth \in [NodeNames -> Nat]
  <2>1. \A m \in NodeNames : TrunkDepth[m] \in Nat
    <3>1. \A m \in NodeNames \ {"A"} : TrunkDepth[m] \in Nat
      BY <1>3, <1>5
    <3> QED BY <3>1, <1>5
  <2> QED BY <2>1, <1>5
<1>10. \A m \in NodeNames \ {"A"} : TrunkDepth[TrunkUp(e)[m]] < TrunkDepth[m]
  <2>1. TrunkDepth[e] < 3
    BY <1>5
  <2> QED BY <2>1, <1>3, <1>4, <1>5
<1>11. TrunkLower \in [1 .. 12 -> NodeNames \ {"A"}]
  <2>1. \A k \in 1 .. 12 : TrunkLower[k] \in NodeNames \ {"A"}
    BY <1>2, <1>6 DEF NodeNames
  <2> QED BY <2>1, <1>6
<1>12. \A j, k \in 1 .. 12 : TrunkLower[j] = TrunkLower[k] => j = k
  BY <1>2, <1>6
<1>13. \A m \in NodeNames \ {"A"} : \E k \in 1 .. 12 : TrunkLower[k] = m
  <2>1. /\ 1 \in 1 .. 12 /\ 2 \in 1 .. 12 /\ 3 \in 1 .. 12 /\ 4 \in 1 .. 12 /\ 5 \in 1 .. 12 /\ 6 \in 1 .. 12
        /\ 7 \in 1 .. 12 /\ 8 \in 1 .. 12 /\ 9 \in 1 .. 12 /\ 10 \in 1 .. 12 /\ 11 \in 1 .. 12 /\ 12 \in 1 .. 12
    OBVIOUS
  <2> QED BY <2>1, <1>3, <1>6, Zenon
<1>14. \A k \in 1 .. 12 : Hangs(Trunk(e), k, TrunkLower[k], TrunkUp(e))
  <2>1. ASSUME NEW k \in 1 .. 12
        PROVE  \/ Trunk(e)[k] = <<TrunkLower[k], TrunkUp(e)[TrunkLower[k]]>>
               \/ Trunk(e)[k] = <<TrunkUp(e)[TrunkLower[k]], TrunkLower[k]>>
    BY <1>2, <1>4, <1>6, <1>7
  <2> QED BY <2>1 DEF Hangs
<1>15. "A" \in NodeNames /\ NodeNames # {"A"}
  BY DEF NodeNames
<1>16. Grown(Trunk(e), NodeNames, TrunkUp(e), TrunkDepth, TrunkLower)
  BY <1>1, <1>8, <1>9, <1>10, <1>11, <1>12, <1>13, <1>14, <1>15 DEF Grown
<1> QED BY <1>16, TreeFrom

GroupNames(g) == {Senders[g][i] : i \in 1 .. Len(Senders[g])}

\* Senders have names of their own, which are not those of other nodes.
LEMMA GroupsApart ==
  ASSUME NEW g \in Groups
  PROVE  /\ Senders[g] \in Seq(Names)
         /\ \A i \in 1 .. Len(Senders[g]) : Senders[g][i] \notin NodeNames
         /\ \A i, j \in 1 .. Len(Senders[g]) : Senders[g][i] = Senders[g][j] => i = j
         /\ \A h \in Groups \ {g} : \A i \in 1 .. Len(Senders[g]) : Senders[g][i] \notin GroupNames(h)
         /\ GroupNames(g) \subseteq SenderNames
<1>1. Senders[g] \in Seq(STRING)
  BY NetworkAssumption
<1>2. GroupNames(g) \subseteq SenderNames
  <2> SUFFICES ASSUME NEW i \in 1 .. Len(Senders[g]) PROVE Senders[g][i] \in SenderNames
    BY DEF GroupNames
  <2>1. <<g, i>> \in {y \in Groups \X Nat : y[2] \in 1 .. Len(Senders[y[1]])}
    <3>1. i \in Nat
      BY <1>1
    <3> QED BY <3>1
  <2>2. <<g, i>>[1] = g /\ <<g, i>>[2] = i
    OBVIOUS
  <2> QED BY <2>1, <2>2 DEF SenderNames
<1>3. Senders[g] \in Seq(Names)
  <2>1. PICK m \in Nat : m = Len(Senders[g])
    BY <1>1
  <2>2. PICK s : s = Senders[g]
    OBVIOUS
  <2>3. \A i \in 1 .. m : s[i] \in Names
    BY <1>2, <2>1, <2>2 DEF GroupNames, Names
  <2>4. s \in [1 .. m -> STRING]
    BY <1>1, <2>1, <2>2, LenProperties
  <2>5. s \in [1 .. m -> Names]
    BY <2>3, <2>4
  <2>6. \A f \in [1 .. m -> Names] : f \in Seq(Names)
    OBVIOUS
  <2> QED BY <2>2, <2>5, <2>6
<1>4. \A i \in 1 .. Len(Senders[g]) : Senders[g][i] \notin NodeNames
  <2>1. \A x \in NodeNames : \E k \in 1 .. Len(Nodes) : Nodes[k] = x
    <3>1. Len(Nodes) = 13 /\ Nodes[1] = "receiver1" /\ Nodes[2] = "disturbance1" /\ Nodes[3] = "receiver2"
          /\ Nodes[4] = "disturbance2" /\ Nodes[5] = "receiver3" /\ Nodes[6] = "disturbance3"
          /\ Nodes[7] = "A" /\ Nodes[8] = "B" /\ Nodes[9] = "C" /\ Nodes[10] = "D" /\ Nodes[11] = "E"
          /\ Nodes[12] = "F" /\ Nodes[13] = "G"
      BY DEF Nodes
    <3> QED BY <3>1 DEF NodeNames
  <2> QED BY <2>1, NetworkAssumption
<1>5. \A i, j \in 1 .. Len(Senders[g]) : Senders[g][i] = Senders[g][j] => i = j
  BY NetworkAssumption
<1>6. ASSUME NEW h \in Groups \ {g}, NEW i \in 1 .. Len(Senders[g]) PROVE Senders[g][i] \notin GroupNames(h)
  <2>1. \A j \in 1 .. Len(Senders[h]) : Senders[g][i] # Senders[h][j]
    BY NetworkAssumption
  <2> QED BY <2>1 DEF GroupNames
<1> QED BY <1>2, <1>3, <1>4, <1>5, <1>6

\* The two ends of a flow of congestion hang on the same switch.
Near(L, f) == \E j, k \in 1 .. Len(L), s \in Switches : L[j] = <<f[1], s>> /\ L[k] = <<f[2], s>>

\* The links make a tree of the nodes P.
Sound(L, P) ==
  /\ IsTree(L) /\ L \in Seq(Pairs) /\ PlacesOf(L) = P
  /\ \A f \in Congestion : f[1] \in P => Near(L, f)

\* Hanging the senders of a group on a switch.
LEMMA SoundGroup ==
  ASSUME NEW L, NEW P, Sound(L, P), NEW g \in Groups, NEW s \in P \intersect Switches, s \in Names,
         P \intersect GroupNames(g) = {}
  PROVE  Sound(L \o Join(Senders[g], s), P \union GroupNames(g))
<1>1. PICK hosts \in Seq(Names) : hosts = Senders[g]
  BY GroupsApart
<1>2. IsTree(L) /\ L \in Seq(Pairs) /\ PlacesOf(L) = P
  BY DEF Sound
<1>3. s \in Names /\ s \in PlacesOf(L) \intersect Switches
  BY <1>2
<1>4. \A i \in 1 .. Len(hosts) : hosts[i] \notin PlacesOf(L)
  BY <1>1, <1>2 DEF GroupNames
<1>5. \A i, j \in 1 .. Len(hosts) : hosts[i] = hosts[j] => i = j
  BY <1>1, GroupsApart
<1>6. PICK M : M = L \o Join(hosts, s)
  OBVIOUS
<1>7. IsTree(M) /\ M \in Seq(Pairs) /\ Len(L) <= Len(M) /\ \A k \in 1 .. Len(L) : M[k] = L[k]
  BY <1>2, <1>3, <1>4, <1>5, <1>6, HangHosts
<1>8. PlacesOf(M) = P \union GroupNames(g)
  <2>1. PlacesOf(M) = PlacesOf(L) \union {hosts[i] : i \in 1 .. Len(hosts)}
    BY <1>2, <1>3, <1>4, <1>5, <1>6, HangHosts
  <2> QED BY <2>1, <1>1, <1>2 DEF GroupNames
<1>9. ASSUME NEW f \in Congestion, f[1] \in P \union GroupNames(g) PROVE Near(M, f)
  <2>1. f[1] \notin GroupNames(g)
    <3>1. f[1] \in NodeNames
      BY DEF Congestion, NodeNames
    <3> QED BY <3>1, GroupsApart DEF GroupNames
  <2>2. PICK j \in 1 .. Len(L), k \in 1 .. Len(L), t \in Switches : L[j] = <<f[1], t>> /\ L[k] = <<f[2], t>>
    BY <2>1, <1>9 DEF Sound, Near
  <2>3. j \in 1 .. Len(M) /\ k \in 1 .. Len(M) /\ M[j] = L[j] /\ M[k] = L[k]
    <3>1. Len(L) \in Nat /\ Len(M) \in Nat
      BY <1>2, <1>7
    <3> QED BY <3>1, <1>7
  <2> QED BY <2>2, <2>3 DEF Near
<1>10. Sound(M, P \union GroupNames(g))
  BY <1>7, <1>8, <1>9 DEF Sound
<1> QED BY <1>10, <1>6, <1>1

SmallNames == {"receiver1", "disturbance1", "A", "B"}

SmallTrunk == << <<"receiver1", "B">>, <<"disturbance1", "B">>, <<"A", "B">> >>

\* The small network is a tree before senders are added, with its source of
\* congestion next to its receiver.
LEMMA SmallSound == Sound(SmallTrunk, SmallNames)
<1> DEFINE up == [m \in SmallNames \ {"A"} |-> IF m = "B" THEN "A" ELSE "B"]
           depth == [m \in SmallNames |-> IF m = "A" THEN 0 ELSE IF m = "B" THEN 1 ELSE 2]
           ch == <<"receiver1", "disturbance1", "B">>
<1>1. SmallTrunk \in Seq(Pairs) /\ Len(SmallTrunk) = 3
  <2>1. <<"receiver1", "B">> \in Pairs /\ <<"disturbance1", "B">> \in Pairs /\ <<"A", "B">> \in Pairs
    BY DEF Pairs, Names, NodeNames
  <2> QED BY <2>1 DEF SmallTrunk
<1>2. SmallTrunk[1] = <<"receiver1", "B">> /\ SmallTrunk[2] = <<"disturbance1", "B">> /\ SmallTrunk[3] = <<"A", "B">>
  BY DEF SmallTrunk
<1>3. ch[1] = "receiver1" /\ ch[2] = "disturbance1" /\ ch[3] = "B" /\ ch = [k \in 1 .. 3 |-> ch[k]]
  OBVIOUS
<1>4. up["receiver1"] = "B" /\ up["disturbance1"] = "B" /\ up["B"] = "A" /\ up \in [SmallNames \ {"A"} -> {"A", "B"}]
  BY DEF SmallNames
<1>5. /\ depth["receiver1"] = 2 /\ depth["disturbance1"] = 2 /\ depth["B"] = 1 /\ depth["A"] = 0
      /\ depth \in [SmallNames -> Nat]
  BY DEF SmallNames
<1> HIDE DEF up, depth, ch
<1>6. Hangs(SmallTrunk, 1, ch[1], up) /\ Hangs(SmallTrunk, 2, ch[2], up) /\ Hangs(SmallTrunk, 3, ch[3], up)
  BY <1>2, <1>3, <1>4 DEF Hangs
<1>7. \A k \in 1 .. 3 : k = 1 \/ k = 2 \/ k = 3
  OBVIOUS
<1>8. {"A", "B"} = SmallNames \intersect Switches
  BY DEF SmallNames, Switches
<1>9. \A c \in SmallNames \ {"A"} : depth[up[c]] < depth[c]
  BY <1>4, <1>5 DEF SmallNames
<1>10. ch \in [1 .. 3 -> SmallNames \ {"A"}] /\ \A j, k \in 1 .. 3 : ch[j] = ch[k] => j = k
  <2>1. \A k \in 1 .. 3 : ch[k] \in SmallNames \ {"A"}
    BY <1>3, <1>7 DEF SmallNames
  <2>2. \A j, k \in 1 .. 3 : ch[j] = ch[k] => j = k
    BY <1>3, <1>7
  <2> QED BY <2>1, <2>2, <1>3
<1>11. \A c \in SmallNames \ {"A"} : \E k \in 1 .. 3 : ch[k] = c
  BY <1>3 DEF SmallNames
<1>12. "A" \in SmallNames /\ SmallNames # {"A"}
  BY DEF SmallNames
<1>13. \A k \in 1 .. 3 : Hangs(SmallTrunk, k, ch[k], up)
  BY <1>6, <1>7
<1>14. Grown(SmallTrunk, SmallNames, up, depth, ch)
  BY <1>1, <1>4, <1>5, <1>8, <1>9, <1>10, <1>11, <1>12, <1>13 DEF Grown
<1>15. IsTree(SmallTrunk) /\ PlacesOf(SmallTrunk) = SmallNames
  BY <1>14, TreeFrom
<1>16. ASSUME NEW f \in Congestion, f[1] \in SmallNames PROVE Near(SmallTrunk, f)
  <2>1. f = <<"disturbance1", "receiver1">>
    BY <1>16 DEF Congestion, SmallNames
  <2>2. 1 \in 1 .. Len(SmallTrunk) /\ 2 \in 1 .. Len(SmallTrunk) /\ "B" \in Switches
    BY <1>1 DEF Switches
  <2> QED BY <1>2, <2>1, <2>2 DEF Near
<1> QED BY <1>1, <1>15, <1>16 DEF Sound

\* So are the larger ones.
LEMMA TrunkSound ==
  ASSUME NEW e \in {"C", "D"}
  PROVE  Sound(Trunk(e), NodeNames)
<1>1. IsTree(Trunk(e)) /\ Trunk(e) \in Seq(Pairs) /\ Len(Trunk(e)) = 12 /\ PlacesOf(Trunk(e)) = NodeNames
  BY TrunkTree, TrunkPairs
<1>2. /\ Trunk(e)[1] = <<"receiver1", "B">> /\ Trunk(e)[2] = <<"disturbance1", "B">>
      /\ Trunk(e)[6] = <<"receiver2", "D">> /\ Trunk(e)[7] = <<"disturbance2", "D">>
      /\ Trunk(e)[11] = <<"receiver3", "G">> /\ Trunk(e)[12] = <<"disturbance3", "G">>
  BY DEF Trunk
<1>3. ASSUME NEW f \in Congestion PROVE Near(Trunk(e), f)
  <2>1. f = <<"disturbance1", "receiver1">> \/ f = <<"disturbance2", "receiver2">> \/ f = <<"disturbance3", "receiver3">>
    BY DEF Congestion
  <2>2. /\ 1 \in 1 .. Len(Trunk(e)) /\ 2 \in 1 .. Len(Trunk(e)) /\ 6 \in 1 .. Len(Trunk(e))
        /\ 7 \in 1 .. Len(Trunk(e)) /\ 11 \in 1 .. Len(Trunk(e)) /\ 12 \in 1 .. Len(Trunk(e))
        /\ "B" \in Switches /\ "D" \in Switches /\ "G" \in Switches
    BY <1>1 DEF Switches
  <2>3. CASE f = <<"disturbance1", "receiver1">>
    BY <1>2, <2>2, <2>3 DEF Near
  <2>4. CASE f = <<"disturbance2", "receiver2">>
    BY <1>2, <2>2, <2>4 DEF Near
  <2>5. CASE f = <<"disturbance3", "receiver3">>
    BY <1>2, <2>2, <2>5 DEF Near
  <2> QED BY <2>1, <2>3, <2>4, <2>5
<1> QED BY <1>1, <1>3 DEF Sound

\* Every network of the programs is a tree, and has the devices whose queues
\* are configured.
LEMMA NetworkSound ==
  ASSUME NEW n \in Networks
  PROVE  /\ \E P : Sound(Links[n], P) /\ P \subseteq Names
                   /\ \A q \in QueueSet(n) : q[1] \in P \intersect Switches /\ q[2] = 0
<1>1. /\ "first" \in Groups /\ "second" \in Groups /\ "third" \in Groups
      /\ Senders.first = Senders["first"] /\ Senders.second = Senders["second"]
      /\ Senders.third = Senders["third"]
  BY DEF Groups
<1>2. /\ "A" \in Names /\ "C" \in Names /\ "E" \in Names
      /\ "A" \in SmallNames \intersect Switches /\ "A" \in NodeNames \intersect Switches
      /\ "C" \in NodeNames \intersect Switches /\ "E" \in NodeNames \intersect Switches
      /\ "B" \in NodeNames \intersect Switches /\ "D" \in NodeNames \intersect Switches
      /\ "G" \in NodeNames \intersect Switches /\ SmallNames \subseteq NodeNames
  BY DEF Names, SmallNames, NodeNames, Switches
<1>3. \A g \in Groups : NodeNames \intersect GroupNames(g) = {} /\ GroupNames(g) \subseteq Names
  BY GroupsApart DEF GroupNames, Names
<1>4. \A g \in Groups, h \in Groups : g # h => GroupNames(g) \intersect GroupNames(h) = {}
  BY GroupsApart DEF GroupNames
<1>5. NodeNames \subseteq Names
  BY DEF Names
<1>6. n.program \in {"trafficgen_small", "trafficgen", "trafficgen_large_tests"} /\ n.topo \in {1, 2}
  BY NetworkAssumption
<1>7. CASE n.program = "trafficgen_small"
  <2>1. Links[n] = SmallTrunk \o Join(Senders["first"], "A")
    BY <1>1, <1>7 DEF Links, SmallLinks, SmallTrunk
  <2>2. Sound(SmallTrunk \o Join(Senders["first"], "A"), SmallNames \union GroupNames("first"))
    BY <1>1, <1>2, <1>3, SmallSound, SoundGroup
  <2>3. QueueSet(n) = {<<"A", 0>>}
    BY <1>7 DEF QueueSet, SmallQueues, SmallNodes
  <2>4. \A q \in QueueSet(n) : q[1] \in (SmallNames \union GroupNames("first")) \intersect Switches /\ q[2] = 0
    BY <1>2, <2>3
  <2>5. SmallNames \union GroupNames("first") \subseteq Names
    BY <1>1, <1>2, <1>3, <1>5
  <2> QED BY <2>1, <2>2, <2>4, <2>5
<1>8. PICK e \in {"C", "D"} : Backbone(n.topo) = Trunk(e)
  BY <1>6, BackboneTrunk
<1>9. Sound(Trunk(e) \o Join(Senders["first"], "A"), NodeNames \union GroupNames("first"))
  BY <1>1, <1>2, <1>3, TrunkSound, SoundGroup
<1>10. CASE n.program = "trafficgen"
  <2>1. Links[n] = Trunk(e) \o Join(Senders["first"], "A")
    BY <1>1, <1>8, <1>10 DEF Links
  <2>2. QueueSet(n) = {<<"A", 0>>, <<"B", 0>>, <<"D", 0>>, <<"G", 0>>}
    BY <1>10 DEF QueueSet, Queues, Nodes
  <2>3. \A q \in QueueSet(n) : q[1] \in (NodeNames \union GroupNames("first")) \intersect Switches /\ q[2] = 0
    BY <1>2, <2>2
  <2>4. NodeNames \union GroupNames("first") \subseteq Names
    BY <1>1, <1>3, <1>5
  <2> QED BY <2>1, <2>3, <2>4, <1>9
<1>11. CASE n.program = "trafficgen_large_tests"
  <2>1. PICK L, P : L = Trunk(e) \o Join(Senders["first"], "A") /\ P = NodeNames \union GroupNames("first")
    OBVIOUS
  <2>2. Sound(L, P) /\ P \intersect GroupNames("second") = {} /\ "C" \in P \intersect Switches
    BY <2>1, <1>1, <1>2, <1>3, <1>4, <1>9
  <2>3. PICK M, Q : M = L \o Join(Senders["second"], "C") /\ Q = P \union GroupNames("second")
    OBVIOUS
  <2>4. Sound(M, Q)
    BY <2>2, <2>3, <1>1, <1>2, SoundGroup
  <2>5. Q \intersect GroupNames("third") = {} /\ "E" \in Q \intersect Switches
    BY <2>1, <2>3, <1>1, <1>2, <1>3, <1>4
  <2>6. Sound(M \o Join(Senders["third"], "E"), Q \union GroupNames("third"))
    BY <2>4, <2>5, <1>1, <1>2, SoundGroup
  <2>7. Links[n] = M \o Join(Senders["third"], "E")
    BY <2>1, <2>3, <1>1, <1>8, <1>11 DEF Links, LargeLinks
  <2>8. QueueSet(n) = {<<"A", 0>>, <<"C", 0>>, <<"E", 0>>, <<"G", 0>>}
    BY <1>11 DEF QueueSet, LargeQueues, Nodes
  <2>9. \A q \in QueueSet(n) : q[1] \in (Q \union GroupNames("third")) \intersect Switches /\ q[2] = 0
    BY <1>2, <2>1, <2>3, <2>8
  <2>10. Q \union GroupNames("third") \subseteq Names
    BY <2>1, <2>3, <1>1, <1>3, <1>5
  <2> QED BY <2>6, <2>7, <2>9, <2>10
<1> QED BY <1>6, <1>7, <1>10, <1>11

-----------------------------------------------------------------------------
(* What is on the far side of a link.                                      *)

Places(n) == DOMAIN Ports[n]

\* What is needed of the networks, put in the terms of the model.
LEMMA NetworkTree ==
  ASSUME NEW n \in Networks
  PROVE  /\ IsTree(Links[n]) /\ PlacesOf(Links[n]) = Places(n) /\ Len(Links[n]) \in Nat
         /\ \A m \in Places(n) : Ports[n][m] = {k \in 1 .. Len(Links[n]) : m \in Ends(n, k)}
         /\ Everyone \notin Places(n)
         /\ \A q \in QueueSet(n) : q[1] \in Places(n) \intersect Switches /\ q[2] = 0
         /\ \A f \in Congestion : f[1] \in Places(n) => Near(Links[n], f)
<1>1. PICK P : Sound(Links[n], P) /\ P \subseteq Names
               /\ \A q \in QueueSet(n) : q[1] \in P \intersect Switches /\ q[2] = 0
  BY NetworkSound
<1>2. IsTree(Links[n]) /\ PlacesOf(Links[n]) = P
  BY <1>1 DEF Sound
<1>3. UNION {Ends(n, k) : k \in 1 .. Len(Links[n])} = PlacesOf(Links[n])
  BY DEF Ends, PlacesOf
<1>4. Ports[n] = [node \in UNION {Ends(n, k) : k \in 1 .. Len(Links[n])} |->
                    {k \in 1 .. Len(Links[n]) : node \in Ends(n, k)}]
  BY DEF Ports
<1>5. Places(n) = P
  BY <1>2, <1>3, <1>4 DEF Places
<1>6. Everyone \notin Names
  <2>1. Everyone \notin SenderNames
    <3> SUFFICES ASSUME NEW y \in Groups \X Nat, y[2] \in 1 .. Len(Senders[y[1]]) PROVE Senders[y[1]][y[2]] # Everyone
      BY DEF SenderNames
    <3> QED BY NetworkAssumption
  <2> QED BY <2>1 DEF Names, NodeNames, Everyone
<1>7. \A m \in Places(n) : Ports[n][m] = {k \in 1 .. Len(Links[n]) : m \in Ends(n, k)}
  BY <1>2, <1>3, <1>4, <1>5
<1>8. Len(Links[n]) \in Nat
  BY <1>2 DEF IsTree
<1> QED BY <1>1, <1>2, <1>5, <1>6, <1>7, <1>8 DEF Sound

\* The node at the other end of a link.
LEMMA PeerEnds ==
  ASSUME NEW n \in Networks, NEW m \in Places(n), NEW k \in Ports[n][m]
  PROVE  /\ k \in 1 .. Len(Links[n]) /\ Ends(n, k) = {m, Peer(n, m, k)}
         /\ Peer(n, m, k) \in Places(n) /\ Peer(n, m, k) # m
         /\ k \in Ports[n][Peer(n, m, k)] /\ Peer(n, Peer(n, m, k), k) = m
<1>1. k \in 1 .. Len(Links[n]) /\ m \in Ends(n, k)
  BY NetworkTree
<1>2. Links[n][k][1] # Links[n][k][2]
  BY <1>1, NetworkTree, TwoEnds
<1>3. PICK p : p # m /\ Ends(n, k) = {m, p}
  BY <1>1, <1>2 DEF Ends
<1>4. Peer(n, m, k) = p
  <2>1. \E q \in Ends(n, k) : q # m
    BY <1>3
  <2> QED BY <2>1, <1>3 DEF Peer
<1>5. p \in Places(n)
  <2>1. p \in PlacesOf(Links[n])
    BY <1>1, <1>3 DEF PlacesOf, Ends
  <2> QED BY <2>1, NetworkTree
<1>6. k \in Ports[n][p]
  BY <1>1, <1>3, <1>5, NetworkTree
<1>7. Peer(n, p, k) = m
  <2>1. \E q \in Ends(n, k) : q # p
    BY <1>3
  <2> QED BY <2>1, <1>3 DEF Peer
<1> QED BY <1>1, <1>3, <1>4, <1>5, <1>6, <1>7

\* One side of a link.
CutOf(n, k) == CHOOSE X \in SUBSET Places(n) : Cut(Links[n], k, X)

\* The side of a link that a node is not on.
Beyond(n, m, k) == IF m \in CutOf(n, k) THEN Places(n) \ CutOf(n, k) ELSE CutOf(n, k)

\* Both ends of every link but k are on the same side of it.
SameSide(n, m, k) ==
  \A j \in 1 .. Len(Links[n]) \ {k} : \A x, y \in Ends(n, j) : x \in Beyond(n, m, k) <=> y \in Beyond(n, m, k)

\* The two sides of a link.
LEMMA BeyondSides ==
  ASSUME NEW n \in Networks, NEW m \in Places(n), NEW k \in Ports[n][m]
  PROVE  /\ Beyond(n, m, k) \subseteq Places(n) /\ m \notin Beyond(n, m, k)
         /\ Peer(n, m, k) \in Beyond(n, m, k)
         /\ Beyond(n, Peer(n, m, k), k) = Places(n) \ Beyond(n, m, k)
         /\ SameSide(n, m, k)
<1>1. k \in 1 .. Len(Links[n]) /\ Ends(n, k) = {m, Peer(n, m, k)} /\ Peer(n, m, k) \in Places(n)
      /\ Peer(n, m, k) # m
  BY PeerEnds
<1>2. \E X \in SUBSET Places(n) : Cut(Links[n], k, X)
  BY <1>1, Cuts, NetworkTree
<1>3. PICK X \in SUBSET Places(n) : X = CutOf(n, k) /\ Cut(Links[n], k, X)
  BY <1>2 DEF CutOf
<1>4. m \in X <=> Peer(n, m, k) \notin X
  <2>1. Links[n][k][1] \in X <=> Links[n][k][2] \notin X
    BY <1>3 DEF Cut
  <2> QED BY <2>1, <1>1 DEF Ends
<1>5. Beyond(n, m, k) = IF m \in X THEN Places(n) \ X ELSE X
  BY <1>3 DEF Beyond
<1>6. Beyond(n, Peer(n, m, k), k) = IF Peer(n, m, k) \in X THEN Places(n) \ X ELSE X
  BY <1>3 DEF Beyond
<1>7. SameSide(n, m, k)
  <2> SUFFICES ASSUME NEW j \in 1 .. Len(Links[n]) \ {k}, NEW x \in Ends(n, j), NEW y \in Ends(n, j)
               PROVE  x \in Beyond(n, m, k) <=> y \in Beyond(n, m, k)
    BY DEF SameSide
  <2>1. x \in X <=> y \in X
    BY <1>3 DEF Cut, Ends
  <2>2. x \in Places(n) /\ y \in Places(n)
    <3>1. x \in PlacesOf(Links[n]) /\ y \in PlacesOf(Links[n])
      BY DEF PlacesOf, Ends
    <3> QED BY <3>1, NetworkTree
  <2> QED BY <2>1, <2>2, <1>5
<1> QED BY <1>1, <1>4, <1>5, <1>6, <1>7

\* A set of places that no link leads out of has all or none.
LEMMA NoWayOut ==
  ASSUME NEW n \in Networks, NEW X \in SUBSET Places(n), NEW m \in Places(n), m \notin X,
         \A j \in 1 .. Len(Links[n]) : \A x, y \in Ends(n, j) : x \in X <=> y \in X
  PROVE  X = {}
<1> SUFFICES ASSUME NEW x \in X PROVE FALSE
  OBVIOUS
<1>1. Closed(Links[n], X)
  BY DEF Closed, Ends
<1>2. IsTree(Links[n]) /\ X \in SUBSET PlacesOf(Links[n])
  BY NetworkTree
<1>3. X = PlacesOf(Links[n])
  BY <1>1, <1>2, Connected
<1> QED BY <1>3, NetworkTree

\* What is on the far side of one link is not on the far side of another.
LEMMA SidesApart ==
  ASSUME NEW n \in Networks, NEW m \in Places(n), NEW k \in Ports[n][m], NEW l \in Ports[n][m], k # l
  PROVE  Beyond(n, m, k) \intersect Beyond(n, m, l) = {}
<1> DEFINE X == Beyond(n, m, k) \intersect Beyond(n, m, l)
<1>1. /\ X \in SUBSET Places(n) /\ m \notin Beyond(n, m, k) /\ m \notin Beyond(n, m, l)
      /\ SameSide(n, m, k) /\ SameSide(n, m, l)
  BY BeyondSides
<1>2. ASSUME NEW j \in 1 .. Len(Links[n]), NEW x \in Ends(n, j), NEW y \in Ends(n, j)
      PROVE  x \in X <=> y \in X
  <2>1. CASE j = k
    <3>1. Ends(n, k) = {m, Peer(n, m, k)}
      BY PeerEnds
    <3>2. Peer(n, m, k) \notin Beyond(n, m, l)
      BY <3>1, <2>1, <1>1 DEF SameSide
    <3> QED BY <2>1, <3>1, <3>2, <1>1
  <2>2. CASE j = l
    <3>1. Ends(n, l) = {m, Peer(n, m, l)}
      BY PeerEnds
    <3>2. Peer(n, m, l) \notin Beyond(n, m, k)
      BY <3>1, <2>2, <1>1 DEF SameSide
    <3> QED BY <2>2, <3>1, <3>2, <1>1
  <2>3. CASE j # k /\ j # l
    BY <2>3, <1>1 DEF SameSide
  <2> QED BY <2>1, <2>2, <2>3
<1> HIDE DEF X
<1>3. m \notin X
  BY <1>1 DEF X
<1>4. X = {}
  BY <1>1, <1>2, <1>3, NoWayOut
<1> QED BY <1>4 DEF X

\* Every other node is on the far side of some link.
LEMMA SidesAround ==
  ASSUME NEW n \in Networks, NEW m \in Places(n), NEW x \in Places(n), x # m
  PROVE  \E k \in Ports[n][m] : x \in Beyond(n, m, k)
<1> DEFINE X == {y \in Places(n) \ {m} : \A k \in Ports[n][m] : y \notin Beyond(n, m, k)}
<1>1. ASSUME NEW j \in 1 .. Len(Links[n]), NEW a \in Ends(n, j), NEW b \in Ends(n, j)
      PROVE  a \in X <=> b \in X
  <2>1. a \in Places(n) /\ b \in Places(n)
    <3>1. a \in PlacesOf(Links[n]) /\ b \in PlacesOf(Links[n])
      BY DEF PlacesOf, Ends
    <3> QED BY <3>1, NetworkTree
  <2>2. CASE j \in Ports[n][m]
    <3>1. Ends(n, j) = {m, Peer(n, m, j)} /\ Peer(n, m, j) \in Beyond(n, m, j)
      BY <2>2, PeerEnds, BeyondSides
    <3> QED BY <2>2, <3>1
  <2>3. CASE j \notin Ports[n][m]
    <3>1. m \notin Ends(n, j)
      BY <2>3, NetworkTree
    <3>2. \A k \in Ports[n][m] : a \in Beyond(n, m, k) <=> b \in Beyond(n, m, k)
      BY <2>3, BeyondSides DEF SameSide
    <3> QED BY <3>1, <3>2, <2>1
  <2> QED BY <2>2, <2>3
<1>2. X \in SUBSET Places(n) /\ m \notin X
  OBVIOUS
<1> HIDE DEF X
<1>3. X = {}
  BY <1>1, <1>2, NoWayOut
<1> QED BY <1>3 DEF X

\* A host has one link, and behind it there is no other node.
LEMMA HostPort ==
  ASSUME NEW n \in Networks, NEW h \in Places(n) \ Switches
  PROVE  \E k \in 1 .. Len(Links[n]) :
           /\ Ports[n][h] = {k} /\ Peer(n, h, k) \in Places(n) \intersect Switches
           /\ Beyond(n, Peer(n, h, k), k) = {h}
<1>1. PICK k \in 1 .. Len(Links[n]) :
        /\ \A j \in 1 .. Len(Links[n]) : h \in {Links[n][j][1], Links[n][j][2]} <=> j = k
        /\ \E s \in PlacesOf(Links[n]) \intersect Switches : {Links[n][k][1], Links[n][k][2]} = {h, s}
  <2>1. PICK L : L = Links[n] /\ IsTree(L) /\ PlacesOf(L) = Places(n)
    BY NetworkTree
  <2>2. \E k \in 1 .. Len(L) :
          /\ \A j \in 1 .. Len(L) : h \in {L[j][1], L[j][2]} <=> j = k
          /\ \E s \in PlacesOf(L) \intersect Switches : {L[k][1], L[k][2]} = {h, s}
    <3>1. OneLink(L, h)
      BY <2>1, HostLink
    <3> QED BY <3>1 DEF OneLink
  <2> QED BY <2>1, <2>2
<1>2. Ports[n][h] = {k}
  <2>1. Ports[n][h] = {j \in 1 .. Len(Links[n]) : h \in {Links[n][j][1], Links[n][j][2]}}
    BY NetworkTree DEF Ends
  <2> QED BY <2>1, <1>1
<1>3. Peer(n, h, k) \in Switches /\ Peer(n, h, k) \in Places(n)
  <2>1. Ends(n, k) = {h, Peer(n, h, k)} /\ Peer(n, h, k) # h /\ Peer(n, h, k) \in Places(n)
    BY <1>2, PeerEnds
  <2>2. PICK s \in Switches : Ends(n, k) = {h, s}
    BY <1>1 DEF Ends
  <2>3. Peer(n, h, k) = s
    BY <2>1, <2>2
  <2> QED BY <2>1, <2>3
<1>4. Beyond(n, h, k) = Places(n) \ {h}
  <2>1. \A x \in Places(n) : x # h => x \in Beyond(n, h, k)
    BY <1>2, SidesAround
  <2>2. Beyond(n, h, k) \subseteq Places(n) /\ h \notin Beyond(n, h, k)
    BY <1>2, BeyondSides
  <2> QED BY <2>1, <2>2
<1>5. Beyond(n, Peer(n, h, k), k) = {h}
  <2>1. Beyond(n, Peer(n, h, k), k) = Places(n) \ Beyond(n, h, k)
    BY <1>2, BeyondSides
  <2> QED BY <2>1, <1>4
<1> QED BY <1>2, <1>3, <1>5

\* A source of congestion and its receiver are next to the same switch.
LEMMA CongestionNear ==
  ASSUME NEW n \in Networks, NEW f \in Congestion,
         f[1] \in Places(n) \ Switches, f[2] \in Places(n) \ Switches, f[1] # f[2]
  PROVE  \E j, k \in 1 .. Len(Links[n]), s \in Places(n) \intersect Switches :
           /\ Ports[n][f[1]] = {j} /\ Ports[n][f[2]] = {k} /\ j # k
           /\ Peer(n, f[1], j) = s /\ Peer(n, f[2], k) = s
<1>1. PICK j \in 1 .. Len(Links[n]) : Ports[n][f[1]] = {j}
  BY HostPort
<1>2. PICK k \in 1 .. Len(Links[n]) : Ports[n][f[2]] = {k}
  BY HostPort
<1>3. PICK i \in 1 .. Len(Links[n]), l \in 1 .. Len(Links[n]), s \in Switches :
        Links[n][i] = <<f[1], s>> /\ Links[n][l] = <<f[2], s>>
  BY NetworkTree DEF Near
<1>4. Ends(n, i) = {f[1], s} /\ Ends(n, l) = {f[2], s}
  BY <1>3 DEF Ends
<1>5. i \in Ports[n][f[1]] /\ l \in Ports[n][f[2]]
  BY <1>4, NetworkTree
<1>6. i = j /\ l = k
  BY <1>1, <1>2, <1>5
<1>7. Ends(n, j) = {f[1], Peer(n, f[1], j)} /\ Peer(n, f[1], j) # f[1] /\ Peer(n, f[1], j) \in Places(n)
  BY <1>1, PeerEnds
<1>8. Ends(n, k) = {f[2], Peer(n, f[2], k)} /\ Peer(n, f[2], k) # f[2]
  BY <1>2, PeerEnds
<1>9. Peer(n, f[1], j) = s /\ Peer(n, f[2], k) = s
  BY <1>4, <1>6, <1>7, <1>8
<1>10. j # k
  BY <1>4, <1>6
<1> QED BY <1>1, <1>2, <1>7, <1>9, <1>10

\* f gives what is reached by i links, not through switch s.
Reaches(f, n, s, k) ==
  /\ f \in [0 .. Len(Links[n]) -> SUBSET Places(n)]
  /\ f[0] = {Peer(n, s, k)}
  /\ \A i \in 1 .. Len(Links[n]) : f[i] = f[i - 1] \union (Adjacent(n, f[i - 1]) \ {s})

\* What is adjacent to a set of nodes.
LEMMA AdjacentPlaces ==
  ASSUME NEW n \in Networks, NEW X \in SUBSET Places(n)
  PROVE  /\ Adjacent(n, X) \subseteq Places(n)
         /\ \A y : y \in Adjacent(n, X) <=>
              \E j \in 1 .. Len(Links[n]) : \E x \in X : x \in Ends(n, j) /\ y \in Ends(n, j)
<1>1. \A j : j \in UNION {Ports[n][m] : m \in X} <=> j \in 1 .. Len(Links[n]) /\ \E x \in X : x \in Ends(n, j)
  <2>1. \A m \in X : Ports[n][m] = {k \in 1 .. Len(Links[n]) : m \in Ends(n, k)}
    BY NetworkTree
  <2> QED BY <2>1
<1>2. \A y : y \in Adjacent(n, X) <=>
              \E j \in 1 .. Len(Links[n]) : \E x \in X : x \in Ends(n, j) /\ y \in Ends(n, j)
  BY <1>1 DEF Adjacent
<1>3. \A j \in 1 .. Len(Links[n]) : Ends(n, j) \subseteq PlacesOf(Links[n])
  BY DEF Ends, PlacesOf
<1>4. PlacesOf(Links[n]) = Places(n)
  BY NetworkTree
<1> QED BY <1>2, <1>3, <1>4

\* What the model computes as Side.
LEMMA SideRecursion ==
  ASSUME NEW n \in Networks, NEW s \in Places(n) \intersect Switches, NEW k \in Ports[n][s]
  PROVE  \E f : Reaches(f, n, s, k) /\ Side[n][s][k] = f[Len(Links[n])]
<1> DEFINE N == Len(Links[n])
           Further(X) == X \union (Adjacent(n, X) \ {s})
           IsReach(f) == f = [i \in 0 .. N |-> IF i = 0 THEN {Peer(n, s, k)}
                                ELSE LET near == f[i - 1] IN near \union (Adjacent(n, near) \ {s})]
           F == CHOOSE f : IsReach(f)
           V == SUBSET Places(n)
           G == [x \in (1 .. N) \X V |-> Further(x[2])]
<1>1. N \in Nat
  BY NetworkTree
<1>2. Side[n][s][k] = F[N]
  <2>1. s \in Switches \intersect DOMAIN Ports[n]
    BY DEF Places
  <2> QED BY <2>1 DEF Side
<1>3. \E f : IsReach(f)
  <2>1. G \in [(1 .. N) \X V -> V]
    <3>1. \A X \in V : Further(X) \in V
      BY AdjacentPlaces
    <3> HIDE DEF Further, V
    <3> QED BY <3>1
  <2>2. {Peer(n, s, k)} \in V
    BY PeerEnds
  <2>3. \A i \in 1 .. N, v \in V : G[<<i, v>>] = Further(v)
    <3> HIDE DEF Further, V
    <3> QED OBVIOUS
  <2> DEFINE v0 == {Peer(n, s, k)}
  <2>4. v0 \in V
    BY <2>2
  <2> HIDE DEF G, V, N, v0
  <2>5. PICK f : ByRecursion(f, V, v0, N, G)
    BY <1>1, <2>1, <2>4, RecursionExists
  <2>6. f \in [0 .. N -> V] /\ f[0] = v0 /\ \A i \in 1 .. N : f[i] = G[<<i, f[i - 1]>>]
    BY <2>5 DEF ByRecursion
  <2>7. ASSUME NEW i \in 1 .. N PROVE f[i] = Further(f[i - 1])
    <3>1. i - 1 \in 0 .. N
      BY <1>1
    <3>2. f[i - 1] \in V
      BY <3>1, <2>6
    <3> HIDE DEF Further
    <3> QED BY <3>2, <2>3, <2>6
  <2>8. \A i \in 0 .. N : i = 0 \/ i \in 1 .. N
    BY <1>1
  <2>9. f = [i \in 0 .. N |-> f[i]]
    BY <2>6
  <2>10. IsReach(f)
    BY <2>6, <2>7, <2>8, <2>9 DEF v0
  <2> QED BY <2>10
<1>4. IsReach(F)
  BY <1>3
<1> HIDE DEF F
<1>5. F[0] = {Peer(n, s, k)}
  BY <1>4, <1>1
<1>6. ASSUME NEW i \in 1 .. N PROVE F[i] = F[i - 1] \union (Adjacent(n, F[i - 1]) \ {s})
  <2>1. i \in 0 .. N /\ i # 0
    BY <1>1
  <2> QED BY <2>1, <1>4
<1>7. \A i \in 0 .. N : F[i] \in SUBSET Places(n)
  <2> DEFINE P == {i \in Nat : i \in 0 .. N => F[i] \in SUBSET Places(n)}
  <2>1. 0 \in P
    BY <1>5, PeerEnds
  <2>2. ASSUME NEW i \in Nat, i \in P PROVE i + 1 \in P
    <3> SUFFICES ASSUME i + 1 \in 1 .. N PROVE F[i + 1] \in SUBSET Places(n)
      BY <1>1
    <3>1. i \in 0 .. N /\ (i + 1) - 1 = i
      BY <1>1
    <3>2. F[i] \in SUBSET Places(n)
      BY <3>1, <2>2
    <3>3. F[i + 1] = F[i] \union (Adjacent(n, F[i]) \ {s})
      BY <3>1, <1>6
    <3>4. Adjacent(n, F[i]) \subseteq Places(n)
      BY <3>2, AdjacentPlaces
    <3> QED BY <3>2, <3>3, <3>4
  <2>3. \A i \in Nat : i \in P
    <3> HIDE DEF P
    <3> QED BY <2>1, <2>2, NumberInduction
  <2> QED BY <2>3, <1>1
<1>8. F \in [0 .. N -> SUBSET Places(n)]
  <2>1. F = [i \in 0 .. N |-> F[i]]
    BY <1>4
  <2> QED BY <2>1, <1>7
<1>9. Reaches(F, n, s, k)
  BY <1>5, <1>6, <1>8 DEF Reaches
<1> QED BY <1>2, <1>9

\* A growing sequence of subsets stops growing when there are no more elements.
LEMMA Stable ==
  ASSUME NEW N \in Nat, NEW S, IsFiniteSet(S), Cardinality(S) <= N,
         NEW f \in [0 .. N -> SUBSET S], f[0] # {},
         \A i \in 1 .. N : f[i - 1] \subseteq f[i]
  PROVE  \E i \in 1 .. N : f[i] = f[i - 1]
<1> SUFFICES ASSUME \A i \in 1 .. N : f[i] # f[i - 1] PROVE FALSE
  OBVIOUS
<1>1. ASSUME NEW i \in 0 .. N PROVE IsFiniteSet(f[i]) /\ Cardinality(f[i]) \in Nat
  <2>1. f[i] \in SUBSET S
    OBVIOUS
  <2> QED BY <2>1, FS_Subset, FS_CardinalityType
<1> DEFINE P == {i \in Nat : i \in 0 .. N => Cardinality(f[i]) >= i + 1}
<1>2. 0 \in P
  <2>1. 0 \in 0 .. N
    OBVIOUS
  <2>2. IsFiniteSet(f[0]) /\ Cardinality(f[0]) \in Nat
    BY <2>1, <1>1
  <2>3. Cardinality(f[0]) # 0
    BY <2>2, FS_EmptySet
  <2> QED BY <2>2, <2>3
<1>3. ASSUME NEW i \in Nat, i \in P PROVE i + 1 \in P
  <2> SUFFICES ASSUME i + 1 \in 0 .. N PROVE Cardinality(f[i + 1]) >= (i + 1) + 1
    OBVIOUS
  <2>1. i \in 0 .. N /\ i + 1 \in 1 .. N /\ (i + 1) - 1 = i
    OBVIOUS
  <2>2. PICK X, Y : X = f[i] /\ Y = f[i + 1]
    OBVIOUS
  <2>3. X \in SUBSET Y /\ X # Y
    BY <2>1, <2>2
  <2>4. IsFiniteSet(Y) /\ Cardinality(X) \in Nat /\ Cardinality(Y) \in Nat
    BY <2>1, <2>2, <1>1
  <2>5. Cardinality(X) <= Cardinality(Y) /\ Cardinality(X) # Cardinality(Y)
    BY <2>3, <2>4, FS_Subset
  <2>6. Cardinality(X) >= i + 1
    BY <2>1, <2>2, <1>3
  <2>7. Cardinality(Y) >= (i + 1) + 1
    BY <2>4, <2>5, <2>6
  <2> QED BY <2>2, <2>7
<1>4. N \in P
  <2> HIDE DEF P
  <2> QED BY <1>2, <1>3, NumberInduction
<1>5. N \in 0 .. N
  OBVIOUS
<1>6. Cardinality(f[N]) <= Cardinality(S) /\ Cardinality(S) \in Nat /\ Cardinality(f[N]) \in Nat
  <2>1. f[N] \in SUBSET S
    BY <1>5
  <2> QED BY <2>1, <1>5, <1>1, FS_Subset, FS_CardinalityType
<1> QED BY <1>4, <1>5, <1>6

\* What has stopped growing stays as it is.
LEMMA Settled ==
  ASSUME NEW n \in Networks, NEW s, NEW k, NEW f, Reaches(f, n, s, k),
         NEW i \in 1 .. Len(Links[n]), f[i] = f[i - 1]
  PROVE  Adjacent(n, f[Len(Links[n])]) \ {s} \subseteq f[Len(Links[n])]
<1> DEFINE N == Len(Links[n])
           P == {j \in Nat : i + j \in 0 .. N => f[i + j] = f[i - 1]}
<1>1. N \in Nat
  BY NetworkTree
<1>2. \A j \in 1 .. N : f[j] = f[j - 1] \union (Adjacent(n, f[j - 1]) \ {s})
  BY DEF Reaches
<1> HIDE DEF N
<1>3. 0 \in P
  OBVIOUS
<1>4. ASSUME NEW j \in Nat, j \in P PROVE j + 1 \in P
  <2> SUFFICES ASSUME i + (j + 1) \in 0 .. N PROVE f[i + (j + 1)] = f[i - 1]
    OBVIOUS
  <2>1. i + (j + 1) \in 1 .. N /\ (i + (j + 1)) - 1 = i + j /\ i + j \in 0 .. N /\ i \in 1 .. N
    BY <1>1 DEF N
  <2>2. f[i + (j + 1)] = f[i + j] \union (Adjacent(n, f[i + j]) \ {s})
    BY <2>1, <1>2
  <2>3. f[i] = f[i - 1] \union (Adjacent(n, f[i - 1]) \ {s})
    BY <2>1, <1>2
  <2>4. f[i + j] = f[i - 1]
    BY <2>1, <1>4
  <2> QED BY <2>2, <2>3, <2>4
<1>5. \A j \in Nat : j \in P
  <2> HIDE DEF P
  <2> QED BY <1>3, <1>4, NumberInduction
<1>6. N - i \in Nat /\ i + (N - i) = N /\ N \in 0 .. N
  BY <1>1 DEF N
<1>7. f[N] = f[i - 1]
  BY <1>5, <1>6
<1>8. f[i] = f[i - 1] \union (Adjacent(n, f[i - 1]) \ {s})
  BY <1>2 DEF N
<1> QED BY <1>7, <1>8 DEF N

\* The far side of a link is its side.
LEMMA SideIsBeyond ==
  ASSUME NEW n \in Networks, NEW s \in Places(n) \intersect Switches, NEW k \in Ports[n][s]
  PROVE  Side[n][s][k] = Beyond(n, s, k)
<1> DEFINE N == Len(Links[n])
           B == Beyond(n, s, k)
<1>1. PICK f : Reaches(f, n, s, k) /\ Side[n][s][k] = f[Len(Links[n])]
  BY SideRecursion
<1>2. /\ B \subseteq Places(n) /\ s \notin B /\ Peer(n, s, k) \in B /\ SameSide(n, s, k)
      /\ Ends(n, k) = {s, Peer(n, s, k)}
  BY BeyondSides, PeerEnds
<1>3. N \in Nat
  BY NetworkTree
<1>4. /\ f \in [0 .. N -> SUBSET Places(n)] /\ f[0] = {Peer(n, s, k)}
      /\ \A i \in 1 .. N : f[i] = f[i - 1] \union (Adjacent(n, f[i - 1]) \ {s})
  BY <1>1 DEF Reaches
<1>5. ASSUME NEW X \in SUBSET Places(n), X \subseteq B PROVE Adjacent(n, X) \ {s} \subseteq B
  <2> SUFFICES ASSUME NEW y \in Adjacent(n, X), y # s PROVE y \in B
    OBVIOUS
  <2>1. PICK j \in 1 .. N, x \in X : x \in Ends(n, j) /\ y \in Ends(n, j)
    BY AdjacentPlaces
  <2>2. CASE j = k
    BY <2>1, <2>2, <1>2
  <2>3. CASE j # k
    BY <2>1, <2>3, <1>2, <1>5 DEF SameSide
  <2> QED BY <2>2, <2>3
<1> HIDE DEF N, B
<1>6. \A i \in 0 .. N : f[i] \subseteq B
  <2> DEFINE P == {i \in Nat : i \in 0 .. N => f[i] \subseteq B}
  <2>1. 0 \in P
    BY <1>2, <1>4
  <2>2. ASSUME NEW i \in Nat, i \in P PROVE i + 1 \in P
    <3> SUFFICES ASSUME i + 1 \in 0 .. N PROVE f[i + 1] \subseteq B
      OBVIOUS
    <3>1. i + 1 \in 1 .. N /\ (i + 1) - 1 = i /\ i \in 0 .. N
      BY <1>3
    <3>2. f[i] \subseteq B /\ f[i] \in SUBSET Places(n)
      BY <3>1, <2>2, <1>4
    <3>3. Adjacent(n, f[i]) \ {s} \subseteq B
      BY <3>2, <1>5
    <3>4. f[i + 1] = f[i] \union (Adjacent(n, f[i]) \ {s})
      BY <3>1, <1>4
    <3> QED BY <3>2, <3>3, <3>4
  <2>3. \A i \in Nat : i \in P
    <3> HIDE DEF P
    <3> QED BY <2>1, <2>2, NumberInduction
  <2> QED BY <2>3, <1>3
<1>7. \E i \in 1 .. N : f[i] = f[i - 1]
  <2> DEFINE S == Places(n) \ {s}
  <2>1. IsFiniteSet(Places(n)) /\ Cardinality(Places(n)) <= N + 1
    BY NetworkTree, FewPlaces DEF N
  <2>2. IsFiniteSet(S) /\ Cardinality(S) <= N
    <3>1. Cardinality(S) = Cardinality(Places(n)) - 1 /\ Cardinality(Places(n)) \in Nat
      BY <2>1, FS_RemoveElement, FS_CardinalityType
    <3>2. IsFiniteSet(S)
      BY <2>1, FS_RemoveElement
    <3> QED BY <3>1, <3>2, <2>1, <1>3
  <2>3. f \in [0 .. N -> SUBSET S]
    <3>1. \A i \in 0 .. N : f[i] \in SUBSET S
      BY <1>2, <1>4, <1>6
    <3> HIDE DEF S
    <3> QED BY <3>1, <1>4
  <2>4. f[0] # {} /\ \A i \in 1 .. N : f[i - 1] \subseteq f[i]
    BY <1>4
  <2> HIDE DEF S
  <2> QED BY <2>2, <2>3, <2>4, <1>3, Stable
<1>8. PICK R : R = f[N]
  OBVIOUS
<1>9. Adjacent(n, R) \ {s} \subseteq R
  BY <1>1, <1>7, <1>8, Settled DEF N
<1>10. R \subseteq B /\ R \in SUBSET Places(n) /\ N \in 0 .. N
  BY <1>3, <1>4, <1>6, <1>8
<1>11. Peer(n, s, k) \in R
  <2> DEFINE P == {i \in Nat : i \in 0 .. N => Peer(n, s, k) \in f[i]}
  <2>1. 0 \in P
    BY <1>4
  <2>2. ASSUME NEW i \in Nat, i \in P PROVE i + 1 \in P
    <3> SUFFICES ASSUME i + 1 \in 0 .. N PROVE Peer(n, s, k) \in f[i + 1]
      OBVIOUS
    <3>1. i + 1 \in 1 .. N /\ (i + 1) - 1 = i /\ i \in 0 .. N
      BY <1>3
    <3>2. f[i + 1] = f[i] \union (Adjacent(n, f[i]) \ {s})
      BY <3>1, <1>4
    <3> QED BY <3>1, <3>2, <2>2
  <2>3. \A i \in Nat : i \in P
    <3> HIDE DEF P
    <3> QED BY <2>1, <2>2, NumberInduction
  <2> QED BY <2>3, <1>3, <1>8, <1>10
<1> DEFINE K == B \ R
<1>12. ASSUME NEW j \in 1 .. Len(Links[n]), NEW x \in Ends(n, j), NEW y \in Ends(n, j), x \in K PROVE y \in K
  <2>1. CASE j = k
    <3>1. x = Peer(n, s, k)
      BY <2>1, <1>2, <1>12
    <3> QED BY <3>1, <1>11, <1>12
  <2>2. CASE j # k
    <3>1. y \in B
      BY <2>2, <1>2, <1>12 DEF SameSide, B
    <3>2. ASSUME y \in R PROVE FALSE
      <4>1. x \in Adjacent(n, R)
        BY <3>2, <1>10, AdjacentPlaces
      <4>2. x # s
        BY <1>12, <1>2
      <4> QED BY <4>1, <4>2, <1>9, <1>12
    <3> QED BY <3>1, <3>2
  <2> QED BY <2>1, <2>2
<1>13. K = {}
  <2>1. \A j \in 1 .. Len(Links[n]) : \A x, y \in Ends(n, j) : x \in K <=> y \in K
    BY <1>12
  <2>2. K \in SUBSET Places(n) /\ s \notin K
    BY <1>2
  <2> HIDE DEF K
  <2> QED BY <2>1, <2>2, NoWayOut
<1>14. R = B
  BY <1>10, <1>13
<1> QED BY <1>1, <1>8, <1>14 DEF N, B

-----------------------------------------------------------------------------
(* The inductive invariant.                                                *)

\* Switch s is between two nodes.
Between(n, s, a, b) ==
  \E i, j \in Ports[n][s] : i # j /\ a \in Beyond(n, s, i) /\ b \in Beyond(n, s, j)

\* Every switch between a and b has heard a.
Trail(n, tb, a, b) ==
  \A s \in Places(n) \intersect Switches : Between(n, s, a, b) => a \in DOMAIN tb[s]

Frame(n, fs) ==
  [kind : {"request", "reply", "data"}, flow : fs, nr : Nat,
   src : Places(n), dst : Places(n) \union {Everyone}, link : Nat, to : Places(n),
   via : SUBSET {Device(n, m, k) : m \in Places(n), k \in 1 .. Len(Links[n])}]

\* Who a frame of each kind is from and to.
Addressed(fr) ==
  \/ fr.kind = "request" /\ fr.src = fr.flow[1] /\ fr.dst = Everyone
  \/ fr.kind = "reply" /\ fr.src = fr.flow[2] /\ fr.dst = fr.flow[1]
  \/ fr.kind = "data" /\ fr.src = fr.flow[1] /\ fr.dst = fr.flow[2]

\* The way of a frame of congestion: past one switch.
Explicit(n, fr) ==
  \E j, k \in 1 .. Len(Links[n]), s \in Places(n) \intersect Switches :
     /\ Ports[n][fr.flow[1]] = {j} /\ Ports[n][fr.flow[2]] = {k} /\ j # k
     /\ Peer(n, fr.flow[1], j) = s /\ Peer(n, fr.flow[2], k) = s
     /\ \/ fr.to = s /\ fr.link = j /\ fr.via = {Device(n, fr.flow[1], j)}
        \/ fr.to = fr.flow[2] /\ fr.via = {Device(n, fr.flow[1], j), Device(n, s, k)}

\* A frame moves away from its source, a data frame towards its destination.
Heading(n, fs, fr) ==
  /\ fr \in Frame(n, fs) /\ Addressed(fr)
  /\ fr.link \in Ports[n][fr.to] /\ fr.src \in Beyond(n, fr.to, fr.link)
  /\ ~Discards(fr.to, fr)
  /\ fr.kind = "data" =>
       /\ fr.dst \notin Beyond(n, fr.to, fr.link)
       /\ fr.flow[1] \in Disturbances => Explicit(n, fr)

FrameOK(n, fs, tb, ar, sn, fr) ==
  /\ Heading(n, fs, fr)
  /\ Trail(n, tb, fr.src, fr.to)
  /\ fr.kind = "data" => ar[fr.flow] = "known" /\ fr.nr < sn[fr.flow]

\* A switch hears a node by the link behind which it is.
TablesOK(n, tb) ==
  /\ tb = [s \in Switches |-> tb[s]]
  /\ \A s \in Switches : \A h \in DOMAIN tb[s] :
       s \in Places(n) /\ tb[s][h] \in Ports[n][s] /\ h \in Beyond(n, s, tb[s][h])

\* Who knows an address has had an answer: it has taught the switches.
KnownOK(n, fs, tb, ar) ==
  /\ ar \in [fs -> {"unknown", "asked", "known"}]
  /\ \A f \in fs : ar[f] = "known" => Trail(n, tb, f[2], f[1])

DataOf(frs, f) == {fr \in frs : fr.kind = "data" /\ fr.flow = f}

\* The data frames of a flow are different ones, and as many as are missing.
CountOK(frs, f, sn, gt) ==
  /\ sn \in 0 .. MaxData[f] /\ gt \in Nat
  /\ IsFiniteSet(DataOf(frs, f)) /\ gt + Cardinality(DataOf(frs, f)) = sn
  /\ \A a, b \in DataOf(frs, f) : a.nr = b.nr => a = b

IInv ==
  /\ net \in Networks /\ flows \in FlowSets[net]
  /\ TablesOK(net, table)
  /\ KnownOK(net, flows, table, arp)
  /\ \A fr \in frames : FrameOK(net, flows, table, arp, sent, fr)
  /\ sent = [f \in flows |-> sent[f]] /\ got = [f \in flows |-> got[f]]
  /\ \A f \in flows : CountOK(frames, f, sent[f], got[f])

-----------------------------------------------------------------------------
(* A frame passes a link.                                                  *)

Passed(n, fr, m, l) ==
  [fr EXCEPT !.link = l, !.to = Peer(n, m, l), !.via = @ \union {Device(n, m, l)}]

\* What passing a link does to a frame.
LEMMA PassedFields ==
  ASSUME NEW n \in Networks, NEW fs, NEW fr \in Frame(n, fs), NEW m \in Places(n), NEW l \in Ports[n][m]
  PROVE  /\ Passed(n, fr, m, l) \in Frame(n, fs)
         /\ Passed(n, fr, m, l).kind = fr.kind /\ Passed(n, fr, m, l).flow = fr.flow
         /\ Passed(n, fr, m, l).nr = fr.nr /\ Passed(n, fr, m, l).src = fr.src
         /\ Passed(n, fr, m, l).dst = fr.dst /\ Passed(n, fr, m, l).link = l
         /\ Passed(n, fr, m, l).to = Peer(n, m, l)
         /\ Passed(n, fr, m, l).via = fr.via \union {Device(n, m, l)}
<1> DEFINE D == {Device(n, x, k) : x \in Places(n), k \in 1 .. Len(Links[n])}
<1>1. l \in 1 .. Len(Links[n]) /\ Peer(n, m, l) \in Places(n) /\ l \in Nat
  BY PeerEnds, NetworkTree
<1>2. PICK p, d : p = Peer(n, m, l) /\ d = Device(n, m, l)
  OBVIOUS
<1>3. p \in Places(n) /\ d \in D
  BY <1>1, <1>2
<1>4. fr \in [kind : {"request", "reply", "data"}, flow : fs, nr : Nat,
              src : Places(n), dst : Places(n) \union {Everyone}, link : Nat, to : Places(n), via : SUBSET D]
  BY DEF Frame
<1> HIDE DEF D
<1>5. PICK x : x = [fr EXCEPT !.link = l, !.to = p, !.via = @ \union {d}]
  OBVIOUS
<1>6. /\ x \in [kind : {"request", "reply", "data"}, flow : fs, nr : Nat,
                src : Places(n), dst : Places(n) \union {Everyone}, link : Nat, to : Places(n), via : SUBSET D]
      /\ x.kind = fr.kind /\ x.flow = fr.flow /\ x.nr = fr.nr /\ x.src = fr.src /\ x.dst = fr.dst
      /\ x.link = l /\ x.to = p /\ x.via = fr.via \union {d}
  BY <1>1, <1>3, <1>4, <1>5
<1>7. x = Passed(n, fr, m, l)
  BY <1>2, <1>5 DEF Passed
<1>8. x \in Frame(n, fs)
  BY <1>6 DEF Frame, D
<1> QED BY <1>2, <1>6, <1>7, <1>8

\* What a node sends has passed one of its links.
LEMMA OnPassed ==
  ASSUME NEW fr, NEW m, NEW links
  PROVE  On(fr, m, links) = {Passed(net, fr, m, k) : k \in {l \in links : ~Discards(Peer(net, m, l), fr)}}
  BY DEF On, Passed

\* A copy that is passed on is still heading away from its source.
LEMMA PassedHeading ==
  ASSUME NEW n \in Networks, NEW fs, NEW fr \in Frame(n, fs), Addressed(fr),
         NEW m \in Places(n), NEW l \in Ports[n][m], fr.src \notin Beyond(n, m, l),
         ~Discards(Peer(n, m, l), fr),
         fr.kind = "data" => fr.dst \in Beyond(n, m, l),
         fr.kind = "data" /\ fr.flow[1] \in Disturbances => Explicit(n, Passed(n, fr, m, l))
  PROVE  Heading(n, fs, Passed(n, fr, m, l))
<1>1. PICK x : x = Passed(n, fr, m, l)
  OBVIOUS
<1>2. PICK p \in Places(n) : p = Peer(n, m, l) /\ l \in Ports[n][p]
  BY PeerEnds
<1>3. /\ x \in Frame(n, fs) /\ x.kind = fr.kind /\ x.flow = fr.flow /\ x.src = fr.src /\ x.dst = fr.dst
      /\ x.link = l /\ x.to = p
  BY <1>1, <1>2, PassedFields
<1>4. Addressed(x)
  BY <1>3 DEF Addressed
<1>5. Beyond(n, p, l) = Places(n) \ Beyond(n, m, l)
  BY <1>2, BeyondSides
<1>6. fr.src \in Places(n)
  BY DEF Frame
<1>7. x.src \in Beyond(n, x.to, x.link)
  BY <1>3, <1>5, <1>6
<1>8. ~Discards(x.to, x)
  BY <1>2, <1>3 DEF Discards
<1>9. x.kind = "data" => x.dst \notin Beyond(n, x.to, x.link)
  BY <1>3, <1>5
<1>10. x.kind = "data" /\ x.flow[1] \in Disturbances => Explicit(n, x)
  BY <1>1, <1>3
<1>11. Heading(n, fs, x)
  BY <1>2, <1>3, <1>4, <1>7, <1>8, <1>9, <1>10 DEF Heading
<1> QED BY <1>1, <1>11

\* A frame that has passed a switch which has heard its source leaves a trail.
LEMMA TrailForward ==
  ASSUME NEW n \in Networks, NEW tb, NEW ub, NEW a \in Places(n), NEW s \in Places(n), NEW l \in Ports[n][s],
         Trail(n, tb, a, s), a \in DOMAIN ub[s],
         \A t \in Switches : DOMAIN tb[t] \subseteq DOMAIN ub[t]
  PROVE  Trail(n, ub, a, Peer(n, s, l))
<1>1. PICK p \in Places(n) : p = Peer(n, s, l) /\ Ends(n, l) = {s, p} /\ l \in 1 .. Len(Links[n])
  BY PeerEnds
<1> SUFFICES ASSUME NEW t \in Places(n) \intersect Switches, Between(n, t, a, p) PROVE a \in DOMAIN ub[t]
  BY <1>1 DEF Trail
<1>2. PICK i \in Ports[n][t], j \in Ports[n][t] : i # j /\ a \in Beyond(n, t, i) /\ p \in Beyond(n, t, j)
  BY DEF Between
<1>3. CASE t = s
  BY <1>3
<1>4. CASE t # s
  <2>1. t # p
    BY <1>2, BeyondSides
  <2>2. l # j
    <3>1. t \in Ends(n, j)
      BY NetworkTree
    <3> QED BY <3>1, <2>1, <1>1, <1>4
  <2>3. s \in Beyond(n, t, j)
    <3>1. SameSide(n, t, j)
      BY BeyondSides
    <3>2. l \in 1 .. Len(Links[n]) \ {j} /\ s \in Ends(n, l) /\ p \in Ends(n, l)
      BY <1>1, <2>2
    <3> QED BY <3>1, <3>2, <1>2 DEF SameSide
  <2>4. Between(n, t, a, s)
    BY <1>2, <2>3 DEF Between
  <2>5. a \in DOMAIN tb[t]
    BY <2>4 DEF Trail
  <2> QED BY <2>5
<1> QED BY <1>3, <1>4

\* There is no switch between a host and what it is linked to.
LEMMA TrailHost ==
  ASSUME NEW n \in Networks, NEW tb, NEW h \in Places(n) \ Switches, NEW l \in Ports[n][h]
  PROVE  Trail(n, tb, h, Peer(n, h, l))
<1>1. PICK p \in Places(n) : p = Peer(n, h, l) /\ Ends(n, l) = {h, p} /\ l \in 1 .. Len(Links[n])
  BY PeerEnds
<1> SUFFICES ASSUME NEW t \in Places(n) \intersect Switches, Between(n, t, h, p) PROVE FALSE
  BY <1>1 DEF Trail
<1>2. PICK i \in Ports[n][t], j \in Ports[n][t] : i # j /\ h \in Beyond(n, t, i) /\ p \in Beyond(n, t, j)
  BY DEF Between
<1>3. t # p /\ t # h
  BY <1>2, BeyondSides
<1>4. l # j
  <2>1. t \in Ends(n, j)
    BY NetworkTree
  <2> QED BY <2>1, <1>1, <1>3
<1>5. h \in Beyond(n, t, j)
  <2>1. SameSide(n, t, j)
    BY BeyondSides
  <2>2. l \in 1 .. Len(Links[n]) \ {j} /\ h \in Ends(n, l) /\ p \in Ends(n, l)
    BY <1>1, <1>4
  <2> QED BY <2>1, <2>2, <1>2 DEF SameSide
<1>6. Beyond(n, t, i) \intersect Beyond(n, t, j) = {}
  BY <1>2, SidesApart
<1> QED BY <1>2, <1>5, <1>6

\* What is true of a frame stays true when switches hear more.
LEMMA FrameKept ==
  ASSUME NEW n, NEW fs, NEW tb, NEW ub, NEW ar, NEW br, NEW sn, NEW tn, NEW fr,
         FrameOK(n, fs, tb, ar, sn, fr),
         \A t \in Switches : DOMAIN tb[t] \subseteq DOMAIN ub[t],
         \A f \in fs : ar[f] = "known" => br[f] = "known",
         \A f \in fs : sn[f] \in Nat /\ tn[f] \in Nat /\ sn[f] <= tn[f]
  PROVE  FrameOK(n, fs, ub, br, tn, fr)
<1>1. fr.flow \in fs /\ fr.nr \in Nat
  BY DEF FrameOK, Heading, Frame
<1>2. Trail(n, ub, fr.src, fr.to)
  BY DEF FrameOK, Trail
<1>3. fr.kind = "data" => br[fr.flow] = "known" /\ fr.nr < tn[fr.flow]
  <2> SUFFICES ASSUME fr.kind = "data" PROVE br[fr.flow] = "known" /\ fr.nr < tn[fr.flow]
    OBVIOUS
  <2>1. ar[fr.flow] = "known" /\ fr.nr < sn[fr.flow]
    BY DEF FrameOK
  <2>2. sn[fr.flow] \in Nat /\ tn[fr.flow] \in Nat /\ sn[fr.flow] <= tn[fr.flow]
    BY <1>1
  <2> QED BY <1>1, <2>1, <2>2
<1> QED BY <1>2, <1>3 DEF FrameOK

\* Who knows an address still does when switches hear more.
LEMMA KnownKept ==
  ASSUME NEW n, NEW fs, NEW tb, NEW ub, NEW ar, KnownOK(n, fs, tb, ar),
         \A t \in Switches : DOMAIN tb[t] \subseteq DOMAIN ub[t]
  PROVE  KnownOK(n, fs, ub, ar)
  BY DEF KnownOK, Trail

\* A flow is from a host to another.
LEMMA FlowHosts ==
  ASSUME NEW n \in Networks, NEW fs \in FlowSets[n], NEW f \in fs
  PROVE  /\ f[1] \in Places(n) \ Switches /\ f[2] \in Places(n) \ Switches /\ f[1] # f[2]
         /\ f[1] # Everyone /\ f[2] # Everyone
         /\ f[1] \in Disturbances => f \in Congestion
         /\ MaxData[f] \in Nat
<1>1. /\ f \in (Places(n) \ Switches) \X (Places(n) \ Switches) /\ f[1] # f[2]
      /\ f[1] \in Disturbances => f \in Congestion
      /\ MaxData[f] \in Nat
  BY NetworkAssumption DEF Places
<1>2. f[1] \in Places(n) \ Switches /\ f[2] \in Places(n) \ Switches
  BY <1>1
<1> QED BY <1>1, <1>2, NetworkTree

-----------------------------------------------------------------------------
(* Counting the data frames of a flow.                                     *)

\* The count is right when no data frame of the flow comes or goes,
LEMMA CountSame ==
  ASSUME NEW frs, NEW grs, NEW f, NEW sn, NEW gt, CountOK(frs, f, sn, gt), DataOf(grs, f) = DataOf(frs, f)
  PROVE  CountOK(grs, f, sn, gt)
  BY DEF CountOK

\* when one is sent,
LEMMA CountAdd ==
  ASSUME NEW frs, NEW f, NEW sn, NEW gt, CountOK(frs, f, sn, gt), MaxData[f] \in Nat, sn < MaxData[f],
         NEW x, x.kind = "data", x.flow = f, x.nr = sn,
         \A a \in DataOf(frs, f) : a.nr < sn
  PROVE  CountOK(frs \union {x}, f, sn + 1, gt)
<1> DEFINE D == DataOf(frs, f)
           E == DataOf(frs \union {x}, f)
<1>1. /\ sn \in Nat /\ gt \in Nat /\ IsFiniteSet(D) /\ gt + Cardinality(D) = sn
      /\ \A a, b \in D : a.nr = b.nr => a = b
  BY DEF CountOK
<1>2. E = D \union {x}
  BY DEF DataOf
<1>3. \A a \in D : a.nr < sn
  OBVIOUS
<1> HIDE DEF D, E
<1>4. x \notin D
  BY <1>1, <1>3
<1>5. IsFiniteSet(E) /\ Cardinality(E) = Cardinality(D) + 1
  BY <1>1, <1>2, <1>4, FS_AddElement
<1>6. Cardinality(D) \in Nat
  BY <1>1, FS_CardinalityType
<1>7. \A a, b \in E : a.nr = b.nr => a = b
  BY <1>1, <1>2, <1>3
<1>8. sn + 1 \in 0 .. MaxData[f] /\ gt + Cardinality(E) = sn + 1
  BY <1>1, <1>5, <1>6
<1> QED BY <1>1, <1>5, <1>7, <1>8 DEF CountOK, E

\* when one is accepted,
LEMMA CountRemove ==
  ASSUME NEW frs, NEW f, NEW sn, NEW gt, CountOK(frs, f, sn, gt),
         NEW x \in frs, x.kind = "data", x.flow = f
  PROVE  CountOK(frs \ {x}, f, sn, gt + 1)
<1> DEFINE D == DataOf(frs, f)
           E == DataOf(frs \ {x}, f)
<1>1. /\ sn \in 0 .. MaxData[f] /\ gt \in Nat /\ IsFiniteSet(D) /\ gt + Cardinality(D) = sn
      /\ \A a, b \in D : a.nr = b.nr => a = b
  BY DEF CountOK
<1>2. E = D \ {x} /\ x \in D
  BY DEF DataOf
<1> HIDE DEF D, E
<1>3. IsFiniteSet(E) /\ Cardinality(E) = Cardinality(D) - 1
  BY <1>1, <1>2, FS_RemoveElement
<1>4. Cardinality(D) \in Nat /\ Cardinality(E) \in Nat
  BY <1>1, <1>3, FS_CardinalityType
<1>5. gt + 1 \in Nat /\ (gt + 1) + Cardinality(E) = sn
  BY <1>1, <1>3, <1>4
<1> QED BY <1>1, <1>2, <1>3, <1>5 DEF CountOK, E

\* and when one is passed on.
LEMMA CountSwap ==
  ASSUME NEW frs, NEW f, NEW sn, NEW gt, CountOK(frs, f, sn, gt),
         NEW x \in frs, x.kind = "data", x.flow = f,
         NEW y, y.kind = "data", y.flow = f, y.nr = x.nr
  PROVE  CountOK((frs \ {x}) \union {y}, f, sn, gt)
<1> DEFINE D == DataOf(frs, f)
           E == DataOf((frs \ {x}) \union {y}, f)
<1>1. /\ sn \in 0 .. MaxData[f] /\ gt \in Nat /\ IsFiniteSet(D) /\ gt + Cardinality(D) = sn
      /\ \A a, b \in D : a.nr = b.nr => a = b
  BY DEF CountOK
<1>2. E = (D \ {x}) \union {y} /\ x \in D
  BY DEF DataOf
<1> HIDE DEF D, E
<1>3. y \notin D \ {x}
  BY <1>1, <1>2
<1>4. IsFiniteSet(D \ {x}) /\ Cardinality(D \ {x}) = Cardinality(D) - 1
  BY <1>1, <1>2, FS_RemoveElement
<1>5. IsFiniteSet(E) /\ Cardinality(E) = Cardinality(D \ {x}) + 1
  BY <1>2, <1>3, <1>4, FS_AddElement
<1>6. Cardinality(D) \in Nat
  BY <1>1, FS_CardinalityType
<1>7. gt + Cardinality(E) = sn
  BY <1>1, <1>4, <1>5, <1>6
<1>8. \A a, b \in E : a.nr = b.nr => a = b
  BY <1>1, <1>2
<1> QED BY <1>1, <1>5, <1>7, <1>8 DEF CountOK, E

-----------------------------------------------------------------------------
(* A host puts a frame on its link.                                        *)

\* X is one frame of this kind, which has passed the device of its source and
\* heads for its destination.
Launched(X, kind, f, nr) ==
  \E x : /\ X = {x} /\ x.kind = kind /\ x.flow = f /\ x.nr = nr
         /\ \E k : /\ Ports[net][x.src] = {k} /\ x.to = Peer(net, x.src, k)
                  /\ x.via = {Device(net, x.src, k)}
         /\ Heading(net, flows, x)
         /\ \A tb : Trail(net, tb, x.src, x.to)

\* Every frame that a host puts on its link heads for its destination.
LEMMA HostFrame ==
  ASSUME net \in Networks, flows \in FlowSets[net],
         NEW kind, NEW f \in flows, NEW nr \in Nat, NEW src, NEW dst,
         \/ kind = "request" /\ src = f[1] /\ dst = Everyone
         \/ kind = "reply" /\ src = f[2] /\ dst = f[1]
         \/ kind = "data" /\ src = f[1] /\ dst = f[2]
  PROVE  Launched(FromHost(kind, f, nr, src, dst), kind, f, nr)
<1> SUFFICES ASSUME NEW n \in Networks, NEW fs \in FlowSets[n], n = net, fs = flows
             PROVE  Launched(FromHost(kind, f, nr, src, dst), kind, f, nr)
  OBVIOUS
<1>1. n = net /\ fs = flows /\ f \in fs
  OBVIOUS
<1>2. /\ f[1] \in Places(n) \ Switches /\ f[2] \in Places(n) \ Switches /\ f[1] # f[2]
      /\ f[1] # Everyone /\ f[2] # Everyone /\ (f[1] \in Disturbances => f \in Congestion)
  BY <1>1, FlowHosts
<1>3. src \in Places(n) \ Switches /\ dst \in Places(n) \union {Everyone} /\ kind \in {"request", "reply", "data"}
  BY <1>2
<1>4. PICK k \in 1 .. Len(Links[n]) : Ports[n][src] = {k} /\ Peer(n, src, k) \in Places(n) \intersect Switches
  BY <1>3, HostPort
<1>5. PICK fr : fr = [kind |-> kind, flow |-> f, nr |-> nr, src |-> src, dst |-> dst,
                      link |-> 0, to |-> src, via |-> {}]
  OBVIOUS
<1>6. /\ fr \in Frame(n, fs) /\ fr.kind = kind /\ fr.flow = f /\ fr.nr = nr /\ fr.src = src /\ fr.dst = dst
      /\ fr.via = {}
  BY <1>1, <1>3, <1>5 DEF Frame
<1>7. Addressed(fr)
  BY <1>6 DEF Addressed
<1>8. ~Discards(Peer(n, src, k), fr)
  BY <1>4 DEF Discards
<1>9. PICK x : x = Passed(n, fr, src, k)
  OBVIOUS
<1>10. FromHost(kind, f, nr, src, dst) = {x}
  <2>1. FromHost(kind, f, nr, src, dst) = On(fr, src, Ports[n][src])
    BY <1>1, <1>5 DEF FromHost
  <2>2. On(fr, src, Ports[n][src]) = {Passed(n, fr, src, l) : l \in {j \in {k} : ~Discards(Peer(n, src, j), fr)}}
    BY <1>1, <1>4, OnPassed
  <2> QED BY <2>1, <2>2, <1>8, <1>9
<1>11. fr.src \notin Beyond(n, src, k)
  BY <1>3, <1>4, <1>6, BeyondSides
<1>12. fr.kind = "data" => fr.dst \in Beyond(n, src, k)
  <2> SUFFICES ASSUME fr.kind = "data" PROVE fr.dst \in Beyond(n, src, k)
    OBVIOUS
  <2>1. fr.dst \in Places(n) /\ fr.dst # src
    BY <1>2, <1>6
  <2> QED BY <2>1, <1>3, <1>4, SidesAround
<1>13. x.kind = kind /\ x.flow = f /\ x.nr = nr /\ x.src = src /\ x.link = k /\ x.to = Peer(n, src, k)
       /\ x.via = {Device(n, src, k)}
  <2>1. k \in Ports[n][src] /\ src \in Places(n)
    BY <1>3, <1>4
  <2> QED BY <2>1, <1>6, <1>9, PassedFields
<1>14. fr.kind = "data" /\ fr.flow[1] \in Disturbances => Explicit(n, x)
  <2> SUFFICES ASSUME kind = "data", f[1] \in Disturbances PROVE Explicit(n, x)
    BY <1>6
  <2>1. src = f[1] /\ f \in Congestion
    BY <1>2
  <2>2. PICK i, j \in 1 .. Len(Links[n]), s \in Places(n) \intersect Switches :
          /\ Ports[n][f[1]] = {i} /\ Ports[n][f[2]] = {j} /\ i # j
          /\ Peer(n, f[1], i) = s /\ Peer(n, f[2], j) = s
    BY <2>1, <1>2, CongestionNear
  <2>3. i = k
    BY <2>1, <2>2, <1>4
  <2> QED BY <2>1, <2>2, <2>3, <1>13 DEF Explicit
<1>15. Heading(n, fs, x)
  BY <1>3, <1>4, <1>6, <1>7, <1>8, <1>9, <1>11, <1>12, <1>14, PassedHeading
<1>16. ASSUME NEW tb PROVE Trail(n, tb, x.src, x.to)
  <2>1. k \in Ports[n][src]
    BY <1>4
  <2> QED BY <2>1, <1>3, <1>13, TrailHost
<1>17. Ports[net][x.src] = {k} /\ x.to = Peer(net, x.src, k) /\ x.via = {Device(net, x.src, k)}
  BY <1>1, <1>4, <1>13
<1>18. x.kind = kind /\ x.flow = f /\ x.nr = nr /\ Heading(net, flows, x)
  BY <1>1, <1>13, <1>15
<1> QED BY <1>10, <1>16, <1>17, <1>18 DEF Launched

-----------------------------------------------------------------------------
(* One lemma per action.                                                   *)

\* At first nothing is known and nothing under way.
LEMMA InvInit == Init => IInv
<1> SUFFICES ASSUME Init PROVE IInv
  OBVIOUS
<1>1. net \in Networks /\ flows \in FlowSets[net] /\ frames = {} /\ table = [s \in Switches |-> <<>>]
      /\ arp = [f \in flows |-> "unknown"] /\ sent = [f \in flows |-> 0] /\ got = [f \in flows |-> 0]
  BY DEF Init
<1>2. TablesOK(net, table)
  <2>1. \A s \in Switches : DOMAIN table[s] = {}
    BY <1>1
  <2> QED BY <2>1, <1>1 DEF TablesOK
<1>3. KnownOK(net, flows, table, arp)
  BY <1>1 DEF KnownOK
<1>4. ASSUME NEW f \in flows PROVE CountOK(frames, f, sent[f], got[f])
  <2>1. DataOf(frames, f) = {}
    BY <1>1 DEF DataOf
  <2>2. IsFiniteSet({}) /\ Cardinality({}) = 0
    BY FS_EmptySet
  <2>3. MaxData[f] \in Nat
    BY <1>1, NetworkAssumption
  <2>4. sent[f] = 0 /\ got[f] = 0
    BY <1>1
  <2>5. 0 \in 0 .. MaxData[f] /\ 0 + 0 = 0 /\ 0 \in Nat
    BY <2>3
  <2> QED BY <2>1, <2>2, <2>4, <2>5 DEF CountOK
<1> QED BY <1>1, <1>2, <1>3, <1>4 DEF IInv

\* A data frame has a number below the next one.
LEMMA NumbersBelow ==
  ASSUME IInv, NEW f \in flows, NEW a \in DataOf(frames, f)
  PROVE  a.nr < sent[f]
<1>1. a \in frames /\ a.kind = "data" /\ a.flow = f
  BY DEF DataOf
<1> QED BY <1>1 DEF IInv, FrameOK

\* A request is sent.
LEMMA ResolveStep ==
  ASSUME IInv, NEW f \in flows, Resolve(f)
  PROVE  IInv'
<1> USE DEF IInv
<1>1. /\ arp[f] = "unknown" /\ arp' = [arp EXCEPT ![f] = "asked"]
      /\ frames' = frames \union FromHost("request", f, 0, f[1], Everyone)
      /\ UNCHANGED <<net, flows, table, sent, got>>
  BY DEF Resolve
<1>2. Launched(FromHost("request", f, 0, f[1], Everyone), "request", f, 0)
  BY HostFrame
<1>3. PICK x : /\ FromHost("request", f, 0, f[1], Everyone) = {x} /\ x.kind = "request" /\ x.flow = f /\ x.nr = 0
               /\ Heading(net, flows, x) /\ \A tb : Trail(net, tb, x.src, x.to)
  BY <1>2 DEF Launched
<1>4. frames' = frames \union {x}
  BY <1>1, <1>3
<1>5. arp \in [flows -> {"unknown", "asked", "known"}]
  BY DEF KnownOK
<1>6. \A g \in flows : arp[g] = "known" <=> arp'[g] = "known"
  BY <1>1, <1>5
<1>7. KnownOK(net, flows, table, arp')
  <2>1. arp' \in [flows -> {"unknown", "asked", "known"}]
    BY <1>1, <1>5
  <2> QED BY <2>1, <1>6 DEF KnownOK
<1>8. ASSUME NEW fr \in frames' PROVE FrameOK(net, flows, table, arp', sent, fr)
  <2>1. CASE fr \in frames
    <3>1. FrameOK(net, flows, table, arp, sent, fr)
      BY <2>1
    <3>2. fr.flow \in flows
      BY <3>1 DEF FrameOK, Heading, Frame
    <3> QED BY <3>1, <3>2, <1>6 DEF FrameOK
  <2>2. CASE fr = x
    BY <2>2, <1>3 DEF FrameOK
  <2> QED BY <2>1, <2>2, <1>4
<1>9. ASSUME NEW g \in flows PROVE CountOK(frames', g, sent[g], got[g])
  <2>1. DataOf(frames', g) = DataOf(frames, g)
    BY <1>3, <1>4 DEF DataOf
  <2> QED BY <2>1, CountSame
<1> QED BY <1>1, <1>7, <1>8, <1>9

\* A data frame is sent.
LEMMA SendStep ==
  ASSUME IInv, NEW f \in flows, Send(f)
  PROVE  IInv'
<1> USE DEF IInv
<1>1. /\ arp[f] = "known" /\ sent[f] < MaxData[f] /\ sent' = [sent EXCEPT ![f] = @ + 1]
      /\ frames' = frames \union FromHost("data", f, sent[f], f[1], f[2])
      /\ UNCHANGED <<net, flows, table, arp, got>>
  BY DEF Send
<1>2. sent[f] \in Nat /\ MaxData[f] \in Nat
  <2>1. MaxData[f] \in Nat
    BY FlowHosts
  <2> QED BY <2>1 DEF CountOK
<1>3. Launched(FromHost("data", f, sent[f], f[1], f[2]), "data", f, sent[f])
  BY <1>2, HostFrame
<1>4. PICK x : /\ FromHost("data", f, sent[f], f[1], f[2]) = {x} /\ x.kind = "data" /\ x.flow = f /\ x.nr = sent[f]
               /\ Heading(net, flows, x) /\ \A tb : Trail(net, tb, x.src, x.to)
  BY <1>3 DEF Launched
<1>5. frames' = frames \union {x}
  BY <1>1, <1>4
<1>6. /\ sent' = [g \in flows |-> sent'[g]] /\ sent'[f] = sent[f] + 1
      /\ \A g \in flows \ {f} : sent'[g] = sent[g]
  BY <1>1
<1>7. \A g \in flows : sent[g] \in Nat /\ sent'[g] \in Nat /\ sent[g] <= sent'[g]
  <2> SUFFICES ASSUME NEW g \in flows PROVE sent[g] \in Nat /\ sent'[g] \in Nat /\ sent[g] <= sent'[g]
    OBVIOUS
  <2>1. sent[g] \in Nat
    <3>1. MaxData[g] \in Nat
      BY FlowHosts
    <3> QED BY <3>1 DEF CountOK
  <2> QED BY <2>1, <1>6
<1>8. ASSUME NEW fr \in frames' PROVE FrameOK(net, flows, table, arp, sent', fr)
  <2>1. CASE fr \in frames
    <3>1. FrameOK(net, flows, table, arp, sent, fr)
      BY <2>1
    <3>2. PICK tn : tn = sent'
      OBVIOUS
    <3>3. FrameOK(net, flows, table, arp, tn, fr)
      BY <3>1, <3>2, <1>7, FrameKept
    <3> QED BY <3>2, <3>3
  <2>2. CASE fr = x
    BY <2>2, <1>1, <1>2, <1>4, <1>6 DEF FrameOK
  <2> QED BY <2>1, <2>2, <1>5
<1>9. ASSUME NEW g \in flows PROVE CountOK(frames', g, sent'[g], got[g])
  <2>1. CASE g = f
    <3>1. \A a \in DataOf(frames, f) : a.nr < sent[f]
      BY NumbersBelow
    <3>2. PICK N : N = sent[f]
      OBVIOUS
    <3>3. CountOK(frames \union {x}, f, N + 1, got[f])
      BY <3>1, <3>2, <1>1, <1>2, <1>4, CountAdd
    <3> QED BY <2>1, <3>2, <3>3, <1>5, <1>6
  <2>2. CASE g # f
    <3>1. DataOf(frames', g) = DataOf(frames, g)
      BY <2>2, <1>4, <1>5 DEF DataOf
    <3>2. PICK frs, N : frs = frames' /\ N = sent[g]
      OBVIOUS
    <3>3. CountOK(frs, g, N, got[g])
      BY <3>1, <3>2, CountSame
    <3> QED BY <2>2, <3>2, <3>3, <1>6
  <2> QED BY <2>1, <2>2
<1> QED BY <1>1, <1>6, <1>8, <1>9

\* A request reaches the receiver of its flow, other frames their destination.
LEMMA AtHost ==
  ASSUME IInv, NEW fr \in frames, fr.to \notin Switches
  PROVE  /\ fr.flow \in flows /\ fr.to \in Places(net)
         /\ fr.kind \in {"request", "reply", "data"} /\ Addressed(fr)
         /\ fr.kind = "request" => fr.to = fr.flow[2] /\ fr.src = fr.flow[1]
         /\ fr.kind # "request" => fr.to = fr.dst
<1>1. Heading(net, flows, fr)
  BY DEF IInv, FrameOK
<1>2. fr.flow \in flows /\ fr.to \in Places(net) /\ fr.kind \in {"request", "reply", "data"} /\ Addressed(fr)
      /\ ~Discards(fr.to, fr)
  BY <1>1 DEF Heading, Frame
<1>3. Everyone \notin Places(net)
  BY NetworkTree DEF IInv
<1>4. fr.dst = fr.to \/ (fr.dst = Everyone /\ fr.flow[2] = fr.to)
  BY <1>2 DEF Discards
<1>5. fr.kind = "request" => fr.dst = Everyone /\ fr.src = fr.flow[1]
  BY <1>2 DEF Addressed
<1>6. ASSUME fr.kind # "request" PROVE fr.dst # Everyone
  <2>1. fr.flow[1] # Everyone /\ fr.flow[2] # Everyone
    BY <1>2, FlowHosts DEF IInv
  <2> QED BY <2>1, <1>2, <1>6 DEF Addressed
<1> QED BY <1>2, <1>3, <1>4, <1>5, <1>6

\* A request is answered.
LEMMA AnswerStep ==
  ASSUME IInv, NEW fr \in frames, fr.to \notin Switches, Answer(fr),
         UNCHANGED <<net, flows, table, sent>>
  PROVE  IInv'
<1> USE DEF IInv
<1>1. /\ fr.kind = "request" /\ UNCHANGED <<arp, got>>
      /\ frames' = (frames \ {fr}) \union FromHost("reply", fr.flow, 0, fr.to, fr.src)
  BY DEF Answer
<1>2. PICK f \in flows : f = fr.flow /\ fr.to = f[2] /\ fr.src = f[1]
  BY <1>1, AtHost
<1>3. Launched(FromHost("reply", f, 0, f[2], f[1]), "reply", f, 0)
  BY HostFrame
<1>4. PICK x : /\ FromHost("reply", f, 0, f[2], f[1]) = {x} /\ x.kind = "reply" /\ x.flow = f /\ x.nr = 0
               /\ Heading(net, flows, x) /\ \A tb : Trail(net, tb, x.src, x.to)
  BY <1>3 DEF Launched
<1>5. frames' = (frames \ {fr}) \union {x}
  BY <1>1, <1>2, <1>4
<1>6. ASSUME NEW y \in frames' PROVE FrameOK(net, flows, table, arp, sent, y)
  <2>1. CASE y \in frames
    BY <2>1
  <2>2. CASE y = x
    BY <2>2, <1>4 DEF FrameOK
  <2> QED BY <2>1, <2>2, <1>5
<1>7. ASSUME NEW g \in flows PROVE CountOK(frames', g, sent[g], got[g])
  <2>1. DataOf(frames', g) = DataOf(frames, g)
    BY <1>1, <1>4, <1>5 DEF DataOf
  <2> QED BY <2>1, CountSame
<1> QED BY <1>1, <1>6, <1>7

\* A reply or a data frame is accepted.
LEMMA AcceptStep ==
  ASSUME IInv, NEW fr \in frames, fr.to \notin Switches, Accept(fr),
         UNCHANGED <<net, flows, table, sent>>
  PROVE  IInv'
<1> USE DEF IInv
<1>1. fr.kind # "request" /\ frames' = frames \ {fr}
  BY DEF Accept
<1>2. PICK f \in flows : f = fr.flow
  BY AtHost
<1>3. fr.kind \in {"request", "reply", "data"} /\ Addressed(fr) /\ fr.to = fr.dst
  BY <1>1, AtHost
<1>4. arp \in [flows -> {"unknown", "asked", "known"}]
  BY DEF KnownOK
<1>5. CASE fr.kind = "reply"
  <2>1. arp' = [arp EXCEPT ![f] = "known"] /\ got' = got
    BY <1>2, <1>5 DEF Accept
  <2>2. \A g \in flows : arp[g] = "known" => arp'[g] = "known"
    BY <2>1, <1>4
  <2>3. KnownOK(net, flows, table, arp')
    <3>1. arp' \in [flows -> {"unknown", "asked", "known"}]
      BY <2>1, <1>4
    <3>2. Trail(net, table, f[2], f[1])
      <4>1. Trail(net, table, fr.src, fr.to)
        BY DEF FrameOK
      <4>2. fr.src = f[2] /\ fr.to = f[1]
        BY <1>2, <1>3, <1>5 DEF Addressed
      <4> QED BY <4>1, <4>2
    <3>3. ASSUME NEW g \in flows, arp'[g] = "known" PROVE Trail(net, table, g[2], g[1])
      <4>1. CASE g = f
        BY <4>1, <3>2
      <4>2. CASE g # f
        BY <4>2, <3>3, <2>1, <1>4 DEF KnownOK
      <4> QED BY <4>1, <4>2
    <3> QED BY <3>1, <3>3 DEF KnownOK
  <2>4. ASSUME NEW y \in frames' PROVE FrameOK(net, flows, table, arp', sent, y)
    <3>1. FrameOK(net, flows, table, arp, sent, y)
      BY <1>1, <2>4
    <3>2. y.flow \in flows
      BY <3>1 DEF FrameOK, Heading, Frame
    <3> QED BY <3>1, <3>2, <2>2 DEF FrameOK
  <2>5. ASSUME NEW g \in flows PROVE CountOK(frames', g, sent[g], got[g])
    <3>1. DataOf(frames', g) = DataOf(frames, g)
      BY <1>1, <1>5 DEF DataOf
    <3> QED BY <3>1, CountSame
  <2> QED BY <2>1, <2>3, <2>4, <2>5
<1>6. CASE fr.kind # "reply"
  <2>1. fr.kind = "data" /\ arp' = arp /\ got' = [got EXCEPT ![f] = @ + 1]
    BY <1>1, <1>2, <1>3, <1>6 DEF Accept
  <2>2. \A y \in frames' : FrameOK(net, flows, table, arp, sent, y)
    BY <1>1
  <2>3. /\ got' = [g \in flows |-> got'[g]] /\ got'[f] = got[f] + 1
        /\ \A g \in flows \ {f} : got'[g] = got[g]
    BY <2>1
  <2>4. ASSUME NEW g \in flows PROVE CountOK(frames', g, sent[g], got'[g])
    <3>1. CASE g = f
      <4>1. CountOK(frames \ {fr}, f, sent[f], got[f] + 1)
        BY <2>1, <1>2, CountRemove
      <4> QED BY <4>1, <3>1, <2>3, <1>1
    <3>2. CASE g # f
      <4>1. DataOf(frames', g) = DataOf(frames, g)
        BY <3>2, <1>1, <1>2 DEF DataOf
      <4>2. PICK frs : frs = frames'
        OBVIOUS
      <4>3. CountOK(frs, g, sent[g], got[g])
        BY <4>1, <4>2, CountSame
      <4> QED BY <4>2, <4>3, <3>2, <2>3
    <3> QED BY <3>1, <3>2
  <2> QED BY <2>1, <2>2, <2>3, <2>4
<1> QED BY <1>5, <1>6

-----------------------------------------------------------------------------
(* A switch passes a frame on.                                             *)

\* The tables when switch s has heard a by link k.
Taught(tb, s, a, k) ==
  [tb EXCEPT ![s] = [h \in DOMAIN @ \union {a} |-> IF h = a THEN k ELSE @[h]]]

\* What a switch learns from a frame is true.
LEMMA ForwardTable ==
  ASSUME NEW n \in Networks, NEW tb, TablesOK(n, tb),
         NEW s \in Places(n) \intersect Switches, NEW k \in Ports[n][s], NEW a \in Beyond(n, s, k),
         NEW ub, ub = Taught(tb, s, a, k)
  PROVE  /\ TablesOK(n, ub) /\ a \in DOMAIN ub[s]
         /\ \A t \in Switches : DOMAIN tb[t] \subseteq DOMAIN ub[t]
<1>1. tb = [t \in Switches |-> tb[t]]
  BY DEF TablesOK
<1>2. PICK new : new = [h \in DOMAIN tb[s] \union {a} |-> IF h = a THEN k ELSE tb[s][h]]
  OBVIOUS
<1>3. ub = [t \in Switches |-> IF t = s THEN new ELSE tb[t]]
  BY <1>1, <1>2 DEF Taught
<1>4. ub[s] = new /\ \A t \in Switches \ {s} : ub[t] = tb[t]
  BY <1>3
<1>5. DOMAIN new = DOMAIN tb[s] \union {a} /\ new[a] = k /\ \A h \in DOMAIN tb[s] \ {a} : new[h] = tb[s][h]
  BY <1>2
<1>6. ASSUME NEW t \in Switches, NEW h \in DOMAIN ub[t]
      PROVE  t \in Places(n) /\ ub[t][h] \in Ports[n][t] /\ h \in Beyond(n, t, ub[t][h])
  <2>1. CASE t = s /\ h = a
    BY <2>1, <1>4, <1>5
  <2>2. CASE t = s /\ h # a
    <3>1. h \in DOMAIN tb[s] /\ ub[t][h] = tb[s][h]
      BY <2>2, <1>4, <1>5
    <3> QED BY <3>1, <2>2 DEF TablesOK
  <2>3. CASE t # s
    <3>1. ub[t] = tb[t]
      BY <2>3, <1>4
    <3> QED BY <3>1 DEF TablesOK
  <2> QED BY <2>1, <2>2, <2>3
<1>7. ub = [t \in Switches |-> ub[t]]
  BY <1>3
<1>8. TablesOK(n, ub)
  BY <1>6, <1>7 DEF TablesOK
<1> QED BY <1>4, <1>5, <1>8

\* A switch knows the way of a data frame: on to the receiver.
DirectWay(n, tb, fr, j) ==
  /\ j \in Ports[n][fr.to] \ {fr.link} /\ fr.dst \in Beyond(n, fr.to, j)
  /\ fr.dst \in DOMAIN tb[fr.to] /\ tb[fr.to][fr.dst] = j
  /\ ~Discards(Peer(n, fr.to, j), fr)
  /\ fr.flow[1] \in Disturbances => Explicit(n, Passed(n, fr, fr.to, j))

\* The receiver has answered, so every switch on the way knows where it is.
LEMMA DataWay ==
  ASSUME NEW n \in Networks, NEW fs \in FlowSets[n], NEW tb, NEW ar, NEW sn, NEW fr,
         TablesOK(n, tb), KnownOK(n, fs, tb, ar), FrameOK(n, fs, tb, ar, sn, fr),
         fr.to \in Switches, fr.kind = "data"
  PROVE  \E j : DirectWay(n, tb, fr, j)
<1>1. /\ fr \in Frame(n, fs) /\ Addressed(fr) /\ fr.link \in Ports[n][fr.to]
      /\ fr.src \in Beyond(n, fr.to, fr.link) /\ fr.dst \notin Beyond(n, fr.to, fr.link)
      /\ (fr.flow[1] \in Disturbances => Explicit(n, fr)) /\ ar[fr.flow] = "known"
  BY DEF FrameOK, Heading
<1>2. fr.flow \in fs /\ fr.to \in Places(n) /\ fr.src \in Places(n) /\ fr.link \in Nat
  BY <1>1 DEF Frame
<1>3. PICK s \in Places(n) \intersect Switches : s = fr.to
  BY <1>2
<1>4. PICK f \in fs, u \in Places(n) \ Switches, v \in Places(n) \ Switches :
        f = fr.flow /\ u = f[1] /\ v = f[2] /\ fr.src = u /\ fr.dst = v /\ v # Everyone /\ u # v
  BY <1>1, <1>2, FlowHosts DEF Addressed
<1>5. PICK i \in Ports[n][s] : i = fr.link /\ u \in Beyond(n, s, i) /\ v \notin Beyond(n, s, i)
  BY <1>1, <1>3, <1>4
<1>6. PICK j \in Ports[n][s] : v \in Beyond(n, s, j)
  <2>1. v # s
    BY <1>3, <1>4
  <2> QED BY <2>1, SidesAround
<1>7. i # j
  BY <1>5, <1>6
<1>8. v \in DOMAIN tb[s]
  <2>1. Between(n, s, v, u)
    BY <1>5, <1>6, <1>7 DEF Between
  <2>2. Trail(n, tb, v, u)
    BY <1>1, <1>4 DEF KnownOK
  <2> QED BY <2>1, <2>2 DEF Trail
<1>9. tb[s][v] = j
  <2>1. tb[s][v] \in Ports[n][s] /\ v \in Beyond(n, s, tb[s][v])
    BY <1>8 DEF TablesOK
  <2>2. PICK l \in Ports[n][s] : l = tb[s][v] /\ v \in Beyond(n, s, l)
    BY <2>1
  <2>3. l = j
    BY <2>2, <1>6, SidesApart
  <2> QED BY <2>2, <2>3
<1>10. PICK p \in Places(n) : /\ p = Peer(n, s, j) /\ j \in Ports[n][p] /\ Peer(n, p, j) = s
                              /\ p \in Beyond(n, s, j)
  BY PeerEnds, BeyondSides
<1>11. ~Discards(p, fr)
  <2> SUFFICES ASSUME p \notin Switches PROVE p = v
    BY <1>4 DEF Discards
  <2>1. PICK k \in 1 .. Len(Links[n]) : Ports[n][p] = {k} /\ Beyond(n, Peer(n, p, k), k) = {p}
    BY HostPort
  <2>2. k = j /\ Beyond(n, s, j) = {p}
    BY <2>1, <1>10
  <2> QED BY <2>2, <1>6
<1>12. ASSUME fr.flow[1] \in Disturbances PROVE Explicit(n, Passed(n, fr, s, j))
  <2>1. PICK y : y = Passed(n, fr, s, j)
    OBVIOUS
  <2>2. y.flow = f /\ y.to = p /\ y.via = fr.via \union {Device(n, s, j)}
    BY <2>1, <1>1, <1>4, <1>10, PassedFields
  <2>3. PICK a \in 1 .. Len(Links[n]), b \in 1 .. Len(Links[n]), t \in Places(n) \intersect Switches :
          /\ Ports[n][u] = {a} /\ Ports[n][v] = {b} /\ a # b
          /\ Peer(n, u, a) = t /\ Peer(n, v, b) = t
          /\ \/ fr.to = t /\ fr.link = a /\ fr.via = {Device(n, u, a)}
             \/ fr.to = v /\ fr.via = {Device(n, u, a), Device(n, t, b)}
    BY <1>1, <1>12, <1>4 DEF Explicit
  <2>4. t = s /\ fr.via = {Device(n, u, a)}
    BY <2>3, <1>3, <1>4
  <2>5. b = j
    <3>1. b \in Ports[n][s]
      BY <2>3, <2>4, PeerEnds
    <3>2. v \in Beyond(n, s, b)
      <4>1. b \in Ports[n][v]
        BY <2>3
      <4>2. Peer(n, s, b) = v
        BY <4>1, <2>3, <2>4, PeerEnds
      <4> QED BY <3>1, <4>2, BeyondSides
    <3> QED BY <3>1, <3>2, <1>6, SidesApart
  <2>6. p = v
    <3>1. b \in Ports[n][v] /\ Peer(n, v, b) = s
      BY <2>3, <2>4
    <3>2. Peer(n, s, b) = v
      BY <3>1, PeerEnds
    <3> QED BY <3>2, <2>5, <1>10
  <2>7. y.via = {Device(n, u, a), Device(n, s, b)} /\ y.to = v
    BY <2>2, <2>4, <2>5, <2>6
  <2>8. Explicit(n, y)
    <3>1. y.flow[1] = u /\ y.flow[2] = v
      BY <2>2, <1>4
    <3>2. /\ Ports[n][y.flow[1]] = {a} /\ Ports[n][y.flow[2]] = {b}
          /\ Peer(n, y.flow[1], a) = s /\ Peer(n, y.flow[2], b) = s
          /\ y.to = y.flow[2] /\ y.via = {Device(n, y.flow[1], a), Device(n, s, b)}
      BY <3>1, <2>3, <2>4, <2>7
    <3> QED BY <3>2, <2>3 DEF Explicit
  <2> QED BY <2>1, <2>8
<1> QED BY <1>3, <1>4, <1>5, <1>6, <1>7, <1>8, <1>9, <1>10, <1>11, <1>12 DEF DirectWay

\* A switch passes a frame on.
LEMMA ForwardStep ==
  ASSUME IInv, NEW fr \in frames, Forward(fr)
  PROVE  IInv'
<1> SUFFICES ASSUME NEW n \in Networks, NEW fs \in FlowSets[n], n = net, fs = flows,
                    NEW ub, ub = table', NEW grs, grs = frames'
             PROVE  /\ TablesOK(n, ub) /\ KnownOK(n, fs, ub, arp)
                    /\ \A y \in grs : FrameOK(n, fs, ub, arp, sent, y)
                    /\ \A f \in fs : CountOK(grs, f, sent[f], got[f])
  BY DEF IInv, Forward
<1>1. /\ TablesOK(n, table) /\ KnownOK(n, fs, table, arp)
      /\ \A y \in frames : FrameOK(n, fs, table, arp, sent, y)
      /\ \A f \in fs : CountOK(frames, f, sent[f], got[f])
  BY DEF IInv
<1>2. /\ fr \in Frame(n, fs) /\ Addressed(fr) /\ fr.link \in Ports[n][fr.to]
      /\ fr.src \in Beyond(n, fr.to, fr.link)
  BY <1>1 DEF FrameOK, Heading
<1>3. PICK s \in Places(n) \intersect Switches, k \in Nat, a \in Places(n) :
        s = fr.to /\ k = fr.link /\ a = fr.src /\ k \in Ports[n][s] /\ a \in Beyond(n, s, k)
  BY <1>2 DEF Frame, Forward
<1>4. PICK direct, out :
        /\ direct = (Heard(s, fr.dst) /\ table[s][fr.dst] # k)
        /\ out = IF direct THEN {table[s][fr.dst]} ELSE Ports[n][s] \ {k}
        /\ ub = Taught(table, s, a, k)
        /\ grs = (frames \ {fr}) \union On(fr, s, out)
  BY <1>3 DEF Forward, Taught
<1>5. TablesOK(n, ub) /\ a \in DOMAIN ub[s] /\ \A t \in Switches : DOMAIN table[t] \subseteq DOMAIN ub[t]
  BY <1>1, <1>3, <1>4, ForwardTable
<1>6. KnownOK(n, fs, ub, arp)
  BY <1>1, <1>5, KnownKept
<1>7. out \subseteq Ports[n][s] \ {k}
  <2>1. direct => table[s][fr.dst] \in Ports[n][s] \ {k}
    BY <1>1, <1>4 DEF Heard, TablesOK
  <2> QED BY <2>1, <1>4
<1>8. On(fr, s, out) = {Passed(n, fr, s, l) : l \in {i \in out : ~Discards(Peer(n, s, i), fr)}}
  BY OnPassed
<1>9. \A f \in fs : sent[f] \in Nat
  <2> SUFFICES ASSUME NEW f \in fs PROVE sent[f] \in Nat
    OBVIOUS
  <2>1. MaxData[f] \in Nat
    BY FlowHosts
  <2> QED BY <2>1, <1>1 DEF CountOK
<1>10. ASSUME fr.kind = "data"
       PROVE  \E j : DirectWay(n, table, fr, j) /\ out = {j}
  <2>1. PICK j : DirectWay(n, table, fr, j)
    BY <1>1, <1>3, <1>10, DataWay
  <2>2. direct = TRUE
    BY <2>1, <1>3, <1>4 DEF DirectWay, Heard
  <2> QED BY <2>1, <2>2, <1>3, <1>4 DEF DirectWay
<1>11. ASSUME NEW l \in out, ~Discards(Peer(n, s, l), fr)
       PROVE  FrameOK(n, fs, ub, arp, sent, Passed(n, fr, s, l))
  <2>1. l \in Ports[n][s] /\ l # k
    BY <1>7
  <2>2. a \notin Beyond(n, s, l)
    BY <2>1, <1>3, SidesApart
  <2>3. fr.kind = "data" => /\ fr.dst \in Beyond(n, s, l)
                            /\ fr.flow[1] \in Disturbances => Explicit(n, Passed(n, fr, s, l))
    BY <1>3, <1>10 DEF DirectWay
  <2>4. Heading(n, fs, Passed(n, fr, s, l))
    BY <2>1, <2>2, <2>3, <1>2, <1>3, <1>11, PassedHeading
  <2>5. PICK y : y = Passed(n, fr, s, l)
    OBVIOUS
  <2>6. y.kind = fr.kind /\ y.flow = fr.flow /\ y.nr = fr.nr /\ y.src = a /\ y.to = Peer(n, s, l)
    BY <2>1, <2>5, <1>2, <1>3, PassedFields
  <2>7. Trail(n, ub, a, Peer(n, s, l))
    <3>1. Trail(n, table, a, s)
      BY <1>1, <1>3 DEF FrameOK
    <3> QED BY <3>1, <2>1, <1>5, TrailForward
  <2>8. fr.kind = "data" => arp[fr.flow] = "known" /\ fr.nr < sent[fr.flow]
    BY <1>1 DEF FrameOK
  <2> QED BY <2>4, <2>5, <2>6, <2>7, <2>8 DEF FrameOK
<1>12. ASSUME NEW y \in grs PROVE FrameOK(n, fs, ub, arp, sent, y)
  <2>1. CASE y \in frames
    BY <2>1, <1>1, <1>5, <1>9, FrameKept
  <2>2. CASE y \in On(fr, s, out)
    BY <2>2, <1>8, <1>11
  <2> QED BY <2>1, <2>2, <1>4
<1>13. ASSUME NEW f \in fs PROVE CountOK(grs, f, sent[f], got[f])
  <2>1. CASE fr.kind = "data" /\ fr.flow = f
    <3>1. PICK j : DirectWay(n, table, fr, j) /\ out = {j}
      BY <2>1, <1>10
    <3>2. PICK y : y = Passed(n, fr, s, j)
      OBVIOUS
    <3>3. j \in Ports[n][s] /\ ~Discards(Peer(n, s, j), fr)
      BY <3>1, <1>3 DEF DirectWay
    <3>4. y.kind = "data" /\ y.flow = f /\ y.nr = fr.nr
      BY <2>1, <3>2, <3>3, <1>2, PassedFields
    <3>5. grs = (frames \ {fr}) \union {y}
      BY <3>1, <3>2, <3>3, <1>4, <1>8
    <3> QED BY <2>1, <3>4, <3>5, <1>1, CountSwap
  <2>2. CASE ~(fr.kind = "data" /\ fr.flow = f)
    <3>1. \A y \in On(fr, s, out) : y.kind = fr.kind /\ y.flow = fr.flow
      BY <1>2, <1>7, <1>8, PassedFields
    <3>2. DataOf(grs, f) = DataOf(frames, f)
      BY <2>2, <3>1, <1>4 DEF DataOf
    <3> QED BY <3>2, <1>1, CountSame
  <2> QED BY <2>1, <2>2
<1> QED BY <1>5, <1>6, <1>12, <1>13

\* The invariant is inductive.
LEMMA InvStep == IInv /\ [Next]_vars => IInv'
<1> SUFFICES ASSUME IInv, [Next]_vars PROVE IInv'
  OBVIOUS
<1>1. ASSUME NEW f \in flows, Resolve(f) PROVE IInv'
  BY <1>1, ResolveStep
<1>2. ASSUME NEW f \in flows, Send(f) PROVE IInv'
  BY <1>2, SendStep
<1>3. ASSUME NEW fr \in frames, Forward(fr) PROVE IInv'
  BY <1>3, ForwardStep
<1>4. ASSUME NEW fr \in frames, Receive(fr) PROVE IInv'
  <2>1. fr.to \notin Switches /\ UNCHANGED <<net, flows, table, sent>>
    BY <1>4 DEF Receive
  <2>2. CASE Answer(fr)
    BY <2>1, <2>2, AnswerStep
  <2>3. CASE Accept(fr)
    BY <2>1, <2>3, AcceptStep
  <2> QED BY <1>4, <2>2, <2>3 DEF Receive
<1>5. CASE UNCHANGED vars
  BY <1>5 DEF vars, IInv
<1> QED BY <1>1, <1>2, <1>3, <1>4, <1>5 DEF Next

-----------------------------------------------------------------------------
(* What the invariant says.                                                *)

\* It says that variables keep their type,
LEMMA ImpliesTypeOK == IInv => TypeOK
<1> SUFFICES ASSUME IInv PROVE TypeOK
  OBVIOUS
<1>1. /\ net \in Networks /\ flows \in FlowSets[net] /\ TablesOK(net, table) /\ KnownOK(net, flows, table, arp)
      /\ \A fr \in frames : FrameOK(net, flows, table, arp, sent, fr)
      /\ \A f \in flows : CountOK(frames, f, sent[f], got[f])
  BY DEF IInv
<1>2. ASSUME NEW q \in QueueSet(net) PROVE q[1] \in Switches /\ q[2] < Cardinality(Ports[net][q[1]])
  <2>1. PICK s \in Places(net) \intersect Switches : s = q[1] /\ q[2] = 0
    BY <1>1, NetworkTree
  <2>2. PICK k \in 1 .. Len(Links[net]) : s \in Ends(net, k)
    <3>1. s \in PlacesOf(Links[net])
      BY <1>1, NetworkTree
    <3> QED BY <3>1 DEF PlacesOf, Ends
  <2>3. Ports[net][s] \subseteq 1 .. Len(Links[net]) /\ k \in Ports[net][s] /\ Len(Links[net]) \in Nat
    BY <1>1, <2>2, NetworkTree
  <2>4. IsFiniteSet(1 .. Len(Links[net]))
    BY <2>3, FS_Interval
  <2>5. IsFiniteSet(Ports[net][s])
    BY <2>3, <2>4, FS_Subset
  <2>6. Cardinality(Ports[net][s]) \in Nat /\ Cardinality(Ports[net][s]) # 0
    BY <2>3, <2>5, FS_CardinalityType, FS_EmptySet
  <2> QED BY <2>1, <2>6
<1>3. ASSUME NEW fr \in frames
      PROVE  fr.kind \in {"request", "reply", "data"} /\ fr.flow \in flows /\ fr.link \in Ports[net][fr.to]
  BY <1>1 DEF FrameOK, Heading, Frame
<1>4. ASSUME NEW s \in Switches, NEW h, Heard(s, h) PROVE table[s][h] \in Ports[net][s]
  BY <1>1, <1>4 DEF TablesOK, Heard
<1>5. arp \in [flows -> {"unknown", "asked", "known"}]
  BY <1>1 DEF KnownOK
<1>6. ASSUME NEW f \in flows PROVE sent[f] \in 0 .. MaxData[f] /\ got[f] \in 0 .. sent[f]
  <2>1. /\ sent[f] \in 0 .. MaxData[f] /\ got[f] \in Nat /\ IsFiniteSet(DataOf(frames, f))
        /\ got[f] + Cardinality(DataOf(frames, f)) = sent[f]
    BY <1>1 DEF CountOK
  <2>2. Cardinality(DataOf(frames, f)) \in Nat
    BY <2>1, FS_CardinalityType
  <2> QED BY <2>1, <2>2
<1> QED BY <1>1, <1>2, <1>3, <1>4, <1>5, <1>6 DEF TypeOK

\* that tables are true,
LEMMA ImpliesTables == IInv => TablesTrue
<1> SUFFICES ASSUME IInv, NEW s \in Switches, NEW h \in DOMAIN table[s]
             PROVE  {k \in Ports[net][s] : h \in Side[net][s][k]} = {table[s][h]}
  BY DEF TablesTrue
<1>1. net \in Networks /\ s \in Places(net) /\ table[s][h] \in Ports[net][s] /\ h \in Beyond(net, s, table[s][h])
  BY DEF IInv, TablesOK
<1>2. \A k \in Ports[net][s] : Side[net][s][k] = Beyond(net, s, k)
  BY <1>1, SideIsBeyond
<1>3. \A k \in Ports[net][s] : h \in Beyond(net, s, k) => k = table[s][h]
  BY <1>1, SidesApart
<1> QED BY <1>1, <1>2, <1>3

\* that data frames are never multiplied,
LEMMA ImpliesOneCopy == IInv => DataNotFlooded
  BY DEF IInv, DataNotFlooded, CountOK, DataOf

\* and that explicit congestion is local.
LEMMA ImpliesLocal == IInv => CongestionLocal
<1> SUFFICES ASSUME IInv, NEW f \in flows, f[1] \in Disturbances,
                    NEW fr \in frames, fr.kind = "data", fr.flow = f
             PROVE  fr.via \subseteq {Device(net, f[1], k) : k \in Ports[net][f[1]]} \union
                                     {Device(net, Peer(net, f[2], k), k) : k \in Ports[net][f[2]]}
  BY DEF CongestionLocal
<1>1. Explicit(net, fr)
  BY DEF IInv, FrameOK, Heading
<1>2. PICK j \in 1 .. Len(Links[net]), k \in 1 .. Len(Links[net]), s \in Places(net) :
        /\ Ports[net][f[1]] = {j} /\ Ports[net][f[2]] = {k} /\ Peer(net, f[2], k) = s
        /\ fr.via \in {{Device(net, f[1], j)}, {Device(net, f[1], j), Device(net, s, k)}}
  BY <1>1 DEF Explicit
<1> QED BY <1>2

-----------------------------------------------------------------------------
(* The route of a flow.                                                    *)

\* A node is reached by the link behind which it is.
LEMMA OnwardIs ==
  ASSUME NEW n \in Networks, NEW m \in Places(n), NEW k \in Ports[n][m], NEW h \in Beyond(n, m, k)
  PROVE  Onward(n, m, h) = k
<1>1. ASSUME NEW l \in Ports[n][m], m \in Switches => h \in Side[n][m][l] PROVE l = k
  <2>1. CASE m \in Switches
    <3>1. h \in Beyond(n, m, l)
      BY <2>1, <1>1, SideIsBeyond
    <3> QED BY <3>1, SidesApart
  <2>2. CASE m \notin Switches
    BY <2>2, HostPort
  <2> QED BY <2>1, <2>2
<1>2. m \in Switches => h \in Side[n][m][k]
  BY SideIsBeyond
<1> QED BY <1>1, <1>2 DEF Onward

\* So a step towards it is a step to its side.
LEMMA OnwardLink ==
  ASSUME NEW n \in Networks, NEW m \in Places(n), NEW h \in Places(n), m # h
  PROVE  Onward(n, m, h) \in Ports[n][m] /\ h \in Beyond(n, m, Onward(n, m, h))
<1>1. PICK k \in Ports[n][m] : h \in Beyond(n, m, k)
  BY SidesAround
<1> QED BY <1>1, OnwardIs

\* From behind a link, what is behind it is not reached by that link.
LEMMA NoReturn ==
  ASSUME NEW n \in Networks, NEW m \in Places(n), NEW k \in Ports[n][m],
         NEW x \in Beyond(n, m, k), NEW h \in Beyond(n, m, k), x # h
  PROVE  Onward(n, x, h) # k
<1> SUFFICES ASSUME Onward(n, x, h) = k PROVE FALSE
  OBVIOUS
<1>1. x \in Places(n) /\ h \in Places(n) /\ x # m
  BY BeyondSides
<1>2. k \in Ports[n][x] /\ h \in Beyond(n, x, k)
  BY <1>1, OnwardLink
<1>3. x \in Ends(n, k) /\ Ends(n, k) = {m, Peer(n, m, k)}
  BY <1>1, <1>2, PeerEnds
<1>4. x = Peer(n, m, k)
  BY <1>1, <1>3
<1>5. Beyond(n, x, k) = Places(n) \ Beyond(n, m, k)
  BY <1>4, BeyondSides
<1> QED BY <1>2, <1>5

\* w goes from the sender of f to its receiver.
IsWay(w, n, f) ==
  /\ w \in [0 .. Len(Links[n]) -> Places(n)]
  /\ w[0] = f[1]
  /\ \A i \in 1 .. Len(Links[n]) :
       w[i] = IF w[i - 1] = f[2] THEN f[2] ELSE Peer(n, w[i - 1], Onward(n, w[i - 1], f[2]))

\* The way that the model computes.
LEMMA WayRecursion ==
  ASSUME NEW n \in Networks, NEW fs \in FlowSets[n], NEW f \in fs
  PROVE  IsWay(Way[n][f], n, f)
<1> DEFINE N == Len(Links[n])
           V == Places(n)
           Further(m) == IF m = f[2] THEN f[2] ELSE Peer(n, m, Onward(n, m, f[2]))
           IsW(w) == w = [i \in 0 .. N |-> IF i = 0 THEN f[1]
                            ELSE IF w[i - 1] = f[2] THEN f[2]
                                 ELSE Peer(n, w[i - 1], Onward(n, w[i - 1], f[2]))]
           W == CHOOSE w : IsW(w)
           G == [x \in (1 .. N) \X V |-> Further(x[2])]
<1>1. N \in Nat
  BY NetworkTree
<1>2. Way[n][f] = W
  <2>1. f \in UNION FlowSets[n]
    OBVIOUS
  <2> QED BY <2>1 DEF Way
<1>3. f[1] \in V /\ f[2] \in V
  BY FlowHosts
<1>4. \A m \in V : Further(m) \in V
  <2> SUFFICES ASSUME NEW m \in V, m # f[2] PROVE Peer(n, m, Onward(n, m, f[2])) \in V
    BY <1>3
  <2>1. Onward(n, m, f[2]) \in Ports[n][m]
    BY <1>3, OnwardLink
  <2> QED BY <2>1, PeerEnds
<1>5. \E w : IsW(w) /\ w \in [0 .. N -> V]
  <2>1. G \in [(1 .. N) \X V -> V]
    <3> HIDE DEF Further, V
    <3> QED BY <1>4
  <2>2. \A i \in 1 .. N, v \in V : G[<<i, v>>] = Further(v)
    <3> HIDE DEF Further, V
    <3> QED OBVIOUS
  <2> DEFINE v0 == f[1]
  <2>3. v0 \in V
    BY <1>3
  <2> HIDE DEF G, V, N, v0
  <2>4. PICK w : ByRecursion(w, V, v0, N, G)
    BY <1>1, <2>1, <2>3, RecursionExists
  <2>5. w \in [0 .. N -> V] /\ w[0] = v0 /\ \A i \in 1 .. N : w[i] = G[<<i, w[i - 1]>>]
    BY <2>4 DEF ByRecursion
  <2>6. ASSUME NEW i \in 1 .. N PROVE w[i] = Further(w[i - 1])
    <3>1. i - 1 \in 0 .. N
      BY <1>1
    <3>2. w[i - 1] \in V
      BY <3>1, <2>5
    <3> HIDE DEF Further
    <3> QED BY <3>2, <2>2, <2>5
  <2>7. \A i \in 0 .. N : i = 0 \/ i \in 1 .. N
    BY <1>1
  <2>8. w = [i \in 0 .. N |-> w[i]]
    BY <2>5
  <2>9. IsW(w)
    BY <2>5, <2>6, <2>7, <2>8 DEF v0
  <2> QED BY <2>5, <2>9
<1>6. IsW(W)
  BY <1>5
<1> HIDE DEF W
<1>7. W[0] = f[1]
  BY <1>6, <1>1
<1>8. ASSUME NEW i \in 1 .. N PROVE W[i] = Further(W[i - 1])
  <2>1. i \in 0 .. N /\ i # 0
    BY <1>1
  <2> QED BY <2>1, <1>6
<1>9. \A i \in 0 .. N : W[i] \in V
  <2> DEFINE P == {i \in Nat : i \in 0 .. N => W[i] \in V}
  <2>1. 0 \in P
    BY <1>3, <1>7
  <2>2. ASSUME NEW i \in Nat, i \in P PROVE i + 1 \in P
    <3> SUFFICES ASSUME i + 1 \in 1 .. N PROVE W[i + 1] \in V
      BY <1>1
    <3>1. i \in 0 .. N /\ (i + 1) - 1 = i
      BY <1>1
    <3>2. W[i] \in V
      BY <3>1, <2>2
    <3>3. W[i + 1] = Further(W[i])
      BY <3>1, <1>8
    <3> HIDE DEF Further, V
    <3> QED BY <3>2, <3>3, <1>4
  <2>3. \A i \in Nat : i \in P
    <3> HIDE DEF P
    <3> QED BY <2>1, <2>2, NumberInduction
  <2> QED BY <2>3, <1>1
<1>10. W \in [0 .. N -> V]
  <2>1. W = [i \in 0 .. N |-> W[i]]
    BY <1>6
  <2> QED BY <2>1, <1>9
<1> QED BY <1>2, <1>7, <1>8, <1>10 DEF IsWay

\* The link by which the way goes on, the i-th time.
WayLink(w, n, f, i) == Onward(n, w[i - 1], f[2])

\* A step of the way.
LEMMA WayStep ==
  ASSUME NEW n \in Networks, NEW fs \in FlowSets[n], NEW f \in fs, NEW w, IsWay(w, n, f),
         NEW i \in Nat, i < Len(Links[n]) + 1, w[i] # f[2]
  PROVE  /\ WayLink(w, n, f, i + 1) \in Ports[n][w[i]]
         /\ f[2] \in Beyond(n, w[i], WayLink(w, n, f, i + 1))
         /\ i < Len(Links[n]) => w[i + 1] = Peer(n, w[i], WayLink(w, n, f, i + 1))
<1>1. Len(Links[n]) \in Nat
  BY NetworkTree
<1>2. i \in 0 .. Len(Links[n]) /\ (i + 1) - 1 = i
  BY <1>1
<1>3. w[i] \in Places(n) /\ f[2] \in Places(n)
  BY <1>2, FlowHosts DEF IsWay
<1>4. Onward(n, w[i], f[2]) \in Ports[n][w[i]] /\ f[2] \in Beyond(n, w[i], Onward(n, w[i], f[2]))
  BY <1>3, OnwardLink
<1>5. ASSUME i < Len(Links[n]) PROVE w[i + 1] = Peer(n, w[i], Onward(n, w[i], f[2]))
  <2>1. i + 1 \in 1 .. Len(Links[n])
    BY <1>1, <1>5
  <2> QED BY <2>1, <1>2 DEF IsWay
<1> QED BY <1>2, <1>4, <1>5 DEF WayLink

\* The way stays on the far side of every link it has passed.
LEMMA WayBehind ==
  ASSUME NEW n \in Networks, NEW fs \in FlowSets[n], NEW f \in fs, NEW w, IsWay(w, n, f),
         NEW i \in Nat, NEW j \in Nat, i < j, j < Len(Links[n]) + 1, w[i] # f[2]
  PROVE  w[j] \in Beyond(n, w[i], WayLink(w, n, f, i + 1))
<1> DEFINE N == Len(Links[n])
           k == WayLink(w, n, f, i + 1)
           B == Beyond(n, w[i], k)
           P == {d \in Nat : i + 1 + d < N + 1 => w[i + 1 + d] \in B}
<1>1. N \in Nat /\ i < N
  BY NetworkTree
<1>2. w[i] \in Places(n) /\ k \in Ports[n][w[i]] /\ f[2] \in B /\ w[i + 1] = Peer(n, w[i], k)
  <2>1. w[i] \in Places(n)
    <3>1. i \in 0 .. N
      BY <1>1
    <3> QED BY <3>1 DEF IsWay
  <2> QED BY <2>1, <1>1, WayStep
<1>3. w[i + 1] \in B /\ SameSide(n, w[i], k)
  BY <1>2, BeyondSides
<1>4. 0 \in P
  BY <1>3
<1>5. ASSUME NEW d \in Nat, d \in P PROVE d + 1 \in P
  <2> SUFFICES ASSUME i + 1 + (d + 1) < N + 1 PROVE w[i + 1 + (d + 1)] \in B
    OBVIOUS
  <2>1. PICK e \in Nat : e = i + 1 + d /\ e < N /\ e + 1 = i + 1 + (d + 1) /\ e + 1 \in 1 .. N /\ (e + 1) - 1 = e
                         /\ e \in 0 .. N
    BY <1>1
  <2>2. w[e] \in B
    BY <2>1, <1>5, <1>1
  <2>3. CASE w[e] = f[2]
    <3>1. w[e + 1] = f[2]
      BY <2>1, <2>3 DEF IsWay
    <3> QED BY <3>1, <2>1, <1>2
  <2>4. CASE w[e] # f[2]
    <3>1. PICK l : l = WayLink(w, n, f, e + 1)
      OBVIOUS
    <3>2. w[e] \in Places(n)
      BY <2>1 DEF IsWay
    <3>3. l \in Ports[n][w[e]] /\ w[e + 1] = Peer(n, w[e], l)
      BY <3>1, <2>1, <2>4, <1>1, WayStep
    <3>4. l \in 1 .. N /\ Ends(n, l) = {w[e], w[e + 1]}
      BY <3>2, <3>3, PeerEnds
    <3>5. l # k
      <4>1. l = Onward(n, w[e], f[2])
        BY <3>1, <2>1 DEF WayLink
      <4> HIDE DEF k
      <4> QED BY <4>1, <2>2, <2>4, <1>2, NoReturn
    <3>6. w[e + 1] \in B
      <4> HIDE DEF k
      <4> QED BY <3>4, <3>5, <2>2, <1>3 DEF SameSide
    <3> QED BY <3>6, <2>1
  <2> QED BY <2>3, <2>4
<1>6. \A d \in Nat : d \in P
  <2> HIDE DEF P
  <2> QED BY <1>4, <1>5, NumberInduction
<1>7. PICK d \in Nat : j = i + 1 + d
  <2>1. j - (i + 1) \in Nat /\ j = i + 1 + (j - (i + 1))
    OBVIOUS
  <2> QED BY <2>1
<1>8. d \in P
  BY <1>6
<1> QED BY <1>7, <1>8

\* So it takes no link twice,
LEMMA LinksDiffer ==
  ASSUME NEW n \in Networks, NEW fs \in FlowSets[n], NEW f \in fs, NEW w, IsWay(w, n, f),
         NEW i \in Nat, NEW j \in Nat, i < j, j < Len(Links[n]) + 1, w[i] # f[2], w[j] # f[2]
  PROVE  WayLink(w, n, f, i + 1) # WayLink(w, n, f, j + 1)
<1> DEFINE N == Len(Links[n])
<1>1. N \in Nat /\ i \in 0 .. N /\ i < N + 1
  BY NetworkTree
<1>2. PICK k : k = WayLink(w, n, f, i + 1)
  OBVIOUS
<1>3. w[i] \in Places(n)
  BY <1>1 DEF IsWay
<1>4. k \in Ports[n][w[i]] /\ f[2] \in Beyond(n, w[i], k)
  BY <1>1, <1>2, WayStep
<1>5. w[j] \in Beyond(n, w[i], k)
  BY <1>2, WayBehind
<1>6. WayLink(w, n, f, j + 1) = Onward(n, w[j], f[2])
  <2>1. (j + 1) - 1 = j
    OBVIOUS
  <2> QED BY <2>1 DEF WayLink
<1> QED BY <1>2, <1>3, <1>4, <1>5, <1>6, NoReturn

\* and with as many links as there are it has reached the receiver.
LEMMA WayEnds ==
  ASSUME NEW n \in Networks, NEW fs \in FlowSets[n], NEW f \in fs, NEW w, IsWay(w, n, f)
  PROVE  \E i \in 0 .. Len(Links[n]) : w[i] = f[2]
<1> SUFFICES ASSUME \A i \in 0 .. Len(Links[n]) : w[i] # f[2] PROVE FALSE
  OBVIOUS
<1> DEFINE N == Len(Links[n])
           g == [i \in 0 .. N |-> WayLink(w, n, f, i + 1)]
<1>1. N \in Nat
  BY NetworkTree
<1>2. g \in [0 .. N -> 1 .. N]
  <2> SUFFICES ASSUME NEW i \in 0 .. N PROVE WayLink(w, n, f, i + 1) \in 1 .. N
    OBVIOUS
  <2>1. i \in Nat /\ i < N + 1 /\ w[i] # f[2] /\ w[i] \in Places(n)
    BY <1>1 DEF IsWay
  <2>2. WayLink(w, n, f, i + 1) \in Ports[n][w[i]]
    BY <2>1, WayStep
  <2> QED BY <2>1, <2>2, PeerEnds
<1>3. /\ IsFiniteSet(0 .. N) /\ Cardinality(0 .. N) = N + 1
      /\ IsFiniteSet(1 .. N) /\ Cardinality(1 .. N) < N + 1
  <2> HIDE DEF N
  <2>1. 0 \in Int /\ 1 \in Int /\ N \in Int
    BY <1>1
  <2>2. IsFiniteSet(0 .. N) /\ Cardinality(0 .. N) = N + 1
    <3>1. Cardinality(0 .. N) = IF 0 > N THEN 0 ELSE N - 0 + 1
      BY <2>1, FS_Interval
    <3> QED BY <3>1, <2>1, <1>1, FS_Interval
  <2>3. IsFiniteSet(1 .. N) /\ Cardinality(1 .. N) = N
    <3>1. Cardinality(1 .. N) = IF 1 > N THEN 0 ELSE N - 1 + 1
      BY <2>1, FS_Interval
    <3> QED BY <3>1, <2>1, <1>1, FS_Interval
  <2> QED BY <2>2, <2>3, <1>1
<1>4. PICK i \in 0 .. N, j \in 0 .. N : i # j /\ g[i] = g[j]
  <2> HIDE DEF g
  <2> QED BY <1>2, <1>3, FS_PigeonHole
<1>5. i \in Nat /\ j \in Nat /\ i < N + 1 /\ j < N + 1 /\ w[i] # f[2] /\ w[j] # f[2]
  BY <1>1
<1>6. WayLink(w, n, f, i + 1) = WayLink(w, n, f, j + 1)
  BY <1>4
<1>7. i < j \/ j < i
  BY <1>4, <1>5
<1> QED BY <1>5, <1>6, <1>7, LinksDiffer

\* Devices of different links, or of different nodes, are different.
LEMMA DevicesApart ==
  ASSUME NEW n \in Networks, NEW m \in Places(n), NEW k \in Ports[n][m],
         NEW x \in Places(n), NEW j \in Ports[n][x], Device(n, m, k) = Device(n, x, j)
  PROVE  m = x /\ k = j
<1> DEFINE Below(l) == {i \in Ports[n][m] : i < l}
<1>1. m = x /\ Cardinality(Below(k)) = Cardinality(Below(j))
  BY DEF Device
<1>2. Ports[n][m] \subseteq 1 .. Len(Links[n]) /\ Len(Links[n]) \in Nat
  BY NetworkTree
<1>3. IsFiniteSet(Ports[n][m])
  <2>1. IsFiniteSet(1 .. Len(Links[n]))
    BY <1>2, FS_Interval
  <2> QED BY <2>1, <1>2, FS_Subset
<1>4. ASSUME NEW a \in Ports[n][m], NEW b \in Ports[n][m], a < b
      PROVE  Cardinality(Below(a)) # Cardinality(Below(b))
  <2>1. a \in Nat /\ b \in Nat /\ Below(a) \subseteq Below(b) /\ a \in Below(b) /\ a \notin Below(a)
    BY <1>2, <1>4
  <2>2. IsFiniteSet(Below(b))
    BY <1>3, FS_Subset
  <2> HIDE DEF Below
  <2> QED BY <2>1, <2>2, FS_Subset
<1>5. j \in Ports[n][m] /\ k \in Nat /\ j \in Nat
  BY <1>1, <1>2
<1> QED BY <1>1, <1>4, <1>5

\* What the model says of a route: the devices of its way, up to the receiver.
IsRoute(w, r, n, f) ==
  /\ Len(r) \in 1 .. Len(Links[n]) /\ r = [i \in 1 .. Len(r) |-> r[i]]
  /\ w[0] = f[1] /\ w[Len(r)] = f[2]
  /\ \A i \in 1 .. Len(r) :
       /\ w[i - 1] \in Places(n) /\ w[i - 1] # f[2]
       /\ WayLink(w, n, f, i) \in Ports[n][w[i - 1]]
       /\ w[i] = Peer(n, w[i - 1], WayLink(w, n, f, i))
       /\ r[i] = Device(n, w[i - 1], WayLink(w, n, f, i))
  /\ \A i, j \in 1 .. Len(r) : r[i] = r[j] => i = j

\* The route has an end, and no device twice.
LEMMA RouteIs ==
  ASSUME NEW n \in Networks, NEW fs \in FlowSets[n], NEW f \in fs
  PROVE  IsRoute(Way[n][f], Route[n][f], n, f)
<1> DEFINE N == Len(Links[n])
<1>1. PICK w, r : w = Way[n][f] /\ r = Route[n][f]
  OBVIOUS
<1>2. IsWay(w, n, f)
  BY <1>1, WayRecursion
<1>3. N \in Nat
  BY NetworkTree
<1>4. r = [i \in {j \in 1 .. N : w[j - 1] # f[2]} |-> Device(n, w[i - 1], WayLink(w, n, f, i))]
  <2>1. f \in UNION FlowSets[n]
    OBVIOUS
  <2> QED BY <2>1, <1>1 DEF Route, WayLink
<1>5. PICK M \in 0 .. N : w[M] = f[2] /\ \A i \in 0 .. N : w[i] = f[2] => M <= i
  <2> DEFINE S == {i \in 0 .. N : w[i] = f[2]}
  <2>1. S \in SUBSET Nat /\ S # {}
    BY <1>2, <1>3, WayEnds
  <2>2. PICK M \in S : \A i \in S : M <= i
    <3> HIDE DEF S
    <3> QED BY <2>1, LeastNumber
  <2> QED BY <2>2
<1>6. M # 0
  <2>1. w[0] = f[1] /\ f[1] # f[2]
    BY <1>2, FlowHosts DEF IsWay
  <2> QED BY <2>1, <1>5
<1>7. \A i \in 0 .. N : i >= M => w[i] = f[2]
  <2> DEFINE P == {i \in Nat : i \in 0 .. N /\ i >= M => w[i] = f[2]}
  <2>1. 0 \in P
    BY <1>5, <1>6
  <2>2. ASSUME NEW i \in Nat, i \in P PROVE i + 1 \in P
    <3> SUFFICES ASSUME i + 1 \in 0 .. N, i + 1 > M PROVE w[i + 1] = f[2]
      BY <1>5
    <3>1. i \in 0 .. N /\ i >= M /\ i + 1 \in 1 .. N /\ (i + 1) - 1 = i
      BY <1>3, <1>5
    <3>2. w[i] = f[2]
      BY <3>1, <2>2
    <3> QED BY <3>1, <3>2, <1>2 DEF IsWay
  <2>3. \A i \in Nat : i \in P
    <3> HIDE DEF P
    <3> QED BY <2>1, <2>2, NumberInduction
  <2> QED BY <2>3, <1>3
<1>8. {j \in 1 .. N : w[j - 1] # f[2]} = 1 .. M
  <2>1. ASSUME NEW j \in 1 .. N PROVE w[j - 1] # f[2] <=> j <= M
    <3>1. j - 1 \in 0 .. N
      BY <1>3
    <3> QED BY <3>1, <1>3, <1>5, <1>7
  <2> QED BY <2>1, <1>3, <1>5
<1>9. r = [i \in 1 .. M |-> Device(n, w[i - 1], WayLink(w, n, f, i))]
  BY <1>4, <1>8
<1>10. Len(r) = M /\ M \in 1 .. N
  <2>1. M \in Nat
    BY <1>3, <1>5
  <2>2. DOMAIN r = 1 .. M
    BY <1>9
  <2>3. r \in Seq({r[i] : i \in 1 .. M})
    <3>1. r = [i \in 1 .. M |-> r[i]]
      BY <1>9
    <3>2. r \in [1 .. M -> {r[i] : i \in 1 .. M}]
      BY <3>1
    <3> QED BY <3>2, <2>1
  <2> QED BY <2>1, <2>2, <2>3, <1>3, <1>5, <1>6
<1>11. ASSUME NEW i \in 1 .. M
       PROVE  /\ i - 1 \in Nat /\ i - 1 < N + 1 /\ (i - 1) + 1 = i
              /\ w[i - 1] \in Places(n) /\ w[i - 1] # f[2]
              /\ WayLink(w, n, f, i) \in Ports[n][w[i - 1]]
              /\ w[i] = Peer(n, w[i - 1], WayLink(w, n, f, i))
              /\ r[i] = Device(n, w[i - 1], WayLink(w, n, f, i))
  <2>1. i - 1 \in 0 .. N /\ i - 1 < N /\ i - 1 < N + 1 /\ i - 1 \in Nat /\ (i - 1) + 1 = i /\ ~(M <= i - 1)
    BY <1>3, <1>5
  <2>2. w[i - 1] \in Places(n) /\ w[i - 1] # f[2]
    BY <2>1, <1>2, <1>5 DEF IsWay
  <2>3. PICK d : d = i - 1 /\ d \in Nat /\ d < N + 1 /\ d < N /\ d + 1 = i
    BY <2>1
  <2>4. WayLink(w, n, f, d + 1) \in Ports[n][w[d]] /\ w[d + 1] = Peer(n, w[d], WayLink(w, n, f, d + 1))
    BY <2>2, <2>3, <1>2, WayStep
  <2> QED BY <2>1, <2>2, <2>3, <2>4, <1>9
<1>12. ASSUME NEW i \in 1 .. M, NEW j \in 1 .. M, r[i] = r[j] PROVE i = j
  <2>1. WayLink(w, n, f, i) = WayLink(w, n, f, j)
    BY <1>11, <1>12, DevicesApart
  <2>2. ASSUME NEW a \in 1 .. M, NEW b \in 1 .. M, a < b PROVE WayLink(w, n, f, a) # WayLink(w, n, f, b)
    <3>1. PICK c \in Nat, d \in Nat : c + 1 = a /\ d + 1 = b /\ c < d /\ d < N + 1 /\ w[c] # f[2] /\ w[d] # f[2]
      <4>1. a - 1 \in Nat /\ b - 1 \in Nat /\ a - 1 < b - 1
        BY <2>2, <1>11
      <4> QED BY <4>1, <1>11
    <3>2. WayLink(w, n, f, c + 1) # WayLink(w, n, f, d + 1)
      BY <3>1, <1>2, LinksDiffer
    <3> QED BY <3>1, <3>2
  <2>3. i < j \/ j < i \/ i = j
    OBVIOUS
  <2> QED BY <2>1, <2>2, <2>3
<1>13. w[0] = f[1]
  BY <1>2 DEF IsWay
<1>14. IsRoute(w, r, n, f)
  BY <1>5, <1>9, <1>10, <1>11, <1>12, <1>13 DEF IsRoute
<1> QED BY <1>1, <1>14

-----------------------------------------------------------------------------
(* Data frames keep to the route.                                          *)

\* A frame is at a node of its flow's way, and has passed the devices up to it.
At(n, fr, i) ==
  /\ i \in 1 .. Len(Route[n][fr.flow]) /\ fr.to = Way[n][fr.flow][i]
  /\ fr.via = {Route[n][fr.flow][j] : j \in 1 .. i}

RouteInv == \A fr \in frames : fr.kind = "data" => \E i : At(net, fr, i)

DataIn(frs) == {fr \in frs : fr.kind = "data"}

\* What a host sends has passed the first device of the route.
LEMMA SendAt ==
  ASSUME IInv, NEW f \in flows, Send(f)
  PROVE  \E x : /\ frames' = frames \union {x} /\ x.kind = "data" /\ x.flow = f /\ x.nr = sent[f]
                /\ At(net, x, 1)
<1>1. net \in Networks /\ flows \in FlowSets[net] /\ sent[f] \in Nat
  <2>1. CountOK(frames, f, sent[f], got[f]) /\ net \in Networks /\ flows \in FlowSets[net]
    BY DEF IInv
  <2>2. MaxData[f] \in Nat
    BY <2>1, FlowHosts
  <2> QED BY <2>1, <2>2 DEF CountOK
<1>2. Launched(FromHost("data", f, sent[f], f[1], f[2]), "data", f, sent[f])
  BY <1>1, HostFrame
<1>3. PICK x : /\ FromHost("data", f, sent[f], f[1], f[2]) = {x} /\ x.kind = "data" /\ x.flow = f /\ x.nr = sent[f]
               /\ Heading(net, flows, x)
               /\ \E k : /\ Ports[net][x.src] = {k} /\ x.to = Peer(net, x.src, k)
                         /\ x.via = {Device(net, x.src, k)}
  BY <1>2 DEF Launched
<1>4. x.src = f[1]
  BY <1>3 DEF Heading, Addressed
<1>5. PICK k : Ports[net][f[1]] = {k} /\ x.to = Peer(net, f[1], k) /\ x.via = {Device(net, f[1], k)}
  BY <1>3, <1>4
<1>6. PICK w, r : w = Way[net][f] /\ r = Route[net][f] /\ IsRoute(w, r, net, f)
  BY <1>1, RouteIs
<1>7. 1 \in 1 .. Len(r) /\ 1 - 1 = 0
  BY <1>6 DEF IsRoute
<1>8. /\ WayLink(w, net, f, 1) \in Ports[net][w[0]] /\ w[0] = f[1]
      /\ w[1] = Peer(net, w[0], WayLink(w, net, f, 1)) /\ r[1] = Device(net, w[0], WayLink(w, net, f, 1))
  BY <1>6, <1>7 DEF IsRoute
<1>9. WayLink(w, net, f, 1) = k
  BY <1>5, <1>8
<1>10. x.to = w[1] /\ x.via = {r[1]}
  BY <1>5, <1>8, <1>9
<1>11. {r[j] : j \in 1 .. 1} = {r[1]}
  OBVIOUS
<1>12. At(net, x, 1)
  BY <1>3, <1>6, <1>7, <1>10, <1>11 DEF At
<1> QED BY <1>3, <1>12 DEF Send

\* A switch passes a data frame on by the next device of the route.
LEMMA ForwardAt ==
  ASSUME IInv, RouteInv, NEW fr \in frames, Forward(fr), fr.kind = "data"
  PROVE  \E y, i : /\ frames' = (frames \ {fr}) \union {y}
                   /\ y.kind = "data" /\ y.flow = fr.flow /\ y.nr = fr.nr
                   /\ At(net, fr, i) /\ i \in 1 .. Len(Route[net][fr.flow]) - 1 /\ At(net, y, i + 1)
<1> SUFFICES ASSUME NEW n \in Networks, NEW fs \in FlowSets[n], n = net, fs = flows
             PROVE  \E y, i : /\ frames' = (frames \ {fr}) \union {y}
                              /\ y.kind = "data" /\ y.flow = fr.flow /\ y.nr = fr.nr
                              /\ At(n, fr, i) /\ i \in 1 .. Len(Route[n][fr.flow]) - 1 /\ At(n, y, i + 1)
  BY DEF IInv
<1>1. n = net /\ fs = flows
  OBVIOUS
<1>2. TablesOK(n, table) /\ KnownOK(n, fs, table, arp) /\ FrameOK(n, fs, table, arp, sent, fr)
  BY <1>1 DEF IInv
<1>3. fr \in Frame(n, fs) /\ Addressed(fr)
  BY <1>2 DEF FrameOK, Heading
<1>4. PICK s \in Places(n) \intersect Switches, f \in fs : s = fr.to /\ f = fr.flow /\ fr.dst = f[2]
  BY <1>3 DEF Frame, Addressed, Forward
<1>5. PICK j : DirectWay(n, table, fr, j)
  BY <1>2, <1>4, DataWay
<1>6. /\ j \in Ports[n][s] /\ f[2] \in Beyond(n, s, j) /\ Heard(s, fr.dst)
      /\ table[s][fr.dst] = j /\ j # fr.link /\ ~Discards(Peer(n, s, j), fr)
  BY <1>4, <1>5 DEF DirectWay, Heard
<1>7. PICK y : y = Passed(n, fr, s, j)
  OBVIOUS
<1>8. frames' = (frames \ {fr}) \union {y}
  <2>1. frames' = (frames \ {fr}) \union On(fr, s, {j})
    BY <1>4, <1>6 DEF Forward
  <2>2. On(fr, s, {j}) = {Passed(n, fr, s, k) : k \in {l \in {j} : ~Discards(Peer(n, s, l), fr)}}
    BY <1>1, OnPassed
  <2> QED BY <2>1, <2>2, <1>6, <1>7
<1>9. /\ y.kind = fr.kind /\ y.flow = f /\ y.nr = fr.nr /\ y.to = Peer(n, s, j)
      /\ y.via = fr.via \union {Device(n, s, j)}
  BY <1>3, <1>4, <1>6, <1>7, PassedFields
<1>10. PICK w, r : w = Way[n][f] /\ r = Route[n][f] /\ IsRoute(w, r, n, f)
  BY RouteIs
<1>11. PICK i \in 1 .. Len(r) : At(n, fr, i) /\ s = w[i] /\ fr.via = {r[l] : l \in 1 .. i}
  BY <1>1, <1>4, <1>10 DEF RouteInv, At
<1>12. i # Len(r)
  <2>1. f[2] \notin Switches
    BY FlowHosts
  <2> QED BY <2>1, <1>10, <1>11 DEF IsRoute
<1>13. i \in 1 .. Len(r) - 1 /\ i + 1 \in 1 .. Len(r) /\ (i + 1) - 1 = i
  BY <1>10, <1>11, <1>12 DEF IsRoute
<1>14. WayLink(w, n, f, i + 1) = j
  <2>1. WayLink(w, n, f, i + 1) = Onward(n, s, f[2])
    BY <1>11, <1>13 DEF WayLink
  <2> QED BY <2>1, <1>6, OnwardIs
<1>15. w[i + 1] = Peer(n, s, j) /\ r[i + 1] = Device(n, s, j)
  BY <1>10, <1>11, <1>13, <1>14 DEF IsRoute
<1>16. {r[l] : l \in 1 .. i + 1} = {r[l] : l \in 1 .. i} \union {r[i + 1]}
  BY <1>13
<1>17. At(n, y, i + 1)
  <2>1. y.via = {r[l] : l \in 1 .. i + 1} /\ y.to = w[i + 1]
    BY <1>9, <1>11, <1>15, <1>16
  <2> QED BY <2>1, <1>9, <1>10, <1>13 DEF At
<1> QED BY <1>1, <1>4, <1>8, <1>9, <1>10, <1>11, <1>13, <1>17

\* A data frame that reaches a host has passed the whole route.
LEMMA AcceptAt ==
  ASSUME IInv, RouteInv, NEW fr \in frames, fr.to \notin Switches, fr.kind = "data"
  PROVE  At(net, fr, Len(Route[net][fr.flow]))
<1>1. PICK f \in flows : f = fr.flow /\ fr.to = f[2]
  BY AtHost DEF Addressed
<1>2. net \in Networks /\ flows \in FlowSets[net]
  BY DEF IInv
<1>3. PICK w, r : w = Way[net][f] /\ r = Route[net][f] /\ IsRoute(w, r, net, f)
  BY <1>2, RouteIs
<1>4. PICK i \in 1 .. Len(r) : At(net, fr, i) /\ w[i] = f[2]
  BY <1>1, <1>3 DEF RouteInv, At
<1>5. i = Len(r)
  <2> SUFFICES ASSUME i # Len(r) PROVE FALSE
    OBVIOUS
  <2>1. i + 1 \in 1 .. Len(r) /\ (i + 1) - 1 = i
    BY <1>3, <1>4 DEF IsRoute
  <2> QED BY <2>1, <1>3, <1>4 DEF IsRoute
<1> QED BY <1>1, <1>3, <1>4, <1>5

\* Other frames come and go without a data frame.
LEMMA OtherSteps ==
  ASSUME IInv,
         \/ \E f \in flows : Resolve(f)
         \/ \E fr \in frames : fr.kind # "data" /\ (Forward(fr) \/ Receive(fr))
  PROVE  DataIn(frames') = DataIn(frames) /\ UNCHANGED <<net, flows, sent, got>>
<1>1. ASSUME NEW f \in flows, Resolve(f)
      PROVE  DataIn(frames') = DataIn(frames) /\ UNCHANGED <<net, flows, sent, got>>
  <2>1. Launched(FromHost("request", f, 0, f[1], Everyone), "request", f, 0)
    BY HostFrame DEF IInv
  <2>2. PICK x : FromHost("request", f, 0, f[1], Everyone) = {x} /\ x.kind = "request"
    BY <2>1 DEF Launched
  <2> QED BY <2>2, <1>1 DEF Resolve, DataIn
<1>2. ASSUME NEW fr \in frames, fr.kind # "data", Forward(fr)
      PROVE  DataIn(frames') = DataIn(frames) /\ UNCHANGED <<net, flows, sent, got>>
  <2>1. PICK X : frames' = (frames \ {fr}) \union X /\ \E out : X = On(fr, fr.to, out)
    BY <1>2 DEF Forward
  <2>2. \A y \in X : y.kind = fr.kind
    <3>1. FrameOK(net, flows, table, arp, sent, fr)
      BY DEF IInv
    <3>2. fr \in Frame(net, flows)
      BY <3>1 DEF FrameOK, Heading
    <3>3. "kind" \in DOMAIN fr
      BY <3>2 DEF Frame
    <3> QED BY <3>3, <2>1 DEF On
  <2> QED BY <2>1, <2>2, <1>2 DEF Forward, DataIn
<1>3. ASSUME NEW fr \in frames, fr.kind # "data", Receive(fr)
      PROVE  DataIn(frames') = DataIn(frames) /\ UNCHANGED <<net, flows, sent, got>>
  <2>1. fr.to \notin Switches /\ UNCHANGED <<net, flows, table, sent>>
    BY <1>3 DEF Receive
  <2>2. CASE Answer(fr)
    <3>1. PICK f \in flows : f = fr.flow /\ fr.to = f[2] /\ fr.src = f[1]
      BY <2>1, <2>2, AtHost DEF Answer
    <3>2. Launched(FromHost("reply", f, 0, f[2], f[1]), "reply", f, 0)
      BY HostFrame DEF IInv
    <3>3. PICK x : FromHost("reply", f, 0, f[2], f[1]) = {x} /\ x.kind = "reply"
      BY <3>2 DEF Launched
    <3> QED BY <3>1, <3>3, <2>1, <2>2, <1>3 DEF Answer, DataIn
  <2>3. CASE Accept(fr)
    <3>1. fr.kind \in {"request", "reply", "data"}
      BY <2>1, AtHost
    <3> QED BY <3>1, <2>1, <2>3, <1>3 DEF Accept, DataIn
  <2> QED BY <1>3, <2>2, <2>3 DEF Receive
<1> QED BY <1>1, <1>2, <1>3

\* At first there is no data frame.
LEMMA RouteInit == Init => RouteInv
  BY DEF Init, RouteInv

\* Every step keeps data frames on their routes.
LEMMA RouteStep == IInv /\ RouteInv /\ [Next]_vars => RouteInv'
<1> SUFFICES ASSUME IInv, RouteInv, [Next]_vars PROVE RouteInv'
  OBVIOUS
<1>1. net' = net
  BY DEF Next, Resolve, Send, Forward, Receive, vars
<1> SUFFICES ASSUME NEW y \in frames', y.kind = "data" PROVE \E i : At(net, y, i)
  BY <1>1 DEF RouteInv, At
<1>2. \A fr \in frames : fr.kind = "data" => \E i : At(net, fr, i)
  BY DEF RouteInv
<1>3. ASSUME NEW f \in flows, Send(f) PROVE \E i : At(net, y, i)
  BY <1>2, <1>3, SendAt
<1>4. ASSUME NEW fr \in frames, Forward(fr), fr.kind = "data" PROVE \E i : At(net, y, i)
  BY <1>2, <1>4, ForwardAt
<1>5. ASSUME NEW fr \in frames, Receive(fr), fr.kind = "data" PROVE \E i : At(net, y, i)
  BY <1>2, <1>5 DEF Receive, Answer, Accept
<1>6. ASSUME DataIn(frames') = DataIn(frames) PROVE \E i : At(net, y, i)
  BY <1>2, <1>6 DEF DataIn
<1>7. CASE UNCHANGED vars
  BY <1>2, <1>7 DEF vars
<1> QED BY <1>3, <1>4, <1>5, <1>6, <1>7, OtherSteps DEF Next

-----------------------------------------------------------------------------
(* The network keeps to the routes.                                        *)

Routes == [f \in flows |-> Route[net][f]]

\* What RoutedNetwork sees of a data frame.
Datagram(fr) == [flow |-> fr.flow, nr |-> fr.nr, passed |-> fr.via]

\* A frame at the i-th node of the way has passed the first i devices.
LEMMA AtFirst ==
  ASSUME IInv, NEW fr, fr.flow \in flows, NEW i, At(net, fr, i)
  PROVE  fr.via = Routed!First(fr.flow, i) /\ i \in 1 .. Len(Routes[fr.flow])
  BY DEF At, Routed!First, Routes

\* Data frames are of flows of this run.
LEMMA DataFlow ==
  ASSUME IInv, NEW fr \in frames
  PROVE  fr.flow \in flows
<1>1. FrameOK(net, flows, table, arp, sent, fr)
  BY DEF IInv
<1> QED BY <1>1 DEF FrameOK, Heading, Frame

\* Different data frames are different datagrams.
LEMMA DatagramsDiffer ==
  ASSUME IInv, NEW a \in DataIn(frames), NEW b \in DataIn(frames), Datagram(a) = Datagram(b)
  PROVE  a = b
<1>1. a.flow = b.flow /\ a.nr = b.nr
  BY DEF Datagram
<1>2. PICK f \in flows : f = a.flow
  BY DataFlow DEF DataIn
<1>3. a \in DataOf(frames, f) /\ b \in DataOf(frames, f)
  BY <1>1, <1>2 DEF DataIn, DataOf
<1> QED BY <1>1, <1>3 DEF IInv, CountOK

\* At first nothing is under way, and the routes are in order.
LEMMA RoutedInit == Init => Routed!Init
<1> SUFFICES ASSUME Init PROVE Routed!Init
  OBVIOUS
<1>1. /\ net \in Networks /\ flows \in FlowSets[net] /\ frames = {}
      /\ sent = [f \in flows |-> 0] /\ got = [f \in flows |-> 0]
  BY DEF Init
<1>2. ASSUME NEW f \in flows
      PROVE  /\ Routes[f] # <<>>
             /\ \A i, j \in 1 .. Len(Routes[f]) : Routes[f][i] = Routes[f][j] => i = j
  <2>1. PICK r : r = Routes[f] /\ IsRoute(Way[net][f], r, net, f)
    BY <1>1, RouteIs DEF Routes
  <2>2. Len(r) # 0
    BY <2>1 DEF IsRoute
  <2>3. r # <<>>
    BY <2>2
  <2> QED BY <2>1, <2>3 DEF IsRoute
<1>3. UnderWay = {}
  BY <1>1 DEF UnderWay
<1>4. DOMAIN Routes = flows
  BY DEF Routes
<1> QED BY <1>1, <1>2, <1>3, <1>4 DEF Routed!Init, Routes

\* A datagram is sent,
LEMMA RoutedEnter ==
  ASSUME IInv, NEW f \in flows, Send(f)
  PROVE  Routed!Enter(f)
<1>1. PICK x : /\ frames' = frames \union {x} /\ x.kind = "data" /\ x.flow = f /\ x.nr = sent[f]
               /\ At(net, x, 1)
  BY SendAt
<1>2. UnderWay' = UnderWay \union {[flow |-> x.flow, nr |-> x.nr, passed |-> x.via]}
  BY <1>1 DEF UnderWay
<1>3. x.via = Routed!First(f, 1)
  BY <1>1, AtFirst
<1>4. UNCHANGED <<net, flows, got>> /\ sent' = [sent EXCEPT ![f] = @ + 1]
  BY DEF Send
<1>5. UNCHANGED Routes
  BY <1>4 DEF Routes
<1> QED BY <1>1, <1>2, <1>3, <1>4, <1>5 DEF Routed!Enter, Routes

\* passes a device
LEMMA RoutedPass ==
  ASSUME IInv, RouteInv, NEW fr \in frames, Forward(fr), fr.kind = "data"
  PROVE  \E d \in UnderWay : Routed!Pass(d)
<1>1. PICK y, i : /\ frames' = (frames \ {fr}) \union {y}
                  /\ y.kind = "data" /\ y.flow = fr.flow /\ y.nr = fr.nr
                  /\ At(net, fr, i) /\ i \in 1 .. Len(Route[net][fr.flow]) - 1 /\ At(net, y, i + 1)
  BY ForwardAt
<1>2. PICK f \in flows : f = fr.flow
  BY DataFlow
<1>3. fr.via = Routed!First(f, i) /\ y.via = Routed!First(f, i + 1)
  BY <1>1, <1>2, AtFirst
<1>4. PICK d : d = Datagram(fr)
  OBVIOUS
<1>5. d.flow = f /\ d.passed = Routed!First(f, i) /\ d \in UnderWay
  BY <1>2, <1>3, <1>4 DEF Datagram, UnderWay
<1>6. Datagram(y) = [d EXCEPT !.passed = Routed!First(f, i + 1)]
  BY <1>1, <1>3, <1>4 DEF Datagram
<1>7. UnderWay' = (UnderWay \ {d}) \union {Datagram(y)}
  <2>1. UnderWay' = {Datagram(x) : x \in DataIn(frames')}
    BY DEF UnderWay, Datagram, DataIn
  <2>2. DataIn(frames') = (DataIn(frames) \ {fr}) \union {y}
    BY <1>1 DEF DataIn
  <2>3. UnderWay = {Datagram(x) : x \in DataIn(frames)}
    BY DEF UnderWay, Datagram, DataIn
  <2>4. \A x \in DataIn(frames) : Datagram(x) = d => x = fr
    BY <1>4, DatagramsDiffer DEF DataIn
  <2> QED BY <2>1, <2>2, <2>3, <2>4, <1>4
<1>8. UNCHANGED <<net, flows, sent, got>>
  BY DEF Forward
<1>9. UNCHANGED Routes
  BY <1>8 DEF Routes
<1>10. i \in 1 .. Len(Routes[d.flow]) - 1
  BY <1>1, <1>2, <1>5 DEF Routes
<1>11. Routed!Pass(d)
  BY <1>5, <1>6, <1>7, <1>8, <1>9, <1>10 DEF Routed!Pass, Routes
<1> QED BY <1>5, <1>11

\* or arrives.
LEMMA RoutedArrive ==
  ASSUME IInv, RouteInv, NEW fr \in frames, Receive(fr), fr.kind = "data"
  PROVE  \E d \in UnderWay : Routed!Arrive(d)
<1>1. fr.to \notin Switches /\ Accept(fr) /\ UNCHANGED <<net, flows, table, sent>>
  BY DEF Receive, Answer
<1>2. PICK f \in flows : f = fr.flow
  BY DataFlow
<1>3. At(net, fr, Len(Route[net][f]))
  BY <1>1, <1>2, AcceptAt
<1>4. fr.via = Routed!First(f, Len(Routes[f]))
  BY <1>2, <1>3, AtFirst DEF Routes
<1>5. PICK d : d = Datagram(fr)
  OBVIOUS
<1>6. d.flow = f /\ d.passed = Routed!First(f, Len(Routes[f])) /\ d \in UnderWay
  BY <1>2, <1>4, <1>5 DEF Datagram, UnderWay
<1>7. frames' = frames \ {fr} /\ got' = [got EXCEPT ![f] = @ + 1]
  BY <1>1, <1>2 DEF Accept
<1>8. UnderWay' = UnderWay \ {d}
  <2>1. UnderWay' = {Datagram(x) : x \in DataIn(frames')}
    BY DEF UnderWay, Datagram, DataIn
  <2>2. DataIn(frames') = DataIn(frames) \ {fr}
    BY <1>7 DEF DataIn
  <2>3. UnderWay = {Datagram(x) : x \in DataIn(frames)}
    BY DEF UnderWay, Datagram, DataIn
  <2>4. \A x \in DataIn(frames) : Datagram(x) = d => x = fr
    BY <1>5, DatagramsDiffer DEF DataIn
  <2> QED BY <2>1, <2>2, <2>3, <2>4, <1>5
<1>9. UNCHANGED Routes
  BY <1>1 DEF Routes
<1>10. Routed!Arrive(d)
  BY <1>1, <1>6, <1>7, <1>8, <1>9 DEF Routed!Arrive, Routes
<1> QED BY <1>6, <1>10

\* Other frames change nothing of it.
LEMMA RoutedSame ==
  ASSUME DataIn(frames') = DataIn(frames), UNCHANGED <<net, flows, sent, got>>
  PROVE  UNCHANGED <<Routes, UnderWay, sent, got>>
<1>1. UNCHANGED UnderWay
  BY DEF UnderWay, DataIn
<1>2. UNCHANGED Routes
  BY DEF Routes
<1> QED BY <1>1, <1>2

-----------------------------------------------------------------------------
(* The theorems.                                                           *)

\* The invariant holds in every reachable state.
LEMMA InvAlways == Spec => []IInv
  BY InvInit, InvStep, PTL DEF Spec

\* Every variable keeps its type in every network that the programs build, and
\* the queues they configure are those of devices that switches have
\* (trafficgen.cc, trafficgen_small.cc, trafficgen_large_tests.cc).
THEOREM TypeCorrect == Spec => []TypeOK
  BY InvAlways, ImpliesTypeOK, PTL

\* Whatever a switch has heard, it has heard by the one link that leads there:
\* the links of the code form a tree, for any senders.
THEOREM TablesCorrect == Spec => []TablesTrue
  BY InvAlways, ImpliesTables, PTL

\* A switch never has to flood a data frame: of every datagram an application
\* sends there is one frame, until the receiver has accepted it.
THEOREM DataCorrect == Spec => []DataNotFlooded
  BY InvAlways, ImpliesOneCopy, PTL

\* The congestion that the code adds for a receiver passes no queue but its own
\* and the last one before that receiver.
THEOREM CongestionCorrect == Spec => []CongestionLocal
  BY InvAlways, ImpliesLocal, PTL

\* The routes are kept in every reachable state.
LEMMA RouteAlways == Spec => [](IInv /\ RouteInv)
<1>1. Init => IInv /\ RouteInv
  BY InvInit, RouteInit
<1>2. (IInv /\ RouteInv) /\ [Next]_vars => (IInv /\ RouteInv)'
  BY InvStep, RouteStep
<1> QED BY <1>1, <1>2, PTL DEF Spec

\* Whatever the switches flood meanwhile, every datagram of an application takes
\* the same devices, in the same order and none twice, and is accepted once: what
\* TrafficPipeline takes for granted of the networks that trafficgen.cc,
\* trafficgen_small.cc and trafficgen_large_tests.cc build.
THEOREM Implements == Spec => ImplementsRoutes
<1>1. (IInv /\ RouteInv) /\ [Next]_vars => [Routed!Next]_(Routed!netVars)
  <2> SUFFICES ASSUME IInv, RouteInv, [Next]_vars
               PROVE  Routed!Next \/ UNCHANGED <<Routes, UnderWay, sent, got>>
    BY DEF Routed!netVars, Routes
  <2>1. ASSUME NEW f \in flows, Send(f) PROVE Routed!Next
    <3>1. f \in DOMAIN Routes
      BY DEF Routes
    <3> QED BY <3>1, <2>1, RoutedEnter DEF Routed!Next, Routes
  <2>2. ASSUME NEW fr \in frames, fr.kind = "data", Forward(fr) PROVE Routed!Next
    BY <2>2, RoutedPass DEF Routed!Next
  <2>3. ASSUME NEW fr \in frames, fr.kind = "data", Receive(fr) PROVE Routed!Next
    BY <2>3, RoutedArrive DEF Routed!Next
  <2>4. ASSUME \/ \E f \in flows : Resolve(f)
               \/ \E fr \in frames : fr.kind # "data" /\ (Forward(fr) \/ Receive(fr))
        PROVE  UNCHANGED <<Routes, UnderWay, sent, got>>
    BY <2>4, OtherSteps, RoutedSame
  <2>5. CASE UNCHANGED vars
    BY <2>5, RoutedSame DEF vars
  <2> QED BY <2>1, <2>2, <2>3, <2>4, <2>5 DEF Next
<1> QED BY <1>1, RoutedInit, RouteAlways, PTL DEF Spec, ImplementsRoutes, Routed!Spec
===============================================================================
