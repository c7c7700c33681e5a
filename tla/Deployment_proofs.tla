--------------------------- MODULE Deployment_proofs ---------------------------
(***************************************************************************)
(* Proofs about Deployment, for any command lines, start window and end of *)
(* the simulation.                                                         *)
(***************************************************************************)
EXTENDS Deployment, FiniteSetTheorems, TLAPS

EveryBlock ==
  {LargeBlock1, LargeBlock2, LargeBlock3, LargeBlock4, LargeBlock5, LargeBlock6,
   LargeBlock7, LargeBlock8, LargeBlock9}

\* The blocks of the other programs are among those of the large one.
LEMMA BlocksAmong == \A p \in Programs : Blocks[p] \subseteq EveryBlock
<1> SUFFICES ASSUME NEW p \in Programs PROVE Blocks[p] \subseteq EveryBlock
  OBVIOUS
<1>1. /\ SmallBlock = LargeBlock1 /\ SmallTestsBlock = LargeBlock1
      /\ Block1 = LargeBlock1 /\ Block2 = LargeBlock2 /\ Block3 = LargeBlock3
  BY DEF SmallBlock, SmallTestsBlock, Block1, Block2, Block3,
         LargeBlock1, LargeBlock2, LargeBlock3
<1>2. CASE p = "trafficgen_small"
  BY <1>1, <1>2 DEF Blocks, EveryBlock
<1>3. CASE p = "trafficgen_small_tests"
  BY <1>1, <1>3 DEF Blocks, EveryBlock
<1>4. CASE p = "trafficgen"
  BY <1>1, <1>4 DEF Blocks, EveryBlock
<1>5. CASE p = "trafficgen_large_tests"
  BY <1>5 DEF Blocks, EveryBlock
<1> QED BY <1>2, <1>3, <1>4, <1>5 DEF Programs

\* What tells blocks apart: receiver and group; the ports of two blocks of one
\* receiver are 3000 or more apart, and all are far above the congestion port.
LEMMA BlocksApart ==
  ASSUME NEW b \in EveryBlock, NEW c \in EveryBlock
  PROVE  /\ b.to \in Receivers /\ b.group \in Nat \ {0} /\ b.port \in Nat
         /\ b.port > CongestionPort
         /\ b.to = c.to /\ b.group = c.group => b = c
         /\ b.to = c.to /\ b # c => b.port >= c.port + 3000 \/ c.port >= b.port + 3000
<1> DEFINE T(x) == x.to \in Receivers /\ x.group \in 1 .. 3
           P(x) == x.port = 4200 + 1000 * (x.to - 1) + 3000 * (x.group - 1)
           R(x) == x = [to |-> x.to, port |-> x.port, group |-> x.group]
<1>1. \A x \in EveryBlock : T(x) /\ P(x) /\ R(x)
  BY DEF EveryBlock, Block, Receivers, LargeBlock1, LargeBlock2, LargeBlock3, LargeBlock4,
         LargeBlock5, LargeBlock6, LargeBlock7, LargeBlock8, LargeBlock9
<1>2. /\ T(b) /\ P(b) /\ R(b)
      /\ T(c) /\ P(c) /\ R(c)
  BY <1>1
<1>3. b.to = c.to /\ b.group = c.group => b = c
  BY <1>2
<1>4. b.to = c.to /\ b.group # c.group => b.port >= c.port + 3000 \/ c.port >= b.port + 3000
  BY <1>2 DEF Receivers
<1>5. b.port \in Nat /\ b.port > CongestionPort /\ b.group \in Nat \ {0}
  BY <1>2 DEF Receivers, CongestionPort
<1>6. b.to \in Receivers
  BY <1>2
<1> QED BY <1>3, <1>4, <1>5, <1>6

\* Only the large program has more than one group of senders.
LEMMA OneGroup ==
  ASSUME NEW p \in Programs, p # "trafficgen_large_tests", NEW b \in Blocks[p]
  PROVE  b.group = 1
<1>1. b \in {SmallBlock, SmallTestsBlock, Block1, Block2, Block3}
  <2>1. CASE p = "trafficgen_small"
    BY <2>1 DEF Blocks
  <2>2. CASE p = "trafficgen_small_tests"
    BY <2>2 DEF Blocks
  <2>3. CASE p = "trafficgen"
    BY <2>3 DEF Blocks
  <2> QED BY <2>1, <2>2, <2>3 DEF Programs
<1> QED BY <1>1 DEF SmallBlock, SmallTestsBlock, Block1, Block2, Block3, Block

-----------------------------------------------------------------------------
(* Constant-level facts about what is installed.                           *)

\* What a command line has to observe for all sinks to find their address free:
\* as many applications as fit between two blocks' ports at most, and no
\* congestion with several groups of senders.
AddressesSuffice(f) ==
  /\ f.apps <= 3000
  /\ f.program = "trafficgen_large_tests" => f.congested = {}

LEMMA FlagTypes ==
  ASSUME NEW f \in Flags
  PROVE  /\ f.program \in Programs /\ f.apps \in Nat
         /\ f.rated \subseteq Workloads /\ f.congested \subseteq Receivers
         /\ Blocks[f.program] \subseteq EveryBlock
<1>1. f \in [program : Programs, apps : Nat, rated : SUBSET Workloads, congested : SUBSET Receivers]
  BY DeploymentAssumption DEF DeploymentAssumption
<1> QED BY <1>1, BlocksAmong

\* Two sinks never share an address.
LEMMA SinksApart ==
  ASSUME NEW f \in Flags, AddressesSuffice(f),
         NEW k \in Sinks(f), NEW l \in Sinks(f), k.at = l.at
  PROVE  k = l
<1> DEFINE Traffic(x) == \E b \in Blocks[f.program], i \in 0 .. f.apps - 1 :
                           x = [block |-> b, nr |-> i, at |-> Address(b.to, "tcp", Port(b, i))]
           Congests(x) == \E b \in CongestedBlocks(f) :
                           x = [block |-> b, nr |-> f.apps,
                                at |-> Address(b.to, CongestionProtocol(f), CongestionPort)]
<1>1. (Traffic(k) \/ Congests(k)) /\ (Traffic(l) \/ Congests(l))
  BY DEF Sinks
<1>2. Blocks[f.program] \subseteq EveryBlock /\ f.program \in Programs /\ f.apps \in Nat
  BY FlagTypes
<1>3. \A x : Traffic(x) => x.at.port > CongestionPort
  <2> SUFFICES ASSUME NEW x, Traffic(x) PROVE x.at.port > CongestionPort
    OBVIOUS
  <2>1. PICK b \in Blocks[f.program], i \in 0 .. f.apps - 1 :
          x = [block |-> b, nr |-> i, at |-> Address(b.to, "tcp", Port(b, i))]
    OBVIOUS
  <2>2. b.port \in Nat /\ b.port > CongestionPort
    BY <1>2, BlocksApart
  <2>3. x.at.port = b.port + i
    BY <2>1 DEF Address, Port
  <2> QED BY <2>2, <2>3, <1>2 DEF CongestionPort
<1>4. \A x : Congests(x) => x.at.port = CongestionPort
  BY DEF Address
<1>5. CASE Traffic(k) /\ Traffic(l)
  <2>1. PICK b \in Blocks[f.program], i \in 0 .. f.apps - 1 :
          k = [block |-> b, nr |-> i, at |-> Address(b.to, "tcp", Port(b, i))]
    BY <1>5
  <2>2. PICK c \in Blocks[f.program], j \in 0 .. f.apps - 1 :
          l = [block |-> c, nr |-> j, at |-> Address(c.to, "tcp", Port(c, j))]
    BY <1>5
  <2>3. b.to = c.to /\ b.port + i = c.port + j
    BY <2>1, <2>2 DEF Address, Port
  <2>4. b.port \in Nat /\ c.port \in Nat
    BY <1>2, BlocksApart
  <2>5. i \in Nat /\ j \in Nat /\ i < 3000 /\ j < 3000
    BY <1>2 DEF AddressesSuffice
  <2>6. ~(b.port >= c.port + 3000 \/ c.port >= b.port + 3000)
    BY <2>3, <2>4, <2>5
  <2>7. b = c
    BY <2>3, <2>6, <1>2, BlocksApart
  <2> QED BY <2>1, <2>2, <2>3, <2>4, <2>5, <2>7
<1>6. CASE Congests(k) /\ Congests(l)
  <2>1. PICK b \in CongestedBlocks(f) :
          k = [block |-> b, nr |-> f.apps,
               at |-> Address(b.to, CongestionProtocol(f), CongestionPort)]
    BY <1>6
  <2>2. PICK c \in CongestedBlocks(f) :
          l = [block |-> c, nr |-> f.apps,
               at |-> Address(c.to, CongestionProtocol(f), CongestionPort)]
    BY <1>6
  <2>3. b.to = c.to
    BY <2>1, <2>2 DEF Address
  <2>4. /\ b \in Blocks[f.program] /\ c \in Blocks[f.program]
        /\ f.program # "trafficgen_large_tests"
    BY DEF CongestedBlocks, AddressesSuffice
  <2>5. b.group = c.group
    BY <2>4, <1>2, OneGroup
  <2>6. b = c
    BY <2>3, <2>4, <2>5, <1>2, BlocksApart
  <2> QED BY <2>1, <2>2, <2>6
<1> HIDE DEF Traffic, Congests
<1>7. \A x, y : Traffic(x) /\ Congests(y) => x.at # y.at
  <2> SUFFICES ASSUME NEW x, NEW y, Traffic(x), Congests(y), x.at = y.at PROVE FALSE
    OBVIOUS
  <2>1. x.at.port > CongestionPort /\ y.at.port = CongestionPort
    BY <1>3, <1>4
  <2>2. CongestionPort > CongestionPort
    BY <2>1
  <2> QED BY <2>2 DEF CongestionPort
<1>8. CASE Traffic(k) /\ Congests(l)
  BY <1>7, <1>8
<1>9. CASE Congests(k) /\ Traffic(l)
  <2>1. l.at # k.at
    BY <1>7, <1>9
  <2> QED BY <2>1
<1> QED BY <1>1, <1>5, <1>6, <1>8, <1>9

\* Two sources never share the key of their log lines.
LEMMA SourcesApart ==
  ASSUME NEW f \in Flags, NEW s \in Sources(f), NEW t \in Sources(f), RowKey(s) = RowKey(t)
  PROVE  s = t
<1>1. PICK b \in Blocks[f.program], w \in f.rated, i \in 0 .. f.apps - 1 :
        s = [from |-> <<b.group, SourceId(f, w, i)>>, workload |-> w, id |-> SourceId(f, w, i),
             remote |-> Address(b.to, "tcp", Port(b, i))]
  BY DEF Sources
<1>2. PICK c \in Blocks[f.program], v \in f.rated, j \in 0 .. f.apps - 1 :
        t = [from |-> <<c.group, SourceId(f, v, j)>>, workload |-> v, id |-> SourceId(f, v, j),
             remote |-> Address(c.to, "tcp", Port(c, j))]
  BY DEF Sources
<1>3. /\ s.from = <<b.group, SourceId(f, w, i)>> /\ s.remote.node = b.to /\ s.workload = w
      /\ t.from = <<c.group, SourceId(f, v, j)>> /\ t.remote.node = c.to /\ t.workload = v
  BY <1>1, <1>2 DEF Address
<1>4. s.from = t.from /\ s.remote.node = t.remote.node /\ s.workload = t.workload
  BY DEF RowKey
<1>5. b.group = c.group /\ b.to = c.to /\ w = v /\ SourceId(f, w, i) = SourceId(f, w, j)
  BY <1>3, <1>4
<1>6. b = c
  BY <1>5, FlagTypes, BlocksApart
<1>7. i = j
  <2>1. f.apps \in Nat /\ w \in 1 .. 3
    BY FlagTypes DEF Workloads
  <2>2. (w - 1) * f.apps \in Int
    BY <2>1
  <2> QED BY <1>5, <2>2 DEF SourceId
<1> QED BY <1>1, <1>2, <1>5, <1>6, <1>7

-----------------------------------------------------------------------------
(* Type correctness.                                                       *)

\* The addresses of sinks are well formed.
LEMMA SinkAddress ==
  ASSUME NEW f \in Flags, NEW k \in Sinks(f)
  PROVE  k.at \in [node : Receivers, protocol : {"tcp", "udp"}, port : Nat]
<1>1. CASE \E b \in Blocks[f.program], i \in 0 .. f.apps - 1 :
             k = [block |-> b, nr |-> i, at |-> Address(b.to, "tcp", Port(b, i))]
  <2>1. PICK b \in Blocks[f.program], i \in 0 .. f.apps - 1 :
             k = [block |-> b, nr |-> i, at |-> Address(b.to, "tcp", Port(b, i))]
    BY <1>1
  <2>2. b.to \in Receivers /\ b.port \in Nat /\ i \in Nat
    BY FlagTypes, BlocksApart
  <2>3. Port(b, i) \in Nat
    BY <2>2 DEF Port
  <2> QED BY <2>1, <2>2, <2>3 DEF Address
<1>2. CASE \E b \in CongestedBlocks(f) :
             k = [block |-> b, nr |-> f.apps,
                  at |-> Address(b.to, CongestionProtocol(f), CongestionPort)]
  <2>1. PICK b \in CongestedBlocks(f) :
             k = [block |-> b, nr |-> f.apps,
                  at |-> Address(b.to, CongestionProtocol(f), CongestionPort)]
    BY <1>2
  <2>2. b.to \in Receivers
    BY FlagTypes, BlocksApart DEF CongestedBlocks
  <2>3. CongestionProtocol(f) \in {"tcp", "udp"} /\ CongestionPort \in Nat
    BY DEF CongestionProtocol, CongestionPort
  <2> QED BY <2>1, <2>2, <2>3 DEF Address
<1> QED BY <1>1, <1>2 DEF Sinks

\* A source has one of the 3 * apps senders of its group.
LEMMA SourceNumber ==
  ASSUME NEW f \in Flags, NEW s \in Sources(f)
  PROVE  s.from[2] < 3 * f.apps
<1>1. PICK b \in Blocks[f.program], w \in f.rated, i \in 0 .. f.apps - 1 :
        s = [from |-> <<b.group, SourceId(f, w, i)>>, workload |-> w, id |-> SourceId(f, w, i),
             remote |-> Address(b.to, "tcp", Port(b, i))]
  BY DEF Sources
<1>2. s.from[2] = SourceId(f, w, i)
  BY <1>1
<1>3. f.apps \in Nat /\ w \in {1, 2, 3}
  BY FlagTypes DEF Workloads
<1>4. CASE w = 1
  BY <1>2, <1>3, <1>4 DEF SourceId
<1>5. CASE w = 2
  BY <1>2, <1>3, <1>5 DEF SourceId
<1>6. CASE w = 3
  BY <1>2, <1>3, <1>6 DEF SourceId
<1> QED BY <1>3, <1>4, <1>5, <1>6

LEMMA TypeInit == Init => TypeOK
<1> SUFFICES ASSUME Init PROVE TypeOK
  OBVIOUS
<1>1. flags \in Flags /\ now = 0 /\ over = FALSE /\ aborted = FALSE
  BY DEF Init
<1>2. now \in 0 .. StopTime
  BY <1>1, DeploymentAssumption DEF DeploymentAssumption
<1>3. served = {} /\ bound = {} /\ running = {}
  BY DEF Init
<1> QED BY <1>1, <1>2, <1>3 DEF TypeOK

LEMMA TypeNext == TypeOK /\ [Next]_vars => TypeOK'
<1> SUFFICES ASSUME TypeOK, [Next]_vars PROVE TypeOK'
  OBVIOUS
<1> USE DeploymentAssumption DEF DeploymentAssumption
<1>1. ASSUME NEW k \in Sinks(flags), StartSink(k) PROVE TypeOK'
  <2>1. k.at \in [node : Receivers, protocol : {"tcp", "udp"}, port : Nat]
    BY SinkAddress DEF TypeOK
  <2>2. /\ UNCHANGED <<flags, now, over, running>>
        /\ served' = served \union {k} /\ aborted' \in BOOLEAN
        /\ bound' \subseteq bound \union {k.at}
    BY <1>1 DEF StartSink, TypeOK
  <2> QED BY <2>1, <2>2 DEF TypeOK, All
<1>2. ASSUME NEW s \in All(flags), StartSource(s) PROVE TypeOK'
  <2>1. /\ UNCHANGED <<flags, now, over, aborted, served, bound>>
        /\ running' = running \union {s}
    BY <1>2 DEF StartSource
  <2>2. s \notin CongestionSources(flags) => s.from[2] < 3 * flags.apps
    BY SourceNumber DEF All, TypeOK
  <2> QED BY <2>1, <2>2 DEF TypeOK
<1>3. CASE Tick
  <2>1. now' \in 0 .. StopTime
    BY <1>3 DEF Tick, TypeOK
  <2> QED BY <1>3, <2>1 DEF Tick, TypeOK
<1>4. CASE EndOfSimulation
  BY <1>4 DEF EndOfSimulation, TypeOK
<1>5. CASE UNCHANGED vars
  BY <1>5 DEF vars, TypeOK
<1> QED BY <1>1, <1>2, <1>3, <1>4, <1>5 DEF Next

\* Every reachable state is well typed: no source asks for a sender beyond those
\* created (trafficgen.cc:348, 476-508).
THEOREM TypeCorrect == Spec => []TypeOK
BY TypeInit, TypeNext, PTL DEF Spec

-----------------------------------------------------------------------------
(* Sinks and sources.                                                      *)

\* What SinkBeforeSource and AddressesFree need to be inductive: the addresses in
\* use are those of the sinks started, and time passes once all of them are.
SinkInv ==
  /\ bound = {k.at : k \in served}
  /\ now > 0 => served = Sinks(flags)

LEMMA SinkInit == Init => SinkInv
BY DEF Init, SinkInv

LEMMA SinkNext == TypeOK /\ SinkInv /\ [Next]_vars => SinkInv'
<1> SUFFICES ASSUME TypeOK, SinkInv, [Next]_vars PROVE SinkInv'
  OBVIOUS
<1>1. ASSUME NEW k \in Sinks(flags), StartSink(k) PROVE SinkInv'
  <2>1. UNCHANGED now /\ now = 0 /\ served' = served \union {k}
    BY <1>1 DEF StartSink
  <2>2. bound' = bound \union {k.at}
    BY <1>1 DEF StartSink
  <2> QED BY <2>1, <2>2 DEF SinkInv
<1>2. ASSUME NEW s \in All(flags), StartSource(s) PROVE SinkInv'
  BY <1>2 DEF StartSource, SinkInv
<1>3. CASE Tick
  <2>1. served = Sinks(flags)
    BY <1>3 DEF Tick, SinkInv, TypeOK
  <2> QED BY <1>3, <2>1 DEF Tick, SinkInv
<1>4. CASE EndOfSimulation
  BY <1>4 DEF EndOfSimulation, SinkInv
<1>5. CASE UNCHANGED vars
  BY <1>5 DEF vars, SinkInv
<1> QED BY <1>1, <1>2, <1>3, <1>4, <1>5 DEF Next

THEOREM SinkCorrect == Spec => []SinkInv
BY SinkInit, SinkNext, TypeCorrect, PTL DEF Spec

\* Every source sends to the address of a sink.
LEMMA RemoteIsSink ==
  ASSUME NEW f \in Flags, NEW s \in All(f)
  PROVE  \E k \in Sinks(f) : s.remote = k.at
<1>1. CASE s \in Sources(f)
  <2>1. PICK b \in Blocks[f.program], w \in f.rated, i \in 0 .. f.apps - 1 :
          s.remote = Address(b.to, "tcp", Port(b, i))
    BY <1>1 DEF Sources
  <2>2. [block |-> b, nr |-> i, at |-> Address(b.to, "tcp", Port(b, i))] \in Sinks(f)
    BY DEF Sinks
  <2> QED BY <2>1, <2>2
<1>2. CASE s \in CongestionSources(f)
  <2>1. PICK b \in CongestedBlocks(f) :
          s.remote = Address(b.to, CongestionProtocol(f), CongestionPort)
    BY <1>2 DEF CongestionSources
  <2>2. [block |-> b, nr |-> f.apps,
         at |-> Address(b.to, CongestionProtocol(f), CongestionPort)] \in Sinks(f)
    BY DEF Sinks
  <2> QED BY <2>1, <2>2
<1> QED BY <1>1, <1>2 DEF All

\* A source finds its sink listening, whatever start times are drawn: sinks start
\* at zero, sources from one on (trafficgen.cc:455, 468, 480).
THEOREM SourceCorrect == Spec => SinkBeforeSource
<1>1. ASSUME TypeOK, SinkInv, [Next]_vars, NEW s \in running' \ running
      PROVE  s.remote \in bound
  <2>1. StartSource(s)
    <3>1. PICK t \in All(flags) : StartSource(t)
      BY <1>1 DEF Next, vars, StartSink, Tick, EndOfSimulation
    <3>2. s = t
      BY <1>1, <3>1 DEF StartSource
    <3> QED BY <3>1, <3>2
  <2>2. now > 0 /\ s \in All(flags) /\ flags \in Flags
    BY <1>1, <2>1 DEF StartSource, StartTimes, TypeOK
  <2>3. PICK k \in Sinks(flags) : s.remote = k.at
    BY <2>2, RemoteIsSink
  <2> QED BY <1>1, <2>2, <2>3 DEF SinkInv
<1>2. TypeOK /\ SinkInv /\ [Next]_vars
        => [\A s \in running' \ running : s.remote \in bound]_vars
  BY <1>1
<1> QED BY <1>2, TypeCorrect, SinkCorrect, PTL DEF Spec, SinkBeforeSource

\* The key of a log line names one source, for any number of applications.
THEOREM RowsCorrect == Spec => []RowNamesSource
<1>1. TypeOK => RowNamesSource
  <2> SUFFICES ASSUME TypeOK, NEW s \in running \ CongestionSources(flags),
                      NEW t \in running \ CongestionSources(flags), RowKey(s) = RowKey(t)
               PROVE  s = t
    BY DEF RowNamesSource
  <2>1. flags \in Flags /\ s \in Sources(flags) /\ t \in Sources(flags)
    BY DEF TypeOK, All
  <2> QED BY <2>1, SourcesApart
<1> QED BY <1>1, TypeCorrect, PTL

\* With command lines that observe AddressesSuffice no program ends in the fatal
\* error "Failed to bind socket".
THEOREM AddressesCorrect ==
  ASSUME \A f \in Flags : AddressesSuffice(f)
  PROVE  Spec => []AddressesFree
<1>1. Init => AddressesFree
  BY DEF Init, AddressesFree
<1>2. TypeOK /\ SinkInv /\ AddressesFree /\ [Next]_vars => AddressesFree'
  <2> SUFFICES ASSUME TypeOK, SinkInv, AddressesFree, [Next]_vars PROVE AddressesFree'
    OBVIOUS
  <2>1. ASSUME NEW k \in Sinks(flags), StartSink(k) PROVE AddressesFree'
    <3>1. ASSUME k.at \in bound PROVE FALSE
      <4>1. PICK l \in served : k.at = l.at
        BY <3>1 DEF SinkInv
      <4>2. l \in Sinks(flags) /\ flags \in Flags
        BY DEF TypeOK
      <4>3. k = l
        BY <4>1, <4>2, SinksApart
      <4> QED BY <2>1, <4>1, <4>3 DEF StartSink
    <3> QED BY <2>1, <3>1 DEF StartSink, AddressesFree
  <2>2. CASE UNCHANGED aborted
    BY <2>2 DEF AddressesFree
  <2> QED BY <2>1, <2>2 DEF Next, vars, StartSource, Tick, EndOfSimulation
<1> QED BY <1>1, <1>2, TypeCorrect, SinkCorrect, PTL DEF Spec

-----------------------------------------------------------------------------
(* The load.                                                               *)

\* The n consecutive senders of group g from number c on.
Senders(g, c, n) == {<<g, i + c>> : i \in 0 .. n - 1}

\* The senders of one block and workload are as many as there are applications.
LEMMA OneSenderEach ==
  ASSUME NEW n \in Nat, NEW g, NEW c \in Int
  PROVE  Cardinality(Senders(g, c, n)) = n
<1> DEFINE S == 0 .. n - 1
           T == {<<g, i + c>> : i \in S}
           h == [i \in S |-> <<g, i + c>>]
<1>1. IsFiniteSet(S) /\ Cardinality(S) = n
  <2>1. 0 \in Int /\ n - 1 \in Int
    OBVIOUS
  <2>2. IsFiniteSet(S) /\ Cardinality(S) = IF 0 > n - 1 THEN 0 ELSE (n - 1) - 0 + 1
    BY <2>1, FS_Interval
  <2> QED BY <2>2
<1>2. h \in Bijection(S, T)
  <2>1. h \in [S -> T] /\ \A t \in T : \E i \in S : h[i] = t
    OBVIOUS
  <2>2. ASSUME NEW i \in S, NEW j \in S, h[i] = h[j] PROVE i = j
    <3>1. i + c = j + c
      BY <2>2
    <3> QED BY <3>1
  <2>3. IsInjective(h)
    BY <2>2 DEF IsInjective
  <2>4. h \in Injection(S, T) /\ h \in Surjection(S, T)
    BY <2>1, <2>3 DEF Injection, Surjection
  <2> QED BY <2>4 DEF Bijection
<1>3. Cardinality(T) = Cardinality(S)
  <2> HIDE DEF S, T, h
  <2>1. ExistsBijection(S, T)
    BY <1>2 DEF ExistsBijection
  <2> QED BY <1>1, <2>1, FS_Bijection
<1> QED BY <1>1, <1>3 DEF Senders

LEMMA LoadOfBlock ==
  ASSUME NEW f \in Flags, NEW b \in Blocks[f.program], NEW w \in f.rated
  PROVE  {s.from : s \in {t \in All(f) :
            t.from[1] = b.group /\ t.remote.node = b.to /\ t.remote.port # CongestionPort
            /\ t.workload = w}}
         = {<<b.group, SourceId(f, w, i)>> : i \in 0 .. f.apps - 1}
<1> DEFINE C == {t \in All(f) : t.from[1] = b.group /\ t.remote.node = b.to
                                /\ t.remote.port # CongestionPort /\ t.workload = w}
<1>1. /\ b \in EveryBlock /\ b.group # 0 /\ Blocks[f.program] \subseteq EveryBlock /\ f.apps \in Nat
      /\ b.port \in Nat /\ b.port > CongestionPort
  BY FlagTypes, BlocksApart
<1>2. ASSUME NEW t \in C PROVE \E i \in 0 .. f.apps - 1 : t.from = <<b.group, SourceId(f, w, i)>>
  <2>1. t \in Sources(f)
    <3>1. ASSUME t \in CongestionSources(f) PROVE FALSE
      <4>1. t.from[1] = 0
        BY <3>1 DEF CongestionSources
      <4> QED BY <1>1, <4>1
    <3> QED BY <3>1 DEF All
  <2>2. PICK c \in Blocks[f.program], v \in f.rated, i \in 0 .. f.apps - 1 :
          t = [from |-> <<c.group, SourceId(f, v, i)>>, workload |-> v, id |-> SourceId(f, v, i),
               remote |-> Address(c.to, "tcp", Port(c, i))]
    BY <2>1 DEF Sources
  <2>3. v = w /\ t.from = <<c.group, SourceId(f, v, i)>> /\ c.group = b.group
    BY <2>2
  <2> QED BY <2>3
<1>3. ASSUME NEW i \in 0 .. f.apps - 1 PROVE \E t \in C : t.from = <<b.group, SourceId(f, w, i)>>
  <2>1. PICK t : t = [from |-> <<b.group, SourceId(f, w, i)>>, workload |-> w, id |-> SourceId(f, w, i),
                      remote |-> Address(b.to, "tcp", Port(b, i))]
    OBVIOUS
  <2>2. t \in All(f)
    BY <2>1 DEF All, Sources
  <2>3. /\ t.from = <<b.group, SourceId(f, w, i)>> /\ t.from[1] = b.group /\ t.workload = w
        /\ t.remote.node = b.to /\ t.remote.port = b.port + i
    BY <2>1 DEF Address, Port
  <2>4. t.remote.port # CongestionPort
    BY <1>1, <2>3 DEF CongestionPort
  <2> QED BY <2>2, <2>3, <2>4
<1> HIDE DEF C
<1>4. {s.from : s \in C} = {<<b.group, SourceId(f, w, i)>> : i \in 0 .. f.apps - 1}
  BY <1>2, <1>3
<1> QED BY <1>4 DEF C

LEMMA LoadOfCongestion ==
  ASSUME NEW f \in Flags
  PROVE  {s.remote.node : s \in {t \in All(f) : t.from[1] = 0}}
         = f.congested \intersect {b.to : b \in Blocks[f.program]}
<1>1. \A b \in Blocks[f.program] : b.group # 0
  BY FlagTypes, BlocksApart
<1>2. ASSUME NEW t \in All(f), t.from[1] = 0
      PROVE  t.remote.node \in f.congested \intersect {b.to : b \in Blocks[f.program]}
  <2>1. t \notin Sources(f)
    <3>1. ASSUME t \in Sources(f) PROVE FALSE
      <4>1. PICK b \in Blocks[f.program] : t.from[1] = b.group
        BY <3>1 DEF Sources
      <4> QED BY <1>1, <1>2, <4>1
    <3> QED BY <3>1
  <2>2. PICK b \in CongestedBlocks(f) :
          t = [block |-> b, from |-> <<0, b.to>>,
               remote |-> Address(b.to, CongestionProtocol(f), CongestionPort)]
    BY <2>1 DEF All, CongestionSources
  <2>3. t.remote.node = b.to
    BY <2>2 DEF Address
  <2> QED BY <2>3 DEF CongestedBlocks
<1>3. ASSUME NEW b \in Blocks[f.program], b.to \in f.congested
      PROVE  \E t \in All(f) : t.from[1] = 0 /\ t.remote.node = b.to
  <2>1. PICK t : t = [block |-> b, from |-> <<0, b.to>>,
                      remote |-> Address(b.to, CongestionProtocol(f), CongestionPort)]
    OBVIOUS
  <2>2. t \in All(f)
    BY <1>3, <2>1 DEF All, CongestionSources, CongestedBlocks
  <2>3. t.from[1] = 0 /\ t.remote.node = b.to
    BY <2>1 DEF Address
  <2> QED BY <2>2, <2>3
<1> QED BY <1>2, <1>3

\* What LoadAsAsked needs to be inductive: the program ends at its end, and no
\* source is left to start once the window has passed.
LoadInv ==
  /\ over => now = StopTime
  /\ now > StartWindow => running = All(flags)

\* The window ends before the simulation.
WindowSuffices == StartWindow < StopTime

LEMMA LoadNext == TypeOK /\ LoadInv /\ [Next]_vars => LoadInv'
<1> SUFFICES ASSUME TypeOK, LoadInv, [Next]_vars PROVE LoadInv'
  OBVIOUS
<1>1. ASSUME NEW k \in Sinks(flags), StartSink(k) PROVE LoadInv'
  <2>1. UNCHANGED <<flags, now, over, running>>
    BY <1>1 DEF StartSink
  <2> QED BY <2>1 DEF LoadInv, All, Sources, CongestionSources
<1>2. ASSUME NEW s \in All(flags), StartSource(s) PROVE LoadInv'
  <2>1. UNCHANGED <<flags, now, over>> /\ ~(now > StartWindow)
    BY <1>2, DeploymentAssumption DEF StartSource, StartTimes
  <2> QED BY <2>1 DEF LoadInv
<1>3. CASE Tick
  <2>1. /\ now' = now + 1 /\ UNCHANGED <<flags, running, over>> /\ over = FALSE
        /\ now = StartWindow => running = All(flags)
    BY <1>3 DEF Tick, Live, TypeOK
  <2>2. now \in Nat /\ StartWindow \in Nat
    BY DeploymentAssumption DEF TypeOK
  <2>3. now' > StartWindow => running = All(flags)
    BY <2>1, <2>2 DEF LoadInv
  <2>4. All(flags)' = All(flags)
    BY <2>1 DEF All, Sources, CongestionSources
  <2> QED BY <2>1, <2>3, <2>4 DEF LoadInv
<1>4. CASE EndOfSimulation
  <2>1. now = StopTime /\ UNCHANGED <<flags, now, running>>
    BY <1>4 DEF EndOfSimulation
  <2>2. All(flags)' = All(flags)
    BY <2>1 DEF All, Sources, CongestionSources
  <2> QED BY <2>1, <2>2 DEF LoadInv
<1>5. CASE UNCHANGED vars
  <2>1. UNCHANGED <<flags, now, over, running>>
    BY <1>5 DEF vars
  <2> QED BY <2>1 DEF LoadInv, All, Sources, CongestionSources
<1> QED BY <1>1, <1>2, <1>3, <1>4, <1>5 DEF Next

\* With a start window that ends before the simulation, a run that reaches its
\* end has started one sender per application for every receiver, group and
\* workload with a rate, and congestion exactly where it was asked for
\* (trafficgen.cc:455-560, the same blocks in the other programs).
THEOREM LoadCorrect ==
  ASSUME WindowSuffices
  PROVE  Spec => []LoadAsAsked
<1>1. Init => LoadInv
  <2> SUFFICES ASSUME Init PROVE LoadInv
    OBVIOUS
  <2>1. now = 0 /\ over = FALSE /\ ~(0 > StartWindow)
    BY DeploymentAssumption DEF Init
  <2> QED BY <2>1 DEF LoadInv
<1>2. TypeOK /\ LoadInv => LoadAsAsked
  <2> SUFFICES ASSUME TypeOK, LoadInv, over
               PROVE  /\ \A b \in Blocks[flags.program], w \in flags.rated :
                           Cardinality({s.from : s \in {t \in running :
                             t.from[1] = b.group /\ t.remote.node = b.to
                             /\ t.remote.port # CongestionPort /\ t.workload = w}}) = flags.apps
                      /\ {s.remote.node : s \in {t \in running : t.from[1] = 0}}
                           = flags.congested \intersect {b.to : b \in Blocks[flags.program]}
    BY DEF LoadAsAsked
  <2>1. flags \in Flags /\ running = All(flags)
    BY DeploymentAssumption DEF TypeOK, LoadInv, WindowSuffices
  <2>2. ASSUME NEW b \in Blocks[flags.program], NEW w \in flags.rated
        PROVE  Cardinality({s.from : s \in {t \in running :
                 t.from[1] = b.group /\ t.remote.node = b.to
                 /\ t.remote.port # CongestionPort /\ t.workload = w}}) = flags.apps
    <3>1. flags.apps \in Nat /\ w \in 1 .. 3
      BY <2>1, FlagTypes DEF Workloads
    <3>2. PICK c \in Int : c = (w - 1) * flags.apps
      BY <3>1
    <3>4. {s.from : s \in {t \in running :
             t.from[1] = b.group /\ t.remote.node = b.to
             /\ t.remote.port # CongestionPort /\ t.workload = w}} = Senders(b.group, c, flags.apps)
      BY <2>1, <3>2, LoadOfBlock DEF SourceId, Senders
    <3>5. Cardinality(Senders(b.group, c, flags.apps)) = flags.apps
      BY <3>1, OneSenderEach
    <3> QED BY <3>4, <3>5
  <2>3. {s.remote.node : s \in {t \in running : t.from[1] = 0}}
          = flags.congested \intersect {b.to : b \in Blocks[flags.program]}
    BY <2>1, LoadOfCongestion
  <2> QED BY <2>2, <2>3
<1> QED BY <1>1, <1>2, LoadNext, TypeCorrect, PTL DEF Spec
=============================================================================
