------------------------------ MODULE Deployment ------------------------------
(***************************************************************************)
(* The applications that simulation/trafficgen*.cc put on the nodes, and   *)
(* when they start: per receiver, or per receiver and group of senders, a  *)
(* block of code installs sinks, sources of up to three workloads, and     *)
(* congestion.  Two of the programs have that block once, one has it three *)
(* times and one nine times.                                               *)
(*                                                                         *)
(* What an application does once it runs is the subject of CdfApplication  *)
(* and TrafficPipeline.                                                    *)
(***************************************************************************)
EXTENDS Integers, FiniteSets

CONSTANTS
  Flags,         \* command lines: program, number of apps, workloads with a rate,
                 \*   receivers with congestion
  StartWindow,   \* flag startwindow
  StopTime       \* of the simulation

Programs == {"trafficgen_small", "trafficgen_small_tests", "trafficgen",
             "trafficgen_large_tests"}
Receivers == 1 .. 3
Workloads == 1 .. 3

ASSUME DeploymentAssumption ==
  /\ Flags \subseteq [program : Programs, apps : Nat, rated : SUBSET Workloads,
                      congested : SUBSET Receivers]
  /\ StartWindow \in Nat \ {0}
  /\ StopTime \in Nat \ {0}

VARIABLES
  flags,         \* the command line
  now, over,     \* the clock; the simulation has ended
  aborted,       \* a fatal error ended the program
  served,        \* sinks that were started
  bound,         \* addresses a sink listens on
  running        \* sources that were started

vars == <<flags, now, over, aborted, served, bound, running>>

-----------------------------------------------------------------------------
(* One record per block: its receiver, its first port, its senders.        *)

Block(to, port, group) == [to |-> to, port |-> port, group |-> group]

SmallBlock == Block(1, 4200, 1)
SmallTestsBlock == Block(1, 4200, 1)

Block1 == Block(1, 4200, 1)
Block2 == Block(2, 5200, 1)
Block3 == Block(3, 6200, 1)

LargeBlock1 == Block(1, 4200, 1)
LargeBlock2 == Block(2, 5200, 1)
LargeBlock3 == Block(3, 6200, 1)
LargeBlock4 == Block(1, 7200, 2)
LargeBlock5 == Block(2, 8200, 2)
LargeBlock6 == Block(3, 9200, 2)

\* Mutant: the senders of another group, left behind by a copy.
MutantLargeBlock7 == Block(1, 10200, 2)

LargeBlock7 == Block(1, 10200, 3)
LargeBlock8 == Block(2, 11200, 3)
LargeBlock9 == Block(3, 12200, 3)

Blocks ==
  [ trafficgen_small |-> {SmallBlock},
    trafficgen_small_tests |-> {SmallTestsBlock},
    trafficgen |-> {Block1, Block2, Block3},
    trafficgen_large_tests |->
      {LargeBlock1, LargeBlock2, LargeBlock3, LargeBlock4, LargeBlock5, LargeBlock6,
       LargeBlock7, LargeBlock8, LargeBlock9} ]

-----------------------------------------------------------------------------
(* What a block installs.                                                  *)

\* Mutant: every pair uses the first port.
MutantPort(b, i) == b.port

Port(b, i) == b.port + i

CongestionPort == 2100

\* The programs with one receiver congest with TCP, the others with UDP.
CongestionProtocol(f) ==
  IF f.program \in {"trafficgen_small", "trafficgen_small_tests"} THEN "tcp" ELSE "udp"

Address(node, protocol, port) == [node |-> node, protocol |-> protocol, port |-> port]

\* Mutant: workloads counted from one.
MutantSourceId(f, w, i) == i + w * f.apps

\* "0--n_apps-1: w1, n_apps -- 2n_apps-1: w2, etc."
SourceId(f, w, i) == i + (w - 1) * f.apps

\* Mutant: the flag of the first receiver, left behind by a copy.
MutantCongestedBlocks(f) == {b \in Blocks[f.program] : 1 \in f.congested}

CongestedBlocks(f) == {b \in Blocks[f.program] : b.to \in f.congested}

\* Sinks are told apart by their block and a number; the last is for congestion.
Sinks(f) ==
  {[block |-> b, nr |-> i, at |-> Address(b.to, "tcp", Port(b, i))] :
     b \in Blocks[f.program], i \in 0 .. f.apps - 1}
  \union
  {[block |-> b, nr |-> f.apps,
    at |-> Address(b.to, CongestionProtocol(f), CongestionPort)] :
     b \in CongestedBlocks(f)}

\* The sender with number id of a group; group 0 are the disturbance hosts.
Sources(f) ==
  {[from |-> <<b.group, SourceId(f, w, i)>>, workload |-> w, id |-> SourceId(f, w, i),
    remote |-> Address(b.to, "tcp", Port(b, i))] :
     b \in Blocks[f.program], w \in f.rated, i \in 0 .. f.apps - 1}

CongestionSources(f) ==
  {[block |-> b, from |-> <<0, b.to>>,
    remote |-> Address(b.to, CongestionProtocol(f), CongestionPort)] :
     b \in CongestedBlocks(f)}

All(f) == Sources(f) \union CongestionSources(f)

-----------------------------------------------------------------------------

Init ==
  /\ flags \in Flags
  /\ now = 0 /\ over = FALSE /\ aborted = FALSE
  /\ served = {} /\ bound = {} /\ running = {}

Live == ~over /\ ~aborted

\* Mutant: starts are drawn from zero on.
MutantStartTimes == 0 .. StartWindow

\* TimeStream(1, 1 + start_window); some of the programs round it down, a tick of
\* the clock stands for the second in which the others start.
StartTimes == 1 .. StartWindow

\* Sinks start with the simulation.  An address that is taken is fatal.
StartSink(k) ==
  /\ Live /\ now = 0
  /\ k \in Sinks(flags) \ served
  /\ served' = served \union {k}
  /\ IF k.at \in bound THEN aborted' = TRUE /\ UNCHANGED bound
                       ELSE bound' = bound \union {k.at} /\ UNCHANGED aborted
  /\ UNCHANGED <<flags, now, over, running>>

\* The start of a source was drawn before the simulation; what was drawn is
\* decided when the time has come.
StartSource(s) ==
  /\ Live /\ now \in StartTimes
  /\ s \in All(flags) \ running
  /\ running' = running \union {s}
  /\ UNCHANGED <<flags, now, over, aborted, served, bound>>

\* Every start is served in its time: the sinks' at once, the sources' by the
\* end of the window.
Tick ==
  /\ Live /\ now < StopTime
  /\ now = 0 => served = Sinks(flags)
  /\ now = StartWindow => running = All(flags)
  /\ now' = now + 1
  /\ UNCHANGED <<flags, over, aborted, served, bound, running>>

EndOfSimulation ==
  /\ Live /\ now = StopTime
  /\ over' = TRUE
  /\ UNCHANGED <<flags, now, aborted, served, bound, running>>

Next ==
  \/ \E k \in Sinks(flags) : StartSink(k)
  \/ \E s \in All(flags) : StartSource(s)
  \/ Tick
  \/ EndOfSimulation

Spec == Init /\ [][Next]_vars

-----------------------------------------------------------------------------
(* Properties.                                                             *)

\* Every variable keeps its type; no source asks its group for a sender beyond
\* the 3 * apps that were created, which ns-3 would not survive.
TypeOK ==
  /\ flags \in Flags
  /\ now \in 0 .. StopTime /\ over \in BOOLEAN /\ aborted \in BOOLEAN
  /\ served \subseteq Sinks(flags)
  /\ bound \subseteq [node : Receivers, protocol : {"tcp", "udp"}, port : Nat]
  /\ running \subseteq All(flags)
  /\ \A s \in running \ CongestionSources(flags) : s.from[2] < 3 * flags.apps

\* No two sinks of a receiver claim the same address: the start-up does not end
\* in the fatal error "Failed to bind socket".
AddressesFree == ~aborted

\* A source finds its sink listening: what it sends first is not refused.
SinkBeforeSource == [][ \A s \in running' \ running : s.remote \in bound ]_vars

\* The packet log names source and destination address, workload and application:
\* these identify the source, whatever group of senders it belongs to.
RowKey(s) == <<s.from, s.remote.node, s.workload, s.id>>

RowNamesSource ==
  \A s, t \in running \ CongestionSources(flags) : RowKey(s) = RowKey(t) => s = t

\* A run that reaches its end has had the load its command line asked for: for
\* every receiver, group and workload with a rate, one sender per application,
\* and congestion exactly where a rate was given for it.
LoadAsAsked ==
  over =>
    /\ \A b \in Blocks[flags.program], w \in flags.rated :
         Cardinality({s.from : s \in {t \in running :
           t.from[1] = b.group /\ t.remote.node = b.to /\ t.remote.port # CongestionPort
           /\ t.workload = w}}) = flags.apps
    /\ {s.remote.node : s \in {t \in running : t.from[1] = 0}}
         = flags.congested \intersect {b.to : b \in Blocks[flags.program]}

-----------------------------------------------------------------------------
(* What the documentation says.                                            *)

\* run_topo_large_tests.sh:6: "Second specifies different congestion for different
\* receivers": a congestion flag can be given without ending the program.
CongestionMayBeGiven == flags.congested # {} => ~aborted
=============================================================================
