---------------------------- MODULE SwitchedNetwork ----------------------------
(***************************************************************************)
(* The networks that simulation/trafficgen*.cc build: hosts and learning   *)
(* switches joined by links in the order of the code, which decides the    *)
(* number of every device, and the devices whose queue size is set.        *)
(*                                                                         *)
(* The switches (BridgeNetDevice) and address resolution are those of      *)
(* ns-3.  Queues never fill up here: TrafficPipeline is about that.  So no *)
(* request has to be repeated, and entries do not expire (they live for    *)
(* 300 s, a simulation for 60 at most).                                    *)
(***************************************************************************)
EXTENDS Integers, Sequences, FiniteSets

CONSTANTS
  Networks,      \* the networks looked at: program and flag topo
  FlowSets,      \* of each network: the sets of flows looked at, each flow a
                 \*   pair <<sending host, receiving host>>
  Senders,       \* of each group: its senders, all alike
  MaxData        \* bound, of each flow: its data frames

Everyone == "everyone"

-----------------------------------------------------------------------------
(* What the programs build.                                                *)

Join(hosts, switch) == [i \in 1 .. Len(hosts) |-> <<hosts[i], switch>>]

SmallNodes == <<"receiver1", "disturbance1", "A", "B">>

SmallLinks ==
  << <<"receiver1", "B">>, <<"disturbance1", "B">>, <<"A", "B">> >>
  \o Join(Senders.first, "A")

Nodes == <<"receiver1", "disturbance1", "receiver2", "disturbance2",
           "receiver3", "disturbance3", "A", "B", "C", "D", "E", "F", "G">>

\* Mutant: the second link is made in either topology.
MutantBranch(topo) ==
  << <<"C", "E">> >> \o IF topo = 2 THEN << <<"D", "E">> >> ELSE <<>>

\* Mutant: the flag is compared with something else.
MutantNoBranch(topo) == IF topo = 1 THEN << <<"C", "E">> >> ELSE <<>>

\* The link by which the third receiver's part is reached.
Branch(topo) ==
  CASE topo = 1 -> << <<"C", "E">> >>
    [] topo = 2 -> << <<"D", "E">> >>
    [] OTHER -> <<>>

\* Mutant: the source of congestion is one switch too early.
MutantBackbone(topo) ==
  << <<"receiver1", "B">>, <<"disturbance1", "B">>, <<"A", "B">>,
     <<"A", "C">>, <<"C", "D">>, <<"receiver2", "D">>, <<"disturbance2", "C">> >>
  \o Branch(topo)
  \o << <<"E", "F">>, <<"F", "G">>, <<"receiver3", "G">>, <<"disturbance3", "G">> >>

Backbone(topo) ==
  << <<"receiver1", "B">>, <<"disturbance1", "B">>, <<"A", "B">>,
     <<"A", "C">>, <<"C", "D">>, <<"receiver2", "D">>, <<"disturbance2", "D">> >>
  \o Branch(topo)
  \o << <<"E", "F">>, <<"F", "G">>, <<"receiver3", "G">>, <<"disturbance3", "G">> >>

LargeLinks(topo) ==
  Backbone(topo) \o Join(Senders.first, "A") \o Join(Senders.second, "C")
                 \o Join(Senders.third, "E")

Links ==
  [n \in Networks |->
     CASE n.program = "trafficgen_small" -> SmallLinks
       [] n.program = "trafficgen" -> Backbone(n.topo) \o Join(Senders.first, "A")
       [] n.program = "trafficgen_large_tests" -> LargeLinks(n.topo)]

\* The devices whose MaxSize is set to the flag queuesize, by position in the
\* NodeList; the number of the device is always 0.
\* Mutant: nodes counted from one.
MutantSmallQueues == {SmallNodes[2]}

SmallQueues == {SmallNodes[2 + 1]}
Queues == {Nodes[6 + 1], Nodes[7 + 1], Nodes[9 + 1], Nodes[12 + 1]}
LargeQueues == {Nodes[6 + 1], Nodes[8 + 1], Nodes[10 + 1], Nodes[12 + 1]}

QueueSet(n) ==
  {<<node, 0>> : node \in CASE n.program = "trafficgen_small" -> SmallQueues
                            [] n.program = "trafficgen" -> Queues
                            [] n.program = "trafficgen_large_tests" -> LargeQueues}

Switches == {"A", "B", "C", "D", "E", "F", "G"}

Ends(n, k) == {Links[n][k][1], Links[n][k][2]}

\* The links of a node, and the device it has on one of them.
Ports == [n \in Networks |->
  [node \in UNION {Ends(n, k) : k \in 1 .. Len(Links[n])} |->
     {k \in 1 .. Len(Links[n]) : node \in Ends(n, k)}]]

Device(n, node, k) == <<node, Cardinality({j \in Ports[n][node] : j < k})>>

Peer(n, node, k) == CHOOSE m \in Ends(n, k) : m # node

\* The sources of congestion and the receivers they send to.
Congestion ==
  {<<"disturbance1", "receiver1">>, <<"disturbance2", "receiver2">>,
   <<"disturbance3", "receiver3">>}

Disturbances == {f[1] : f \in Congestion}
Receivers == {f[2] : f \in Congestion}

Groups == {"first", "second", "third"}

\* Every sender has a name of its own, and flows are between different hosts of
\* the network.
ASSUME NetworkAssumption ==
  /\ Networks \subseteq [program : {"trafficgen_small", "trafficgen", "trafficgen_large_tests"},
                         topo : {1, 2}]
  /\ Senders \in [Groups -> Seq(STRING)]
  /\ \A g, h \in Groups : \A i \in 1 .. Len(Senders[g]), j \in 1 .. Len(Senders[h]) :
       Senders[g][i] = Senders[h][j] => g = h /\ i = j
  /\ \A g \in Groups : \A i \in 1 .. Len(Senders[g]) :
       Senders[g][i] # Everyone /\ \A k \in 1 .. Len(Nodes) : Senders[g][i] # Nodes[k]
  /\ \A n \in Networks : \A fs \in FlowSets[n] : \A f \in fs :
       /\ f \in (DOMAIN Ports[n] \ Switches) \X (DOMAIN Ports[n] \ Switches)
       /\ f[1] # f[2]
       /\ f[1] \in Disturbances => f \in Congestion
       /\ MaxData[f] \in Nat

VARIABLES
  net, flows,    \* the network and the flows of this run
  frames,        \* the frames on the links
  table,         \* of each switch: the link by which it last heard each node
  arp,           \* of each flow: does its sender know the receiver's address
  sent, got,     \* of each flow: data frames sent and accepted
  path           \* history, of each flow: devices the last data frame passed

vars == <<net, flows, frames, table, arp, sent, got, path>>

-----------------------------------------------------------------------------

Init ==
  /\ net \in Networks /\ flows \in FlowSets[net]
  /\ frames = {}
  /\ table = [s \in Switches |-> <<>>]
  /\ arp = [f \in flows |-> "unknown"]
  /\ sent = [f \in flows |-> 0] /\ got = [f \in flows |-> 0]
  /\ path = [f \in flows |-> {}]

\* A host discards what is neither sent to it nor a request for its address.
Discards(host, frame) ==
  host \notin Switches /\ frame.dst # host /\ ~(frame.dst = Everyone /\ frame.flow[2] = host)

\* The frame leaves a node by the given links.  A copy that the host at the other
\* end will discard is not kept.
On(frame, node, links) ==
  {[frame EXCEPT !.link = k, !.to = Peer(net, node, k),
                 !.via = @ \union {Device(net, node, k)}] :
     k \in {l \in links : ~Discards(Peer(net, node, l), frame)}}

\* A frame that a host puts on its only link; data frames of a flow are numbered.
FromHost(kind, flow, nr, src, dst) ==
  On([kind |-> kind, flow |-> flow, nr |-> nr, src |-> src, dst |-> dst, link |-> 0, to |-> src,
      via |-> {}], src, Ports[net][src])

\* The first datagram waits until the receiver has answered.
Resolve(f) ==
  /\ arp[f] = "unknown"
  /\ arp' = [arp EXCEPT ![f] = "asked"]
  /\ frames' = frames \union FromHost("request", f, 0, f[1], Everyone)
  /\ UNCHANGED <<net, flows, table, sent, got, path>>

Send(f) ==
  /\ arp[f] = "known" /\ sent[f] < MaxData[f]
  /\ sent' = [sent EXCEPT ![f] = @ + 1]
  /\ frames' = frames \union FromHost("data", f, sent[f], f[1], f[2])
  /\ UNCHANGED <<net, flows, table, arp, got, path>>

Heard(s, node) == node \in DOMAIN table[s]

\* Mutant: a frame whose way is known is passed on before anything is learned.
MutantForward(fr) ==
  /\ fr \in frames /\ fr.to \in Switches
  /\ LET s == fr.to
         direct == Heard(s, fr.dst) /\ table[s][fr.dst] # fr.link
         out == IF direct THEN {table[s][fr.dst]} ELSE Ports[net][s] \ {fr.link}
     IN  /\ table' = IF direct THEN table
                     ELSE [table EXCEPT ![s] =
                        [h \in DOMAIN @ \union {fr.src} |-> IF h = fr.src THEN fr.link ELSE @[h]]]
         /\ frames' = (frames \ {fr}) \union On(fr, s, out)
  /\ UNCHANGED <<net, flows, arp, sent, got, path>>

\* A switch remembers where the frame came from.  It knows where the frame
\* belongs, or sends it everywhere else.
Forward(fr) ==
  /\ fr \in frames /\ fr.to \in Switches
  /\ LET s == fr.to
         direct == Heard(s, fr.dst) /\ table[s][fr.dst] # fr.link
         out == IF direct THEN {table[s][fr.dst]} ELSE Ports[net][s] \ {fr.link}
     IN  /\ table' = [table EXCEPT ![s] =
                        [h \in DOMAIN @ \union {fr.src} |-> IF h = fr.src THEN fr.link ELSE @[h]]]
         /\ frames' = (frames \ {fr}) \union On(fr, s, out)
  /\ UNCHANGED <<net, flows, arp, sent, got, path>>

\* A host answers a request for its address and accepts what is sent to it.
Answer(fr) ==
  /\ fr.kind = "request"
  /\ frames' = (frames \ {fr}) \union FromHost("reply", fr.flow, 0, fr.to, fr.src)
  /\ UNCHANGED <<arp, got, path>>

Accept(fr) ==
  /\ fr.kind # "request"
  /\ frames' = frames \ {fr}
  /\ IF fr.kind = "reply"
     THEN arp' = [arp EXCEPT ![fr.flow] = "known"] /\ UNCHANGED <<got, path>>
     ELSE /\ got' = [got EXCEPT ![fr.flow] = @ + 1]
          /\ path' = [path EXCEPT ![fr.flow] = fr.via]
          /\ UNCHANGED arp

Receive(fr) ==
  /\ fr \in frames /\ fr.to \notin Switches
  /\ Answer(fr) \/ Accept(fr)
  /\ UNCHANGED <<net, flows, table, sent>>

Next ==
  \/ \E f \in flows : Resolve(f)
  \/ \E f \in flows : Send(f)
  \/ \E fr \in frames : Forward(fr)
  \/ \E fr \in frames : Receive(fr)

Spec == Init /\ [][Next]_vars

\* Simulator::Run serves every event: a frame on a link reaches its end.
FairSpec ==
  /\ Spec
  /\ WF_vars(\E fr \in frames : Forward(fr) \/ Receive(fr))

-----------------------------------------------------------------------------
(* Properties.                                                             *)

\* Every variable keeps its type, a switch hears a node only by a link it has, and
\* the queues configured are those of devices that the switches have: Config::Set
\* says nothing when a path matches no device, or a host's.
TypeOK ==
  /\ \A q \in QueueSet(net) : q[1] \in Switches /\ q[2] < Cardinality(Ports[net][q[1]])
  /\ net \in Networks /\ flows \in FlowSets[net]
  /\ \A fr \in frames :
       /\ fr.kind \in {"request", "reply", "data"} /\ fr.flow \in flows
       /\ fr.link \in Ports[net][fr.to]
  /\ \A s \in Switches, h \in UNION {DOMAIN table[t] : t \in Switches} :
       Heard(s, h) => table[s][h] \in Ports[net][s]
  /\ arp \in [flows -> {"unknown", "asked", "known"}]
  /\ \A f \in flows : sent[f] \in 0 .. MaxData[f] /\ got[f] \in 0 .. sent[f]

\* Both ends of every link at one of these nodes.
Adjacent(n, nodes) == UNION {Ends(n, k) : k \in UNION {Ports[n][m] : m \in nodes}}

\* The nodes on the far side of a link.
Side ==
  [n \in Networks |-> [s \in Switches \intersect DOMAIN Ports[n] |-> [k \in Ports[n][s] |->
     LET reach[i \in 0 .. Len(Links[n])] ==
           IF i = 0 THEN {Peer(n, s, k)}
           ELSE LET near == reach[i - 1] IN near \union (Adjacent(n, near) \ {s})
     IN  reach[Len(Links[n])]]]]

\* What a switch has learned is true and stays so: the node it heard by a link is
\* on the far side of that link, and not in any other direction.
TablesTrue ==
  \A s \in Switches : \A h \in DOMAIN table[s] :
     {k \in Ports[net][s] : h \in Side[net][s][k]} = {table[s][h]}

\* A data frame is never multiplied: there is one copy of each on the way, and
\* the receiver accepts each once.  Requests have taught the switches enough.
DataNotFlooded ==
  \A f \in flows :
     got[f] + Cardinality({fr \in frames : fr.kind = "data" /\ fr.flow = f}) = sent[f]

\* Explicit congestion meets its receiver's traffic and no other: it passes the
\* disturbance's own device and the last switch's device to the receiver.
CongestionLocal ==
  \A f \in flows : f[1] \in Disturbances =>
     \A fr \in frames :
        fr.kind = "data" /\ fr.flow = f =>
          fr.via \subseteq {Device(net, f[1], k) : k \in Ports[net][f[1]]} \union
                           {Device(net, Peer(net, f[2], k), k) : k \in Ports[net][f[2]]}

\* The link of a node by which another is reached.
Onward(n, m, h) == CHOOSE k \in Ports[n][m] : m \in Switches => h \in Side[n][m][k]

\* Of each flow: the nodes from its sender to its receiver, where the way ends,
Way ==
  [n \in Networks |-> [f \in UNION FlowSets[n] |->
     LET way[i \in 0 .. Len(Links[n])] ==
           IF i = 0 THEN f[1]
           ELSE IF way[i - 1] = f[2] THEN f[2]
                ELSE Peer(n, way[i - 1], Onward(n, way[i - 1], f[2]))
     IN  way]]

\* and the devices by which these pass a datagram on.
Route ==
  [n \in Networks |-> [f \in UNION FlowSets[n] |->
     [i \in {j \in 1 .. Len(Links[n]) : Way[n][f][j - 1] # f[2]} |->
        LET m == Way[n][f][i - 1] IN Device(n, m, Onward(n, m, f[2]))]]]

UnderWay ==
  {[flow |-> fr.flow, nr |-> fr.nr, passed |-> fr.via] : fr \in {x \in frames : x.kind = "data"}}

\* The datagrams of a flow all take the same way, whatever is flooded meanwhile,
\* and arrive once: so TrafficPipeline need not know more of it than its devices.
Routed == INSTANCE RoutedNetwork WITH
            route <- [f \in flows |-> Route[net][f]], underWay <- UnderWay

ImplementsRoutes == Routed!Spec

\* Every receiver can be reached: a host that asks for it gets to send, and what
\* is sent arrives.
Reached == []<>(\A f \in flows : arp[f] # "asked" /\ got[f] = sent[f])

-----------------------------------------------------------------------------
(* What the documentation says.                                            *)

\* trafficgen.cc:225: the flag queuesize is the "Bottleneck queue size.": what
\* arrives from a sender at a receiver has passed a queue of that size.
BottleneckConfigured ==
  \A f \in flows :
     f[2] \in Receivers /\ f[1] \notin Disturbances /\ path[f] # {} =>
       path[f] \intersect QueueSet(net) # {}
=============================================================================
