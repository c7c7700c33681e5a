------------------------ MODULE TrafficPipeline_proofs ------------------------
(***************************************************************************)
(* Proofs about TrafficPipeline: one inductive invariant about what is at  *)
(* the devices (DevicesOK), what is in each stream (Streams) and what is   *)
(* under way and logged (Flights), the properties that follow from it, and *)
(* that the pipeline implements LossyFifo.                                 *)
(*                                                                         *)
(* The proofs look at the packets of one application on its whole route:   *)
(* every step either leaves them alone, appends one, drops one, or removes *)
(* the first (Step).                                                       *)
(***************************************************************************)
EXTENDS PacketLists_proofs

-----------------------------------------------------------------------------
(* The packets of an application on its route, given what is at the devices. *)

Path(L, a) == [i \in 1 .. Len(Route[a]) |-> OfApp(L[Route[a][i]], a)]

Flow(L, a) == Joined(Path(L, a), Len(Route[a]))

Contents == [Devices -> Seq(Packet)]

LEMMA RouteOfApp ==
  ASSUME NEW a \in Apps
  PROVE  /\ Route[a] \in Seq(Devices) /\ Len(Route[a]) \in Nat \ {0}
         /\ \A i \in 1 .. Len(Route[a]) : Route[a][i] \in Devices
         /\ \A i, j \in 1 .. Len(Route[a]) : Route[a][i] = Route[a][j] => i = j
<1>1. Route[a] \in Seq(Devices) /\ Route[a] # <<>>
  BY PipelineAssumption
<1>2. Len(Route[a]) \in Nat \ {0}
  BY <1>1
<1>3. \A i \in 1 .. Len(Route[a]) : Route[a][i] \in Devices
  BY <1>1
<1> QED BY <1>1, <1>2, <1>3, PipelineAssumption

LEMMA PathLists ==
  ASSUME NEW L \in Contents, NEW a \in Apps
  PROVE  Lists(Path(L, a), Packet, Len(Route[a]))
<1>1. \A i \in 1 .. Len(Route[a]) : L[Route[a][i]] \in Seq(Packet)
  BY RouteOfApp DEF Contents
<1>2. \A i \in 1 .. Len(Route[a]) : OfApp(L[Route[a][i]], a) \in Seq(Packet)
  BY <1>1, OfAppType
<1> QED BY <1>2 DEF Lists, Path

LEMMA FlowType ==
  ASSUME NEW L \in Contents, NEW a \in Apps
  PROVE  Flow(L, a) \in Seq(Packet)
  BY PathLists, RouteOfApp, JoinedType DEF Flow

LEMMA FlowElements ==
  ASSUME NEW L \in Contents, NEW a \in Apps, NEW k \in 1 .. Len(Flow(L, a))
  PROVE  /\ Flow(L, a)[k].src = a
         /\ \E d \in Devices : \E j \in 1 .. Len(L[d]) : Flow(L, a)[k] = L[d][j]
<1> DEFINE n == Len(Route[a])
           F == Path(L, a)
<1>1. Lists(F, Packet, n) /\ n \in Nat
  BY PathLists, RouteOfApp
<1>2. k \in 1 .. Len(Joined(F, n)) /\ Flow(L, a) = Joined(F, n)
  BY DEF Flow
<1>3. PICK i \in 1 .. n : \E j \in 1 .. Len(F[i]) : Flow(L, a)[k] = F[i][j]
  <2> HIDE DEF F, n
  <2>1. \E i \in 1 .. n : \E j \in 1 .. Len(F[i]) : Joined(F, n)[k] = F[i][j]
    BY <1>1, <1>2, JoinedElements
  <2> QED BY <1>2, <2>1
<1>4. PICK d \in Devices : d = Route[a][i]
  BY RouteOfApp
<1>5. L[d] \in Seq(Packet) /\ Path(L, a)[i] = OfApp(L[d], a)
  BY <1>4 DEF Contents, Path
<1>6. PICK j \in 1 .. Len(OfApp(L[d], a)) : Flow(L, a)[k] = OfApp(L[d], a)[j]
  BY <1>3, <1>5
<1>7. \E x \in 1 .. Len(L[d]) : OfApp(L[d], a)[j] = L[d][x] /\ L[d][x].src = a
  <2>1. PICK l \in Seq(Packet) : l = L[d]
    BY <1>5
  <2>2. j \in 1 .. Len(OfApp(l, a))
    BY <2>1
  <2>3. \E x \in 1 .. Len(l) : OfApp(l, a)[j] = l[x] /\ l[x].src = a
    BY <2>2, OfAppElements
  <2> QED BY <2>1, <2>3
<1> QED BY <1>6, <1>7

LEMMA FlowSame ==
  ASSUME NEW L, NEW M, NEW a \in Apps, \A d \in Devices : OfApp(M[d], a) = OfApp(L[d], a)
  PROVE  Flow(M, a) = Flow(L, a)
<1>1. \A i \in 1 .. Len(Route[a]) : Route[a][i] \in Devices
  BY RouteOfApp
<1>2. Path(M, a) = Path(L, a)
  BY <1>1 DEF Path
<1> QED BY <1>2 DEF Flow

\* M is L after packet p came to device d.
Came(L, M, d, p) == M[d] = Append(L[d], p) /\ \A e \in Devices : e # d => M[e] = L[e]

\* M is L after the first packet of device d went.
Went(L, M, d) == L[d] # <<>> /\ M[d] = Tail(L[d]) /\ \A e \in Devices : e # d => M[e] = L[e]

\* M is L after the first packet of device d moved to device f.
Moved(L, M, d, f) ==
  /\ L[d] # <<>> /\ M[d] = Tail(L[d]) /\ M[f] = Append(L[f], Head(L[d]))
  /\ \A e \in Devices : e # d /\ e # f => M[e] = L[e]

LEMMA FlowCameOther ==
  ASSUME NEW L \in Contents, NEW M, NEW d \in Devices, NEW p \in Packet, Came(L, M, d, p),
         NEW a \in Apps, p.src # a
  PROVE  Flow(M, a) = Flow(L, a)
<1>1. L[d] \in Seq(Packet)
  BY DEF Contents
<1>2. OfApp(Append(L[d], p), a) = OfApp(L[d], a)
  BY <1>1, OfAppAppend
<1>3. \A e \in Devices : OfApp(M[e], a) = OfApp(L[e], a)
  BY <1>2 DEF Came
<1> QED BY <1>3, FlowSame

LEMMA FlowWentOther ==
  ASSUME NEW L \in Contents, NEW M, NEW d \in Devices, Went(L, M, d),
         NEW a \in Apps, Head(L[d]).src # a
  PROVE  Flow(M, a) = Flow(L, a)
<1>1. L[d] \in Seq(Packet) /\ L[d] # <<>>
  BY DEF Contents, Went
<1>2. OfApp(Tail(L[d]), a) = OfApp(L[d], a)
  BY <1>1, OfAppTail
<1>3. \A e \in Devices : OfApp(M[e], a) = OfApp(L[e], a)
  BY <1>2 DEF Went
<1> QED BY <1>3, FlowSame

LEMMA FlowMovedOther ==
  ASSUME NEW L \in Contents, NEW M, NEW d \in Devices, NEW f \in Devices, d # f, Moved(L, M, d, f),
         NEW a \in Apps, Head(L[d]).src # a
  PROVE  Flow(M, a) = Flow(L, a)
<1>1. L[d] \in Seq(Packet) /\ L[d] # <<>> /\ L[f] \in Seq(Packet)
  BY DEF Contents, Moved
<1>2. PICK p \in Packet : p = Head(L[d])
  BY <1>1
<1>3. OfApp(Tail(L[d]), a) = OfApp(L[d], a)
  BY <1>1, OfAppTail
<1>4. OfApp(Append(L[f], p), a) = OfApp(L[f], a)
  BY <1>1, <1>2, OfAppAppend
<1>5. \A e \in Devices : OfApp(M[e], a) = OfApp(L[e], a)
  BY <1>2, <1>3, <1>4 DEF Moved
<1> QED BY <1>5, FlowSame

LEMMA FlowEnter ==
  ASSUME NEW L \in Contents, NEW M \in Contents, NEW a \in Apps, NEW p \in Packet, p.src = a,
         Came(L, M, Route[a][1], p)
  PROVE  Same(Flow(M, a), Append(Flow(L, a), p))
<1> DEFINE n == Len(Route[a])
           F == Path(L, a)
           G == Path(M, a)
<1>1. /\ n \in Nat \ {0} /\ 1 \in 1 .. n /\ \A i \in 1 .. n : Route[a][i] \in Devices
      /\ \A i, j \in 1 .. n : Route[a][i] = Route[a][j] => i = j
  BY RouteOfApp
<1>2. \A i \in 1 .. n : F[i] = OfApp(L[Route[a][i]], a) /\ G[i] = OfApp(M[Route[a][i]], a)
  BY DEF Path
<1>3. Lists(F, Packet, n)
  BY PathLists
<1>4. G[1] = Append(F[1], p)
  <2>1. L[Route[a][1]] \in Seq(Packet)
    BY <1>1 DEF Contents
  <2>2. OfApp(Append(L[Route[a][1]], p), a) = Append(OfApp(L[Route[a][1]], a), p)
    BY <2>1, OfAppAppend
  <2> HIDE DEF F, G
  <2> QED BY <2>2, <1>1, <1>2 DEF Came
<1>5. \A i \in 2 .. n : G[i] = F[i]
  <2> HIDE DEF F, G
  <2>1. \A i \in 2 .. n : i \in 1 .. n /\ Route[a][i] # Route[a][1]
    BY <1>1
  <2> QED BY <2>1, <1>1, <1>2 DEF Came
<1>6. Same(Joined(G, n), Append(Joined(F, n), p))
  <2> HIDE DEF F, G, n
  <2> QED BY <1>1, <1>3, <1>4, <1>5, JoinedEnter
<1> QED BY <1>6 DEF Flow

\* The first packet of the h-th device of the route of its application.
LEMMA FlowHead ==
  ASSUME NEW L \in Contents, NEW a \in Apps, NEW h \in 1 .. Len(Route[a]),
         L[Route[a][h]] # <<>>, Head(L[Route[a][h]]).src = a
  PROVE  /\ Path(L, a)[h] # <<>> /\ Head(Path(L, a)[h]) = Head(L[Route[a][h]])
         /\ OfApp(Tail(L[Route[a][h]]), a) = Tail(Path(L, a)[h])
<1>1. L[Route[a][h]] \in Seq(Packet)
  BY RouteOfApp DEF Contents
<1>2. Path(L, a)[h] = OfApp(L[Route[a][h]], a)
  BY DEF Path
<1> QED BY <1>1, <1>2, OfAppTail

LEMMA FlowLose ==
  ASSUME NEW L \in Contents, NEW M \in Contents, NEW a \in Apps, NEW h \in 1 .. Len(Route[a]),
         Head(L[Route[a][h]]).src = a, Went(L, M, Route[a][h])
  PROVE  \E i \in 1 .. Len(Flow(L, a)) : Same(Flow(M, a), Fifo!Without(Flow(L, a), i))
<1> DEFINE n == Len(Route[a])
           F == Path(L, a)
           G == Path(M, a)
<1>1. /\ n \in Nat \ {0} /\ \A i \in 1 .. n : Route[a][i] \in Devices
      /\ \A i, j \in 1 .. n : Route[a][i] = Route[a][j] => i = j
  BY RouteOfApp
<1>2. \A i \in 1 .. n : F[i] = OfApp(L[Route[a][i]], a) /\ G[i] = OfApp(M[Route[a][i]], a)
  BY DEF Path
<1>3. Lists(F, Packet, n)
  BY PathLists
<1>4. F[h] # <<>> /\ G[h] = Tail(F[h])
  <2>1. F[h] # <<>> /\ OfApp(Tail(L[Route[a][h]]), a) = Tail(F[h])
    BY FlowHead DEF Went
  <2> HIDE DEF F, G
  <2> QED BY <2>1, <1>2 DEF Went
<1>5. \A i \in 1 .. n : i # h => G[i] = F[i]
  <2> HIDE DEF F, G
  <2>1. \A i \in 1 .. n : i # h => Route[a][i] # Route[a][h]
    BY <1>1
  <2> QED BY <2>1, <1>1, <1>2 DEF Went
<1>6. \E i \in 1 .. Len(Joined(F, n)) : Same(Joined(G, n), Fifo!Without(Joined(F, n), i))
  <2>1. h \in 1 .. n
    OBVIOUS
  <2> HIDE DEF F, G, n
  <2> QED BY <2>1, <1>1, <1>3, <1>4, <1>5, JoinedLose
<1> QED BY <1>6 DEF Flow

LEMMA FlowLeave ==
  ASSUME NEW L \in Contents, NEW M \in Contents, NEW a \in Apps, NEW h, h = Len(Route[a]),
         Head(L[Route[a][h]]).src = a, Went(L, M, Route[a][h])
  PROVE  /\ Flow(L, a) # <<>> /\ Head(Flow(L, a)) = Head(L[Route[a][h]])
         /\ Same(Flow(M, a), Tail(Flow(L, a)))
<1> DEFINE n == Len(Route[a])
           F == Path(L, a)
           G == Path(M, a)
<1>1. /\ n \in Nat \ {0} /\ \A i \in 1 .. n : Route[a][i] \in Devices
      /\ \A i, j \in 1 .. n : Route[a][i] = Route[a][j] => i = j
      /\ n \in 1 .. n
  BY RouteOfApp
<1>2. \A i \in 1 .. n : F[i] = OfApp(L[Route[a][i]], a) /\ G[i] = OfApp(M[Route[a][i]], a)
  BY DEF Path
<1>3. Lists(F, Packet, n)
  BY PathLists
<1>4. F[n] # <<>> /\ Head(F[n]) = Head(L[Route[a][n]]) /\ G[n] = Tail(F[n])
  <2>1. F[n] # <<>> /\ Head(F[n]) = Head(L[Route[a][n]]) /\ OfApp(Tail(L[Route[a][n]]), a) = Tail(F[n])
    BY <1>1, FlowHead DEF Went
  <2> HIDE DEF F, G
  <2> QED BY <2>1, <1>1, <1>2 DEF Went
<1>5. \A i \in 1 .. n - 1 : G[i] = F[i]
  <2> HIDE DEF F, G
  <2>1. \A i \in 1 .. n - 1 : i \in 1 .. n /\ i # n
    BY <1>1
  <2>2. \A i \in 1 .. n - 1 : i \in 1 .. n /\ Route[a][i] \in Devices /\ Route[a][i] # Route[a][h]
    BY <2>1, <1>1
  <2>3. \A e \in Devices : e # Route[a][h] => M[e] = L[e]
    BY DEF Went
  <2> QED BY <2>2, <2>3, <1>2
<1>6. /\ Joined(F, n) # <<>> /\ Head(Joined(F, n)) = Head(F[n])
      /\ Same(Joined(G, n), Tail(Joined(F, n)))
  <2> HIDE DEF F, G, n
  <2> QED BY <1>1, <1>3, <1>4, <1>5, JoinedLeave
<1> QED BY <1>4, <1>6 DEF Flow

LEMMA FlowMove ==
  ASSUME NEW L \in Contents, NEW M \in Contents, NEW a \in Apps, NEW h \in 1 .. Len(Route[a]) - 1,
         Head(L[Route[a][h]]).src = a, Moved(L, M, Route[a][h], Route[a][h + 1])
  PROVE  Same(Flow(M, a), Flow(L, a))
<1> DEFINE n == Len(Route[a])
           F == Path(L, a)
           G == Path(M, a)
<1>1. /\ n \in Nat /\ h \in 1 .. n /\ h + 1 \in 1 .. n /\ \A i \in 1 .. n : Route[a][i] \in Devices
      /\ \A i, j \in 1 .. n : Route[a][i] = Route[a][j] => i = j
  BY RouteOfApp
<1>2. \A i \in 1 .. n : F[i] = OfApp(L[Route[a][i]], a) /\ G[i] = OfApp(M[Route[a][i]], a)
  BY DEF Path
<1>3. Lists(F, Packet, n)
  BY PathLists
<1>4. F[h] # <<>> /\ Head(F[h]) = Head(L[Route[a][h]]) /\ G[h] = Tail(F[h])
  <2>1. F[h] # <<>> /\ Head(F[h]) = Head(L[Route[a][h]]) /\ OfApp(Tail(L[Route[a][h]]), a) = Tail(F[h])
    BY <1>1, FlowHead DEF Moved
  <2> HIDE DEF F, G
  <2> QED BY <2>1, <1>1, <1>2 DEF Moved
<1>5. G[h + 1] = Append(F[h + 1], Head(F[h]))
  <2>1. PICK p \in Packet, l \in Seq(Packet) : p = Head(L[Route[a][h]]) /\ l = L[Route[a][h + 1]]
    <3>1. L[Route[a][h]] \in Seq(Packet) /\ L[Route[a][h]] # <<>> /\ L[Route[a][h + 1]] \in Seq(Packet)
      BY <1>1 DEF Contents, Moved
    <3> QED BY <3>1
  <2>2. OfApp(Append(l, p), a) = Append(OfApp(l, a), p)
    BY <2>1, OfAppAppend
  <2> HIDE DEF F, G
  <2> QED BY <2>1, <2>2, <1>1, <1>2, <1>4 DEF Moved
<1>6. \A i \in 1 .. n : i # h /\ i # h + 1 => G[i] = F[i]
  <2> HIDE DEF F, G
  <2>1. \A i \in 1 .. n : i # h /\ i # h + 1 => Route[a][i] # Route[a][h] /\ Route[a][i] # Route[a][h + 1]
    BY <1>1
  <2> QED BY <2>1, <1>1, <1>2 DEF Moved
<1>7. Same(Joined(G, n), Joined(F, n))
  <2>1. h \in 1 .. n - 1
    OBVIOUS
  <2> HIDE DEF F, G, n
  <2> QED BY <2>1, <1>1, <1>3, <1>4, <1>5, <1>6, JoinedMove
<1> QED BY <1>7 DEF Flow

-----------------------------------------------------------------------------
(* The inductive invariant.                                                *)

\* Every packet of a list has device d on its route.
OnRoute(list, d) == \A i \in 1 .. Len(list) : \E h \in 1 .. Len(Route[list[i].src]) : Route[list[i].src][h] = d

DevicesOK ==
  /\ queue \in [Devices -> Seq(Packet)] /\ wire \in [Devices -> Seq(Packet)]
  /\ current \in [Devices -> Seq(Packet)]
  /\ QueuesLogged
  /\ queueLog \in [Devices -> Nat] /\ dropped \in [Apps -> Nat]
  /\ \A d \in Devices : OnRoute(Line(d), d)

\* Of a stream of messages that end at m: its length, and the first byte that
\* is not yet sent.
TotalOf(m) == IF m = <<>> THEN 0 ELSE m[Len(m)]
NxtOf(m, app) == IF app = <<>> THEN TotalOf(m) ELSE app[1].from

\* The first byte that is not acknowledged.
UnaOf(m, snt, app) == IF snt = <<>> THEN NxtOf(m, app) ELSE snt[1].from

\* The messages up to the tag's are over where the item starts.
TagOK(m, e) == \A k \in 1 .. e.msg : k \in 1 .. Len(m) /\ m[k] <= e.from

TagsOK(m, list) == \A i \in 1 .. Len(list) : TagOK(m, list[i])

\* The send buffer holds the bytes from the first that is not acknowledged to
\* the last one written; the receiver has all before it and none that is not
\* sent, and acknowledges what it has.
StreamOK(m, snt, app, bytes, ackd) ==
  /\ m \in Seq(Nat) /\ snt \in Seq(Item) /\ app \in Seq(Item)
  /\ bytes \in SUBSET Nat /\ ackd \in SUBSET Nat
  /\ \A k \in 1 .. Len(m) : m[k] <= TotalOf(m)
  /\ Covers(snt, UnaOf(m, snt, app), NxtOf(m, app)) /\ Covers(app, NxtOf(m, app), TotalOf(m))
  /\ TagsOK(m, snt) /\ TagsOK(m, app)
  /\ 0 .. UnaOf(m, snt, app) - 1 \subseteq bytes /\ bytes \subseteq 0 .. NxtOf(m, app) - 1
  /\ \A n \in ackd : n <= NxtOf(m, app) /\ 0 .. n - 1 \subseteq bytes

\* A packet under way is a handshake or part of what was sent of the stream,
\* was stamped when it was sent and is in its sender's log.
PacketOK(s, p, logged, t, n) ==
  /\ p \in Packet /\ p.src = s
  /\ [seq |-> p.seq, at |-> p.time] \in logged
  /\ p.time \in 0 .. t
  /\ \/ p.id = NoId /\ p.len = 0
     \/ p.id = s /\ p.seq \in Nat /\ p.len # 0 /\ p.seq + p.len <= n

SentAt(r) == r.txSentAt - r.delay

RowOK(s, r, logged, t) ==
  r \in Row /\ r.id = s /\ [seq |-> r.seq, at |-> SentAt(r)] \in logged /\ SentAt(r) <= t

\* Packets are under way in the order they were sent, and what is logged was
\* sent before them.
OrderOK(list, last) ==
  /\ \A i, j \in 1 .. Len(list) : i <= j => list[i].time <= list[j].time
  /\ \A i \in 1 .. Len(list) : last # <<>> => SentAt(last[1]) <= list[i].time

FlightOK(s, list, last, logged, t, n) ==
  /\ list \in Seq(Packet) /\ last \in Seq(Row)
  /\ logged \in SUBSET [seq : Int, at : Nat]
  /\ \A i \in 1 .. Len(list) : PacketOK(s, list[i], logged, t, n)
  /\ \A i \in 1 .. Len(last) : RowOK(s, last[i], logged, t)
  /\ OrderOK(list, last)

Streams ==
  /\ messages \in [Sources -> Seq(Nat)]
  /\ conn \in [Sources -> {"closed", "connecting", "established"}]
  /\ appList \in [Sources -> Seq(Item)] /\ sentList \in [Sources -> Seq(Item)]
  /\ rcvd \in [Sources -> SUBSET Nat] /\ acks \in [Sources -> SUBSET Nat]
  /\ \A s \in Sources : StreamOK(messages[s], sentList[s], appList[s], rcvd[s], acks[s])

Nxt(s) == NxtOf(messages[s], appList[s])

Flights ==
  /\ now \in 0 .. Horizon /\ over \in BOOLEAN
  /\ rows \in [Apps -> Nat] /\ lastRow \in [Apps -> Seq(Row)]
  /\ sent \in [Apps -> Nat]
  /\ senderLog \in [Sources -> SUBSET [seq : Int, at : Nat]]
  /\ \A s \in Sources : FlightOK(s, InTransit(s), lastRow[s], senderLog[s], now, Nxt(s))
  /\ \A i \in 1 .. Len(InTransit(Congestion)) : InTransit(Congestion)[i].id = NoId

IInv == DevicesOK /\ Streams /\ Flights

-----------------------------------------------------------------------------
(* The devices.                                                            *)

Here == [d \in Devices |-> Line(d)]

LEMMA InTransitIsFlow ==
  ASSUME NEW a \in Apps
  PROVE  InTransit(a) = Flow(Here, a) /\ InTransit(a)' = Flow(Here', a)
<1>1. \A i \in 1 .. Len(Route[a]) : Route[a][i] \in Devices
  BY RouteOfApp
<1>2. \A d \in Devices : Here[d] = Line(d) /\ Here'[d] = Line(d)'
  BY DEF Here
<1>3. Path(Here, a) = [i \in 1 .. Len(Route[a]) |-> OfApp(Line(Route[a][i]), a)]
  BY <1>1, <1>2 DEF Path
<1>4. Path(Here', a) = [i \in 1 .. Len(Route[a]) |-> OfApp(Line(Route[a][i]), a)]'
  BY <1>1 DEF Path, Here, Line
<1> QED BY <1>3, <1>4 DEF Flow, InTransit

LEMMA LineType ==
  ASSUME DevicesOK
  PROVE  /\ Here \in Contents
         /\ \A d \in Devices : /\ Line(d) \in Seq(Packet) /\ Here[d] = Line(d)
                               /\ Same(Line(d), wire[d] \o (current[d] \o queue[d]))
<1>1. ASSUME NEW d \in Devices
      PROVE  Line(d) \in Seq(Packet) /\ Same(Line(d), wire[d] \o (current[d] \o queue[d]))
  <2>1. wire[d] \in Seq(Packet) /\ current[d] \in Seq(Packet) /\ queue[d] \in Seq(Packet)
    BY DEF DevicesOK
  <2>2. Same((wire[d] \o current[d]) \o queue[d], wire[d] \o (current[d] \o queue[d]))
    BY <2>1, ConcatThree
  <2> QED BY <2>1, <2>2 DEF Line
<1> QED BY <1>1 DEF Here, Contents

\* A packet is refused or stored behind those that wait at the device.
LEMMA SendFromStep ==
  ASSUME DevicesOK, NEW d \in Devices, NEW p \in Packet, SendFrom(d, p)
  PROVE  \/ /\ Full(d) /\ dropped' = [dropped EXCEPT ![p.src] = @ + 1]
            /\ UNCHANGED <<queue, current, queueLog>>
         \/ /\ UNCHANGED dropped
            /\ queue' \in [Devices -> Seq(Packet)] /\ current' \in [Devices -> Seq(Packet)]
            /\ queueLog' \in [Devices -> Nat]
            /\ QueuesLogged'
            /\ \A e \in Devices : e # d => current'[e] = current[e] /\ queue'[e] = queue[e]
            /\ Same(current'[d] \o queue'[d], Append(current[d] \o queue[d], p))
<1>1. /\ queue \in [Devices -> Seq(Packet)] /\ current \in [Devices -> Seq(Packet)]
      /\ queueLog \in [Devices -> Nat] /\ QueuesLogged
  BY DEF DevicesOK
<1>2. QueueSize[d] \in Nat \ {0} /\ QueueSize \in [Devices -> Nat \ {0}]
  BY PipelineAssumption
<1>3. CASE Full(d) /\ logDrop(d, p) /\ UNCHANGED <<queue, current, queueLog>>
  BY <1>3 DEF logDrop
<1>4. CASE /\ ~Full(d) /\ current[d] # <<>>
           /\ queue' = [queue EXCEPT ![d] = Append(@, p)]
           /\ logValue(d, Len(queue[d]) + 1)
           /\ UNCHANGED <<current, dropped>>
  <2>1. queue' \in [Devices -> Seq(Packet)] /\ queue'[d] = Append(queue[d], p)
        /\ \A e \in Devices : e # d => queue'[e] = queue[e]
    BY <1>1, <1>4
  <2>2. /\ queueLog' \in [Devices -> Nat] /\ queueLog'[d] = Len(queue[d]) + 1
        /\ \A e \in Devices : e # d => queueLog'[e] = queueLog[e]
    BY <1>1, <1>4 DEF logValue
  <2>3. Len(queue'[d]) = Len(queue[d]) + 1 /\ Len(queue[d]) + 1 <= QueueSize[d]
    BY <1>1, <1>2, <1>4, <2>1 DEF Full
  <2>4. QueuesLogged'
    BY <1>1, <1>4, <2>1, <2>2, <2>3 DEF QueuesLogged
  <2>5. Same(Append(current[d] \o queue[d], p), current[d] \o Append(queue[d], p))
    BY <1>1, AppendConcat
  <2>6. Same(current'[d] \o queue'[d], Append(current[d] \o queue[d], p))
    BY <1>4, <2>1, <2>5, Zenon DEF Same
  <2> QED BY <1>1, <1>4, <2>1, <2>2, <2>4, <2>6
<1>5. CASE /\ ~Full(d) /\ current[d] = <<>>
           /\ LET q == Append(queue[d], p) IN
                /\ current' = [current EXCEPT ![d] = <<Head(q)>>]
                /\ queue' = [queue EXCEPT ![d] = Tail(q)]
                /\ logValue(d, Len(q) - 1)
           /\ UNCHANGED dropped
  <2>1. queue[d] = <<>>
    BY <1>1, <1>5 DEF QueuesLogged
  <2>2. Head(Append(<<>>, p)) = p /\ Tail(Append(<<>>, p)) = <<>> /\ Len(Append(<<>>, p)) - 1 = 0
    OBVIOUS
  <2>3. /\ current' = [current EXCEPT ![d] = <<p>>] /\ queue' = [queue EXCEPT ![d] = <<>>]
        /\ queueLog' = [queueLog EXCEPT ![d] = 0]
    BY <1>5, <2>1, <2>2 DEF logValue
  <2>4. /\ queue' \in [Devices -> Seq(Packet)] /\ current' \in [Devices -> Seq(Packet)]
        /\ queueLog' \in [Devices -> Nat]
        /\ queue'[d] = <<>> /\ current'[d] = <<p>> /\ queueLog'[d] = 0
        /\ \A e \in Devices : e # d => /\ current'[e] = current[e] /\ queue'[e] = queue[e]
                                       /\ queueLog'[e] = queueLog[e]
    BY <1>1, <2>3
  <2>5. QueuesLogged'
    <3>1. Len(<<p>>) <= 1 /\ <<p>> # <<>> /\ Len(<<>>) = 0 /\ 0 <= QueueSize[d]
      BY <1>2
    <3> QED BY <1>1, <2>4, <3>1 DEF QueuesLogged
  <2>6. Same(<<p>> \o <<>>, Append(<<>> \o <<>>, p))
    BY DEF Same
  <2> QED BY <1>5, <2>1, <2>4, <2>5, <2>6
<1> QED BY <1>3, <1>4, <1>5 DEF SendFrom

LEMMA PacketRoute ==
  ASSUME NEW p \in Packet
  PROVE  /\ p.src \in Apps /\ p.seq \in Int /\ p.len \in Nat /\ p.time \in Int
         /\ p.id \in Apps \union {NoId} /\ p.msg \in Nat
  BY DEF Packet

LEMMA OnRouteAppend ==
  ASSUME NEW l \in Seq(Packet), NEW p \in Packet, NEW d, OnRoute(l, d),
         \E h \in 1 .. Len(Route[p.src]) : Route[p.src][h] = d
  PROVE  OnRoute(Append(l, p), d)
<1> DEFINE m == Append(l, p)
<1>1. \A i \in 1 .. Len(m) : m[i] = p \/ (i \in 1 .. Len(l) /\ m[i] = l[i])
  OBVIOUS
<1> HIDE DEF m
<1>2. \A i \in 1 .. Len(l) : \E h \in 1 .. Len(Route[l[i].src]) : Route[l[i].src][h] = d
  BY DEF OnRoute
<1>3. \A i \in 1 .. Len(m) : \E h \in 1 .. Len(Route[m[i].src]) : Route[m[i].src][h] = d
  BY <1>1, <1>2
<1>4. OnRoute(m, d)
  BY <1>3 DEF OnRoute
<1> QED BY <1>4 DEF m

LEMMA OnRouteTail ==
  ASSUME NEW l \in Seq(Packet), NEW d, OnRoute(l, d), l # <<>>
  PROVE  /\ OnRoute(Tail(l), d)
         /\ \E h \in 1 .. Len(Route[Head(l).src]) : Route[Head(l).src][h] = d
<1> DEFINE m == Tail(l)
<1>1. (\A i \in 1 .. Len(m) : i + 1 \in 1 .. Len(l) /\ m[i] = l[i + 1]) /\ 1 \in 1 .. Len(l) /\ Head(l) = l[1]
  OBVIOUS
<1> HIDE DEF m
<1>2. \A i \in 1 .. Len(l) : \E h \in 1 .. Len(Route[l[i].src]) : Route[l[i].src][h] = d
  BY DEF OnRoute
<1>3. \A i \in 1 .. Len(m) : \E h \in 1 .. Len(Route[m[i].src]) : Route[m[i].src][h] = d
  <2> SUFFICES ASSUME NEW i \in 1 .. Len(m)
               PROVE  \E h \in 1 .. Len(Route[m[i].src]) : Route[m[i].src][h] = d
    OBVIOUS
  <2>1. PICK j \in 1 .. Len(l) : m[i] = l[j]
    BY <1>1
  <2> QED BY <2>1, <1>2
<1>4. OnRoute(m, d)
  BY <1>3 DEF OnRoute
<1>5. \E h \in 1 .. Len(Route[Head(l).src]) : Route[Head(l).src][h] = d
  BY <1>1, <1>2
<1> QED BY <1>4, <1>5 DEF m

\* A packet sent by application a.
LEMMA SendStep ==
  ASSUME DevicesOK, NEW a \in Apps, NEW p \in Packet, p.src = a,
         SendFrom(Route[a][1], p), wire' = wire
  PROVE  /\ DevicesOK'
         /\ \A b \in Apps : b # a => InTransit(b)' = InTransit(b)
         /\ \/ /\ UNCHANGED dropped
               /\ Same(InTransit(a)', Append(InTransit(a), p))
            \/ /\ Full(Route[a][1]) /\ UNCHANGED <<queue, current, queueLog>>
               /\ dropped' = [dropped EXCEPT ![a] = @ + 1]
               /\ InTransit(a)' = InTransit(a)
<1> DEFINE d == Route[a][1]
<1>1. d \in Devices /\ 1 \in 1 .. Len(Route[a])
  BY RouteOfApp
<1>2. Here \in Contents /\ \A e \in Devices : Line(e) \in Seq(Packet) /\ Here[e] = Line(e)
                            /\ Same(Line(e), wire[e] \o (current[e] \o queue[e]))
  BY LineType
<1>10. dropped \in [Apps -> Nat]
  BY DEF DevicesOK
<1>3. CASE Full(d) /\ dropped' = [dropped EXCEPT ![p.src] = @ + 1] /\ UNCHANGED <<queue, current, queueLog>>
  <2>1. Here' = Here /\ \A e \in Devices : Line(e)' = Line(e)
    BY <1>3 DEF Here, Line
  <2>2. \A b \in Apps : InTransit(b)' = InTransit(b)
    BY <2>1, InTransitIsFlow
  <2>3. dropped' \in [Apps -> Nat]
    BY <1>3, <1>10
  <2>4. DevicesOK'
    BY <1>3, <2>1, <2>3 DEF DevicesOK, QueuesLogged, OnRoute
  <2> QED BY <1>3, <2>2, <2>4
<1>4. CASE /\ UNCHANGED dropped
           /\ queue' \in [Devices -> Seq(Packet)] /\ current' \in [Devices -> Seq(Packet)]
           /\ queueLog' \in [Devices -> Nat]
           /\ QueuesLogged'
           /\ \A e \in Devices : e # d => current'[e] = current[e] /\ queue'[e] = queue[e]
           /\ Same(current'[d] \o queue'[d], Append(current[d] \o queue[d], p))
  <2> HIDE DEF d
  <2>1. wire[d] \in Seq(Packet) /\ current[d] \in Seq(Packet) /\ queue[d] \in Seq(Packet)
    BY <1>1 DEF DevicesOK
  <2>2. current'[d] \in Seq(Packet) /\ queue'[d] \in Seq(Packet)
    BY <1>1, <1>4
  <2>3. Same((wire[d] \o current'[d]) \o queue'[d], wire[d] \o (current'[d] \o queue'[d]))
    BY <2>1, <2>2, ConcatThree
  <2>4. Same(Append(wire[d] \o (current[d] \o queue[d]), p), wire[d] \o Append(current[d] \o queue[d], p))
    <3>1. current[d] \o queue[d] \in Seq(Packet)
      BY <2>1
    <3> QED BY <2>1, <3>1, AppendConcat
  <2>5. Line(d)' = (wire[d] \o current'[d]) \o queue'[d]
    BY DEF Line
  <2>6. Here'[d] = Line(d)' /\ \A e \in Devices : e # d => Here'[e] = Here[e]
    BY <1>1, <1>4 DEF Here, Line
  <2>7. Here'[d] = Append(Here[d], p)
    BY <1>1, <1>2, <1>4, <2>3, <2>4, <2>5, <2>6, Zenon DEF Same
  <2>8. Came(Here, Here', d, p)
    BY <2>6, <2>7 DEF Came
  <2>9. Here' \in Contents
    <3>1. \A e \in Devices : Here'[e] \in Seq(Packet)
      <4>1. \A e \in Devices : Here[e] \in Seq(Packet)
        BY <1>2
      <4>2. Append(Here[d], p) \in Seq(Packet)
        BY <1>1, <4>1
      <4> QED BY <2>6, <2>7, <4>1, <4>2
    <3>2. Here' = [e \in Devices |-> Here'[e]]
      BY DEF Here
    <3> QED BY <3>1, <3>2 DEF Contents
  <2>10. \A b \in Apps : b # a => InTransit(b)' = InTransit(b)
    BY <1>1, <1>2, <2>8, FlowCameOther, InTransitIsFlow
  <2>11. Same(InTransit(a)', Append(InTransit(a), p))
    <3>1. Same(Flow(Here', a), Append(Flow(Here, a), p))
      BY <1>2, <2>8, <2>9, FlowEnter DEF d
    <3> QED BY <3>1, InTransitIsFlow
  <2>12. ASSUME NEW e \in Devices PROVE OnRoute(Line(e)', e)
    <3>1. Here[e] = Line(e) /\ Here'[e] = Line(e)' /\ OnRoute(Line(e), e) /\ Line(e) \in Seq(Packet)
      BY <1>2 DEF Here, DevicesOK
    <3>2. CASE e # d
      BY <3>1, <3>2, <2>6
    <3>3. CASE e = d
      <4>1. \E h \in 1 .. Len(Route[p.src]) : Route[p.src][h] = e
        BY <1>1, <3>3 DEF d
      <4> QED BY <4>1, <3>1, <3>3, <2>7, OnRouteAppend
    <3> QED BY <3>2, <3>3
  <2>13. DevicesOK'
    BY <1>4, <2>12 DEF DevicesOK, OnRoute
  <2> QED BY <1>4, <2>10, <2>11, <2>13
<1> QED BY <1>1, <1>3, <1>4, SendFromStep
LEMMA TransmitStep ==
  ASSUME DevicesOK, NEW d \in Devices, TransmitComplete(d)
  PROVE  DevicesOK' /\ \A a \in Apps : InTransit(a)' = InTransit(a)
<1>1. /\ queue \in [Devices -> Seq(Packet)] /\ current \in [Devices -> Seq(Packet)]
      /\ wire \in [Devices -> Seq(Packet)]
      /\ queueLog \in [Devices -> Nat] /\ QueuesLogged /\ dropped \in [Apps -> Nat]
  BY DEF DevicesOK
<1>2. PICK w \in Seq(Packet), c \in Seq(Packet), q \in Seq(Packet) : w = wire[d] /\ c = current[d] /\ q = queue[d]
  BY <1>1
<1>3. wire' = [wire EXCEPT ![d] = w \o c] /\ w \o c \in Seq(Packet) /\ dropped' = dropped
  BY <1>2 DEF TransmitComplete
<1>4. wire' \in [Devices -> Seq(Packet)] /\ wire'[d] = w \o c /\ \A e \in Devices : e # d => wire'[e] = wire[e]
  BY <1>1, <1>3
<1>5. /\ queue' \in [Devices -> Seq(Packet)] /\ current' \in [Devices -> Seq(Packet)]
      /\ queueLog' \in [Devices -> Nat] /\ QueuesLogged'
      /\ \A e \in Devices : e # d => queue'[e] = queue[e] /\ current'[e] = current[e]
      /\ Same(current'[d] \o queue'[d], q)
  <2>1. CASE q = <<>>
    <3>1. current' = [current EXCEPT ![d] = <<>>] /\ UNCHANGED <<queue, queueLog>>
      BY <2>1, <1>2 DEF TransmitComplete
    <3>2. /\ current' \in [Devices -> Seq(Packet)] /\ current'[d] = <<>>
          /\ \A e \in Devices : e # d => current'[e] = current[e]
      BY <1>1, <3>1
    <3>3. QueuesLogged'
      <4>1. Len(<<>>) <= 1
        OBVIOUS
      <4> QED BY <1>1, <1>2, <2>1, <3>1, <3>2, <4>1 DEF QueuesLogged
    <3>4. Same(<<>> \o <<>>, <<>>)
      BY DEF Same
    <3> QED BY <1>1, <1>2, <2>1, <3>1, <3>2, <3>3, <3>4
  <2>2. CASE q # <<>>
    <3>1. /\ current' = [current EXCEPT ![d] = <<Head(q)>>]
          /\ queue' = [queue EXCEPT ![d] = Tail(q)]
          /\ queueLog' = [queueLog EXCEPT ![d] = Len(q) - 1]
      BY <2>2, <1>2 DEF TransmitComplete, logValue
    <3>2. /\ Head(q) \in Packet /\ Tail(q) \in Seq(Packet) /\ Len(q) - 1 \in Nat /\ Len(Tail(q)) = Len(q) - 1
          /\ <<Head(q)>> \in Seq(Packet) /\ <<Head(q)>> \o Tail(q) = q /\ Len(<<Head(q)>>) = 1 /\ <<Head(q)>> # <<>>
      BY <2>2
    <3>3. /\ queue' \in [Devices -> Seq(Packet)] /\ current' \in [Devices -> Seq(Packet)]
          /\ queueLog' \in [Devices -> Nat]
          /\ queue'[d] = Tail(q) /\ current'[d] = <<Head(q)>> /\ queueLog'[d] = Len(q) - 1
          /\ \A e \in Devices : e # d => /\ queue'[e] = queue[e] /\ current'[e] = current[e]
                                         /\ queueLog'[e] = queueLog[e]
      BY <1>1, <3>1, <3>2
    <3>4. QueuesLogged'
      <4>1. Len(q) - 1 <= QueueSize[d]
        BY <1>1, <1>2, PipelineAssumption DEF QueuesLogged
      <4>2. /\ queueLog'[d] = Len(queue'[d]) /\ queueLog'[d] <= QueueSize[d]
            /\ Len(current'[d]) <= 1 /\ current'[d] # <<>>
        BY <3>2, <3>3, <4>1
      <4>3. ASSUME NEW e \in Devices, e # d
            PROVE  /\ queueLog'[e] = Len(queue'[e]) /\ queueLog'[e] <= QueueSize[e]
                   /\ Len(current'[e]) <= 1
                   /\ current'[e] = <<>> => queue'[e] = <<>>
        BY <1>1, <3>3, <4>3 DEF QueuesLogged
      <4> QED BY <4>2, <4>3 DEF QueuesLogged
    <3> QED BY <3>2, <3>3, <3>4 DEF Same
  <2> QED BY <2>1, <2>2
<1>6. Line(d)' = Line(d)
  <2>1. current'[d] \in Seq(Packet) /\ queue'[d] \in Seq(Packet)
    BY <1>5
  <2>2. Same(((w \o c) \o current'[d]) \o queue'[d], (w \o c) \o (current'[d] \o queue'[d]))
    BY <1>3, <2>1, ConcatThree
  <2>3. Line(d)' = ((w \o c) \o current'[d]) \o queue'[d] /\ Line(d) = (w \o c) \o q
    BY <1>2, <1>4 DEF Line
  <2> QED BY <1>5, <2>2, <2>3, Zenon DEF Same
<1>7. \A e \in Devices : e # d => Line(e)' = Line(e)
  BY <1>4, <1>5 DEF Line
<1>8. Here' = Here
  BY <1>6, <1>7 DEF Here
<1>9. \A a \in Apps : InTransit(a)' = InTransit(a)
  BY <1>8, InTransitIsFlow
<1>10. \A e \in Devices : OnRoute(Line(e)', e)
  BY <1>6, <1>7 DEF DevicesOK
<1>11. DevicesOK'
  BY <1>1, <1>3, <1>4, <1>5, <1>10 DEF DevicesOK, OnRoute
<1> QED BY <1>9, <1>11

LEMMA HeadOfConcat ==
  ASSUME NEW S, NEW x \in Seq(S), NEW y \in Seq(S), NEW z \in Seq(S), x # <<>>
  PROVE  /\ (x \o y) \o z # <<>> /\ Head((x \o y) \o z) = Head(x)
         /\ Same((Tail(x) \o y) \o z, Tail((x \o y) \o z))
<1>1. ASSUME NEW r \in Seq(S), NEW t \in Seq(S), r # <<>>
      PROVE  r \o t \in Seq(S) /\ r \o t # <<>> /\ Head(r \o t) = Head(r) /\ Tail(r \o t) = Tail(r) \o t
  BY <1>1
<1>2. x \o y \in Seq(S) /\ x \o y # <<>> /\ Head(x \o y) = Head(x) /\ Tail(x \o y) = Tail(x) \o y
  BY <1>1
<1>3. (x \o y) \o z # <<>> /\ Head((x \o y) \o z) = Head(x \o y) /\ Tail((x \o y) \o z) = Tail(x \o y) \o z
  BY <1>1, <1>2
<1> QED BY <1>2, <1>3, Zenon DEF Same

\* The packet at the front of device d's wire reaches the next device, where it
\* is stored or refused, or the receiver.
Onward(p, a) ==
  /\ p.src = a
  /\ DevicesOK'
  /\ \A b \in Apps : b # a => InTransit(b)' = InTransit(b)
  /\ \/ /\ UNCHANGED <<dropped, conn, sinkVars>>
        /\ InTransit(a)' = InTransit(a)
     \/ /\ UNCHANGED <<queue, current, queueLog, conn, sinkVars>>
        /\ dropped' = [dropped EXCEPT ![a] = @ + 1]
        /\ \E f \in Devices : Full(f)
        /\ \E i \in 1 .. Len(InTransit(a)) : Same(InTransit(a)', Fifo!Without(InTransit(a), i))
     \/ /\ UNCHANGED <<queue, current, queueLog, dropped>>
        /\ Receive(p)
        /\ InTransit(a) # <<>> /\ Head(InTransit(a)) = p
        /\ Same(InTransit(a)', Tail(InTransit(a)))

LEMMA ArriveStep ==
  ASSUME DevicesOK, NEW d \in Devices, Arrive(d)
  PROVE  \E p \in Packet, a \in Apps : Onward(p, a)
<1>1. /\ wire[d] \in Seq(Packet) /\ current[d] \in Seq(Packet) /\ queue[d] \in Seq(Packet)
      /\ wire[d] # <<>> /\ wire \in [Devices -> Seq(Packet)]
      /\ OnRoute(Line(d), d) /\ QueuesLogged /\ dropped \in [Apps -> Nat]
  BY DEF DevicesOK, Arrive
<1>21. PICK p \in Packet : p = Head(wire[d])
  <2>1. Head(wire[d]) \in Packet
    BY <1>1
  <2> QED BY <2>1
<1>2. PICK a \in Apps : a = p.src
  BY PacketRoute
<1> DEFINE n == Len(Route[a])
<1>3. /\ wire' = [wire EXCEPT ![d] = Tail(@)] /\ wire' \in [Devices -> Seq(Packet)]
      /\ wire'[d] = Tail(wire[d]) /\ \A e \in Devices : e # d => wire'[e] = wire[e]
  <2>1. wire' = [wire EXCEPT ![d] = Tail(@)]
    BY DEF Arrive
  <2>2. Tail(wire[d]) \in Seq(Packet)
    BY <1>1
  <2> QED BY <1>1, <2>1, <2>2
<1>4. /\ Line(d) # <<>> /\ Head(Line(d)) = p /\ Line(d) \in Seq(Packet)
      /\ Same((wire'[d] \o current[d]) \o queue[d], Tail(Line(d)))
  <2>1. /\ Line(d) # <<>> /\ Head(Line(d)) = p
        /\ Same((Tail(wire[d]) \o current[d]) \o queue[d], Tail(Line(d)))
    BY <1>1, <1>21, HeadOfConcat DEF Line
  <2> QED BY <2>1, <1>3, LineType
<1>5. OnRoute(Tail(Line(d)), d) /\ \E i \in 1 .. n : Route[a][i] = d
  <2>1. /\ OnRoute(Tail(Line(d)), d)
        /\ \E i \in 1 .. Len(Route[Head(Line(d)).src]) : Route[Head(Line(d)).src][i] = d
    BY <1>1, <1>4, OnRouteTail
  <2> QED BY <2>1, <1>4, <1>2
<1>6. PICK h \in 1 .. n : h = HopOf(p, d) /\ Route[a][h] = d
  <2>1. HopOf(p, d) \in 1 .. n /\ Route[a][HopOf(p, d)] = d
    BY <1>2, <1>5 DEF HopOf
  <2> QED BY <2>1
<1>7. /\ n \in Nat \ {0} /\ \A i \in 1 .. n : Route[a][i] \in Devices
      /\ \A i, j \in 1 .. n : Route[a][i] = Route[a][j] => i = j
  BY <1>2, RouteOfApp
<1>8. \/ h < n /\ SendFrom(Route[a][h + 1], p) /\ UNCHANGED <<conn, sinkVars>>
      \/ h = n /\ Receive(p) /\ UNCHANGED <<queue, current, queueLog, dropped>>
  <2>1. IF h < n
        THEN SendFrom(Route[a][h + 1], p) /\ UNCHANGED <<conn, sinkVars>>
        ELSE Receive(p) /\ UNCHANGED <<queue, current, queueLog, dropped>>
    BY <1>2, <1>6, <1>21 DEF Arrive
  <2> HIDE DEF n
  <2> QED BY <2>1, <1>6, <1>7
<1>9. Here \in Contents /\ (\A e \in Devices : Here[e] = Line(e) /\ Here'[e] = Line(e)' /\ Line(e) \in Seq(Packet))
      /\ Here' = [e \in Devices |-> Here'[e]]
  BY LineType DEF Here
<1>20. Head(Here[d]).src = a /\ Here[d] # <<>>
  BY <1>2, <1>4, <1>9
<1> HIDE DEF n
<1>10. ASSUME UNCHANGED <<queue, current, queueLog>>
       PROVE  /\ Went(Here, Here', d) /\ Here' \in Contents
              /\ dropped' \in [Apps -> Nat] => DevicesOK'
              /\ \A b \in Apps : b # a => InTransit(b)' = InTransit(b)
  <2>1. Line(d)' = (wire'[d] \o current[d]) \o queue[d]
    BY <1>10 DEF Line
  <2>2. Line(d)' = Tail(Line(d))
    BY <2>1, <1>4 DEF Same
  <2>3. \A e \in Devices : e # d => Line(e)' = Line(e)
    BY <1>3, <1>10 DEF Line
  <2>4. Went(Here, Here', d)
    BY <2>2, <2>3, <1>4, <1>9 DEF Went
  <2>5. \A e \in Devices : Here'[e] \in Seq(Packet)
    <3>1. Tail(Line(d)) \in Seq(Packet)
      BY <1>4
    <3> QED BY <3>1, <2>2, <2>3, <1>9
  <2>6. \A e \in Devices : OnRoute(Line(e)', e)
    BY <2>2, <2>3, <1>5 DEF DevicesOK
  <2>7. dropped' \in [Apps -> Nat] => DevicesOK'
    BY <1>3, <1>10, <2>6 DEF DevicesOK, OnRoute, QueuesLogged
  <2>8. \A b \in Apps : b # a => InTransit(b)' = InTransit(b)
    BY <1>9, <1>20, <2>4, FlowWentOther, InTransitIsFlow
  <2>9. Here' \in Contents
    BY <2>5, <1>9 DEF Contents
  <2> QED BY <2>4, <2>7, <2>8, <2>9
<1>11. CASE h < n /\ SendFrom(Route[a][h + 1], p) /\ UNCHANGED <<conn, sinkVars>>
  <2>1. h + 1 \in 1 .. n /\ h \in 1 .. n - 1 /\ h \in 1 .. n
    BY <1>6, <1>7, <1>11
  <2>2. PICK f \in Devices : f = Route[a][h + 1] /\ f # d
    BY <1>6, <1>7, <2>1
  <2>3. SendFrom(f, p)
    BY <1>11, <2>2
  <2>4. CASE Full(f) /\ dropped' = [dropped EXCEPT ![p.src] = @ + 1] /\ UNCHANGED <<queue, current, queueLog>>
    <3>1. dropped' \in [Apps -> Nat] /\ dropped' = [dropped EXCEPT ![a] = @ + 1]
      BY <2>4, <1>1, <1>2
    <3>2. \E i \in 1 .. Len(Flow(Here, a)) : Same(Flow(Here', a), Fifo!Without(Flow(Here, a), i))
      <4>1. Went(Here, Here', Route[a][h]) /\ Here' \in Contents /\ Head(Here[Route[a][h]]).src = a
        BY <1>6, <1>10, <1>20, <2>4
      <4> QED BY <1>6, <1>9, <4>1, FlowLose DEF n
    <3>3. \E i \in 1 .. Len(InTransit(a)) : Same(InTransit(a)', Fifo!Without(InTransit(a), i))
      BY <3>2, <1>2, InTransitIsFlow
    <3>4. Onward(p, a)
      BY <1>2, <1>10, <1>11, <2>2, <2>4, <3>1, <3>3 DEF Onward
    <3> QED BY <3>4
  <2>5. CASE /\ UNCHANGED dropped
             /\ queue' \in [Devices -> Seq(Packet)] /\ current' \in [Devices -> Seq(Packet)]
             /\ queueLog' \in [Devices -> Nat]
             /\ QueuesLogged'
             /\ \A e \in Devices : e # f => current'[e] = current[e] /\ queue'[e] = queue[e]
             /\ Same(current'[f] \o queue'[f], Append(current[f] \o queue[f], p))
    <3>1. wire[f] \in Seq(Packet) /\ current[f] \in Seq(Packet) /\ queue[f] \in Seq(Packet)
      BY <2>2 DEF DevicesOK
    <3>2. current'[f] \in Seq(Packet) /\ queue'[f] \in Seq(Packet) /\ current[f] \o queue[f] \in Seq(Packet)
      BY <2>2, <2>5, <3>1
    <3>3. Same((wire[f] \o current'[f]) \o queue'[f], wire[f] \o (current'[f] \o queue'[f]))
      BY <3>1, <3>2, ConcatThree
    <3>4. Same(Append(wire[f] \o (current[f] \o queue[f]), p), wire[f] \o Append(current[f] \o queue[f], p))
      BY <3>1, <3>2, <1>2, AppendConcat
    <3>5. Same(Line(f), wire[f] \o (current[f] \o queue[f])) /\ Line(f)' = (wire[f] \o current'[f]) \o queue'[f]
      <4>1. Same(Line(f), wire[f] \o (current[f] \o queue[f]))
        BY <2>2, LineType
      <4>2. Line(f)' = (wire[f] \o current'[f]) \o queue'[f]
        BY <1>3, <2>2 DEF Line
      <4> QED BY <4>1, <4>2
    <3>6. Line(f)' = Append(Line(f), p)
      BY <2>5, <3>3, <3>4, <3>5, Zenon DEF Same
    <3>7. Line(d)' = Tail(Line(d))
      <4>1. Line(d)' = (wire'[d] \o current[d]) \o queue[d]
        BY <2>2, <2>5 DEF Line
      <4> QED BY <4>1, <1>4 DEF Same
    <3>8. \A e \in Devices : e # d /\ e # f => Line(e)' = Line(e)
      BY <1>3, <2>5 DEF Line
    <3>9. Moved(Here, Here', d, f)
      <4>1. Here[d] = Line(d) /\ Here[f] = Line(f) /\ Here'[d] = Tail(Line(d)) /\ Here'[f] = Append(Line(f), p)
        BY <1>9, <2>2, <3>6, <3>7
      <4>2. \A e \in Devices : e # d /\ e # f => Here'[e] = Here[e]
        BY <1>9, <3>8
      <4> QED BY <1>4, <4>1, <4>2 DEF Moved
    <3>10. Here' \in Contents
      <4>1. Tail(Line(d)) \in Seq(Packet) /\ Append(Line(f), p) \in Seq(Packet)
        BY <1>2, <1>4, <1>9, <2>2
      <4>2. \A e \in Devices : Here'[e] \in Seq(Packet)
        <5>1. Here'[d] \in Seq(Packet) /\ Here'[f] \in Seq(Packet)
          BY <4>1, <3>6, <3>7, <1>9, <2>2
        <5>2. \A e \in Devices : e # d /\ e # f => Here'[e] \in Seq(Packet)
          BY <3>8, <1>9
        <5> QED BY <5>1, <5>2
      <4> QED BY <4>2, <1>9 DEF Contents
    <3>11. \A e \in Devices : OnRoute(Line(e)', e)
      <4>1. OnRoute(Append(Line(f), p), f)
        <5>1. \E i \in 1 .. Len(Route[p.src]) : Route[p.src][i] = f
          BY <1>2, <2>1, <2>2 DEF n
        <5>2. OnRoute(Line(f), f) /\ Line(f) \in Seq(Packet)
          BY <1>9, <2>2 DEF DevicesOK
        <5> QED BY <5>1, <5>2, <1>2, OnRouteAppend
      <4>2. OnRoute(Line(d)', d) /\ OnRoute(Line(f)', f)
        BY <4>1, <3>6, <3>7, <1>5
      <4>3. \A e \in Devices : e # d /\ e # f => OnRoute(Line(e)', e)
        BY <3>8 DEF DevicesOK
      <4> QED BY <4>2, <4>3
    <3>12. DevicesOK'
      BY <1>1, <1>3, <2>5, <3>11 DEF DevicesOK, OnRoute
    <3>13. \A b \in Apps : b # a => InTransit(b)' = InTransit(b)
      BY <1>9, <1>20, <2>2, <3>9, FlowMovedOther, InTransitIsFlow
    <3>14. Same(Flow(Here', a), Flow(Here, a))
      BY <1>2, <1>6, <1>9, <1>20, <2>1, <2>2, <3>9, <3>10, FlowMove DEF n
    <3>15. InTransit(a)' = InTransit(a)
      BY <1>2, <3>14, InTransitIsFlow DEF Same
    <3>16. Onward(p, a)
      BY <1>2, <1>11, <2>5, <3>12, <3>13, <3>15 DEF Onward
    <3> QED BY <3>16
  <2> QED BY <1>2, <2>2, <2>3, <2>4, <2>5, SendFromStep
<1>12. CASE h = n /\ Receive(p) /\ UNCHANGED <<queue, current, queueLog, dropped>>
  <2>1. /\ Flow(Here, a) # <<>> /\ Head(Flow(Here, a)) = Head(Here[d])
        /\ Same(Flow(Here', a), Tail(Flow(Here, a)))
    BY <1>2, <1>6, <1>9, <1>10, <1>12, <1>20, FlowLeave DEF n
  <2>2. /\ InTransit(a) # <<>> /\ Head(InTransit(a)) = p
        /\ Same(InTransit(a)', Tail(InTransit(a)))
    BY <2>1, <1>2, <1>4, <1>9, InTransitIsFlow
  <2>3. Onward(p, a)
    BY <1>1, <1>2, <1>10, <1>12, <2>2 DEF Onward
  <2> QED BY <2>3
<1> QED BY <1>8, <1>11, <1>12

-----------------------------------------------------------------------------
(* The stream of a source.                                                 *)

\* What is known of the ends of the buffers.
LEMMA StreamEnds ==
  ASSUME NEW m, NEW snt, NEW app, NEW bytes, NEW ackd, StreamOK(m, snt, app, bytes, ackd)
  PROVE  /\ TotalOf(m) \in Nat /\ NxtOf(m, app) \in Nat /\ UnaOf(m, snt, app) \in Nat
         /\ UnaOf(m, snt, app) <= NxtOf(m, app) /\ NxtOf(m, app) <= TotalOf(m)
         /\ app # <<>> => app[1].from = NxtOf(m, app)
         /\ snt # <<>> => snt[1].from = UnaOf(m, snt, app)
<1>1. m \in Seq(Nat) /\ snt \in Seq(Item) /\ app \in Seq(Item)
  BY DEF StreamOK
<1>2. TotalOf(m) \in Nat
  <2>1. CASE m = <<>>
    BY <2>1 DEF TotalOf
  <2>2. CASE m # <<>>
    <3>1. m[Len(m)] \in Nat
      BY <1>1, <2>2
    <3> QED BY <2>2, <3>1 DEF TotalOf
  <2> QED BY <2>1, <2>2
<1>3. ASSUME NEW l \in Seq(Item), NEW a, NEW b \in Nat, Covers(l, a, b), l # <<>> => l[1].from = a, l = <<>> => a = b
      PROVE  a \in Nat /\ a <= b
  <2>1. CASE l # <<>>
    <3>1. 1 \in 1 .. Len(l)
      BY <2>1
    <3>2. a <= l[1].from /\ l[1].to <= b /\ l[1].from < l[1].to /\ a \in Nat /\ b \in Nat
      BY <1>3, <2>1, <3>1, CoversBounds, CoversInterior
    <3>3. l[1].from \in Nat /\ l[1].to \in Nat
      BY <3>1, ItemFields
    <3> QED BY <3>2, <3>3
  <2>2. CASE l = <<>>
    BY <1>3, <2>2
  <2> QED BY <2>1, <2>2
<1>4. NxtOf(m, app) \in Nat /\ NxtOf(m, app) <= TotalOf(m) /\ (app # <<>> => app[1].from = NxtOf(m, app))
  <2>1. Covers(app, NxtOf(m, app), TotalOf(m))
    BY DEF StreamOK
  <2>2. (app # <<>> => app[1].from = NxtOf(m, app)) /\ (app = <<>> => NxtOf(m, app) = TotalOf(m))
    BY DEF NxtOf
  <2> QED BY <1>1, <1>2, <1>3, <2>1, <2>2
<1>5. UnaOf(m, snt, app) \in Nat /\ UnaOf(m, snt, app) <= NxtOf(m, app) /\ (snt # <<>> => snt[1].from = UnaOf(m, snt, app))
  <2>1. Covers(snt, UnaOf(m, snt, app), NxtOf(m, app))
    BY DEF StreamOK
  <2>2. (snt # <<>> => snt[1].from = UnaOf(m, snt, app)) /\ (snt = <<>> => UnaOf(m, snt, app) = NxtOf(m, app))
    BY DEF UnaOf
  <2> QED BY <1>1, <1>3, <1>4, <2>1, <2>2
<1> QED BY <1>2, <1>4, <1>5

\* The ends are those the lists cover.
LEMMA CoversFrom ==
  ASSUME NEW l, NEW a, NEW b, Covers(l, a, b)
  PROVE  a = IF l = <<>> THEN b ELSE l[1].from
  BY DEF Covers

\* How to show that a stream is in order.
LEMMA StreamBuild ==
  ASSUME NEW m \in Seq(Nat), NEW snt \in Seq(Item), NEW app \in Seq(Item),
         NEW bytes \in SUBSET Nat, NEW ackd \in SUBSET Nat, NEW a, NEW b, NEW c,
         \A k \in 1 .. Len(m) : m[k] <= TotalOf(m), c = TotalOf(m),
         Covers(snt, a, b), Covers(app, b, c), TagsOK(m, snt), TagsOK(m, app),
         0 .. a - 1 \subseteq bytes, bytes \subseteq 0 .. b - 1,
         \A n \in ackd : n <= b /\ 0 .. n - 1 \subseteq bytes
  PROVE  /\ StreamOK(m, snt, app, bytes, ackd)
         /\ NxtOf(m, app) = b /\ UnaOf(m, snt, app) = a
<1>1. NxtOf(m, app) = b
  BY CoversFrom DEF NxtOf
<1>2. UnaOf(m, snt, app) = a
  BY <1>1, CoversFrom DEF UnaOf
<1> QED BY <1>1, <1>2 DEF StreamOK

LEMMA StreamInit == StreamOK(<<>>, <<>>, <<>>, {}, {})
  BY DEF StreamOK, TotalOf, NxtOf, UnaOf, TagsOK, Covers

\* A tag stays good when its item is cut and messages are added.
LEMMA TagsKept ==
  ASSUME NEW m, NEW l \in Seq(Item), NEW r \in Seq(Item), TagsOK(m, l), TagsFrom(r, l), m \in Seq(Nat)
  PROVE  TagsOK(m, r)
<1> SUFFICES ASSUME NEW i \in 1 .. Len(r) PROVE TagOK(m, r[i])
  BY DEF TagsOK
<1>1. PICK j \in 1 .. Len(l) : r[i].msg = l[j].msg /\ l[j].from <= r[i].from
  BY DEF TagsFrom
<1>2. TagOK(m, l[j])
  BY DEF TagsOK
<1>3. r[i].from \in Nat /\ l[j].from \in Nat
  BY ItemFields
<1>4. ASSUME NEW k \in 1 .. r[i].msg PROVE k \in 1 .. Len(m) /\ m[k] <= r[i].from
  <2>1. k \in 1 .. Len(m) /\ m[k] <= l[j].from
    BY <1>1, <1>2 DEF TagOK
  <2>2. m[k] \in Nat
    BY <2>1
  <2> QED BY <1>1, <1>3, <2>1, <2>2
<1> QED BY <1>4 DEF TagOK

LEMMA TagsAppend ==
  ASSUME NEW m, NEW l \in Seq(Item), NEW e \in Item, TagsOK(m, l), TagOK(m, e)
  PROVE  TagsOK(m, Append(l, e))
<1> DEFINE r == Append(l, e)
<1>1. \A i \in 1 .. Len(r) : r[i] = e \/ (i \in 1 .. Len(l) /\ r[i] = l[i])
  OBVIOUS
<1> HIDE DEF r
<1>2. TagsOK(m, r)
  BY <1>1 DEF TagsOK
<1> QED BY <1>2 DEF r

LEMMA TagsTail ==
  ASSUME NEW m, NEW l \in Seq(Item), TagsOK(m, l), l # <<>>
  PROVE  TagsOK(m, Tail(l)) /\ TagOK(m, l[1]) /\ l[1] \in Item
<1>1. \A i \in 1 .. Len(Tail(l)) : i + 1 \in 1 .. Len(l) /\ Tail(l)[i] = l[i + 1]
  OBVIOUS
<1>2. 1 \in 1 .. Len(l) /\ l[1] \in Item
  OBVIOUS
<1>3. TagsOK(m, Tail(l))
  <2> SUFFICES ASSUME NEW i \in 1 .. Len(Tail(l)) PROVE TagOK(m, Tail(l)[i])
    BY DEF TagsOK
  <2>1. PICK j \in 1 .. Len(l) : Tail(l)[i] = l[j]
    BY <1>1
  <2> QED BY <2>1 DEF TagsOK
<1> QED BY <1>2, <1>3 DEF TagsOK

LEMMA StreamSend ==
  ASSUME NEW m, NEW snt, NEW app, NEW bytes, NEW ackd, StreamOK(m, snt, app, bytes, ackd),
         NEW size \in Nat \ {0}, NEW e,
         e = [from |-> TotalOf(m), to |-> TotalOf(m) + size, msg |-> Len(m), lastSent |-> Unsent]
  PROVE  /\ StreamOK(Append(m, TotalOf(m) + size), snt, Append(app, e), bytes, ackd)
         /\ NxtOf(Append(m, TotalOf(m) + size), Append(app, e)) = NxtOf(m, app)
         /\ e \in Item
<1> DEFINE T == TotalOf(m)
           a == UnaOf(m, snt, app)
           b == NxtOf(m, app)
           m2 == Append(m, T + size)
<1>1. T \in Nat /\ b \in Nat /\ a \in Nat
  BY StreamEnds
<1>2. /\ m \in Seq(Nat) /\ snt \in Seq(Item) /\ app \in Seq(Item)
      /\ bytes \in SUBSET Nat /\ ackd \in SUBSET Nat
      /\ \A k \in 1 .. Len(m) : m[k] <= T
      /\ Covers(snt, a, b) /\ Covers(app, b, T)
      /\ TagsOK(m, snt) /\ TagsOK(m, app)
      /\ 0 .. a - 1 \subseteq bytes /\ bytes \subseteq 0 .. b - 1
      /\ \A n \in ackd : n <= b /\ 0 .. n - 1 \subseteq bytes
  BY DEF StreamOK
<1> HIDE DEF a, b
<1>3. e \in Item /\ e.from = T /\ e.to = T + size /\ e.from < e.to /\ e.msg = Len(m)
  <2>1. Len(m) \in Nat
    BY <1>2
  <2> QED BY <1>1, <2>1 DEF Item, Unsent
<1>12. T = TotalOf(m)
  OBVIOUS
<1> HIDE DEF T
<1>4. /\ m2 \in Seq(Nat) /\ Len(m2) = Len(m) + 1 /\ m2[Len(m) + 1] = T + size /\ m2 # <<>>
      /\ (\A k \in 1 .. Len(m) : m2[k] = m[k]) /\ Len(m) \in Nat
      /\ TotalOf(m2) = T + size
  <2>1. /\ m2 \in Seq(Nat) /\ Len(m2) = Len(m) + 1 /\ m2[Len(m) + 1] = T + size /\ m2 # <<>>
        /\ (\A k \in 1 .. Len(m) : m2[k] = m[k]) /\ Len(m) \in Nat
    <3>1. m \in Seq(Nat) /\ T + size \in Nat /\ Len(m) \in Nat
      BY <1>1, <1>2
    <3>2. PICK x \in Nat : x = T + size
      BY <3>1
    <3>3. /\ Append(m, x) \in Seq(Nat) /\ Len(Append(m, x)) = Len(m) + 1 /\ Append(m, x) # <<>>
          /\ \A k \in 1 .. Len(m) : Append(m, x)[k] = m[k]
          /\ Append(m, x)[Len(m) + 1] = x
      BY <3>1, AppendElements
    <3> QED BY <3>1, <3>2, <3>3
  <2> HIDE DEF m2
  <2> QED BY <2>1 DEF TotalOf
<1>11. m2 = Append(m, T + size)
  OBVIOUS
<1> HIDE DEF m2
<1>5. \A k \in 1 .. Len(m2) : m2[k] <= TotalOf(m2)
  <2> SUFFICES ASSUME NEW k \in 1 .. Len(m2) PROVE m2[k] <= T + size
    BY <1>4
  <2>1. CASE k \in 1 .. Len(m)
    <3>1. m2[k] = m[k] /\ m[k] <= T /\ m[k] \in Nat
      BY <1>2, <1>4, <2>1
    <3> QED BY <1>1, <3>1
  <2>2. CASE k = Len(m) + 1
    BY <1>1, <1>4, <2>2
  <2> QED BY <1>4, <2>1, <2>2
<1>6. \A x : TagOK(m, x) => TagOK(m2, x)
  <2>1. \A k \in 1 .. Len(m) : k \in 1 .. Len(m2) /\ m2[k] = m[k]
    BY <1>4
  <2> QED BY <2>1 DEF TagOK
<1>7. TagsOK(m2, snt) /\ TagsOK(m2, app)
  BY <1>2, <1>6 DEF TagsOK
<1>8. TagOK(m2, e)
  <2>1. \A k \in 1 .. Len(m) : k \in 1 .. Len(m2) /\ m2[k] <= T
    BY <1>2, <1>4
  <2> QED BY <1>3, <2>1 DEF TagOK
<1>9. TagsOK(m2, Append(app, e)) /\ Append(app, e) \in Seq(Item)
  BY <1>2, <1>3, <1>7, <1>8, TagsAppend
<1>10. Covers(Append(app, e), b, T + size)
  <2>1. <<e>> \in Seq(Item) /\ Covers(<<e>>, T, T + size)
    BY <1>3, CoversOne
  <2>2. Covers(app \o <<e>>, b, T + size)
    BY <2>1, <1>2, CoversConcat
  <2>3. Append(app, e) = app \o <<e>>
    BY <1>2, <1>3, AppendIsConcat
  <2> QED BY <2>2, <2>3
<1>20. StreamOK(m2, snt, Append(app, e), bytes, ackd) /\ NxtOf(m2, Append(app, e)) = b
  BY <1>2, <1>4, <1>5, <1>7, <1>9, <1>10, StreamBuild
<1> QED BY <1>20, <1>3, <1>11, <1>12 DEF b

Taken(m, snt, app, bytes, ackd, list, e) ==
  /\ StreamOK(m, Append(snt, e), Tail(list), bytes, ackd)
  /\ e \in Item /\ e.from < e.to /\ e.to = NxtOf(m, Tail(list))
  /\ NxtOf(m, app) <= NxtOf(m, Tail(list))

LEMMA StreamNewData ==
  ASSUME NEW m, NEW snt, NEW app, NEW bytes, NEW ackd, StreamOK(m, snt, app, bytes, ackd),
         app # <<>>, NEW t \in Nat, NEW list, list = CutFirst(app, SegmentSize),
         NEW e, e = [list[1] EXCEPT !.lastSent = t]
  PROVE  Taken(m, snt, app, bytes, ackd, list, e)
<1> DEFINE T == TotalOf(m)
           a == UnaOf(m, snt, app)
           b == NxtOf(m, app)
<1>1. T \in Nat /\ b \in Nat /\ a \in Nat
  BY StreamEnds
<1>2. /\ m \in Seq(Nat) /\ snt \in Seq(Item) /\ app \in Seq(Item)
      /\ bytes \in SUBSET Nat /\ ackd \in SUBSET Nat
      /\ \A k \in 1 .. Len(m) : m[k] <= TotalOf(m)
      /\ Covers(snt, a, b) /\ Covers(app, b, T)
      /\ TagsOK(m, snt) /\ TagsOK(m, app)
      /\ 0 .. a - 1 \subseteq bytes /\ bytes \subseteq 0 .. b - 1
      /\ \A n \in ackd : n <= b /\ 0 .. n - 1 \subseteq bytes
  BY DEF StreamOK
<1>12. T = TotalOf(m) /\ b = NxtOf(m, app)
  OBVIOUS
<1> HIDE DEF a, b, T
<1>3. list \in Seq(Item) /\ list # <<>> /\ Covers(list, b, T) /\ TagsFrom(list, app)
  <2>1. SegmentSize \in Nat \ {0}
    BY PipelineAssumption
  <2> QED BY <2>1, <1>2, CutFirstCovers
<1>4. TagsOK(m, list)
  BY <1>2, <1>3, TagsKept
<1>5. TagsOK(m, Tail(list)) /\ TagOK(m, list[1]) /\ list[1] \in Item
  BY <1>3, <1>4, TagsTail
<1>6. Tail(list) \in Seq(Item) /\ Covers(Tail(list), list[1].to, T)
  BY <1>3, CoversTail
<1>7. list[1].from = b /\ list[1].from < list[1].to /\ list[1].to \in Nat
  <2>1. 1 \in 1 .. Len(list)
    BY <1>3
  <2> QED BY <2>1, <1>3, CoversInterior, ItemFields
<1>8. e \in Item /\ e.from = b /\ e.to = list[1].to /\ e.msg = list[1].msg /\ e.from < e.to /\ e.from = list[1].from
  BY <1>5, <1>7 DEF Item
<1>9. TagOK(m, e)
  BY <1>5, <1>8 DEF TagOK
<1>10. TagsOK(m, Append(snt, e)) /\ Append(snt, e) \in Seq(Item)
  BY <1>2, <1>8, <1>9, TagsAppend
<1>11. Covers(Append(snt, e), a, e.to)
  <2>1. <<e>> \in Seq(Item) /\ Covers(<<e>>, b, e.to)
    BY <1>8, CoversOne
  <2>2. Covers(snt \o <<e>>, a, e.to)
    BY <2>1, <1>2, CoversConcat
  <2>3. Append(snt, e) = snt \o <<e>>
    BY <1>2, <1>8, AppendIsConcat
  <2> QED BY <2>2, <2>3
<1>13. b <= e.to /\ e.to \in Nat
  BY <1>1, <1>7, <1>8
<1>14. bytes \subseteq 0 .. e.to - 1
  BY <1>1, <1>2, <1>13
<1>15. \A n \in ackd : n <= e.to /\ 0 .. n - 1 \subseteq bytes
  BY <1>1, <1>2, <1>13
<1>16. StreamOK(m, Append(snt, e), Tail(list), bytes, ackd) /\ NxtOf(m, Tail(list)) = e.to
  <2>1. PICK snt2 \in Seq(Item), app2 \in Seq(Item), c \in Nat :
         snt2 = Append(snt, e) /\ app2 = Tail(list) /\ c = e.to
    BY <1>6, <1>10, <1>13
  <2>2. Covers(snt2, a, c) /\ Covers(app2, c, T) /\ TagsOK(m, snt2) /\ TagsOK(m, app2)
    BY <2>1, <1>5, <1>6, <1>8, <1>10, <1>11
  <2>3. bytes \subseteq 0 .. c - 1 /\ \A n \in ackd : n <= c /\ 0 .. n - 1 \subseteq bytes
    BY <2>1, <1>14, <1>15
  <2>4. StreamOK(m, snt2, app2, bytes, ackd) /\ NxtOf(m, app2) = c
    <3>1. 0 .. a - 1 \subseteq bytes /\ (\A k \in 1 .. Len(m) : m[k] <= TotalOf(m)) /\ m \in Seq(Nat)
      BY <1>2
    <3>2. bytes \in SUBSET Nat /\ ackd \in SUBSET Nat
      BY <1>2
    <3> QED BY <3>1, <3>2, <2>2, <2>3, <1>12, StreamBuild
  <2> QED BY <2>1, <2>4
<1> QED BY <1>6, <1>8, <1>12, <1>13, <1>16 DEF Taken

LEMMA StreamAgain ==
  ASSUME NEW m, NEW snt, NEW app, NEW bytes, NEW ackd, StreamOK(m, snt, app, bytes, ackd),
         NEW i \in 1 .. Len(snt), NEW size \in Nat \ {0}, NEW t \in Nat, NEW list, list = CutAt(snt, i, size),
         NEW e, e = [list[i] EXCEPT !.lastSent = t]
  PROVE  /\ StreamOK(m, [list EXCEPT ![i] = e], app, bytes, ackd)
         /\ e \in Item /\ e.from < e.to /\ e.to <= NxtOf(m, app)
         /\ [list EXCEPT ![i] = e] \in Seq(Item)
<1> DEFINE T == TotalOf(m)
           a == UnaOf(m, snt, app)
           b == NxtOf(m, app)
           r == [list EXCEPT ![i] = e]
<1>1. T \in Nat /\ b \in Nat /\ a \in Nat
  BY StreamEnds
<1>2. /\ m \in Seq(Nat) /\ snt \in Seq(Item) /\ app \in Seq(Item)
      /\ bytes \in SUBSET Nat /\ ackd \in SUBSET Nat
      /\ \A k \in 1 .. Len(m) : m[k] <= TotalOf(m)
      /\ Covers(snt, a, b) /\ Covers(app, b, T)
      /\ TagsOK(m, snt) /\ TagsOK(m, app)
      /\ 0 .. a - 1 \subseteq bytes /\ bytes \subseteq 0 .. b - 1
      /\ \A n \in ackd : n <= b /\ 0 .. n - 1 \subseteq bytes
  BY DEF StreamOK
<1>12. T = TotalOf(m) /\ b = NxtOf(m, app)
  OBVIOUS
<1> HIDE DEF a, b, T
<1>3. list \in Seq(Item) /\ i \in 1 .. Len(list) /\ Covers(list, a, b) /\ TagsFrom(list, snt)
  BY <1>2, CutAtCovers
<1>4. TagsOK(m, list) /\ list # <<>>
  <2>1. TagsOK(m, list)
    BY <1>2, <1>3, TagsKept
  <2> QED BY <2>1, <1>3
<1>5. /\ list[1].from = a /\ list[Len(list)].to = b
      /\ \A j \in 1 .. Len(list) : list[j].from < list[j].to
      /\ \A j \in 1 .. Len(list) - 1 : list[j].to = list[j + 1].from
  BY <1>3, <1>4, CoversInterior
<1>6. list[i].to <= b
  BY <1>3, CoversBounds
<1>7. e \in Item /\ e.from = list[i].from /\ e.to = list[i].to /\ e.msg = list[i].msg
  <2>1. list[i] \in Item
    BY <1>3
  <2> QED BY <2>1 DEF Item
<1>8. r \in Seq(Item) /\ Len(r) = Len(list) /\ r[i] = e /\ (\A j \in 1 .. Len(list) : j # i => r[j] = list[j]) /\ r # <<>>
  BY <1>3, <1>4, <1>7
<1> HIDE DEF r
<1>9. \A j \in 1 .. Len(list) : r[j].from = list[j].from /\ r[j].to = list[j].to /\ r[j].msg = list[j].msg
  BY <1>7, <1>8
<1>10. Covers(r, a, b)
  <2>1. 1 \in 1 .. Len(list) /\ Len(list) \in 1 .. Len(list)
    BY <1>3
  <2>2. r[1].from = a /\ r[Len(r)].to = b
    BY <2>1, <1>5, <1>8, <1>9
  <2>3. \A j \in 1 .. Len(r) : r[j].from < r[j].to
    BY <1>5, <1>8, <1>9
  <2>4. \A j \in 1 .. Len(r) - 1 : r[j].to = r[j + 1].from
    <3>1. \A j \in 1 .. Len(list) - 1 : j \in 1 .. Len(list) /\ j + 1 \in 1 .. Len(list)
      BY <1>3
    <3> QED BY <3>1, <1>5, <1>8, <1>9
  <2> QED BY <2>2, <2>3, <2>4, <1>8 DEF Covers
<1>11. TagsOK(m, r)
  BY <1>4, <1>8, <1>9 DEF TagsOK, TagOK
<1>13. StreamOK(m, r, app, bytes, ackd)
  <2>1. /\ Covers(r, a, b) /\ Covers(app, b, T) /\ TagsOK(m, r) /\ TagsOK(m, app)
        /\ 0 .. a - 1 \subseteq bytes /\ bytes \subseteq 0 .. b - 1
        /\ \A n \in ackd : n <= b /\ 0 .. n - 1 \subseteq bytes
    BY <1>2, <1>10, <1>11
  <2>2. /\ m \in Seq(Nat) /\ r \in Seq(Item) /\ app \in Seq(Item)
        /\ bytes \in SUBSET Nat /\ ackd \in SUBSET Nat
        /\ \A k \in 1 .. Len(m) : m[k] <= TotalOf(m)
    BY <1>2, <1>8
  <2> QED BY <2>1, <2>2, <1>12, StreamBuild
<1> QED BY <1>3, <1>5, <1>6, <1>7, <1>8, <1>12, <1>13 DEF r

LEMMA StreamAck ==
  ASSUME NEW m, NEW snt, NEW app, NEW bytes, NEW ackd, StreamOK(m, snt, app, bytes, ackd),
         NEW n \in ackd, \E i \in 1 .. Len(snt) : snt[i].from < n
  PROVE  /\ StreamOK(m, DiscardUpTo(snt, n), app, bytes, ackd \ {n})
         /\ DiscardUpTo(snt, n) \in Seq(Item)
<1> DEFINE T == TotalOf(m)
           a == UnaOf(m, snt, app)
           b == NxtOf(m, app)
           r == DiscardUpTo(snt, n)
<1>1. T \in Nat /\ b \in Nat /\ a \in Nat
  BY StreamEnds
<1>2. /\ m \in Seq(Nat) /\ snt \in Seq(Item) /\ app \in Seq(Item)
      /\ bytes \in SUBSET Nat /\ ackd \in SUBSET Nat
      /\ \A k \in 1 .. Len(m) : m[k] <= TotalOf(m)
      /\ Covers(snt, a, b) /\ Covers(app, b, T)
      /\ TagsOK(m, snt) /\ TagsOK(m, app)
      /\ 0 .. a - 1 \subseteq bytes /\ bytes \subseteq 0 .. b - 1
      /\ \A x \in ackd : x <= b /\ 0 .. x - 1 \subseteq bytes
  BY DEF StreamOK
<1>12. T = TotalOf(m) /\ b = NxtOf(m, app)
  OBVIOUS
<1> HIDE DEF a, b, T
<1>3. n \in Nat /\ n <= b /\ 0 .. n - 1 \subseteq bytes
  BY <1>2
<1>4. a < n
  <2>1. PICK i \in 1 .. Len(snt) : snt[i].from < n
    OBVIOUS
  <2>2. a <= snt[i].from /\ snt[i].from \in Nat
    BY <1>2, CoversBounds, ItemFields
  <2> QED BY <2>1, <2>2, <1>1, <1>3
<1>5. r \in Seq(Item) /\ Covers(r, n, b) /\ TagsFrom(r, snt)
  BY <1>1, <1>2, <1>3, <1>4, DiscardCovers
<1> HIDE DEF r
<1>6. TagsOK(m, r)
  BY <1>2, <1>5, TagsKept
<1>7. StreamOK(m, r, app, bytes, ackd \ {n})
  <2>1. ackd \ {n} \in SUBSET Nat /\ \A x \in ackd \ {n} : x <= b /\ 0 .. x - 1 \subseteq bytes
    BY <1>2
  <2> QED BY <2>1, <1>2, <1>3, <1>5, <1>6, <1>12, StreamBuild
<1> QED BY <1>5, <1>7 DEF r

LEMMA NextRxOK ==
  ASSUME NEW b \in Nat, NEW bytes, bytes \subseteq 0 .. b - 1
  PROVE  NextRx(bytes) \in Nat /\ NextRx(bytes) <= b /\ 0 .. NextRx(bytes) - 1 \subseteq bytes
<1> DEFINE S == {n \in Nat : n \notin bytes}
<1>1. IsFiniteSet(bytes) /\ Cardinality(bytes) \in Nat
  <2>1. 0 \in Int /\ b - 1 \in Int
    OBVIOUS
  <2>2. IsFiniteSet(0 .. b - 1)
    BY <2>1, FS_Interval
  <2>3. IsFiniteSet(bytes)
    BY <2>2, FS_Subset
  <2> QED BY <2>3, FS_CardinalityType
<1>2. b \in S
  OBVIOUS
<1>3. PICK x \in S : \A y \in S : x <= y
  BY <1>2, LeastNumber
<1>4. 0 .. x - 1 \subseteq bytes
  BY <1>3
<1>5. x <= Cardinality(bytes)
  <2>1. Cardinality(0 .. x - 1) <= Cardinality(bytes)
    BY <1>1, <1>4, FS_Subset
  <2>2. Cardinality(0 .. x - 1) = x
    <3>1. x \in Nat /\ 0 \in Int /\ x - 1 \in Int
      BY <1>3
    <3>2. Cardinality(0 .. x - 1) = IF 0 > x - 1 THEN 0 ELSE (x - 1) - 0 + 1
      BY <3>1, FS_Interval
    <3> QED BY <3>1, <3>2
  <2> QED BY <2>1, <2>2
<1>6. x \in 0 .. Cardinality(bytes) /\ x \notin bytes /\ 0 .. x - 1 \subseteq bytes
  BY <1>1, <1>3, <1>4, <1>5
<1> HIDE DEF S
<1>7. PICK n \in 0 .. Cardinality(bytes) : n = NextRx(bytes) /\ n \notin bytes /\ 0 .. n - 1 \subseteq bytes
  BY <1>6 DEF NextRx
<1>8. n \in Nat /\ n <= b
  <2>1. n \in Nat
    BY <1>1, <1>7
  <2>2. b < n => b \in 0 .. n - 1
    BY <2>1
  <2>3. b \notin bytes
    OBVIOUS
  <2> QED BY <2>1, <2>2, <2>3, <1>7
<1> QED BY <1>7, <1>8

LEMMA StreamReceive ==
  ASSUME NEW m, NEW snt, NEW app, NEW bytes, NEW ackd, StreamOK(m, snt, app, bytes, ackd),
         NEW seq \in Nat, NEW len \in Nat, seq + len <= NxtOf(m, app),
         NEW more, more = bytes \union seq .. seq + len - 1
  PROVE  /\ StreamOK(m, snt, app, more, ackd \union {NextRx(more)})
         /\ more \in SUBSET Nat /\ NextRx(more) \in Nat
<1> DEFINE T == TotalOf(m)
           a == UnaOf(m, snt, app)
           b == NxtOf(m, app)
<1>1. T \in Nat /\ b \in Nat /\ a \in Nat
  BY StreamEnds
<1>2. /\ m \in Seq(Nat) /\ snt \in Seq(Item) /\ app \in Seq(Item)
      /\ bytes \in SUBSET Nat /\ ackd \in SUBSET Nat
      /\ \A k \in 1 .. Len(m) : m[k] <= TotalOf(m)
      /\ Covers(snt, a, b) /\ Covers(app, b, T)
      /\ TagsOK(m, snt) /\ TagsOK(m, app)
      /\ 0 .. a - 1 \subseteq bytes /\ bytes \subseteq 0 .. b - 1
      /\ \A x \in ackd : x <= b /\ 0 .. x - 1 \subseteq bytes
  BY DEF StreamOK
<1>12. T = TotalOf(m) /\ b = NxtOf(m, app)
  OBVIOUS
<1> HIDE DEF a, b, T
<1>3. more \subseteq 0 .. b - 1 /\ more \in SUBSET Nat /\ bytes \subseteq more
  BY <1>1, <1>2, <1>12
<1>4. NextRx(more) \in Nat /\ NextRx(more) <= b /\ 0 .. NextRx(more) - 1 \subseteq more
  BY <1>1, <1>3, NextRxOK
<1>5. ackd \union {NextRx(more)} \in SUBSET Nat /\ \A x \in ackd \union {NextRx(more)} : x <= b /\ 0 .. x - 1 \subseteq more
  BY <1>2, <1>3, <1>4
<1>6. 0 .. a - 1 \subseteq more
  BY <1>2, <1>3
<1>7. StreamOK(m, snt, app, more, ackd \union {NextRx(more)})
  BY <1>2, <1>3, <1>5, <1>6, <1>12, StreamBuild
<1> QED BY <1>3, <1>4, <1>7

-----------------------------------------------------------------------------
(* The packets under way and the last line of the packet log.              *)

LEMMA WithoutElements ==
  ASSUME NEW S, NEW l \in Seq(S), NEW i \in 1 .. Len(l)
  PROVE  /\ Fifo!Without(l, i) \in Seq(S) /\ Len(Fifo!Without(l, i)) = Len(l) - 1
         /\ \A k \in 1 .. Len(l) - 1 : Fifo!Without(l, i)[k] = IF k < i THEN l[k] ELSE l[k + 1]
<1> DEFINE x == SubSeq(l, 1, i - 1)
           y == SubSeq(l, i + 1, Len(l))
<1>1. x \in Seq(S) /\ Len(x) = i - 1 /\ \A k \in 1 .. i - 1 : x[k] = l[k]
  OBVIOUS
<1>2. y \in Seq(S) /\ Len(y) = Len(l) - i /\ \A k \in 1 .. Len(l) - i : y[k] = l[i + k]
  OBVIOUS
<1> HIDE DEF x, y
<1>3. x \o y \in Seq(S) /\ Len(x \o y) = Len(l) - 1
  BY <1>1, <1>2
<1>4. ASSUME NEW k \in 1 .. Len(l) - 1 PROVE (x \o y)[k] = IF k < i THEN l[k] ELSE l[k + 1]
  <2>1. CASE k < i
    BY <1>1, <1>2, <2>1
  <2>2. CASE ~(k < i)
    <3>1. k - (i - 1) \in 1 .. Len(l) - i /\ i + (k - (i - 1)) = k + 1
      BY <2>2
    <3>2. (x \o y)[k] = y[k - (i - 1)]
      BY <1>1, <1>2, <2>2
    <3> QED BY <2>2, <3>1, <3>2, <1>2
  <2> QED BY <2>1, <2>2
<1>5. Fifo!Without(l, i) = x \o y
  BY DEF Fifo!Without, x, y
<1> QED BY <1>3, <1>4, <1>5

LEMMA RowTypes ==
  ASSUME NEW r \in Row
  PROVE  SentAt(r) \in Int
<1>1. r.txSentAt \in Nat /\ r.delay \in Nat
  BY DEF Row
<1> QED BY <1>1 DEF SentAt

LEMMA FlightTypes ==
  ASSUME NEW s, NEW list, NEW last, NEW logged, NEW t, NEW n, FlightOK(s, list, last, logged, t, n)
  PROVE  /\ list \in Seq(Packet) /\ last \in Seq(Row)
         /\ \A i \in 1 .. Len(list) : list[i].time \in Int /\ list[i] \in Packet
         /\ last # <<>> => SentAt(last[1]) \in Int
<1>1. list \in Seq(Packet) /\ last \in Seq(Row)
  BY DEF FlightOK
<1>2. \A i \in 1 .. Len(list) : list[i] \in Packet
  BY <1>1
<1>3. \A i \in 1 .. Len(list) : list[i].time \in Int
  BY <1>2, PacketRoute
<1>4. ASSUME last # <<>> PROVE SentAt(last[1]) \in Int
  <2>1. last[1] \in Row
    BY <1>1, <1>4
  <2> QED BY <2>1, RowTypes
<1> QED BY <1>1, <1>2, <1>3, <1>4

LEMMA FlightGrow ==
  ASSUME NEW s, NEW list, NEW last, NEW logged, NEW t \in Nat, NEW n \in Nat, FlightOK(s, list, last, logged, t, n),
         NEW logged2 \in SUBSET [seq : Int, at : Nat], NEW t2 \in Nat, NEW n2 \in Nat,
         logged \subseteq logged2, t <= t2, n <= n2
  PROVE  FlightOK(s, list, last, logged2, t2, n2)
<1>1. ASSUME NEW p, PacketOK(s, p, logged, t, n) PROVE PacketOK(s, p, logged2, t2, n2)
  <2>1. p.len \in Nat
    BY <1>1, PacketRoute DEF PacketOK
  <2> QED BY <1>1, <2>1 DEF PacketOK
<1>2. ASSUME NEW r, RowOK(s, r, logged, t) PROVE RowOK(s, r, logged2, t2)
  <2>1. SentAt(r) \in Int
    BY <1>2, RowTypes DEF RowOK
  <2> QED BY <1>2, <2>1 DEF RowOK
<1> QED BY <1>1, <1>2 DEF FlightOK

LEMMA FlightAppend ==
  ASSUME NEW s, NEW list, NEW last, NEW logged, NEW t \in Nat, NEW n \in Nat, FlightOK(s, list, last, logged, t, n),
         NEW p \in Packet, PacketOK(s, p, logged, t, n), p.time = t
  PROVE  FlightOK(s, Append(list, p), last, logged, t, n)
<1> DEFINE r == Append(list, p)
           N == Len(list)
<1>1. /\ list \in Seq(Packet) /\ last \in Seq(Row)
      /\ \A i \in 1 .. N : list[i].time \in Int
      /\ last # <<>> => SentAt(last[1]) \in Int
  BY FlightTypes
<1>2. /\ r \in Seq(Packet) /\ Len(r) = N + 1 /\ r[N + 1] = p /\ (\A i \in 1 .. N : r[i] = list[i]) /\ N \in Nat
  BY <1>1
<1>3. \A i \in 1 .. N + 1 : i \in 1 .. N \/ i = N + 1
  BY <1>2
<1> HIDE DEF r, N
<1>4. \A i \in 1 .. N : PacketOK(s, list[i], logged, t, n) /\ list[i].time \in 0 .. t
  BY DEF FlightOK, PacketOK, N
<1>5. \A i \in 1 .. Len(r) : PacketOK(s, r[i], logged, t, n)
  BY <1>2, <1>3, <1>4
<1>6. ASSUME NEW i \in 1 .. Len(r), NEW j \in 1 .. Len(r), i <= j PROVE r[i].time <= r[j].time
  <2>1. CASE j \in 1 .. N
    <3>1. i \in 1 .. N
      BY <1>2, <1>6, <2>1
    <3> QED BY <1>2, <1>6, <2>1, <3>1 DEF FlightOK, OrderOK, N
  <2>2. CASE j = N + 1
    <3>1. r[j].time = t
      BY <1>2, <2>2
    <3>2. r[i].time \in 0 .. t
      BY <1>5 DEF PacketOK
    <3> QED BY <3>1, <3>2
  <2> QED BY <1>2, <1>3, <2>1, <2>2
<1>7. ASSUME NEW i \in 1 .. Len(r), last # <<>> PROVE SentAt(last[1]) <= r[i].time
  <2>1. CASE i \in 1 .. N
    BY <1>2, <1>7, <2>1 DEF FlightOK, OrderOK, N
  <2>2. CASE i = N + 1
    <3>1. 1 \in 1 .. Len(last) /\ last[1] \in Row
      BY <1>1, <1>7
    <3>3. SentAt(last[1]) <= t
      BY <3>1 DEF FlightOK, RowOK
    <3> QED BY <1>2, <2>2, <3>3
  <2> QED BY <1>2, <1>3, <2>1, <2>2
<1>8. OrderOK(r, last)
  BY <1>6, <1>7 DEF OrderOK
<1>9. FlightOK(s, r, last, logged, t, n)
  BY <1>2, <1>5, <1>8 DEF FlightOK
<1> QED BY <1>9 DEF r

\* A packet is missing: the first one or any other.
LEMMA FlightThin ==
  ASSUME NEW s, NEW list, NEW last, NEW logged, NEW t, NEW n, FlightOK(s, list, last, logged, t, n),
         NEW r \in Seq(Packet), NEW f,
         \A i \in 1 .. Len(r) : f[i] \in 1 .. Len(list) /\ r[i] = list[f[i]],
         \A i, j \in 1 .. Len(r) : i <= j => f[i] <= f[j]
  PROVE  FlightOK(s, r, last, logged, t, n)
<1>1. \A i \in 1 .. Len(r) : PacketOK(s, r[i], logged, t, n)
  BY DEF FlightOK
<1>2. OrderOK(list, last)
  BY DEF FlightOK
<1>3. ASSUME NEW i \in 1 .. Len(r), NEW j \in 1 .. Len(r), i <= j PROVE r[i].time <= r[j].time
  <2>1. f[i] <= f[j] /\ f[i] \in 1 .. Len(list) /\ f[j] \in 1 .. Len(list) /\ r[i] = list[f[i]] /\ r[j] = list[f[j]]
    BY <1>3
  <2> QED BY <2>1, <1>2 DEF OrderOK
<1>4. \A i \in 1 .. Len(r) : last # <<>> => SentAt(last[1]) <= r[i].time
  BY <1>2 DEF OrderOK
<1>5. OrderOK(r, last)
  BY <1>3, <1>4 DEF OrderOK
<1> QED BY <1>1, <1>5 DEF FlightOK

LEMMA FlightTail ==
  ASSUME NEW s, NEW list, NEW last, NEW logged, NEW t, NEW n, FlightOK(s, list, last, logged, t, n), list # <<>>
  PROVE  FlightOK(s, Tail(list), last, logged, t, n)
<1> DEFINE f == [i \in 1 .. Len(Tail(list)) |-> i + 1]
<1>1. list \in Seq(Packet)
  BY DEF FlightOK
<1>2. PICK r \in Seq(Packet) : r = Tail(list) /\ Len(r) = Len(list) - 1 /\ \A i \in 1 .. Len(r) : r[i] = list[i + 1]
  <2>1. Tail(list) \in Seq(Packet) /\ Len(Tail(list)) = Len(list) - 1 /\ \A i \in 1 .. Len(Tail(list)) : Tail(list)[i] = list[i + 1]
    BY <1>1
  <2> QED BY <2>1
<1>3. Len(list) \in Nat
  BY <1>1
<1>4. \A i \in 1 .. Len(r) : f[i] = i + 1
  BY <1>2
<1> HIDE DEF f
<1>5. \A i \in 1 .. Len(r) : f[i] \in 1 .. Len(list) /\ r[i] = list[f[i]]
  BY <1>2, <1>3, <1>4
<1>6. \A i, j \in 1 .. Len(r) : i <= j => f[i] <= f[j]
  BY <1>4
<1>7. FlightOK(s, r, last, logged, t, n)
  BY <1>5, <1>6, FlightThin
<1> QED BY <1>2, <1>7

LEMMA FlightWithout ==
  ASSUME NEW s, NEW list, NEW last, NEW logged, NEW t, NEW n, FlightOK(s, list, last, logged, t, n),
         NEW k \in 1 .. Len(list)
  PROVE  FlightOK(s, Fifo!Without(list, k), last, logged, t, n)
<1> DEFINE f == [i \in 1 .. Len(list) - 1 |-> IF i < k THEN i ELSE i + 1]
<1>1. list \in Seq(Packet)
  BY DEF FlightOK
<1>2. PICK r \in Seq(Packet) : /\ r = Fifo!Without(list, k) /\ Len(r) = Len(list) - 1
                               /\ \A i \in 1 .. Len(list) - 1 : r[i] = IF i < k THEN list[i] ELSE list[i + 1]
  BY <1>1, WithoutElements
<1>3. Len(list) \in Nat
  BY <1>1
<1>4. \A i \in 1 .. Len(r) : f[i] = IF i < k THEN i ELSE i + 1
  BY <1>2
<1> HIDE DEF f
<1>5. \A i \in 1 .. Len(r) : f[i] \in 1 .. Len(list) /\ r[i] = list[f[i]]
  BY <1>2, <1>3, <1>4
<1>6. \A i, j \in 1 .. Len(r) : i <= j => f[i] <= f[j]
  BY <1>4
<1>7. FlightOK(s, r, last, logged, t, n)
  BY <1>5, <1>6, FlightThin
<1> QED BY <1>2, <1>7

Arrived(s, list, row, logged, t, n) ==
  FlightOK(s, Tail(list), <<row>>, logged, t, n) /\ row \in Row /\ SentAt(row) = Head(list).time

\* The first packet arrives and is logged.
LEMMA FlightLogged ==
  ASSUME NEW s \in Sources, NEW list, NEW last, NEW logged, NEW t \in Nat, NEW n \in Nat,
         FlightOK(s, list, last, logged, t, n), list # <<>>, NEW p, p = Head(list), p.id # NoId,
         NEW row, row = [txSentAt |-> t, delay |-> t - p.time, id |-> p.id,
                         msg |-> p.msg, seq |-> p.seq, len |-> p.len]
  PROVE  Arrived(s, list, row, logged, t, n)
<1>1. FlightOK(s, Tail(list), last, logged, t, n)
  BY FlightTail
<1>2. /\ list \in Seq(Packet) /\ 1 \in 1 .. Len(list) /\ p = list[1]
      /\ \A i \in 1 .. Len(Tail(list)) : Tail(list)[i] = list[i + 1] /\ i + 1 \in 1 .. Len(list) /\ 1 <= i + 1
  <2>1. list \in Seq(Packet)
    BY DEF FlightOK
  <2> QED BY <2>1
<1>3. PacketOK(s, p, logged, t, n)
  BY <1>2 DEF FlightOK
<1>4. /\ p \in Packet /\ p.id = s /\ p.seq \in Nat /\ p.len \in Nat /\ p.msg \in Nat
      /\ p.time \in 0 .. t /\ [seq |-> p.seq, at |-> p.time] \in logged
  <2>1. p \in Packet
    BY <1>3 DEF PacketOK
  <2> QED BY <1>3, <2>1, PacketRoute DEF PacketOK
<1>5. row \in Row
  <2>1. t - p.time \in Nat
    BY <1>4
  <2> QED BY <1>4, <2>1 DEF Row
<1>6. SentAt(row) = p.time
  <2>1. t - (t - p.time) = p.time
    BY <1>4
  <2> QED BY <2>1 DEF SentAt
<1>7. RowOK(s, row, logged, t)
  <2>1. row.seq = p.seq /\ row.id = p.id
    OBVIOUS
  <2> QED BY <1>4, <1>5, <1>6, <2>1 DEF RowOK
<1>8. <<row>> \in Seq(Row) /\ Len(<<row>>) = 1 /\ <<row>>[1] = row
  BY <1>5
<1>9. \A i \in 1 .. Len(Tail(list)) : p.time <= Tail(list)[i].time
  BY <1>2 DEF FlightOK, OrderOK
<1>10. OrderOK(Tail(list), <<row>>)
  <2>1. \A i, j \in 1 .. Len(Tail(list)) : i <= j => Tail(list)[i].time <= Tail(list)[j].time
    BY <1>1 DEF FlightOK, OrderOK
  <2> HIDE DEF SentAt
  <2> QED BY <2>1, <1>6, <1>8, <1>9 DEF OrderOK
<1>11. \A i \in 1 .. Len(<<row>>) : RowOK(s, <<row>>[i], logged, t)
  BY <1>7, <1>8
<1>12. FlightOK(s, Tail(list), <<row>>, logged, t, n)
  BY <1>1, <1>8, <1>10, <1>11 DEF FlightOK
<1> QED BY <1>5, <1>6, <1>12 DEF Arrived

LEMMA FlightInit ==
  ASSUME NEW s, NEW logged \in SUBSET [seq : Int, at : Nat], NEW t, NEW n
  PROVE  FlightOK(s, <<>>, <<>>, logged, t, n)
  BY DEF FlightOK, OrderOK

-----------------------------------------------------------------------------
(* What a step does to the packets of the applications.                    *)

Quiet == /\ \A a \in Apps : InTransit(a)' = InTransit(a)
         /\ UNCHANGED <<dropped, rows, lastRow>>

Entered(a) == /\ UNCHANGED <<dropped, rows, lastRow>>
              /\ \E p \in Packet : Same(InTransit(a)', Append(InTransit(a), p))

Refused(a) == /\ dropped' = [dropped EXCEPT ![a] = @ + 1]
              /\ UNCHANGED <<rows, lastRow, queueLog>>
              /\ \E f \in Devices : Full(f)
              /\ InTransit(a)' = InTransit(a)

Lost(a) == /\ dropped' = [dropped EXCEPT ![a] = @ + 1]
           /\ UNCHANGED <<rows, lastRow, queueLog>>
           /\ \E f \in Devices : Full(f)
           /\ \E i \in 1 .. Len(InTransit(a)) : Same(InTransit(a)', Fifo!Without(InTransit(a), i))

Logged(a) == \E row \in Row :
               /\ rows' = [rows EXCEPT ![a] = @ + 1]
               /\ lastRow' = [lastRow EXCEPT ![a] = <<row>>]
               /\ row.seq = Head(InTransit(a)).seq /\ SentAt(row) = Head(InTransit(a)).time

Left(a) == /\ UNCHANGED dropped
           /\ InTransit(a) # <<>> /\ Same(InTransit(a)', Tail(InTransit(a)))
           /\ UNCHANGED <<rows, lastRow>> \/ Logged(a)

Others(a) == \A b \in Apps : b # a => InTransit(b)' = InTransit(b)

Step == Quiet \/ \E a \in Apps : Others(a) /\ (Entered(a) \/ Refused(a) \/ Lost(a) \/ Left(a))

-----------------------------------------------------------------------------
(* The invariant holds initially.                                          *)

LEMMA AppsOfSources ==
  /\ Sources \subseteq Apps /\ Congestion \in Apps /\ Congestion \notin Sources
  /\ \A a \in Apps : a \in Sources \/ a = Congestion
  BY PipelineAssumption DEF Apps

LEMMA InitInv == Init => IInv
<1> SUFFICES ASSUME Init PROVE IInv
  OBVIOUS
<1>1. \A d \in Devices : Line(d) = <<>>
  BY DEF Init, Line
<1>2. DevicesOK
  <2>1. QueuesLogged
    BY PipelineAssumption DEF Init, QueuesLogged
  <2>2. \A d \in Devices : OnRoute(Line(d), d)
    BY <1>1 DEF OnRoute
  <2> QED BY <2>1, <2>2 DEF Init, DevicesOK
<1>3. Streams
  BY StreamInit DEF Init, Streams
<1>4. ASSUME NEW a \in Apps PROVE InTransit(a) = <<>>
  <2>1. Here \in Contents
    BY <1>2, LineType
  <2>2. \A d \in Devices : Here[d] = <<>>
    BY <1>1 DEF Here
  <2>3. Flow(Here, a) \in Seq(Packet)
    BY <2>1, FlowType
  <2>4. \A k \in 1 .. Len(Flow(Here, a)) : FALSE
    BY <2>1, <2>2, FlowElements
  <2>5. Flow(Here, a) = <<>>
    BY <2>3, <2>4
  <2> QED BY <2>5, InTransitIsFlow
<1>5. Flights
  <2>1. \A s \in Sources : FlightOK(s, <<>>, <<>>, {}, now, Nxt(s))
    BY FlightInit
  <2>2. \A s \in Sources : FlightOK(s, InTransit(s), lastRow[s], senderLog[s], now, Nxt(s))
    BY <1>4, <2>1, AppsOfSources DEF Init
  <2>3. Horizon \in Nat
    BY PipelineAssumption
  <2>4. \A i \in 1 .. Len(InTransit(Congestion)) : InTransit(Congestion)[i].id = NoId
    BY <1>4, AppsOfSources
  <2>5. senderLog \in [Sources -> SUBSET [seq : Int, at : Nat]] /\ lastRow \in [Apps -> Seq(Row)]
        /\ rows \in [Apps -> Nat] /\ sent \in [Apps -> Nat] /\ now \in 0 .. Horizon /\ over \in BOOLEAN
    <3>1. senderLog \in [Sources -> SUBSET [seq : Int, at : Nat]]
      BY DEF Init
    <3>2. lastRow \in [Apps -> Seq(Row)]
      <4>1. <<>> \in Seq(Row)
        OBVIOUS
      <4> QED BY <4>1 DEF Init
    <3>3. rows \in [Apps -> Nat] /\ sent \in [Apps -> Nat]
      BY DEF Init
    <3>4. now \in 0 .. Horizon /\ over \in BOOLEAN
      <4>1. now = 0 /\ over = FALSE
        BY DEF Init
      <4>2. 0 \in 0 .. Horizon
        BY <2>3
      <4> QED BY <4>1, <4>2
    <3> QED BY <3>1, <3>2, <3>3, <3>4
  <2> QED BY <2>2, <2>4, <2>5 DEF Flights
<1> QED BY <1>2, <1>3, <1>5 DEF IInv

-----------------------------------------------------------------------------
(* Steps that leave the packets alone.                                     *)

LEMMA NxtType == ASSUME Streams PROVE \A s \in Sources : Nxt(s) \in Nat
  BY StreamEnds DEF Streams, Nxt

LEMMA NxtTypeNext == ASSUME Streams' PROVE \A s \in Sources : Nxt(s)' \in Nat
  BY StreamEnds DEF Streams, Nxt

LEMMA StreamsSame ==
  ASSUME Streams, UNCHANGED <<messages, appList, sentList, rcvd, acks>>,
         conn' \in [Sources -> {"closed", "connecting", "established"}]
  PROVE  Streams' /\ \A s \in Sources : Nxt(s)' = Nxt(s)
  BY DEF Streams, Nxt

LEMMA DevicesSame ==
  ASSUME DevicesOK, UNCHANGED netVars
  PROVE  DevicesOK' /\ \A a \in Apps : InTransit(a)' = InTransit(a)
<1>1. UNCHANGED <<queue, current, wire, queueLog, dropped>>
  BY DEF netVars
<1>2. (\A d \in Devices : Line(d)' = Line(d)) /\ Here' = Here
  BY <1>1 DEF Line, Here
<1>3. DevicesOK'
  BY <1>1, <1>2 DEF DevicesOK, QueuesLogged, OnRoute
<1> QED BY <1>2, <1>3, InTransitIsFlow

LEMMA FlightsSame ==
  ASSUME Flights, Streams, Streams', now' \in 0 .. Horizon, now <= now', over' \in BOOLEAN,
         UNCHANGED <<rows, lastRow, senderLog>>, sent' \in [Apps -> Nat],
         \A a \in Apps : InTransit(a)' = InTransit(a),
         \A s \in Sources : Nxt(s) <= Nxt(s)'
  PROVE  Flights'
<1>1. ASSUME NEW s \in Sources
      PROVE  FlightOK(s, InTransit(s)', lastRow[s], senderLog[s], now', Nxt(s)')
  <2>1. Nxt(s) \in Nat /\ Nxt(s)' \in Nat
    BY NxtType, NxtTypeNext
  <2>2. FlightOK(s, InTransit(s), lastRow[s], senderLog[s], now, Nxt(s)) /\ now \in Nat /\ now' \in Nat
        /\ senderLog[s] \in SUBSET [seq : Int, at : Nat]
    BY PipelineAssumption DEF Flights
  <2>3. PICK n2 \in Nat : n2 = Nxt(s)'
    BY <2>1
  <2>4. FlightOK(s, InTransit(s), lastRow[s], senderLog[s], now', n2)
    BY <2>1, <2>2, <2>3, FlightGrow
  <2> QED BY <2>3, <2>4, AppsOfSources
<1>2. \A i \in 1 .. Len(InTransit(Congestion)') : (InTransit(Congestion)')[i].id = NoId
  BY AppsOfSources DEF Flights
<1> QED BY <1>1, <1>2 DEF Flights

-----------------------------------------------------------------------------
(* One lemma per action.                                                   *)

LEMMA TickInv ==
  ASSUME IInv, Tick \/ EndOfSimulation
  PROVE  IInv' /\ Quiet
<1>1. DevicesOK /\ Streams /\ Flights
  BY DEF IInv
<1>2. /\ UNCHANGED <<tcpVars, sinkVars, netVars, senderLog, sent>>
      /\ now' \in 0 .. Horizon /\ now <= now' /\ over' \in BOOLEAN
  <2>1. now \in 0 .. Horizon /\ over \in BOOLEAN /\ Horizon \in Nat
    BY <1>1, PipelineAssumption DEF Flights
  <2>2. CASE Tick
    <3>1. now < Horizon /\ now' = now + 1 /\ over' = over
      BY <2>2 DEF Tick
    <3>2. UNCHANGED <<tcpVars, sinkVars, netVars, senderLog, sent>>
      BY <2>2 DEF Tick
    <3> QED BY <2>1, <3>1, <3>2
  <2>3. CASE EndOfSimulation
    <3>1. now' = now /\ over' = TRUE
      BY <2>3 DEF EndOfSimulation
    <3>2. UNCHANGED <<tcpVars, sinkVars, netVars, senderLog, sent>>
      BY <2>3 DEF EndOfSimulation
    <3> QED BY <2>1, <3>1, <3>2
  <2> QED BY <2>2, <2>3
<1>3. UNCHANGED <<messages, conn, appList, sentList, rcvd, acks, rows, lastRow, dropped>>
  BY <1>2 DEF tcpVars, sinkVars, netVars
<1>4. Streams' /\ \A s \in Sources : Nxt(s)' = Nxt(s)
  <2>1. conn' \in [Sources -> {"closed", "connecting", "established"}]
    BY <1>1, <1>3 DEF Streams
  <2> QED BY <1>1, <1>3, <2>1, StreamsSame
<1>5. DevicesOK' /\ \A a \in Apps : InTransit(a)' = InTransit(a)
  BY <1>1, <1>2, DevicesSame
<1>6. Flights'
  <2>1. \A s \in Sources : Nxt(s) <= Nxt(s)'
    BY <1>1, <1>4, NxtType
  <2>2. sent' \in [Apps -> Nat]
    BY <1>1, <1>2 DEF Flights
  <2> QED BY <1>1, <1>2, <1>3, <1>4, <1>5, <2>1, <2>2, FlightsSame
<1> QED BY <1>3, <1>4, <1>5, <1>6 DEF IInv, Quiet

\* One source's stream changes, and nothing else does.
LEMMA StreamsOne ==
  ASSUME Streams, NEW s \in Sources, NEW m, NEW snt, NEW app, NEW bytes, NEW ackd,
         StreamOK(m, snt, app, bytes, ackd),
         messages' = [messages EXCEPT ![s] = m], sentList' = [sentList EXCEPT ![s] = snt],
         appList' = [appList EXCEPT ![s] = app], rcvd' = [rcvd EXCEPT ![s] = bytes],
         acks' = [acks EXCEPT ![s] = ackd],
         conn' \in [Sources -> {"closed", "connecting", "established"}]
  PROVE  /\ Streams' /\ Nxt(s)' = NxtOf(m, app)
         /\ \A r \in Sources : r # s => Nxt(r)' = Nxt(r)
<1>1. /\ m \in Seq(Nat) /\ snt \in Seq(Item) /\ app \in Seq(Item)
      /\ bytes \in SUBSET Nat /\ ackd \in SUBSET Nat
  BY DEF StreamOK
<1>2. /\ messages \in [Sources -> Seq(Nat)]
      /\ appList \in [Sources -> Seq(Item)] /\ sentList \in [Sources -> Seq(Item)]
      /\ rcvd \in [Sources -> SUBSET Nat] /\ acks \in [Sources -> SUBSET Nat]
  BY DEF Streams
<1>3. /\ messages' \in [Sources -> Seq(Nat)]
      /\ appList' \in [Sources -> Seq(Item)] /\ sentList' \in [Sources -> Seq(Item)]
      /\ rcvd' \in [Sources -> SUBSET Nat] /\ acks' \in [Sources -> SUBSET Nat]
  BY <1>1, <1>2
<1>4. /\ messages'[s] = m /\ sentList'[s] = snt /\ appList'[s] = app /\ rcvd'[s] = bytes /\ acks'[s] = ackd
  BY <1>2
<1>5. \A r \in Sources : r # s => /\ messages'[r] = messages[r] /\ sentList'[r] = sentList[r]
                                 /\ appList'[r] = appList[r] /\ rcvd'[r] = rcvd[r] /\ acks'[r] = acks[r]
  BY <1>2
<1>6. \A r \in Sources : StreamOK(messages'[r], sentList'[r], appList'[r], rcvd'[r], acks'[r])
  BY <1>4, <1>5 DEF Streams
<1> QED BY <1>3, <1>4, <1>5, <1>6 DEF Streams, Nxt

LEMMA StreamOf ==
  ASSUME Streams, NEW s \in Sources
  PROVE  /\ StreamOK(messages[s], sentList[s], appList[s], rcvd[s], acks[s])
         /\ messages[s] \in Seq(Nat) /\ appList[s] \in Seq(Item) /\ sentList[s] \in Seq(Item)
         /\ rcvd[s] \in SUBSET Nat /\ acks[s] \in SUBSET Nat
         /\ Total(s) = TotalOf(messages[s]) /\ Nxt(s) = NxtOf(messages[s], appList[s])
         /\ messages = [messages EXCEPT ![s] = messages[s]]
         /\ sentList = [sentList EXCEPT ![s] = sentList[s]]
         /\ appList = [appList EXCEPT ![s] = appList[s]]
         /\ rcvd = [rcvd EXCEPT ![s] = rcvd[s]]
         /\ acks = [acks EXCEPT ![s] = acks[s]]
         /\ conn \in [Sources -> {"closed", "connecting", "established"}]
  BY DEF Streams, Total, TotalOf, Nxt

LEMMA SendPacketInv ==
  ASSUME IInv, NEW s \in Sources, NEW size \in Sizes, SendPacket(s, size)
  PROVE  IInv' /\ Quiet
<1>1. DevicesOK /\ Streams /\ Flights
  BY DEF IInv
<1>2. size \in Nat \ {0}
  BY PipelineAssumption
<1> DEFINE T == TotalOf(messages[s])
           e == [from |-> T, to |-> T + size, msg |-> Len(messages[s]), lastSent |-> Unsent]
<1>3. /\ StreamOK(Append(messages[s], T + size), sentList[s], Append(appList[s], e), rcvd[s], acks[s])
      /\ NxtOf(Append(messages[s], T + size), Append(appList[s], e)) = NxtOf(messages[s], appList[s])
  BY <1>1, <1>2, StreamOf, StreamSend
<1>4. /\ messages' = [messages EXCEPT ![s] = Append(messages[s], T + size)]
      /\ appList' = [appList EXCEPT ![s] = Append(appList[s], e)]
      /\ UNCHANGED <<now, over, conn, sentList, sinkVars, netVars, senderLog, sent>>
  BY <1>1, StreamOf DEF SendPacket
<1>5. UNCHANGED <<now, over, rcvd, acks, rows, lastRow, dropped, conn, sentList, senderLog, sent, netVars>>
  BY <1>4 DEF sinkVars, netVars
<1>6. Streams' /\ Nxt(s)' = Nxt(s) /\ \A r \in Sources : r # s => Nxt(r)' = Nxt(r)
  <2> HIDE DEF T, e
  <2>1. PICK m, app : m = Append(messages[s], T + size) /\ app = Append(appList[s], e)
    OBVIOUS
  <2>2. /\ StreamOK(m, sentList[s], app, rcvd[s], acks[s]) /\ NxtOf(m, app) = NxtOf(messages[s], appList[s])
        /\ messages' = [messages EXCEPT ![s] = m] /\ appList' = [appList EXCEPT ![s] = app]
    BY <2>1, <1>3, <1>4
  <2>3. /\ sentList' = [sentList EXCEPT ![s] = sentList[s]] /\ rcvd' = [rcvd EXCEPT ![s] = rcvd[s]]
        /\ acks' = [acks EXCEPT ![s] = acks[s]] /\ Nxt(s) = NxtOf(messages[s], appList[s])
        /\ conn' \in [Sources -> {"closed", "connecting", "established"}]
    BY <1>1, <1>5, StreamOf
  <2>4. Streams' /\ Nxt(s)' = NxtOf(m, app) /\ \A r \in Sources : r # s => Nxt(r)' = Nxt(r)
    BY <1>1, <2>2, <2>3, StreamsOne
  <2> QED BY <2>2, <2>3, <2>4
<1>7. DevicesOK' /\ \A a \in Apps : InTransit(a)' = InTransit(a)
  BY <1>1, <1>5, DevicesSame
<1>8. Flights'
  <2>1. \A r \in Sources : Nxt(r) <= Nxt(r)'
    BY <1>1, <1>6, NxtType
  <2>2. sent' \in [Apps -> Nat] /\ now' \in 0 .. Horizon /\ now <= now' /\ over' \in BOOLEAN
    BY <1>1, <1>5, PipelineAssumption DEF Flights
  <2> QED BY <1>1, <1>5, <1>6, <1>7, <2>1, <2>2, FlightsSame
<1> QED BY <1>5, <1>6, <1>7, <1>8 DEF IInv, Quiet

LEMMA ReceivedAckInv ==
  ASSUME IInv, NEW s \in Sources, ReceivedAck(s)
  PROVE  IInv' /\ Quiet
<1>1. DevicesOK /\ Streams /\ Flights
  BY DEF IInv
<1>2. PICK n \in acks[s] : /\ \E i \in 1 .. Len(sentList[s]) : sentList[s][i].from < n
                           /\ sentList' = [sentList EXCEPT ![s] = DiscardUpTo(@, n)]
                           /\ acks' = [acks EXCEPT ![s] = @ \ {n}]
  BY DEF ReceivedAck
<1>3. UNCHANGED <<now, over, messages, conn, appList, rcvd, rows, lastRow, netVars, dropped, senderLog, sent>>
  BY DEF ReceivedAck, netVars
<1>4. StreamOK(messages[s], DiscardUpTo(sentList[s], n), appList[s], rcvd[s], acks[s] \ {n})
  BY <1>1, <1>2, StreamOf, StreamAck
<1>5. Streams' /\ Nxt(s)' = Nxt(s) /\ \A r \in Sources : r # s => Nxt(r)' = Nxt(r)
  <2>1. PICK snt, ackd : snt = DiscardUpTo(sentList[s], n) /\ ackd = acks[s] \ {n}
    OBVIOUS
  <2>2. /\ StreamOK(messages[s], snt, appList[s], rcvd[s], ackd)
        /\ sentList' = [sentList EXCEPT ![s] = snt] /\ acks' = [acks EXCEPT ![s] = ackd]
    BY <2>1, <1>1, <1>2, <1>4, StreamOf
  <2>3. /\ messages' = [messages EXCEPT ![s] = messages[s]] /\ rcvd' = [rcvd EXCEPT ![s] = rcvd[s]]
        /\ appList' = [appList EXCEPT ![s] = appList[s]] /\ Nxt(s) = NxtOf(messages[s], appList[s])
        /\ conn' \in [Sources -> {"closed", "connecting", "established"}]
    BY <1>1, <1>3, StreamOf
  <2> QED BY <1>1, <2>2, <2>3, StreamsOne
<1>6. DevicesOK' /\ \A a \in Apps : InTransit(a)' = InTransit(a)
  BY <1>1, <1>3, DevicesSame
<1>7. Flights'
  <2>1. \A r \in Sources : Nxt(r) <= Nxt(r)'
    BY <1>1, <1>5, NxtType
  <2>2. sent' \in [Apps -> Nat] /\ now' \in 0 .. Horizon /\ now <= now' /\ over' \in BOOLEAN
    BY <1>1, <1>3, PipelineAssumption DEF Flights
  <2> QED BY <1>1, <1>3, <1>5, <1>6, <2>1, <2>2, FlightsSame
<1> QED BY <1>3, <1>5, <1>6, <1>7 DEF IInv, Quiet

\* A source sends packet p: it is stamped, logged and put into the first queue.
LEMMA MacTxInv ==
  ASSUME DevicesOK, Streams, Flights, Streams',
         NEW s \in Sources, NEW p \in Packet, p.src = s, MacTx(s, p),
         UNCHANGED <<now, over, rows, lastRow>>,
         \A r \in Sources : Nxt(r) <= Nxt(r)',
         \/ p.id = NoId /\ p.len = 0
         \/ p.id = s /\ p.seq \in Nat /\ p.len # 0 /\ p.seq + p.len <= Nxt(s)'
  PROVE  IInv' /\ Step
<1> DEFINE q == setTimeTag(p)
           entry == [seq |-> p.seq, at |-> now]
<1>1. now \in Nat /\ now \in 0 .. Horizon /\ s \in Apps
  BY PipelineAssumption, AppsOfSources DEF Flights
<1>2. /\ q \in Packet /\ q.src = s /\ q.time = now /\ q.seq = p.seq /\ q.len = p.len /\ q.id = p.id
      /\ q.seq \in Int
  BY <1>1, PacketRoute DEF setTimeTag, Packet
<1>3. /\ logSenderPacket(s, q) /\ SendFrom(Route[s][1], q)
      /\ sent' = [sent EXCEPT ![s] = @ + 1] /\ wire' = wire
  BY DEF MacTx
<1>11. PICK x \in Packet : x = q
  BY <1>2
<1> HIDE DEF q
<1>4. /\ senderLog' = [senderLog EXCEPT ![s] = @ \union {entry}]
      /\ entry \in [seq : Int, at : Nat]
  <2>1. q.time # NoTag
    BY <1>1, <1>2 DEF NoTag
  <2> QED BY <1>1, <1>2, <1>3, <2>1 DEF logSenderPacket
<1>12. entry = [seq |-> q.seq, at |-> q.time]
  BY <1>2
<1> HIDE DEF entry
<1>5. /\ senderLog' \in [Sources -> SUBSET [seq : Int, at : Nat]]
      /\ \A r \in Sources : senderLog[r] \in SUBSET [seq : Int, at : Nat] /\ senderLog[r] \subseteq senderLog'[r]
      /\ entry \in senderLog'[s]
  <2>1. senderLog \in [Sources -> SUBSET [seq : Int, at : Nat]]
    BY DEF Flights
  <2> QED BY <2>1, <1>4
<1>6. /\ DevicesOK'
      /\ \A b \in Apps : b # s => InTransit(b)' = InTransit(b)
      /\ \/ /\ UNCHANGED dropped
            /\ Same(InTransit(s)', Append(InTransit(s), x))
         \/ /\ Full(Route[s][1]) /\ UNCHANGED <<queue, current, queueLog>>
            /\ dropped' = [dropped EXCEPT ![s] = @ + 1]
            /\ InTransit(s)' = InTransit(s)
  BY <1>1, <1>2, <1>3, <1>11, SendStep
<1>7. ASSUME NEW r \in Sources
      PROVE  FlightOK(r, InTransit(r), lastRow[r], senderLog'[r], now, Nxt(r)')
  <2>1. PICK n2 \in Nat : n2 = Nxt(r)' /\ Nxt(r) \in Nat /\ Nxt(r) <= n2
    BY NxtType, NxtTypeNext
  <2>2. FlightOK(r, InTransit(r), lastRow[r], senderLog[r], now, Nxt(r))
    BY DEF Flights
  <2>3. senderLog'[r] \in SUBSET [seq : Int, at : Nat]
    BY <1>5
  <2>4. FlightOK(r, InTransit(r), lastRow[r], senderLog'[r], now, n2)
    BY <1>1, <1>5, <2>1, <2>2, <2>3, FlightGrow
  <2> QED BY <2>1, <2>4
<1>8. FlightOK(s, InTransit(s)', lastRow[s], senderLog'[s], now, Nxt(s)')
  <2>1. CASE Same(InTransit(s)', Append(InTransit(s), x))
    <3>1. PICK n2 \in Nat : n2 = Nxt(s)'
      BY NxtTypeNext
    <3>2. PacketOK(s, x, senderLog'[s], now, n2)
      <4>1. x.time \in 0 .. now
        BY <1>1, <1>2, <1>11
      <4>2. \/ x.id = NoId /\ x.len = 0
            \/ x.id = s /\ x.seq \in Nat /\ x.len # 0 /\ x.seq + x.len <= n2
        BY <1>2, <1>11, <3>1
      <4> QED BY <1>2, <1>5, <1>11, <1>12, <4>1, <4>2 DEF PacketOK
    <3>3. FlightOK(s, Append(InTransit(s), x), lastRow[s], senderLog'[s], now, n2)
      BY <1>1, <1>2, <1>7, <1>11, <3>1, <3>2, FlightAppend
    <3> QED BY <2>1, <3>1, <3>3 DEF Same
  <2>2. CASE InTransit(s)' = InTransit(s)
    BY <1>7, <2>2
  <2> QED BY <1>6, <2>1, <2>2
<1>9. Flights'
  <2>1. \A r \in Sources : FlightOK(r, InTransit(r)', lastRow[r], senderLog'[r], now, Nxt(r)')
    BY <1>6, <1>7, <1>8, AppsOfSources
  <2>2. InTransit(Congestion)' = InTransit(Congestion)
    BY <1>6, AppsOfSources
  <2>3. \A i \in 1 .. Len(InTransit(Congestion)') : (InTransit(Congestion)')[i].id = NoId
    BY <2>2 DEF Flights
  <2>4. sent' \in [Apps -> Nat]
    <3>1. sent \in [Apps -> Nat]
      BY DEF Flights
    <3> QED BY <1>1, <1>3, <3>1
  <2>5. now' \in 0 .. Horizon /\ over' \in BOOLEAN /\ rows' \in [Apps -> Nat] /\ lastRow' \in [Apps -> Seq(Row)]
    BY DEF Flights
  <2> QED BY <1>5, <2>1, <2>3, <2>4, <2>5 DEF Flights
<1>10. Step
  <2>1. Route[s][1] \in Devices
    BY <1>1, RouteOfApp
  <2>2. Others(s)
    BY <1>6 DEF Others
  <2>3. Entered(s) \/ Refused(s)
    BY <1>6, <2>1 DEF Entered, Refused
  <2> QED BY <1>1, <2>2, <2>3 DEF Step
<1> QED BY <1>6, <1>9, <1>10 DEF IInv

LEMMA SendSynInv ==
  ASSUME IInv, NEW s \in Sources, SendSyn(s)
  PROVE  IInv' /\ Step
<1> DEFINE p == [src |-> s, seq |-> -1, len |-> 0, time |-> NoTag, id |-> NoId, msg |-> 0]
<1>1. DevicesOK /\ Streams /\ Flights
  BY DEF IInv
<1>2. p \in Packet /\ p.src = s /\ p.id = NoId /\ p.len = 0
  BY AppsOfSources DEF Packet, NoTag
<1>3. /\ MacTx(s, p) /\ conn' = [conn EXCEPT ![s] = "connecting"]
      /\ UNCHANGED <<now, over, messages, appList, sentList, rcvd, acks, rows, lastRow>>
  BY DEF SendSyn, sinkVars
<1>4. Streams' /\ \A r \in Sources : Nxt(r)' = Nxt(r)
  <2>1. conn' \in [Sources -> {"closed", "connecting", "established"}]
    BY <1>1, <1>3 DEF Streams
  <2> QED BY <1>1, <1>3, <2>1, StreamsSame
<1>5. \A r \in Sources : Nxt(r) <= Nxt(r)'
  BY <1>1, <1>4, NxtType
<1> HIDE DEF p
<1> QED BY <1>1, <1>2, <1>3, <1>4, <1>5, MacTxInv

LEMMA SegmentType ==
  ASSUME NEW s \in Sources, NEW e \in Item, e.from < e.to
  PROVE  /\ SegmentOf(s, e) \in Packet /\ SegmentOf(s, e).src = s /\ SegmentOf(s, e).id = s
         /\ SegmentOf(s, e).seq = e.from /\ SegmentOf(s, e).seq \in Nat /\ SegmentOf(s, e).len # 0
         /\ SegmentOf(s, e).seq + SegmentOf(s, e).len = e.to
<1>1. e.from \in Nat /\ e.to \in Nat /\ e.msg \in Nat
  BY DEF Item
<1>2. e.to - e.from \in Nat /\ e.to - e.from # 0 /\ e.from + (e.to - e.from) = e.to /\ s \in Apps
  BY <1>1, AppsOfSources
<1> QED BY <1>1, <1>2 DEF SegmentOf, Packet, NoTag

LEMMA SendNewDataInv ==
  ASSUME IInv, NEW s \in Sources, SendNewData(s)
  PROVE  IInv' /\ Step
<1>1. DevicesOK /\ Streams /\ Flights /\ now \in Nat
  BY PipelineAssumption DEF IInv, Flights
<1>2. PICK list, e : list = CutFirst(appList[s], SegmentSize) /\ e = [list[1] EXCEPT !.lastSent = now]
  OBVIOUS
<1>3. /\ appList[s] # <<>>
      /\ MacTx(s, SegmentOf(s, e))
      /\ sentList' = [sentList EXCEPT ![s] = Append(@, e)]
      /\ appList' = [appList EXCEPT ![s] = Tail(list)]
  BY <1>2 DEF SendNewData
<1>4. UNCHANGED <<now, over, messages, conn, rcvd, acks, rows, lastRow>>
  BY DEF SendNewData, sinkVars
<1>5. /\ StreamOK(messages[s], Append(sentList[s], e), Tail(list), rcvd[s], acks[s])
      /\ e \in Item /\ e.from < e.to /\ e.to = NxtOf(messages[s], Tail(list))
      /\ NxtOf(messages[s], appList[s]) <= NxtOf(messages[s], Tail(list))
  <2>1. PICK m, snt, app, bytes, ackd : /\ m = messages[s] /\ snt = sentList[s] /\ app = appList[s]
                                        /\ bytes = rcvd[s] /\ ackd = acks[s]
    OBVIOUS
  <2>2. StreamOK(m, snt, app, bytes, ackd) /\ app # <<>>
    BY <1>1, <1>3, <2>1, StreamOf
  <2>5. PICK t \in Nat : t = now
    BY <1>1
  <2>3. list = CutFirst(app, SegmentSize) /\ e = [list[1] EXCEPT !.lastSent = t]
    BY <1>2, <2>1, <2>5
  <2>4. Taken(m, snt, app, bytes, ackd, list, e)
    BY <2>2, <2>3, StreamNewData
  <2> QED BY <2>1, <2>4 DEF Taken
<1>6. /\ Streams' /\ Nxt(s)' = NxtOf(messages[s], Tail(list))
      /\ \A r \in Sources : r # s => Nxt(r)' = Nxt(r)
  <2>1. PICK snt, app : snt = Append(sentList[s], e) /\ app = Tail(list)
    OBVIOUS
  <2>2. /\ StreamOK(messages[s], snt, app, rcvd[s], acks[s])
        /\ sentList' = [sentList EXCEPT ![s] = snt] /\ appList' = [appList EXCEPT ![s] = app]
    BY <2>1, <1>1, <1>3, <1>5, StreamOf
  <2>3. /\ messages' = [messages EXCEPT ![s] = messages[s]] /\ rcvd' = [rcvd EXCEPT ![s] = rcvd[s]]
        /\ acks' = [acks EXCEPT ![s] = acks[s]]
        /\ conn' \in [Sources -> {"closed", "connecting", "established"}]
    BY <1>1, <1>4, StreamOf
  <2>4. Streams' /\ Nxt(s)' = NxtOf(messages[s], app) /\ \A r \in Sources : r # s => Nxt(r)' = Nxt(r)
    BY <1>1, <2>2, <2>3, StreamsOne
  <2> QED BY <2>1, <2>4
<1>7. \A r \in Sources : Nxt(r) <= Nxt(r)'
  <2>1. Nxt(s) = NxtOf(messages[s], appList[s])
    BY <1>1, StreamOf
  <2> QED BY <1>1, <1>5, <1>6, <2>1, NxtType
<1>8. PICK p \in Packet : p = SegmentOf(s, e)
  BY <1>5, SegmentType
<1>9. p.src = s /\ p.id = s /\ p.seq \in Nat /\ p.len # 0 /\ p.seq + p.len <= Nxt(s)'
  <2>1. p.src = s /\ p.id = s /\ p.seq \in Nat /\ p.len # 0 /\ p.seq + p.len = e.to
    BY <1>5, <1>8, SegmentType
  <2>2. e.to = Nxt(s)' /\ Nxt(s)' \in Nat
    BY <1>5, <1>6, NxtTypeNext
  <2> QED BY <2>1, <2>2
<1> QED BY <1>1, <1>3, <1>4, <1>6, <1>7, <1>8, <1>9, MacTxInv

LEMMA RetransmitInv ==
  ASSUME IInv, NEW s \in Sources, Retransmit(s)
  PROVE  IInv' /\ Step
<1>1. DevicesOK /\ Streams /\ Flights /\ now \in Nat
  BY PipelineAssumption DEF IInv, Flights
<1>2. PICK i \in 1 .. Len(sentList[s]), merge \in BOOLEAN :
        LET this == sentList[s][i]
            size == IF merge /\ i < Len(sentList[s])
                    THEN sentList[s][i + 1].to - this.from ELSE this.to - this.from
            list == CutAt(sentList[s], i, Minimum(SegmentSize, size))
            item == [list[i] EXCEPT !.lastSent = now]
        IN  /\ this.lastSent < now
            /\ MacTx(s, SegmentOf(s, item))
            /\ sentList' = [sentList EXCEPT ![s] = [list EXCEPT ![i] = item]]
  BY DEF Retransmit
<1>3. PICK size : size = IF merge /\ i < Len(sentList[s])
                         THEN sentList[s][i + 1].to - sentList[s][i].from
                         ELSE sentList[s][i].to - sentList[s][i].from
  OBVIOUS
<1>4. PICK list, e : /\ list = CutAt(sentList[s], i, Minimum(SegmentSize, size))
                     /\ e = [list[i] EXCEPT !.lastSent = now]
  OBVIOUS
<1>5. MacTx(s, SegmentOf(s, e)) /\ sentList' = [sentList EXCEPT ![s] = [list EXCEPT ![i] = e]]
  BY <1>2, <1>3, <1>4
<1>6. UNCHANGED <<now, over, messages, conn, appList, rcvd, acks, rows, lastRow>>
  BY DEF Retransmit, sinkVars
<1>7. Minimum(SegmentSize, size) \in Nat \ {0}
  <2>6. PICK l, a, b : l = sentList[s] /\ Covers(l, a, b)
    BY <1>1, StreamOf DEF StreamOK
  <2>1. l \in Seq(Item) /\ l = sentList[s] /\ Covers(l, a, b)
    BY <1>1, <2>6, StreamOf
  <2>2. l # <<>> /\ i \in 1 .. Len(l)
    BY <2>1
  <2>3. /\ \A k \in 1 .. Len(l) : l[k].from < l[k].to /\ l[k].from \in Nat /\ l[k].to \in Nat
        /\ \A k \in 1 .. Len(l) - 1 : l[k].to = l[k + 1].from
    BY <2>1, <2>2, CoversInterior, ItemFields
  <2>4. size \in Nat \ {0}
    <3>1. CASE merge /\ i < Len(l)
      <4>1. i \in 1 .. Len(l) - 1 /\ i + 1 \in 1 .. Len(l)
        BY <2>2, <3>1
      <4>2. size = l[i + 1].to - l[i].from
        BY <1>3, <2>1, <3>1
      <4> QED BY <2>2, <2>3, <4>1, <4>2
    <3>2. CASE ~(merge /\ i < Len(l))
      BY <1>3, <2>1, <2>2, <2>3, <3>2
    <3> QED BY <3>1, <3>2
  <2> QED BY <2>4, PipelineAssumption DEF Minimum
<1>8. PICK snt : snt = [list EXCEPT ![i] = e]
  OBVIOUS
<1>9. /\ StreamOK(messages[s], snt, appList[s], rcvd[s], acks[s])
      /\ e \in Item /\ e.from < e.to /\ e.to <= NxtOf(messages[s], appList[s])
  BY <1>1, <1>4, <1>7, <1>8, StreamOf, StreamAgain
<1>10. /\ Streams' /\ Nxt(s)' = Nxt(s)
       /\ \A r \in Sources : r # s => Nxt(r)' = Nxt(r)
  <2>1. /\ messages' = [messages EXCEPT ![s] = messages[s]] /\ rcvd' = [rcvd EXCEPT ![s] = rcvd[s]]
        /\ acks' = [acks EXCEPT ![s] = acks[s]] /\ appList' = [appList EXCEPT ![s] = appList[s]]
        /\ Nxt(s) = NxtOf(messages[s], appList[s])
        /\ conn' \in [Sources -> {"closed", "connecting", "established"}]
    BY <1>1, <1>6, StreamOf
  <2>2. sentList' = [sentList EXCEPT ![s] = snt]
    BY <1>5, <1>8
  <2> QED BY <1>1, <1>9, <2>1, <2>2, StreamsOne
<1>11. \A r \in Sources : Nxt(r) <= Nxt(r)'
  BY <1>1, <1>10, NxtType
<1>12. PICK p \in Packet : p = SegmentOf(s, e)
  BY <1>9, SegmentType
<1>13. p.src = s /\ p.id = s /\ p.seq \in Nat /\ p.len # 0 /\ p.seq + p.len <= Nxt(s)'
  <2>1. p.src = s /\ p.id = s /\ p.seq \in Nat /\ p.len # 0 /\ p.seq + p.len = e.to
    BY <1>9, <1>12, SegmentType
  <2>2. e.to <= Nxt(s)'
    BY <1>1, <1>9, <1>10, StreamOf
  <2> QED BY <2>1, <2>2
<1> QED BY <1>1, <1>5, <1>6, <1>10, <1>11, <1>12, <1>13, MacTxInv

LEMMA InTransitType ==
  ASSUME DevicesOK, NEW a \in Apps
  PROVE  InTransit(a) \in Seq(Packet)
<1>1. Here \in Contents
  BY LineType
<1> QED BY <1>1, FlowType, InTransitIsFlow

LEMMA InTransitTypeNext ==
  ASSUME DevicesOK', NEW a \in Apps
  PROVE  InTransit(a)' \in Seq(Packet)
<1>1. \A d \in Devices : Line(d)' \in Seq(Packet)
  <2> SUFFICES ASSUME NEW d \in Devices PROVE Line(d)' \in Seq(Packet)
    OBVIOUS
  <2>1. wire'[d] \in Seq(Packet) /\ current'[d] \in Seq(Packet) /\ queue'[d] \in Seq(Packet)
    BY DEF DevicesOK
  <2>2. (wire'[d] \o current'[d]) \o queue'[d] \in Seq(Packet)
    BY <2>1
  <2> QED BY <2>2 DEF Line
<1>2. Here' \in Contents
  BY <1>1 DEF Here, Contents
<1>3. PICK L \in Contents : L = Here'
  BY <1>2
<1> QED BY <1>3, FlowType, InTransitIsFlow

\* The packets of one application change, and a line may be logged about it.
LEMMA FlightsOne ==
  ASSUME Flights, Streams, UNCHANGED <<now, over, sent, senderLog>>, NEW a \in Apps, Others(a),
         \A s \in Sources : Nxt(s)' = Nxt(s),
         rows' \in [Apps -> Nat], lastRow' \in [Apps -> Seq(Row)],
         \A b \in Apps : b # a => lastRow'[b] = lastRow[b],
         a \in Sources => FlightOK(a, InTransit(a)', lastRow'[a], senderLog[a], now, Nxt(a)),
         a = Congestion => \A i \in 1 .. Len(InTransit(a)') : (InTransit(a)')[i].id = NoId
  PROVE  Flights'
<1>1. ASSUME NEW s \in Sources
      PROVE  FlightOK(s, InTransit(s)', lastRow'[s], senderLog'[s], now', Nxt(s)')
  <2>1. CASE s = a
    BY <2>1
  <2>2. CASE s # a
    <3>1. FlightOK(s, InTransit(s), lastRow[s], senderLog[s], now, Nxt(s))
      BY DEF Flights
    <3>2. InTransit(s)' = InTransit(s) /\ lastRow'[s] = lastRow[s]
      BY <2>2, AppsOfSources DEF Others
    <3> QED BY <3>1, <3>2
  <2> QED BY <2>1, <2>2
<1>2. \A i \in 1 .. Len(InTransit(Congestion)') : (InTransit(Congestion)')[i].id = NoId
  <2>1. CASE a = Congestion
    BY <2>1
  <2>2. CASE a # Congestion
    <3>1. InTransit(Congestion)' = InTransit(Congestion)
      BY <2>2, AppsOfSources DEF Others
    <3> QED BY <3>1 DEF Flights
  <2> QED BY <2>1, <2>2
<1> QED BY <1>1, <1>2 DEF Flights

LEMMA SendCongestionInv ==
  ASSUME IInv, SendCongestion
  PROVE  IInv' /\ Step
<1>1. DevicesOK /\ Streams /\ Flights /\ now \in Nat
  BY PipelineAssumption DEF IInv, Flights
<1>2. PICK p : p = [src |-> Congestion, seq |-> 0, len |-> SegmentSize,
                    time |-> NoTag, id |-> NoId, msg |-> 0]
  OBVIOUS
<1>3. p \in Packet /\ p.src = Congestion /\ p.id = NoId
  BY <1>2, AppsOfSources, PipelineAssumption DEF Packet, NoTag
<1>4. /\ SendFrom(Route[Congestion][1], p)
      /\ sent' = [sent EXCEPT ![Congestion] = @ + 1]
      /\ UNCHANGED <<now, over, messages, conn, appList, sentList, rcvd, acks, rows, lastRow, wire, senderLog>>
  BY <1>2 DEF SendCongestion, tcpVars, sinkVars
<1>5. Streams' /\ \A r \in Sources : Nxt(r)' = Nxt(r)
  <2>1. conn' \in [Sources -> {"closed", "connecting", "established"}]
    BY <1>1, <1>4 DEF Streams
  <2> QED BY <1>1, <1>4, <2>1, StreamsSame
<1>6. /\ DevicesOK'
      /\ \A b \in Apps : b # Congestion => InTransit(b)' = InTransit(b)
      /\ \/ /\ UNCHANGED dropped
            /\ Same(InTransit(Congestion)', Append(InTransit(Congestion), p))
         \/ /\ Full(Route[Congestion][1]) /\ UNCHANGED <<queue, current, queueLog>>
            /\ dropped' = [dropped EXCEPT ![Congestion] = @ + 1]
            /\ InTransit(Congestion)' = InTransit(Congestion)
  BY <1>1, <1>3, <1>4, AppsOfSources, SendStep
<1>7. \A i \in 1 .. Len(InTransit(Congestion)') : (InTransit(Congestion)')[i].id = NoId
  <2>1. PICK l \in Seq(Packet) : l = InTransit(Congestion) /\ \A i \in 1 .. Len(l) : l[i].id = NoId
    BY <1>1, InTransitType, AppsOfSources DEF Flights
  <2>2. \A i \in 1 .. Len(Append(l, p)) : Append(l, p)[i].id = NoId
    <3>1. \A i \in 1 .. Len(Append(l, p)) : Append(l, p)[i] = p \/ (i \in 1 .. Len(l) /\ Append(l, p)[i] = l[i])
      BY <2>1
    <3> QED BY <3>1, <2>1, <1>3
  <2> QED BY <1>6, <2>1, <2>2 DEF Same
<1>8. Flights'
  <2>1. \A s \in Sources : InTransit(s)' = InTransit(s)
    BY <1>6, AppsOfSources
  <2>2. \A s \in Sources : FlightOK(s, InTransit(s)', lastRow'[s], senderLog'[s], now', Nxt(s)')
    BY <1>1, <1>4, <1>5, <2>1 DEF Flights
  <2>3. sent' \in [Apps -> Nat]
    <3>1. sent \in [Apps -> Nat]
      BY <1>1 DEF Flights
    <3> QED BY <1>4, <3>1, AppsOfSources
  <2> QED BY <1>1, <1>4, <1>7, <2>2, <2>3 DEF Flights
<1>9. Step
  <2>1. Route[Congestion][1] \in Devices /\ Congestion \in Apps
    BY AppsOfSources, RouteOfApp
  <2>2. Others(Congestion)
    BY <1>6 DEF Others
  <2>3. Entered(Congestion) \/ Refused(Congestion)
    BY <1>3, <1>4, <1>6, <2>1 DEF Entered, Refused
  <2> QED BY <2>1, <2>2, <2>3 DEF Step
<1> QED BY <1>5, <1>6, <1>8, <1>9 DEF IInv

LEMMA TransmitInv ==
  ASSUME IInv, NEW d \in Devices, TransmitComplete(d)
  PROVE  IInv' /\ Quiet
<1>1. DevicesOK /\ Streams /\ Flights
  BY DEF IInv
<1>2. UNCHANGED <<now, over, messages, conn, appList, sentList, rcvd, acks, rows, lastRow, dropped, senderLog, sent>>
  BY DEF TransmitComplete, tcpVars, sinkVars
<1>3. DevicesOK' /\ \A a \in Apps : InTransit(a)' = InTransit(a)
  BY <1>1, TransmitStep
<1>4. Streams' /\ \A r \in Sources : Nxt(r)' = Nxt(r)
  <2>1. conn' \in [Sources -> {"closed", "connecting", "established"}]
    BY <1>1, <1>2 DEF Streams
  <2> QED BY <1>1, <1>2, <2>1, StreamsSame
<1>5. Flights'
  <2>1. \A r \in Sources : Nxt(r) <= Nxt(r)'
    BY <1>1, <1>4, NxtType
  <2>2. sent' \in [Apps -> Nat] /\ now' \in 0 .. Horizon /\ now <= now' /\ over' \in BOOLEAN
    BY <1>1, <1>2, PipelineAssumption DEF Flights
  <2> QED BY <1>1, <1>2, <1>3, <1>4, <2>1, <2>2, FlightsSame
<1> QED BY <1>2, <1>3, <1>4, <1>5 DEF IInv, Quiet

\* A packet reaches the receiver.
LEMMA ReceiveInv ==
  ASSUME IInv, NEW p \in Packet, NEW a \in Apps, p.src = a, DevicesOK', Others(a),
         UNCHANGED <<now, over, messages, appList, sentList, senderLog, sent, dropped>>, Receive(p),
         InTransit(a) # <<>>, Head(InTransit(a)) = p, Same(InTransit(a)', Tail(InTransit(a)))
  PROVE  IInv' /\ Left(a)
<1>1. DevicesOK /\ Streams /\ Flights /\ now \in Nat
  BY PipelineAssumption DEF IInv, Flights
<1>2. PICK l \in Seq(Packet) : l = InTransit(a)
  BY <1>1, InTransitType
<1>3. l # <<>> /\ p = Head(l) /\ InTransit(a)' = Tail(l) /\ p = l[1] /\ 1 \in 1 .. Len(l)
  BY <1>2 DEF Same
<1>4. rows \in [Apps -> Nat] /\ lastRow \in [Apps -> Seq(Row)]
  BY <1>1 DEF Flights
<1>5. CASE a = Congestion
  <2>1. /\ \A i \in 1 .. Len(l) : l[i].id = NoId
        /\ \A i \in 1 .. Len(Tail(l)) : i + 1 \in 1 .. Len(l) /\ Tail(l)[i] = l[i + 1]
    BY <1>1, <1>2, <1>5 DEF Flights
  <2>2. p.id = NoId /\ \A i \in 1 .. Len(Tail(l)) : Tail(l)[i].id = NoId
    BY <2>1, <1>3
  <2>3. UNCHANGED <<rows, lastRow, conn, rcvd, acks>>
    BY <1>5, <2>2 DEF Receive, logPacketInfo
  <2>4. Streams' /\ \A r \in Sources : Nxt(r)' = Nxt(r)
    <3>1. conn' \in [Sources -> {"closed", "connecting", "established"}]
      BY <1>1, <2>3 DEF Streams
    <3> QED BY <1>1, <2>3, <3>1, StreamsSame
  <2>5. Flights'
    <3>1. a \notin Sources
      BY <1>5, AppsOfSources
    <3>2. \A i \in 1 .. Len(InTransit(a)') : (InTransit(a)')[i].id = NoId
      BY <1>3, <2>2
    <3> QED BY <1>1, <1>4, <2>3, <2>4, <3>1, <3>2, FlightsOne
  <2> QED BY <1>2, <1>3, <2>3, <2>4, <2>5 DEF IInv, Left
<1>6. CASE a # Congestion
  <2>1. a \in Sources /\ NoId \notin Sources
    BY <1>6, AppsOfSources, PipelineAssumption
  <2>2. PICK n \in Nat : n = Nxt(a)
    BY <1>1, <2>1, NxtType
  <2>3. PICK t \in Nat : t = now
    BY <1>1
  <2>4. FlightOK(a, l, lastRow[a], senderLog[a], t, n)
    BY <1>1, <1>2, <2>1, <2>2, <2>3 DEF Flights
  <2>5. PacketOK(a, p, senderLog[a], t, n)
    BY <1>3, <2>4 DEF FlightOK
  <2>6. p.time # NoTag
    BY <2>5 DEF PacketOK, NoTag
  <2>7. /\ rows' \in [Apps -> Nat] /\ lastRow' \in [Apps -> Seq(Row)]
        /\ \A b \in Apps : b # a => lastRow'[b] = lastRow[b]
        /\ FlightOK(a, Tail(l), lastRow'[a], senderLog[a], t, n)
        /\ UNCHANGED <<rows, lastRow>> \/ Logged(a)
    <3>1. CASE p.id = NoId
      <4>1. UNCHANGED <<rows, lastRow>>
        BY <3>1 DEF Receive, logPacketInfo
      <4>2. FlightOK(a, Tail(l), lastRow[a], senderLog[a], t, n)
        BY <1>3, <2>4, FlightTail
      <4> QED BY <1>4, <4>1, <4>2
    <3>2. CASE p.id # NoId
      <4>1. PICK row : row = [txSentAt |-> t, delay |-> t - p.time, id |-> p.id,
                              msg |-> p.msg, seq |-> p.seq, len |-> p.len]
        OBVIOUS
      <4>2. lastRow' = [lastRow EXCEPT ![a] = <<row>>] /\ rows' = [rows EXCEPT ![a] = @ + 1]
        BY <2>3, <2>6, <3>2, <4>1 DEF Receive, logPacketInfo
      <4>3. FlightOK(a, Tail(l), <<row>>, senderLog[a], t, n) /\ row \in Row /\ SentAt(row) = p.time
        <5>4. PICK last, logged : last = lastRow[a] /\ logged = senderLog[a]
          OBVIOUS
        <5>1. PICK s \in Sources : s = a /\ last = lastRow[a] /\ logged = senderLog[a]
          BY <2>1, <5>4
        <5>2. FlightOK(s, l, last, logged, t, n) /\ l # <<>> /\ p = Head(l)
          BY <1>3, <2>4, <5>1
        <5>3. Arrived(s, l, row, logged, t, n)
          BY <3>2, <4>1, <5>2, FlightLogged
        <5> QED BY <1>3, <5>1, <5>3 DEF Arrived
      <4>4. row.seq = p.seq
        BY <4>1
      <4>5. Logged(a)
        BY <1>2, <1>3, <4>2, <4>3, <4>4 DEF Logged
      <4>6. <<row>> \in Seq(Row)
        BY <4>3
      <4>7. rows' \in [Apps -> Nat] /\ lastRow' \in [Apps -> Seq(Row)] /\ lastRow'[a] = <<row>>
            /\ \A b \in Apps : b # a => lastRow'[b] = lastRow[b]
        BY <1>4, <4>2, <4>6
      <4> QED BY <4>3, <4>5, <4>7
    <3> QED BY <3>1, <3>2
  <2>8. Streams' /\ \A r \in Sources : Nxt(r)' = Nxt(r)
    <3>1. CASE p.len = 0
      <4>1. conn' = [conn EXCEPT ![a] = "established"] /\ UNCHANGED <<rcvd, acks>>
        BY <1>6, <3>1 DEF Receive
      <4>2. conn' \in [Sources -> {"closed", "connecting", "established"}]
        BY <1>1, <4>1 DEF Streams
      <4> QED BY <1>1, <4>1, <4>2, StreamsSame
    <3>2. CASE p.len # 0
      <4>1. p.seq \in Nat /\ p.len \in Nat /\ p.seq + p.len <= n
        BY <2>5, <3>2, PacketRoute DEF PacketOK
      <4>2. PICK seq \in Nat, len \in Nat : seq = p.seq /\ len = p.len
        BY <4>1
      <4>3. PICK bytes, ackd, more, ackd2 : /\ bytes = rcvd[a] /\ ackd = acks[a]
                                            /\ more = bytes \union seq .. seq + len - 1
                                            /\ ackd2 = ackd \union {NextRx(more)}
        OBVIOUS
      <4>4. rcvd' = [rcvd EXCEPT ![a] = more] /\ acks' = [acks EXCEPT ![a] = ackd2] /\ UNCHANGED conn
        BY <1>1, <1>6, <2>1, <3>2, <4>2, <4>3 DEF Receive, Streams
      <4>5. PICK m, snt, app : m = messages[a] /\ snt = sentList[a] /\ app = appList[a]
        OBVIOUS
      <4>6. StreamOK(m, snt, app, bytes, ackd) /\ n = NxtOf(m, app)
        BY <1>1, <2>1, <2>2, <4>3, <4>5, StreamOf
      <4>7. seq + len <= NxtOf(m, app)
        BY <4>1, <4>2, <4>6
      <4>8. StreamOK(m, snt, app, more, ackd2)
        BY <4>3, <4>6, <4>7, StreamReceive
      <4>9. /\ messages' = [messages EXCEPT ![a] = m] /\ sentList' = [sentList EXCEPT ![a] = snt]
            /\ appList' = [appList EXCEPT ![a] = app]
            /\ conn' \in [Sources -> {"closed", "connecting", "established"}]
        BY <1>1, <2>1, <4>4, <4>5, StreamOf
      <4>10. Streams' /\ Nxt(a)' = NxtOf(m, app) /\ \A r \in Sources : r # a => Nxt(r)' = Nxt(r)
        <5>1. PICK s \in Sources : s = a
          BY <2>1
        <5>2. /\ messages' = [messages EXCEPT ![s] = m] /\ sentList' = [sentList EXCEPT ![s] = snt]
              /\ appList' = [appList EXCEPT ![s] = app] /\ rcvd' = [rcvd EXCEPT ![s] = more]
              /\ acks' = [acks EXCEPT ![s] = ackd2]
              /\ conn' \in [Sources -> {"closed", "connecting", "established"}]
          BY <4>4, <4>9, <5>1
        <5>3. Streams' /\ Nxt(s)' = NxtOf(m, app) /\ \A r \in Sources : r # s => Nxt(r)' = Nxt(r)
          BY <1>1, <4>8, <5>2, StreamsOne
        <5> QED BY <5>1, <5>3
      <4> QED BY <2>2, <4>6, <4>10
    <3> QED BY <3>1, <3>2
  <2>9. Flights'
    <3>1. FlightOK(a, InTransit(a)', lastRow'[a], senderLog[a], now, Nxt(a))
      BY <1>3, <2>2, <2>3, <2>7
    <3> QED BY <1>1, <1>6, <2>7, <2>8, <3>1, FlightsOne
  <2> QED BY <2>7, <2>8, <2>9 DEF IInv, Left
<1> QED BY <1>5, <1>6

LEMMA ArriveInv ==
  ASSUME IInv, NEW d \in Devices, Arrive(d)
  PROVE  IInv' /\ Step
<1>1. DevicesOK /\ Streams /\ Flights /\ now \in Nat
  BY PipelineAssumption DEF IInv, Flights
<1>2. PICK p \in Packet, a \in Apps : Onward(p, a)
  BY <1>1, ArriveStep
<1>3. UNCHANGED <<now, over, messages, appList, sentList, senderLog, sent>>
  BY DEF Arrive
<1>4. p.src = a /\ DevicesOK' /\ Others(a)
  BY <1>2 DEF Onward, Others
<1>5. ASSUME UNCHANGED <<conn, sinkVars>>
      PROVE  UNCHANGED <<rows, lastRow>> /\ Streams' /\ \A r \in Sources : Nxt(r)' = Nxt(r)
  <2>1. UNCHANGED <<conn, rcvd, acks, rows, lastRow>>
    BY <1>5 DEF sinkVars
  <2>2. conn' \in [Sources -> {"closed", "connecting", "established"}]
    BY <1>1, <2>1 DEF Streams
  <2> QED BY <1>1, <1>3, <2>1, <2>2, StreamsSame
<1>6. CASE UNCHANGED <<dropped, conn, sinkVars>> /\ InTransit(a)' = InTransit(a)
  <2>1. \A b \in Apps : InTransit(b)' = InTransit(b)
    BY <1>4, <1>6 DEF Others
  <2>2. \A r \in Sources : Nxt(r) <= Nxt(r)'
    BY <1>1, <1>5, <1>6, NxtType
  <2>3. sent' \in [Apps -> Nat] /\ now' \in 0 .. Horizon /\ now <= now' /\ over' \in BOOLEAN
    BY <1>1, <1>3, PipelineAssumption DEF Flights
  <2>4. Flights'
    BY <1>1, <1>3, <1>5, <1>6, <2>1, <2>2, <2>3, FlightsSame
  <2>5. Quiet
    BY <1>5, <1>6, <2>1 DEF Quiet
  <2> QED BY <1>4, <1>5, <1>6, <2>4, <2>5 DEF IInv, Step
<1>7. CASE /\ UNCHANGED <<queue, current, queueLog, conn, sinkVars>>
           /\ dropped' = [dropped EXCEPT ![a] = @ + 1]
           /\ \E f \in Devices : Full(f)
           /\ \E i \in 1 .. Len(InTransit(a)) : Same(InTransit(a)', Fifo!Without(InTransit(a), i))
  <2>1. UNCHANGED <<rows, lastRow>> /\ Streams' /\ \A r \in Sources : Nxt(r)' = Nxt(r)
    BY <1>5, <1>7
  <2>2. PICK l \in Seq(Packet) : l = InTransit(a)
    BY <1>1, InTransitType
  <2>3. PICK i \in 1 .. Len(l) : InTransit(a)' = Fifo!Without(l, i)
    BY <1>7, <2>2 DEF Same
  <2>4. ASSUME a \in Sources
        PROVE  FlightOK(a, InTransit(a)', lastRow'[a], senderLog[a], now, Nxt(a))
    <3>1. FlightOK(a, l, lastRow[a], senderLog[a], now, Nxt(a))
      BY <1>1, <2>2, <2>4 DEF Flights
    <3>2. FlightOK(a, Fifo!Without(l, i), lastRow[a], senderLog[a], now, Nxt(a))
      BY <3>1, FlightWithout
    <3> QED BY <2>1, <2>3, <3>2
  <2>5. ASSUME a = Congestion
        PROVE  \A k \in 1 .. Len(InTransit(a)') : (InTransit(a)')[k].id = NoId
    <3>1. \A k \in 1 .. Len(l) : l[k].id = NoId
      BY <1>1, <2>2, <2>5 DEF Flights
    <3>2. PICK r : r = Fifo!Without(l, i)
      OBVIOUS
    <3>3. Len(r) = Len(l) - 1 /\ \A k \in 1 .. Len(l) - 1 : r[k] = IF k < i THEN l[k] ELSE l[k + 1]
      BY <3>2, WithoutElements
    <3>4. \A k \in 1 .. Len(r) : r[k].id = NoId
      BY <3>1, <3>3
    <3> QED BY <2>3, <3>2, <3>4
  <2>6. Flights'
    <3>1. /\ rows' \in [Apps -> Nat] /\ lastRow' \in [Apps -> Seq(Row)]
          /\ \A b \in Apps : b # a => lastRow'[b] = lastRow[b]
      BY <1>1, <2>1 DEF Flights
    <3> QED BY <1>1, <1>3, <1>4, <2>1, <2>4, <2>5, <3>1, FlightsOne
  <2>7. Lost(a)
    BY <1>7, <2>1 DEF Lost
  <2> QED BY <1>4, <2>1, <2>6, <2>7 DEF IInv, Step
<1>8. CASE /\ UNCHANGED <<queue, current, queueLog, dropped>>
           /\ Receive(p)
           /\ InTransit(a) # <<>> /\ Head(InTransit(a)) = p
           /\ Same(InTransit(a)', Tail(InTransit(a)))
  <2>1. IInv' /\ Left(a)
    BY <1>3, <1>4, <1>8, ReceiveInv
  <2> QED BY <1>4, <2>1 DEF Step
<1> QED BY <1>2, <1>6, <1>7, <1>8 DEF Onward

-----------------------------------------------------------------------------
(* The invariant is inductive.                                             *)

LEMMA NextInv ==
  ASSUME IInv, Next
  PROVE  IInv' /\ Step
<1>1. CASE Tick \/ EndOfSimulation
  BY <1>1, TickInv DEF Step
<1>2. ASSUME NEW s \in Sources, NEW size \in Sizes, SendPacket(s, size) PROVE IInv' /\ Step
  BY <1>2, SendPacketInv DEF Step
<1>3. ASSUME NEW s \in Sources, SendSyn(s) PROVE IInv' /\ Step
  BY <1>3, SendSynInv
<1>4. ASSUME NEW s \in Sources, SendNewData(s) PROVE IInv' /\ Step
  BY <1>4, SendNewDataInv
<1>5. ASSUME NEW s \in Sources, Retransmit(s) PROVE IInv' /\ Step
  BY <1>5, RetransmitInv
<1>6. ASSUME NEW s \in Sources, ReceivedAck(s) PROVE IInv' /\ Step
  BY <1>6, ReceivedAckInv DEF Step
<1>7. CASE SendCongestion
  BY <1>7, SendCongestionInv
<1>8. ASSUME NEW d \in Devices, TransmitComplete(d) PROVE IInv' /\ Step
  BY <1>8, TransmitInv DEF Step
<1>9. ASSUME NEW d \in Devices, Arrive(d) PROVE IInv' /\ Step
  BY <1>9, ArriveInv
<1> QED BY <1>1, <1>2, <1>3, <1>4, <1>5, <1>6, <1>7, <1>8, <1>9 DEF Next

LEMMA StutterInv ==
  ASSUME IInv, UNCHANGED vars
  PROVE  IInv' /\ Quiet
<1>1. DevicesOK /\ Streams /\ Flights
  BY DEF IInv
<1>2. UNCHANGED <<now, over, messages, conn, appList, sentList, rcvd, acks, rows, lastRow, dropped, senderLog,
                  sent, netVars>>
  BY DEF vars, tcpVars, sinkVars, netVars
<1>3. DevicesOK' /\ \A a \in Apps : InTransit(a)' = InTransit(a)
  BY <1>1, <1>2, DevicesSame
<1>4. Streams' /\ \A r \in Sources : Nxt(r)' = Nxt(r)
  <2>1. conn' \in [Sources -> {"closed", "connecting", "established"}]
    BY <1>1, <1>2 DEF Streams
  <2> QED BY <1>1, <1>2, <2>1, StreamsSame
<1>5. Flights'
  <2>1. \A r \in Sources : Nxt(r) <= Nxt(r)'
    BY <1>1, <1>4, NxtType
  <2>2. sent' \in [Apps -> Nat] /\ now' \in 0 .. Horizon /\ now <= now' /\ over' \in BOOLEAN
    BY <1>1, <1>2, PipelineAssumption DEF Flights
  <2> QED BY <1>1, <1>2, <1>3, <1>4, <2>1, <2>2, FlightsSame
<1> QED BY <1>2, <1>3, <1>4, <1>5 DEF IInv, Quiet

LEMMA StepInv ==
  ASSUME IInv, [Next]_vars
  PROVE  IInv' /\ Step
<1>1. CASE Next
  BY <1>1, NextInv
<1>2. CASE UNCHANGED vars
  BY <1>2, StutterInv DEF Step
<1> QED BY <1>1, <1>2

LEMMA Invariance == Spec => []IInv
<1>1. IInv /\ [Next]_vars => IInv'
  BY StepInv
<1> QED BY <1>1, InitInv, PTL DEF Spec

-----------------------------------------------------------------------------
(* What it implies.                                                        *)

\* Every variable of the pipeline keeps its type, and the delays that are
\* logged are never negative (trafficgen.cc: logPacketInfo).
THEOREM TypeCorrect == Spec => []TypeOK
<1>1. IInv => TypeOK
  BY DEF IInv, DevicesOK, Streams, Flights, TypeOK
<1> QED BY <1>1, Invariance, PTL

\* The queue log always tells the true length of each queue, within its limit
\* (trafficgen.cc: logValue and the queues' MaxSize).
THEOREM QueuesCorrect == Spec => []QueuesLogged
<1>1. IInv => QueuesLogged
  BY DEF IInv, DevicesOK
<1> QED BY <1>1, Invariance, PTL

\* Every packet of a source under way, and every line of the packet log about
\* it, has its entry in the sender's log (logPacketInfo, logSenderPacket).
THEOREM JoinsCorrect == Spec => []JoinsSenderLog
<1>1. IInv => JoinsSenderLog
  <2> SUFFICES ASSUME IInv, NEW s \in Sources
               PROVE  /\ \A i \in 1 .. Len(InTransit(s)) :
                           [seq |-> InTransit(s)[i].seq, at |-> InTransit(s)[i].time] \in senderLog[s]
                      /\ \A i \in 1 .. Len(lastRow[s]) :
                           /\ lastRow[s][i].id = s
                           /\ [seq |-> lastRow[s][i].seq,
                               at |-> lastRow[s][i].txSentAt - lastRow[s][i].delay] \in senderLog[s]
    BY DEF JoinsSenderLog
  <2>1. FlightOK(s, InTransit(s), lastRow[s], senderLog[s], now, Nxt(s))
    BY DEF IInv, Flights
  <2>2. \A i \in 1 .. Len(InTransit(s)) : PacketOK(s, InTransit(s)[i], senderLog[s], now, Nxt(s))
    BY <2>1 DEF FlightOK
  <2>3. \A i \in 1 .. Len(lastRow[s]) : RowOK(s, lastRow[s][i], senderLog[s], now)
    BY <2>1 DEF FlightOK
  <2>4. \A i \in 1 .. Len(InTransit(s)) :
          [seq |-> InTransit(s)[i].seq, at |-> InTransit(s)[i].time] \in senderLog[s]
    BY <2>2 DEF PacketOK
  <2> QED BY <2>3, <2>4 DEF RowOK, SentAt
<1> QED BY <1>1, Invariance, PTL

LEMMA StreamWhole ==
  ASSUME NEW m, NEW snt, NEW app, NEW bytes, NEW ackd, StreamOK(m, snt, app, bytes, ackd),
         NEW list, list = snt \o app
  PROVE  /\ list # <<>> => Covers(list, list[1].from, TotalOf(m))
         /\ \A n \in 0 .. TotalOf(m) - 1 :
               n \notin bytes => \E i \in 1 .. Len(list) : list[i].from <= n /\ n < list[i].to
         /\ \A i \in 1 .. Len(list) : list[i].msg <= Cardinality({k \in 1 .. Len(m) : m[k] <= list[i].from})
<1>1. PICK T \in Nat, a \in Nat, b \in Nat : T = TotalOf(m) /\ a = UnaOf(m, snt, app) /\ b = NxtOf(m, app)
  BY StreamEnds
<1>2. /\ m \in Seq(Nat) /\ snt \in Seq(Item) /\ app \in Seq(Item)
      /\ Covers(snt, a, b) /\ Covers(app, b, T)
      /\ TagsOK(m, snt) /\ TagsOK(m, app)
      /\ 0 .. a - 1 \subseteq bytes
  BY <1>1 DEF StreamOK
<1>3. list \in Seq(Item) /\ Covers(list, a, T)
  BY <1>2, CoversConcat
<1>4. list # <<>> => Covers(list, list[1].from, T)
  BY <1>3, CoversInterior
<1>5. ASSUME NEW n \in 0 .. T - 1, n \notin bytes
      PROVE  \E i \in 1 .. Len(list) : list[i].from <= n /\ n < list[i].to
  <2>1. n \in Nat /\ n + 1 \in Nat /\ n + 1 <= T /\ a <= n /\ a < n + 1
    BY <1>2, <1>5
  <2>2. list # <<>>
    BY <2>1, <1>3 DEF Covers
  <2>3. PICK e \in Nat : e = n + 1
    BY <2>1
  <2>4. PICK i \in 1 .. Len(list) : list[i].from < e /\ e <= list[i].to
    BY <1>3, <2>1, <2>2, <2>3, CoversFind
  <2>5. list[i].from \in Nat /\ list[i].to \in Nat
    BY <1>3, ItemFields
  <2>6. list[i].from <= n /\ n < list[i].to
    BY <2>1, <2>3, <2>4, <2>5
  <2> QED BY <2>6
<1>6. ASSUME NEW i \in 1 .. Len(list)
      PROVE  list[i].msg <= Cardinality({k \in 1 .. Len(m) : m[k] <= list[i].from})
  <2>1. TagOK(m, list[i])
    <3>1. IF i <= Len(snt) THEN i \in 1 .. Len(snt) /\ list[i] = snt[i]
                           ELSE i - Len(snt) \in 1 .. Len(app) /\ list[i] = app[i - Len(snt)]
      BY <1>2
    <3> QED BY <3>1, <1>2 DEF TagsOK
  <2>2. PICK c \in Nat : c = list[i].msg
    BY <1>3, ItemFields
  <2>3. PICK S : S = {k \in 1 .. Len(m) : m[k] <= list[i].from}
    OBVIOUS
  <2>4. 1 .. c \in SUBSET S
    BY <2>1, <2>2, <2>3 DEF TagOK
  <2>5. IsFiniteSet(S)
    <3>1. 1 \in Int /\ Len(m) \in Int
      BY <1>2
    <3>2. IsFiniteSet(1 .. Len(m))
      BY <3>1, FS_Interval
    <3>3. S \in SUBSET (1 .. Len(m))
      BY <2>3
    <3> QED BY <3>2, <3>3, FS_Subset
  <2>6. Cardinality(1 .. c) = c
    <3>1. 1 \in Int /\ c \in Int
      OBVIOUS
    <3>2. Cardinality(1 .. c) = IF 1 > c THEN 0 ELSE c - 1 + 1
      BY <3>1, FS_Interval
    <3> QED BY <3>2
  <2>7. Cardinality(1 .. c) <= Cardinality(S)
    BY <2>4, <2>5, FS_Subset
  <2> QED BY <2>2, <2>3, <2>6, <2>7
<1> QED BY <1>1, <1>4, <1>5, <1>6

\* What is buffered is exactly what is not acknowledged, and no tag names a
\* message later than its bytes', however segments are merged, split, trimmed
\* and repeated on the way (experiment-tags.h and ns-3's TcpTxBuffer).
THEOREM StreamCorrect == Spec => []StreamIntact
<1>1. IInv => StreamIntact
  <2> SUFFICES ASSUME IInv, NEW s \in Sources, NEW list, list = sentList[s] \o appList[s]
               PROVE  /\ list # <<>> => Covers(list, list[1].from, Total(s))
                      /\ \A n \in 0 .. Total(s) - 1 :
                            n \notin rcvd[s] => \E i \in 1 .. Len(list) : list[i].from <= n /\ n < list[i].to
                      /\ \A i \in 1 .. Len(list) : list[i].msg <= Owner(s, list[i].from)
    BY DEF StreamIntact
  <2>1. PICK m, snt, app, bytes, ackd : /\ m = messages[s] /\ snt = sentList[s] /\ app = appList[s]
                                        /\ bytes = rcvd[s] /\ ackd = acks[s]
    OBVIOUS
  <2>2. StreamOK(m, snt, app, bytes, ackd) /\ list = snt \o app /\ Total(s) = TotalOf(m)
    BY <2>1 DEF IInv, Streams, Total, TotalOf
  <2>3. /\ list # <<>> => Covers(list, list[1].from, TotalOf(m))
        /\ \A n \in 0 .. TotalOf(m) - 1 :
              n \notin bytes => \E i \in 1 .. Len(list) : list[i].from <= n /\ n < list[i].to
        /\ \A i \in 1 .. Len(list) : list[i].msg <= Cardinality({k \in 1 .. Len(m) : m[k] <= list[i].from})
    BY <2>2, StreamWhole
  <2> QED BY <2>1, <2>2, <2>3 DEF Owner
<1> QED BY <1>1, Invariance, PTL

-----------------------------------------------------------------------------
(* What every step does.                                                   *)

\* A line of the drop log is written only while some queue is at its limit, and
\* no line of the packet or queue log with it (trafficgen.cc: logDrop).
THEOREM DropsCorrect == Spec => DropsOnlyWhenFull
<1>1. IInv /\ [Next]_vars
      => [dropped' # dropped =>
            /\ \E d \in Devices : queueLog[d] = QueueSize[d] /\ current[d] # <<>>
            /\ UNCHANGED <<rows, queueLog>>]_vars
  <2> SUFFICES ASSUME IInv, [Next]_vars, dropped' # dropped
               PROVE  /\ \E d \in Devices : queueLog[d] = QueueSize[d] /\ current[d] # <<>>
                      /\ UNCHANGED <<rows, queueLog>>
    OBVIOUS
  <2>1. PICK a \in Apps : Refused(a) \/ Lost(a)
    BY StepInv DEF Step, Quiet, Entered, Left
  <2>2. UNCHANGED <<rows, queueLog>> /\ \E d \in Devices : Full(d)
    BY <2>1 DEF Refused, Lost
  <2>3. PICK d \in Devices : Full(d)
    BY <2>2
  <2>4. /\ QueueSize[d] \in Nat \ {0} /\ Len(queue[d]) >= QueueSize[d]
        /\ queueLog[d] = Len(queue[d]) /\ queueLog[d] <= QueueSize[d] /\ queueLog[d] \in Nat
        /\ current[d] = <<>> => queue[d] = <<>>
    BY <2>3, PipelineAssumption DEF IInv, DevicesOK, QueuesLogged, Full
  <2>5. queueLog[d] = QueueSize[d]
    BY <2>4
  <2>6. current[d] # <<>>
    <3>1. Len(<<>>) = 0
      OBVIOUS
    <3> QED BY <2>4, <3>1
  <2> QED BY <2>2, <2>5, <2>6
<1> QED BY <1>1, Invariance, PTL DEF Spec, DropsOnlyWhenFull

\* The lines of the packet log about one source are in the order in which its
\* packets were sent (trafficgen.cc: logPacketInfo, setTimeTag).
THEOREM OrderCorrect == Spec => SendTimesInOrder
<1>1. IInv /\ [Next]_vars
      => [\A s \in Sources :
            lastRow[s] # <<>> /\ lastRow'[s] # <<>> =>
              lastRow[s][1].txSentAt - lastRow[s][1].delay
                <= lastRow'[s][1].txSentAt - lastRow'[s][1].delay]_vars
  <2> SUFFICES ASSUME IInv, [Next]_vars, NEW s \in Sources, lastRow[s] # <<>>, lastRow'[s] # <<>>
               PROVE  SentAt(lastRow[s][1]) <= SentAt(lastRow'[s][1])
    BY DEF SentAt
  <2>1. s \in Apps /\ lastRow \in [Apps -> Seq(Row)]
        /\ FlightOK(s, InTransit(s), lastRow[s], senderLog[s], now, Nxt(s))
    BY AppsOfSources DEF IInv, Flights
  <2>2. SentAt(lastRow[s][1]) \in Int
    BY <2>1, FlightTypes
  <2>3. CASE lastRow'[s] = lastRow[s]
    BY <2>2, <2>3
  <2>4. CASE lastRow'[s] # lastRow[s]
    <3>1. PICK a \in Apps : Left(a) /\ Logged(a)
      BY <2>4, StepInv DEF Step, Quiet, Entered, Refused, Lost, Left
    <3>2. PICK row \in Row : /\ lastRow' = [lastRow EXCEPT ![a] = <<row>>]
                             /\ SentAt(row) = Head(InTransit(a)).time
      BY <3>1 DEF Logged
    <3>3. a = s
      BY <2>1, <2>4, <3>2
    <3>4. lastRow'[s][1] = row
      BY <2>1, <3>2, <3>3
    <3>5. InTransit(s) \in Seq(Packet) /\ InTransit(s) # <<>>
      BY <2>1, <3>1, <3>3 DEF FlightOK, Left
    <3>6. 1 \in 1 .. Len(InTransit(s)) /\ Head(InTransit(s)) = InTransit(s)[1]
      BY <3>5
    <3>7. SentAt(lastRow[s][1]) <= InTransit(s)[1].time
      BY <2>1, <3>6 DEF FlightOK, OrderOK
    <3> QED BY <3>2, <3>3, <3>4, <3>6, <3>7
  <2> QED BY <2>3, <2>4
<1> QED BY <1>1, Invariance, PTL DEF Spec, SendTimesInOrder, SentAt

-----------------------------------------------------------------------------
(* The pipeline is a lossy channel that keeps the order of the packets.    *)

LEMMA NumbersType ==
  ASSUME NEW l \in Seq(Packet)
  PROVE  /\ Numbers(l) \in Seq(Int) /\ Len(Numbers(l)) = Len(l)
         /\ \A i \in 1 .. Len(l) : Numbers(l)[i] = l[i].seq
<1>1. \A i \in 1 .. Len(l) : l[i] \in Packet
  OBVIOUS
<1>2. \A i \in 1 .. Len(l) : l[i].seq \in Int
  BY <1>1, PacketRoute
<1> QED BY <1>2 DEF Numbers

LEMMA NumbersEqual ==
  ASSUME NEW l \in Seq(Packet), NEW t \in Seq(Int), Len(t) = Len(l),
         \A i \in 1 .. Len(l) : t[i] = l[i].seq
  PROVE  Numbers(l) = t
<1>1. PICK n \in Seq(Int) : n = Numbers(l) /\ Len(n) = Len(t) /\ \A i \in 1 .. Len(n) : n[i] = t[i]
  BY NumbersType
<1> QED BY <1>1, SeqEqual

LEMMA NumbersAppend ==
  ASSUME NEW l \in Seq(Packet), NEW p \in Packet
  PROVE  Numbers(Append(l, p)) = Append(Numbers(l), p.seq)
<1>1. PICK n \in Seq(Int) : n = Numbers(l) /\ Len(n) = Len(l) /\ \A i \in 1 .. Len(l) : n[i] = l[i].seq
  BY NumbersType
<1>2. PICK x \in Int : x = p.seq
  BY PacketRoute
<1>3. PICK l2 \in Seq(Packet) : /\ l2 = Append(l, p) /\ Len(l2) = Len(l) + 1
                                /\ \A i \in 1 .. Len(l) : l2[i] = l[i]
                                /\ l2[Len(l) + 1] = p
  <2>1. /\ Append(l, p) \in Seq(Packet) /\ Len(Append(l, p)) = Len(l) + 1
        /\ \A i \in 1 .. Len(l) : Append(l, p)[i] = l[i]
        /\ Append(l, p)[Len(l) + 1] = p
    OBVIOUS
  <2> QED BY <2>1, Zenon
<1>4. PICK t \in Seq(Int) : /\ t = Append(n, x) /\ Len(t) = Len(n) + 1
                            /\ \A i \in 1 .. Len(n) : t[i] = n[i]
                            /\ t[Len(n) + 1] = x
  <2>1. /\ Append(n, x) \in Seq(Int) /\ Len(Append(n, x)) = Len(n) + 1
        /\ \A i \in 1 .. Len(n) : Append(n, x)[i] = n[i]
        /\ Append(n, x)[Len(n) + 1] = x
    OBVIOUS
  <2> QED BY <2>1, Zenon
<1>5. \A i \in 1 .. Len(l2) : t[i] = l2[i].seq
  <2> SUFFICES ASSUME NEW i \in 1 .. Len(l2) PROVE t[i] = l2[i].seq
    OBVIOUS
  <2>1. i \in 1 .. Len(l) \/ i = Len(l) + 1
    BY <1>3
  <2> QED BY <2>1, <1>1, <1>2, <1>3, <1>4
<1>6. Numbers(l2) = t
  BY <1>1, <1>3, <1>4, <1>5, NumbersEqual
<1> QED BY <1>1, <1>2, <1>3, <1>4, <1>6

LEMMA NumbersTail ==
  ASSUME NEW l \in Seq(Packet), l # <<>>
  PROVE  /\ Numbers(l) # <<>> /\ Head(Numbers(l)) = Head(l).seq
         /\ Numbers(Tail(l)) = Tail(Numbers(l)) /\ Len(Numbers(Tail(l))) = Len(Numbers(l)) - 1
<1>1. PICK n \in Seq(Int) : n = Numbers(l) /\ Len(n) = Len(l) /\ \A i \in 1 .. Len(l) : n[i] = l[i].seq
  BY NumbersType
<1>2. Len(l) \in Nat \ {0} /\ Head(l) = l[1] /\ 1 \in 1 .. Len(l)
  OBVIOUS
<1>3. n # <<>> /\ Head(n) = n[1]
  BY <1>1, <1>2
<1>4. PICK l2 \in Seq(Packet) : /\ l2 = Tail(l) /\ Len(l2) = Len(l) - 1
                                /\ \A i \in 1 .. Len(l) - 1 : l2[i] = l[i + 1]
  <2>1. Tail(l) \in Seq(Packet) /\ Len(Tail(l)) = Len(l) - 1
        /\ \A i \in 1 .. Len(l) - 1 : Tail(l)[i] = l[i + 1]
    OBVIOUS
  <2> QED BY <2>1, Zenon
<1>5. PICK t \in Seq(Int) : /\ t = Tail(n) /\ Len(t) = Len(n) - 1
                            /\ \A i \in 1 .. Len(n) - 1 : t[i] = n[i + 1]
  <2>1. Tail(n) \in Seq(Int) /\ Len(Tail(n)) = Len(n) - 1
        /\ \A i \in 1 .. Len(n) - 1 : Tail(n)[i] = n[i + 1]
    BY <1>3
  <2> QED BY <2>1, Zenon
<1>6. \A i \in 1 .. Len(l2) : t[i] = l2[i].seq
  <2> SUFFICES ASSUME NEW i \in 1 .. Len(l2) PROVE t[i] = l2[i].seq
    OBVIOUS
  <2>1. i \in 1 .. Len(l) - 1 /\ i + 1 \in 1 .. Len(l)
    BY <1>2, <1>4
  <2> QED BY <2>1, <1>1, <1>4, <1>5
<1>7. Numbers(l2) = t
  BY <1>1, <1>4, <1>5, <1>6, NumbersEqual
<1> QED BY <1>1, <1>2, <1>3, <1>4, <1>5, <1>7

LEMMA NumbersWithout ==
  ASSUME NEW l \in Seq(Packet), NEW i \in 1 .. Len(l)
  PROVE  i \in 1 .. Len(Numbers(l)) /\ Numbers(Fifo!Without(l, i)) = Fifo!Without(Numbers(l), i)
<1>1. PICK n \in Seq(Int) : n = Numbers(l) /\ Len(n) = Len(l) /\ \A k \in 1 .. Len(l) : n[k] = l[k].seq
  BY NumbersType
<1>2. PICK l2 \in Seq(Packet) : /\ l2 = Fifo!Without(l, i) /\ Len(l2) = Len(l) - 1
                                /\ \A k \in 1 .. Len(l) - 1 : l2[k] = IF k < i THEN l[k] ELSE l[k + 1]
  BY WithoutElements
<1>3. PICK t \in Seq(Int) : /\ t = Fifo!Without(n, i) /\ Len(t) = Len(n) - 1
                            /\ \A k \in 1 .. Len(n) - 1 : t[k] = IF k < i THEN n[k] ELSE n[k + 1]
  <2>1. i \in 1 .. Len(n)
    BY <1>1
  <2> QED BY <2>1, WithoutElements
<1>4. \A k \in 1 .. Len(l2) : t[k] = l2[k].seq
  <2> SUFFICES ASSUME NEW k \in 1 .. Len(l2) PROVE t[k] = l2[k].seq
    OBVIOUS
  <2>1. k \in 1 .. Len(l) - 1 /\ k \in 1 .. Len(l) /\ k + 1 \in 1 .. Len(l)
    BY <1>2
  <2> QED BY <2>1, <1>1, <1>2, <1>3
<1>5. Numbers(l2) = t
  BY <1>1, <1>2, <1>3, <1>4, NumbersEqual
<1> QED BY <1>1, <1>2, <1>3, <1>5

LEMMA NumbersOfRow ==
  ASSUME NEW row \in Row
  PROVE  Numbers(<<row>>) = <<row.seq>>
<1>1. row.seq \in Nat
  BY DEF Row
<1>2. Len(<<row>>) = 1 /\ <<row>>[1] = row
  OBVIOUS
<1>3. Numbers(<<row>>) = [i \in 1 .. 1 |-> row.seq]
  <2>1. \A i \in 1 .. 1 : i = 1
    OBVIOUS
  <2> QED BY <1>2, <2>1 DEF Numbers
<1>4. [i \in 1 .. 1 |-> row.seq] = <<row.seq>>
  <2>1. PICK x \in Nat : x = row.seq
    BY <1>1
  <2>2. [i \in 1 .. 1 |-> x] \in Seq(Nat) /\ <<x>> \in Seq(Nat)
    OBVIOUS
  <2>3. Len([i \in 1 .. 1 |-> x]) = 1 /\ Len(<<x>>) = 1 /\ <<x>>[1] = x
        /\ \A i \in 1 .. 1 : [j \in 1 .. 1 |-> x][i] = <<x>>[i]
    OBVIOUS
  <2>4. PICK t \in Seq(Nat) : t = [i \in 1 .. 1 |-> x] /\ Len(t) = 1 /\ \A i \in 1 .. 1 : t[i] = <<x>>[i]
    BY <2>2, <2>3, Zenon
  <2>5. t = <<x>>
    BY <2>2, <2>3, <2>4, SeqEqual
  <2> QED BY <2>1, <2>4, <2>5
<1> QED BY <1>3, <1>4

LEMMA UnderNext == /\ Under = [a \in Apps |-> Numbers(InTransit(a))]
                   /\ Under' = [a \in Apps |-> Numbers(InTransit(a)')]
  BY DEF Under, Numbers

LEMMA UnderStep ==
  ASSUME NEW a \in Apps, Others(a), NEW t, Numbers(InTransit(a)') = t
  PROVE  Under' = [Under EXCEPT ![a] = t] /\ Under'[a] = t /\ Under[a] = Numbers(InTransit(a))
<1>1. \A b \in Apps : b # a => Numbers(InTransit(b)') = Numbers(InTransit(b))
  BY DEF Others
<1> QED BY <1>1, UnderNext

LEMMA LastLineStep ==
  ASSUME NEW a \in Apps, rows \in [Apps -> Nat], lastRow \in [Apps -> Seq(Row)], Logged(a)
  PROVE  LastLine' = [LastLine EXCEPT ![a] = [line |-> LastLine[a].line + 1,
                                              seq |-> <<Head(InTransit(a)).seq>>]]
<1>1. PICK row \in Row : /\ rows' = [rows EXCEPT ![a] = @ + 1]
                         /\ lastRow' = [lastRow EXCEPT ![a] = <<row>>]
                         /\ row.seq = Head(InTransit(a)).seq
  BY DEF Logged
<1>2. rows'[a] = rows[a] + 1 /\ lastRow'[a] = <<row>>
      /\ \A b \in Apps : b # a => rows'[b] = rows[b] /\ lastRow'[b] = lastRow[b]
  BY <1>1
<1>3. Numbers(<<row>>) = <<row.seq>>
  BY NumbersOfRow
<1>4. /\ LastLine = [b \in Apps |-> [line |-> rows[b], seq |-> Numbers(lastRow[b])]]
      /\ LastLine' = [b \in Apps |-> [line |-> rows'[b], seq |-> Numbers(lastRow'[b])]]
  BY DEF LastLine, Numbers
<1>5. LastLine[a].line = rows[a]
  BY <1>4
<1>6. LastLine'[a] = [line |-> LastLine[a].line + 1, seq |-> <<Head(InTransit(a)).seq>>]
  BY <1>1, <1>2, <1>3, <1>4, <1>5
<1>7. \A b \in Apps : b # a => LastLine'[b] = LastLine[b]
  BY <1>2, <1>4
<1> QED BY <1>4, <1>6, <1>7

LEMMA FifoInit == Init => Fifo!Init
<1> SUFFICES ASSUME Init PROVE Fifo!Init
  OBVIOUS
<1>1. DevicesOK
  BY InitInv DEF IInv
<1>2. ASSUME NEW a \in Apps PROVE InTransit(a) = <<>>
  <2>1. Here \in Contents
    BY <1>1, LineType
  <2>2. \A d \in Devices : Here[d] = <<>>
    BY DEF Init, Here, Line
  <2>3. Flow(Here, a) \in Seq(Packet)
    BY <2>1, FlowType
  <2>4. \A k \in 1 .. Len(Flow(Here, a)) : FALSE
    BY <2>1, <2>2, FlowElements
  <2>5. Flow(Here, a) = <<>>
    BY <2>3, <2>4
  <2> QED BY <2>5, InTransitIsFlow
<1>3. Numbers(<<>>) = <<>>
  <2>1. <<>> \in Seq(Packet) /\ <<>> \in Seq(Int) /\ Len(<<>>) = 0
    OBVIOUS
  <2>2. \A i \in 1 .. Len(<<>>) : FALSE
    BY <2>1
  <2> QED BY <2>1, <2>2, NumbersEqual
<1>4. Under = [a \in Apps |-> <<>>]
  BY <1>2, <1>3 DEF Under
<1>5. dropped = [a \in Apps |-> 0]
  BY DEF Init
<1>6. LastLine = [a \in Apps |-> [line |-> 0, seq |-> <<>>]]
  <2>1. \A a \in Apps : rows[a] = 0 /\ lastRow[a] = <<>>
    BY DEF Init
  <2> QED BY <2>1, <1>3 DEF LastLine
<1> QED BY <1>4, <1>5, <1>6 DEF Fifo!Init

LEMMA FifoEnter ==
  ASSUME IInv, IInv', NEW a \in Apps, Others(a), Entered(a)
  PROVE  Fifo!Enter(a)
<1>1. PICK p \in Packet : InTransit(a)' = Append(InTransit(a), p)
  BY DEF Entered, Same
<1>2. PICK l \in Seq(Packet) : l = InTransit(a)
  BY InTransitType DEF IInv
<1>3. PICK n \in Seq(Int) : n = Numbers(l)
  BY NumbersType
<1>4. PICK x \in Int : x = p.seq
  BY PacketRoute
<1>5. Numbers(InTransit(a)') = Append(n, x)
  BY <1>1, <1>2, <1>3, <1>4, NumbersAppend
<1>6. Under' = [Under EXCEPT ![a] = Append(n, x)] /\ Under'[a] = Append(n, x) /\ Under[a] = n
  BY <1>2, <1>3, <1>5, UnderStep
<1>7. Len(Append(n, x)) = Len(n) + 1 /\ Append(n, x)[Len(n) + 1] = x
  OBVIOUS
<1>8. Len(Under'[a]) = Len(Under[a]) + 1 /\ Under'[a][Len(Under'[a])] = x
  BY <1>6, <1>7
<1>9. Under' = [Under EXCEPT ![a] = Append(Under[a], Under'[a][Len(Under'[a])])]
  BY <1>6, <1>8
<1>10. UNCHANGED <<dropped, LastLine>>
  BY DEF Entered, LastLine
<1> QED BY <1>8, <1>9, <1>10 DEF Fifo!Enter

LEMMA FifoRefuse ==
  ASSUME NEW a \in Apps, Others(a), Refused(a)
  PROVE  Fifo!Refuse(a)
<1>1. \A b \in Apps : InTransit(b)' = InTransit(b)
  BY DEF Others, Refused
<1>2. UNCHANGED <<Under, LastLine>>
  BY <1>1, UnderNext DEF Refused, LastLine
<1> QED BY <1>2 DEF Refused, Fifo!Refuse

LEMMA FifoLose ==
  ASSUME IInv, NEW a \in Apps, Others(a), Lost(a)
  PROVE  Fifo!Lose(a)
<1>1. PICK l \in Seq(Packet) : l = InTransit(a)
  BY InTransitType DEF IInv
<1>2. PICK i \in 1 .. Len(l) : InTransit(a)' = Fifo!Without(l, i)
  BY <1>1 DEF Lost, Same
<1>3. i \in 1 .. Len(Numbers(l)) /\ Numbers(InTransit(a)') = Fifo!Without(Numbers(l), i)
  BY <1>2, NumbersWithout
<1>4. Under' = [Under EXCEPT ![a] = Fifo!Without(Under[a], i)] /\ i \in 1 .. Len(Under[a])
  BY <1>1, <1>3, UnderStep
<1>5. UNCHANGED LastLine /\ dropped' = [dropped EXCEPT ![a] = @ + 1]
  BY DEF Lost, LastLine
<1> QED BY <1>4, <1>5 DEF Fifo!Lose

LEMMA FifoLeave ==
  ASSUME IInv, NEW a \in Apps, Others(a), Left(a)
  PROVE  Fifo!Leave(a)
<1>1. PICK l \in Seq(Packet) : l = InTransit(a) /\ l # <<>>
  BY InTransitType DEF IInv, Left
<1>2. InTransit(a)' = Tail(l)
  BY <1>1 DEF Left, Same
<1>3. PICK n : n = Numbers(l)
  OBVIOUS
<1>4. n # <<>> /\ Head(n) = Head(l).seq /\ Numbers(Tail(l)) = Tail(n) /\ Len(Numbers(Tail(l))) = Len(n) - 1
  BY <1>1, <1>3, NumbersTail
<1>5. Under' = [Under EXCEPT ![a] = Tail(n)] /\ Under'[a] = Tail(n) /\ Under[a] = n
  BY <1>1, <1>2, <1>3, <1>4, UnderStep
<1>6. /\ Under[a] # <<>> /\ Len(Under'[a]) = Len(Under[a]) - 1
      /\ Under' = [Under EXCEPT ![a] = Tail(Under[a])]
  BY <1>4, <1>5
<1>7. \/ UNCHANGED LastLine
      \/ LastLine' = [LastLine EXCEPT ![a] = [line |-> LastLine[a].line + 1, seq |-> <<Head(Under[a])>>]]
  <2>1. CASE UNCHANGED <<rows, lastRow>>
    BY <2>1 DEF LastLine
  <2>2. CASE Logged(a)
    <3>1. rows \in [Apps -> Nat] /\ lastRow \in [Apps -> Seq(Row)]
      BY DEF IInv, Flights
    <3> QED BY <2>2, <3>1, <1>1, <1>4, <1>5, LastLineStep
  <2> QED BY <2>1, <2>2 DEF Left
<1>8. UNCHANGED dropped
  BY DEF Left
<1> QED BY <1>6, <1>7, <1>8 DEF Fifo!Leave

\* Seen from an application, devices, queues and links are a channel that keeps
\* the order of its packets and loses some, each loss one line of the drop log;
\* what the receiver logs is what left the channel (trafficgen.cc: logDrop,
\* logPacketInfo).
THEOREM Implements == Spec => ImplementsFifo
<1>1. IInv /\ [Next]_vars => [Fifo!Next]_(Fifo!chVars)
  <2> SUFFICES ASSUME IInv, [Next]_vars
               PROVE  Fifo!Next \/ UNCHANGED <<Under, dropped, LastLine>>
    BY DEF Fifo!chVars
  <2>1. IInv' /\ Step
    BY StepInv
  <2>2. CASE Quiet
    BY <2>2, UnderNext DEF Quiet, LastLine
  <2>3. ASSUME NEW a \in Apps, Others(a), Entered(a) \/ Refused(a) \/ Lost(a) \/ Left(a)
        PROVE  Fifo!Next
    <3>1. Fifo!Enter(a) \/ Fifo!Leave(a) \/ Fifo!Lose(a) \/ Fifo!Refuse(a)
      BY <2>1, <2>3, FifoEnter, FifoRefuse, FifoLose, FifoLeave
    <3> QED BY <3>1 DEF Fifo!Next
  <2> QED BY <2>1, <2>2, <2>3 DEF Step
<1> QED BY <1>1, FifoInit, Invariance, PTL DEF Spec, ImplementsFifo, Fifo!Spec
=============================================================================
