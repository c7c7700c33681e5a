--------------------------- MODULE TrafficPipeline ---------------------------
(***************************************************************************)
(* From the messages of the traffic applications to the logs of one run of *)
(* simulation/trafficgen*.cc: messages are tagged, become TCP segments,    *)
(* are stamped when they leave their sender, wait in the drop-tail queues  *)
(* of the switches on their way, compete with congestion traffic, and are  *)
(* logged when they reach the receiver or are dropped.                     *)
(*                                                                         *)
(* TCP, the devices and the links are those of ns-3, modelled from how the *)
(* experiments use them.  Congestion control decides when something is     *)
(* sent and is left open; what is sent is not.                             *)
(***************************************************************************)
EXTENDS Integers, Sequences, FiniteSets, SegmentTags

CONSTANTS
  Sources,       \* the traffic applications: (workload, application) ids
  Congestion,    \* the congestion application
  Devices,       \* the transmitting devices on the way to the receiver
  Route,         \* of each application: the devices its packets pass, in order
  QueueSize,     \* of each device: MaxSize of its queue, in packets
  SegmentSize,   \* TcpSocket::SegmentSize
  Sizes,         \* message sizes
  Horizon,       \* time at which the simulation is stopped
  MaxMsgs,       \* bound: messages of each source
  MaxSends,      \* bound: packets sent by each source
  MaxCongestion  \* bound: packets of the congestion application

Apps == Sources \union {Congestion}

NoTag == -1
NoId == "no id"

ASSUME PipelineAssumption ==
  /\ Congestion \notin Sources
  /\ NoId \notin Sources
  /\ Route \in [Apps -> Seq(Devices) \ {<<>>}]
  /\ \A a \in Apps : \A i, j \in 1 .. Len(Route[a]) : Route[a][i] = Route[a][j] => i = j
  /\ QueueSize \in [Devices -> Nat \ {0}]
  /\ SegmentSize \in Nat \ {0}
  /\ Sizes \subseteq Nat \ {0}
  /\ Horizon \in Nat

VARIABLES
  now, over,                  \* the clock; the simulation has ended
  messages,                   \* history, of each source: where each message ends
  conn, appList, sentList,    \* of each source: its connection and send buffer
  rcvd, acks,                 \* of each source: bytes received, acknowledgements
  queue, current, wire,       \* of each device: waiting, being sent, propagating
  queueLog, dropped,          \* the queue log (its last line per device), the
                              \*   drop log (its lines per application)
  rows, lastRow,              \* the packet log: lines and last line per source
  senderLog,                  \* of each source: the log of its sender
  sent                        \* history: packets sent by each application

tcpVars == <<messages, conn, appList, sentList>>
sinkVars == <<rcvd, acks, rows, lastRow>>
netVars == <<queue, current, wire, queueLog, dropped>>
vars == <<now, over, tcpVars, sinkVars, netVars, senderLog, sent>>

-----------------------------------------------------------------------------

Init ==
  /\ now = 0 /\ over = FALSE
  /\ messages = [s \in Sources |-> <<>>]
  /\ conn = [s \in Sources |-> "closed"]
  /\ appList = [s \in Sources |-> <<>>] /\ sentList = [s \in Sources |-> <<>>]
  /\ rcvd = [s \in Sources |-> {}] /\ acks = [s \in Sources |-> {}]
  /\ queue = [d \in Devices |-> <<>>] /\ wire = [d \in Devices |-> <<>>]
  /\ current = [d \in Devices |-> <<>>]
  /\ queueLog = [d \in Devices |-> 0]
  /\ dropped = [a \in Apps |-> 0] /\ sent = [a \in Apps |-> 0]
  /\ rows = [a \in Apps |-> 0] /\ lastRow = [a \in Apps |-> <<>>]
  /\ senderLog = [s \in Sources |-> {}]

Tick == ~over /\ now < Horizon /\ now' = now + 1
        /\ UNCHANGED <<over, tcpVars, sinkVars, netVars, senderLog, sent>>

EndOfSimulation ==
  /\ ~over /\ over' = TRUE
  /\ now = Horizon
  /\ UNCHANGED <<now, tcpVars, sinkVars, netVars, senderLog, sent>>

-----------------------------------------------------------------------------
(* The devices.  A packet that finds the device idle passes through the    *)
(* queue all the same; one that finds the queue full is dropped.           *)

logValue(d, newval) == queueLog' = [queueLog EXCEPT ![d] = newval]

\* Mutant: the packet being sent is reported, not the one refused.
MutantLogDropCurrent(d, p) == dropped' = [dropped EXCEPT ![current[d][1].src] = @ + 1]

logDrop(d, p) == dropped' = [dropped EXCEPT ![p.src] = @ + 1]

\* Mutant: one packet too many is let in.
MutantFullLate(d) == Len(queue[d]) > QueueSize[d]

\* Mutant: the packet being sent is counted.
MutantFullEarly(d) == Len(queue[d]) + Len(current[d]) >= QueueSize[d]

Full(d) == Len(queue[d]) >= QueueSize[d]

SendFrom(d, p) ==
  \/ /\ Full(d)
     /\ logDrop(d, p)
     /\ UNCHANGED <<queue, current, queueLog>>
  \/ /\ ~Full(d) /\ current[d] # <<>>
     /\ queue' = [queue EXCEPT ![d] = Append(@, p)]
     /\ logValue(d, Len(queue[d]) + 1)
     /\ UNCHANGED <<current, dropped>>
  \/ /\ ~Full(d) /\ current[d] = <<>>
     /\ LET q == Append(queue[d], p) IN
          /\ current' = [current EXCEPT ![d] = <<Head(q)>>]
          /\ queue' = [queue EXCEPT ![d] = Tail(q)]
          /\ logValue(d, Len(q) - 1)
     /\ UNCHANGED dropped

\* Mutant: the next packet waits until another one comes.
MutantNoNextPacket(d) ==
  /\ ~over /\ current[d] # <<>>
  /\ wire' = [wire EXCEPT ![d] = @ \o current[d]]
  /\ current' = [current EXCEPT ![d] = <<>>]
  /\ UNCHANGED <<now, over, tcpVars, sinkVars, queue, queueLog, dropped, senderLog, sent>>

\* A packet is on the wire; the next one in the queue follows.
TransmitComplete(d) ==
  /\ ~over /\ current[d] # <<>>
  /\ wire' = [wire EXCEPT ![d] = @ \o current[d]]
  /\ IF queue[d] = <<>>
     THEN current' = [current EXCEPT ![d] = <<>>] /\ UNCHANGED <<queue, queueLog>>
     ELSE /\ current' = [current EXCEPT ![d] = <<Head(queue[d])>>]
          /\ queue' = [queue EXCEPT ![d] = Tail(queue[d])]
          /\ logValue(d, Len(queue[d]) - 1)
  /\ UNCHANGED <<now, over, tcpVars, sinkVars, dropped, senderLog, sent>>

-----------------------------------------------------------------------------
(* The senders.                                                            *)

\* Mutant: the stamp is put on the buffered data and stays for later copies.
MutantFirstStamp(p) ==
  LET earlier == {e \in senderLog[p.src] : e.seq = p.seq}
  IN  [p EXCEPT !.time = IF earlier = {} THEN now ELSE (CHOOSE e \in earlier : TRUE).at]

\* Connected to the MacTx trace of every sender's device.
setTimeTag(p) == [p EXCEPT !.time = now]

logSenderPacket(s, p) ==
  senderLog' = IF p.time = NoTag THEN senderLog
               ELSE [senderLog EXCEPT ![s] = @ \union {[seq |-> p.seq, at |-> p.time]}]

\* Mutant: the trace callbacks are connected the other way round.
MutantLogBeforeTag(s, p) ==
  /\ logSenderPacket(s, p)
  /\ SendFrom(Route[s][1], setTimeTag(p))
  /\ sent' = [sent EXCEPT ![s] = @ + 1]
  /\ UNCHANGED wire

\* The packet passes the MacTx trace, to which setTimeTag was connected first,
\* and then enters the queue of the device.
MacTx(s, p) ==
  /\ logSenderPacket(s, setTimeTag(p))
  /\ SendFrom(Route[s][1], setTimeTag(p))
  /\ sent' = [sent EXCEPT ![s] = @ + 1]
  /\ UNCHANGED wire

Total(s) == IF messages[s] = <<>> THEN 0 ELSE messages[s][Len(messages[s])]

\* CdfApplication::SendPacket: the message is tagged with the application's id
\* and with its number and appended to the send buffer.
SendPacket(s, size) ==
  /\ ~over /\ Len(messages[s]) < MaxMsgs[s]
  /\ messages' = [messages EXCEPT ![s] = Append(@, Total(s) + size)]
  /\ appList' = [appList EXCEPT ![s] =
                   Append(@, [from |-> Total(s), to |-> Total(s) + size,
                              msg |-> Len(messages[s]), lastSent |-> Unsent])]
  /\ UNCHANGED <<now, over, conn, sentList, sinkVars, netVars, senderLog, sent>>

MaySend(s) == ~over /\ sent[s] < MaxSends[s]

\* A handshake packet precedes the first byte, carries no message and none of
\* its tags; it is repeated when no answer came in time.
SendSyn(s) ==
  /\ MaySend(s) /\ conn[s] # "established"
  /\ [seq |-> -1, at |-> now] \notin senderLog[s]
  /\ conn' = [conn EXCEPT ![s] = "connecting"]
  /\ MacTx(s, [src |-> s, seq |-> -1, len |-> 0, time |-> NoTag, id |-> NoId, msg |-> 0])
  /\ UNCHANGED <<now, over, messages, appList, sentList, sinkVars>>

\* A copy of a buffered item.  The stamp is put on the copy only.
SegmentOf(s, item) ==
  [src |-> s, seq |-> item.from, len |-> item.to - item.from,
   time |-> NoTag, id |-> s, msg |-> item.msg]

SendNewData(s) ==
  /\ MaySend(s) /\ conn[s] = "established" /\ appList[s] # <<>>
  /\ LET list == CutFirst(appList[s], SegmentSize)
         item == [list[1] EXCEPT !.lastSent = now]
     IN  /\ MacTx(s, SegmentOf(s, item))
         /\ sentList' = [sentList EXCEPT ![s] = Append(@, item)]
         /\ appList' = [appList EXCEPT ![s] = Tail(list)]
  /\ UNCHANGED <<now, over, messages, conn, sinkVars>>

\* A segment is sent again, together with the one after it if both fit and
\* nothing is known to have arrived.
Retransmit(s) ==
  /\ MaySend(s)
  /\ \E i \in 1 .. Len(sentList[s]), merge \in BOOLEAN :
       LET this == sentList[s][i]
           size == IF merge /\ i < Len(sentList[s])
                   THEN sentList[s][i + 1].to - this.from ELSE this.to - this.from
           list == CutAt(sentList[s], i, Minimum(SegmentSize, size))
           item == [list[i] EXCEPT !.lastSent = now]
       IN  /\ this.lastSent < now
           /\ MacTx(s, SegmentOf(s, item))
           /\ sentList' = [sentList EXCEPT ![s] = [list EXCEPT ![i] = item]]
  /\ UNCHANGED <<now, over, messages, conn, appList, sinkVars>>

ReceivedAck(s) ==
  /\ ~over
  /\ \E n \in acks[s] :
       /\ \E i \in 1 .. Len(sentList[s]) : sentList[s][i].from < n
       /\ sentList' = [sentList EXCEPT ![s] = DiscardUpTo(@, n)]
       /\ acks' = [acks EXCEPT ![s] = @ \ {n}]
  /\ UNCHANGED <<now, over, messages, conn, appList, rcvd, rows, lastRow,
                 netVars, senderLog, sent>>

\* The congestion application: neither its packets nor its device are traced.
SendCongestion ==
  /\ ~over /\ sent[Congestion] < MaxCongestion
  /\ SendFrom(Route[Congestion][1],
              [src |-> Congestion, seq |-> 0, len |-> SegmentSize,
               time |-> NoTag, id |-> NoId, msg |-> 0])
  /\ sent' = [sent EXCEPT ![Congestion] = @ + 1]
  /\ UNCHANGED <<now, over, tcpVars, sinkVars, wire, senderLog>>

-----------------------------------------------------------------------------
(* The receiver.                                                           *)

\* Mutant: one tag is enough.
MutantLogEither(p) ==
  IF p.time # NoTag \/ p.id # NoId
  THEN /\ lastRow' = [lastRow EXCEPT ![p.src] =
                        <<[txSentAt |-> now, delay |-> now - p.time, id |-> p.id,
                           msg |-> p.msg, seq |-> p.seq, len |-> p.len]>>]
       /\ rows' = [rows EXCEPT ![p.src] = @ + 1]
  ELSE UNCHANGED <<rows, lastRow>>

\* Only a packet with both tags is logged.
logPacketInfo(p) ==
  IF p.time # NoTag /\ p.id # NoId
  THEN /\ lastRow' = [lastRow EXCEPT ![p.src] =
                        <<[txSentAt |-> now, delay |-> now - p.time, id |-> p.id,
                           msg |-> p.msg, seq |-> p.seq, len |-> p.len]>>]
       /\ rows' = [rows EXCEPT ![p.src] = @ + 1]
  ELSE UNCHANGED <<rows, lastRow>>

\* The first byte not received.
NextRx(bytes) == CHOOSE n \in 0 .. Cardinality(bytes) :
                   n \notin bytes /\ 0 .. n - 1 \subseteq bytes

Receive(p) ==
  /\ logPacketInfo(p)
  /\ IF p.src = Congestion THEN UNCHANGED <<conn, rcvd, acks>>
     ELSE IF p.len = 0
     THEN conn' = [conn EXCEPT ![p.src] = "established"] /\ UNCHANGED <<rcvd, acks>>
     ELSE LET bytes == rcvd[p.src] \union p.seq .. p.seq + p.len - 1 IN
          /\ rcvd' = [rcvd EXCEPT ![p.src] = bytes]
          /\ acks' = [acks EXCEPT ![p.src] = @ \union {NextRx(bytes)}]
          /\ UNCHANGED conn

HopOf(p, d) == CHOOSE i \in 1 .. Len(Route[p.src]) : Route[p.src][i] = d

\* A packet reaches the other end of the link: the next switch or the receiver.
Arrive(d) ==
  /\ ~over /\ wire[d] # <<>>
  /\ LET p == Head(wire[d])
         hop == HopOf(p, d)
     IN  IF hop < Len(Route[p.src])
         THEN SendFrom(Route[p.src][hop + 1], p) /\ UNCHANGED <<conn, sinkVars>>
         ELSE Receive(p) /\ UNCHANGED <<queue, current, queueLog, dropped>>
  /\ wire' = [wire EXCEPT ![d] = Tail(@)]
  /\ UNCHANGED <<now, over, messages, appList, sentList, senderLog, sent>>

-----------------------------------------------------------------------------

Next ==
  \/ Tick
  \/ EndOfSimulation
  \/ \E s \in Sources, size \in Sizes : SendPacket(s, size)
  \/ \E s \in Sources : SendSyn(s)
  \/ \E s \in Sources : SendNewData(s)
  \/ \E s \in Sources : Retransmit(s)
  \/ \E s \in Sources : ReceivedAck(s)
  \/ SendCongestion
  \/ \E d \in Devices : TransmitComplete(d)
  \/ \E d \in Devices : Arrive(d)

Spec == Init /\ [][Next]_vars

\* Simulator::Run serves every event: transmissions and propagation end.
FairSpec ==
  /\ Spec
  /\ \A d \in Devices : WF_vars(TransmitComplete(d)) /\ WF_vars(Arrive(d))

-----------------------------------------------------------------------------
(* Properties.                                                             *)

\* What is at device d, oldest first.
Line(d) == wire[d] \o current[d] \o queue[d]

OfApp(list, a) ==
  LET first[n \in 0 .. Len(list)] ==
        IF n = 0 THEN <<>>
        ELSE IF list[n].src = a THEN Append(first[n - 1], list[n]) ELSE first[n - 1]
  IN  first[Len(list)]

\* The first n of some lists, the last one in front.
Joined(lists, n) ==
  LET upTo[i \in 0 .. n] == IF i = 0 THEN <<>> ELSE lists[i] \o upTo[i - 1]
  IN  upTo[n]

\* The packets of application a that passed its first device and have not left
\* its last one, oldest first.
InTransit(a) ==
  Joined([i \in 1 .. Len(Route[a]) |-> OfApp(Line(Route[a][i]), a)], Len(Route[a]))

\* The number of the message that byte n belongs to.
Owner(s, n) == Cardinality({i \in 1 .. Len(messages[s]) : messages[s][i] <= n})

Packet == [src : Apps, seq : Int, len : Nat, time : Int, id : Apps \union {NoId}, msg : Nat]

Row == [txSentAt : Nat, delay : Nat, id : Sources, msg : Nat, seq : Nat, len : Nat]

\* Every variable keeps its type; a delay is never negative.
TypeOK ==
  /\ now \in 0 .. Horizon /\ over \in BOOLEAN
  /\ messages \in [Sources -> Seq(Nat)]
  /\ conn \in [Sources -> {"closed", "connecting", "established"}]
  /\ appList \in [Sources -> Seq(Item)] /\ sentList \in [Sources -> Seq(Item)]
  /\ rcvd \in [Sources -> SUBSET Nat] /\ acks \in [Sources -> SUBSET Nat]
  /\ queue \in [Devices -> Seq(Packet)] /\ wire \in [Devices -> Seq(Packet)]
  /\ current \in [Devices -> Seq(Packet)]
  /\ queueLog \in [Devices -> Nat] /\ dropped \in [Apps -> Nat]
  /\ rows \in [Apps -> Nat] /\ lastRow \in [Apps -> Seq(Row)]
  /\ sent \in [Apps -> Nat]
  /\ senderLog \in [Sources -> SUBSET [seq : Int, at : Nat]]

\* Merging, splitting and trimming neither lose nor repeat a byte of a message:
\* what is buffered is exactly what is not acknowledged.  A tag may be stale but
\* never names a message later than the one its first byte belongs to.
StreamIntact ==
  \A s \in Sources :
     LET list == sentList[s] \o appList[s] IN
     /\ list # <<>> => Covers(list, list[1].from, Total(s))
     /\ \A n \in 0 .. Total(s) - 1 :
           n \notin rcvd[s] => \E i \in 1 .. Len(list) : list[i].from <= n /\ n < list[i].to
     /\ \A i \in 1 .. Len(list) : list[i].msg <= Owner(s, list[i].from)

\* Every packet of a source, while it is under way and once it is logged, can be
\* found in its sender's log under its sequence number and sending time: the
\* delay in the packet log is that of this very transmission.
JoinsSenderLog ==
  \A s \in Sources :
     /\ LET list == InTransit(s) IN
        \A i \in 1 .. Len(list) : [seq |-> list[i].seq, at |-> list[i].time] \in senderLog[s]
     /\ \A i \in 1 .. Len(lastRow[s]) :
           LET r == lastRow[s][i] IN
           r.id = s /\ [seq |-> r.seq, at |-> r.txSentAt - r.delay] \in senderLog[s]

\* The last line of the queue log tells the length of the queue, which never
\* exceeds the configured limit; an idle device has an empty queue.
QueuesLogged ==
  \A d \in Devices :
     /\ queueLog[d] = Len(queue[d]) /\ queueLog[d] <= QueueSize[d]
     /\ Len(current[d]) <= 1
     /\ current[d] = <<>> => queue[d] = <<>>

\* A line of the drop log is written only while the queue log reports some
\* device at its limit, and nothing is written to the packet log then.
DropsOnlyWhenFull ==
  [][ dropped' # dropped =>
        /\ \E d \in Devices : queueLog[d] = QueueSize[d] /\ current[d] # <<>>
        /\ UNCHANGED <<rows, queueLog>> ]_vars

\* Lines of the packet log about one source are in the order its packets were
\* sent, retransmissions included.
SendTimesInOrder ==
  [][ \A s \in Sources :
        lastRow[s] # <<>> /\ lastRow'[s] # <<>> =>
          lastRow[s][1].txSentAt - lastRow[s][1].delay
            <= lastRow'[s][1].txSentAt - lastRow'[s][1].delay ]_vars

Numbers(list) == [i \in 1 .. Len(list) |-> list[i].seq]

Under == [a \in Apps |-> Numbers(InTransit(a))]

LastLine == [a \in Apps |-> [line |-> rows[a], seq |-> Numbers(lastRow[a])]]

\* Each application sees a lossy channel that keeps the order of its packets.
Fifo == INSTANCE LossyFifo WITH inTransit <- Under, lost <- dropped, log <- LastLine

ImplementsFifo == Fifo!Spec

\* The network drains: nothing stays in a queue for ever.
Drains == \A a \in Apps : <>[](over \/ InTransit(a) = <<>>)

-----------------------------------------------------------------------------
(* What the documentation says.                                            *)

\* experiment-tags.h:112: "A tag to check message ids and see if they are
\* preserved across fragments".
MessageIdPreserved ==
  \A s \in Sources : \A i \in 1 .. Len(lastRow[s]) :
     lastRow[s][i].msg = Owner(s, lastRow[s][i].seq)
=============================================================================
