--------------------------- MODULE Probing_proofs ---------------------------
(***************************************************************************)
(* Proofs about Probing, for any clients, intervals, burst sizes, start    *)
(* and stop times, and any network that loses, delays and reorders.        *)
(***************************************************************************)
EXTENDS Probing, TLAPS

Datagram == [client : Clients, burst : Nat, nr : Nat, timestamp : Nat, to : {"server", "client"}]
Rtt == [client : Clients, burst : Nat, nr : Nat, rtt : Int, at : Nat]

-----------------------------------------------------------------------------
(* Type correctness.                                                       *)

LEMMA TypeInit == Init => TypeOK
<1> SUFFICES ASSUME Init PROVE TypeOK
  OBVIOUS
<1>1. /\ startAt \in [Clients -> Nat \union {Never}]
      /\ stopAt \in [Clients -> Nat \union {Never}]
      /\ serverStartAt \in Nat /\ serverStopAt \in Nat \union {Never}
  BY ProbingAssumption DEF ProbingAssumption, Init
<1>2. /\ sendAt \in [Clients -> Nat \union {Never}]
      /\ firstAt \in [Clients -> Nat \union {Never}]
      /\ m_socket \in [Clients -> BOOLEAN]
      /\ m_burst \in [Clients -> Nat] /\ m_sent \in [Clients -> Nat]
  BY DEF Init
<1>3. /\ now \in Nat /\ over = FALSE /\ serverSocket = "none"
      /\ net = {} /\ lost = {} /\ rtts = {}
  BY DEF Init
<1> QED BY <1>1, <1>2, <1>3 DEF TypeOK

\* The probes of a burst are well-formed datagrams with well-formed ids.
LEMMA BurstType ==
  ASSUME TypeOK, NEW c \in Clients, NEW p \in Burst(c, now)
  PROVE  /\ p \in Datagram /\ IdOf(p) \in ProbeId
         /\ p.client = c /\ p.burst = m_burst[c] /\ p.timestamp = now /\ p.to = "server"
<1>1. PICK i \in 0 .. BurstSize[c] - 1 :
        p = [client |-> c, burst |-> m_burst[c], nr |-> i, timestamp |-> now, to |-> "server"]
  BY DEF Burst
<1>2. BurstSize[c] \in Nat /\ m_burst[c] \in Nat /\ now \in Nat
  BY ProbingAssumption DEF ProbingAssumption, TypeOK
<1>3. i \in Nat /\ i < BurstSize[c]
  BY <1>2
<1> QED BY <1>1, <1>2, <1>3 DEF Datagram, ProbeId, IdOf

LEMMA TypeSend ==
  ASSUME TypeOK, NEW c \in Clients, Send(c)
  PROVE  TypeOK'
<1> USE ProbingAssumption DEF ProbingAssumption
<1>1. net' \subseteq Datagram /\ \A p \in net' : IdOf(p) \in ProbeId
  <2> SUFFICES ASSUME NEW p \in net' PROVE p \in Datagram /\ IdOf(p) \in ProbeId
    OBVIOUS
  <2>1. CASE p \in net
    BY <2>1 DEF TypeOK, Datagram
  <2>2. CASE p \in Burst(c, now)
    BY <2>2, BurstType
  <2> QED BY <2>1, <2>2 DEF Send
<1>2. /\ m_sent' \in [Clients -> Nat] /\ m_burst' \in [Clients -> Nat]
      /\ sendAt' \in [Clients -> Nat \union {Never}]
      /\ firstAt' \in [Clients -> Nat \union {Never}]
  <2>1. Interval[c] \in Nat /\ BurstSize[c] \in Nat /\ now \in Nat
    BY DEF TypeOK
  <2> QED BY <2>1 DEF Send, TypeOK, ScheduleTransmit
<1>3. \A p \in rtts' : IdOf(p) \in ProbeId
  BY DEF Send, TypeOK
<1>4. UNCHANGED <<now, over, startAt, stopAt, m_socket, serverVars, lost, rtts>>
  BY DEF Send
<1> HIDE ProbingAssumption DEF ProbingAssumption
<1> QED BY <1>1, <1>2, <1>3, <1>4 DEF TypeOK, Datagram, serverVars

LEMMA TypeReadClient ==
  ASSUME TypeOK, NEW p \in net, HandleReadClient(p)
  PROVE  TypeOK'
<1>1. p \in Datagram /\ IdOf(p) \in ProbeId /\ now \in Nat
  BY DEF TypeOK, Datagram
<1> DEFINE m == [client |-> p.client, burst |-> p.burst, nr |-> p.nr,
                 rtt |-> now - p.timestamp, at |-> now]
<1>2. m \in Rtt /\ IdOf(m) = IdOf(p)
  BY <1>1 DEF Datagram, Rtt, IdOf
<1>3. rtts' \subseteq Rtt /\ \A k \in rtts' : IdOf(k) \in ProbeId
  <2> HIDE DEF m
  <2>1. rtts' \subseteq rtts \union {m}
    BY DEF HandleReadClient, m
  <2> QED BY <1>1, <1>2, <2>1 DEF TypeOK, Rtt
<1>4. lost' \subseteq ProbeId
  BY <1>1 DEF HandleReadClient, TypeOK
<1>5. net' \subseteq net
  BY DEF HandleReadClient
<1> QED BY <1>3, <1>4, <1>5 DEF HandleReadClient, TypeOK, Rtt, clientVars, serverVars

LEMMA EchoType ==
  ASSUME NEW p \in Datagram
  PROVE  /\ Echo(p) \in Datagram /\ IdOf(Echo(p)) = IdOf(p)
         /\ Echo(p).client = p.client /\ Echo(p).burst = p.burst
         /\ Echo(p).timestamp = p.timestamp /\ Echo(p).nr = p.nr /\ Echo(p).to = "client"
BY DEF Datagram, Echo, IdOf

LEMMA TypeReadServer ==
  ASSUME TypeOK, NEW p \in net, HandleReadServer(p)
  PROVE  TypeOK'
<1>1. p \in Datagram /\ IdOf(p) \in ProbeId
  BY DEF TypeOK, Datagram
<1>2. Echo(p) \in Datagram /\ IdOf(Echo(p)) \in ProbeId
  BY <1>1, EchoType
<1>3. net' \subseteq net \union {Echo(p)} /\ lost' \subseteq lost \union {IdOf(p)}
  BY DEF HandleReadServer
<1>4. net' \subseteq Datagram /\ (\A q \in net' : IdOf(q) \in ProbeId) /\ lost' \subseteq ProbeId
  BY <1>1, <1>2, <1>3 DEF TypeOK, Datagram
<1> QED BY <1>4 DEF HandleReadServer, TypeOK, Datagram, clientVars, serverVars

LEMMA TypeLose ==
  ASSUME TypeOK, NEW p \in net, Lose(p)
  PROVE  TypeOK'
<1>1. IdOf(p) \in ProbeId
  BY DEF TypeOK
<1> QED BY <1>1 DEF Lose, TypeOK, clientVars, serverVars

LEMMA TypeNext == TypeOK /\ [Next]_vars => TypeOK'
<1> SUFFICES ASSUME TypeOK, [Next]_vars PROVE TypeOK'
  OBVIOUS
<1> USE ProbingAssumption DEF ProbingAssumption
<1>1. CASE Tick
  BY <1>1 DEF Tick, TypeOK, clientVars, serverVars
<1>2. CASE EndOfSimulation
  BY <1>2 DEF EndOfSimulation, TypeOK, clientVars, serverVars
<1>3. ASSUME NEW c \in Clients, StartApplication(c) PROVE TypeOK'
  BY <1>3 DEF StartApplication, ScheduleTransmit, TypeOK, serverVars
<1>4. ASSUME NEW c \in Clients, StopApplication(c) PROVE TypeOK'
  BY <1>4 DEF StopApplication, TypeOK, serverVars
<1>5. ASSUME NEW c \in Clients, Send(c) PROVE TypeOK'
  BY <1>5, TypeSend
<1>6. CASE ServerStart
  BY <1>6 DEF ServerStart, TypeOK, clientVars
<1>7. CASE ServerStop
  BY <1>7 DEF ServerStop, TypeOK, clientVars
<1>8. ASSUME NEW p \in net, HandleReadServer(p) PROVE TypeOK'
  BY <1>8, TypeReadServer
<1>9. ASSUME NEW p \in net, HandleReadClient(p) PROVE TypeOK'
  BY <1>9, TypeReadClient
<1>10. ASSUME NEW p \in net, Lose(p) PROVE TypeOK'
  BY <1>10, TypeLose
<1>11. CASE UNCHANGED vars
  BY <1>11 DEF TypeOK, vars, clientVars, serverVars
<1> QED
  BY <1>1, <1>2, <1>3, <1>4, <1>5, <1>6, <1>7, <1>8, <1>9, <1>10, <1>11 DEF Next

\* In every reachable state the fields of clients and server, the datagrams
\* under way and the trace are well typed (probing-client.h, probing-server.h).
THEOREM TypeCorrect == Spec => []TypeOK
<1> QED BY TypeInit, TypeNext, PTL DEF Spec

-----------------------------------------------------------------------------
(* The clients' schedule.                                                  *)

\* What NoDrift and SendHasSocket need to be inductive: a transmission is
\* pending exactly while the socket is open, nothing pending is overdue, and a
\* client whose start is pending has sent nothing and is not about to.
ScheduleInv ==
  \A c \in Clients :
     /\ sendAt[c] # Never <=> m_socket[c]
     /\ sendAt[c] # Never => sendAt[c] >= now
     /\ startAt[c] # Never => startAt[c] >= now /\ m_burst[c] = 0 /\ sendAt[c] = Never

ClientInv == ScheduleInv /\ NoDrift

LEMMA ClientInit == Init => ClientInv
<1> SUFFICES ASSUME Init, NEW c \in Clients
             PROVE  /\ sendAt[c] # Never <=> m_socket[c]
                    /\ sendAt[c] # Never => sendAt[c] >= now
                    /\ startAt[c] # Never =>
                         startAt[c] >= now /\ m_burst[c] = 0 /\ sendAt[c] = Never
                    /\ m_sent[c] = m_burst[c] * BurstSize[c]
                    /\ firstAt[c] = Never <=> m_burst[c] = 0
                    /\ ~(m_burst[c] > 0)
  BY DEF ClientInv, ScheduleInv, NoDrift
<1>1. /\ sendAt[c] = Never /\ m_socket[c] = FALSE /\ m_burst[c] = 0 /\ m_sent[c] = 0
      /\ firstAt[c] = Never /\ now = 0 /\ startAt[c] \in Nat
  BY ProbingAssumption DEF Init, ProbingAssumption
<1>2. BurstSize[c] \in Nat
  BY ProbingAssumption DEF ProbingAssumption
<1> QED BY <1>1, <1>2

\* One more burst: the counters and the grid move on together.
LEMMA ClientSend ==
  ASSUME TypeOK, ClientInv, NEW c \in Clients, Send(c)
  PROVE  ClientInv'
<1>1. /\ Interval[c] \in Nat \ {0} /\ BurstSize[c] \in Nat /\ now \in Nat
      /\ m_burst[c] \in Nat /\ m_sent[c] \in Nat /\ firstAt[c] \in Nat \union {Never}
  BY ProbingAssumption DEF ProbingAssumption, TypeOK
<1>2. sendAt[c] = now /\ now # Never
  BY <1>1 DEF Send, Never
<1>3. /\ sendAt'[c] = now + Interval[c] /\ m_burst'[c] = m_burst[c] + 1
      /\ m_sent'[c] = m_sent[c] + BurstSize[c]
      /\ firstAt'[c] = IF firstAt[c] = Never THEN now ELSE firstAt[c]
      /\ UNCHANGED <<now, startAt, m_socket>>
  BY DEF Send, ScheduleTransmit, TypeOK
<1>4. \A d \in Clients \ {c} :
        /\ sendAt'[d] = sendAt[d] /\ m_burst'[d] = m_burst[d]
        /\ m_sent'[d] = m_sent[d] /\ firstAt'[d] = firstAt[d]
  BY DEF Send, ScheduleTransmit, TypeOK
<1>5. /\ m_sent[c] = m_burst[c] * BurstSize[c]
      /\ firstAt[c] = Never <=> m_burst[c] = 0
      /\ m_burst[c] > 0 => now = firstAt[c] + m_burst[c] * Interval[c]
      /\ m_socket[c] /\ startAt[c] = Never
  BY <1>2 DEF ClientInv, ScheduleInv, NoDrift
<1>6. /\ m_sent'[c] = (m_burst[c] + 1) * BurstSize[c]
      /\ firstAt'[c] # Never /\ m_burst[c] + 1 # 0
      /\ now + Interval[c] = firstAt'[c] + (m_burst[c] + 1) * Interval[c]
  <2>1. (m_burst[c] + 1) * BurstSize[c] = m_burst[c] * BurstSize[c] + BurstSize[c]
    BY <1>1
  <2>2. (m_burst[c] + 1) * Interval[c] = m_burst[c] * Interval[c] + Interval[c]
    BY <1>1
  <2>3. m_burst[c] * Interval[c] \in Nat
    BY <1>1
  <2>4. CASE firstAt[c] = Never
    <3>1. m_burst[c] * Interval[c] = 0
      BY <1>1, <1>5, <2>4
    <3> QED BY <1>1, <1>2, <1>3, <1>5, <2>1, <2>2, <2>4, <3>1
  <2>5. CASE firstAt[c] # Never
    BY <1>1, <1>2, <1>3, <1>5, <2>1, <2>2, <2>3, <2>5
  <2> QED BY <2>4, <2>5
<1>7. sendAt'[c] # Never /\ sendAt'[c] >= now
  BY <1>1, <1>3 DEF Never
<1>8. ScheduleInv'
  BY <1>3, <1>4, <1>5, <1>7 DEF ClientInv, ScheduleInv
<1>9. NoDrift'
  BY <1>3, <1>4, <1>6 DEF ClientInv, NoDrift
<1> QED BY <1>8, <1>9 DEF ClientInv

LEMMA ClientNext == TypeOK /\ ClientInv /\ [Next]_vars => ClientInv'
<1> SUFFICES ASSUME TypeOK, ClientInv, [Next]_vars PROVE ClientInv'
  OBVIOUS
<1>1. CASE UNCHANGED <<now, clientVars>>
  BY <1>1 DEF ClientInv, ScheduleInv, NoDrift, clientVars
<1>2. CASE Tick
  <2>1. now' = now + 1 /\ NothingDue /\ UNCHANGED clientVars
    BY <1>2 DEF Tick
  <2>2. \A c \in Clients :
          /\ sendAt[c] # Never => sendAt[c] >= now'
          /\ startAt[c] # Never => startAt[c] >= now'
    BY <2>1 DEF NothingDue, ClientInv, ScheduleInv, TypeOK
  <2>3. ScheduleInv'
    BY <2>1, <2>2 DEF ClientInv, ScheduleInv, clientVars
  <2>4. NoDrift'
    BY <2>1 DEF ClientInv, NoDrift, clientVars
  <2> QED BY <2>3, <2>4 DEF ClientInv
<1>3. ASSUME NEW c \in Clients, StartApplication(c) PROVE ClientInv'
  <2>1. /\ startAt' = [startAt EXCEPT ![c] = Never] /\ sendAt' = [sendAt EXCEPT ![c] = now + 0]
        /\ m_socket' = [m_socket EXCEPT ![c] = TRUE]
        /\ UNCHANGED <<now, m_burst, m_sent, firstAt>>
    BY <1>3 DEF StartApplication, ScheduleTransmit
  <2>2. now \in Nat /\ startAt[c] = now /\ startAt[c] # Never
    BY <1>3 DEF StartApplication, TypeOK, Never
  <2>3. m_burst[c] = 0
    BY <2>2 DEF ClientInv, ScheduleInv
  <2> QED BY <2>1, <2>2, <2>3 DEF ClientInv, ScheduleInv, NoDrift, TypeOK
<1>4. ASSUME NEW c \in Clients, StopApplication(c) PROVE ClientInv'
  <2>1. /\ sendAt' = [sendAt EXCEPT ![c] = Never]
        /\ m_socket' = [m_socket EXCEPT ![c] = FALSE]
        /\ UNCHANGED <<now, startAt, m_burst, m_sent, firstAt>>
    BY <1>4 DEF StopApplication
  <2> QED BY <2>1 DEF ClientInv, ScheduleInv, NoDrift, TypeOK
<1>5. ASSUME NEW c \in Clients, Send(c) PROVE ClientInv'
  BY <1>5, ClientSend
<1> QED
  BY <1>1, <1>2, <1>3, <1>4, <1>5
  DEF Next, EndOfSimulation, ServerStart, ServerStop, HandleReadServer, HandleReadClient,
      Lose, vars

\* The bursts of a client stay on their grid and Send never runs on a null
\* socket (probing-client.cc:197-231).
THEOREM ClientCorrect == Spec => []ClientInv
<1> QED BY TypeCorrect, ClientInit, ClientNext, PTL DEF Spec

\* Send dereferences m_socket while the client has one (probing-client.cc:226),
\* and burst b is sent exactly b intervals after the first (probing-client.cc:191-195).
THEOREM ScheduleCorrect == Spec => []OnSchedule
<1>1. ClientInv => SendHasSocket
  BY DEF ClientInv, ScheduleInv, SendHasSocket
<1>2. ClientInv => OnSchedule
  BY <1>1 DEF ClientInv, OnSchedule
<1> QED BY <1>2, ClientCorrect, PTL

-----------------------------------------------------------------------------
(* The trace.                                                              *)

\* What TrueRtt needs to be inductive: a datagram under way belongs to a burst
\* that was sent, and still carries the time of that burst.
PayloadInv ==
  \A p \in net :
     /\ p.burst < m_burst[p.client] /\ p.timestamp <= now
     /\ p.timestamp = firstAt[p.client] + p.burst * Interval[p.client]

TraceInv == PayloadInv /\ TrueRtt

LEMMA TraceInit == Init => TraceInv
BY DEF Init, TraceInv, PayloadInv, TrueRtt

\* The burst a client sends is the next one on its grid, and the bursts sent
\* before it stay where they are.
LEMMA SendOnGrid ==
  ASSUME TypeOK, ClientInv, NEW c \in Clients, Send(c)
  PROVE  /\ now = firstAt'[c] + m_burst[c] * Interval[c]
         /\ \A d \in Clients : /\ m_burst[d] \in Nat /\ m_burst[d] <= m_burst'[d]
                               /\ m_burst[d] # 0 => firstAt'[d] = firstAt[d]
         /\ m_burst'[c] = m_burst[c] + 1
<1>1. /\ Interval[c] \in Nat \ {0} /\ now \in Nat
      /\ \A d \in Clients : m_burst[d] \in Nat /\ firstAt[d] \in Nat \union {Never}
  BY ProbingAssumption DEF ProbingAssumption, TypeOK
<1>2. sendAt[c] = now /\ now # Never
  BY <1>1 DEF Send, Never
<1>3. /\ m_burst'[c] = m_burst[c] + 1
      /\ firstAt'[c] = IF firstAt[c] = Never THEN now ELSE firstAt[c]
      /\ \A d \in Clients \ {c} : m_burst'[d] = m_burst[d] /\ firstAt'[d] = firstAt[d]
  BY DEF Send, TypeOK
<1>4. /\ \A d \in Clients : firstAt[d] = Never <=> m_burst[d] = 0
      /\ m_burst[c] > 0 => now = firstAt[c] + m_burst[c] * Interval[c]
  BY <1>2 DEF ClientInv, NoDrift
<1>5. now = firstAt'[c] + m_burst[c] * Interval[c]
  <2>1. CASE m_burst[c] = 0
    <3>1. m_burst[c] * Interval[c] = 0
      BY <1>1, <2>1
    <3> QED BY <1>1, <1>3, <1>4, <2>1, <3>1
  <2>2. CASE m_burst[c] # 0
    BY <1>1, <1>3, <1>4, <2>2
  <2> QED BY <2>1, <2>2
<1> QED BY <1>1, <1>3, <1>4, <1>5

LEMMA TraceSend ==
  ASSUME TypeOK, ClientInv, TraceInv, NEW c \in Clients, Send(c)
  PROVE  TraceInv'
<1>1. UNCHANGED <<now, rtts>> /\ net' = net \union Burst(c, now) /\ now \in Nat
  BY DEF Send, TypeOK
<1>2. ASSUME NEW p \in net
      PROVE  /\ p.burst < m_burst'[p.client] /\ p.timestamp <= now
             /\ p.timestamp = firstAt'[p.client] + p.burst * Interval[p.client]
  <2>1. p.client \in Clients /\ p.burst \in Nat
    BY DEF TypeOK
  <2>2. /\ p.burst < m_burst[p.client] /\ p.timestamp <= now
        /\ p.timestamp = firstAt[p.client] + p.burst * Interval[p.client]
    BY DEF TraceInv, PayloadInv
  <2>3. /\ m_burst[p.client] \in Nat /\ m_burst'[p.client] \in Nat
        /\ m_burst[p.client] <= m_burst'[p.client] /\ m_burst[p.client] # 0
    BY <2>1, <2>2, SendOnGrid, TypeNext DEF Next, TypeOK
  <2>4. firstAt'[p.client] = firstAt[p.client]
    BY <2>1, <2>3, SendOnGrid
  <2> QED BY <2>1, <2>2, <2>3, <2>4
<1>3. ASSUME NEW p \in Burst(c, now)
      PROVE  /\ p.burst < m_burst'[p.client] /\ p.timestamp <= now
             /\ p.timestamp = firstAt'[p.client] + p.burst * Interval[p.client]
  <2>1. p.client = c /\ p.burst = m_burst[c] /\ p.timestamp = now
    BY DEF Burst
  <2> QED BY <1>1, <2>1, SendOnGrid
<1>4. PayloadInv'
  BY <1>1, <1>2, <1>3 DEF PayloadInv
<1>5. ASSUME NEW k \in rtts
      PROVE  /\ k.burst < m_burst'[k.client]
             /\ k.at - k.rtt = firstAt'[k.client] + k.burst * Interval[k.client]
  <2>1. k.client \in Clients /\ k.burst \in Nat
    BY DEF TypeOK
  <2>2. /\ k.burst < m_burst[k.client]
        /\ k.at - k.rtt = firstAt[k.client] + k.burst * Interval[k.client]
    BY DEF TraceInv, TrueRtt
  <2>3. /\ m_burst[k.client] \in Nat /\ m_burst'[k.client] \in Nat
        /\ m_burst[k.client] <= m_burst'[k.client] /\ m_burst[k.client] # 0
    BY <2>1, <2>2, SendOnGrid, TypeNext DEF Next, TypeOK
  <2>4. firstAt'[k.client] = firstAt[k.client]
    BY <2>1, <2>3, SendOnGrid
  <2> QED BY <2>1, <2>2, <2>3, <2>4
<1>6. TrueRtt'
  BY <1>1, <1>5 DEF TraceInv, TrueRtt
<1> QED BY <1>4, <1>6 DEF TraceInv

\* The echo carries what the probe carried (probing-server.cc:94-106).
LEMMA TraceReadServer ==
  ASSUME TypeOK, TraceInv, NEW p \in net, HandleReadServer(p)
  PROVE  TraceInv'
<1>1. p \in Datagram
  BY DEF TypeOK, Datagram
<1>2. /\ net' \subseteq net \union {Echo(p)}
      /\ UNCHANGED <<now, m_burst, firstAt, rtts>>
  BY DEF HandleReadServer, clientVars
<1>3. ASSUME NEW q \in net'
      PROVE  /\ q.burst < m_burst[q.client] /\ q.timestamp <= now
             /\ q.timestamp = firstAt[q.client] + q.burst * Interval[q.client]
  <2>1. CASE q \in net
    BY <2>1 DEF TraceInv, PayloadInv
  <2>2. CASE q = Echo(p)
    <3>1. Echo(p).client = p.client /\ Echo(p).burst = p.burst /\ Echo(p).timestamp = p.timestamp
      BY <1>1, EchoType
    <3> QED BY <2>2, <3>1 DEF TraceInv, PayloadInv
  <2> QED BY <1>2, <2>1, <2>2
<1>4. PayloadInv'
  BY <1>2, <1>3 DEF PayloadInv
<1>5. TrueRtt'
  BY <1>2 DEF TraceInv, TrueRtt
<1> QED BY <1>4, <1>5 DEF TraceInv

\* The client subtracts the time in the payload from the time of arrival
\* (probing-client.cc:243-264).
LEMMA TraceReadClient ==
  ASSUME TypeOK, TraceInv, NEW p \in net, HandleReadClient(p)
  PROVE  TraceInv'
<1>1. now \in Nat /\ p.timestamp \in Nat
  BY DEF TypeOK
<1> DEFINE m == [client |-> p.client, burst |-> p.burst, nr |-> p.nr,
                 rtt |-> now - p.timestamp, at |-> now]
<1>2. /\ net' \subseteq net /\ rtts' \subseteq rtts \union {m}
      /\ UNCHANGED <<now, m_burst, firstAt>>
  BY DEF HandleReadClient, clientVars
<1>3. /\ m.burst < m_burst[m.client] /\ m.rtt >= 0 /\ m.at <= now
      /\ m.at - m.rtt = firstAt[m.client] + m.burst * Interval[m.client]
  <2>1. /\ p.burst < m_burst[p.client] /\ p.timestamp <= now
        /\ p.timestamp = firstAt[p.client] + p.burst * Interval[p.client]
    BY DEF TraceInv, PayloadInv
  <2>2. /\ m.client = p.client /\ m.burst = p.burst /\ m.at = now /\ m.rtt = now - p.timestamp
    OBVIOUS
  <2>3. m.rtt >= 0 /\ m.at <= now /\ m.at - m.rtt = p.timestamp
    BY <1>1, <2>1, <2>2
  <2> QED BY <2>1, <2>2, <2>3
<1>4. PayloadInv'
  BY <1>2 DEF TraceInv, PayloadInv
<1>5. TrueRtt'
  <2> HIDE DEF m
  <2> QED BY <1>2, <1>3 DEF TraceInv, TrueRtt
<1> QED BY <1>4, <1>5 DEF TraceInv

LEMMA TraceNext == TypeOK /\ ClientInv /\ TraceInv /\ [Next]_vars => TraceInv'
<1> SUFFICES ASSUME TypeOK, ClientInv, TraceInv, [Next]_vars PROVE TraceInv'
  OBVIOUS
<1>1. ASSUME net' \subseteq net, UNCHANGED <<now, m_burst, firstAt, rtts>> PROVE TraceInv'
  BY <1>1 DEF TraceInv, PayloadInv, TrueRtt
<1>2. CASE Tick
  <2>1. /\ now \in Nat /\ now' = now + 1 /\ UNCHANGED <<m_burst, firstAt, net, rtts>>
    BY <1>2 DEF Tick, clientVars, TypeOK
  <2>2. (\A p \in net : p.timestamp \in Nat) /\ \A k \in rtts : k.at \in Nat
    BY DEF TypeOK
  <2>3. (\A p \in net : p.timestamp <= now') /\ \A k \in rtts : k.at <= now'
    BY <2>1, <2>2 DEF TraceInv, PayloadInv, TrueRtt
  <2> QED BY <2>1, <2>3 DEF TraceInv, PayloadInv, TrueRtt
<1>3. ASSUME NEW c \in Clients, Send(c) PROVE TraceInv'
  BY <1>3, TraceSend
<1>4. ASSUME NEW p \in net, HandleReadServer(p) PROVE TraceInv'
  BY <1>4, TraceReadServer
<1>5. ASSUME NEW p \in net, HandleReadClient(p) PROVE TraceInv'
  BY <1>5, TraceReadClient
<1>6. ASSUME NEW c \in Clients, StartApplication(c) \/ StopApplication(c) PROVE TraceInv'
  BY <1>1, <1>6 DEF StartApplication, StopApplication
<1>7. CASE EndOfSimulation \/ ServerStart \/ ServerStop \/ UNCHANGED vars
  BY <1>1, <1>7 DEF EndOfSimulation, ServerStart, ServerStop, vars, clientVars
<1>8. ASSUME NEW p \in net, Lose(p) PROVE TraceInv'
  BY <1>1, <1>8 DEF Lose, clientVars
<1> QED
  BY <1>2, <1>3, <1>4, <1>5, <1>6, <1>7, <1>8 DEF Next

\* An RTT in the trace is measured from the instant its burst was sent to the
\* instant it came back (probing-client.cc:212-264, probing-server.cc:94-106).
THEOREM RttCorrect == Spec => []TrueRtt
<1>1. Spec => []TraceInv
  BY TypeCorrect, ClientCorrect, TraceInit, TraceNext, PTL DEF Spec
<1>2. TraceInv => TrueRtt
  BY DEF TraceInv
<1> QED BY <1>1, <1>2, PTL

\* A client reports an RTT only while its next burst is scheduled, one at a
\* time, and what is in the trace stays there (probing-client.cc:170-189, 243-264).
THEOREM MeasurementCorrect == Spec => MeasuredWhileRunning
<1>1. ASSUME TypeOK, ClientInv, [Next]_vars, rtts' # rtts
      PROVE  /\ ~over /\ rtts \subseteq rtts'
             /\ \E m \in rtts' : rtts' = rtts \union {m} /\ sendAt[m.client] # Never
  <2>1. PICK p \in net : HandleReadClient(p)
    BY <1>1 DEF Next, vars, Tick, EndOfSimulation, StartApplication, StopApplication, Send,
                ServerStart, ServerStop, HandleReadServer, Lose
  <2>2. p.client \in Clients
    BY <1>1 DEF TypeOK
  <2> DEFINE m == [client |-> p.client, burst |-> p.burst, nr |-> p.nr,
                   rtt |-> now - p.timestamp, at |-> now]
  <2>3. ~over /\ m_socket[p.client] /\ rtts' = rtts \union {m}
    BY <1>1, <2>1 DEF HandleReadClient, Running
  <2>4. sendAt[m.client] # Never
    BY <1>1, <2>2, <2>3 DEF ClientInv, ScheduleInv
  <2> QED BY <2>3, <2>4
<1> QED BY <1>1, TypeCorrect, ClientCorrect, PTL DEF Spec, MeasuredWhileRunning

-----------------------------------------------------------------------------
(* Where the probes are.                                                   *)

Way == {IdOf(p) : p \in net}
Traced == {IdOf(m) : m \in rtts}

\* AccountedOnce, said of the sets of probes: the three places are disjoint, and
\* together they hold exactly the probes of the bursts that were sent.
PlacesInv ==
  /\ \A p, q \in net : IdOf(p) = IdOf(q) => p = q
  /\ \A m, k \in rtts : IdOf(m) = IdOf(k) => m = k
  /\ Way \cap Traced = {} /\ Way \cap lost = {} /\ Traced \cap lost = {}
  /\ \A id \in ProbeId : id.burst < m_burst[id.client] <=> id \in Way \union Traced \union lost

LEMMA PlacesInit == Init => PlacesInv
<1> SUFFICES ASSUME Init PROVE PlacesInv
  OBVIOUS
<1>1. net = {} /\ rtts = {} /\ lost = {} /\ \A c \in Clients : m_burst[c] = 0
  BY DEF Init
<1>2. Way = {} /\ Traced = {}
  BY <1>1 DEF Way, Traced
<1>3. \A id \in ProbeId : ~(id.burst < m_burst[id.client])
  BY <1>1 DEF ProbeId
<1> QED BY <1>1, <1>2, <1>3 DEF PlacesInv

LEMMA PlacesImplyAccounted == TypeOK /\ PlacesInv => AccountedOnce
<1> SUFFICES ASSUME TypeOK, PlacesInv PROVE AccountedOnce
  OBVIOUS
<1>1. Way \subseteq ProbeId /\ lost \subseteq ProbeId
  BY DEF TypeOK, Way
<1>2. \A id \in lost : id.burst < m_burst[id.client]
  BY <1>1 DEF PlacesInv
<1>3. ASSUME NEW p \in net PROVE p.burst < m_burst[p.client]
  <2>1. IdOf(p) \in Way
    BY DEF Way
  <2>2. IdOf(p).burst < m_burst[IdOf(p).client]
    BY <1>1, <2>1 DEF PlacesInv
  <2> QED BY <2>2 DEF IdOf
<1>4. ASSUME NEW c \in Clients, NEW b \in 0 .. m_burst[c] - 1, NEW i \in 0 .. BurstSize[c] - 1,
             NEW id, id = [client |-> c, burst |-> b, nr |-> i]
      PROVE  \/ id \in Way /\ id \notin Traced /\ id \notin lost
             \/ id \notin Way /\ id \in Traced /\ id \notin lost
             \/ id \notin Way /\ id \notin Traced /\ id \in lost
  <2>1. m_burst[c] \in Nat /\ BurstSize[c] \in Nat
    BY ProbingAssumption DEF ProbingAssumption, TypeOK
  <2>2. id \in ProbeId /\ id.burst < m_burst[id.client]
    BY <1>4, <2>1 DEF ProbeId
  <2> QED BY <2>2 DEF PlacesInv
<1>5. \A id : /\ id \in Way <=> \E p \in net : IdOf(p) = id
              /\ id \in Traced <=> \E m \in rtts : IdOf(m) = id
  BY DEF Way, Traced
<1> QED BY <1>2, <1>3, <1>4, <1>5 DEF AccountedOnce, PlacesInv

\* The probes of a burst are exactly those with its number.
LEMMA BurstIds ==
  ASSUME TypeOK, NEW c \in Clients
  PROVE  /\ \A p, q \in Burst(c, now) : IdOf(p) = IdOf(q) => p = q
         /\ \A p \in Burst(c, now) :
              IdOf(p) \in ProbeId /\ IdOf(p).client = c /\ IdOf(p).burst = m_burst[c]
         /\ \A id \in ProbeId :
              id.client = c /\ id.burst = m_burst[c] => \E p \in Burst(c, now) : IdOf(p) = id
<1>1. BurstSize[c] \in Nat /\ m_burst[c] \in Nat
  BY ProbingAssumption DEF ProbingAssumption, TypeOK
<1>2. \A p, q \in Burst(c, now) : IdOf(p) = IdOf(q) => p = q
  BY DEF Burst, IdOf
<1>3. \A p \in Burst(c, now) :
        IdOf(p) \in ProbeId /\ IdOf(p).client = c /\ IdOf(p).burst = m_burst[c]
  BY <1>1 DEF Burst, IdOf, ProbeId
<1>4. ASSUME NEW id \in ProbeId, id.client = c, id.burst = m_burst[c]
      PROVE  \E p \in Burst(c, now) : IdOf(p) = id
  <2>1. id.nr \in 0 .. BurstSize[c] - 1 /\ id = [client |-> c, burst |-> m_burst[c], nr |-> id.nr]
    BY <1>1, <1>4 DEF ProbeId
  <2> DEFINE p == [client |-> c, burst |-> m_burst[c], nr |-> id.nr,
                   timestamp |-> now, to |-> "server"]
  <2>2. p \in Burst(c, now)
    BY <2>1 DEF Burst
  <2>3. IdOf(p) = id
    BY <2>1 DEF IdOf
  <2> HIDE DEF p
  <2> QED BY <2>2, <2>3
<1> QED BY <1>2, <1>3, <1>4

LEMMA PlacesSend ==
  ASSUME TypeOK, ClientInv, PlacesInv, NEW c \in Clients, Send(c)
  PROVE  PlacesInv'
<1>1. net' = net \union Burst(c, now) /\ UNCHANGED <<lost, rtts>>
  BY DEF Send
<1>2. /\ m_burst'[c] = m_burst[c] + 1 /\ m_burst[c] \in Nat
      /\ \A d \in Clients \ {c} : m_burst'[d] = m_burst[d]
  BY DEF Send, TypeOK
<1>3. \A id : id \in Way' <=> id \in Way \/ \E p \in Burst(c, now) : IdOf(p) = id
  BY <1>1 DEF Way
<1>4. Way \subseteq ProbeId /\ Traced \subseteq ProbeId /\ lost \subseteq ProbeId
  BY DEF TypeOK, Way, Traced
<1>5. \A id \in Way \union Traced \union lost : ~(id.client = c /\ id.burst = m_burst[c])
  <2> SUFFICES ASSUME NEW id \in Way \union Traced \union lost, id.client = c,
                      id.burst = m_burst[c]
               PROVE  FALSE
    OBVIOUS
  <2>1. id.burst < m_burst[id.client]
    BY <1>4 DEF PlacesInv
  <2> QED BY <1>2, <2>1
<1>6. \A p, q \in net' : IdOf(p) = IdOf(q) => p = q
  <2> SUFFICES ASSUME NEW p \in net', NEW q \in net', IdOf(p) = IdOf(q) PROVE p = q
    OBVIOUS
  <2>1. CASE p \in net /\ q \in net
    BY <2>1 DEF PlacesInv
  <2>2. CASE p \in Burst(c, now) /\ q \in Burst(c, now)
    BY <2>2, BurstIds
  <2>3. CASE p \in net /\ q \in Burst(c, now)
    BY <1>5, <2>3, BurstIds DEF Way
  <2>4. CASE p \in Burst(c, now) /\ q \in net
    BY <1>5, <2>4, BurstIds DEF Way
  <2> QED BY <1>1, <2>1, <2>2, <2>3, <2>4
<1>7. Traced' = Traced
  BY <1>1 DEF Traced
<1>8. Way' \cap Traced = {} /\ Way' \cap lost = {}
  BY <1>3, <1>5, BurstIds DEF PlacesInv
<1>9. ASSUME NEW id \in ProbeId
      PROVE  id.burst < m_burst'[id.client] <=> id \in Way' \union Traced \union lost
  <2>1. id.client \in Clients /\ id.burst \in Nat
    BY DEF ProbeId
  <2>2. id.burst < m_burst[id.client] <=> id \in Way \union Traced \union lost
    BY DEF PlacesInv
  <2>3. CASE id.client = c /\ id.burst = m_burst[c]
    BY <1>2, <1>3, <2>1, <2>3, BurstIds
  <2>4. CASE ~(id.client = c /\ id.burst = m_burst[c])
    <3>1. id \in Way' <=> id \in Way
      BY <1>3, <2>4, BurstIds
    <3>2. id.burst < m_burst'[id.client] <=> id.burst < m_burst[id.client]
      <4>1. m_burst[id.client] \in Nat
        BY <2>1 DEF TypeOK
      <4> QED BY <1>2, <2>1, <2>4, <4>1
    <3> QED BY <2>2, <3>1, <3>2
  <2> QED BY <2>3, <2>4
<1>10. \A id \in ProbeId : (id.burst < m_burst[id.client] <=> id \in Way \union Traced \union lost)'
  BY <1>1, <1>7, <1>9
<1> QED BY <1>1, <1>6, <1>7, <1>8, <1>10 DEF PlacesInv

\* Answering a probe leaves it under way.
LEMMA PlacesReadServer ==
  ASSUME TypeOK, PlacesInv, NEW p \in net, HandleReadServer(p), serverSocket = "open"
  PROVE  PlacesInv'
<1>1. /\ net' = (net \ {p}) \union {Echo(p)}
      /\ UNCHANGED <<lost, rtts, m_burst>>
  BY DEF HandleReadServer, clientVars
<1>2. IdOf(Echo(p)) = IdOf(p)
  BY EchoType DEF TypeOK, Datagram
<1>3. Way' = Way /\ Traced' = Traced
  BY <1>1, <1>2 DEF Way, Traced
<1>4. \A q, r \in net' : IdOf(q) = IdOf(r) => q = r
  BY <1>1, <1>2 DEF PlacesInv
<1> QED BY <1>1, <1>3, <1>4 DEF PlacesInv

\* A datagram that leaves the network goes to the trace or is lost.
LEMMA PlacesLeave ==
  ASSUME TypeOK, PlacesInv, NEW p \in net, net' = net \ {p}, UNCHANGED m_burst,
         \/ lost' = lost \union {IdOf(p)} /\ UNCHANGED rtts
         \/ /\ UNCHANGED lost
            /\ \E m : IdOf(m) = IdOf(p) /\ rtts' = rtts \union {m}
  PROVE  PlacesInv'
<1>1. IdOf(p) \in Way /\ IdOf(p) \notin Traced /\ IdOf(p) \notin lost
  BY DEF PlacesInv, Way
<1>2. Way' = Way \ {IdOf(p)}
  BY DEF PlacesInv, Way
<1>3. \A q, r \in net' : IdOf(q) = IdOf(r) => q = r
  BY DEF PlacesInv
<1>4. CASE lost' = lost \union {IdOf(p)} /\ UNCHANGED rtts
  <2>1. Traced' = Traced
    BY <1>4 DEF Traced
  <2> QED BY <1>1, <1>2, <1>3, <1>4, <2>1 DEF PlacesInv
<1>5. ASSUME UNCHANGED lost, NEW m, IdOf(m) = IdOf(p), rtts' = rtts \union {m}
      PROVE  PlacesInv'
  <2>1. Traced' = Traced \union {IdOf(p)}
    BY <1>5 DEF Traced
  <2>2. \A k, l \in rtts' : IdOf(k) = IdOf(l) => k = l
    BY <1>1, <1>5 DEF PlacesInv, Traced
  <2> QED BY <1>1, <1>2, <1>3, <1>5, <2>1, <2>2 DEF PlacesInv
<1> QED BY <1>4, <1>5

LEMMA PlacesNext == TypeOK /\ ClientInv /\ PlacesInv /\ [Next]_vars => PlacesInv'
<1> SUFFICES ASSUME TypeOK, ClientInv, PlacesInv, [Next]_vars PROVE PlacesInv'
  OBVIOUS
<1>1. CASE UNCHANGED <<net, lost, rtts, m_burst>>
  BY <1>1 DEF PlacesInv, Way, Traced
<1>2. ASSUME NEW c \in Clients, Send(c) PROVE PlacesInv'
  BY <1>2, PlacesSend
<1>3. ASSUME NEW p \in net, HandleReadServer(p) PROVE PlacesInv'
  <2>1. CASE serverSocket = "open"
    BY <1>3, <2>1, PlacesReadServer
  <2>2. CASE serverSocket # "open"
    BY <1>3, <2>2, PlacesLeave DEF HandleReadServer, clientVars
  <2> QED BY <2>1, <2>2
<1>4. ASSUME NEW p \in net, HandleReadClient(p) PROVE PlacesInv'
  <2> DEFINE m == [client |-> p.client, burst |-> p.burst, nr |-> p.nr,
                   rtt |-> now - p.timestamp, at |-> now]
  <2>1. IdOf(m) = IdOf(p)
    BY DEF IdOf
  <2>2. /\ net' = net \ {p} /\ UNCHANGED m_burst
        /\ \/ lost' = lost \union {IdOf(p)} /\ UNCHANGED rtts
           \/ UNCHANGED lost /\ rtts' = rtts \union {m}
    BY <1>4 DEF HandleReadClient, clientVars
  <2> HIDE DEF m
  <2> QED BY <2>1, <2>2, PlacesLeave
<1>5. ASSUME NEW p \in net, Lose(p) PROVE PlacesInv'
  BY <1>5, PlacesLeave DEF Lose, clientVars
<1> QED
  BY <1>1, <1>2, <1>3, <1>4, <1>5
  DEF Next, Tick, EndOfSimulation, StartApplication, StopApplication, ServerStart, ServerStop,
      vars, clientVars

\* No probe is counted twice and none disappears without being lost
\* (probing-client.cc:197-264, probing-server.cc:94-106).
THEOREM AccountCorrect == Spec => []AccountedOnce
<1>1. Spec => []PlacesInv
  BY TypeCorrect, ClientCorrect, PlacesInit, PlacesNext, PTL DEF Spec
<1> QED BY <1>1, TypeCorrect, PlacesImplyAccounted, PTL
=============================================================================
