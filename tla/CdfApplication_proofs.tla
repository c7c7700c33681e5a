----------------------- MODULE CdfApplication_proofs -----------------------
(* Proofs about CdfApplication, for every value of its constants.          *)
EXTENDS CdfApplication, TLAPS

USE DEF MeanOf, NextId

-----------------------------------------------------------------------------
(* Type correctness.                                                       *)

MessageRecord == [id : 0 .. IdSpace - 1, at : Nat, taken : BOOLEAN]

\* ScheduleNextTx keeps the type of what it assigns (cdf-application.cc:206).
LEMMA ScheduleTypes ==
  ASSUME TypeOK, NEW q, q \subseteq Event, NEW t \in Nat, ScheduleNextTx(q, t)
  PROVE  queue' \subseteq Event /\ m_sendEvent' \in Nat /\ nextUid' \in Nat
<1>1. PICK wait \in (IF m_timeMean.average = 0 THEN {0} ELSE Waits) :
        /\ queue' = q \union {[uid |-> nextUid, at |-> t + wait, kind |-> "send"]}
        /\ m_sendEvent' = nextUid
        /\ nextUid' = nextUid + 1
  BY DEF ScheduleNextTx
<1>2. wait \in Nat
  BY ConfigurationAssumption DEF ConfigurationAssumption
<1>3. [uid |-> nextUid, at |-> t + wait, kind |-> "send"] \in Event
  BY <1>2 DEF TypeOK, Event
<1>4. nextUid + 1 \in Nat
  BY DEF TypeOK
<1> QED BY <1>1, <1>3, <1>4 DEF TypeOK

LEMMA TypeInit == Init => TypeOK
<1> SUFFICES ASSUME Init PROVE TypeOK
  OBVIOUS
<1>1. PICK start \in StartTimes, stop \in StopTimes : queue = InitialEvents(start, stop)
  BY DEF Init
<1>2. queue \subseteq Event
  BY <1>1, ConfigurationAssumption DEF InitialEvents, Event, ConfigurationAssumption
<1>3. /\ now \in Nat /\ nextUid \in Nat /\ buffered \in Nat /\ m_sendEvent \in Nat
      /\ m_counter \in 0 .. IdSpace - 1 /\ m_lastStartTime \in Nat /\ m_average_size \in Nat
  BY ConfigurationAssumption DEF Init, ConfigurationAssumption
<1>4. m_timeMean \in [rate : Rates, average : Nat]
  BY DEF Init
<1>5. tx \in Seq([id : 0 .. IdSpace - 1, at : Nat, taken : BOOLEAN])
  BY DEF Init
<1>6. /\ sim = "running" /\ conn = "none" /\ closing = FALSE /\ m_sizeDist = {}
      /\ m_filename = NoFile /\ life = "idle" /\ loadOk = FALSE
      /\ m_socket = FALSE /\ m_connected = FALSE /\ m_tid \in {"tcp", "udp"} /\ m_rate \in Rates
  BY DEF Init
<1> QED BY <1>2, <1>3, <1>4, <1>5, <1>6 DEF TypeOK

LEMMA TypeNext == TypeOK /\ [Next]_vars => TypeOK'
<1> SUFFICES ASSUME TypeOK, [Next]_vars PROVE TypeOK'
  OBVIOUS
<1> USE ConfigurationAssumption DEF ConfigurationAssumption
<1>1. ASSUME NEW rate \in Rates, SetRate(rate) PROVE TypeOK'
  BY <1>1 DEF TypeOK, SetRate, UpdateRateDistribution, simVars, sockVars, sendVars
<1>2. ASSUME NEW file \in Files, SetDistribution(file) PROVE TypeOK'
  <2>1. /\ m_filename' \in Files \union {NoFile} /\ m_average_size' \in Nat
        /\ m_sizeDist' \subseteq Nat /\ loadOk' \in BOOLEAN
        /\ m_timeMean' \in [rate : Rates, average : Nat]
    <3>1. CASE file \in Readable
      <4>1. AverageOf[file] \in Nat /\ SizesOf[file] \subseteq Nat
        BY <3>1
      <4>2. /\ m_average_size' = AverageOf[file] /\ m_sizeDist' = SizesOf[file]
            /\ m_timeMean' = MeanOf(m_rate, AverageOf[file])
            /\ m_filename' = file /\ loadOk' = TRUE
        BY <1>2, <3>1 DEF SetDistribution, Loaded, UpdateRateDistribution, Readable
      <4> QED BY <4>1, <4>2 DEF TypeOK
    <3>2. CASE file \notin Readable
      <4>1. /\ m_average_size' = m_average_size \/ m_average_size' = 0
            /\ m_sizeDist' = {}
            /\ m_timeMean' = m_timeMean /\ m_filename' = file /\ loadOk' = FALSE
        BY <1>2, <3>2 DEF SetDistribution, LoadFailed
      <4>2. m_average_size' \in Nat
        BY <4>1 DEF TypeOK
      <4> QED BY <4>1, <4>2 DEF TypeOK
    <3> QED BY <3>1, <3>2
  <2>2. UNCHANGED <<simVars, sockVars, sendVars, m_socket, m_connected, m_sendEvent, life,
                    m_tid, m_rate>>
    BY <1>2 DEF SetDistribution
  <2> QED BY <2>1, <2>2 DEF TypeOK, simVars, sockVars, sendVars
<1>3. ASSUME NEW e \in queue, StartApplication(e) PROVE TypeOK'
  <2>1. e \in Event /\ queue \ {e} \subseteq Event /\ e.at \in Nat
    BY DEF TypeOK, Event
  <2>2. CASE Abort(queue \ {e}, e.at)
    BY <2>1, <2>2 DEF TypeOK, Abort, sockVars, configVars, sendVars
  <2>3. CASE ~Abort(queue \ {e}, e.at)
    <3>1. ScheduleNextTx(Cancelled(queue \ {e}, m_sendEvent), e.at)
      BY <1>3, <2>3 DEF StartApplication
    <3>2. queue' \subseteq Event /\ m_sendEvent' \in Nat /\ nextUid' \in Nat
      BY <3>1, <2>1, ScheduleTypes DEF Cancelled
    <3> QED BY <1>3, <2>1, <2>3, <3>2
        DEF TypeOK, StartApplication, Connect, sockVars, configVars, sendVars
  <2> QED BY <2>2, <2>3
<1>4. ASSUME NEW e \in queue, StopApplication(e) PROVE TypeOK'
  BY <1>4 DEF TypeOK, StopApplication, Close, Cancelled, Event, configVars, sendVars
<1>5. ASSUME NEW e \in queue, SendPacket(e) PROVE TypeOK'
  <2>1. e \in Event /\ queue \ {e} \subseteq Event /\ e.at \in Nat
    BY DEF TypeOK, Event
  <2>2. CASE Abort(queue \ {e}, e.at)
    BY <2>1, <2>2 DEF TypeOK, Abort, sockVars, configVars, sendVars
  <2>3. CASE ~Abort(queue \ {e}, e.at)
    <3>1. PICK size \in m_sizeDist :
            /\ tx' = Append(tx, [id |-> m_counter, at |-> e.at, taken |-> SocketAccepts(size)])
            /\ buffered' = IF SocketAccepts(size) /\ m_tid = "tcp"
                           THEN buffered + size ELSE buffered
      BY <1>5, <2>3 DEF SendPacket
    <3>2. SocketAccepts(size) \in BOOLEAN
      BY DEF SocketAccepts
    <3>3. [id |-> m_counter, at |-> e.at, taken |-> SocketAccepts(size)] \in MessageRecord
      BY <2>1, <3>2 DEF TypeOK, MessageRecord
    <3>4. tx' \in Seq(MessageRecord)
      BY <3>1, <3>3 DEF TypeOK, MessageRecord
    <3>5. buffered' \in Nat
      BY <3>1 DEF TypeOK
    <3>6. queue' \subseteq Event /\ m_sendEvent' \in Nat /\ nextUid' \in Nat
      BY <1>5, <2>1, <2>3, ScheduleTypes DEF SendPacket
    <3>7. m_counter' \in 0 .. IdSpace - 1
      BY <1>5, <2>3 DEF SendPacket, TypeOK
    <3>8. /\ now' = e.at /\ m_lastStartTime' = e.at
          /\ UNCHANGED <<sim, conn, closing, configVars, m_socket, m_connected, life>>
      BY <1>5, <2>3 DEF SendPacket
    <3> QED BY <2>1, <3>4, <3>5, <3>6, <3>7, <3>8 DEF TypeOK, MessageRecord, configVars
  <2> QED BY <2>2, <2>3
<1>6. ASSUME NEW e \in queue, SimulatorStop(e) PROVE TypeOK'
  BY <1>6 DEF TypeOK, SimulatorStop, Event, sockVars, configVars, sendVars
<1>7. ASSUME DoDispose PROVE TypeOK'
  BY <1>7 DEF TypeOK, DoDispose, Cancelled, sockVars, configVars, sendVars
<1>8. ASSUME ConnectionSucceeded PROVE TypeOK'
  BY <1>8 DEF TypeOK, ConnectionSucceeded, simVars, configVars, sendVars
<1>9. ASSUME ConnectionFailed PROVE TypeOK'
  BY <1>9 DEF TypeOK, ConnectionFailed, simVars, configVars, sendVars
<1>10. ASSUME Acknowledge PROVE TypeOK'
  BY <1>10 DEF TypeOK, Acknowledge, simVars, configVars, sendVars
<1>11. ASSUME UNCHANGED vars PROVE TypeOK'
  BY <1>11 DEF TypeOK, vars, simVars, sockVars, configVars, sendVars
<1> QED BY <1>1, <1>2, <1>3, <1>4, <1>5, <1>6, <1>7, <1>8, <1>9, <1>10, <1>11
    DEF Next, ServeEvent

\* Every reachable state of the application is well typed, whatever the
\* attributes, the files and the socket do.
THEOREM TypeCorrect == Spec => []TypeOK
BY TypeInit, TypeNext, PTL DEF Spec

-----------------------------------------------------------------------------
(* The chain of scheduled transmissions.                                   *)

\* What ScheduleNextTx does to the queue: it adds one send event, not earlier
\* than now, and m_sendEvent names it (cdf-application.cc:206).
LEMMA ScheduleAddsOne ==
  ASSUME TypeOK, NEW q, NEW t \in Nat, ScheduleNextTx(q, t)
  PROVE  \E ev \in Event : /\ queue' = q \union {ev}
                           /\ ev.kind = "send" /\ ev.at >= t
                           /\ ev.uid = m_sendEvent'
<1>1. PICK wait \in (IF m_timeMean.average = 0 THEN {0} ELSE Waits) :
        /\ queue' = q \union {[uid |-> nextUid, at |-> t + wait, kind |-> "send"]}
        /\ m_sendEvent' = nextUid
  BY DEF ScheduleNextTx
<1>2. wait \in Nat
  BY ConfigurationAssumption DEF ConfigurationAssumption
<1> DEFINE ev == [uid |-> nextUid, at |-> t + wait, kind |-> "send"]
<1>3. ev \in Event /\ ev.kind = "send" /\ ev.at >= t /\ ev.uid = m_sendEvent'
  BY <1>1, <1>2 DEF TypeOK, Event
<1> QED BY <1>1, <1>3

\* The event that is served is not later than any other one in the queue.
LEMMA NextIsEarliest ==
  ASSUME TypeOK, NEW e \in queue, IsNext(e)
  PROVE  e.at \in Nat /\ \A f \in queue : f.at >= e.at
<1>1. \A f \in queue : f.at \in Nat
  BY DEF TypeOK, Event
<1>2. ASSUME NEW f \in queue PROVE f.at >= e.at
  <2>1. CASE f = e
    BY <1>1, <2>1
  <2>2. CASE f # e
    BY <1>1, <2>2 DEF IsNext, Precedes
  <2> QED BY <2>1, <2>2
<1> QED BY <1>1, <1>2

LEMMA LifecycleInit == Init => LifecycleInv
<1> SUFFICES ASSUME Init PROVE LifecycleInv
  OBVIOUS
<1>1. PICK start \in StartTimes, stop \in StopTimes : queue = InitialEvents(start, stop)
  BY DEF Init
<1>2. \A e \in queue : e.at >= now /\ e.kind # "send"
  BY <1>1, ConfigurationAssumption DEF Init, InitialEvents, ConfigurationAssumption
<1>3. \A e, f \in queue : e.kind = f.kind => e = f
  BY <1>1 DEF InitialEvents
<1> QED BY <1>2, <1>3 DEF Init, LifecycleInv

LEMMA LifecycleNext == TypeOK /\ LifecycleInv /\ [Next]_vars => LifecycleInv'
<1> SUFFICES ASSUME TypeOK, LifecycleInv, [Next]_vars PROVE LifecycleInv'
  OBVIOUS
<1>1. ASSUME NEW rate \in Rates, SetRate(rate) PROVE LifecycleInv'
  BY <1>1 DEF LifecycleInv, SetRate, simVars, sockVars
<1>2. ASSUME NEW file \in Files, SetDistribution(file) PROVE LifecycleInv'
  BY <1>2 DEF LifecycleInv, SetDistribution, simVars, sockVars
<1>3. ASSUME NEW e \in queue, sim = "running", IsNext(e), e.kind = "start",
             StartApplication(e)
      PROVE  LifecycleInv'
  <2>1. e.at \in Nat /\ \A f \in queue : f.at >= e.at
    BY <1>3, NextIsEarliest
  <2>2. life = "idle" /\ ~m_socket /\ ~closing /\ conn # "closed"
    BY <1>3 DEF LifecycleInv
  <2>3. \A f \in queue \ {e} : f.kind # "start" /\ f.kind # "send"
    BY <1>3, <2>2 DEF LifecycleInv
  <2>4. CASE Abort(queue \ {e}, e.at)
    BY <2>1, <2>2, <2>3, <2>4 DEF LifecycleInv, Abort, sockVars
  <2>5. CASE ~Abort(queue \ {e}, e.at)
    <3>1. PICK ev \in Event :
            /\ queue' = Cancelled(queue \ {e}, m_sendEvent) \union {ev}
            /\ ev.kind = "send" /\ ev.at >= e.at /\ ev.uid = m_sendEvent'
      BY <1>3, <2>1, <2>5, ScheduleAddsOne DEF StartApplication
    <3>2. /\ now' = e.at /\ life' = "started" /\ m_socket' = TRUE
          /\ conn' \notin {"none", "closed"} /\ closing' = closing
      BY <1>3, <2>2, <2>5 DEF StartApplication, Connect
    <3>3. Cancelled(queue \ {e}, m_sendEvent) \subseteq queue \ {e}
      BY DEF Cancelled
    <3>4. \A f \in queue' : f.at >= now' /\ f.kind # "start"
      BY <2>1, <2>3, <3>1, <3>2, <3>3
    <3>5. \A f \in queue' : f.kind = "send" => f = ev
      BY <2>3, <3>1, <3>3
    <3>6. \A f, g \in queue' : f.kind = g.kind => f = g
      BY <3>1, <3>3, <3>5 DEF LifecycleInv
    <3> QED BY <2>2, <3>1, <3>2, <3>4, <3>5, <3>6 DEF LifecycleInv
  <2> QED BY <2>4, <2>5
<1>4. ASSUME NEW e \in queue, sim = "running", IsNext(e), e.kind = "stop",
             StopApplication(e)
      PROVE  LifecycleInv'
  <2>1. e.at \in Nat /\ \A f \in queue : f.at >= e.at
    BY <1>4, NextIsEarliest
  <2>2. queue' \subseteq queue /\ \A f \in queue' : f.kind # "send"
    BY <1>4 DEF StopApplication, Cancelled, LifecycleInv
  <2>3. \A f \in queue' : f.at >= now'
    BY <1>4, <2>1, <2>2 DEF StopApplication
  <2>4. UNCHANGED <<m_socket, m_sendEvent, sim>>
    BY <1>4 DEF StopApplication
  <2>5. life = "idle" => life' = "idle" /\ UNCHANGED <<conn, closing>>
    BY <1>4 DEF StopApplication, LifecycleInv
  <2>6. life # "idle" => life' = "stopped"
    BY <1>4 DEF StopApplication, TypeOK
  <2>7. m_socket => conn' # "none"
    BY <1>4 DEF StopApplication, Close, LifecycleInv
  <2> QED BY <2>2, <2>3, <2>4, <2>5, <2>6, <2>7 DEF LifecycleInv
<1>5. ASSUME NEW e \in queue, sim = "running", IsNext(e), e.kind = "send", SendPacket(e)
      PROVE  LifecycleInv'
  <2>1. e.at \in Nat /\ \A f \in queue : f.at >= e.at
    BY <1>5, NextIsEarliest
  <2>2. life = "started" /\ m_socket
    BY <1>5 DEF LifecycleInv
  <2>3. \A f \in queue \ {e} : f.kind # "start" /\ f.kind # "send"
    BY <1>5, <2>2 DEF LifecycleInv
  <2>4. CASE Abort(queue \ {e}, e.at)
    BY <2>1, <2>2, <2>3, <2>4 DEF LifecycleInv, Abort, sockVars
  <2>5. CASE ~Abort(queue \ {e}, e.at)
    <3>1. PICK ev \in Event :
            /\ queue' = (queue \ {e}) \union {ev}
            /\ ev.kind = "send" /\ ev.at >= e.at /\ ev.uid = m_sendEvent'
      BY <1>5, <2>1, <2>5, ScheduleAddsOne DEF SendPacket
    <3>2. now' = e.at /\ UNCHANGED <<sim, conn, closing, m_socket, life>>
      BY <1>5, <2>5 DEF SendPacket
    <3>3. \A f \in queue' : f.at >= now' /\ f.kind # "start"
      BY <2>1, <2>3, <3>1, <3>2
    <3>4. \A f \in queue' : f.kind = "send" => f = ev
      BY <2>3, <3>1
    <3>5. \A f, g \in queue' : f.kind = g.kind => f = g
      BY <3>1, <3>4 DEF LifecycleInv
    <3> QED BY <2>2, <3>1, <3>2, <3>3, <3>4, <3>5 DEF LifecycleInv
  <2> QED BY <2>4, <2>5
<1>6. ASSUME NEW e \in queue, sim = "running", IsNext(e), e.kind = "simstop",
             SimulatorStop(e)
      PROVE  LifecycleInv'
  <2>1. e.at \in Nat /\ \A f \in queue : f.at >= e.at
    BY <1>6, NextIsEarliest
  <2> QED BY <1>6, <2>1 DEF LifecycleInv, SimulatorStop, sockVars
<1>7. ASSUME DoDispose PROVE LifecycleInv'
  <2>1. queue' \subseteq queue /\ \A f \in queue' : f.kind # "send"
    BY <1>7 DEF DoDispose, Cancelled, LifecycleInv
  <2> QED BY <1>7, <2>1 DEF LifecycleInv, DoDispose, sockVars
<1>8. ASSUME ConnectionSucceeded PROVE LifecycleInv'
  BY <1>8 DEF LifecycleInv, ConnectionSucceeded, simVars
<1>9. ASSUME ConnectionFailed PROVE LifecycleInv'
  BY <1>9 DEF LifecycleInv, ConnectionFailed, simVars
<1>10. ASSUME Acknowledge PROVE LifecycleInv'
  <2>1. conn' = conn \/ (conn' = "closed" /\ closing)
    BY <1>10 DEF Acknowledge
  <2>2. UNCHANGED <<simVars, closing, m_socket, m_sendEvent, life>>
    BY <1>10 DEF Acknowledge
  <2> QED BY <2>1, <2>2 DEF LifecycleInv, simVars
<1>11. ASSUME UNCHANGED vars PROVE LifecycleInv'
  BY <1>11 DEF LifecycleInv, vars, simVars, sockVars
<1> QED BY <1>1, <1>2, <1>3, <1>4, <1>5, <1>6, <1>7, <1>8, <1>9, <1>10, <1>11
    DEF Next, ServeEvent

THEOREM LifecycleCorrect == Spec => []LifecycleInv
BY TypeCorrect, LifecycleInit, LifecycleNext, PTL DEF Spec

\* NS_ASSERT(m_sendEvent.IsExpired()) never fails, and the chain of
\* transmissions neither forks nor dies (cdf-application.cc:175-255).
THEOREM ChainCorrect == Spec => []ChainIntact
<1>1. LifecycleInv => ChainIntact
  BY DEF LifecycleInv, ChainIntact, SendEvents
<1> QED BY <1>1, LifecycleCorrect, PTL

\* SendPacket never runs on a null or closed socket (cdf-application.cc:232).
THEOREM SocketCorrect == Spec => []SendHasSocket
<1>1. LifecycleInv => SendHasSocket
  BY DEF LifecycleInv, SendHasSocket, SendEvents
<1> QED BY <1>1, LifecycleCorrect, PTL

-----------------------------------------------------------------------------
(* The distributions.                                                      *)

LEMMA LoadInit == Init => LoadInv
BY DEF Init, LoadInv, MeanFresh

LEMMA LoadNext == LoadInv /\ [Next]_vars => LoadInv'
<1> SUFFICES ASSUME LoadInv, [Next]_vars PROVE LoadInv'
  OBVIOUS
<1>1. ASSUME NEW rate \in Rates, SetRate(rate) PROVE LoadInv'
  BY <1>1 DEF LoadInv, MeanFresh, SetRate, UpdateRateDistribution
<1>2. ASSUME NEW file \in Files, SetDistribution(file) PROVE LoadInv'
  BY <1>2 DEF LoadInv, MeanFresh, SetDistribution, LoadFailed, Loaded, UpdateRateDistribution
<1>3. ASSUME UNCHANGED configVars PROVE LoadInv'
  BY <1>3 DEF LoadInv, MeanFresh, configVars
<1>4. ASSUME ServeEvent PROVE UNCHANGED configVars
  BY <1>4 DEF ServeEvent, StartApplication, StopApplication, SendPacket, SimulatorStop, Abort
<1>5. ASSUME DoDispose \/ ConnectionSucceeded \/ ConnectionFailed \/ Acknowledge \/ UNCHANGED vars
      PROVE  UNCHANGED configVars
  BY <1>5 DEF DoDispose, ConnectionSucceeded, ConnectionFailed, Acknowledge, vars
<1> QED BY <1>1, <1>2, <1>3, <1>4, <1>5 DEF Next

THEOREM LoadCorrect == Spec => []LoadInv
BY LoadInit, LoadNext, PTL DEF Spec

\* Both setters leave the mean waiting time computed from the rate and the
\* average in force, except after a failed load, and then nothing is sent
\* (cdf-application.cc:306-349).
THEOREM MeanCorrect == Spec => []MeanFresh
<1>1. LoadInv => MeanFresh
  BY DEF LoadInv
<1> QED BY <1>1, LoadCorrect, PTL

-----------------------------------------------------------------------------
(* The messages.                                                           *)

\* A step that changes tx is a SendPacket that did not abort; it appends one
\* message with the counter as its id.
SendsMessage ==
  \E e \in queue, taken \in BOOLEAN :
     /\ sim = "running" /\ e.kind = "send" /\ IsNext(e)
     /\ m_sizeDist # {}
     /\ tx' = Append(tx, [id |-> m_counter, at |-> e.at, taken |-> taken])
     /\ m_counter' = (m_counter + 1) % IdSpace
     /\ m_lastStartTime' = e.at /\ now' = e.at
     /\ UNCHANGED <<sim, life>>

LEMMA OnlySendPacketSends ==
  ASSUME TypeOK, LifecycleInv, [Next]_vars
  PROVE  \/ SendsMessage
         \/ UNCHANGED sendVars /\ now' >= now
<1> USE DEF sendVars
<1>1. ASSUME NEW rate \in Rates, SetRate(rate) PROVE UNCHANGED sendVars /\ now' >= now
  BY <1>1 DEF SetRate, simVars, TypeOK
<1>2. ASSUME NEW file \in Files, SetDistribution(file)
      PROVE  UNCHANGED sendVars /\ now' >= now
  BY <1>2 DEF SetDistribution, simVars, TypeOK
<1>3. ASSUME NEW e \in queue, StartApplication(e) \/ StopApplication(e) \/ SimulatorStop(e)
      PROVE  UNCHANGED sendVars /\ now' >= now
  BY <1>3 DEF StartApplication, StopApplication, SimulatorStop, Abort, LifecycleInv
<1>4. ASSUME NEW e \in queue, sim = "running", IsNext(e), e.kind = "send", SendPacket(e)
      PROVE  SendsMessage \/ (UNCHANGED sendVars /\ now' >= now)
  <2>1. CASE Abort(queue \ {e}, e.at)
    BY <2>1 DEF Abort, LifecycleInv
  <2>2. CASE ~Abort(queue \ {e}, e.at)
    <3>1. PICK size \in m_sizeDist :
            tx' = Append(tx, [id |-> m_counter, at |-> e.at, taken |-> SocketAccepts(size)])
      BY <1>4, <2>2 DEF SendPacket
    <3>2. SocketAccepts(size) \in BOOLEAN
      BY DEF SocketAccepts
    <3>3. /\ m_counter' = (m_counter + 1) % IdSpace
          /\ m_lastStartTime' = e.at /\ now' = e.at
          /\ UNCHANGED <<sim, life>>
      BY <1>4, <2>2 DEF SendPacket
    <3> QED BY <1>4, <3>1, <3>2, <3>3 DEF SendsMessage
  <2> QED BY <2>1, <2>2
<1>5. ASSUME DoDispose \/ ConnectionSucceeded \/ ConnectionFailed \/ Acknowledge \/ UNCHANGED vars
      PROVE  UNCHANGED sendVars /\ now' >= now
  BY <1>5 DEF DoDispose, ConnectionSucceeded, ConnectionFailed, Acknowledge, vars, simVars, TypeOK
<1> QED BY <1>1, <1>2, <1>3, <1>4, <1>5 DEF Next, ServeEvent

\* A remainder is determined by the range it lies in.
LEMMA RemainderUnique ==
  ASSUME NEW n \in Nat \ {0}, NEW p \in Nat, NEW q \in Nat,
         NEW r \in 0 .. n - 1, NEW s \in 0 .. n - 1, n * p + r = n * q + s
  PROVE  r = s
<1>1. ASSUME NEW x \in Nat, NEW y \in Nat, x < y PROVE n * x + n <= n * y
  <2>1. y - x - 1 \in Nat
    BY <1>1
  <2>2. n * (y - x - 1) >= 0
    BY <2>1
  <2>3. n * y = n * x + n + n * (y - x - 1)
    BY <2>1
  <2> QED BY <2>1, <2>2, <2>3
<1>2. n * p \in Nat /\ n * q \in Nat
  OBVIOUS
<1>3. ~(p < q)
  <2>1. ASSUME p < q PROVE n * p + n <= n * q
    BY <1>1, <2>1
  <2> QED BY <1>2, <2>1
<1>4. ~(q < p)
  <2>1. ASSUME q < p PROVE n * q + n <= n * p
    BY <1>1, <2>1
  <2> QED BY <1>2, <2>1
<1>5. p = q
  BY <1>3, <1>4
<1> QED BY <1>2, <1>5

LEMMA ModuloSuccessor ==
  ASSUME NEW a \in Nat, NEW n \in Nat \ {0}
  PROVE  ((a % n) + 1) % n = (a + 1) % n
<1> DEFINE r == a % n
           d == a \div n
           u == (a + 1) % n
           e == (a + 1) \div n
<1>1. r \in 0 .. n - 1 /\ d \in Nat /\ a = n * d + r
  OBVIOUS
<1>2. u \in 0 .. n - 1 /\ e \in Nat /\ a + 1 = n * e + u
  OBVIOUS
<1>3. CASE r + 1 < n
  <2>1. r + 1 \in 0 .. n - 1 /\ n * d + (r + 1) = n * e + u
    BY <1>1, <1>2, <1>3
  <2>2. r + 1 = u
    <3> HIDE DEF r, d, u, e
    <3> QED BY <1>1, <1>2, <2>1, RemainderUnique
  <2>3. (r + 1) % n = r + 1
    BY <2>1
  <2> QED BY <2>2, <2>3
<1>4. CASE r + 1 = n
  <2>1. n * (d + 1) + 0 = n * e + u
    BY <1>1, <1>2, <1>4
  <2>2. 0 = u
    <3> HIDE DEF r, d, u, e
    <3>1. d + 1 \in Nat /\ 0 \in 0 .. n - 1
      BY <1>1
    <3> QED BY <1>1, <1>2, <2>1, <3>1, RemainderUnique
  <2>3. (r + 1) % n = 0
    BY <1>4
  <2> QED BY <2>2, <2>3
<1> QED BY <1>1, <1>3, <1>4

LEMMA NumberedInit == Init => Numbered
BY ConfigurationAssumption DEF Init, Numbered, ConfigurationAssumption

\* What SendPacket does to the stream: one more message, and the old ones stay.
LEMMA AppendedMessage ==
  ASSUME TypeOK, LifecycleInv, Numbered, SendsMessage
  PROVE  /\ Len(tx') = Len(tx) + 1
         /\ \A i \in 1 .. Len(tx) : tx'[i] = tx[i]
         /\ tx'[Len(tx) + 1].id = Len(tx) % IdSpace
         /\ tx'[Len(tx) + 1].at = m_lastStartTime'
         /\ m_lastStartTime' >= now /\ m_lastStartTime' = now'
         /\ m_lastStartTime' \in Nat
<1>1. PICK e \in queue, taken \in BOOLEAN :
        /\ tx' = Append(tx, [id |-> m_counter, at |-> e.at, taken |-> taken])
        /\ m_lastStartTime' = e.at /\ now' = e.at
        /\ IsNext(e)
  BY DEF SendsMessage
<1>2. tx \in Seq(MessageRecord)
  BY DEF TypeOK, MessageRecord
<1>3. e.at >= now /\ e.at \in Nat
  BY NextIsEarliest DEF LifecycleInv, TypeOK, Event
<1> QED BY <1>1, <1>2, <1>3 DEF Numbered

LEMMA NumberedNext == TypeOK /\ LifecycleInv /\ Numbered /\ [Next]_vars => Numbered'
<1> SUFFICES ASSUME TypeOK, LifecycleInv, Numbered, [Next]_vars PROVE Numbered'
  OBVIOUS
<1> USE ConfigurationAssumption DEF ConfigurationAssumption
<1>1. CASE UNCHANGED sendVars /\ now' >= now
  <2>1. m_lastStartTime \in Nat /\ now \in Nat /\ now' \in Nat
    BY TypeNext DEF TypeOK
  <2> QED BY <1>1, <2>1 DEF Numbered, sendVars
<1>2. CASE SendsMessage
  <2> DEFINE n == Len(tx)
  <2>1. n \in Nat /\ \A i \in 1 .. n : tx[i].at \in Nat
    <3>1. tx \in Seq(MessageRecord)
      BY DEF TypeOK, MessageRecord
    <3>2. n \in Nat /\ \A i \in 1 .. n : tx[i] \in MessageRecord
      BY <3>1
    <3>3. ASSUME NEW m \in MessageRecord PROVE m.at \in Nat
      BY DEF MessageRecord
    <3> QED BY <3>2, <3>3
  <2>2. /\ Len(tx') = n + 1
        /\ \A i \in 1 .. n : tx'[i] = tx[i]
        /\ tx'[n + 1].id = n % IdSpace
        /\ tx'[n + 1].at = m_lastStartTime'
        /\ m_lastStartTime' >= now /\ m_lastStartTime' = now'
        /\ m_lastStartTime' \in Nat
    BY <1>2, AppendedMessage
  <2>3. m_counter' = Len(tx') % IdSpace
    BY <1>2, <2>1, <2>2, ModuloSuccessor DEF SendsMessage, Numbered
  <2>4. \A i \in 1 .. n : tx[i].at <= m_lastStartTime'
    <3>1. now \in Nat /\ m_lastStartTime \in Nat
      BY DEF TypeOK
    <3> QED BY <2>1, <2>2, <3>1 DEF Numbered
  <2>5. \A i \in 1 .. Len(tx') : tx'[i].id = (i - 1) % IdSpace
    BY <2>1, <2>2 DEF Numbered
  <2>6. \A i, j \in 1 .. Len(tx') : i < j => tx'[i].at <= tx'[j].at
    <3> SUFFICES ASSUME NEW i \in 1 .. n + 1, NEW j \in 1 .. n + 1, i < j
                 PROVE  tx'[i].at <= tx'[j].at
      BY <2>2
    <3>1. i \in 1 .. n /\ tx'[i] = tx[i]
      BY <2>1, <2>2
    <3>2. CASE j = n + 1
      BY <2>2, <2>4, <3>1, <3>2
    <3>3. CASE j # n + 1
      <4>1. j \in 1 .. n /\ tx'[j] = tx[j]
        BY <2>1, <2>2, <3>3
      <4> QED BY <3>1, <4>1 DEF Numbered
    <3> QED BY <3>2, <3>3
  <2>7. \A i \in 1 .. Len(tx') : tx'[i].at <= m_lastStartTime'
    BY <2>1, <2>2, <2>4
  <2>8. m_lastStartTime' <= now'
    BY <2>2
  <2> HIDE DEF n
  <2> HIDE ConfigurationAssumption DEF ConfigurationAssumption
  <2> QED BY ONLY <2>3, <2>5, <2>6, <2>7, <2>8 DEF Numbered
<1> QED BY <1>1, <1>2, OnlySendPacketSends

\* The n-th message of an application carries id n modulo 2^32, refused ones
\* included, and the times never go back (cdf-application.cc:217-255).
THEOREM NumberedCorrect == Spec => []Numbered
BY TypeCorrect, LifecycleCorrect, NumberedInit, NumberedNext, PTL DEF Spec

\* Messages are made one at a time, between start and stop, from a loaded
\* distribution only.
THEOREM ReadyCorrect == Spec => MessagesOnlyWhenReady
<1>1. TypeOK /\ LifecycleInv /\ LoadInv /\ [Next]_vars
      => [tx' # tx => /\ sim = "running" /\ life = "started" /\ loadOk
                      /\ Len(tx') = Len(tx) + 1]_vars
  <2> SUFFICES ASSUME TypeOK, LifecycleInv, LoadInv, [Next]_vars, tx' # tx
               PROVE  /\ sim = "running" /\ life = "started" /\ loadOk
                      /\ Len(tx') = Len(tx) + 1
    OBVIOUS
  <2>1. SendsMessage
    BY OnlySendPacketSends DEF sendVars
  <2>2. tx \in Seq(MessageRecord)
    BY DEF TypeOK, MessageRecord
  <2> QED BY <2>1, <2>2 DEF SendsMessage, LifecycleInv, LoadInv
<1> QED BY <1>1, TypeCorrect, LifecycleCorrect, LoadCorrect, PTL DEF Spec, MessagesOnlyWhenReady

-----------------------------------------------------------------------------
(* The application implements the numbered stream.                         *)

\* How start, stop and the simulator's own state may move in one step that
\* makes no message.
LEMMA PhaseStep ==
  ASSUME TypeOK, LifecycleInv, [Next]_vars
  PROVE  \/ UNCHANGED <<sim, life>>
         \/ sim' # "running"
         \/ sim = "running" /\ sim' = "running" /\ life = "idle" /\ life' = "started"
         \/ sim' = "running" /\ life' = "stopped"
<1>1. ASSUME NEW rate \in Rates, SetRate(rate) PROVE UNCHANGED <<sim, life>>
  BY <1>1 DEF SetRate, simVars
<1>2. ASSUME NEW file \in Files, SetDistribution(file) PROVE UNCHANGED <<sim, life>>
  BY <1>2 DEF SetDistribution, simVars
<1>3. ASSUME NEW e \in queue, e.kind = "start", sim = "running", StartApplication(e)
      PROVE  sim' # "running" \/ (sim' = "running" /\ life = "idle" /\ life' = "started")
  BY <1>3 DEF StartApplication, Abort, LifecycleInv
<1>4. ASSUME NEW e \in queue, sim = "running", StopApplication(e)
      PROVE  sim' = sim /\ (life' = life \/ life' = "stopped")
  BY <1>4 DEF StopApplication
<1>5. ASSUME NEW e \in queue, SendPacket(e) PROVE UNCHANGED <<sim, life>> \/ sim' # "running"
  BY <1>5 DEF SendPacket, Abort
<1>6. ASSUME NEW e \in queue, SimulatorStop(e) PROVE sim' # "running"
  BY <1>6 DEF SimulatorStop
<1>7. ASSUME DoDispose PROVE sim' # "running"
  BY <1>7 DEF DoDispose
<1>8. ASSUME ConnectionSucceeded \/ ConnectionFailed \/ Acknowledge \/ UNCHANGED vars
      PROVE  UNCHANGED <<sim, life>>
  BY <1>8 DEF ConnectionSucceeded, ConnectionFailed, Acknowledge, vars, simVars
<1> QED BY <1>1, <1>2, <1>3, <1>4, <1>5, <1>6, <1>7, <1>8 DEF Next, ServeEvent

\* A simulation that is over stays over.
LEMMA OverIsForEver ==
  ASSUME [Next]_vars, sim # "running"
  PROVE  sim' # "running"
BY DEF Next, SetRate, SetDistribution, ServeEvent, DoDispose, ConnectionSucceeded,
       ConnectionFailed, Acknowledge, vars, simVars

\* A stopped application is not started again: its start event is gone.
LEMMA StoppedIsForEver ==
  ASSUME LifecycleInv, [Next]_vars, life = "stopped"
  PROVE  life' = "stopped"
<1>1. \A e \in queue : e.kind # "start" /\ e.kind # "send"
  BY DEF LifecycleInv
<1> QED BY <1>1 DEF Next, SetRate, SetDistribution, ServeEvent, StopApplication, SimulatorStop,
       DoDispose, ConnectionSucceeded, ConnectionFailed, Acknowledge, vars, simVars

Phase == IF sim # "running" \/ life = "stopped" THEN "quiet"
         ELSE IF life = "idle" THEN "idle" ELSE "active"

Out == [i \in DOMAIN tx |-> [id |-> tx[i].id, at |-> tx[i].at]]

LEMMA MessageTypes ==
  ASSUME NEW s \in Seq(MessageRecord)
  PROVE  /\ Len(s) \in Nat /\ DOMAIN s = 1 .. Len(s)
         /\ \A i \in 1 .. Len(s) : s[i].id \in Nat /\ s[i].at \in Nat
<1>1. Len(s) \in Nat /\ DOMAIN s = 1 .. Len(s) /\ \A i \in 1 .. Len(s) : s[i] \in MessageRecord
  OBVIOUS
<1>2. ASSUME NEW m \in MessageRecord PROVE m.id \in Nat /\ m.at \in Nat
  BY ConfigurationAssumption DEF MessageRecord, ConfigurationAssumption
<1> QED BY <1>1, <1>2

LEMMA FunctionIsSequence ==
  ASSUME NEW S, NEW k \in Nat, NEW f \in [1 .. k -> S]
  PROVE  f \in Seq(S) /\ Len(f) = k
OBVIOUS

LEMMA AppendIs ==
  ASSUME NEW S, NEW s \in Seq(S), NEW v \in S
  PROVE  /\ Len(Append(s, v)) = Len(s) + 1 /\ Append(s, v) # <<>>
         /\ Append(s, v) \in [1 .. Len(s) + 1 -> S]
         /\ \A i \in 1 .. Len(s) : Append(s, v)[i] = s[i]
         /\ Append(s, v)[Len(s) + 1] = v
<1>1. Append(s, v) \in Seq(S) /\ Len(Append(s, v)) = Len(s) + 1 /\ Len(s) \in Nat
  OBVIOUS
<1>2. \A i \in 1 .. Len(s) : Append(s, v)[i] = s[i]
  OBVIOUS
<1>3. Append(s, v)[Len(s) + 1] = v
  OBVIOUS
<1>4. Append(s, v) # <<>>
  BY <1>1
<1>5. Append(s, v) \in [1 .. Len(s) + 1 -> S]
  <2>1. \A t \in Seq(S) : t \in [1 .. Len(t) -> S]
    OBVIOUS
  <2> QED BY <1>1, <2>1
<1> QED BY <1>1, <1>2, <1>3, <1>4, <1>5

LEMMA EmitStep ==
  ASSUME TypeOK, LifecycleInv, Numbered, [Next]_vars, SendsMessage
  PROVE  Source!Emit
<1> DEFINE n == Len(tx)
           m == [id |-> n % IdSpace, at |-> m_lastStartTime']
<1>1. /\ Len(tx') = n + 1
      /\ \A i \in 1 .. n : tx'[i] = tx[i]
      /\ tx'[n + 1].id = n % IdSpace
      /\ tx'[n + 1].at = m_lastStartTime'
      /\ m_lastStartTime' >= now
      /\ m_lastStartTime' \in Nat
  BY AppendedMessage
<1>2. /\ n \in Nat /\ DOMAIN tx = 1 .. n
      /\ \A i \in 1 .. n : tx[i].id \in Nat /\ tx[i].at \in Nat
  BY MessageTypes DEF TypeOK, MessageRecord
<1>3. TypeOK'
  BY TypeNext DEF Next
<1>4. /\ DOMAIN tx' = 1 .. n + 1
      /\ \A i \in 1 .. n + 1 : tx'[i].id \in Nat /\ tx'[i].at \in Nat
  BY <1>1, <1>3, MessageTypes DEF TypeOK, MessageRecord
<1>5. Out \in [1 .. n -> [id : Nat, at : Nat]]
  BY <1>2 DEF Out
<1>6. Out \in Seq([id : Nat, at : Nat]) /\ Len(Out) = n
  BY <1>2, <1>5, FunctionIsSequence
<1>7. m \in [id : Nat, at : Nat]
  BY <1>1, <1>2, <1>4
<1>8. /\ Out' = [i \in 1 .. n + 1 |-> [id |-> tx'[i].id, at |-> tx'[i].at]]
      /\ Out'[n + 1] = m
      /\ \A i \in 1 .. n : Out'[i] = Out[i]
  BY <1>1, <1>2, <1>4 DEF Out
<1>9. /\ Append(Out, m) \in [1 .. n + 1 -> [id : Nat, at : Nat]]
      /\ Append(Out, m) # <<>> /\ Len(Append(Out, m)) = n + 1
      /\ \A i \in 1 .. n : Append(Out, m)[i] = Out[i]
      /\ Append(Out, m)[n + 1] = m
  <2> DEFINE S == [id : Nat, at : Nat]
  <2>1. Out \in Seq(S) /\ m \in S /\ Len(Out) = n
    BY <1>6, <1>7
  <2> HIDE DEF m, n, S
  <2>2. /\ Append(Out, m) \in [1 .. Len(Out) + 1 -> S]
        /\ Append(Out, m) # <<>> /\ Len(Append(Out, m)) = Len(Out) + 1
        /\ \A i \in 1 .. Len(Out) : Append(Out, m)[i] = Out[i]
        /\ Append(Out, m)[Len(Out) + 1] = m
    BY <2>1, AppendIs
  <2> QED BY <2>1, <2>2 DEF S
<1>10. Out' = Append(Out, m)
  <2>1. DOMAIN Out' = 1 .. n + 1 /\ Out' = [i \in 1 .. n + 1 |-> Out'[i]]
    BY <1>8
  <2>2. \A i \in 1 .. n + 1 : Out'[i] = Append(Out, m)[i]
    <3> TAKE i \in 1 .. n + 1
    <3>1. i = n + 1 \/ i \in 1 .. n
      BY <1>2
    <3> HIDE DEF m, n
    <3> QED BY <1>8, <1>9, <3>1
  <2> HIDE DEF m, n
  <2> QED BY <1>9, <2>1, <2>2
<1>11. Out # <<>> => Out[n].at <= m_lastStartTime'
  <2>1. n # 0 => Out[n].at = tx[n].at /\ tx[n].at <= m_lastStartTime
    BY <1>2 DEF Out, Numbered
  <2>2. m_lastStartTime <= now /\ m_lastStartTime \in Nat /\ now \in Nat
    BY DEF Numbered, TypeOK
  <2>3. n = 0 => Out = <<>>
    BY <1>5, <1>6
  <2> QED BY <1>1, <1>2, <2>1, <2>2, <2>3
<1>12. Phase = "active" /\ Phase' = "active"
  BY DEF SendsMessage, LifecycleInv, Phase
<1>13. Source!LastTime <= m_lastStartTime'
  BY <1>1, <1>6, <1>11 DEF Source!LastTime, Out
<1>14. Out'[Len(Out')] = m
  BY <1>8, <1>9, <1>10
<1> QED BY <1>1, <1>6, <1>9, <1>10, <1>12, <1>13, <1>14
    DEF Source!Emit, Phase, Out

\* Every behaviour of the application is a behaviour of MessageSource: a
\* consecutively numbered stream between one start and one stop.
THEOREM Implements == Spec => ImplementsSource
<1>1. Init => Source!Init
  BY DEF Init, Source!Init
<1>2. TypeOK /\ LifecycleInv /\ Numbered /\ [Next]_vars => [Source!Next]_(Source!srcVars)
  <2> SUFFICES ASSUME TypeOK, LifecycleInv, Numbered, [Next]_vars
               PROVE  Source!Next \/ UNCHANGED <<Phase, Out>>
    BY DEF Source!srcVars, Phase, Out
  <2>1. CASE SendsMessage
    BY <2>1, EmitStep DEF Source!Next
  <2>2. CASE UNCHANGED sendVars
    <3>1. Out' = Out
      BY <2>2 DEF sendVars, Out
    <3>2. Phase' # Phase =>
            \/ Phase = "idle" /\ Phase' = "active"
            \/ Phase # "quiet" /\ Phase' = "quiet"
      BY PhaseStep, OverIsForEver, StoppedIsForEver DEF Phase
    <3>3. CASE Phase = "idle" /\ Phase' = "active"
      BY <3>1, <3>3 DEF Source!Next, Source!Begin, Phase, Out
    <3>4. CASE Phase # "quiet" /\ Phase' = "quiet"
      BY <3>1, <3>4 DEF Source!Next, Source!End, Phase, Out
    <3> QED BY <3>1, <3>2, <3>3, <3>4
  <2> QED BY <2>1, <2>2, OnlySendPacketSends
<1> QED BY <1>1, <1>2, TypeCorrect, LifecycleCorrect, NumberedCorrect, PTL
    DEF Spec, ImplementsSource, Source!Spec
=============================================================================
