------------------------------- MODULE Probing -------------------------------
(***************************************************************************)
(* The active probing applications of ntt-generator/model: clients that    *)
(* send bursts of time-stamped datagrams (probing-client.cc), a server     *)
(* that sends every datagram back (probing-server.cc), and the RTT trace   *)
(* that simulation/probing_test.cc writes to a file.                       *)
(*                                                                         *)
(* The ns-3 scheduler, the UDP sockets and the network between them are    *)
(* not part of the repository: pending starts, stops and transmissions are *)
(* times at which the handlers run, and the network keeps datagrams in a   *)
(* set from which it may deliver or lose any one at any time.              *)
(***************************************************************************)
EXTENDS Integers, FiniteSets

CONSTANTS
  Clients,       \* the probing clients, all of one server
  Interval,      \* of each client, attribute Interval: time between two bursts
  BurstSize,     \* of each client, attribute Burstsize: probes per burst
  Horizon,       \* time at which the simulation is stopped
  StartTimes,    \* values of the StartTime attribute
  StopTimes      \* values of the StopTime attribute, Never included

Never == -1

ASSUME ProbingAssumption ==
  /\ Interval \in [Clients -> Nat \ {0}]
  /\ BurstSize \in [Clients -> Nat]
  /\ Horizon \in Nat
  /\ StartTimes \subseteq Nat
  /\ StopTimes \subseteq Nat \union {Never}

VARIABLES
  now, over,                       \* the clock; the simulation has ended
  startAt, stopAt, sendAt,         \* of each client: times of pending events
  m_socket, m_burst, m_sent,       \* of each client: open socket, counters
  serverStartAt, serverStopAt,     \* times of the server's pending events
  serverSocket,                    \* "none", "open", "closed"
  net,                             \* the datagrams under way
  lost,                            \* history: probes that will not return
  rtts,                            \* the RTT trace
  firstAt                          \* history: time of each client's first burst

clientVars == <<startAt, stopAt, sendAt, m_socket, m_burst, m_sent, firstAt>>
serverVars == <<serverStartAt, serverStopAt, serverSocket>>
vars == <<now, over, clientVars, serverVars, net, lost, rtts>>

-----------------------------------------------------------------------------
(* A datagram carries the burst number and the time it was sent; nr tells  *)
(* the probes of one burst apart.                                          *)

ProbeId == {id \in [client : Clients, burst : Nat, nr : Nat] : id.nr < BurstSize[id.client]}

IdOf(p) == [client |-> p.client, burst |-> p.burst, nr |-> p.nr]

\* Mutant: one probe too many.
MutantBurst(c, t) ==
  {[client |-> c, burst |-> m_burst[c], nr |-> i, timestamp |-> t, to |-> "server"] :
     i \in 0 .. BurstSize[c]}

Burst(c, t) ==
  {[client |-> c, burst |-> m_burst[c], nr |-> i, timestamp |-> t, to |-> "server"] :
     i \in 0 .. BurstSize[c] - 1}

-----------------------------------------------------------------------------

Init ==
  /\ now = 0 /\ over = FALSE
  /\ startAt \in [Clients -> StartTimes] /\ stopAt \in [Clients -> StopTimes]
  /\ sendAt = [c \in Clients |-> Never]
  /\ m_socket = [c \in Clients |-> FALSE]
  /\ m_burst = [c \in Clients |-> 0] /\ m_sent = [c \in Clients |-> 0]
  /\ serverStartAt \in StartTimes /\ serverStopAt \in StopTimes
  /\ serverSocket = "none"
  /\ net = {} /\ lost = {} /\ rtts = {}
  /\ firstAt = [c \in Clients |-> Never]

\* Simulator::Stop was scheduled before any application's events, so at the
\* horizon it is served first.
Running == ~over /\ now < Horizon

NothingDue ==
  /\ \A c \in Clients : now \notin {startAt[c], stopAt[c], sendAt[c]}
  /\ now \notin {serverStartAt, serverStopAt}

Tick ==
  /\ Running /\ NothingDue
  /\ now' = now + 1
  /\ UNCHANGED <<over, clientVars, serverVars, net, lost, rtts>>

EndOfSimulation ==
  /\ ~over /\ now = Horizon
  /\ over' = TRUE
  /\ UNCHANGED <<now, clientVars, serverVars, net, lost, rtts>>

-----------------------------------------------------------------------------
(* The client.  Its start is scheduled before its stop, and both before    *)
(* any transmission: that is the order they run in when they are due       *)
(* together.                                                               *)

ScheduleTransmit(c, dt) == sendAt' = [sendAt EXCEPT ![c] = now + dt]

StartApplication(c) ==
  /\ Running /\ startAt[c] = now
  /\ startAt' = [startAt EXCEPT ![c] = Never]
  /\ m_socket' = [m_socket EXCEPT ![c] = TRUE]
  /\ ScheduleTransmit(c, 0)
  /\ UNCHANGED <<now, over, stopAt, m_burst, m_sent, firstAt, serverVars, net, lost, rtts>>

\* Mutant: the pending transmission outlives the socket.
MutantStopKeepsEvent(c) ==
  /\ Running /\ stopAt[c] = now /\ startAt[c] # now
  /\ stopAt' = [stopAt EXCEPT ![c] = Never]
  /\ m_socket' = [m_socket EXCEPT ![c] = FALSE]
  /\ UNCHANGED <<now, over, startAt, sendAt, m_burst, m_sent, firstAt, serverVars,
                 net, lost, rtts>>

\* Mutant: the socket is closed but not forgotten, and still calls back.
MutantStopKeepsSocket(c) ==
  /\ Running /\ stopAt[c] = now /\ startAt[c] # now
  /\ stopAt' = [stopAt EXCEPT ![c] = Never]
  /\ sendAt' = [sendAt EXCEPT ![c] = Never]
  /\ UNCHANGED <<now, over, startAt, m_socket, m_burst, m_sent, firstAt, serverVars,
                 net, lost, rtts>>

StopApplication(c) ==
  /\ Running /\ stopAt[c] = now /\ startAt[c] # now
  /\ stopAt' = [stopAt EXCEPT ![c] = Never]
  /\ m_socket' = [m_socket EXCEPT ![c] = FALSE]
  /\ sendAt' = [sendAt EXCEPT ![c] = Never]
  /\ UNCHANGED <<now, over, startAt, m_burst, m_sent, firstAt, serverVars, net, lost, rtts>>

\* Mutant: the burst number is never moved on.
MutantSendSameBurst(c) ==
  /\ Running /\ sendAt[c] = now /\ now \notin {startAt[c], stopAt[c]}
  /\ net' = net \union Burst(c, now)
  /\ m_sent' = [m_sent EXCEPT ![c] = @ + BurstSize[c]]
  /\ UNCHANGED m_burst
  /\ ScheduleTransmit(c, Interval[c])
  /\ firstAt' = IF firstAt[c] = Never THEN [firstAt EXCEPT ![c] = now] ELSE firstAt
  /\ UNCHANGED <<now, over, startAt, stopAt, m_socket, serverVars, lost, rtts>>

Send(c) ==
  /\ Running /\ sendAt[c] = now /\ now \notin {startAt[c], stopAt[c]}
  /\ net' = net \union Burst(c, now)
  /\ m_sent' = [m_sent EXCEPT ![c] = @ + BurstSize[c]]
  /\ m_burst' = [m_burst EXCEPT ![c] = @ + 1]
  /\ ScheduleTransmit(c, Interval[c])
  /\ firstAt' = IF firstAt[c] = Never THEN [firstAt EXCEPT ![c] = now] ELSE firstAt
  /\ UNCHANGED <<now, over, startAt, stopAt, m_socket, serverVars, lost, rtts>>

\* A probe comes back.  Without a socket there is nobody to read it.
HandleReadClient(p) ==
  /\ Running /\ p \in net /\ p.to = "client"
  /\ net' = net \ {p}
  /\ IF m_socket[p.client]
     THEN /\ rtts' = rtts \union {[client |-> p.client, burst |-> p.burst, nr |-> p.nr,
                                   rtt |-> now - p.timestamp, at |-> now]}
          /\ UNCHANGED lost
     ELSE lost' = lost \union {IdOf(p)} /\ UNCHANGED rtts
  /\ UNCHANGED <<now, over, clientVars, serverVars>>

-----------------------------------------------------------------------------
(* The server.                                                             *)

ServerStart ==
  /\ Running /\ serverStartAt = now
  /\ serverStartAt' = Never
  /\ serverSocket' = IF serverSocket = "none" THEN "open" ELSE serverSocket
  /\ UNCHANGED <<now, over, clientVars, serverStopAt, net, lost, rtts>>

ServerStop ==
  /\ Running /\ serverStopAt = now /\ serverStartAt # now
  /\ serverStopAt' = Never
  /\ serverSocket' = IF serverSocket = "open" THEN "closed" ELSE serverSocket
  /\ UNCHANGED <<now, over, clientVars, serverStartAt, net, lost, rtts>>

\* Mutant: the echo is sent to the address it was received on.
MutantEcho(p) == p

\* Mutant: the echo carries the time of the echo.
MutantRestamp(p) == [p EXCEPT !.to = "client", !.timestamp = now]

\* The datagram goes back to the address it came from, its payload untouched.
Echo(p) == [p EXCEPT !.to = "client"]

HandleReadServer(p) ==
  /\ Running /\ p \in net /\ p.to = "server"
  /\ IF serverSocket = "open"
     THEN net' = (net \ {p}) \union {Echo(p)} /\ UNCHANGED lost
     ELSE net' = net \ {p} /\ lost' = lost \union {IdOf(p)}
  /\ UNCHANGED <<now, over, clientVars, serverVars, rtts>>

\* A queue on the way is full.
Lose(p) ==
  /\ Running /\ p \in net
  /\ net' = net \ {p} /\ lost' = lost \union {IdOf(p)}
  /\ UNCHANGED <<now, over, clientVars, serverVars, rtts>>

-----------------------------------------------------------------------------

Deliver == \E p \in net : HandleReadServer(p) \/ HandleReadClient(p)

Next ==
  \/ Tick
  \/ EndOfSimulation
  \/ \E c \in Clients : StartApplication(c)
  \/ \E c \in Clients : StopApplication(c)
  \/ \E c \in Clients : Send(c)
  \/ ServerStart
  \/ ServerStop
  \/ \E p \in net : HandleReadServer(p)
  \/ \E p \in net : HandleReadClient(p)
  \/ \E p \in net : Lose(p)

Spec == Init /\ [][Next]_vars

\* Simulator::Run serves every event in the end: the arrival of a datagram, and
\* the stop of the simulation.  Nothing forces the clock to advance.
FairSpec == Spec /\ WF_vars(Deliver) /\ WF_vars(EndOfSimulation)

-----------------------------------------------------------------------------
(* Properties.                                                             *)

\* Every variable keeps its type (the fields declared in probing-client.h).
TypeOK ==
  /\ now \in Nat /\ over \in BOOLEAN
  /\ startAt \in [Clients -> Nat \union {Never}]
  /\ stopAt \in [Clients -> Nat \union {Never}]
  /\ sendAt \in [Clients -> Nat \union {Never}]
  /\ firstAt \in [Clients -> Nat \union {Never}]
  /\ m_socket \in [Clients -> BOOLEAN]
  /\ m_burst \in [Clients -> Nat] /\ m_sent \in [Clients -> Nat]
  /\ serverStartAt \in Nat \union {Never} /\ serverStopAt \in Nat \union {Never}
  /\ serverSocket \in {"none", "open", "closed"}
  /\ net \subseteq [client : Clients, burst : Nat, nr : Nat,
                    timestamp : Nat, to : {"server", "client"}]
  /\ lost \subseteq ProbeId
  /\ rtts \subseteq [client : Clients, burst : Nat, nr : Nat, rtt : Int, at : Nat]
  /\ \A p \in net \union rtts : IdOf(p) \in ProbeId

\* Send dereferences m_socket without looking: while a transmission is pending
\* the client has its socket, and the transmission is not overdue.
SendHasSocket ==
  \A c \in Clients : sendAt[c] # Never => m_socket[c] /\ sendAt[c] >= now

\* The bursts of a client lie on an exact grid: burst b is sent Interval * b
\* after the first one, and m_sent counts whole bursts.
NoDrift ==
  \A c \in Clients :
     /\ m_sent[c] = m_burst[c] * BurstSize[c]
     /\ firstAt[c] = Never <=> m_burst[c] = 0
     /\ m_burst[c] > 0 /\ sendAt[c] # Never =>
          sendAt[c] = firstAt[c] + m_burst[c] * Interval[c]

\* What is scheduled is sent: every burst of a client finds its socket open, and
\* leaves at its time on the grid, not later.
OnSchedule == SendHasSocket /\ NoDrift

\* An RTT in the trace is the true one: it belongs to a burst that was sent,
\* it is not negative, and it ends when it was reported and begins when that
\* client sent that burst.
TrueRtt ==
  \A m \in rtts :
     /\ m.burst < m_burst[m.client] /\ m.rtt >= 0 /\ m.at <= now
     /\ m.at - m.rtt = firstAt[m.client] + m.burst * Interval[m.client]

\* Every probe sent is in exactly one place: under way (once), lost, or in the
\* trace (once).  Nothing else is in any of them.
AccountedOnce ==
  /\ \A p, q \in net : IdOf(p) = IdOf(q) => p = q
  /\ \A m, k \in rtts : IdOf(m) = IdOf(k) => m = k
  /\ \A id \in lost : id.burst < m_burst[id.client]
  /\ \A p \in net : p.burst < m_burst[p.client]
  /\ \A c \in Clients : \A b \in 0 .. m_burst[c] - 1 : \A i \in 0 .. BurstSize[c] - 1 :
        LET id == [client |-> c, burst |-> b, nr |-> i]
            underWay == \E p \in net : IdOf(p) = id
            traced == \E m \in rtts : IdOf(m) = id
        IN  \/ underWay /\ ~traced /\ id \notin lost
            \/ ~underWay /\ traced /\ id \notin lost
            \/ ~underWay /\ ~traced /\ id \in lost

\* A step reports at most one RTT, and only for a client whose next burst is
\* still scheduled: none before its start, none after its stop, however late
\* the echo is.
MeasuredWhileRunning ==
  [][ rtts' # rtts =>
        /\ ~over /\ rtts \subseteq rtts'
        /\ \E m \in rtts' : rtts' = rtts \union {m} /\ sendAt[m.client] # Never ]_vars

\* A datagram does not travel for ever: it comes back to the client or is lost,
\* unless the simulation ends first.
Resolved ==
  \A c \in Clients : \A b \in 0 .. Horizon \div Interval[c] : \A i \in 0 .. BurstSize[c] - 1 :
     (\E p \in net : IdOf(p) = [client |-> c, burst |-> b, nr |-> i])
       ~> (over \/ ~ \E p \in net : IdOf(p) = [client |-> c, burst |-> b, nr |-> i])
=============================================================================
