--------------------------- MODULE CdfApplication ---------------------------
(***************************************************************************)
(* One CdfApplication of ntt-generator/model/cdf-application.cc inside an  *)
(* ns-3 simulation: it draws a message size from an empirical CDF, hands   *)
(* the message to its socket, draws an exponential waiting time and        *)
(* schedules itself again.                                                 *)
(*                                                                         *)
(* The ns-3 event queue and the socket are not part of the repository;     *)
(* they are modelled from how the application uses them: a queue of timed  *)
(* events served in (time, uid) order, an Application base class that      *)
(* schedules one start and at most one stop, and a socket that accepts a   *)
(* message whole or refuses it whole.                                      *)
(***************************************************************************)
EXTENDS Integers, Sequences, FiniteSets

CONSTANTS
  Horizon,       \* time at which the main program stops the simulation
  StartTimes,    \* values of the StartTime attribute
  StopTimes,     \* values of the StopTime attribute, 0 for "never"
  Waits,         \* values a draw of the waiting time may take
  Rates,         \* values of the DataRate attribute
  Files,         \* names of distribution files
  Missing,       \* the files that cannot be opened or are empty
  Garbage,       \* the files that do not begin with a number
  AverageOf,     \* the first line of a readable file, in bytes
  SizesOf,       \* the message sizes listed in a readable file
  SndBufSize,    \* capacity of a TCP send buffer, in bytes
  MaxDatagram,   \* largest payload of a UDP datagram, in bytes
  IdSpace,       \* number of values of the message counter (2^32)
  MaxMsgs        \* bound: zero waiting times are drawn below this count only

Readable == Files \ (Missing \union Garbage)

ASSUME ConfigurationAssumption ==
  /\ Horizon \in Nat
  /\ StartTimes \subseteq Nat
  /\ StopTimes \subseteq Nat
  /\ Waits \subseteq Nat
  /\ IdSpace \in Nat \ {0}
  /\ SndBufSize \in Nat
  /\ MaxDatagram \in Nat
  /\ AverageOf \in [Readable -> Nat]
  /\ SizesOf \in [Readable -> SUBSET Nat]

NoFile == "no file"

VARIABLES
  now, queue, nextUid, sim,          \* the simulator
  conn, buffered, closing,           \* the socket: connection, send buffer,
                                     \*   and whether a Close waits for it to empty
  m_socket, m_connected, m_sendEvent, m_counter, m_lastStartTime,
  m_tid, m_rate, m_filename, m_average_size, m_sizeDist, m_timeMean,
  life,                              \* history: which of start, stop has run
  loadOk,                            \* history: what SetDistribution returned last
  tx                                 \* history: the messages made, oldest first

simVars    == <<now, queue, nextUid, sim>>
sockVars   == <<conn, buffered, closing>>
configVars == <<m_tid, m_rate, m_filename, m_average_size, m_sizeDist, m_timeMean, loadOk>>
sendVars   == <<m_counter, m_lastStartTime, tx>>
vars == <<simVars, sockVars, configVars, sendVars,
          m_socket, m_connected, m_sendEvent, life>>

-----------------------------------------------------------------------------
(* The event queue.                                                        *)

Event == [uid : Nat, at : Nat, kind : {"simstop", "start", "stop", "send"}]

\* The (time, uid) order in which Simulator::Run serves the events.
Precedes(e, f) == e.at < f.at \/ (e.at = f.at /\ e.uid < f.uid)

IsNext(e) == e \in queue /\ \A f \in queue \ {e} : Precedes(e, f)

\* Mutant: the event is forgotten but stays queued.
MutantNotCancelled(q, uid) == q

\* Simulator::Cancel.
Cancelled(q, uid) == {e \in q : e.uid # uid}

SendEvents == {e \in queue : e.kind = "send"}

-----------------------------------------------------------------------------
(* The constructor, followed by the DataRate attribute: SetRate runs while *)
(* the average size is still 0.  The mean waiting time is kept as the pair *)
(* it is computed from, never as a quotient.                               *)

MeanOf(rate, average) == [rate |-> rate, average |-> average]

InitialEvents(start, stop) ==
  {[uid |-> 1, at |-> Horizon, kind |-> "simstop"],
   [uid |-> 2, at |-> start, kind |-> "start"]}
  \union (IF stop = 0 THEN {} ELSE {[uid |-> 3, at |-> stop, kind |-> "stop"]})

Init ==
  /\ now = 0 /\ nextUid = 4 /\ sim = "running"
  /\ \E start \in StartTimes, stop \in StopTimes : queue = InitialEvents(start, stop)
  /\ conn = "none" /\ buffered = 0 /\ closing = FALSE
  /\ m_socket = FALSE /\ m_connected = FALSE /\ m_sendEvent = 0
  /\ m_counter = 0 /\ m_lastStartTime = 0
  /\ m_tid \in {"tcp", "udp"} /\ m_rate \in Rates
  /\ m_filename = NoFile /\ m_average_size = 0 /\ m_sizeDist = {}
  /\ m_timeMean = MeanOf(m_rate, 0)
  /\ life = "idle" /\ loadOk = FALSE /\ tx = <<>>

-----------------------------------------------------------------------------
(* The attribute setters.                                                  *)

\* Mutant: the rate dist is updated before the new rate is stored.
MutantUpdateOldRate(rate, average) == m_timeMean' = MeanOf(m_rate, average)

UpdateRateDistribution(rate, average) == m_timeMean' = MeanOf(rate, average)

SetRate(rate) ==
  /\ sim = "running" /\ rate # m_rate
  /\ m_rate' = rate
  /\ UpdateRateDistribution(rate, m_average_size)
  /\ UNCHANGED <<simVars, sockVars, sendVars, m_socket, m_connected, m_sendEvent, life,
                 m_tid, m_filename, m_average_size, m_sizeDist, loadOk>>

\* Mutant: the old sizes survive a failed load.
MutantKeepSizes(average) ==
  /\ loadOk' = FALSE
  /\ m_average_size' = average
  /\ UNCHANGED <<m_sizeDist, m_timeMean>>

\* The sizes are reset before the file is looked at, the mean only after.
LoadFailed(average) ==
  /\ m_sizeDist' = {} /\ loadOk' = FALSE
  /\ m_average_size' = average
  /\ UNCHANGED m_timeMean

Loaded(file) ==
  /\ m_average_size' = AverageOf[file]
  /\ UpdateRateDistribution(m_rate, AverageOf[file])
  /\ m_sizeDist' = SizesOf[file] /\ loadOk' = TRUE

\* A failed extraction stores 0, except from a stream with nothing to extract:
\* then the average keeps its value.
SetDistribution(file) ==
  /\ sim = "running" /\ file # m_filename
  /\ m_filename' = file
  /\ \/ file \in Missing /\ LoadFailed(m_average_size)
     \/ file \in Garbage /\ LoadFailed(0)
     \/ file \in Readable /\ Loaded(file)
  /\ UNCHANGED <<simVars, sockVars, sendVars, m_socket, m_connected, m_sendEvent, life,
                 m_tid, m_rate>>

-----------------------------------------------------------------------------
(* The event handlers.  Each is given the queue without the event served.  *)

\* Draws a waiting time; a mean computed from an average of 0 is 0.
ScheduleNextTx(q, t) ==
  \E wait \in (IF m_timeMean.average = 0 THEN {0} ELSE Waits) :
     /\ wait = 0 => (m_timeMean.average = 0 \/ Len(tx) < MaxMsgs)
     /\ queue' = q \union {[uid |-> nextUid, at |-> t + wait, kind |-> "send"]}
     /\ m_sendEvent' = nextUid
     /\ nextUid' = nextUid + 1

\* UDP is connected when Connect returns, and its callback is set too late to
\* hear of it.  TCP answers later.
Connect ==
  /\ m_socket' = TRUE
  /\ conn' = IF m_tid = "udp" THEN "established" ELSE "connecting"
  /\ UNCHANGED <<buffered, closing>>

\* A TCP socket with bytes still to be sent closes once they have left.
Close ==
  \/ /\ conn = "connecting" => buffered = 0
     /\ conn' = "closed" /\ UNCHANGED closing
  \/ /\ buffered > 0 /\ conn \in {"connecting", "established"}
     /\ closing' = TRUE /\ UNCHANGED conn

Abort(q, t) ==
  /\ sim' = "aborted" /\ now' = t /\ queue' = q
  /\ UNCHANGED <<nextUid, sockVars, configVars, sendVars,
                 m_socket, m_connected, m_sendEvent, life>>

StartApplication(e) ==
  LET rest == queue \ {e} IN
  \/ ~m_socket /\ Abort(rest, e.at)                        \* Bind failed
  \/ /\ IF m_socket THEN UNCHANGED <<m_socket, sockVars>> ELSE Connect
     /\ ScheduleNextTx(Cancelled(rest, m_sendEvent), e.at)
     /\ now' = e.at /\ life' = "started"
     /\ UNCHANGED <<sim, configVars, sendVars, m_connected>>

StopApplication(e) ==
  /\ queue' = Cancelled(queue \ {e}, m_sendEvent)
  /\ IF m_socket THEN Close ELSE UNCHANGED <<conn, closing>>
  /\ now' = e.at
  /\ life' = IF life = "started" THEN "stopped" ELSE life
  /\ UNCHANGED <<nextUid, sim, buffered, configVars, sendVars,
                 m_socket, m_connected, m_sendEvent>>

\* A message goes in whole or is refused whole.  TCP takes data while it is
\* still connecting; it refuses it once it failed, closed, or has no room.
SocketAccepts(size) ==
  IF m_tid = "udp" THEN conn = "established" /\ size <= MaxDatagram
                   ELSE conn \in {"connecting", "established"} /\ buffered + size <= SndBufSize

\* Mutant: the counter is wider than the tag it is copied to.
MutantIdUnbounded(id) == id + 1

\* Mutant: the counter sticks at its largest value.
MutantIdSaturates(id) == IF id = IdSpace - 1 THEN id ELSE id + 1

NextId(id) == (id + 1) % IdSpace

\* A draw from a distribution without entries ends the program.  The result of
\* Send is not looked at: a refused message has used up its id all the same.
SendPacket(e) ==
  LET rest == queue \ {e} IN
  \/ m_sizeDist = {} /\ Abort(rest, e.at)
  \/ /\ \E size \in m_sizeDist :
          LET taken == SocketAccepts(size) IN
          /\ tx' = Append(tx, [id |-> m_counter, at |-> e.at, taken |-> taken])
          /\ buffered' = IF taken /\ m_tid = "tcp" THEN buffered + size ELSE buffered
     /\ m_counter' = NextId(m_counter)
     /\ m_lastStartTime' = e.at
     /\ ScheduleNextTx(rest, e.at)
     /\ now' = e.at
     /\ UNCHANGED <<sim, conn, closing, configVars, m_socket, m_connected, life>>

\* Simulator::Stop: Run returns, and whatever is still queued never runs.
SimulatorStop(e) ==
  /\ sim' = "over" /\ now' = e.at /\ queue' = queue \ {e}
  /\ UNCHANGED <<nextUid, sockVars, configVars, sendVars,
                 m_socket, m_connected, m_sendEvent, life>>

ServeEvent ==
  \E e \in queue :
     /\ sim = "running" /\ IsNext(e)
     /\ \/ e.kind = "start" /\ StartApplication(e)
        \/ e.kind = "stop" /\ StopApplication(e)
        \/ e.kind = "send" /\ SendPacket(e)
        \/ e.kind = "simstop" /\ SimulatorStop(e)

\* Mutant: the socket is dropped under a pending transmission.
MutantDisposeKeepsEvent ==
  /\ sim = "over" /\ sim' = "destroyed"
  /\ m_socket' = FALSE
  /\ UNCHANGED <<now, queue, nextUid, sockVars, configVars, sendVars,
                 m_connected, m_sendEvent, life>>

\* Simulator::Destroy disposes of the application.
DoDispose ==
  /\ sim = "over" /\ sim' = "destroyed"
  /\ queue' = Cancelled(queue, m_sendEvent)
  /\ m_socket' = FALSE
  /\ UNCHANGED <<now, nextUid, sockVars, configVars, sendVars, m_connected, m_sendEvent, life>>

-----------------------------------------------------------------------------
(* The socket's own steps, at any moment while the simulation runs.        *)

ConnectionSucceeded ==
  /\ sim = "running" /\ conn = "connecting"
  /\ conn' = "established" /\ m_connected' = TRUE
  /\ UNCHANGED <<simVars, buffered, closing, configVars, sendVars, m_socket, m_sendEvent, life>>

ConnectionFailed ==
  /\ sim = "running" /\ conn = "connecting"
  /\ conn' = "failed"
  /\ UNCHANGED <<simVars, buffered, closing, configVars, sendVars,
                 m_socket, m_connected, m_sendEvent, life>>

\* Acknowledged bytes leave the send buffer, also after a Close.
Acknowledge ==
  /\ sim = "running" /\ conn \in {"established", "closed"}
  /\ \E left \in 0 .. buffered - 1 :
        /\ buffered' = left
        /\ conn' = IF closing /\ left = 0 THEN "closed" ELSE conn
  /\ UNCHANGED <<simVars, closing, configVars, sendVars,
                 m_socket, m_connected, m_sendEvent, life>>

Next ==
  \/ \E rate \in Rates : SetRate(rate)
  \/ \E file \in Files : SetDistribution(file)
  \/ ServeEvent
  \/ DoDispose
  \/ ConnectionSucceeded
  \/ ConnectionFailed
  \/ Acknowledge

Spec == Init /\ [][Next]_vars

-----------------------------------------------------------------------------
(* Properties.                                                             *)

\* Every variable keeps its type (the fields declared in cdf-application.h).
TypeOK ==
  /\ now \in Nat /\ nextUid \in Nat /\ queue \subseteq Event
  /\ sim \in {"running", "over", "destroyed", "aborted"}
  /\ conn \in {"none", "connecting", "established", "failed", "closed"}
  /\ buffered \in Nat /\ closing \in BOOLEAN
  /\ m_socket \in BOOLEAN /\ m_connected \in BOOLEAN /\ m_sendEvent \in Nat
  /\ m_counter \in 0 .. IdSpace - 1 /\ m_lastStartTime \in Nat
  /\ m_tid \in {"tcp", "udp"} /\ m_rate \in Rates
  /\ m_filename \in Files \union {NoFile} /\ m_average_size \in Nat
  /\ m_sizeDist \subseteq Nat
  /\ m_timeMean \in [rate : Rates, average : Nat]
  /\ life \in {"idle", "started", "stopped"} /\ loadOk \in BOOLEAN
  /\ tx \in Seq([id : 0 .. IdSpace - 1, at : Nat, taken : BOOLEAN])

\* The chain of self-scheduled transmissions neither forks nor dies: while the
\* application runs exactly one SendPacket is pending and m_sendEvent names it
\* (so NS_ASSERT(m_sendEvent.IsExpired()) holds when it is served, and
\* CancelEvents cancels the right event); before the start and after the stop
\* there is none.
ChainIntact ==
  /\ sim = "running" =>
       IF life = "started" THEN \E e \in queue : SendEvents = {e} ELSE SendEvents = {}
  /\ \A e \in SendEvents : e.uid = m_sendEvent

\* SendPacket dereferences m_socket: whenever it may still be served, the
\* socket exists and StopApplication has not closed it; nothing is left
\* pending once DoDispose has dropped the socket.
SendHasSocket ==
  /\ sim = "running" /\ SendEvents # {} => m_socket /\ conn \notin {"none", "closed"} /\ ~closing
  /\ ~m_socket => SendEvents = {}

\* The message ids are the positions in the stream modulo the width of the
\* counter (refused messages included), the times never go back, and
\* m_lastStartTime is the time of the last message.
Numbered ==
  /\ m_counter = Len(tx) % IdSpace
  /\ \A i \in 1 .. Len(tx) : tx[i].id = (i - 1) % IdSpace
  /\ \A i, j \in 1 .. Len(tx) : i < j => tx[i].at <= tx[j].at
  /\ \A i \in 1 .. Len(tx) : tx[i].at <= m_lastStartTime
  /\ m_lastStartTime <= now

\* The mean waiting time belongs to the rate and the average in force, unless
\* the last file could not be read; in that case no message is made.
MeanFresh ==
  \/ m_timeMean = MeanOf(m_rate, m_average_size)
  \/ ~loadOk /\ m_sizeDist = {}

\* A step never makes a message from an application whose last distribution
\* failed to load, nor outside the interval between start and stop, and never
\* more than one.
MessagesOnlyWhenReady ==
  [][ tx' # tx => /\ sim = "running" /\ life = "started" /\ loadOk
                  /\ Len(tx') = Len(tx) + 1 ]_vars

\* The application implements the numbered message stream.
Source == INSTANCE MessageSource WITH
  phase <- IF sim # "running" \/ life = "stopped" THEN "quiet"
           ELSE IF life = "idle" THEN "idle" ELSE "active",
  out <- [i \in DOMAIN tx |-> [id |-> tx[i].id, at |-> tx[i].at]]

ImplementsSource == Source!Spec

-----------------------------------------------------------------------------
(* The inductive strengthening of ChainIntact and SendHasSocket.           *)

LifecycleInv ==
  /\ \A e \in queue : e.at >= now
  /\ \A e, f \in queue : e.kind = f.kind => e = f
  /\ \A e \in queue : e.kind = "start" => life = "idle"
  /\ \A e \in queue : e.kind = "send" =>
        e.uid = m_sendEvent /\ m_socket /\ life = "started"
  /\ life = "idle" => ~m_socket
  /\ life = "started" /\ sim = "running" =>
        m_socket /\ \E e \in queue : e.kind = "send"
  /\ m_socket => conn # "none"
  /\ conn = "closed" \/ closing => life = "stopped"

LoadInv == MeanFresh /\ (m_sizeDist # {} => loadOk)

-----------------------------------------------------------------------------
(* What the documentation says.                                            *)

\* cdf-application.cc:177: "If we are not yet connected, there is nothing to do
\* here.  The ConnectionComplete upcall will start timers at that time."
TimersWaitForConnection == sim = "running" /\ SendEvents # {} => m_connected

\* cdf-application.cc:90: the Tx trace reports that "A new packet is created
\* and is sent".
TracedMeansSent == \A i \in 1 .. Len(tx) : tx[i].taken
=============================================================================
