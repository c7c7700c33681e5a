# Verification of the NTT data generator

TLA+ modules for the ns-3 data generator in this repository: the traffic and
probing applications, the experiment programs that wire them together, the scripts
that run the programs in a container and evaluate their logs, and the generator of
the Python bindings that is part of the build.  Everything the modules
say is translated from the source; the parts of ns-3 the source relies on are
modelled from how the source uses them and marked external in `PROJECT.json`.

## 1. Inventory

| Component | State | Operations | Interacts with |
|---|---|---|---|
| `CdfApplication` (`ntt-generator/model/cdf-application.*`) | socket, connected flag, pending event, message counter, rate, file name, average size, size distribution, mean waiting time | `SetRate`, `SetDistribution`, `StartApplication`, `StopApplication`, `SendPacket`/`ScheduleNextTx`, `ConnectionSucceeded/Failed`, `DoDispose` | event queue, socket, `Tx` trace (`setIdTag` in the mains) |
| `ProbingClient`, `ProbingServer` (`ntt-generator/model/probing-*`) | sockets, burst and packet counters, pending event | start, stop, `Send`, two `HandleRead`s | each other over UDP; `RTT` trace written by `simulation/probing_test.cc` |
| Tags (`experiment-tags.h`) | workload and application id, message id, time of the last transmission | set and read in trace callbacks | ride on packets through TCP |
| Experiment programs (`simulation/trafficgen*.cc`) | command-line parameters, nodes, links, queues, applications, log files | parse, build, connect traces, run; callbacks `setTimeTag`, `setIdTag`, `logPacketInfo`, `logValue`, `logDrop` | applications, queues, files under `results/` |
| Run scripts and container (`run_topo*.sh`, `docker-run.sh`) | container, owner of its files, output directories, logs | make the directory, start or create the container, `chown`, build and run one experiment | terminals share the container and the directories; programs through their flags |
| Evaluation (`eval.py`) | tables read from three logs | read packet, queue and drop log, print, read the packet log again | logs of possibly several runs, possibly still growing |
| Visualisation (`visualise.py`, `visualise_switches.py`) | tables, cached `_final.csv` files, renamed logs | make or reuse tables, repair headers, rename logs, plot | logs the user copied into a folder named after the experiment |
| Python bindings (`ntt-generator/bindings/*`, `wscript`) | registry of types and callbacks | register types, then methods and parameters; skip a wrapper whose type is unknown | waf runs them before every simulation if PyBindGen is there |
| Examples, notebook | none of their own | straight-line set-up, plots of the distributions | not modelled |

Hard behaviours: one event queue drives everything, so the order of events due
together matters; sockets answer late, refuse, or fail; TCP merges, splits and
retransmits what carries the tags; queues drop; runs share files; programs and
scripts disagree on names and parameters.  `PROJECT.json` lists each hazard at
its line, with the properties that would catch it.

What makes each component correct:

* `CdfApplication`: the self-scheduling chain neither forks nor dies; nothing is
  sent before start, after stop or after dispose; messages are numbered
  consecutively in time order; the waiting time belongs to the rate and the file
  in force.
* Probing: every RTT in the trace is true and belongs to one probe; every probe
  is in the trace, lost or under way, exactly once; bursts stay on their grid.
* Traffic pipeline: each line of the packet log can be found in its sender's log,
  with a delay that is that of this very transmission; no byte of a message is
  lost or repeated by merging and splitting; each application sees a channel that
  loses but never reorders; queue and drop log agree with the queues.
* Deployment: sinks do not claim the same address, sources find their sinks, the
  key of a log line names one source, and the load is the one asked for.
* Network: switches learn nothing wrong, data is not flooded, congestion touches
  only its receiver's traffic, every receiver is reached; the queues configured
  are those on the path to a receiver (they are not, see Findings).
* Scripts and container: a script finds the container's files its user's own unless
  something was lost; a parameter given is the one used (the seed is not, see Findings).
* Evaluation: it reads its three logs one after the other, and one of them twice, while
  simulations write them.  Packets are of the seed asked for; queues and drops are
  of the large topology.  With both `BIG` and `TEST` set so are all packets, and what is read
  later is not older than the packets read first.  It may be newer: queue and drop logs have
  one name for all runs.
* Visualisation: a report is on the seed it says it is on; no record is lost or
  invented by the repair of headers or by a cached table; an interruption takes away no
  file that a later execution looks for.
* Bindings: each registration finds what it looks up, or waf builds nothing.  The lists
  bind classes of ns-3, none of this repository, so that no property is stated about
  them; the model asks them whether the build succeeds.

## 2. Plan

| Order | Module | Content | State |
|---|---|---|---|
| 1 | `MessageSource` | abstract: a numbered stream between one start and one stop | done |
| 2 | `CdfApplication` (+ `MC`, `_proofs`) | the traffic application on event queue and socket; implements `MessageSource` | done, proved |
| 3 | `Probing` (+ `MC`, `_proofs`) | clients, server, lossy network, RTT trace | done, proved |
| 4 | `LossyFifo` | abstract: per application a channel that keeps the order and counts its losses | done |
| 5 | `SegmentTags`, `TrafficPipeline` (+ `MC`, `_proofs`) | messages to TCP segments with tags, stamps, drop-tail queues, congestion traffic, the logs; implements `LossyFifo` | done, proved |
| 6 | `Deployment` (+ `MC`, `_proofs`) | which applications the four programs install, and when they start | done, proved |
| 7 | `RoutedNetwork`, `SwitchedNetwork` (+ `MC`, `_proofs`) | abstract: one fixed list of devices per flow; links in the order of installation, device numbers, queue configuration, learning switches, address resolution; implements `RoutedNetwork` | done, proved |
| 8 | `ResultFiles`, `DockerRunner` | scripts, seeds, output directories and files of successive and simultaneous runs; life of the container | done |
| 9 | `Evaluation`, `Visualisation` | reading, repair and caching of tables | done |
| 10 | `BindingTypes`, `BindingMethods`, `Bindings` | registration of types and generation of wrappers, in order: whether the build gets past them | done |
| 11 | `Experiments` (+ `MC`, `_proofs`) | composition of 8 to 10 | done, proved |

`TrafficPipeline` composes the message stream of `CdfApplication` (its action
`SendPacket`), the buffer operations of `SegmentTags` and the devices; it takes
the route of a packet as a constant without repetition, which `SwitchedNetwork`
justifies (`ImplementsRoutes`), and the set of sources, which `Deployment`
justifies (`RowNamesSource`).

`Experiments` composes `DockerRunner` (which extends `ResultFiles` and asks
`Bindings` whether the build succeeds), `Evaluation` and `Visualisation`; they share
the variables of `ResultFiles`: `files`, `folders`, `runs`.

Every invariant and action property that a passing run checks is a theorem (section 6).

## 3. Modules

### CdfApplication

One application in one simulation.  `queue` holds timed events served in
(time, uid) order; an event is taken out before its handler runs, as in
`Simulator::Run`.  The start, the optional stop and the end of the simulation are
there from the beginning with the smallest uids, because `Simulator::Stop` is
called before `Run` and the base class `Application` schedules the other two when
it is initialised.  `m_sendEvent` is the uid of the event last scheduled.

| Action | Code |
|---|---|
| `SetRate`, `SetDistribution` (`LoadFailed`, `Loaded`) | the two attribute setters, at any moment |
| `StartApplication`, `Connect` | creation of the socket, `CancelEvents`, first `ScheduleNextTx` |
| `SendPacket` | draw a size (an empty distribution aborts), trace, number, `Send`, reschedule |
| `StopApplication`, `Close` | cancel, close; a TCP socket with unsent bytes closes later |
| `ConnectionSucceeded`, `ConnectionFailed`, `Acknowledge` | the socket's own steps, any time |
| `SimulatorStop`, `DoDispose` | end of `Run`; `Destroy` |

Data abstracted: a distribution is the set of sizes it lists, a draw any element
of the set; the mean waiting time is the pair (rate, average) it is computed
from, so that a stale mean cannot be confused with a fresh one; a draw of the
waiting time is any element of `Waits`, 0 when the average is 0.  `life`, `loadOk`
and `tx` are history variables.

### Probing

Clients with their own interval and burst size, one server.  Pending events are
times; `Tick` moves the clock only when nothing is due.  Order of events due
together: the end of the simulation, a start, a stop, a transmission.  `net` is a
set from which any datagram may be delivered or lost at any time, which covers
every delay and reordering; a datagram that finds no socket is lost.  `lost` and
`firstAt` are history variables.

### TrafficPipeline, SegmentTags, LossyFifo

One run of a `trafficgen` program, from the messages to the logs.  A message is a
byte range; `appList` and `sentList` are the two lists of the socket's send
buffer, and an item carries the message tag of the packet it was made of.
`SegmentTags` says what merging, splitting and trimming do to items and tags.  A
device has a packet being transmitted (`current`), a drop-tail queue and a wire
that keeps the order.

| Action | Code |
|---|---|
| `SendPacket` | `CdfApplication::SendPacket` with `setIdTag` on its `Tx` trace |
| `SendSyn`, `SendNewData`, `Retransmit`, `ReceivedAck` | the TCP socket, when its congestion control decides to; the guard leaves the moment open |
| `MacTx` (part of the three that send) | the sender's device: `setTimeTag`, then `logSenderPacket`, then the queue |
| `SendCongestion` | the congestion application, whose device has no trace |
| `SendFrom`, `TransmitComplete` | the queue with `logValue`, the drop with `logDrop` |
| `Arrive` | forwarding by a switch, or `logPacketInfo` at the receiver and then TCP |
| `Tick`, `EndOfSimulation` | the clock, `Simulator::Stop` |

Stamps and ids are those of `experiment-tags.h`; a packet without a tag has `NoTag`
or `NoId`.  `messages` and `sent` are history variables.  Logs are kept as far as
the properties look at them: the last line and the number of lines per source
of the packet log, the last value per device of the queue log, the lines per
application of the drop log, the sender's log as a set.

Acknowledgements travel back without queues of their own (`acks`) and may be
applied in any order or not at all, which covers their loss and delay.

### Deployment

`flags` is the command line.  A block of code (`Block1` ... `LargeBlock9`, one
definition each, because each is a copy that could differ) names receiver, first
port and group of senders; `Sinks`, `Sources` and `CongestionSources` are what it
installs.  `StartSink`, `StartSource`, `Tick` and `EndOfSimulation` start it: sinks at
time zero, sources at some time of the window.  A sink whose address is taken
ends the program (`aborted`), as `PacketSink` does.

### SwitchedNetwork, RoutedNetwork

`Links` lists the links in the order of `csma.Install`; `Device` derives the number
of a device from it and `QueueSet` the devices that `Config::Set` reaches.
Frames are requests, replies and data.

| Action | Code |
|---|---|
| `Resolve`, `Answer`, `Accept` | address resolution of the hosts' internet stack |
| `Send` | a datagram, once the address is known |
| `Forward` | `BridgeNetDevice`: learn the source's port, forward or flood |
| `Receive` | a frame reaches a host |

A copy that a host would discard is not kept.  All senders of a group hang on the
same switch, so one stands for all of them.

`RoutedNetwork` is what `TrafficPipeline` takes for granted of a network: every flow has
a list of devices from the start, none of them twice, and each of its datagrams
passes these one after the other and arrives once.  Its step `Enter` is a `Send`, `Pass` a
`Forward` of a data frame, `Arrive` an `Accept` of one; `Route` follows the links
from the sender to the side where the receiver is, and `UnderWay` is the set of data frames
with the devices in `via`.

### ResultFiles, DockerRunner

A file is a tuple (folder, stem, part, seed, kind); its content is the set of runs
that wrote to it, its records and whether the writing was cut short.  `Logs` says
which files a program opens, which truncates them (`OpenLogs`).

What a simulation logs reaches the disk while it runs.  `logValue` and `logDrop` end a
line with `std::endl`, so that queue and drop logs grow line by line (`WriteLine`); the
lines of the others end with `\n` and reach the disk in blocks (`WriteBlock`), which leaves
open how many of them there are at any moment, none included.  When the container is
stopped, what is not on the disk is lost (`Down`).  Abstracted: the logs written in blocks
grow together; a row written in part counts as a row; a queue or drop log of a finished
simulation has `Lines` rows, any other `Records`.  Two running programs with a log in
common each write at a place of their own, over or beyond the other's rows: of such a log any
number of rows may be left.

| Action | Code |
|---|---|
| `RunScript` | a `run_topo*.sh` in a terminal: `mkdir -p`, then `docker-run.sh` |
| `Start`, `Create`, `CreateFails`, `Chown` | `docker start \|\| docker run && docker exec chown`, each hiding its errors |
| `Exec` | `docker exec`: build (denied if root owns the files, failing with the bindings), open the logs, simulate |
| `Trace` | `logValue`, `logDrop`, `logPacketInfo`: what they write reaches the disk |
| `EndSimulation`, `EndScript` | the rest is written and streams are closed; a script that failed, or Ctrl-C |
| `Down` | the container stopped or removed from outside, at any time |

`lost` is a history variable.

### Evaluation, Visualisation

| Action | Code |
|---|---|
| `EvalStart`, `EvalPackets`, `EvalQueues`, `EvalFraction`, `EvalReceivers`, `EvalEnd` | `eval.py` from top to bottom, one action per file it reads |
| `Begin` | arguments, name of the folder, `makedirs` |
| `MakeTable` (`GenerateSendersCsv`, `Repaired`, `Stored`) | `generate_senders_csv` or `read_csv` of the cached table |
| `SenderStep` | `configure_sender_csv` for each sender |
| `Plot` (`Plottable`) | `timeseries_plot`, which compares times and fails on text |
| `QueueStep`, `DropsOfSeed`, `DropsRenamed`, `Rates` | renaming and reading of queue and drop logs; sending rates |
| `KilledMakingTable`, `KilledMakingSender`, `KilledBetween` | Ctrl-C while a table is written, or between two steps |
| `Collect` | the user copies logs into the folder that a command line names |

The two visualisation programs are one module: their `main` differ in the list of
logs, the order of plot and tables, and the drop log.  A record is known by the log
it comes from and its number; `text` marks the one that `np.vstack` put back from the
header, whose fields are strings until the table has been stored and read again.

### Bindings

`BindingTypes` lists the type registrations of `modulegen__gcc_LP64.py` in their order,
each with the types it looks up in `root_module`; `BindingMethods` what each page of
wrappers looks up, and its parameter types and callback signatures.  `main` runs them: a
lookup that fails ends the generator, and with it the build of every script
(`CanBuild`).  What PyBindGen can convert is external: `handle_error` takes the set of C++
types it knows by itself and gives the pages with wrappers that are left out with a
warning.  Names, headers and aliases that no lookup asks for are left out.

### Experiments

The composition: `Simulate` (scripts in terminals, the container), `Evaluate`,
`Visualise` and `MakeFolder` (the directory that no script makes).  Scripts overlap with
each other and with the evaluation, step by step.  The visualisation has the folders it
works in to itself: it runs while there is neither a script nor an evaluation, and may
be interrupted at any step; the simulations between two executions may replace what its
tables were made of.  `campaign` says what the user is out for and never changes.

## 4. Runs

| Run | Expect | Shows | Bounds |
|---|---|---|---|
| `cdf_app` | pass | chain, socket, numbering, mean, readiness, implementation of `MessageSource` | simulation of 3 ticks, starts at 1 or 2, stops at 1, 2 or never (so also before, together with and after the start); two good files, one of them with a message larger than the send buffer, one missing, one malformed; counter of width 2 so that it wraps; waiting times 0 and 1, 0 only while fewer than `MaxMsgs` messages exist |
| `cdf_app_timers` | violation | messages are sent while connecting, or with no connection at all | same |
| `cdf_app_traced` | violation | a traced, numbered message may have been refused | same |
| `probing` | pass | true RTTs, exact accounting, no drift, no late measurement, every datagram resolved | two clients (pairs every 3 ticks, single probes every 2), 3 ticks, starts at 0 or 1, stops at 2 or never, for the server too |
| `pipeline` | pass | agreement of the four logs with each other and with what happened, implementation of `LossyFifo`, draining | one source of two messages (1 or 3 bytes, segments of 2, so that messages are merged and split), 4 packets, switches that hold one packet, one congestion packet, 1 tick: losses at either switch, retransmission of what arrived, of what was lost, and merged retransmission |
| `pipeline_ids` | violation | message ids are not preserved | same |
| `deployment` | pass | addresses, keys, start order, load | two applications in the programs with one or three blocks, one in the program with nine; every workload, with and without congestion; window of 2, end at 3 |
| `deployment_congestion` | violation | congestion ends the large program | same |
| `network` | pass | tables, flooding, isolation of congestion, implementation of `RoutedNetwork`, reachability | all three networks, both values of `topo`, in each one to three sets of two or three flows that share a receiver, oppose or cross each other; one sender per group; one data frame per flow, two for some |
| `network_queue` | violation | queues on the way to receivers 2 and 3 keep their default size | same |
| `experiments` | pass | owner of the files; what the evaluation finds when logs grow, are opened anew and shared between its reads; which seed, packets and ports are reported; nothing lost by repair and caching; completion after kills | two terminals (symmetric), two runs, seeds 1 and 2, one kill, logs of two records (queue and drop logs of one), one campaign at a time |
| `experiments_seed` | violation | the small program ignores its seed | same |

In these runs a behaviour belongs to one of six campaigns, for the programs of different
campaigns share the container and no file.  Three are evaluations: the large program and
the one without disturbance with `TEST` unset, for the steps of the evaluation; the large
program with two seeds; the large program and the small one, with `BIG` set and unset.  Three
are visualisations: one sender with two seeds and three senders for `visualise.py`, six
senders for `visualise_switches.py`.  `atOnce` says how many scripts a campaign runs at a
time: two for the large program with two seeds, and in `experiments_seed`, where nothing
is read; one in the others, but in either terminal.  Two scripts and two runs are what it takes to race for the
container, to open a log anew that is being read, and to mix two runs in one log; a
second run after the first is enough to replace a log that a table was made of.  Two
records are the fewest that a header can be repaired from, and that a log can grow by
while it is read; one kill leaves a table cut short, a log renamed or some tables made.

What the properties of these runs do not say.  `RerunCompletes` is about missing files
only: a kill that leaves a table as a file with nothing in it stops later executions, which
find it there and cannot read it (`unreadable`), until someone removes it.
`PacketsCounted` leaves out tables that a kill cut short and tables of an earlier
simulation: both are reused as they are.  `ReportOfSeed` and `ReadsNoOlder` are about the
seed and the order of simulations, not about the drop fraction: packets and drops
may be of different simulations, the drops of the newer.  `ReadsNoOlder` says nothing of an
evaluation with `BIG` unset, whose queue and drop logs are of another program than its
packets (section 5).
`DataNotFlooded` counts frames that are under way; a frame that a host would discard is
dropped at once, so that flooding which reaches only hosts of the last switch is not
seen.

The bounds are the smallest at which two transmissions, a wrap of the counter, a
refusal, a reconfiguration between two transmissions, and every order of start,
stop and transmission occur.  Deadlock is not checked: a simulation ends.

Every property of a passing run has a mutant (`Mutant...` operators beside the
definition they replace): a plausible bug under which TLC refutes the property.

Fairness says, wherever it is assumed, that `Simulator::Run` serves every
scheduled event in the end, and nothing else: `WF(Deliver)` and
`WF(EndOfSimulation)` in `probing`; the end of each transmission and of each
propagation in `pipeline`; the arrival of frames in `network`.  Nothing forces the
clock to advance, an application to send, TCP to retransmit or the network to be
kind.

## 5. Findings

* `StartApplication` starts the timers although its comment says that an
  unconnected application leaves that to `ConnectionComplete`.
* `SendPacket` ignores the result of `Send`: messages the send buffer refuses are
  traced as sent and leave holes in the message ids.  With the shipped Hadoop
  distribution (messages up to 10 MB) and the configured buffer (4 MB) that is
  every large message.
* A message id is not preserved: the remainder of a message that was merged with
  the end of the previous one is logged under the previous id.
* In the large program the congestion block is repeated for each group of senders
  and claims the same port: any congestion flag ends the program at its start.
* `queuesize` is set on device 0 of switches D and G, which by the order of the
  links faces away from receivers 2 and 3.
* `trafficgen_small` parses the seed into a parameter passed by value: every run uses
  seed 1, whatever the name of its log says.

Observed while modelling, without a run of their own:

* The receiver's log prints the time of reception under the label "Tx sent at:", which
  in the sender's log is the time of transmission.
* `--rst` and `--infinitedata` are of type `bool`: `--rst False` counts as given.  With
  three senders either of them leads to the same folder.
* Folders without a seed in their name mix the queue logs of several seeds, because the
  queue log loses its seed when it is renamed (`ReportOfSeed` excludes them).
* `eval.py` reads `queue.csv` and `drops.csv` also beside the logs of the small program,
  which writes `queue_status.csv` and `drop_pkts.csv`: with `BIG` unset its queue plots and
  drop fraction are of the large topology, if that was ever simulated.
* `eval.py` loses the first record of each packet log to the header.
* `run_topo_large_tests.sh` makes `results_test`, but its program writes to
  `results_test_large` and ends if that is not there.
* A first execution of `visualise_switches.py` ends with a type error, because the tables
  it has just repaired hold text; the second, from the cached tables, succeeds.

## 6. Proofs

`CdfApplication_proofs` proves, for all constants that satisfy
`ConfigurationAssumption`, the type invariant and every safety property of
`cdf_app`:

* `LifecycleInv` strengthens `ChainIntact` and `SendHasSocket`.  They are not
  inductive alone: that a start finds no pending transmission needs "at most one
  event of each kind" and "a pending start means not yet started"; that a
  transmission finds an open socket needs "closed or closing means stopped".
* `LoadInv` adds to `MeanFresh` that sizes are present only after a successful
  load.
* `Numbered` is inductive given `LifecycleInv`, which says that no event lies in
  the past; `ModuloSuccessor` carries the counter over the wrap.
* `Implements` maps a step to `Begin`, `Emit`, `End` or a stutter of
  `MessageSource`; `PhaseStep`, `OverIsForEver` and `StoppedIsForEver` say how the
  phase may move, `EmitStep` that a message is appended.

`Probing_proofs` proves the type invariant and every safety property of `probing`
for any number of clients, any intervals and burst sizes, and a network that
loses, delays and reorders at will:

* `OnSchedule` is `SendHasSocket` and `NoDrift`.  `ClientInv` is `NoDrift` with `ScheduleInv`: a pending burst is never overdue and
  exists only on a client that has started and has a socket.  Without it a burst
  could be sent after its time and leave the grid.  `SendHasSocket` follows too.
* `TraceInv` adds to `TrueRtt` what a probe under way carries (`PayloadInv`): its
  time stamp is the one its burst had on the grid, on the way back as well.
  That makes the measurement independent of the order of arrival.
* `PlacesInv` says where a probe can be, one clause for each pair of places (under
  way, lost, traced), and that bursts not yet sent are nowhere; `AccountedOnce`
  follows by `PlacesImplyAccounted`.
* `MeasuredWhileRunning` follows from `ClientInv`: a socket is open exactly while a
  burst is pending.

`TrafficPipeline_proofs` proves, for any sources, devices, routes, queue and segment
sizes and message lengths, the type invariant, every other property of the pipeline,
and that it implements `LossyFifo`.  `IInv` has three parts, none of which is inductive alone:

* `DevicesOK`: what is at the devices is of the right type, every packet has the device
  on its route, a queue has a length up to its size, which is the one logged, and is empty
  while nothing is transmitted.
* `Streams`: per source, the two lists of the send buffer together cover the
  bytes from the first that is not acknowledged to the end, without a gap; the
  receiver has all before it; the messages before the one an item's tag names are
  over where the item starts (`TagOK`).  `StreamIntact` follows.
  The clause about the receiver is needed for acknowledgements, which may
  come in any order and late.
* `Flights`: every packet under way is a handshake or part of what was sent, has its
  time and number in the sender's log, and the packets of one source are under way in
  the order of their times, all of them not before the last line logged.
  `JoinsSenderLog` and `SendTimesInOrder` follow.

What a step does to the packets of an application is said once (`Step`): it leaves them
alone, appends one, drops one, or removes the first, with its line in the log.
This takes the route as one list: the packets at its devices, joined from the receiver
backwards (`Line`, `OfApp`, `Joined`), so that going from a device to the next
changes nothing (`PacketLists_proofs`).  It holds because no route passes a device twice, which
`PipelineAssumption` demands and every network of the programs grants
(`ImplementsRoutes` of `SwitchedNetwork`).
The same summary is what maps to `Enter`, `Leave`, `Lose`, `Refuse` or a stutter of `LossyFifo`.

`OfApp` and `Joined` are recursive functions; what they do to a list of any length
is proved by induction.  `SequenceLemmas` derives induction for sets of numbers
and of sequences from the library's theorem that a well-founded relation has minimal
elements (`WFMin`); the library's own induction theorems take an operator as a parameter and cannot be used.

`Deployment_proofs` proves, for any command lines, start window and length of the
simulation:

* `SinkBeforeSource`, from `SinkInv`: the addresses in use are those of the sinks
  started, and time passes once all sinks are.
* `RowNamesSource`, which is a fact about the blocks (`BlocksApart`: receiver and
  group name a block) and about the numbering of sources (`SourcesApart`).
* `LoadAsAsked` under `WindowSuffices`: the start window ends before the simulation
  does, as in every program unless the flag asks otherwise (its default is 1 s, a
  simulation lasts 30 or 60).  `LoadInv` says that whoever is due has started; that
  there is one sender per application is a bijection between the two
  (`OneSenderEach`, `LoadOfBlock`).
* `AddressesFree` under `AddressesSuffice`: at most 3000 applications, the distance
  of two blocks' ports, and no congestion in the large program.  The second
  condition cannot be dropped (run `deployment_congestion`).

`SwitchedNetwork_proofs` proves the type invariant, every safety property of
`SwitchedNetwork` and that it implements `RoutedNetwork`, for the three programs in both topologies, with any number of senders
per group, any flows between hosts and any number of data frames:

* The links are a tree (`NetworkTree`).  The trunk of switches, receivers and
  sources of congestion is one by its explicit list, and `HangHosts` adds any number of
  hosts to a switch; `IsTree` gives every node but `A` one link to the node above it
  and a depth.  So every link cuts the network in two sides (`Cuts`), the sides
  behind a node's links do not meet (`SidesApart`) and are all there is (`SidesAround`), and a host
  has one link, to a switch (`HostPort`).  None of this holds with both links that
  the flag `topo` chooses from, or with neither.
* `Side` of the model follows links as many times as there are links.  That is enough: what
  is reached grows until it is closed (`Settled`), and a tree has at most one node more than
  links (`FewPlaces`).  So `Side` is the side of the cut (`SideIsBeyond`).
* `IInv` is about frames on their way.  `Heading`: a frame has its source behind the
  link it arrived by, a data frame its destination behind another.  `Trail`: every
  switch between a frame and its source has heard the source.  `TablesTrue` follows from the
  first.  `KnownOK` keeps what is left of the second when the answer has arrived: all
  switches between sender and receiver have heard the receiver.  Hence `DataWay`:
  a data frame finds its way in every table, so that there is one copy (`CountOK`), and
  `DataNotFlooded` follows.
* Data frames have to be told apart for that count: equal frames would be one element
  of a set.  `CountOK` says that those of a flow have different numbers, `FrameOK` that these are
  below the next.
* `CongestionLocal` follows from `Explicit`, which says where a frame of congestion can be:
  `CongestionNear` finds source and receiver at one switch in every network.
* `ImplementsRoutes`.  `Way` and `Route` of the model take as many steps as there are links.  That
  is enough: the way stays on the far side of each link it has passed (`WayBehind`), from
  where that link does not lead to the receiver (`NoReturn`), so no link is taken twice
  (`LinksDiffer`) and the receiver is reached before links run out (`WayEnds`).  `RouteIs`
  sums this up.  `RouteInv` says that a data frame is at a node of that way and has passed
  the devices up to it; a switch keeps it so because of `DataWay`, whose link is the one the
  way takes (`OnwardIs`).  Data frames are different datagrams (`DatagramsDiffer`, from
  `CountOK`), so `Send`, `Forward` and `Accept` of one map to `Enter`, `Pass` and `Arrive`, and
  everything else to a stutter.

`Experiments_proofs` proves, for any terminals, campaigns, seeds, lengths of logs and
numbers of runs and kills:

* `OwnedUnlessLost`, from `ContainerInv`: a terminal that gets to `docker exec` without
  having lost anything has done its `chown`, and whatever takes the files away again
  (removal, a new container) makes it lose something; files are owned only while there
  is a container.
* `ReadsNoOlder`, from `SimulationInv` (which runs there are and which terminals
  simulate which) and three more.  `LargeOk`: a packet log of the large topology has writers,
  all of them large simulations, and holds the first of their rows.  `SideOk`: only
  large simulations write to the queue and the drop log, and no large simulation is newer
  than all writers of either, because a program opens all its logs at once.  `EvalInv` and
  `BesideInv` carry between the reads that what was read first is not ahead of what
  the logs hold now.  `LargeMoves` says what a step may do to a packet log: nothing, empty it for a
  simulation newer than all others, or add a writer, and rows if the writer is alone;
  `SideStep` what it does to the others.  Rows are compared only while the log is one
  simulation's alone: one shared by two may lose rows.  `VisualiseKeeps` shows that the
  visualisation never touches these logs: no command line leads it to `results` (`Folders`).
  That a program opens all its logs in one step (`OpenLogs`) is an abstraction: the code opens
  them one after another before the simulation begins, with nothing but set-up in between.
* `ReportOfSeed`, from `FileSeeds` and `VisSeeds`.  `FileSeeds` says of every file, logs and
  cached tables, those a kill has cut short included, that the runs it is from have the
  seed in its name, and in `results_test` the seed in the name of the folder; renaming,
  collecting, caching and overwriting keep it.  `VisSeeds` says the same of what
  an execution has read.  `RepairedInList` and `RepairedSound` bound the search for
  the first log that cannot be repaired; `FolderOfSeed` says which command lines lead to
  a folder with a seed.
* `RerunCompletes`, from `CollectedInv`: every log that an execution with a command line
  needs stays (`Settled`) once the user has put it there, under the name the
  simulation gave it or under the one the execution gives it.  That is not inductive for one command line alone:
  those with the same folder and seed rename each other's logs.
* `TypeOK`, from `Typed`, which joins the invariants so far to `FilesOk` (what a file
  holds goes by its name: records of its part, those of packets numbered from 1, and
  only a table may be cut short), `FoldersInv` (files are in folders there are, and so is what
  an execution looks for) and the types of runs, evaluation and execution.
* `PlotsOnePort`, from `PlotsInv`: there are as many plots as ports have been dealt with,
  and what is plotted next is of the next port.  A first execution of
  `visualise_switches.py` makes all seven tables and goes on with all of them joined;
  that this is never plotted as a port (`AllPorts`) is because the header of the
  second log stays among the rows as text.  It takes what `FlattenSeq` does with one list and with
  seven (`FlatOne`, `FlatSeven`), from its recursion, for lists of any length.
* `PacketsCounted`, from `CountInv` and `ReportInv`.  A log and the table cached of it
  cannot be compared directly: between the two other simulations may have written to the
  log.  `Counted` says that there is one number of packets per set of writers, such that every
  packet log none of whose writers still runs, and every table that is not cut short, holds
  as many as its writers have left.  A step of a simulation changes only what the sets
  with a running writer have left (`CountMoves`), and such a set has only one packet log
  (`OnePacketLog`, `OwnLogs`: a running simulation has opened what it is a writer of), so
  that the number can be chosen anew.  `ReportInv` says that no script runs while an
  execution is under way, so that what it reads is settled.

Assumptions on constants: sets of times, waits and sizes are natural numbers, the
counter has at least one value; intervals of probes are positive; seeds are positive,
and a campaign's scripts, seeds, switches and command lines are among those
there are; the length of a log is a natural number, that of queue and drop
logs not more.  Senders have
names of their own, flows are between different hosts of the network, and what a source of
congestion sends goes to its receiver (`NetworkAssumption`), as in the code, which creates a
node for every sender and installs congestion for one receiver on one host.  Nothing is assumed of the network or the socket
beyond the actions above.  Liveness (`Resolved`, `Drains`,
`Reached`) is model-checked only: it is out of the prover's reach.

## 7. Not modelled

IPv6, multicast and address-type cases (one case), the values of random draws,
packet formats and log wording, repetition
and expiry of address requests (entries live longer than a simulation), drops of
acknowledgements as a queue event, the stand-alone topology examples (straight-line
set-up of example programs, which no script runs), layout, quantiles
and rates of plots, the queue plots of a single device, the notebook that plots the
distributions.  Of the bindings: headers, aliases and names of methods, and the ILP32
generator, which differs from LP64 in the spelling of one callback type on four lines.
