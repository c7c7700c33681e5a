------------------------- MODULE Experiments_proofs -------------------------
(***************************************************************************)
(* Proofs about Experiments, for any terminals, campaigns, seeds, lengths  *)
(* of logs and numbers of runs and kills.                                  *)
(***************************************************************************)
EXTENDS Experiments, SequenceLemmas, TLAPS

-----------------------------------------------------------------------------
(* The container (docker-run.sh).                                          *)

\* A terminal that gets to exec without having lost something has done chown,
\* and what would take the files from the user again makes it lose something.
ContainerInv ==
  /\ pc \in [Terminals -> Steps]
  /\ owned => container # "none"
  /\ \A t \in Terminals : pc[t] = "exec" /\ t \notin lost => owned
  /\ \A t \in Terminals : pc[t] = "denied" => t \in lost

LEMMA ContainerInit == Init => ContainerInv
  BY DEF Init, DockerInit, ContainerInv, Steps

LEMMA ContainerStep == ContainerInv /\ [Next]_vars => ContainerInv'
<1> SUFFICES ASSUME ContainerInv, [Next]_vars PROVE ContainerInv'
  OBVIOUS
<1> USE DEF ContainerInv, Steps, Goto
<1>1. ASSUME NEW t \in Terminals, Start(t) PROVE ContainerInv'
  BY <1>1 DEF Start, AfterStart
<1>2. ASSUME NEW t \in Terminals, Create(t) PROVE ContainerInv'
  BY <1>2 DEF Create
<1>3. ASSUME NEW t \in Terminals, CreateFails(t) PROVE ContainerInv'
  BY <1>3 DEF CreateFails
<1>4. ASSUME NEW t \in Terminals, Chown(t) PROVE ContainerInv'
  BY <1>4 DEF Chown
<1>5. ASSUME NEW t \in Terminals, Exec(t) PROVE ContainerInv'
  <2>1. container' = container /\ owned' = owned
    BY <1>5 DEF Exec
  <2>2. CASE Goto(t, "simulating") /\ lost' = lost
    BY <1>5, <2>1, <2>2
  <2>3. CASE Goto(t, Failure(t)) /\ lost' = lost
    BY <1>5, <2>1, <2>3 DEF Exec, Failure
  <2>4. CASE Leave({t}) /\ lost' = lost \ {t}
    BY <1>5, <2>1, <2>4 DEF Leave
  <2> QED BY <1>5, <2>2, <2>3, <2>4 DEF Exec
<1>6. ASSUME NEW t \in Terminals, EndSimulation(t) \/ EndScript(t) PROVE ContainerInv'
  <2>1. /\ container' = container /\ owned' = owned
        /\ Leave({t}) /\ lost' = lost \ {t}
    BY <1>6 DEF EndSimulation, EndScript
  <2> QED BY <2>1 DEF Leave
<1>7. ASSUME NEW to \in {"none", "stopped"}, Down(to) PROVE ContainerInv'
  BY <1>7 DEF Down, Leave, Simulating
<1>8. ASSUME NEW t \in Terminals, NEW script, NEW seed, RunScript(t, script, seed)
      PROVE ContainerInv'
  BY <1>8 DEF RunScript
<1>9. CASE UNCHANGED docker \/ \E t \in Terminals : Trace(t)
  BY <1>9 DEF docker, Trace
<1>10. CASE Simulate
  BY <1>10, <1>1, <1>2, <1>3, <1>4, <1>5, <1>6, <1>7, <1>8, <1>9 DEF Simulate, DockerNext
<1>11. CASE MakeFolder \/ Evaluate \/ Visualise \/ UNCHANGED vars
  BY <1>9, <1>11 DEF MakeFolder, Evaluate, Visualise, vars
<1> QED BY <1>10, <1>11 DEF Next

\* A script finds its container owned by root only if its docker run or chown
\* failed, or the container was removed meanwhile.
THEOREM OwnedCorrect == Spec => []OwnedUnlessLost
<1>1. ContainerInv => OwnedUnlessLost
  BY DEF ContainerInv, OwnedUnlessLost
<1> QED BY <1>1, ContainerInit, ContainerStep, PTL DEF Spec

-----------------------------------------------------------------------------
(* Names of logs.                                                          *)

LEMMA FileParts ==
  ASSUME NEW folder, NEW stem, NEW part, NEW seed
  PROVE  /\ File(folder, stem, part, seed)[1] = folder
         /\ File(folder, stem, part, seed)[4] = seed
  BY DEF File

LEMMA FileSame ==
  ASSUME NEW f1, NEW s1, NEW p1, NEW n1, NEW f2, NEW s2, NEW p2, NEW n2,
         File(f1, s1, p1, n1) = File(f2, s2, p2, n2)
  PROVE  f1 = f2 /\ s1 = s2 /\ p1 = p2 /\ n1 = n2
  BY DEF File

LEMMA PlainParts ==
  ASSUME NEW base
  PROVE  Plain(base)[1] = base /\ Plain(base)[4] = 0
  BY DEF Plain

\* Which program a script runs.
LEMMA Programs ==
  ASSUME NEW script \in AllScripts
  PROVE  \/ script = run_topo
         \/ /\ script.program = "trafficgen_small"
            /\ script.stem \in {"small_test_one_disturbance", "small_test_no_disturbance"}
         \/ /\ script.program = "trafficgen_small_tests"
            /\ script.base = "results_test"
         \/ script.program = "trafficgen_large_tests"
  BY DEF AllScripts, run_topo, run_topo_small, run_topo_no_disturbance,
         run_topo_small_tests, run_topo_large_tests

LEMMA LogsByProgram ==
  ASSUME NEW script, NEW seed
  PROVE  /\ script.program = "trafficgen" => Logs(script, seed) = trafficgen_logs(script, seed)
         /\ script.program = "trafficgen_small" =>
              Logs(script, seed) = trafficgen_small_logs(script, seed)
         /\ script.program = "trafficgen_small_tests" =>
              Logs(script, seed) = trafficgen_small_tests_logs(script, seed)
         /\ script.program = "trafficgen_large_tests" =>
              Logs(script, seed) = trafficgen_large_tests_logs(script, seed)
  BY DEF Logs

\* The folder and the seed in the name of a log.
LEMMA LogNames ==
  ASSUME NEW script \in AllScripts, NEW seed, NEW f \in Logs(script, seed)
  PROVE  \E base, stem, part, s :
           f = File(Plain(base), stem, part, s) /\ s \in {0, seed}
<1>1. CASE script = run_topo
  <2>1. f \in trafficgen_logs(script, seed)
    BY <1>1, LogsByProgram DEF run_topo
  <2> QED BY <2>1 DEF trafficgen_logs
<1>2. CASE script.program = "trafficgen_small"
  <2>1. f \in trafficgen_small_logs(script, seed)
    BY <1>2, LogsByProgram
  <2> QED BY <2>1 DEF trafficgen_small_logs
<1>3. CASE script.program = "trafficgen_small_tests"
  <2>1. f \in trafficgen_small_tests_logs(script, seed)
    BY <1>3, LogsByProgram
  <2> QED BY <2>1 DEF trafficgen_small_tests_logs
<1>4. CASE script.program = "trafficgen_large_tests"
  <2>1. f \in trafficgen_large_tests_logs(script, seed)
    BY <1>4, LogsByProgram
  <2> QED BY <2>1 DEF trafficgen_large_tests_logs
<1> QED BY <1>1, <1>2, <1>3, <1>4, Programs

LEMMA LogsOfSeed ==
  ASSUME NEW script \in AllScripts, NEW seed, NEW f \in Logs(script, seed)
  PROVE  f[4] \in {0, seed} /\ f[1][4] = 0
<1>1. PICK base, stem, part, s :
        f = File(Plain(base), stem, part, s) /\ s \in {0, seed}
  BY LogNames
<1>2. f[1] = Plain(base) /\ f[4] = s
  BY <1>1, FileParts
<1> QED BY <1>1, <1>2, PlainParts

\* Only run_topo writes to the packet logs of the large topology, each simulation
\* to that of its seed.
LEMMA LogsOfLarge ==
  ASSUME NEW script \in AllScripts, NEW seed, NEW asked,
         LargeLog(asked) \in Logs(script, seed)
  PROVE  script = run_topo /\ seed = asked
<1> DEFINE f == LargeLog(asked)
<1>0. f = File(Plain("results"), "large_test_disturbance", Packets, asked)
  BY DEF LargeLog
<1> HIDE DEF f
<1>1. CASE script = run_topo
  <2>1. f \in trafficgen_logs(script, seed)
    BY <1>1, LogsByProgram DEF run_topo, f
  <2>2. PICK folder, s, p, n :
          /\ f = File(folder, s, p, n)
          /\ n = seed \/ s \in {"queue", "drops"}
    BY <2>1 DEF trafficgen_logs
  <2> QED BY <1>0, <1>1, <2>2, FileSame
<1>2. CASE /\ script.program = "trafficgen_small"
           /\ script.stem \in {"small_test_one_disturbance", "small_test_no_disturbance"}
  <2>1. f \in trafficgen_small_logs(script, seed)
    BY <1>2, LogsByProgram DEF f
  <2>2. PICK folder, s, p, n :
          /\ f = File(folder, s, p, n)
          /\ s \in {script.stem, "queue_status", "drop_pkts"}
    BY <2>1 DEF trafficgen_small_logs
  <2> QED BY <1>0, <1>2, <2>2, FileSame
<1>3. CASE script.program = "trafficgen_small_tests" /\ script.base = "results_test"
  <2>1. f \in trafficgen_small_tests_logs(script, seed)
    BY <1>3, LogsByProgram DEF f
  <2>2. PICK p : f = File(Plain("results_test"), script.stem, p, seed)
    BY <1>3, <2>1 DEF trafficgen_small_tests_logs
  <2>3. Plain("results_test") # Plain("results")
    BY PlainParts
  <2> QED BY <1>0, <2>2, <2>3, FileSame
<1>4. CASE script.program = "trafficgen_large_tests"
  <2>0. script.base = "results_test_large"
    BY <1>4 DEF AllScripts, run_topo, run_topo_small, run_topo_no_disturbance,
                run_topo_small_tests, run_topo_large_tests
  <2>1. f \in trafficgen_large_tests_logs(script, seed)
    BY <1>4, LogsByProgram DEF f
  <2>2. PICK s, p, n : f = File(Plain("results_test_large"), s, p, n)
    BY <2>0, <2>1 DEF trafficgen_large_tests_logs
  <2>3. Plain("results_test_large") # Plain("results")
    BY PlainParts
  <2> QED BY <1>0, <2>2, <2>3, FileSame
<1> QED BY <1>1, <1>2, <1>3, <1>4, Programs

\* The logs that eval.py sets beside a packet log.
SideLogs == {EvalQueue, EvalDrops}

LEMMA SideLogsOfLarge ==
  ASSUME NEW script \in AllScripts, NEW seed, NEW f \in SideLogs
  PROVE  f \in Logs(script, seed) <=> script = run_topo
<1>0. PICK stem, part : /\ f = File(Plain("results"), stem, part, 0)
                        /\ stem \in {"queue", "drops"}
  BY DEF SideLogs, EvalQueue, EvalDrops
<1>1. CASE script = run_topo
  <2>1. Logs(script, seed) = trafficgen_logs(script, seed)
    BY <1>1, LogsByProgram DEF run_topo
  <2> QED BY <1>1, <2>1 DEF trafficgen_logs, SideLogs, EvalQueue, EvalDrops
<1>2. CASE /\ script.program = "trafficgen_small"
           /\ script.stem \in {"small_test_one_disturbance", "small_test_no_disturbance"}
  <2>1. Logs(script, seed) = trafficgen_small_logs(script, seed)
    BY <1>2, LogsByProgram
  <2>2. ASSUME NEW g \in trafficgen_small_logs(script, seed) PROVE g # f
    <3>1. PICK folder, s, p, n :
            /\ g = File(folder, s, p, n)
            /\ s \in {script.stem, "queue_status", "drop_pkts"}
      BY <2>2 DEF trafficgen_small_logs
    <3> QED BY <1>0, <1>2, <3>1, FileSame
  <2>3. script # run_topo
    BY <1>2 DEF run_topo
  <2> QED BY <2>1, <2>2, <2>3
<1>3. CASE script.program = "trafficgen_small_tests" /\ script.base = "results_test"
  <2>1. Logs(script, seed) = trafficgen_small_tests_logs(script, seed)
    BY <1>3, LogsByProgram
  <2>2. ASSUME NEW g \in trafficgen_small_tests_logs(script, seed) PROVE g # f
    <3>1. PICK p : g = File(Plain("results_test"), script.stem, p, seed)
      BY <1>3, <2>2 DEF trafficgen_small_tests_logs
    <3>2. Plain("results_test") # Plain("results")
      BY PlainParts
    <3> QED BY <1>0, <3>1, <3>2, FileSame
  <2>3. script # run_topo
    BY <1>3 DEF run_topo
  <2> QED BY <2>1, <2>2, <2>3
<1>4. CASE script.program = "trafficgen_large_tests"
  <2>0. script.base = "results_test_large"
    BY <1>4 DEF AllScripts, run_topo, run_topo_small, run_topo_no_disturbance,
                run_topo_small_tests, run_topo_large_tests
  <2>1. Logs(script, seed) = trafficgen_large_tests_logs(script, seed)
    BY <1>4, LogsByProgram
  <2>2. ASSUME NEW g \in trafficgen_large_tests_logs(script, seed) PROVE g # f
    <3>1. PICK s, p, n : g = File(Plain("results_test_large"), s, p, n)
      BY <2>0, <2>2 DEF trafficgen_large_tests_logs
    <3>2. Plain("results_test_large") # Plain("results")
      BY PlainParts
    <3> QED BY <1>0, <3>1, <3>2, FileSame
  <2>3. script # run_topo
    BY <1>4 DEF run_topo
  <2> QED BY <2>1, <2>2, <2>3
<1> QED BY <1>1, <1>2, <1>3, <1>4, Programs

LEMMA FolderParts ==
  ASSUME NEW base, NEW label, NEW cc, NEW seed, NEW bw
  PROVE  /\ Folder(base, label, cc, seed, bw)[1] = base
         /\ Folder(base, label, cc, seed, bw)[4] = seed
  BY DEF Folder

\* Where the two programs look is never the folder that the simulations of
\* run_topo write to, and has the seed asked for in its name, if any.
LEMMA Folders ==
  ASSUME NEW a
  PROVE  /\ FolderOf(a)[1] # "results"
         /\ FolderOf(a)[4] \in {0, a.seed}
         /\ \E base, label, cc, seed, bw : FolderOf(a) = Folder(base, label, cc, seed, bw)
<1> DEFINE Fine(x) == \E base, label, cc, seed, bw :
                        /\ x = Folder(base, label, cc, seed, bw)
                        /\ base \in {"results_test", "results_test_large", "none"}
                        /\ seed \in {0, a.seed}
<1>0. /\ \A base \in {"results_test", "results_test_large"} : \A label, cc, bw :
           /\ Fine(Folder(base, label, cc, a.seed, bw))
           /\ Fine(Unnumbered(base, label))
      /\ Fine(NoFolder)
  BY DEF Unnumbered, NoFolder, Plain, Folder
<1> HIDE DEF Fine
<1>1. Fine(OneSender(a))
  <2>1. OneSender(a) \in {Unnumbered("results_test", "10Mbps_1sender"),
                          Folder("results_test", "1Mbps_1sender_inf", a.cc, a.seed, a.bw),
                          Folder("results_test", "1Mbps_1sender", a.cc, a.seed, a.bw)}
    BY DEF OneSender
  <2> QED BY <1>0, <2>1
<1>2. Fine(ThreeSenders(a))
  <2>1. PICK cc : ThreeSenders(a) \in
          {Unnumbered("results_test", "10Mbps_3senders"),
           Folder("results_test", "1Mbps_3senders_inf_rst", cc, a.seed, a.bw),
           Folder("results_test", "1Mbps_3senders", "-", a.seed, 0)}
    BY DEF ThreeSenders
  <2> QED BY <1>0, <2>1
<1>3. ASSUME NEW base \in {"results_test", "results_test_large"}
      PROVE  Fine(SixSenders(base, a))
  <2>1. SixSenders(base, a) \in {Unnumbered(base, "10Mbps_6senders"),
                                 Unnumbered(base, "1Mbps_6senders"),
                                 Folder(base, "1Mbps_6senders_inf_rst", "cubic", a.seed, a.bw),
                                 Folder(base, "1Mbps_6senders_rst", "-", a.seed, 0)}
    BY DEF SixSenders
  <2> QED BY <1>0, <2>1
<1>4. Fine(SixtySenders(a))
  <2>1. SixtySenders(a) \in
          {Unnumbered("results_test", "1Mbps_60senders"),
           Folder("results_test", "1Mbps_60senders_inf_rst", a.cc, a.seed, a.bw),
           Folder("results_test", "1Mbps_60senders_rst", a.cc, a.seed, a.bw)}
    BY DEF SixtySenders
  <2> QED BY <1>0, <2>1
<1>5. Fine(NineSenders("results_test_large", a))
  <2>1. NineSenders("results_test_large", a) \in
          {Unnumbered("results_test_large", "1Mbps_9senders"),
           Folder("results_test_large", "1Mbps_9senders_inf_rst", "cubic", a.seed, a.bw),
           Folder("results_test_large", "1Mbps_9senders_rst", "-", a.seed, 0)}
    BY DEF NineSenders
  <2> QED BY <1>0, <2>1
<1>6. VisualiseFolder(a) \in {OneSender(a), ThreeSenders(a), SixSenders("results_test", a),
                              SixtySenders(a), NoFolder}
  BY DEF VisualiseFolder
<1>7. SwitchesFolder(a) \in {SixSenders("results_test_large", a),
                             NineSenders("results_test_large", a), NoFolder}
  BY DEF SwitchesFolder
<1>8. Fine(FolderOf(a))
  BY <1>0, <1>1, <1>2, <1>3, <1>4, <1>5, <1>6, <1>7 DEF FolderOf
<1> QED BY <1>8, FolderParts DEF Fine

\* A report on one seed is on the folder of that seed.
LEMMA FolderOfSeed ==
  ASSUME NEW a, a.tool = "visualise", FolderOf(a) # NoFolder, a.rate = 1,
         a.n \in {1, 3} \/ Given(a.rst)
  PROVE  FolderOf(a)[4] = a.seed
<1>0. FolderOf(a) = VisualiseFolder(a)
  BY DEF FolderOf
<1>1. CASE a.n = 1
  <2>1. OneSender(a) \in {Folder("results_test", "1Mbps_1sender_inf", a.cc, a.seed, a.bw),
                          Folder("results_test", "1Mbps_1sender", a.cc, a.seed, a.bw)}
    BY DEF OneSender
  <2>2. VisualiseFolder(a) = OneSender(a)
    BY <1>1 DEF VisualiseFolder
  <2> QED BY <1>0, <2>1, <2>2, FolderParts
<1>2. CASE a.n = 3
  <2>1. VisualiseFolder(a) = ThreeSenders(a)
    BY <1>2 DEF VisualiseFolder
  <2> DEFINE cc == IF a.cc = "bbr" THEN "bbr" ELSE "cubic"
             InfRst == Folder("results_test", "1Mbps_3senders_inf_rst", cc, a.seed, a.bw)
  <2>2. CASE Given(a.inf)
    <3>1. ThreeSenders(a) = InfRst
      BY <2>2 DEF ThreeSenders
    <3> QED BY <1>0, <2>1, <3>1, FolderParts
  <2>3. CASE ~Given(a.inf) /\ Given(a.rst)
    <3>1. ThreeSenders(a) = InfRst
      BY <2>3 DEF ThreeSenders
    <3> QED BY <1>0, <2>1, <3>1, FolderParts
  <2>4. CASE ~Given(a.inf) /\ ~Given(a.rst)
    <3>1. ThreeSenders(a) = Folder("results_test", "1Mbps_3senders", "-", a.seed, 0)
      BY <2>4 DEF ThreeSenders
    <3> QED BY <1>0, <2>1, <3>1, FolderParts
  <2> QED BY <2>2, <2>3, <2>4
<1>3. CASE a.n = 6
  <2>1. VisualiseFolder(a) = SixSenders("results_test", a)
    BY <1>3 DEF VisualiseFolder
  <2>2. CASE Given(a.inf)
    <3>1. SixSenders("results_test", a) =
            Folder("results_test", "1Mbps_6senders_inf_rst", "cubic", a.seed, a.bw)
      BY <2>2 DEF SixSenders
    <3> QED BY <1>0, <2>1, <3>1, FolderParts
  <2>3. CASE ~Given(a.inf)
    <3>0. Given(a.rst)
      BY <1>3
    <3>1. SixSenders("results_test", a) =
            Folder("results_test", "1Mbps_6senders_rst", "-", a.seed, 0)
      BY <2>3, <3>0 DEF SixSenders
    <3> QED BY <1>0, <2>1, <3>1, FolderParts
  <2> QED BY <2>2, <2>3
<1>4. CASE a.n = 60
  <2>1. SixtySenders(a) \in
          {Folder("results_test", "1Mbps_60senders_inf_rst", a.cc, a.seed, a.bw),
           Folder("results_test", "1Mbps_60senders_rst", a.cc, a.seed, a.bw)}
    BY <1>4 DEF SixtySenders
  <2>2. VisualiseFolder(a) = SixtySenders(a)
    BY <1>4 DEF VisualiseFolder
  <2> QED BY <1>0, <2>1, <2>2, FolderParts
<1>5. CASE a.n \notin {1, 3, 6, 60}
  <2>1. VisualiseFolder(a) = NoFolder
    BY <1>5 DEF VisualiseFolder
  <2> QED BY <1>0, <2>1
<1> QED BY <1>1, <1>2, <1>3, <1>4, <1>5

-----------------------------------------------------------------------------
(* What changes the logs in results, the folder of eval.py: simulations.   *)

AnySeed == Seeds \cup {1}
RunRecords == [script : AllScripts, seed : AnySeed, random : AnySeed]
Jobs == [script : AllScripts, seed : AnySeed, run : Nat]

SimulationInv ==
  /\ campaign \in Campaigns
  /\ runs \in Seq(RunRecords)
  /\ pc \in [Terminals -> Steps]
  /\ job \in [Terminals -> Jobs]
  /\ \A t \in Terminals : pc[t] = "simulating" => job[t].run \in RunIds

InResults(f) == f[1][1] = "results"

LEMMA SimulationInit == Init => SimulationInv
  BY EmptySeq DEF Init, FilesInit, DockerInit, SimulationInv, Steps, NoJob, Jobs, AnySeed, AllScripts

LEMMA AppendRun ==
  ASSUME NEW script \in AllScripts, NEW seed \in AnySeed,
         runs \in Seq(RunRecords), OpenLogs(script, seed)
  PROVE  /\ runs' \in Seq(RunRecords)
         /\ Len(runs) \in Nat /\ Len(runs') = Len(runs) + 1
         /\ \A r \in RunIds : runs'[r] = runs[r]
         /\ runs'[Len(runs) + 1] =
              [script |-> script, seed |-> seed, random |-> RandomSeed(script, seed)]
<1> DEFINE run == [script |-> script, seed |-> seed, random |-> RandomSeed(script, seed)]
<1>1. RandomSeed(script, seed) \in AnySeed
  BY DEF RandomSeed, SmallSeed, AnySeed
<1>2. run \in RunRecords
  BY <1>1 DEF RunRecords
<1>3. runs' = Append(runs, run)
  BY DEF OpenLogs
<1> HIDE DEF run
<1>4. /\ runs' \in Seq(RunRecords)
      /\ Len(runs) \in Nat /\ Len(runs') = Len(runs) + 1
      /\ \A r \in RunIds : runs'[r] = runs[r]
      /\ runs'[Len(runs) + 1] = run
  BY <1>2, <1>3 DEF RunIds
<1> QED BY <1>4 DEF run

IsContent(x) == x = Content(x.by, x.records, x.cut)

LEMMA ContentParts ==
  ASSUME NEW by, NEW records, NEW cut
  PROVE  /\ Content(by, records, cut).by = by
         /\ IsContent(Content(by, records, cut))
  BY DEF Content, IsContent

LEMMA ContentFields ==
  ASSUME NEW by, NEW records, NEW cut
  PROVE  /\ Content(by, records, cut).records = records
         /\ Content(by, records, cut).cut = cut
  BY DEF Content

LEMMA PutValues ==
  ASSUME NEW new, Put(new)
  PROVE  /\ DOMAIN files' = Existing \cup DOMAIN new
         /\ \A f \in DOMAIN files' :
              files'[f] = IF f \in DOMAIN new THEN new[f] ELSE files[f]
  BY DEF Put

\* What simulation r has logged reaches the disk: a log of its own grows, or is
\* complete.
Written(r, logs, n) ==
  /\ r \in RunIds /\ n \in 0 .. Records
  /\ logs \subseteq {f \in LogsOf(r) \cap Existing : f[3] # Unused}
  /\ \A f \in logs : Own(f, r) =>
       LET k == Len(files[f].records) IN n = k + 1 \/ n > k \/ n = Records
  /\ Flush(r, logs, n)
  /\ UNCHANGED runs

LEMMA WrittenValues ==
  ASSUME NEW r, NEW logs, NEW n, Written(r, logs, n)
  PROVE  /\ DOMAIN files' = Existing
         /\ \A f \in logs : /\ f \in Existing
                             /\ files'[f] = Content(files[f].by \cup {r},
                                                    FirstRecords(f[3], n), FALSE)
         /\ \A f \in Existing \ logs : files'[f] = files[f]
         /\ \A f \in Existing :
              files'[f].by = files[f].by \cup (IF f \in logs THEN {r} ELSE {})
<1> DEFINE new == [f \in logs |-> Content(files[f].by \cup {r}, FirstRecords(f[3], n), FALSE)]
<1>1. Put(new) /\ DOMAIN new = logs
  BY DEF Written, Flush
<1>2. logs \subseteq Existing
  BY DEF Written
<1>3. DOMAIN files' = Existing /\ \A f \in Existing : files'[f] = IF f \in logs THEN new[f] ELSE files[f]
  <2> HIDE DEF new
  <2> QED BY <1>1, <1>2, PutValues
<1>4. \A f \in logs : new[f].by = files[f].by \cup {r}
  BY ContentParts
<1>5. \A f \in Existing :
        files'[f].by = files[f].by \cup (IF f \in logs THEN {r} ELSE {})
  <2> HIDE DEF new
  <2> QED BY <1>2, <1>3, <1>4
<1> QED BY <1>2, <1>3, <1>5

LEMMA LineLogs ==
  ASSUME NEW f, LineByLine(f)
  PROVE  f[3] # Unused
  BY DEF LineByLine, Queues, Drops, Unused

\* A simulation that traces, or ends, writes its logs.
LEMMA TracesWrite ==
  ASSUME SimulationInv, NEW t \in Terminals, Trace(t) \/ EndSimulation(t)
  PROVE  t \in Simulating /\ \E logs, n : Written(job[t].run, logs, n)
<1> DEFINE r == job[t].run
<1>1. t \in Simulating /\ r \in RunIds /\ UNCHANGED runs
  BY DEF Trace, EndSimulation, Simulating, SimulationInv
<1>2. LinesOf(r) \cup BlocksOf(r) \subseteq {f \in LogsOf(r) \cap Existing : f[3] # Unused}
  BY LineLogs DEF LinesOf, BlocksOf
<1>3. 0 .. Lines \subseteq 0 .. Records
  BY RecordsAssumption
<1> HIDE DEF r
<1>4. CASE WriteLine(r)
  <2>1. PICK f \in LinesOf(r), n \in 0 .. Lines :
          /\ Own(f, r) => n = Len(files[f].records) + 1
          /\ Flush(r, {f}, n)
    BY <1>4 DEF WriteLine
  <2>2. Written(r, {f}, n)
    BY <1>1, <1>2, <1>3, <2>1 DEF Written
  <2> QED BY <1>1, <2>2 DEF r
<1>5. CASE WriteBlock(r) \/ CloseLogs(r)
  <2>1. PICK n \in 0 .. Records :
          /\ \A f \in BlocksOf(r) : Own(f, r) => n > Len(files[f].records) \/ n = Records
          /\ Flush(r, BlocksOf(r), n)
    BY <1>5 DEF WriteBlock, CloseLogs
  <2>2. Written(r, BlocksOf(r), n)
    BY <1>1, <1>2, <2>1 DEF Written
  <2> QED BY <1>1, <2>2 DEF r
<1> QED BY <1>4, <1>5 DEF Trace, EndSimulation, r

\* The steps of a simulation as far as logs, runs and scripts go.
LEMMA DockerSteps ==
  ASSUME SimulationInv, Simulate
  PROVE  \/ UNCHANGED <<files, runs>>
         \/ \E script \in AllScripts, seed \in AnySeed : OpenLogs(script, seed)
         \/ \E t \in Simulating : \E logs, n : Written(job[t].run, logs, n)
<1>1. ASSUME NEW t \in Terminals, Exec(t)
      PROVE  \/ UNCHANGED <<files, runs>>
             \/ \E script \in AllScripts, seed \in AnySeed : OpenLogs(script, seed)
  <2>1. job[t].script \in AllScripts /\ job[t].seed \in AnySeed
    BY DEF SimulationInv, Jobs
  <2> QED BY <1>1, <2>1 DEF Exec
<1>2. ASSUME NEW t \in Terminals, Trace(t) \/ EndSimulation(t)
      PROVE  t \in Simulating /\ \E logs, n : Written(job[t].run, logs, n)
  BY <1>2, TracesWrite
<1>3. ASSUME NEW t \in Terminals,
             Start(t) \/ Create(t) \/ CreateFails(t) \/ Chown(t) \/ EndScript(t)
      PROVE  UNCHANGED <<files, runs>>
  BY <1>3 DEF Start, Create, CreateFails, Chown, EndScript
<1>4. ASSUME NEW to, Down(to) PROVE UNCHANGED <<files, runs>>
  BY <1>4 DEF Down
<1>5. ASSUME NEW t \in Terminals, NEW script, NEW seed, RunScript(t, script, seed)
      PROVE  UNCHANGED <<files, runs>>
  BY <1>5, SMTT(30) DEF RunScript
<1> QED BY <1>1, <1>2, <1>3, <1>4, <1>5 DEF Simulate, DockerNext

LEMMA OthersLeaveRuns ==
  ASSUME MakeFolder \/ Evaluate \/ Visualise \/ UNCHANGED vars
  PROVE  UNCHANGED <<campaign, runs, pc, job>>
  BY DEF MakeFolder, Evaluate, Visualise, VisNext, Begin, Collect, MakeTable, SenderStep,
         Plot, QueueStep, DropsOfSeed, DropsRenamed, Rates, Over, KilledBetween,
         KilledMakingSender, KilledMakingTable, docker, vars

LEMMA SimulationStep == SimulationInv /\ [Next]_vars => SimulationInv'
<1> SUFFICES ASSUME SimulationInv, [Next]_vars PROVE SimulationInv'
  OBVIOUS
<1> USE DEF SimulationInv
<1>a. Len(runs) \in Nat
  OBVIOUS
<1>b. \A t \in Terminals : job[t] \in Jobs
  OBVIOUS
<1>1. ASSUME NEW t \in Terminals,
             \/ Start(t) \/ Create(t) \/ CreateFails(t) \/ Chown(t)
      PROVE  /\ UNCHANGED <<runs, job>>
             /\ pc' \in [Terminals -> Steps]
             /\ \A u \in Terminals : pc'[u] = "simulating" => pc[u] = "simulating"
  BY <1>1 DEF Start, AfterStart, Create, CreateFails, Chown, Goto, Steps
<1>2. ASSUME NEW ts \in SUBSET Terminals, Leave(ts), UNCHANGED <<campaign, runs>>
      PROVE  SimulationInv'
  <2>1. NoJob \in Jobs
    BY DEF NoJob, Jobs, AllScripts, AnySeed
  <2>2. job' \in [Terminals -> Jobs] /\ pc' \in [Terminals -> Steps]
    BY <1>2, <1>b, <2>1 DEF Leave, Steps
  <2>3. \A u \in Terminals : pc'[u] = "simulating" => pc[u] = "simulating" /\ job'[u] = job[u]
    BY <1>2 DEF Leave
  <2> QED BY <1>2, <2>2, <2>3 DEF RunIds
<1>3. ASSUME NEW t \in Terminals, Exec(t), UNCHANGED campaign
      PROVE  SimulationInv'
  <2>1. CASE OpenLogs(job[t].script, job[t].seed) /\ Goto(t, "simulating")
             /\ job' = [job EXCEPT ![t].run = Len(runs) + 1]
    <3>1. job[t].script \in AllScripts /\ job[t].seed \in AnySeed
      BY <1>b DEF Jobs
    <3>2. /\ runs' \in Seq(RunRecords) /\ Len(runs') = Len(runs) + 1
      BY <2>1, <3>1, AppendRun
    <3>3. job' \in [Terminals -> Jobs] /\ pc' \in [Terminals -> Steps]
      BY <1>a, <1>b, <2>1, SMTT(30) DEF Jobs, Goto, Steps
    <3>4. job'[t].run = Len(runs) + 1
      BY <1>b, <2>1 DEF Jobs
    <3>5. \A u \in Terminals \ {t} : job'[u] = job[u] /\ pc'[u] = pc[u]
      BY <2>1 DEF Goto
    <3>6. \A u \in Terminals : pc'[u] = "simulating" => job'[u].run \in RunIds'
      BY <1>a, <3>2, <3>4, <3>5 DEF RunIds
    <3> QED BY <1>3, <3>2, <3>3, <3>6
  <2>2. CASE Goto(t, Failure(t)) /\ UNCHANGED <<job, files, runs>>
    <3>1. Failure(t) \in {"denied", "unbuilt", "unopened"}
      BY DEF Failure
    <3> QED BY <1>3, <2>2, <3>1 DEF Goto, Steps, RunIds
  <2>3. CASE Leave({t}) /\ UNCHANGED runs
    BY <1>2, <1>3, <2>3
  <2> QED BY <1>3, <2>1, <2>2, <2>3 DEF Exec
<1>4. ASSUME NEW t \in Terminals, NEW script \in campaign.scripts, NEW seed \in campaign.seeds,
             RunScript(t, script, seed), UNCHANGED campaign
      PROVE  SimulationInv'
  <2>1. script \in AllScripts /\ seed \in AnySeed
    BY CampaignsAssumption DEF AnySeed
  <2>2. [script |-> script, seed |-> seed, run |-> 0] \in Jobs
    BY <2>1 DEF Jobs
  <2>3. job' \in [Terminals -> Jobs] /\ pc' \in [Terminals -> Steps]
    BY <1>4, <2>2 DEF RunScript, Goto, Steps
  <2>4. \A u \in Terminals : pc'[u] = "simulating" => pc[u] = "simulating" /\ job'[u] = job[u]
    BY <1>4 DEF RunScript, Goto
  <2> QED BY <1>4, <2>3, <2>4 DEF RunScript, RunIds
<1>5. CASE Simulate
  <2>1. UNCHANGED campaign
    BY <1>5 DEF Simulate
  <2>2. ASSUME NEW t \in Terminals,
               \/ Start(t) \/ Create(t) \/ CreateFails(t) \/ Chown(t)
        PROVE  SimulationInv'
    BY <1>1, <2>1, <2>2 DEF RunIds
  <2>3. ASSUME NEW t \in Terminals, EndSimulation(t) \/ EndScript(t) PROVE SimulationInv'
    <3>1. Leave({t}) /\ UNCHANGED runs
      BY <2>3 DEF EndSimulation, EndScript
    <3> QED BY <1>2, <2>1, <3>1
  <2>4. ASSUME NEW to, Down(to) PROVE SimulationInv'
    <3>1. Leave(Simulating) /\ UNCHANGED runs /\ Simulating \subseteq Terminals
      BY <2>4 DEF Down, Simulating
    <3> QED BY <1>2, <2>1, <3>1
  <2>5. ASSUME NEW t \in Terminals, Trace(t) PROVE SimulationInv'
    BY <2>1, <2>5 DEF Trace, RunIds
  <2> QED BY <1>3, <1>4, <1>5, <2>1, <2>2, <2>3, <2>4, <2>5 DEF Simulate, DockerNext
<1>6. CASE MakeFolder \/ Evaluate \/ Visualise \/ UNCHANGED vars
  BY <1>6, OthersLeaveRuns DEF RunIds
<1> QED BY <1>5, <1>6 DEF Next

-----------------------------------------------------------------------------
(* The visualisation leaves the folder of eval.py alone.                   *)

Kept == \A f : InResults(f) =>
          /\ f \in DOMAIN files' <=> f \in DOMAIN files
          /\ f \in DOMAIN files => files'[f] = files[f]

\* The execution has its shape, and its counter starts at 1.
VisShape(v) ==
  /\ v.at \in Nat \ {0}
  /\ v = [step |-> v.step, args |-> v.args, at |-> v.at, table |-> v.table,
          plots |-> v.plots, queue |-> v.queue, drops |-> v.drops]

VisInv == VisShape(vis)

LEMMA NoExecutionShape == VisShape(NoExecution)
<1> DEFINE args0 == Request("visualise", 10, 1, NotGiven, NotGiven, 1, "cubic", 5)
<1> HIDE DEF args0
<1>1. NoExecution = [step |-> "idle", args |-> args0, at |-> 1, table |-> NoTable,
                     plots |-> <<>>, queue |-> NoTable, drops |-> NoTable]
  BY DEF NoExecution, args0
<1> QED BY <1>1 DEF VisShape

LEMMA PutElsewhere ==
  ASSUME NEW new, Put(new), \A f \in DOMAIN new : ~InResults(f)
  PROVE  Kept
  BY DEF Put, Kept, Existing

LEMMA MoveElsewhere ==
  ASSUME NEW name, NEW new, NEW content, Move(name, new, content),
         ~InResults(name), ~InResults(new)
  PROVE  Kept
  BY DEF Move, Kept, Existing

LEMMA FinalFolder ==
  ASSUME NEW folder, NEW stem, NEW part, NEW seed
  PROVE  Final(File(folder, stem, part, seed))[1] = folder
  BY DEF Final, File

\* All the names a command line gives rise to are in its folder.
LEMMA FileLists ==
  ASSUME NEW a
  PROVE  /\ Len(FileList(a)) \in 1 .. 7
         /\ \A i \in 1 .. Len(FileList(a)) :
              \E stem, part, seed : /\ FileList(a)[i] = File(FolderOf(a), stem, part, seed)
                                    /\ seed \in {0, a.seed}
<1>1. CASE a.tool = "visualise"
  <2>1. FileList(a) = <<TestLog(a, Packets)>>
    BY <1>1 DEF FileList, VisualiseList
  <2>2. Len(FileList(a)) = 1 /\ FileList(a)[1] = TestLog(a, Packets)
    BY <2>1
  <2> QED BY <2>2 DEF TestLog
<1>2. CASE a.tool # "visualise"
  <2> DEFINE PortLog(part) == File(FolderOf(a), "-", part, 0)
  <2>1. FileList(a) = <<PortLog(SwitchA(1)), PortLog(SwitchA(2)), PortLog(SwitchC(1)),
                        PortLog(SwitchC(2)), PortLog(SwitchC(3)), PortLog(SwitchE(1)),
                        PortLog(SwitchE(2))>>
    BY <1>2 DEF FileList, SwitchesList
  <2>2. \A i \in 1 .. 7 : \E part : FileList(a)[i] = PortLog(part)
    <3> HIDE DEF PortLog
    <3> QED BY <2>1
  <2>3. Len(FileList(a)) = 7
    <3> HIDE DEF PortLog
    <3> QED BY <2>1
  <2> QED BY <2>2, <2>3
<1> QED BY <1>1, <1>2

LEMMA SenderLists ==
  ASSUME NEW a
  PROVE  /\ Len(SenderList(a)) \in Nat
         /\ \A i \in 1 .. Len(SenderList(a)) :
              \E part : SenderList(a)[i] = TestLog(a, part)
<1>1. CASE a.tool = "visualise" /\ a.n \in {1, 3, 6}
  <2>1. SenderList(a) = [i \in 1 .. a.n |-> TestLog(a, Sender(3 + i))]
    BY <1>1 DEF SenderList
  <2>2. Len(SenderList(a)) = a.n
    BY <1>1, <2>1
  <2> QED BY <1>1, <2>1, <2>2
<1>2. CASE ~(a.tool = "visualise" /\ a.n \in {1, 3, 6})
  <2>1. SenderList(a) = <<>>
    BY <1>2 DEF SenderList
  <2> QED BY <2>1
<1> QED BY <1>1, <1>2

LEMMA Least ==
  ASSUME NEW S, S \subseteq 1 .. 7, S # {}
  PROVE  \E m \in S : \A j \in 1 .. m - 1 : j \notin S
<1>0. \A j \in S : j \in {1, 2, 3, 4, 5, 6, 7}
  OBVIOUS
<1>1. CASE 1 \in S
  BY <1>1
<1>2. CASE 1 \notin S /\ 2 \in S
  BY <1>2
<1>3. CASE 1 \notin S /\ 2 \notin S /\ 3 \in S
  BY <1>3
<1>4. CASE 1 \notin S /\ 2 \notin S /\ 3 \notin S /\ 4 \in S
  BY <1>4
<1>5. CASE {1, 2, 3, 4} \cap S = {} /\ 5 \in S
  BY <1>5
<1>6. CASE {1, 2, 3, 4, 5} \cap S = {} /\ 6 \in S
  BY <1>6
<1>7. CASE {1, 2, 3, 4, 5, 6} \cap S = {} /\ 7 \in S
  BY <1>7
<1> QED BY <1>0, <1>1, <1>2, <1>3, <1>4, <1>5, <1>6, <1>7

LEMMA FirstBad ==
  ASSUME NEW a, ~\A i \in 1 .. Len(FileList(a)) : Repairable(FileList(a)[i])
  PROVE  \E i \in 1 .. Len(FileList(a)) :
           /\ ~Repairable(FileList(a)[i])
           /\ \A j \in 1 .. i - 1 : Repairable(FileList(a)[j])
<1> DEFINE n == Len(FileList(a))
           Bad == {i \in 1 .. n : ~Repairable(FileList(a)[i])}
<1>1. n \in 1 .. 7
  BY FileLists
<1>2. Bad \subseteq 1 .. 7 /\ Bad # {}
  BY <1>1
<1>3. PICK m \in Bad : \A j \in 1 .. m - 1 : j \notin Bad
  <2> HIDE DEF Bad
  <2> QED BY <1>2, Least
<1>4. m \in 1 .. n /\ ~Repairable(FileList(a)[m])
  OBVIOUS
<1>5. \A j \in 1 .. m - 1 : Repairable(FileList(a)[j])
  <2> HIDE DEF n
  <2> QED BY <1>1, <1>3, <1>4
<1> QED BY <1>4, <1>5

\* The search for the first log that cannot be repaired ends in the list.
LEMMA RepairedInList ==
  ASSUME NEW a
  PROVE  RepairedBefore(FileList(a)) \in 0 .. Len(FileList(a))
<1> DEFINE n == Len(FileList(a))
           Bad == {i \in 1 .. n : ~Repairable(FileList(a)[i])}
           c == CHOOSE i \in 1 .. n : /\ ~Repairable(FileList(a)[i])
                                     /\ \A j \in 1 .. i - 1 : Repairable(FileList(a)[j])
<1>0. n \in 1 .. 7
  BY FileLists
<1>1. CASE Bad = {}
  <2>1. RepairedBefore(FileList(a)) = n
    BY <1>1 DEF RepairedBefore
  <2> QED BY <1>0, <2>1
<1>2. CASE Bad # {}
  <2>1. RepairedBefore(FileList(a)) = c - 1
    BY <1>2 DEF RepairedBefore
  <2>2. \E i \in 1 .. n : /\ ~Repairable(FileList(a)[i])
                          /\ \A j \in 1 .. i - 1 : Repairable(FileList(a)[j])
    BY <1>2, FirstBad
  <2>3. c \in 1 .. n
    BY <2>2
  <2> HIDE DEF c, n
  <2>4. c - 1 \in 0 .. n
    BY <1>0, <2>3
  <2> QED BY <2>1, <2>4 DEF n
<1> QED BY <1>1, <1>2

LEMMA KeptByNone ==
  ASSUME files' = files
  PROVE  Kept
  BY DEF Kept

\* Files whose folder is one that a command line leads to.
LEMMA NotInResults ==
  ASSUME NEW a, NEW f, f[1] = FolderOf(a)
  PROVE  ~InResults(f)
  BY Folders DEF InResults

LEMMA ListNames ==
  ASSUME NEW a, NEW i \in 1 .. Len(FileList(a))
  PROVE  FileList(a)[i][1] = FolderOf(a) /\ Final(FileList(a)[i])[1] = FolderOf(a)
<1>1. PICK stem, part, seed : FileList(a)[i] = File(FolderOf(a), stem, part, seed)
  BY FileLists
<1> QED BY <1>1, FileParts, FinalFolder

LEMMA SenderNames ==
  ASSUME NEW a, NEW i \in 1 .. Len(SenderList(a))
  PROVE  SenderList(a)[i][1] = FolderOf(a) /\ Final(SenderList(a)[i])[1] = FolderOf(a)
<1>1. PICK part : SenderList(a)[i] = TestLog(a, part)
  BY SenderLists
<1> QED BY <1>1, FileParts, FinalFolder DEF TestLog

LEMMA CollectedNames ==
  ASSUME NEW a, NEW f \in CollectedLogs(a)
  PROVE  f[1] = FolderOf(a)
<1>1. CASE f \in NeededLogs(a)
  BY <1>1, ListNames, SenderNames DEF NeededLogs
<1>2. CASE f \in {TestLog(a, Queues), TestLog(a, Drops)}
  BY <1>2, FileParts DEF TestLog
<1>3. CASE f \in {File(FolderOf(a), "queue", Queues, 0), File(FolderOf(a), "drops", Drops, 0)}
  BY <1>3, FileParts
<1> QED BY <1>1, <1>2, <1>3 DEF CollectedLogs

LEMMA StoredNames ==
  ASSUME NEW a, NEW k \in 0 .. Len(FileList(a)),
         NEW f \in DOMAIN StoredTables(FileList(a), k)
  PROVE  f[1] = FolderOf(a)
<1>0. Len(FileList(a)) \in 1 .. 7
  BY FileLists
<1>1. PICK i \in 1 .. k : f = Final(FileList(a)[i])
  BY DEF StoredTables
<1>2. i \in 1 .. Len(FileList(a))
  BY <1>0, <1>1
<1> QED BY <1>1, <1>2, ListNames

LEMMA RenamedKept ==
  ASSUME NEW log, NEW fixed, NEW next, Renamed(log, fixed, next), ~InResults(log), ~InResults(fixed)
  PROVE  Kept
<1>1. CASE files' = files
  BY <1>1, KeptByNone
<1>2. CASE Move(log, fixed, files[log])
  BY <1>2, MoveElsewhere
<1> QED BY <1>1, <1>2 DEF Renamed

LEMMA RemainsParts ==
  ASSUME NEW table, NEW left \in Remains(table)
  PROVE  left = Blank \/ \E n \in 0 .. Records - 1 : left = Truncated(table, n)
  BY DEF Remains

\* Every step of the two programs, and of the user who prepares for them, keeps
\* the logs in results.
LEMMA VisualiseKeeps ==
  ASSUME VisInv, Visualise
  PROVE  Kept
<1> DEFINE a == vis.args
<1>1. ASSUME NEW b, Begin(b) PROVE Kept
  BY <1>1, KeptByNone DEF Begin
<1>2. ASSUME NEW b, Collect(b) PROVE Kept
  <2> DEFINE new == [log \in CollectedLogs(b) |-> files[Source(log)]]
  <2>1. Put(new)
    BY <1>2 DEF Collect
  <2>2. \A f \in DOMAIN new : ~InResults(f)
    BY CollectedNames, NotInResults
  <2> HIDE DEF new
  <2> QED BY <2>1, <2>2, PutElsewhere
<1>3. CASE MakeTable
  <2>1. CASE files' = files
    BY <2>1, KeptByNone
  <2>2. CASE Put(StoredTables(FileList(a), RepairedBefore(FileList(a))))
    <3>1. \A f \in DOMAIN StoredTables(FileList(a), RepairedBefore(FileList(a))) : ~InResults(f)
      BY StoredNames, RepairedInList, NotInResults
    <3> QED BY <2>2, <3>1, PutElsewhere
  <2> QED BY <1>3, <2>1, <2>2 DEF MakeTable, GenerateSendersCsv, List
<1>4. ASSUME NEW k \in 1 .. 7, KilledMakingTable(k) PROVE Kept
  <2> DEFINE tables == StoredTables(FileList(a), k)
             final == Final(FileList(a)[k])
  <2>0. PICK left : Put([tables EXCEPT ![final] = left])
    BY <1>4 DEF KilledMakingTable, List
  <2> DEFINE new == [tables EXCEPT ![final] = left]
  <2>1. Put(new)
    BY <2>0
  <2>2. k \in 0 .. Len(FileList(a))
    <3>1. k \in 1 .. RepairedBefore(FileList(a))
      BY <1>4 DEF KilledMakingTable, List
    <3>2. Len(FileList(a)) \in 1 .. 7
      BY FileLists
    <3> QED BY <3>1, <3>2, RepairedInList
  <2>3. \A f \in DOMAIN tables : ~InResults(f)
    <3> HIDE DEF a
    <3> QED BY <2>2, StoredNames, NotInResults
  <2>4. DOMAIN new = DOMAIN tables
    <3> HIDE DEF tables, final
    <3> QED OBVIOUS
  <2> HIDE DEF new, tables
  <2> QED BY <2>1, <2>3, <2>4, PutElsewhere
<1>5. ASSUME NEW log, NEW content, log = SenderList(a)[vis.at], vis.at <= Len(SenderList(a)),
             Put([f \in {Final(log)} |-> content])
      PROVE  Kept
  <2>1. vis.at \in 1 .. Len(SenderList(a))
    <3> HIDE DEF a
    <3>1. Len(SenderList(a)) \in Nat
      BY SenderLists
    <3> QED BY <1>5, <3>1 DEF VisInv, VisShape
  <2>2. ~InResults(Final(log))
    BY <1>5, <2>1, SenderNames, NotInResults
  <2> DEFINE new == [f \in {Final(log)} |-> content]
  <2>3. Put(new) /\ \A f \in DOMAIN new : ~InResults(f)
    BY <1>5, <2>2
  <2> HIDE DEF new
  <2> QED BY <2>3, PutElsewhere
<1>6. CASE SenderStep
  <2> DEFINE log == SenderList(a)[vis.at]
  <2>1. \/ files' = files
        \/ vis.at <= Len(SenderList(a)) /\ Put([f \in {Final(log)} |-> SenderTable(log)])
    BY <1>6 DEF SenderStep
  <2> QED BY <2>1, <1>5, KeptByNone
<1>7. CASE KilledMakingSender
  <2> DEFINE log == SenderList(a)[vis.at]
  <2>1. PICK left : /\ vis.at <= Len(SenderList(a))
                    /\ Put([f \in {Final(log)} |-> left])
    BY <1>7 DEF KilledMakingSender
  <2> QED BY <2>1, <1>5
<1>8. CASE QueueStep \/ DropsRenamed
  <2>1. \A stem, part : ~InResults(Here(stem, part)) /\ ~InResults(TestLog(a, part))
    BY FileParts, NotInResults DEF Here, TestLog
  <2>2. CASE QueueStep
    BY <2>1, <2>2, RenamedKept DEF QueueStep
  <2>3. CASE DropsRenamed
    BY <2>1, <2>3, RenamedKept DEF DropsRenamed
  <2> QED BY <1>8, <2>2, <2>3
<1>9. CASE Plot \/ DropsOfSeed \/ Rates \/ Over \/ KilledBetween
  BY <1>9, KeptByNone DEF Plot, DropsOfSeed, Rates, Over, KilledBetween
<1> QED BY <1>1, <1>2, <1>3, <1>4, <1>6, <1>7, <1>8, <1>9 DEF Visualise, VisNext

LEMMA VisFields ==
  ASSUME VisInv
  PROVE  /\ DOMAIN vis = {"step", "args", "at", "table", "plots", "queue", "drops"}
         /\ vis.at \in Nat \ {0}
  BY DEF VisInv, VisShape

LEMMA VisInvInit == Init => VisInv
  BY NoExecutionShape DEF Init, VisInit, VisInv

LEMMA VisInvStep == VisInv /\ [Next]_vars => VisInv'
<1> SUFFICES ASSUME VisInv, [Next]_vars PROVE VisInv'
  OBVIOUS
<1>1. CASE UNCHANGED vis
  BY <1>1 DEF VisInv
<1>2. CASE vis' = NoExecution
  BY <1>2, NoExecutionShape DEF VisInv
<1>3. ASSUME NEW result, Stop(result) PROVE VisInv'
  BY <1>3 DEF Stop, VisInv, VisShape
<1>4. ASSUME NEW table, WithTable(table) PROVE VisInv'
  BY <1>4 DEF WithTable, VisInv, VisShape
<1>5. ASSUME NEW b, Begin(b) PROVE VisInv'
  <2> DEFINE args0 == Request("visualise", 10, 1, NotGiven, NotGiven, 1, "cubic", 5)
             Begun(step) == [step |-> step, args |-> b, at |-> 1, table |-> NoTable,
                             plots |-> <<>>, queue |-> NoTable, drops |-> NoTable]
  <2>1. NoExecution = [step |-> "idle", args |-> args0, at |-> 1, table |-> NoTable,
                       plots |-> <<>>, queue |-> NoTable, drops |-> NoTable]
    BY DEF NoExecution
  <2> HIDE DEF args0
  <2>2. vis' = Begun("tables") \/ vis' = Begun("nofolder")
    BY <1>5, <2>1 DEF Begin
  <2> QED BY <2>2 DEF VisInv, VisShape
<1>6. CASE MakeTable
  BY <1>3, <1>4, <1>6 DEF MakeTable, GenerateSendersCsv
<1>7. CASE SenderStep
  <2>1. CASE vis' = [vis EXCEPT !.step = "plot", !.at = 1]
    <3>1. PICK at : vis' = [vis EXCEPT !.step = "plot", !.at = at] /\ at = 1
      BY <2>1
    <3>2. at \in Nat \ {0}
      BY <3>1
    <3> QED BY <3>1, <3>2 DEF VisInv, VisShape
  <2>2. CASE vis' = [vis EXCEPT !.at = @ + 1]
    <3>1. vis.at + 1 \in Nat \ {0}
      BY VisFields
    <3> DEFINE at == vis.at + 1
    <3>2. vis' = [vis EXCEPT !.at = at]
      BY <2>2
    <3> HIDE DEF at
    <3> QED BY <3>1, <3>2 DEF VisInv, VisShape, at
  <2> QED BY <1>3, <1>7, <2>1, <2>2 DEF SenderStep
<1>8. CASE Plot
  <2>1. CASE Plottable(vis.table)
    <3>1. PICK step, plots, at : /\ vis' = [vis EXCEPT !.plots = plots, !.at = at, !.step = step]
                                 /\ at = vis.at + 1
      BY <1>8, <2>1 DEF Plot
    <3>2. at \in Nat \ {0}
      BY <3>1, VisFields
    <3> QED BY <3>1, <3>2 DEF VisInv, VisShape
  <2> QED BY <1>3, <1>8, <2>1 DEF Plot
<1>9. CASE QueueStep
  <2>1. ASSUME NEW queue, vis' = [vis EXCEPT !.queue = queue, !.step = "drops"] PROVE VisInv'
    BY <2>1 DEF VisInv, VisShape
  <2> QED BY <1>3, <1>9, <2>1 DEF QueueStep, Renamed
<1>10. CASE DropsOfSeed \/ DropsRenamed
  <2>1. ASSUME NEW drops, NEW step, vis' = [vis EXCEPT !.drops = drops, !.step = step]
        PROVE  VisInv'
    BY <2>1 DEF VisInv, VisShape
  <2>2. CASE DropsOfSeed
    BY <1>3, <2>1, <2>2 DEF DropsOfSeed
  <2>3. CASE DropsRenamed
    <3>1. \/ \E result : Stop(result)
          \/ \E drops, step : vis' = [vis EXCEPT !.drops = drops, !.step = step]
      BY <2>3 DEF DropsRenamed, Renamed
    <3> QED BY <1>3, <2>1, <3>1
  <2> QED BY <1>10, <2>2, <2>3
<1>11. CASE Rates \/ Over \/ KilledBetween
  BY <1>2, <1>3, <1>11 DEF Rates, Over, KilledBetween, Killed
<1>12. ASSUME NEW k, KilledMakingSender \/ KilledMakingTable(k) PROVE VisInv'
  BY <1>2, <1>12 DEF KilledMakingSender, KilledMakingTable, Killed
<1>13. ASSUME NEW b, Collect(b) PROVE VisInv'
  BY <1>1, <1>13 DEF Collect
<1>14. CASE Visualise
  BY <1>5, <1>6, <1>7, <1>8, <1>9, <1>10, <1>11, <1>12, <1>13, <1>14 DEF Visualise, VisNext
<1>15. CASE Simulate \/ MakeFolder \/ Evaluate \/ UNCHANGED vars
  BY <1>1, <1>15 DEF Simulate, MakeFolder, Evaluate, vars
<1> QED BY <1>14, <1>15 DEF Next

-----------------------------------------------------------------------------
(* Files and tables are from simulations of the seed in their names.       *)

Marked(f, seed) ==
  /\ f[4] \in {0, seed}
  /\ f[1][1] = "results_test" => f[1][4] \in {0, seed}

Right(f, by) == \A r \in by : r \in RunIds /\ Marked(f, runs[r].seed)

FileSeeds == \A f \in Existing : Right(f, files[f].by)

LEMMA FileSeedsInit == Init => FileSeeds
  BY DEF Init, FilesInit, FileSeeds, Existing

LEMMA PutSeeds ==
  ASSUME FileSeeds, NEW new, Put(new), UNCHANGED runs,
         \A f \in DOMAIN new : Right(f, new[f].by)
  PROVE  FileSeeds'
<1>1. \A f \in DOMAIN files' : Right(f, files'[f].by)
  BY PutValues DEF FileSeeds, Existing
<1>2. \A f, by : Right(f, by)' <=> Right(f, by)
  BY DEF Right, RunIds
<1> QED BY <1>1, <1>2 DEF FileSeeds, Existing, Right, RunIds

LEMMA SameSeeds ==
  ASSUME FileSeeds, UNCHANGED <<files, runs>>
  PROVE  FileSeeds'
  BY DEF FileSeeds, Existing, Right, RunIds

LEMMA LogMarked ==
  ASSUME NEW script \in AllScripts, NEW seed, NEW f \in Logs(script, seed)
  PROVE  Marked(f, seed)
  BY LogsOfSeed DEF Marked

LEMMA OpenSeeds ==
  ASSUME SimulationInv, FileSeeds,
         NEW script \in AllScripts, NEW seed \in AnySeed, OpenLogs(script, seed)
  PROVE  FileSeeds'
<1> DEFINE n == Len(runs) + 1
           new == [f \in Logs(script, seed) |-> Content({n}, <<>>, FALSE)]
<1>0. runs \in Seq(RunRecords)
  BY DEF SimulationInv
<1>1. /\ Len(runs) \in Nat /\ Len(runs') = n
      /\ \A r \in RunIds : runs'[r] = runs[r]
      /\ runs'[n].seed = seed
  <2>1. /\ Len(runs) \in Nat /\ Len(runs') = n
        /\ \A r \in RunIds : runs'[r] = runs[r]
        /\ runs'[n] = [script |-> script, seed |-> seed,
                       random |-> RandomSeed(script, seed)]
    BY <1>0, AppendRun
  <2> HIDE DEF n
  <2> QED BY <2>1
<1>2. /\ DOMAIN files' = Existing \cup Logs(script, seed)
      /\ \A f \in Logs(script, seed) : files'[f].by = {n}
      /\ \A f \in Existing \ Logs(script, seed) : files'[f] = files[f]
  <2>1. Put(new)
    BY DEF OpenLogs
  <2>2. DOMAIN new = Logs(script, seed) /\ \A f \in Logs(script, seed) : new[f].by = {n}
    BY ContentParts
  <2> HIDE DEF new
  <2> QED BY <2>1, <2>2, PutValues
<1>3. n \in RunIds' /\ \A r \in RunIds : r \in RunIds'
  BY <1>1 DEF RunIds
<1> HIDE DEF new, n
<1>4. ASSUME NEW f \in DOMAIN files', NEW r \in files'[f].by
      PROVE  r \in RunIds' /\ Marked(f, runs'[r].seed)
  <2>1. CASE f \in Logs(script, seed)
    BY <1>1, <1>2, <1>3, <1>4, <2>1, LogMarked
  <2>2. CASE f \notin Logs(script, seed)
    <3>1. f \in Existing /\ r \in files[f].by
      BY <1>2, <1>4, <2>2
    <3> QED BY <1>1, <1>3, <3>1 DEF FileSeeds, Right
  <2> QED BY <2>1, <2>2
<1> QED BY <1>4 DEF FileSeeds, Existing, Right

LEMMA RunScripts ==
  ASSUME SimulationInv, NEW r \in RunIds
  PROVE  runs[r].script \in AllScripts /\ runs[r].seed \in AnySeed
<1>1. runs \in Seq(RunRecords) /\ r \in 1 .. Len(runs)
  BY DEF SimulationInv, RunIds
<1>2. runs[r] \in RunRecords
  BY <1>1
<1> QED BY <1>2 DEF RunRecords

LEMMA WrittenSeeds ==
  ASSUME SimulationInv, FileSeeds, NEW r, NEW logs, NEW n, Written(r, logs, n)
  PROVE  FileSeeds'
<1>1. r \in RunIds /\ logs \subseteq Logs(runs[r].script, runs[r].seed) /\ UNCHANGED runs
  BY DEF Written, LogsOf
<1>2. \A f \in logs : Marked(f, runs[r].seed)
  BY <1>1, RunScripts, LogMarked
<1>3. \A f \in Existing : files'[f].by = files[f].by \cup (IF f \in logs THEN {r} ELSE {})
  BY WrittenValues
<1>4. DOMAIN files' = Existing
  BY WrittenValues
<1>5. RunIds' = RunIds
  BY <1>1 DEF RunIds
<1>6. ASSUME NEW f \in Existing, NEW q \in files'[f].by
      PROVE  q \in RunIds' /\ Marked(f, runs'[q].seed)
  BY <1>1, <1>2, <1>3, <1>5, <1>6 DEF FileSeeds, Right
<1> QED BY <1>4, <1>6 DEF FileSeeds, Existing, Right

\* A table or file with the name of another, but for its kind, or by none.
LEMMA RightAs ==
  ASSUME NEW f, NEW g, NEW by, f[4] = g[4], f[1] = g[1], Right(f, by)
  PROVE  Right(g, by)
  BY DEF Right, Marked

LEMMA RightNone ==
  ASSUME NEW f
  PROVE  Right(f, {})
  BY DEF Right

LEMMA FinalParts ==
  ASSUME NEW folder, NEW stem, NEW part, NEW seed
  PROVE  LET log == File(folder, stem, part, seed)
         IN  /\ Final(log)[1] = folder /\ Final(log)[4] = seed
             /\ [Final(log) EXCEPT ![5] = "log"] = log
             /\ Source(log)[1] = Plain(folder[1]) /\ Source(log)[4] = seed
  BY DEF Final, File, Source

\* A file that is right for its name is right under the name of its table.
LEMMA FinalRight ==
  ASSUME NEW folder, NEW stem, NEW part, NEW seed, NEW by,
         Right(File(folder, stem, part, seed), by)
  PROVE  Right(Final(File(folder, stem, part, seed)), by)
<1> DEFINE log == File(folder, stem, part, seed)
<1>1. log[1] = folder /\ log[4] = seed
  BY FileParts
<1>2. Final(log)[1] = folder /\ Final(log)[4] = seed
  BY FinalParts
<1> HIDE DEF log
<1> QED BY <1>1, <1>2, RightAs DEF log

LEMMA RepairedSound ==
  ASSUME NEW a, NEW i \in 1 .. RepairedBefore(FileList(a))
  PROVE  Repairable(FileList(a)[i])
<1> DEFINE n == Len(FileList(a))
           Bad == {j \in 1 .. n : ~Repairable(FileList(a)[j])}
           c == CHOOSE j \in 1 .. n : /\ ~Repairable(FileList(a)[j])
                                     /\ \A m \in 1 .. j - 1 : Repairable(FileList(a)[m])
<1>0. n \in 1 .. 7
  BY FileLists
<1>1. CASE Bad = {}
  <2>1. RepairedBefore(FileList(a)) = n
    BY <1>1 DEF RepairedBefore
  <2> QED BY <1>1, <2>1
<1>2. CASE Bad # {}
  <2>1. RepairedBefore(FileList(a)) = c - 1
    BY <1>2 DEF RepairedBefore
  <2>2. \E j \in 1 .. n : /\ ~Repairable(FileList(a)[j])
                          /\ \A m \in 1 .. j - 1 : Repairable(FileList(a)[m])
    BY <1>2, <1>0, FirstBad
  <2>3. \A m \in 1 .. c - 1 : Repairable(FileList(a)[m])
    BY <2>2
  <2> HIDE DEF c, n
  <2> QED BY <2>1, <2>3
<1> QED BY <1>1, <1>2

LEMMA MadeFrom ==
  ASSUME NEW log
  PROVE  /\ Repaired(log).by = files[log].by
         /\ Stored(Repaired(log)).by = files[log].by
         /\ SenderTable(log).by = files[log].by
         /\ \A table, left : left \in Remains(table) => left.by \subseteq table.by
<1>1. \A by, records : Table(by, records).by = by
  BY ContentParts DEF Table
<1>2. Repaired(log).by = files[log].by
  BY <1>1 DEF Repaired
<1>3. \A table : Stored(table).by = table.by
  BY <1>1 DEF Stored
<1>4. SenderTable(log).by = files[log].by
  BY <1>1 DEF SenderTable
<1>5. ASSUME NEW table, NEW left \in Remains(table) PROVE left.by \subseteq table.by
  <2>1. \A n : Truncated(table, n).by = table.by
    BY ContentParts DEF Truncated
  <2>2. Blank.by = {}
    BY ContentParts DEF Blank
  <2> QED BY <2>1, <2>2, RemainsParts
<1> QED BY <1>2, <1>3, <1>4, <1>5

\* The tables stored are right for their names, as the logs they are made of.
LEMMA StoredSeeds ==
  ASSUME FileSeeds, NEW a, NEW k \in 0 .. RepairedBefore(FileList(a)),
         NEW f \in DOMAIN StoredTables(FileList(a), k)
  PROVE  Right(f, StoredTables(FileList(a), k)[f].by)
<1>0. Len(FileList(a)) \in 1 .. 7
  BY FileLists
<1>1. PICK i \in 1 .. k : f = Final(FileList(a)[i])
  BY DEF StoredTables
<1>2. i \in 1 .. Len(FileList(a)) /\ i \in 1 .. RepairedBefore(FileList(a))
  BY <1>0, <1>1, RepairedInList
<1> DEFINE log == FileList(a)[i]
<1>3. PICK stem, part, seed : log = File(FolderOf(a), stem, part, seed)
  BY <1>2, FileLists
<1>4. log \in Existing
  BY <1>2, RepairedSound DEF Repairable
<1>5. [f EXCEPT ![5] = "log"] = log
  BY <1>1, <1>3, FinalParts
<1>6. StoredTables(FileList(a), k)[f] = Stored(Repaired(log))
  BY <1>5 DEF StoredTables
<1>7. Stored(Repaired(log)).by = files[log].by
  BY MadeFrom
<1>8. Right(log, files[log].by)
  BY <1>4 DEF FileSeeds
<1> HIDE DEF log
<1> QED BY <1>1, <1>3, <1>6, <1>7, <1>8, FinalRight DEF log

\* visualise.py looks into folders in results_test, visualise_switches.py never.
LEMMA Bases ==
  ASSUME NEW a
  PROVE  /\ a.tool = "visualise" /\ FolderOf(a) # NoFolder => FolderOf(a)[1] = "results_test"
         /\ a.tool # "visualise" => FolderOf(a)[1] # "results_test"
<1> DEFINE In(base, x) == \E label, cc, seed, bw : x = Folder(base, label, cc, seed, bw)
<1>0. \A base, label, cc, seed, bw : /\ In(base, Folder(base, label, cc, seed, bw))
                                     /\ In(base, Unnumbered(base, label))
  BY DEF Unnumbered
<1>1. \A base, x : In(base, x) => x[1] = base
  BY FolderParts
<1> HIDE DEF In
<1>2. In("results_test", OneSender(a))
  <2>1. OneSender(a) \in {Unnumbered("results_test", "10Mbps_1sender"),
                          Folder("results_test", "1Mbps_1sender_inf", a.cc, a.seed, a.bw),
                          Folder("results_test", "1Mbps_1sender", a.cc, a.seed, a.bw)}
    BY DEF OneSender
  <2> QED BY <1>0, <2>1
<1>3. In("results_test", ThreeSenders(a))
  <2>1. PICK cc : ThreeSenders(a) \in
          {Unnumbered("results_test", "10Mbps_3senders"),
           Folder("results_test", "1Mbps_3senders_inf_rst", cc, a.seed, a.bw),
           Folder("results_test", "1Mbps_3senders", "-", a.seed, 0)}
    BY DEF ThreeSenders
  <2> QED BY <1>0, <2>1
<1>4. \A base : In(base, SixSenders(base, a))
  <2> SUFFICES ASSUME NEW base PROVE In(base, SixSenders(base, a))
    OBVIOUS
  <2>1. SixSenders(base, a) \in {Unnumbered(base, "10Mbps_6senders"),
                                 Unnumbered(base, "1Mbps_6senders"),
                                 Folder(base, "1Mbps_6senders_inf_rst", "cubic", a.seed, a.bw),
                                 Folder(base, "1Mbps_6senders_rst", "-", a.seed, 0)}
    BY DEF SixSenders
  <2> QED BY <1>0, <2>1
<1>5. In("results_test", SixtySenders(a))
  <2>1. SixtySenders(a) \in
          {Unnumbered("results_test", "1Mbps_60senders"),
           Folder("results_test", "1Mbps_60senders_inf_rst", a.cc, a.seed, a.bw),
           Folder("results_test", "1Mbps_60senders_rst", a.cc, a.seed, a.bw)}
    BY DEF SixtySenders
  <2> QED BY <1>0, <2>1
<1>6. In("results_test_large", NineSenders("results_test_large", a))
  <2>1. NineSenders("results_test_large", a) \in
          {Unnumbered("results_test_large", "1Mbps_9senders"),
           Folder("results_test_large", "1Mbps_9senders_inf_rst", "cubic", a.seed, a.bw),
           Folder("results_test_large", "1Mbps_9senders_rst", "-", a.seed, 0)}
    BY DEF NineSenders
  <2> QED BY <1>0, <2>1
<1>7. NoFolder[1] # "results_test"
  BY PlainParts DEF NoFolder
<1>8. VisualiseFolder(a) \in {OneSender(a), ThreeSenders(a), SixSenders("results_test", a),
                              SixtySenders(a), NoFolder}
  BY DEF VisualiseFolder
<1>9. SwitchesFolder(a) \in {SixSenders("results_test_large", a),
                             NineSenders("results_test_large", a), NoFolder}
  BY DEF SwitchesFolder
<1>10. CASE a.tool = "visualise"
  BY <1>1, <1>2, <1>3, <1>4, <1>5, <1>8, <1>10 DEF FolderOf
<1>11. CASE a.tool # "visualise"
  BY <1>1, <1>4, <1>6, <1>7, <1>9, <1>11 DEF FolderOf
<1> QED BY <1>10, <1>11

\* What an execution has read is from simulations of the seed it was given, its
\* queue log from that of the folder.
VisSeeds ==
  LET a == vis.args
  IN  /\ vis.step # "idle" => a.tool \in {"visualise", "switches"} /\ a.seed \in Seeds
      /\ vis.step \notin {"idle", "nofolder"} => FolderOf(a) # NoFolder
      /\ vis.step \in {"tables", "plot"} => vis.at \in 1 .. Len(FileList(a))
      /\ a.tool = "visualise" =>
           /\ \A r \in vis.table.by : r \in RunIds /\ runs[r].seed = a.seed
           /\ \A r \in vis.drops.by : r \in RunIds /\ runs[r].seed = a.seed
           /\ \A r \in vis.queue.by : r \in RunIds /\ FolderOf(a)[4] \in {0, runs[r].seed}

\* Logs that the user collects for visualise.py are of one seed.
LEMMA CollectedOfSeed ==
  ASSUME NEW a, NEW log \in CollectedLogs(a)
  PROVE  \E stem, part, seed : /\ log = File(FolderOf(a), stem, part, seed)
                               /\ a.tool = "visualise" => seed = a.seed
<1>1. CASE log \in NeededLogs(a)
  <2>1. CASE \E i \in 1 .. Len(FileList(a)) : log = FileList(a)[i]
    <3>1. PICK i \in 1 .. Len(FileList(a)) : log = FileList(a)[i]
      BY <2>1
    <3>2. CASE a.tool = "visualise"
      <4>1. FileList(a) = <<TestLog(a, Packets)>>
        BY <3>2 DEF FileList, VisualiseList
      <4>2. log = TestLog(a, Packets)
        <5>1. Len(FileList(a)) = 1 /\ FileList(a)[1] = TestLog(a, Packets)
          BY <4>1
        <5>2. i = 1
          BY <5>1
        <5> QED BY <3>1, <5>1, <5>2
      <4> QED BY <4>2 DEF TestLog
    <3>3. CASE a.tool # "visualise"
      BY <3>1, <3>3, FileLists
    <3> QED BY <3>2, <3>3
  <2>2. CASE \E i \in 1 .. Len(SenderList(a)) : log = SenderList(a)[i]
    BY <2>2, SenderLists DEF TestLog
  <2> QED BY <1>1, <2>1, <2>2 DEF NeededLogs
<1>2. CASE a.tool = "visualise" /\ log \in {TestLog(a, Queues), TestLog(a, Drops)}
  BY <1>2 DEF TestLog
<1>3. CASE /\ a.tool # "visualise"
           /\ log \in {File(FolderOf(a), "queue", Queues, 0), File(FolderOf(a), "drops", Drops, 0)}
  BY <1>3
<1> QED BY <1>1, <1>2, <1>3 DEF CollectedLogs

LEMMA CollectedRight ==
  ASSUME FileSeeds, NEW a, a.seed \in Seeds, NEW log \in CollectedLogs(a),
         Source(log) \in Existing
  PROVE  Right(log, files[Source(log)].by)
<1>1. PICK stem, part, seed : /\ log = File(FolderOf(a), stem, part, seed)
                              /\ a.tool = "visualise" => seed = a.seed
  BY CollectedOfSeed
<1>2. /\ Source(log)[4] = seed /\ log[4] = seed /\ log[1] = FolderOf(a)
  BY <1>1, FileParts, FinalParts
<1>3. a.seed # 0
  BY SeedsAssumption
<1>4. ASSUME NEW s, Marked(Source(log), s) PROVE Marked(log, s)
  <2>1. seed \in {0, s}
    BY <1>2, <1>4 DEF Marked
  <2>2. ASSUME FolderOf(a)[1] = "results_test" PROVE FolderOf(a)[4] \in {0, s}
    <3>1. a.tool = "visualise"
      BY <2>2, Bases
    <3>2. a.seed = s
      BY <1>1, <1>3, <2>1, <3>1
    <3> QED BY <3>2, Folders
  <2> QED BY <1>2, <2>1, <2>2 DEF Marked
<1> QED BY <1>4 DEF FileSeeds, Right

LEMMA RequestSeeds ==
  ASSUME SimulationInv, NEW a \in campaign.requests
  PROVE  a.tool \in {"visualise", "switches"} /\ a.seed \in Seeds
BY CampaignsAssumption DEF SimulationInv

LEMMA RenamedSeeds ==
  ASSUME FileSeeds, NEW a, NEW part, NEW stem, NEW next, UNCHANGED runs,
         Renamed(TestLog(a, part), File(FolderOf(a), stem, part, 0), next)
  PROVE  FileSeeds'
<1> DEFINE log == TestLog(a, part)
           fixed == File(FolderOf(a), stem, part, 0)
<1>0. /\ log[1] = FolderOf(a)
      /\ fixed[1] = FolderOf(a) /\ fixed[4] = 0
  BY FileParts DEF TestLog
<1> HIDE DEF log, fixed
<1>1. CASE files' = files
  BY <1>1, SameSeeds
<1>2. CASE log \in Existing /\ Move(log, fixed, files[log])
  <2>1. Right(log, files[log].by)
    BY <1>2 DEF FileSeeds
  <2>2. Right(fixed, files[log].by)
    BY <1>0, <2>1 DEF Right, Marked
  <2>3. \A f \in DOMAIN files' : Right(f, files'[f].by)
    BY <1>2, <2>2 DEF Move, FileSeeds, Existing
  <2>4. \A f, by : Right(f, by)' <=> Right(f, by)
    BY DEF Right, RunIds
  <2> QED BY <2>3, <2>4 DEF FileSeeds, Existing, Right, RunIds
<1>3. \/ files' = files
      \/ log \in Existing /\ Move(log, fixed, files[log])
  BY DEF Renamed, log, fixed
<1> QED BY <1>1, <1>2, <1>3

LEMMA VisualiseSeeds ==
  ASSUME SimulationInv, VisInv, FileSeeds, Visualise
  PROVE  FileSeeds'
<1> DEFINE a == vis.args
<1>0. UNCHANGED runs
  BY OthersLeaveRuns
<1>1. ASSUME NEW b, Begin(b) PROVE FileSeeds'
  BY <1>0, <1>1, SameSeeds DEF Begin
<1>2. ASSUME NEW b \in campaign.requests, Collect(b) PROVE FileSeeds'
  <2> DEFINE new == [log \in CollectedLogs(b) |-> files[Source(log)]]
  <2>1. Put(new)
    BY <1>2 DEF Collect
  <2>2. \A log \in CollectedLogs(b) : Source(log) \in Existing
    BY <1>2 DEF Collect
  <2>3. \A f \in DOMAIN new : Right(f, new[f].by)
    BY <2>2, CollectedRight, RequestSeeds
  <2> HIDE DEF new
  <2> QED BY <1>0, <2>1, <2>3, PutSeeds
<1>3. CASE MakeTable
  <2> DEFINE k == RepairedBefore(FileList(a))
  <2>1. CASE files' = files
    BY <1>0, <2>1, SameSeeds
  <2>2. CASE Put(StoredTables(FileList(a), k))
    <3>1. k \in 0 .. k
      BY RepairedInList, FileLists
    <3>2. \A f \in DOMAIN StoredTables(FileList(a), k) :
            Right(f, StoredTables(FileList(a), k)[f].by)
      <4> HIDE DEF a
      <4> QED BY <3>1, StoredSeeds
    <3> QED BY <1>0, <2>2, <3>2, PutSeeds
  <2> QED BY <1>3, <2>1, <2>2 DEF MakeTable, GenerateSendersCsv, List
<1>4. ASSUME NEW k \in 1 .. 7, KilledMakingTable(k) PROVE FileSeeds'
  <2> DEFINE tables == StoredTables(FileList(a), k)
             final == Final(FileList(a)[k])
  <2>0. PICK left \in Remains(tables[final]) : Put([tables EXCEPT ![final] = left])
    BY <1>4 DEF KilledMakingTable, List
  <2> DEFINE new == [tables EXCEPT ![final] = left]
  <2>1. Put(new)
    BY <2>0
  <2>2. k \in 0 .. RepairedBefore(FileList(a))
    BY <1>4 DEF KilledMakingTable, List
  <2>3. \A f \in DOMAIN tables : Right(f, tables[f].by)
    <3> HIDE DEF a
    <3> QED BY <2>2, StoredSeeds
  <2> HIDE DEF tables, final
  <2>4. \A f \in DOMAIN new : f \in DOMAIN tables /\ new[f].by \subseteq tables[f].by
    BY <2>0, MadeFrom
  <2> HIDE DEF new
  <2>5. \A f \in DOMAIN new : Right(f, new[f].by)
    BY <2>3, <2>4 DEF Right
  <2> QED BY <1>0, <2>1, <2>5, PutSeeds
<1>5. ASSUME NEW log, NEW content, log = SenderList(a)[vis.at], vis.at <= Len(SenderList(a)),
             log \in Existing, content.by \subseteq files[log].by,
             Put([f \in {Final(log)} |-> content])
      PROVE  FileSeeds'
  <2>1. vis.at \in 1 .. Len(SenderList(a))
    <3> HIDE DEF a
    <3>1. Len(SenderList(a)) \in Nat
      BY SenderLists
    <3> QED BY <1>5, <3>1, VisFields
  <2>2. PICK part : log = TestLog(a, part)
    BY <1>5, <2>1, SenderLists
  <2>3. Right(Final(log), content.by)
    <3>1. Right(log, content.by)
      BY <1>5 DEF FileSeeds, Right
    <3> QED BY <2>2, <3>1, FinalRight DEF TestLog
  <2> DEFINE new == [f \in {Final(log)} |-> content]
  <2>4. Put(new) /\ \A f \in DOMAIN new : Right(f, new[f].by)
    BY <1>5, <2>3
  <2> HIDE DEF new
  <2> QED BY <1>0, <2>4, PutSeeds
<1>6. CASE SenderStep
  <2> DEFINE log == SenderList(a)[vis.at]
  <2>1. \/ files' = files
        \/ /\ vis.at <= Len(SenderList(a)) /\ log \in Existing
           /\ Put([f \in {Final(log)} |-> SenderTable(log)])
    BY <1>6 DEF SenderStep
  <2>2. SenderTable(log).by = files[log].by
    BY MadeFrom
  <2> QED BY <1>0, <2>1, <2>2, <1>5, SameSeeds
<1>7. CASE KilledMakingSender
  <2> DEFINE log == SenderList(a)[vis.at]
  <2>1. PICK left \in Remains(SenderTable(log)) :
          /\ vis.at <= Len(SenderList(a)) /\ log \in Existing
          /\ Put([f \in {Final(log)} |-> left])
    BY <1>7 DEF KilledMakingSender
  <2>2. left.by \subseteq files[log].by
    BY <2>1, MadeFrom
  <2> QED BY <2>1, <2>2, <1>5
<1>8. CASE QueueStep
  BY <1>0, <1>8, RenamedSeeds DEF QueueStep, Here
<1>9. CASE DropsRenamed
  BY <1>0, <1>9, RenamedSeeds DEF DropsRenamed, Here
<1>10. CASE Plot \/ DropsOfSeed \/ Rates \/ Over \/ KilledBetween
  <2>1. files' = files
    BY <1>10 DEF Plot, DropsOfSeed, Rates, Over, KilledBetween, Stop
  <2> QED BY <1>0, <2>1, SameSeeds
<1> QED BY <1>1, <1>2, <1>3, <1>4, <1>6, <1>7, <1>8, <1>9, <1>10 DEF Visualise, VisNext

LEMMA FileSeedsStep ==
  SimulationInv /\ VisInv /\ FileSeeds /\ [Next]_vars => FileSeeds'
<1> SUFFICES ASSUME SimulationInv, VisInv, FileSeeds, [Next]_vars PROVE FileSeeds'
  OBVIOUS
<1>1. CASE Simulate
  <2>1. CASE UNCHANGED <<files, runs>>
    BY <2>1, SameSeeds
  <2>2. CASE \E script \in AllScripts, seed \in AnySeed : OpenLogs(script, seed)
    BY <2>2, OpenSeeds
  <2>3. CASE \E t \in Simulating : \E logs, n : Written(job[t].run, logs, n)
    BY <2>3, WrittenSeeds
  <2> QED BY <1>1, <2>1, <2>2, <2>3, DockerSteps
<1>2. CASE Visualise
  BY <1>2, VisualiseSeeds
<1>3. CASE MakeFolder \/ Evaluate \/ UNCHANGED vars
  <2>1. UNCHANGED <<files, runs>>
    BY <1>3 DEF MakeFolder, Evaluate, vars
  <2> QED BY <2>1, SameSeeds
<1> QED BY <1>1, <1>2, <1>3 DEF Next

\* What an execution keeps while it goes on with the same arguments.
LEMMA VisSeedsKept ==
  ASSUME VisSeeds, UNCHANGED runs, vis.step \notin {"idle", "nofolder"},
         vis'.args = vis.args,
         vis'.step \in {"tables", "plot"} => vis'.at \in 1 .. Len(FileList(vis.args)),
         vis.args.tool = "visualise" =>
           /\ \A r \in vis'.table.by : r \in RunIds /\ runs[r].seed = vis.args.seed
           /\ \A r \in vis'.drops.by : r \in RunIds /\ runs[r].seed = vis.args.seed
           /\ \A r \in vis'.queue.by :
                r \in RunIds /\ FolderOf(vis.args)[4] \in {0, runs[r].seed}
  PROVE  VisSeeds'
<1>1. \A a : FolderOf(a)' = FolderOf(a) /\ FileList(a)' = FileList(a)
  OBVIOUS
<1>2. RunIds' = RunIds /\ runs' = runs
  BY DEF RunIds
<1> QED BY <1>1, <1>2 DEF VisSeeds

\* No execution.
LEMMA VisSeedsNone ==
  ASSUME vis' = NoExecution
  PROVE  VisSeeds'
<1> DEFINE args0 == Request("visualise", 10, 1, NotGiven, NotGiven, 1, "cubic", 5)
<1> HIDE DEF args0
<1>1. /\ vis'.step = "idle" /\ vis'.table.by = {} /\ vis'.queue.by = {} /\ vis'.drops.by = {}
  BY ContentParts DEF NoExecution, NoTable, Table
<1> QED BY <1>1 DEF VisSeeds

LEMMA VisSeedsInit == Init => VisSeeds
<1> SUFFICES ASSUME Init PROVE VisSeeds
  OBVIOUS
<1>1. /\ vis.step = "idle" /\ vis.table.by = {} /\ vis.queue.by = {} /\ vis.drops.by = {}
  BY ContentParts DEF Init, VisInit, NoExecution, NoTable, Table
<1> QED BY <1>1 DEF VisSeeds

\* More simulations make no difference.
LEMMA VisSeedsWhileRunning ==
  ASSUME SimulationInv, VisSeeds, UNCHANGED vis,
         \/ UNCHANGED runs
         \/ \E script \in AllScripts, seed \in AnySeed : OpenLogs(script, seed)
  PROVE  VisSeeds'
<1>1. \A r \in RunIds : r \in RunIds' /\ runs'[r] = runs[r]
  <2>1. CASE UNCHANGED runs
    BY <2>1 DEF RunIds
  <2>2. CASE \E script \in AllScripts, seed \in AnySeed : OpenLogs(script, seed)
    <3>1. PICK script \in AllScripts, seed \in AnySeed : OpenLogs(script, seed)
      BY <2>2
    <3>2. runs \in Seq(RunRecords)
      BY DEF SimulationInv
    <3>3. /\ Len(runs) \in Nat /\ Len(runs') = Len(runs) + 1
          /\ \A r \in RunIds : runs'[r] = runs[r]
      BY <3>1, <3>2, AppendRun
    <3> QED BY <3>3 DEF RunIds
  <2> QED BY <2>1, <2>2
<1>2. vis' = vis
  OBVIOUS
<1> QED BY <1>1, <1>2 DEF VisSeeds

\* A file of the folder with the seed in its name.
LEMMA OfSeed ==
  ASSUME FileSeeds, NEW f \in Existing, NEW seed \in Seeds, f[4] = seed
  PROVE  \A r \in files[f].by : r \in RunIds /\ runs[r].seed = seed
<1>1. seed # 0
  BY SeedsAssumption
<1> QED BY <1>1 DEF FileSeeds, Right, Marked

LEMMA ListSeeds ==
  ASSUME NEW a, a.tool = "visualise", NEW i \in 1 .. Len(FileList(a))
  PROVE  /\ Len(FileList(a)) = 1
         /\ FileList(a)[i][4] = a.seed /\ Final(FileList(a)[i])[4] = a.seed
<1>1. FileList(a) = <<TestLog(a, Packets)>>
  BY DEF FileList, VisualiseList
<1>2. Len(FileList(a)) = 1 /\ FileList(a)[1] = TestLog(a, Packets)
  BY <1>1
<1>3. FileList(a)[i] = TestLog(a, Packets)
  BY <1>2
<1> QED BY <1>2, <1>3, FileParts, FinalParts DEF TestLog

LEMMA TableSeeds ==
  ASSUME VisInv, VisSeeds, FileSeeds, MakeTable
  PROVE  VisSeeds'
<1> DEFINE a == vis.args
           OfRuns(by) == \A r \in by : r \in RunIds /\ runs[r].seed = a.seed
<1>0. /\ vis.step = "tables" /\ UNCHANGED runs /\ vis.at \in 1 .. Len(FileList(a))
      /\ a.seed \in Seeds
  BY DEF MakeTable, VisSeeds
<1>1. ASSUME NEW result \in {"unreadable", "missing"}, Stop(result) PROVE VisSeeds'
  <2>1. /\ vis'.args = a /\ vis'.step = result /\ vis'.table = vis.table
        /\ vis'.drops = vis.drops /\ vis'.queue = vis.queue
    BY <1>1, VisFields DEF Stop
  <2> HIDE DEF a
  <2> QED BY <1>0, <2>1, VisSeedsKept DEF VisSeeds, a
<1>2. ASSUME NEW table, WithTable(table), a.tool = "visualise" => OfRuns(table.by)
      PROVE  VisSeeds'
  <2>1. /\ vis'.args = a /\ vis'.at = vis.at /\ vis'.table = table
        /\ vis'.drops = vis.drops /\ vis'.queue = vis.queue
    BY <1>2, VisFields DEF WithTable
  <2> QED BY <1>0, <1>2, <2>1, VisSeedsKept DEF VisSeeds
<1>3. CASE Cached(Final(FileList(a)[vis.at]))
  <2> DEFINE final == Final(FileList(a)[vis.at])
  <2>1. ASSUME a.tool = "visualise" PROVE OfRuns(files[final].by)
    <3>1. final \in Existing
      BY <1>3 DEF Cached
    <3>2. final[4] = a.seed
      BY <1>0, <2>1, ListSeeds
    <3> HIDE DEF a, final
    <3> QED BY <1>0, <3>1, <3>2, OfSeed
  <2>2. Stop("unreadable") \/ WithTable(files[final])
    BY <1>3 DEF MakeTable, List
  <2> HIDE DEF OfRuns
  <2> QED BY <1>1, <1>2, <2>1, <2>2
<1>4. CASE ~Cached(Final(FileList(a)[vis.at]))
  <2> DEFINE k == RepairedBefore(FileList(a))
             n == Len(FileList(a))
             by == UNION {files[FileList(a)[i]].by : i \in 1 .. n}
  <2>1. GenerateSendersCsv(FileList(a))
    BY <1>4 DEF MakeTable, List
  <2>2. CASE k < n
    <3>1. Stop(Defect(FileList(a)[k + 1]))
      BY <2>1, <2>2 DEF GenerateSendersCsv
    <3>2. Defect(FileList(a)[k + 1]) \in {"missing", "unreadable"}
      BY DEF Defect
    <3> QED BY <1>1, <3>1, <3>2
  <2>3. CASE ~(k < n)
    <3>1. k = n
      BY <2>3, RepairedInList, FileLists
    <3>2. PICK records : WithTable(Table(by, records))
      BY <2>1, <2>3 DEF GenerateSendersCsv
    <3>3. Table(by, records).by = by
      BY ContentParts DEF Table
    <3>4. ASSUME a.tool = "visualise" PROVE OfRuns(by)
      <4>1. ASSUME NEW i \in 1 .. n PROVE OfRuns(files[FileList(a)[i]].by)
        <5>1. FileList(a)[i] \in Existing
          BY <3>1, RepairedSound DEF Repairable
        <5>2. FileList(a)[i][4] = a.seed
          BY <3>4, ListSeeds
        <5> HIDE DEF a
        <5> QED BY <1>0, <5>1, <5>2, OfSeed
      <4> QED BY <4>1
    <3> HIDE DEF OfRuns, by
    <3> QED BY <1>2, <3>2, <3>3, <3>4
  <2> QED BY <2>2, <2>3
<1> QED BY <1>3, <1>4

LEMMA AtLeastOne == \A a : 1 \in 1 .. Len(FileList(a))
<1> SUFFICES ASSUME NEW a PROVE 1 \in 1 .. Len(FileList(a))
  OBVIOUS
<1> DEFINE n == Len(FileList(a))
<1>1. n \in 1 .. 7
  BY FileLists
<1> HIDE DEF n
<1>2. 1 \in 1 .. n
  BY <1>1
<1> QED BY <1>2 DEF n

LEMMA VisSeedsStep ==
  /\ SimulationInv /\ VisInv /\ VisSeeds /\ FileSeeds /\ FileSeeds' /\ [Next]_vars
  => VisSeeds'
<1> SUFFICES ASSUME SimulationInv, VisInv, VisSeeds, FileSeeds, FileSeeds', [Next]_vars
             PROVE  VisSeeds'
  OBVIOUS
<1> DEFINE a == vis.args
<1>1. CASE Simulate
  <2>1. UNCHANGED vis
    BY <1>1 DEF Simulate
  <2> QED BY <1>1, <2>1, DockerSteps, VisSeedsWhileRunning DEF Written
<1>2. CASE MakeFolder \/ Evaluate \/ UNCHANGED vars
  BY <1>2, VisSeedsWhileRunning DEF MakeFolder, Evaluate, vars
<1>3. CASE Visualise
  <2>0. UNCHANGED runs
    BY <1>3, OthersLeaveRuns
  <2>1. ASSUME NEW b \in campaign.requests, Begin(b) PROVE VisSeeds'
    <3> DEFINE args0 == Request("visualise", 10, 1, NotGiven, NotGiven, 1, "cubic", 5)
               Begun(step) == [step |-> step, args |-> b, at |-> 1, table |-> NoTable,
                               plots |-> <<>>, queue |-> NoTable, drops |-> NoTable]
    <3>1. NoExecution = [step |-> "idle", args |-> args0, at |-> 1, table |-> NoTable,
                         plots |-> <<>>, queue |-> NoTable, drops |-> NoTable]
      BY DEF NoExecution
    <3> HIDE DEF args0
    <3>2. \/ vis' = Begun("tables") /\ FolderOf(b) # NoFolder
          \/ vis' = Begun("nofolder")
      BY <2>1, <3>1 DEF Begin
    <3>3. NoTable.by = {}
      BY ContentParts DEF NoTable, Table
    <3>4. /\ vis'.args = b /\ vis'.at = 1 /\ vis'.step \in {"tables", "nofolder"}
          /\ vis'.step = "tables" => FolderOf(b) # NoFolder
          /\ vis'.table.by = {} /\ vis'.queue.by = {} /\ vis'.drops.by = {}
      BY <3>2, <3>3
    <3>5. 1 \in 1 .. Len(FileList(b))
      BY AtLeastOne
    <3> HIDE DEF Begun
    <3> QED BY <3>4, <3>5, RequestSeeds DEF VisSeeds
  <2>2. ASSUME NEW b, Collect(b) PROVE VisSeeds'
    BY <2>0, <2>2, VisSeedsWhileRunning DEF Collect
  <2>3. CASE MakeTable
    BY <2>3, TableSeeds
  <2>4. ASSUME vis.step \notin {"idle", "nofolder"}, NEW result, result \notin {"tables", "plot"},
               Stop(result)
        PROVE  VisSeeds'
    <3>1. /\ vis'.args = a /\ vis'.step = result /\ vis'.table = vis.table
          /\ vis'.drops = vis.drops /\ vis'.queue = vis.queue
      BY <2>4, VisFields DEF Stop
    <3> HIDE DEF a
    <3> QED BY <2>0, <2>4, <3>1, VisSeedsKept DEF VisSeeds, a
  <2>5. CASE SenderStep
    <3>1. CASE vis' = [vis EXCEPT !.step = "plot", !.at = 1]
      <4>1. /\ vis'.args = a /\ vis'.at = 1 /\ vis'.table = vis.table
            /\ vis'.drops = vis.drops /\ vis'.queue = vis.queue
        BY <3>1, VisFields
      <4>2. 1 \in 1 .. Len(FileList(a))
        BY AtLeastOne
      <4>3. vis.step = "senders"
        BY <2>5 DEF SenderStep
      <4> QED BY <2>0, <4>1, <4>2, <4>3, VisSeedsKept DEF VisSeeds
    <3>2. CASE vis' = [vis EXCEPT !.at = @ + 1]
      <4>1. /\ vis'.args = a /\ vis'.step = vis.step /\ vis'.table = vis.table
            /\ vis'.drops = vis.drops /\ vis'.queue = vis.queue
        BY <3>2, VisFields
      <4>3. vis.step = "senders"
        BY <2>5 DEF SenderStep
      <4> QED BY <2>0, <4>1, <4>3, VisSeedsKept DEF VisSeeds
    <3>3. CASE \E result \in {"unreadable", "missing"} : Stop(result)
      <4>1. vis.step = "senders"
        BY <2>5 DEF SenderStep
      <4> QED BY <2>4, <3>3, <4>1
    <3> QED BY <2>5, <3>1, <3>2, <3>3 DEF SenderStep, Defect
  <2>6. CASE Plot
    <3>0. vis.step = "plot" /\ vis.at \in 1 .. Len(FileList(a)) /\ Len(FileList(a)) \in 1 .. 7
      BY <2>6, FileLists DEF Plot, VisSeeds
    <3>1. CASE ~Plottable(vis.table)
      <4>1. Stop("untyped")
        BY <2>6, <3>1 DEF Plot
      <4> QED BY <2>4, <3>0, <4>1
    <3>2. CASE Plottable(vis.table)
      <4>1. PICK plots, at, step :
              /\ vis' = [vis EXCEPT !.plots = plots, !.at = at, !.step = step]
              /\ at = vis.at + 1
              /\ step = IF vis.at < Len(FileList(a)) THEN "tables" ELSE "queue"
        BY <2>6, <3>2 DEF Plot, List
      <4>2. /\ vis'.args = a /\ vis'.table = vis.table /\ vis'.at = at /\ vis'.step = step
            /\ vis'.drops = vis.drops /\ vis'.queue = vis.queue
        BY <4>1, VisFields
      <4>3. vis'.step \in {"tables", "plot"} => vis'.at \in 1 .. Len(FileList(a))
        <5> HIDE DEF a
        <5> QED BY <3>0, <4>1, <4>2
      <4> QED BY <2>0, <3>0, <4>2, <4>3, VisSeedsKept DEF VisSeeds
    <3> QED BY <3>1, <3>2
  <2>7. CASE QueueStep
    <3> DEFINE queue == File(FolderOf(a), "queue", Queues, 0)
               log == TestLog(a, Queues)
    <3>0. vis.step = "queue"
      BY <2>7 DEF QueueStep
    <3>1. CASE Stop("missing")
      BY <2>4, <3>0, <3>1
    <3>2. CASE vis' = [vis EXCEPT !.queue = files'[queue], !.step = "drops"] /\ queue \in Existing'
      <4>1. /\ vis'.args = a /\ vis'.table = vis.table /\ vis'.step = "drops"
            /\ vis'.drops = vis.drops /\ vis'.queue = files'[queue]
        BY <3>2, VisFields
      <4>2. ASSUME a.tool = "visualise", NEW r \in files'[queue].by
            PROVE  r \in RunIds /\ FolderOf(a)[4] \in {0, runs[r].seed}
        <5>1. r \in RunIds /\ Marked(queue, runs[r].seed)
          <6>1. \A f \in Existing' : \A q \in files'[f].by :
                  q \in RunIds' /\ Marked(f, runs'[q].seed)
            BY DEF FileSeeds, Right
          <6>2. RunIds' = RunIds
            BY <2>0 DEF RunIds
          <6> HIDE DEF queue
          <6> QED BY <2>0, <3>2, <4>2, <6>1, <6>2
        <5>2. FolderOf(a) # NoFolder
          BY <3>0 DEF VisSeeds
        <5>3. FolderOf(a)[1] = "results_test"
          BY <4>2, <5>2, Bases
        <5>4. queue[1] = FolderOf(a)
          BY FileParts
        <5> HIDE DEF queue, a
        <5> QED BY <5>1, <5>3, <5>4 DEF Marked
      <4> HIDE DEF queue
      <4> QED BY <2>0, <3>0, <4>1, <4>2, VisSeedsKept DEF VisSeeds
    <3>3. CASE /\ queue \in Existing /\ files' = files
               /\ vis' = [vis EXCEPT !.queue = files'[queue], !.step = "drops"]
      BY <3>2, <3>3 DEF Existing
    <3>4. CASE /\ Move(log, queue, files[log])
               /\ vis' = [vis EXCEPT !.queue = files'[queue], !.step = "drops"]
      <4>1. queue \in Existing'
        <5> HIDE DEF queue, log
        <5> QED BY <3>4 DEF Move, Existing
      <4> QED BY <3>2, <3>4, <4>1
    <3>5. \/ Stop("missing")
          \/ /\ queue \in Existing /\ files' = files
             /\ vis' = [vis EXCEPT !.queue = files'[queue], !.step = "drops"]
          \/ /\ Move(log, queue, files[log])
             /\ vis' = [vis EXCEPT !.queue = files'[queue], !.step = "drops"]
      BY <2>7 DEF QueueStep, Renamed, Here
    <3> QED BY <3>1, <3>3, <3>4, <3>5
  <2>8. CASE DropsOfSeed
    <3> DEFINE log == TestLog(a, Drops)
    <3>0. vis.step = "drops" /\ a.tool = "visualise" /\ a.seed \in Seeds
      BY <2>8 DEF DropsOfSeed, VisSeeds
    <3>1. CASE Stop("missing")
      BY <2>4, <3>0, <3>1
    <3>2. CASE log \in Existing /\ vis' = [vis EXCEPT !.drops = files[log], !.step = "rates"]
      <4>1. /\ vis'.args = a /\ vis'.table = vis.table /\ vis'.step = "rates"
            /\ vis'.drops = files[log] /\ vis'.queue = vis.queue
        BY <3>2, VisFields
      <4>2. log[4] = a.seed
        BY FileParts DEF TestLog
      <4>3. \A r \in files[log].by : r \in RunIds /\ runs[r].seed = a.seed
        <5> HIDE DEF log, a
        <5> QED BY <3>0, <3>2, <4>2, OfSeed
      <4> HIDE DEF log
      <4> QED BY <2>0, <3>0, <4>1, <4>3, VisSeedsKept DEF VisSeeds
    <3> QED BY <2>8, <3>1, <3>2 DEF DropsOfSeed
  <2>9. CASE DropsRenamed
    <3>0. vis.step = "drops" /\ a.tool = "switches"
      BY <2>9 DEF DropsRenamed
    <3>1. CASE Stop("missing")
      BY <2>4, <3>0, <3>1
    <3>2. ASSUME NEW drops, vis' = [vis EXCEPT !.drops = drops, !.step = Fraction(drops)]
          PROVE  VisSeeds'
      <4>1. vis'.args = a /\ vis'.step \in {"nofraction", "done"}
        BY <3>2, VisFields DEF Fraction
      <4> QED BY <2>0, <3>0, <4>1, VisSeedsKept
    <3> QED BY <2>9, <3>1, <3>2 DEF DropsRenamed, Renamed
  <2>10. CASE Rates
    <3>1. PICK result \in {"unreadable", "nofraction", "done"} : Stop(result)
      BY <2>10 DEF Rates, Fraction
    <3>2. vis.step = "rates"
      BY <2>10 DEF Rates
    <3> QED BY <2>4, <3>1, <3>2
  <2>11. CASE Over \/ KilledBetween
    BY <2>11, VisSeedsNone DEF Over, KilledBetween, Killed
  <2>12. ASSUME NEW k, KilledMakingSender \/ KilledMakingTable(k) PROVE VisSeeds'
    BY <2>12, VisSeedsNone DEF KilledMakingSender, KilledMakingTable, Killed
  <2> QED BY <1>3, <2>1, <2>2, <2>3, <2>5, <2>6, <2>7, <2>8, <2>9, <2>10, <2>11, <2>12
          DEF Visualise, VisNext
<1> QED BY <1>1, <1>2, <1>3 DEF Next

\* visualise.py reports on the seed asked for: its packets and drops by their
\* names, its queues by that of the folder.
THEOREM ReportCorrect == Spec => []ReportOfSeed
<1> DEFINE Inv == SimulationInv /\ VisInv /\ FileSeeds /\ VisSeeds
<1>1. Init => Inv
  BY SimulationInit, VisInvInit, FileSeedsInit, VisSeedsInit
<1>2. Inv /\ [Next]_vars => Inv'
  BY SimulationStep, VisInvStep, FileSeedsStep, VisSeedsStep
<1>3. Inv => ReportOfSeed
  <2> SUFFICES ASSUME VisSeeds, vis.step = "done", vis.args.tool = "visualise"
               PROVE  /\ \A r \in vis.table.by \cup vis.drops.by : runs[r].seed = vis.args.seed
                      /\ (vis.args.rate = 1 /\ (vis.args.n \in {1, 3} \/ Given(vis.args.rst))) =>
                           \A r \in vis.queue.by : runs[r].seed = vis.args.seed
    BY DEF ReportOfSeed
  <2> DEFINE a == vis.args
  <2>1. \A r \in vis.table.by \cup vis.drops.by : runs[r].seed = a.seed
    BY DEF VisSeeds
  <2>2. ASSUME a.rate = 1, a.n \in {1, 3} \/ Given(a.rst), NEW r \in vis.queue.by
        PROVE  runs[r].seed = a.seed
    <3>1. FolderOf(a) # NoFolder /\ a.seed \in Seeds
      BY DEF VisSeeds
    <3>2. FolderOf(a)[4] = a.seed
      BY <2>2, <3>1, FolderOfSeed
    <3>3. FolderOf(a)[4] \in {0, runs[r].seed}
      BY <2>2 DEF VisSeeds
    <3>4. a.seed # 0
      BY <3>1, SeedsAssumption
    <3> QED BY <3>2, <3>3, <3>4
  <2> QED BY <2>1, <2>2
<1> QED BY <1>1, <1>2, <1>3, PTL DEF Spec

-----------------------------------------------------------------------------
(* The logs that the user has put into a folder stay there.                *)

\* How many senders a folder is for, by its label.
SendersIn(label) ==
  IF label \in {"10Mbps_1sender", "1Mbps_1sender_inf", "1Mbps_1sender"} THEN 1
  ELSE IF label \in {"10Mbps_3senders", "1Mbps_3senders_inf_rst", "1Mbps_3senders"} THEN 3
  ELSE IF label \in {"10Mbps_6senders", "1Mbps_6senders_inf_rst", "1Mbps_6senders_rst",
                     "1Mbps_6senders"} THEN 6
  ELSE IF label \in {"1Mbps_9senders", "1Mbps_9senders_inf_rst", "1Mbps_9senders_rst"} THEN 9
  ELSE 60

LEMMA LabelParts ==
  ASSUME NEW base, NEW label, NEW cc, NEW seed, NEW bw
  PROVE  /\ Folder(base, label, cc, seed, bw)[2] = label
         /\ Unnumbered(base, label)[2] = label
  BY DEF Folder, Unnumbered

LEMMA FolderSenders ==
  ASSUME NEW a, FolderOf(a) # NoFolder
  PROVE  SendersIn(FolderOf(a)[2]) = a.n
<1>1. ASSUME a.n = 1 PROVE SendersIn(OneSender(a)[2]) = 1
  <2>1. OneSender(a) \in {Unnumbered("results_test", "10Mbps_1sender"),
                          Folder("results_test", "1Mbps_1sender_inf", a.cc, a.seed, a.bw),
                          Folder("results_test", "1Mbps_1sender", a.cc, a.seed, a.bw)}
    BY DEF OneSender
  <2>2. OneSender(a)[2] \in {"10Mbps_1sender", "1Mbps_1sender_inf", "1Mbps_1sender"}
    BY <2>1, LabelParts
  <2> QED BY <2>2 DEF SendersIn
<1>2. ASSUME a.n = 3 PROVE SendersIn(ThreeSenders(a)[2]) = 3
  <2>1. PICK cc : ThreeSenders(a) \in
          {Unnumbered("results_test", "10Mbps_3senders"),
           Folder("results_test", "1Mbps_3senders_inf_rst", cc, a.seed, a.bw),
           Folder("results_test", "1Mbps_3senders", "-", a.seed, 0)}
    BY DEF ThreeSenders
  <2>2. ThreeSenders(a)[2] \in {"10Mbps_3senders", "1Mbps_3senders_inf_rst", "1Mbps_3senders"}
    BY <2>1, LabelParts
  <2> QED BY <2>2 DEF SendersIn
<1>3. ASSUME NEW base PROVE SendersIn(SixSenders(base, a)[2]) = 6
  <2>1. SixSenders(base, a) \in {Unnumbered(base, "10Mbps_6senders"),
                                 Unnumbered(base, "1Mbps_6senders"),
                                 Folder(base, "1Mbps_6senders_inf_rst", "cubic", a.seed, a.bw),
                                 Folder(base, "1Mbps_6senders_rst", "-", a.seed, 0)}
    BY DEF SixSenders
  <2>2. SixSenders(base, a)[2] \in {"10Mbps_6senders", "1Mbps_6senders_inf_rst",
                                    "1Mbps_6senders_rst", "1Mbps_6senders"}
    BY <2>1, LabelParts
  <2> QED BY <2>2 DEF SendersIn
<1>4. SendersIn(SixtySenders(a)[2]) = 60
  <2>1. SixtySenders(a) \in
          {Unnumbered("results_test", "1Mbps_60senders"),
           Folder("results_test", "1Mbps_60senders_inf_rst", a.cc, a.seed, a.bw),
           Folder("results_test", "1Mbps_60senders_rst", a.cc, a.seed, a.bw)}
    BY DEF SixtySenders
  <2>2. SixtySenders(a)[2] \in {"1Mbps_60senders", "1Mbps_60senders_inf_rst",
                                "1Mbps_60senders_rst"}
    BY <2>1, LabelParts
  <2> QED BY <2>2 DEF SendersIn
<1>5. ASSUME NEW base PROVE SendersIn(NineSenders(base, a)[2]) = 9
  <2>1. NineSenders(base, a) \in
          {Unnumbered(base, "1Mbps_9senders"),
           Folder(base, "1Mbps_9senders_inf_rst", "cubic", a.seed, a.bw),
           Folder(base, "1Mbps_9senders_rst", "-", a.seed, 0)}
    BY DEF NineSenders
  <2>2. NineSenders(base, a)[2] \in {"1Mbps_9senders", "1Mbps_9senders_inf_rst",
                                     "1Mbps_9senders_rst"}
    BY <2>1, LabelParts
  <2> QED BY <2>2 DEF SendersIn
<1>6. CASE a.tool = "visualise"
  <2>1. FolderOf(a) = VisualiseFolder(a)
    BY <1>6 DEF FolderOf
  <2>2. \/ a.n = 1 /\ FolderOf(a) = OneSender(a)
        \/ a.n = 3 /\ FolderOf(a) = ThreeSenders(a)
        \/ a.n = 6 /\ FolderOf(a) = SixSenders("results_test", a)
        \/ a.n = 60 /\ FolderOf(a) = SixtySenders(a)
    BY <2>1 DEF VisualiseFolder
  <2> QED BY <2>2, <1>1, <1>2, <1>3, <1>4
<1>7. CASE a.tool # "visualise"
  <2>1. FolderOf(a) = SwitchesFolder(a)
    BY <1>7 DEF FolderOf
  <2>2. \/ a.n = 6 /\ FolderOf(a) = SixSenders("results_test_large", a)
        \/ a.n = 9 /\ FolderOf(a) = NineSenders("results_test_large", a)
    BY <2>1 DEF SwitchesFolder
  <2> QED BY <2>2, <1>3, <1>5
<1> QED BY <1>6, <1>7

\* Command lines that look into one folder for one seed need the same logs.
LEMMA SameLogs ==
  ASSUME NEW a, NEW b, a.tool \in {"visualise", "switches"}, b.tool \in {"visualise", "switches"},
         FolderOf(a) = FolderOf(b), FolderOf(b) # NoFolder, a.seed = b.seed
  PROVE  a.tool = b.tool /\ NeededLogs(a) = NeededLogs(b) /\ CollectedLogs(a) = CollectedLogs(b)
<1>1. a.tool = b.tool
  BY Bases
<1>2. a.n = b.n
  BY FolderSenders
<1>3. \A part : TestLog(a, part) = TestLog(b, part)
  BY DEF TestLog
<1>4. FileList(a) = FileList(b)
  BY <1>1, <1>3 DEF FileList, VisualiseList, SwitchesList
<1>5. SenderList(a) = SenderList(b)
  BY <1>1, <1>2, <1>3 DEF SenderList
<1>6. NeededLogs(a) = NeededLogs(b)
  BY <1>4, <1>5 DEF NeededLogs
<1> QED BY <1>1, <1>3, <1>6 DEF CollectedLogs

\* Neither program renames a log that tables are made of.
LEMMA NeededParts ==
  ASSUME NEW a, NEW log \in NeededLogs(a)
  PROVE  log[3] \notin {Queues, Drops}
<1>0. \A folder, stem, part, seed : File(folder, stem, part, seed)[3] = part
  BY DEF File
<1>1. CASE \E i \in 1 .. Len(SenderList(a)) : log = SenderList(a)[i]
  <2>1. PICK i \in 1 .. Len(SenderList(a)) : log = SenderList(a)[i]
    BY <1>1
  <2>2. a.tool = "visualise" /\ a.n \in {1, 3, 6}
    <3>1. CASE ~(a.tool = "visualise" /\ a.n \in {1, 3, 6})
      <4>1. SenderList(a) = <<>>
        BY <3>1 DEF SenderList
      <4>2. Len(SenderList(a)) = 0
        BY <4>1
      <4> QED BY <2>1, <4>2
    <3> QED BY <3>1
  <2>3. SenderList(a) = [j \in 1 .. a.n |-> TestLog(a, Sender(3 + j))]
    BY <2>2 DEF SenderList
  <2>4. Len(SenderList(a)) = a.n
    BY <2>2, <2>3
  <2>5. log = TestLog(a, Sender(3 + i))
    BY <2>1, <2>3, <2>4
  <2>6. log[3] = Sender(3 + i)
    BY <1>0, <2>5 DEF TestLog
  <2> QED BY <2>6 DEF Sender, Queues, Drops
<1>2. CASE \E i \in 1 .. Len(FileList(a)) : log = FileList(a)[i]
  <2>1. PICK i \in 1 .. Len(FileList(a)) : log = FileList(a)[i]
    BY <1>2
  <2>2. CASE a.tool = "visualise"
    <3>1. FileList(a) = <<TestLog(a, Packets)>>
      BY <2>2 DEF FileList, VisualiseList
    <3>2. log = TestLog(a, Packets)
      <4>1. Len(FileList(a)) = 1 /\ FileList(a)[1] = TestLog(a, Packets)
        BY <3>1
      <4>2. i = 1
        BY <4>1
      <4> QED BY <2>1, <4>1, <4>2
    <3>3. log[3] = Packets
      BY <1>0, <3>2 DEF TestLog
    <3> QED BY <3>3 DEF Packets, Queues, Drops
  <2>3. CASE a.tool # "visualise"
    <3> DEFINE PortLog(part) == File(FolderOf(a), "-", part, 0)
               Ports == {SwitchA(1), SwitchA(2), SwitchC(1), SwitchC(2), SwitchC(3),
                         SwitchE(1), SwitchE(2)}
    <3>1. FileList(a) = <<PortLog(SwitchA(1)), PortLog(SwitchA(2)), PortLog(SwitchC(1)),
                          PortLog(SwitchC(2)), PortLog(SwitchC(3)), PortLog(SwitchE(1)),
                          PortLog(SwitchE(2))>>
      BY <2>3 DEF FileList, SwitchesList
    <3>2. \E part \in Ports : log = PortLog(part)
      <4> HIDE DEF PortLog
      <4>1. Len(FileList(a)) = 7
        BY <3>1
      <4>2. i \in {1, 2, 3, 4, 5, 6, 7}
        BY <2>1, <4>1
      <4> QED BY <2>1, <3>1, <4>2
    <3>3. log[3] \in Ports
      <4> HIDE DEF Ports
      <4> QED BY <1>0, <3>2
    <3> QED BY <3>3 DEF SwitchA, SwitchC, SwitchE, Queues, Drops
  <2> QED BY <2>2, <2>3
<1> QED BY <1>1, <1>2 DEF NeededLogs

QueueName(a) == File(FolderOf(a), "queue", Queues, 0)
DropsName(a) == File(FolderOf(a), "drops", Drops, 0)

\* All that an execution looks for is in names.
Settled(a, names) ==
  /\ NeededLogs(a) \subseteq names
  /\ a.tool = "visualise" =>
       /\ TestLog(a, Drops) \in names
       /\ TestLog(a, Queues) \in names \/ QueueName(a) \in names
  /\ a.tool = "switches" => QueueName(a) \in names /\ DropsName(a) \in names

CollectedInv ==
  /\ \A a \in campaign.requests :
       <<FolderOf(a), a.seed>> \in collected => Settled(a, Existing)
  /\ vis.step # "idle" => vis.args \in campaign.requests
  /\ RerunCompletes

LEMMA MoreSettled ==
  ASSUME NEW a, NEW names, NEW more, Settled(a, names), names \subseteq more
  PROVE  Settled(a, more)
  BY DEF Settled

LEMMA QueueMoved ==
  ASSUME NEW a, NEW names, Settled(a, names), NEW b
  PROVE  Settled(a, (names \ {TestLog(b, Queues)}) \cup {QueueName(b)})
<1> DEFINE log == TestLog(b, Queues)
           more == (names \ {log}) \cup {QueueName(b)}
<1>0. \A folder, stem, part, seed : /\ File(folder, stem, part, seed)[1] = folder
                                    /\ File(folder, stem, part, seed)[2] = stem
                                    /\ File(folder, stem, part, seed)[3] = part
  BY DEF File
<1>1. NeededLogs(a) \subseteq more
  <2>1. log[3] = Queues
    BY <1>0 DEF TestLog
  <2>2. log \notin NeededLogs(a)
    BY <2>1, NeededParts
  <2> QED BY <2>2 DEF Settled
<1>2. TestLog(a, Drops) # log
  <2>1. TestLog(a, Drops)[3] = Drops /\ log[3] = Queues
    BY <1>0 DEF TestLog
  <2> QED BY <2>1 DEF Drops, Queues
<1>3. TestLog(a, Queues) = log => QueueName(a) = QueueName(b)
  <2>1. TestLog(a, Queues)[1] = FolderOf(a) /\ log[1] = FolderOf(b)
    BY <1>0 DEF TestLog
  <2> QED BY <2>1 DEF QueueName
<1>4. QueueName(a) # log /\ DropsName(a) # log
  <2>1. /\ QueueName(a)[2] = "queue" /\ DropsName(a)[2] = "drops"
        /\ log[2] = "small_test_no_disturbance"
    BY <1>0 DEF TestLog, QueueName, DropsName
  <2> QED BY <2>1
<1> HIDE DEF log
<1> QED BY <1>1, <1>2, <1>3, <1>4 DEF Settled, log

LEMMA DropsMoved ==
  ASSUME NEW a, NEW names, Settled(a, names), NEW b, b.tool = "switches", FolderOf(b) # NoFolder
  PROVE  Settled(a, (names \ {TestLog(b, Drops)}) \cup {DropsName(b)})
<1> DEFINE log == TestLog(b, Drops)
           more == (names \ {log}) \cup {DropsName(b)}
<1>0. \A folder, stem, part, seed : /\ File(folder, stem, part, seed)[1] = folder
                                    /\ File(folder, stem, part, seed)[2] = stem
                                    /\ File(folder, stem, part, seed)[3] = part
  BY DEF File
<1>1. NeededLogs(a) \subseteq more
  <2>1. log[3] = Drops
    BY <1>0 DEF TestLog
  <2>2. log \notin NeededLogs(a)
    BY <2>1, NeededParts
  <2> QED BY <2>2 DEF Settled
<1>2. TestLog(a, Queues) # log
  <2>1. TestLog(a, Queues)[3] = Queues /\ log[3] = Drops
    BY <1>0 DEF TestLog
  <2> QED BY <2>1 DEF Drops, Queues
<1>3. a.tool = "visualise" => TestLog(a, Drops) # log
  <2> SUFFICES ASSUME a.tool = "visualise", TestLog(a, Drops) = log PROVE FALSE
    OBVIOUS
  <2>1. TestLog(a, Drops)[1] = FolderOf(a) /\ log[1] = FolderOf(b)
    BY <1>0 DEF TestLog
  <2>2. FolderOf(a) = FolderOf(b)
    BY <2>1
  <2> QED BY <2>2, Bases
<1>4. QueueName(a) # log /\ DropsName(a) # log
  <2>1. /\ QueueName(a)[2] = "queue" /\ DropsName(a)[2] = "drops"
        /\ log[2] = "small_test_no_disturbance"
    BY <1>0 DEF TestLog, QueueName, DropsName
  <2> QED BY <2>1
<1> HIDE DEF log
<1> QED BY <1>1, <1>2, <1>3, <1>4 DEF Settled, log

LEMMA CollectedInit == Init => CollectedInv
<1> SUFFICES ASSUME Init PROVE CollectedInv
  OBVIOUS
<1>1. vis.step = "idle" /\ collected = {}
  BY DEF Init, VisInit, NoExecution
<1> QED BY <1>1 DEF CollectedInv, RerunCompletes

\* Steps that take no log away that is looked for.
LEMMA CollectedKept ==
  ASSUME CollectedInv, UNCHANGED campaign, collected' = collected,
         \A a : Settled(a, Existing) => Settled(a, Existing'),
         vis'.step # "idle" => vis'.args \in campaign.requests,
         vis'.step = "missing" => <<FolderOf(vis'.args), vis'.args.seed>> \notin collected
  PROVE  CollectedInv'
<1>1. \A a : FolderOf(a)' = FolderOf(a)
  OBVIOUS
<1>2. \A a \in campaign.requests :
        <<FolderOf(a), a.seed>> \in collected => Settled(a, Existing')
  BY DEF CollectedInv
<1> QED BY <1>1, <1>2 DEF CollectedInv, RerunCompletes

\* The same while the execution keeps its arguments.
LEMMA GoesOn ==
  ASSUME CollectedInv, UNCHANGED campaign, collected' = collected,
         \A a : Settled(a, Existing) => Settled(a, Existing'),
         vis.step # "idle", vis'.args = vis.args,
         vis'.step = "missing" => <<FolderOf(vis.args), vis.args.seed>> \notin collected
  PROVE  CollectedInv'
<1>1. vis.args \in campaign.requests
  BY DEF CollectedInv
<1> QED BY <1>1, CollectedKept

LEMMA PutMore ==
  ASSUME NEW new, Put(new)
  PROVE  Existing' = Existing \cup DOMAIN new
  BY DEF Put, Existing

LEMMA SimulateMore ==
  ASSUME SimulationInv, Simulate
  PROVE  Existing \subseteq Existing'
<1>1. CASE UNCHANGED files
  BY <1>1 DEF Existing
<1>2. CASE \E new : Put(new)
  BY <1>2, PutMore
<1> QED BY <1>1, <1>2, DockerSteps DEF OpenLogs, Written, Flush

\* What is put into a folder is all that is looked for there.
LEMMA CollectedSettled ==
  ASSUME NEW a, a.tool \in {"visualise", "switches"}
  PROVE  Settled(a, CollectedLogs(a))
  BY DEF Settled, CollectedLogs, QueueName, DropsName

LEMMA CollectStep ==
  ASSUME SimulationInv, CollectedInv, UNCHANGED campaign, NEW b \in campaign.requests, Collect(b)
  PROVE  CollectedInv'
<1> DEFINE new == [log \in CollectedLogs(b) |-> files[Source(log)]]
           key == <<FolderOf(b), b.seed>>
<1>1. Existing' = Existing \cup CollectedLogs(b)
  <2>1. Put(new)
    BY DEF Collect
  <2>2. DOMAIN new = CollectedLogs(b)
    OBVIOUS
  <2> HIDE DEF new
  <2> QED BY <2>1, <2>2, PutMore
<1>2. vis.step = "idle" /\ vis' = vis /\ FolderOf(b) # NoFolder
  BY DEF Collect
<1>3. collected' \subseteq collected \cup {key}
  BY DEF Collect
<1>4. ASSUME NEW a \in campaign.requests, <<FolderOf(a), a.seed>> \in collected'
      PROVE  Settled(a, Existing')
  <2>1. CASE <<FolderOf(a), a.seed>> \in collected
    BY <1>1, <2>1, MoreSettled DEF CollectedInv
  <2>2. CASE <<FolderOf(a), a.seed>> = key
    <3>1. FolderOf(a) = FolderOf(b) /\ a.seed = b.seed
      BY <2>2
    <3>2. a.tool \in {"visualise", "switches"} /\ b.tool \in {"visualise", "switches"}
      BY RequestSeeds
    <3>3. CollectedLogs(a) = CollectedLogs(b)
      BY <1>2, <3>1, <3>2, SameLogs
    <3>4. Settled(a, CollectedLogs(a))
      BY <3>2, CollectedSettled
    <3> QED BY <1>1, <3>3, <3>4, MoreSettled
  <2> QED BY <1>3, <1>4, <2>1, <2>2
<1>5. vis'.step = "idle"
  BY <1>2
<1> QED BY <1>4, <1>5 DEF CollectedInv, RerunCompletes

\* A table is missing only if one of the logs it is made of is.
LEMMA TableFound ==
  ASSUME VisInv, VisSeeds, CollectedInv, MakeTable,
         <<FolderOf(vis.args), vis.args.seed>> \in collected
  PROVE  vis'.step # "missing"
<1> DEFINE a == vis.args
           k == RepairedBefore(FileList(a))
<1>0. a \in campaign.requests /\ vis.step = "tables"
  BY DEF CollectedInv, MakeTable
<1>1. NeededLogs(a) \subseteq Existing
  BY <1>0 DEF CollectedInv, Settled
<1>2. CASE \E result \in {"unreadable", "senders", "plot"} : vis'.step = result
  BY <1>2
<1>3. CASE k < Len(FileList(a)) /\ Stop(Defect(FileList(a)[k + 1]))
  <2>1. Len(FileList(a)) \in 1 .. 7 /\ k \in 0 .. Len(FileList(a))
    BY FileLists, RepairedInList
  <2>2. k + 1 \in 1 .. Len(FileList(a))
    <3> HIDE DEF a, k
    <3> QED BY <1>3, <2>1
  <2>3. FileList(a)[k + 1] \in Existing
    <3> HIDE DEF k
    <3> QED BY <1>1, <2>2 DEF NeededLogs
  <2>4. Defect(FileList(a)[k + 1]) = "unreadable"
    BY <2>3 DEF Defect
  <2>5. Stop("unreadable")
    BY <1>3, <2>4
  <2> QED BY <2>5, VisFields DEF Stop
<1>4. ASSUME Stop("unreadable") PROVE vis'.step = "unreadable"
  BY <1>4, VisFields DEF Stop
<1>5. ASSUME NEW table, WithTable(table) PROVE vis'.step \in {"senders", "plot"}
  BY <1>5, VisFields DEF WithTable
<1>6. \/ Stop("unreadable")
      \/ \E table : WithTable(table)
      \/ k < Len(FileList(a)) /\ Stop(Defect(FileList(a)[k + 1]))
  BY DEF MakeTable, GenerateSendersCsv, List
<1> QED BY <1>2, <1>3, <1>4, <1>5, <1>6

\* An execution that renames a log has its fixed name afterwards.
LEMMA RenamedFiles ==
  ASSUME NEW log, NEW fixed, NEW next, Renamed(log, fixed, next)
  PROVE  \/ /\ next /\ Existing' = Existing
         \/ /\ next /\ Existing' = (Existing \ {log}) \cup {fixed}
         \/ /\ Stop("missing") /\ Existing' = Existing
            /\ log \notin Existing /\ fixed \notin Existing
<1>1. CASE Move(log, fixed, files[log])
  BY <1>1 DEF Renamed, Move, Existing
<1> QED BY <1>1 DEF Renamed, Existing

LEMMA VisualiseSettled ==
  ASSUME SimulationInv, VisInv, VisSeeds, CollectedInv, Visualise
  PROVE  CollectedInv'
<1> DEFINE a == vis.args
           key == <<FolderOf(a), a.seed>>
           Still == \A b : Settled(b, Existing) => Settled(b, Existing')
<1>0. UNCHANGED campaign
  BY OthersLeaveRuns
<1>1. ASSUME Existing \subseteq Existing' PROVE Still
  BY <1>1, MoreSettled
<1>2. ASSUME files' = files PROVE Existing \subseteq Existing'
  BY <1>2 DEF Existing
<1>3. ASSUME vis.step # "idle", key \in collected PROVE Settled(a, Existing)
  BY <1>3 DEF CollectedInv
<1> HIDE DEF Still
<1>4. ASSUME NEW b \in campaign.requests, Begin(b) PROVE CollectedInv'
  <2>1. vis'.args = b /\ vis'.step \in {"tables", "nofolder"}
    BY <1>4 DEF Begin, NoExecution
  <2>2. files' = files /\ collected' = collected
    BY <1>4 DEF Begin
  <2> QED BY <1>0, <1>1, <1>2, <2>1, <2>2, CollectedKept DEF Still
<1>5. ASSUME NEW b \in campaign.requests, Collect(b) PROVE CollectedInv'
  BY <1>0, <1>5, CollectStep
<1>6. ASSUME vis' = NoExecution, collected' = collected, Still PROVE CollectedInv'
  <2>1. vis'.step = "idle"
    BY <1>6 DEF NoExecution
  <2> QED BY <1>0, <1>6, <2>1, CollectedKept DEF Still
<1>7. ASSUME vis.step # "idle", vis'.args = a, vis'.step # "missing", collected' = collected, Still
      PROVE  CollectedInv'
  BY <1>0, <1>7, GoesOn DEF Still
<1>8. ASSUME vis.step # "idle", vis'.args = a, key \notin collected, collected' = collected, Still
      PROVE  CollectedInv'
  BY <1>0, <1>8, GoesOn DEF Still
<1>9. ASSUME NEW result, Stop(result) PROVE vis'.args = a /\ vis'.step = result
  BY <1>9, VisFields DEF Stop
<1>10. CASE MakeTable
  <2>1. vis.step # "idle" /\ collected' = collected
    BY <1>10 DEF MakeTable
  <2>2. Existing \subseteq Existing'
    BY <1>2, <1>10, PutMore DEF MakeTable, GenerateSendersCsv
  <2>3. vis'.args = a
    <3>1. ASSUME NEW table, WithTable(table) PROVE vis'.args = a
      BY <3>1, VisFields DEF WithTable
    <3> QED BY <1>9, <1>10, <3>1 DEF MakeTable, GenerateSendersCsv
  <2>4. key \in collected => vis'.step # "missing"
    BY <1>10, TableFound
  <2> QED BY <1>1, <1>7, <1>8, <2>1, <2>2, <2>3, <2>4
<1>11. ASSUME NEW k, KilledMakingTable(k) \/ KilledMakingSender PROVE CollectedInv'
  <2>1. vis' = NoExecution /\ collected' = collected
    BY <1>11 DEF KilledMakingTable, KilledMakingSender, Killed
  <2>2. \E new : Put(new)
    BY <1>11 DEF KilledMakingTable, KilledMakingSender
  <2>3. Existing \subseteq Existing'
    BY <2>2, PutMore
  <2> QED BY <1>1, <1>6, <2>1, <2>3
<1>12. CASE SenderStep
  <2> DEFINE log == SenderList(a)[vis.at]
  <2>1. vis.step # "idle" /\ collected' = collected
    BY <1>12 DEF SenderStep
  <2>2. Existing \subseteq Existing'
    BY <1>2, <1>12, PutMore DEF SenderStep
  <2>3. \/ vis' = [vis EXCEPT !.step = "plot", !.at = 1]
        \/ vis.step = "senders" /\ vis' = [vis EXCEPT !.at = @ + 1]
        \/ Stop("unreadable")
        \/ vis.at <= Len(SenderList(a)) /\ log \notin Existing /\ Stop("missing")
    BY <1>12 DEF SenderStep, Defect
  <2>4. CASE vis' = [vis EXCEPT !.step = "plot", !.at = 1]
    <3>1. vis'.args = a /\ vis'.step = "plot"
      BY <2>4, VisFields
    <3> QED BY <1>1, <1>7, <2>1, <2>2, <3>1
  <2>5. CASE vis.step = "senders" /\ vis' = [vis EXCEPT !.at = @ + 1]
    <3>1. vis'.args = a /\ vis'.step = "senders"
      BY <2>5, VisFields
    <3> QED BY <1>1, <1>7, <2>1, <2>2, <3>1
  <2>6. CASE Stop("unreadable")
    BY <1>1, <1>7, <1>9, <2>1, <2>2, <2>6
  <2>7. CASE vis.at <= Len(SenderList(a)) /\ log \notin Existing /\ Stop("missing")
    <3>1. vis.at \in 1 .. Len(SenderList(a))
      <4> HIDE DEF a
      <4>1. Len(SenderList(a)) \in Nat
        BY SenderLists
      <4> QED BY <2>7, <4>1, VisFields
    <3>2. log \in NeededLogs(a)
      BY <3>1 DEF NeededLogs
    <3>3. key \notin collected
      BY <1>3, <2>1, <2>7, <3>2 DEF Settled
    <3> QED BY <1>1, <1>8, <1>9, <2>1, <2>2, <2>7, <3>3
  <2> QED BY <2>3, <2>4, <2>5, <2>6, <2>7
<1>13. CASE Plot
  <2>1. vis.step # "idle" /\ collected' = collected /\ files' = files
    BY <1>13 DEF Plot
  <2>2. CASE Stop("untyped")
    BY <1>1, <1>2, <1>7, <1>9, <2>1, <2>2
  <2>3. CASE ~Stop("untyped")
    <3>1. PICK plots, at, step : /\ vis' = [vis EXCEPT !.plots = plots, !.at = at, !.step = step]
                                 /\ step \in {"tables", "queue"}
      BY <1>13, <2>3 DEF Plot
    <3>2. vis'.args = a /\ vis'.step = step
      BY <3>1, VisFields
    <3> QED BY <1>1, <1>2, <1>7, <2>1, <3>1, <3>2
  <2> QED BY <2>2, <2>3
<1>14. a.tool \in {"visualise", "switches"} \/ vis.step = "idle"
  BY DEF VisSeeds
<1>15. CASE QueueStep
  <2>1. vis.step # "idle" /\ collected' = collected
    BY <1>15 DEF QueueStep
  <2> DEFINE next == vis' = [vis EXCEPT !.queue = files'[Here("queue", Queues)], !.step = "drops"]
             log == TestLog(a, Queues)
  <2>2. Renamed(log, QueueName(a), next)
    BY <1>15 DEF QueueStep, Here, QueueName
  <2>3. next => vis'.args = a /\ vis'.step = "drops"
    BY VisFields
  <2>4. CASE next /\ Existing' = Existing
    BY <1>1, <1>7, <2>1, <2>3, <2>4
  <2>5. CASE next /\ Existing' = (Existing \ {log}) \cup {QueueName(a)}
    <3>1. Still
      BY <2>5, QueueMoved DEF Still
    <3> QED BY <1>7, <2>1, <2>3, <2>5, <3>1
  <2>6. CASE /\ Stop("missing") /\ Existing' = Existing
             /\ log \notin Existing /\ QueueName(a) \notin Existing
    <3>1. key \notin collected
      BY <1>3, <1>14, <2>1, <2>6 DEF Settled
    <3> QED BY <1>1, <1>8, <1>9, <2>1, <2>6, <3>1
  <2> HIDE DEF next, log
  <2> QED BY <2>2, <2>4, <2>5, <2>6, RenamedFiles
<1>16. CASE DropsRenamed
  <2>1. vis.step = "drops" /\ collected' = collected /\ a.tool = "switches"
    BY <1>16 DEF DropsRenamed
  <2> DEFINE drops == files'[Here("drops", Drops)]
             next == vis' = [vis EXCEPT !.drops = drops, !.step = Fraction(drops)]
             log == TestLog(a, Drops)
  <2>2. Renamed(log, DropsName(a), next)
    BY <1>16 DEF DropsRenamed, Here, DropsName
  <2>3. next => vis'.args = a /\ vis'.step # "missing"
    BY VisFields DEF Fraction
  <2>4. CASE next /\ Existing' = Existing
    BY <1>1, <1>7, <2>1, <2>3, <2>4
  <2>5. CASE next /\ Existing' = (Existing \ {log}) \cup {DropsName(a)}
    <3>1. FolderOf(a) # NoFolder
      BY <2>1 DEF VisSeeds
    <3>2. Still
      BY <2>1, <2>5, <3>1, DropsMoved DEF Still
    <3> QED BY <1>7, <2>1, <2>3, <2>5, <3>2
  <2>6. CASE /\ Stop("missing") /\ Existing' = Existing
             /\ log \notin Existing /\ DropsName(a) \notin Existing
    <3>1. key \notin collected
      BY <1>3, <2>1, <2>6 DEF Settled
    <3> QED BY <1>1, <1>8, <1>9, <2>1, <2>6, <3>1
  <2> HIDE DEF next, log
  <2> QED BY <2>2, <2>4, <2>5, <2>6, RenamedFiles
<1>17. CASE DropsOfSeed
  <2>1. vis.step # "idle" /\ collected' = collected /\ files' = files /\ a.tool = "visualise"
    BY <1>17 DEF DropsOfSeed
  <2>2. CASE TestLog(a, Drops) \notin Existing /\ Stop("missing")
    <3>1. key \notin collected
      BY <1>3, <2>1, <2>2 DEF Settled
    <3> QED BY <1>1, <1>2, <1>8, <1>9, <2>1, <2>2, <3>1
  <2>3. ASSUME NEW drops, vis' = [vis EXCEPT !.drops = drops, !.step = "rates"]
        PROVE  CollectedInv'
    <3>1. vis'.args = a /\ vis'.step = "rates"
      BY <2>3, VisFields
    <3> QED BY <1>1, <1>2, <1>7, <2>1, <3>1
  <2> QED BY <1>17, <2>2, <2>3 DEF DropsOfSeed
<1>18. CASE Rates
  <2>1. vis.step # "idle" /\ collected' = collected /\ files' = files
    BY <1>18 DEF Rates
  <2>2. PICK result \in {"unreadable", "nofraction", "done"} : Stop(result)
    BY <1>18 DEF Rates, Fraction
  <2> QED BY <1>1, <1>2, <1>7, <1>9, <2>1, <2>2
<1>19. CASE Over \/ KilledBetween
  <2>1. vis' = NoExecution /\ collected' = collected /\ files' = files
    BY <1>19 DEF Over, KilledBetween, Killed
  <2> QED BY <1>1, <1>2, <1>6, <2>1
<1> QED BY <1>4, <1>5, <1>10, <1>11, <1>12, <1>13, <1>15, <1>16, <1>17, <1>18, <1>19
        DEF Visualise, VisNext

LEMMA CollectedStep ==
  SimulationInv /\ VisInv /\ VisSeeds /\ CollectedInv /\ [Next]_vars => CollectedInv'
<1> SUFFICES ASSUME SimulationInv, VisInv, VisSeeds, CollectedInv, [Next]_vars
             PROVE  CollectedInv'
  OBVIOUS
<1>1. ASSUME UNCHANGED <<campaign, vis, collected>>, Existing \subseteq Existing'
      PROVE  CollectedInv'
  <2>1. \A b : Settled(b, Existing) => Settled(b, Existing')
    BY <1>1, MoreSettled
  <2>2. /\ vis.step # "idle" => vis.args \in campaign.requests
        /\ vis.step = "missing" => <<FolderOf(vis.args), vis.args.seed>> \notin collected
    BY DEF CollectedInv, RerunCompletes
  <2> QED BY <1>1, <2>1, <2>2, CollectedKept
<1>2. CASE Simulate
  BY <1>1, <1>2, SimulateMore DEF Simulate
<1>3. CASE MakeFolder \/ Evaluate \/ UNCHANGED vars
  <2>1. UNCHANGED <<campaign, vis, collected, files>>
    BY <1>3 DEF MakeFolder, Evaluate, vars
  <2>2. Existing \subseteq Existing'
    BY <2>1 DEF Existing
  <2> QED BY <1>1, <2>1, <2>2
<1>4. CASE Visualise
  BY <1>4, VisualiseSettled
<1> QED BY <1>2, <1>3, <1>4 DEF Next

\* Once the user has put complete logs into a folder, no execution there fails
\* for a missing file, however often others were interrupted before it: renamed
\* logs are found by their fixed names (visualise.py, visualise_switches.py).
THEOREM RerunCorrect == Spec => []RerunCompletes
<1> DEFINE Inv == SimulationInv /\ VisInv /\ FileSeeds /\ VisSeeds /\ CollectedInv
<1>1. Init => Inv
  BY SimulationInit, VisInvInit, FileSeedsInit, VisSeedsInit, CollectedInit
<1>2. Inv /\ [Next]_vars => Inv'
  BY SimulationStep, VisInvStep, FileSeedsStep, VisSeedsStep, CollectedStep
<1>3. Inv => RerunCompletes
  BY DEF CollectedInv
<1> QED BY <1>1, <1>2, <1>3, PTL DEF Spec

-----------------------------------------------------------------------------
(* What files hold: records of the part in their name.                     *)

LogRecords(part) == [from : {part}, no : 1 .. Records, text : BOOLEAN]

IsTable(x, part) ==
  /\ IsContent(x)
  /\ x.records \in Seq(LogRecords(part))
  /\ x.cut \in BOOLEAN

\* A table that one of the programs makes of a log: all repaired, or a sender's.
TableOf(log, x) ==
  \/ Len(files[log].records) >= 2 /\ x = Stored(Repaired(log))
  \/ log[3] # Packets /\ files[log].records # <<>> /\ x = SenderTable(log)

\* What a file f of tables may be given, whole or cut short by a kill.
MadeOf(f, x) ==
  \E log \in Existing :
    /\ log[1] = FolderOf(vis.args) /\ f[1] = log[1] /\ f[3] = log[3]
    /\ f[5] = "final" /\ [f EXCEPT ![5] = "log"] = log /\ log[5] = "log"
    /\ \E table : /\ TableOf(log, table)
                  /\ x = table \/ x \in Remains(table)

\* The folder, the part and the ending that the names made by visualise.py keep.
LEMMA FinalNames ==
  ASSUME NEW folder, NEW stem, NEW part, NEW seed
  PROVE  LET log == File(folder, stem, part, seed)
         IN  /\ log[1] = folder /\ log[3] = part
             /\ Final(log)[1] = folder /\ Final(log)[3] = part /\ Final(log)[5] = "final"
             /\ [Final(log) EXCEPT ![5] = "log"] = log /\ log[5] = "log"
             /\ Source(log)[3] = part /\ Source(log)[5] = "log"
  BY DEF Final, File, Source

\* A log that make_dataframe repairs exists with two lines, in the folder asked for.
LEMMA ListMade ==
  ASSUME NEW i \in 1 .. RepairedBefore(FileList(vis.args))
  PROVE  LET log == FileList(vis.args)[i]
         IN  /\ log \in Existing /\ Len(files[log].records) >= 2
             /\ log[1] = FolderOf(vis.args)
             /\ Final(log)[1] = log[1] /\ Final(log)[3] = log[3]
             /\ Final(log)[5] = "final" /\ [Final(log) EXCEPT ![5] = "log"] = log /\ log[5] = "log"
<1> DEFINE a == vis.args
           log == FileList(a)[i]
<1>1. i \in 1 .. Len(FileList(a))
  <2> HIDE DEF a
  <2>1. Len(FileList(a)) \in 1 .. 7 /\ RepairedBefore(FileList(a)) \in 0 .. Len(FileList(a))
    BY FileLists, RepairedInList
  <2>2. i \in 1 .. RepairedBefore(FileList(a))
    BY DEF a
  <2> QED BY <2>1, <2>2
<1>2. PICK stem, part, seed : log = File(FolderOf(a), stem, part, seed)
  BY <1>1, FileLists
<1>3. Repairable(log)
  BY RepairedSound
<1> HIDE DEF log, a
<1>4. log \in Existing /\ Len(files[log].records) >= 2
  BY <1>3 DEF Repairable
<1>5. /\ log[1] = FolderOf(a)
      /\ Final(log)[1] = log[1] /\ Final(log)[3] = log[3]
      /\ Final(log)[5] = "final" /\ [Final(log) EXCEPT ![5] = "log"] = log /\ log[5] = "log"
  BY <1>2, FinalNames
<1> QED BY <1>4, <1>5 DEF log, a

\* A table that make_dataframe has stored is made of a log of its folder and part.
LEMMA StoredMade ==
  ASSUME NEW k \in 0 .. RepairedBefore(FileList(vis.args)),
         NEW f \in DOMAIN StoredTables(FileList(vis.args), k)
  PROVE  \E log \in Existing :
           /\ log[1] = FolderOf(vis.args) /\ f[1] = log[1] /\ f[3] = log[3]
           /\ f[5] = "final" /\ [f EXCEPT ![5] = "log"] = log /\ log[5] = "log"
           /\ TableOf(log, StoredTables(FileList(vis.args), k)[f])
<1> DEFINE a == vis.args
<1>1. PICK i \in 1 .. k : f = Final(FileList(a)[i])
  BY DEF StoredTables
<1>2. i \in 1 .. RepairedBefore(FileList(a))
  <2> HIDE DEF a
  <2>1. RepairedBefore(FileList(a)) \in 0 .. Len(FileList(a)) /\ Len(FileList(a)) \in 1 .. 7
    BY FileLists, RepairedInList
  <2>2. k \in 0 .. RepairedBefore(FileList(a))
    BY DEF a
  <2> QED BY <1>1, <2>1, <2>2
<1> DEFINE log == FileList(a)[i]
<1>3. /\ log \in Existing /\ Len(files[log].records) >= 2
      /\ log[1] = FolderOf(a) /\ f[1] = log[1] /\ f[3] = log[3]
      /\ f[5] = "final" /\ [f EXCEPT ![5] = "log"] = log /\ log[5] = "log"
  BY <1>1, <1>2, ListMade
<1>4. StoredTables(FileList(a), k)[f] = Stored(Repaired(log))
  <2>1. StoredTables(FileList(a), k)[f] = Stored(Repaired([f EXCEPT ![5] = "log"]))
    BY DEF StoredTables
  <2> QED BY <1>3, <2>1
<1> HIDE DEF log
<1>5. TableOf(log, StoredTables(FileList(a), k)[f])
  BY <1>3, <1>4 DEF TableOf
<1> QED BY <1>3, <1>5

\* So is the table of a sender that generate_senders_csv stores.
LEMMA SenderMade ==
  ASSUME VisInv, vis.at <= Len(SenderList(vis.args)),
         LET log == SenderList(vis.args)[vis.at] IN log \in Existing /\ ~Unreadable(log)
  PROVE  LET log == SenderList(vis.args)[vis.at]
         IN  /\ log[1] = FolderOf(vis.args)
             /\ Final(log)[1] = log[1] /\ Final(log)[3] = log[3]
             /\ Final(log)[5] = "final" /\ [Final(log) EXCEPT ![5] = "log"] = log /\ log[5] = "log"
             /\ TableOf(log, SenderTable(log))
<1> DEFINE a == vis.args
           log == SenderList(a)[vis.at]
<1>1. vis.at \in 1 .. Len(SenderList(a))
  <2> HIDE DEF a
  <2>1. Len(SenderList(a)) \in Nat
    BY SenderLists
  <2>2. vis.at <= Len(SenderList(a))
    BY DEF a
  <2> QED BY <2>1, <2>2, VisFields
<1>2. PICK n \in Nat : log = TestLog(a, Sender(n))
  <2>1. a.tool = "visualise" /\ a.n \in {1, 3, 6}
    <3>1. CASE ~(a.tool = "visualise" /\ a.n \in {1, 3, 6})
      <4>1. SenderList(a) = <<>>
        BY <3>1 DEF SenderList
      <4>2. Len(SenderList(a)) = 0
        BY <4>1
      <4> QED BY <1>1, <4>2
    <3> QED BY <3>1
  <2>2. SenderList(a) = [j \in 1 .. a.n |-> TestLog(a, Sender(3 + j))]
    BY <2>1 DEF SenderList
  <2>3. Len(SenderList(a)) = a.n
    BY <2>1, <2>2
  <2>4. log = TestLog(a, Sender(3 + vis.at))
    BY <1>1, <2>2, <2>3
  <2>5. 3 + vis.at \in Nat
    BY VisFields
  <2> QED BY <2>4, <2>5
<1>3. /\ log[1] = FolderOf(a) /\ log[3] = Sender(n) /\ log[5] = "log"
      /\ Final(log)[1] = log[1] /\ Final(log)[3] = log[3]
      /\ Final(log)[5] = "final" /\ [Final(log) EXCEPT ![5] = "log"] = log /\ log[5] = "log"
  <2> HIDE DEF log
  <2> QED BY <1>2, FinalNames DEF TestLog
<1>4. log[3] # Packets
  BY <1>3 DEF Sender, Packets
<1>5. files[log].records # <<>>
  BY <1>3 DEF Unreadable
<1> HIDE DEF log
<1>6. TableOf(log, SenderTable(log))
  BY <1>4, <1>5 DEF TableOf
<1> QED BY <1>3, <1>6 DEF log

\* What the two programs, and the user who prepares for them, do to the files.
LEMMA VisualiseWrites ==
  ASSUME SimulationInv, VisInv, Visualise
  PROVE  \/ files' = files
         \/ \E b \in campaign.requests : Collect(b)
         \/ /\ vis.step \in {"tables", "senders"}
            /\ \E new : Put(new) /\ \A f \in DOMAIN new : MadeOf(f, new[f])
         \/ /\ vis.step \in {"queue", "drops"}
            /\ \E log \in Existing : \E fixed :
                 /\ Move(log, fixed, files[log])
                 /\ log[1] = FolderOf(vis.args) /\ fixed[1] = log[1]
                 /\ fixed[3] = log[3] /\ log[3] # Packets
                 /\ log[5] = "log" /\ fixed[5] = "log"
<1> DEFINE a == vis.args
           Makes == \E new : Put(new) /\ \A f \in DOMAIN new : MadeOf(f, new[f])
<1>1. ASSUME NEW k \in 0 .. RepairedBefore(FileList(a)), Put(StoredTables(FileList(a), k))
      PROVE  Makes
  <2>1. \A f \in DOMAIN StoredTables(FileList(a), k) : MadeOf(f, StoredTables(FileList(a), k)[f])
    BY StoredMade DEF MadeOf
  <2> QED BY <1>1, <2>1
<1>2. CASE MakeTable
  <2>1. vis.step = "tables"
    BY <1>2 DEF MakeTable
  <2>2. RepairedBefore(FileList(a)) \in 0 .. RepairedBefore(FileList(a))
    BY RepairedInList, FileLists
  <2>3. files' = files \/ Put(StoredTables(FileList(a), RepairedBefore(FileList(a))))
    BY <1>2 DEF MakeTable, GenerateSendersCsv, List
  <2> QED BY <1>1, <2>1, <2>2, <2>3
<1>3. ASSUME NEW k \in 1 .. 7, KilledMakingTable(k)
      PROVE  vis.step = "tables" /\ Makes
  <2> DEFINE tables == StoredTables(FileList(a), k)
             final == Final(FileList(a)[k])
  <2>1. vis.step = "tables" /\ k \in 0 .. RepairedBefore(FileList(a))
    BY <1>3 DEF KilledMakingTable, List
  <2>2. PICK left \in Remains(tables[final]) : Put([tables EXCEPT ![final] = left])
    BY <1>3 DEF KilledMakingTable, List
  <2> DEFINE new == [tables EXCEPT ![final] = left]
  <2>6. Put(new)
    BY <2>2
  <2>3. \A f \in DOMAIN tables : \E log \in Existing :
          /\ log[1] = FolderOf(vis.args) /\ f[1] = log[1] /\ f[3] = log[3]
          /\ f[5] = "final" /\ [f EXCEPT ![5] = "log"] = log /\ log[5] = "log"
          /\ TableOf(log, tables[f])
    BY <2>1, StoredMade
  <2> HIDE DEF tables, final
  <2>4. \A f \in DOMAIN new : /\ f \in DOMAIN tables
                              /\ new[f] = tables[f] \/ new[f] \in Remains(tables[f])
    BY <2>2
  <2> HIDE DEF new
  <2>5. \A f \in DOMAIN new : MadeOf(f, new[f])
    BY <2>3, <2>4 DEF MadeOf
  <2> QED BY <2>1, <2>5, <2>6
<1>4. ASSUME NEW log, log = SenderList(a)[vis.at], vis.at <= Len(SenderList(a)),
             log \in Existing, ~Unreadable(log), NEW content,
             content = SenderTable(log) \/ content \in Remains(SenderTable(log)),
             Put([f \in {Final(log)} |-> content])
      PROVE  Makes
  <2> DEFINE new == [f \in {Final(log)} |-> content]
  <2>1. MadeOf(Final(log), content)
    BY <1>4, SenderMade DEF MadeOf
  <2>2. Put(new) /\ \A f \in DOMAIN new : MadeOf(f, new[f])
    BY <1>4, <2>1
  <2> HIDE DEF new
  <2> QED BY <2>2
<1>5. CASE SenderStep
  <2>1. vis.step = "senders"
    BY <1>5 DEF SenderStep
  <2> DEFINE log == SenderList(a)[vis.at]
  <2>2. \/ files' = files
        \/ /\ vis.at <= Len(SenderList(a)) /\ log \in Existing /\ ~Unreadable(log)
           /\ Put([f \in {Final(log)} |-> SenderTable(log)])
    BY <1>5 DEF SenderStep
  <2> HIDE DEF Makes
  <2> QED BY <1>4, <2>1, <2>2 DEF Makes
<1>6. ASSUME KilledMakingSender
      PROVE  vis.step = "senders" /\ Makes
  <2> DEFINE log == SenderList(a)[vis.at]
  <2>1. /\ vis.at <= Len(SenderList(a)) /\ log \in Existing /\ ~Unreadable(log)
        /\ vis.step = "senders"
    BY <1>6 DEF KilledMakingSender
  <2>2. PICK left \in Remains(SenderTable(log)) : Put([f \in {Final(log)} |-> left])
    BY <1>6 DEF KilledMakingSender
  <2> HIDE DEF Makes
  <2> QED BY <1>4, <2>1, <2>2
<1>7. ASSUME NEW part \in {Queues, Drops}, NEW stem, NEW next,
             Renamed(TestLog(a, part), Here(stem, part), next)
      PROVE  \/ files' = files
             \/ \E log \in Existing : \E fixed :
                 /\ Move(log, fixed, files[log])
                 /\ log[1] = FolderOf(vis.args) /\ fixed[1] = log[1]
                 /\ fixed[3] = log[3] /\ log[3] # Packets
                 /\ log[5] = "log" /\ fixed[5] = "log"
  <2> DEFINE log == TestLog(a, part)
             fixed == Here(stem, part)
  <2>1. /\ log[1] = FolderOf(a) /\ fixed[1] = log[1] /\ fixed[3] = log[3] /\ log[3] = part
        /\ log[5] = "log" /\ fixed[5] = "log"
    BY FinalNames DEF TestLog, Here
  <2>2. part # Packets
    BY DEF Queues, Drops, Packets
  <2>3. files' = files \/ (log \in Existing /\ Move(log, fixed, files[log]))
    BY <1>7 DEF Renamed
  <2> HIDE DEF log, fixed
  <2> QED BY <2>1, <2>2, <2>3
<1>8. CASE QueueStep
  <2>1. vis.step = "queue"
    BY <1>8 DEF QueueStep
  <2>2. PICK next : Renamed(TestLog(a, Queues), Here("queue", Queues), next)
    BY <1>8 DEF QueueStep
  <2> QED BY <1>7, <2>1, <2>2
<1>9. CASE DropsRenamed
  <2>1. vis.step = "drops"
    BY <1>9 DEF DropsRenamed
  <2>2. PICK next : Renamed(TestLog(a, Drops), Here("drops", Drops), next)
    BY <1>9 DEF DropsRenamed
  <2> QED BY <1>7, <2>1, <2>2
<1>10. CASE Plot \/ DropsOfSeed \/ Rates \/ Over \/ KilledBetween
  BY <1>10 DEF Plot, DropsOfSeed, Rates, Over, KilledBetween
<1>11. ASSUME NEW b, Begin(b) PROVE files' = files
  BY <1>11 DEF Begin
<1> HIDE DEF Makes
<1>12. CASE VisNext
  <2>1. CASE \E k \in 1 .. 7 : KilledMakingTable(k)
    BY <1>3, <2>1 DEF Makes
  <2>2. CASE KilledMakingSender
    BY <1>6, <2>2 DEF Makes
  <2> QED BY <1>2, <1>5, <1>8, <1>9, <1>10, <1>12, <2>1, <2>2 DEF VisNext
<1> QED BY <1>11, <1>12 DEF Visualise

\* Parsing a record, or leaving it as text, changes neither its number nor its part.
LEMMA RecordParts ==
  ASSUME NEW part, NEW r \in LogRecords(part)
  PROVE  /\ [r EXCEPT !.text = TRUE] \in LogRecords(part)
         /\ [r EXCEPT !.text = TRUE].text = TRUE
         /\ [r EXCEPT !.text = TRUE].no = r.no
         /\ [r EXCEPT !.text = FALSE] \in LogRecords(part)
         /\ [r EXCEPT !.text = FALSE].no = r.no
         /\ r.no \in 1 .. Records /\ r.from = part
  BY DEF LogRecords

\* The log with its header put back as text.
LEMMA RepairedRecords ==
  ASSUME NEW part, NEW log, files[log].records \in Seq(LogRecords(part)),
         files[log].records # <<>>
  PROVE  LET old == files[log].records
             new == Repaired(log).records
         IN  /\ new \in Seq(LogRecords(part)) /\ Len(new) = Len(old)
             /\ new[1].text = TRUE /\ \A i \in 1 .. Len(old) : new[i].no = old[i].no
<1> DEFINE old == files[log].records
           head == [Head(old) EXCEPT !.text = TRUE]
           new == <<head>> \o Tail(old)
<1>1. Head(old) = old[1] /\ old[1] \in LogRecords(part) /\ Len(old) \in Nat \ {0}
  OBVIOUS
<1>2. head \in LogRecords(part) /\ head.text = TRUE /\ head.no = old[1].no
  <2>1. PICK r \in LogRecords(part) : r = Head(old)
    BY <1>1
  <2>2. head = [r EXCEPT !.text = TRUE] /\ r = old[1]
    BY <1>1, <2>1
  <2>3. [r EXCEPT !.text = TRUE] \in LogRecords(part)
    BY <2>1, RecordParts
  <2>4. [r EXCEPT !.text = TRUE].text = TRUE
    BY <2>1, RecordParts
  <2>5. [r EXCEPT !.text = TRUE].no = r.no
    BY <2>1, RecordParts
  <2> HIDE DEF head
  <2>6. head \in LogRecords(part)
    BY <2>2, <2>3
  <2>7. head.text = TRUE
    BY <2>2, <2>4
  <2>8. head.no = old[1].no
    BY <2>2, <2>5
  <2> QED BY <2>6, <2>7, <2>8
<1>3. /\ Tail(old) \in Seq(LogRecords(part)) /\ Len(Tail(old)) = Len(old) - 1
      /\ \A i \in 1 .. Len(old) - 1 : Tail(old)[i] = old[i + 1]
  BY TailElements
<1>4. Repaired(log).records = new
  BY DEF Repaired, Table, Content
<1> HIDE DEF head, old
<1>5. <<head>> \in Seq(LogRecords(part)) /\ Len(<<head>>) = 1
  BY <1>2
<1>6. new \in Seq(LogRecords(part)) /\ Len(new) = Len(old) /\ new[1] = head
  BY <1>1, <1>2, <1>3, <1>5
<1>7. ASSUME NEW i \in 2 .. Len(old) PROVE new[i] = old[i]
  <2>1. i - 1 \in 1 .. Len(old) - 1 /\ (i - 1) + 1 = i
    BY <1>1
  <2>2. new[i] = Tail(old)[i - 1]
    BY <1>1, <1>3, <1>5
  <2> QED BY <1>3, <2>1, <2>2
<1>8. \A i \in 1 .. Len(old) : i = 1 \/ i \in 2 .. Len(old)
  BY <1>1
<1> HIDE DEF new
<1>9. \A i \in 1 .. Len(old) : new[i].no = old[i].no
  BY <1>2, <1>6, <1>7, <1>8
<1> QED BY <1>2, <1>4, <1>6, <1>9 DEF old

\* to_csv keeps the records of a table, in their order.
LEMMA StoredRecords ==
  ASSUME NEW part, NEW table, table.records \in Seq(LogRecords(part))
  PROVE  LET old == table.records
             new == Stored(table).records
         IN  /\ new \in Seq(LogRecords(part)) /\ Len(new) = Len(old)
             /\ \A i \in 1 .. Len(old) : new[i].no = old[i].no
<1> DEFINE old == table.records
           new == [i \in 1 .. Len(old) |-> [old[i] EXCEPT !.text = FALSE]]
<1>1. Stored(table).records = new
  BY DEF Stored, Table, Content
<1>2. \A i \in 1 .. Len(old) : old[i] \in LogRecords(part)
  OBVIOUS
<1> HIDE DEF old
<1>3. Len(old) \in Nat
  BY DEF old
<1>4. \A i \in 1 .. Len(old) : new[i] \in LogRecords(part) /\ new[i].no = old[i].no
  BY <1>2, RecordParts
<1>5. new \in Seq(LogRecords(part)) /\ Len(new) = Len(old)
  BY <1>3, <1>4
<1> QED BY <1>1, <1>4, <1>5 DEF old

Numbered(records) == \A i \in 1 .. Len(records) : records[i].no = i

\* A table made of a log holds records of its part, numbered as those of the log
\* unless it is a sender's.
LEMMA TablesMade ==
  ASSUME NEW log, NEW part, NEW table, TableOf(log, table), part = log[3],
         files[log].records \in Seq(LogRecords(part)), part = Packets => Numbered(files[log].records)
  PROVE  /\ table = Table(table.by, table.records) /\ IsTable(table, part)
         /\ table.by = files[log].by
         /\ part = Packets => /\ Numbered(table.records)
                              /\ Len(table.records) = Len(files[log].records)
<1> DEFINE old == files[log].records
<1>0. \A by, records : /\ Table(by, records).by = by /\ Table(by, records).records = records
                       /\ ~Table(by, records).cut /\ IsContent(Table(by, records))
                       /\ Table(by, records).cut \in BOOLEAN
  BY DEF Table, Content, IsContent
<1>1. CASE Len(old) >= 2 /\ table = Stored(Repaired(log))
  <2>0. old # <<>>
    BY <1>1
  <2>1. LET new == Repaired(log).records
        IN  /\ new \in Seq(LogRecords(part)) /\ Len(new) = Len(old)
            /\ \A i \in 1 .. Len(old) : new[i].no = old[i].no
    BY <2>0, RepairedRecords
  <2>2. /\ table.records \in Seq(LogRecords(part)) /\ Len(table.records) = Len(old)
        /\ \A i \in 1 .. Len(old) : table.records[i].no = old[i].no
    BY <1>1, <2>1, StoredRecords
  <2>3. PICK by, records : table = Table(by, records)
    BY <1>1 DEF Stored
  <2>4. table.by = files[log].by
    BY <1>1, MadeFrom
  <2>5. table = Table(table.by, table.records) /\ IsTable(table, part)
    BY <1>0, <2>2, <2>3 DEF IsTable
  <2> HIDE DEF old
  <2>6. part = Packets => Numbered(table.records)
    BY <2>2 DEF Numbered, old
  <2> QED BY <2>2, <2>4, <2>5, <2>6 DEF old
<1>2. CASE log[3] # Packets /\ old # <<>> /\ table = SenderTable(log)
  <2>1. Tail(old) \in Seq(LogRecords(part))
    <3> HIDE DEF old
    <3>1. old \in Seq(LogRecords(part)) /\ old # <<>>
      BY <1>2 DEF old
    <3> QED BY <3>1, TailElements
  <2>2. table = Table(files[log].by, Tail(old))
    BY <1>2 DEF SenderTable
  <2> HIDE DEF old
  <2>3. /\ table.by = files[log].by /\ table.records = Tail(old)
        /\ table = Table(table.by, table.records)
    BY <1>0, <2>2
  <2>4. IsContent(table) /\ table.cut \in BOOLEAN
    BY <1>0, <2>2
  <2> QED BY <1>2, <2>1, <2>3, <2>4 DEF IsTable
<1> QED BY <1>1, <1>2 DEF TableOf

\* What a killed to_csv leaves is a table as well, of the same runs, and cut.
LEMMA TruncatedRecords ==
  ASSUME NEW part, NEW table, IsTable(table, part), NEW n \in Nat
  PROVE  /\ IsTable(Truncated(table, n), part)
         /\ Truncated(table, n).by = table.by /\ Truncated(table, n).cut
         /\ Numbered(table.records) => Numbered(Truncated(table, n).records)
<1> DEFINE old == table.records
           w == IF n < Len(old) THEN n ELSE Len(old)
           new == SubSeq(old, 1, w)
<1>1. old \in Seq(LogRecords(part)) /\ Len(old) \in Nat
  BY DEF IsTable
<1>2. Truncated(table, n) = Content(table.by, new, TRUE)
  BY DEF Truncated
<1> HIDE DEF old
<1>3. w \in 0 .. Len(old)
  BY <1>1
<1> HIDE DEF w
<1>4. new \in Seq(LogRecords(part)) /\ Len(new) = w /\ \A i \in 1 .. w : new[i] = old[i]
  BY <1>1, <1>3
<1>5. \A i \in 1 .. w : i \in 1 .. Len(old)
  BY <1>1, <1>3
<1> HIDE DEF new
<1>6. Numbered(old) => Numbered(new)
  BY <1>4, <1>5 DEF Numbered
<1> DEFINE x == Truncated(table, n)
<1>8. x.by = table.by /\ x.records = new /\ x.cut = TRUE /\ IsContent(x)
  BY <1>2 DEF Content, IsContent
<1> HIDE DEF x
<1>9. IsTable(x, part)
  BY <1>4, <1>8 DEF IsTable
<1>10. x.by = table.by /\ x.cut /\ (Numbered(old) => Numbered(x.records))
  BY <1>6, <1>8
<1> QED BY <1>9, <1>10 DEF x, old

LEMMA BlankParts == Blank.by = {} /\ Blank.records = <<>> /\ Blank.cut = TRUE /\ IsContent(Blank)
  BY DEF Blank, Content, IsContent

LEMMA RemainsOk ==
  ASSUME NEW part, NEW table, IsTable(table, part), NEW left \in Remains(table)
  PROVE  /\ IsTable(left, part) /\ left.cut
         /\ Numbered(table.records) => Numbered(left.records)
<1>1. CASE left = Blank
  <2>1. <<>> \in Seq(LogRecords(part)) /\ Numbered(<<>>)
    BY EmptySeq DEF Numbered
  <2> QED BY <1>1, <2>1, BlankParts DEF IsTable
<1>2. ASSUME NEW n \in 0 .. Records - 1, left = Truncated(table, n)
      PROVE  /\ IsTable(left, part) /\ left.cut
             /\ Numbered(table.records) => Numbered(left.records)
  <2>1. n \in Nat
    BY RecordsAssumption
  <2> QED BY <1>2, <2>1, TruncatedRecords
<1> QED BY <1>1, <1>2, RemainsParts

\* A file is in a folder there is, and holds what its name says: a packet log and
\* the table made of it the packets in order; no log is cut short.
FileOk(f, x) ==
  /\ IsTable(x, f[3])
  /\ f[3] = Packets => Numbered(x.records)
  /\ f[5] = "log" => ~x.cut

FilesOk == \A f \in Existing : FileOk(f, files[f])

\* The log that a table of packets is made of is there.
LogsThere ==
  \A f \in Existing :
    f[3] = Packets /\ f[5] = "final" => [f EXCEPT ![5] = "log"] \in Existing

\* Files of the kind their names say may be added.
LEMMA PutOk ==
  ASSUME FilesOk, NEW new, Put(new), \A f \in DOMAIN new : FileOk(f, new[f])
  PROVE  FilesOk'
<1>1. \A f \in DOMAIN files' : FileOk(f, files'[f])
  BY PutValues DEF FilesOk, Existing
<1>2. \A f, x : FileOk(f, x)' <=> FileOk(f, x')
  BY DEF FileOk, IsTable, Numbered, LogRecords
<1> QED BY <1>1 DEF FilesOk, Existing, FileOk, IsTable, Numbered, LogRecords

\* What visualise.py stores is of the kind its name says.
LEMMA MadeOk ==
  ASSUME FilesOk, NEW f, NEW x, MadeOf(f, x)
  PROVE  FileOk(f, x)
<1>1. PICK log \in Existing :
        /\ f[3] = log[3] /\ f[5] = "final"
        /\ \E table : /\ TableOf(log, table)
                      /\ x = table \/ x \in Remains(table)
  BY DEF MadeOf
<1>2. PICK table : /\ TableOf(log, table)
                   /\ x = table \/ x \in Remains(table)
  BY <1>1
<1>3. /\ files[log].records \in Seq(LogRecords(f[3]))
      /\ f[3] = Packets => Numbered(files[log].records)
  BY <1>1 DEF FilesOk, FileOk, IsTable
<1>4. IsTable(table, f[3]) /\ (f[3] = Packets => Numbered(table.records))
  BY <1>1, <1>2, <1>3, TablesMade
<1>5. IsTable(x, f[3]) /\ (f[3] = Packets => Numbered(x.records))
  BY <1>2, <1>4, RemainsOk
<1> QED BY <1>1, <1>5 DEF FileOk

\* The files a simulation opens are logs.
LEMMA LogKinds ==
  ASSUME NEW script \in AllScripts, NEW seed, NEW f \in Logs(script, seed)
  PROVE  f[5] = "log"
<1>1. PICK base, stem, part, s : f = File(Plain(base), stem, part, s)
  BY LogNames
<1> QED BY <1>1, FinalNames

\* Opening the logs of a run, which empties old ones, keeps every file of its kind.
LEMMA OpenOk ==
  ASSUME FilesOk, NEW script, NEW seed, OpenLogs(script, seed)
  PROVE  FilesOk'
<1> DEFINE new == [f \in Logs(script, seed) |-> Content({Len(runs) + 1}, <<>>, FALSE)]
<1>1. ASSUME NEW f, NEW by PROVE FileOk(f, Content(by, <<>>, FALSE))
  BY EmptySeq DEF FileOk, IsTable, Numbered, Content, IsContent
<1>2. Put(new) /\ \A f \in DOMAIN new : FileOk(f, new[f])
  BY <1>1 DEF OpenLogs
<1> HIDE DEF new
<1> QED BY <1>2, PutOk

\* The first records of a log are numbered from 1.
LEMMA FirstOk ==
  ASSUME NEW part, NEW n \in 0 .. Records
  PROVE  /\ FirstRecords(part, n) \in Seq(LogRecords(part))
         /\ Len(FirstRecords(part, n)) = n /\ Numbered(FirstRecords(part, n))
<1>0. n \in Nat /\ \A i \in 1 .. n : i \in 1 .. Records
  BY RecordsAssumption
<1>1. \A i \in 1 .. n : Record(part, i) \in LogRecords(part) /\ Record(part, i).no = i
  BY <1>0 DEF Record, LogRecords
<1>2. FirstRecords(part, n) = [i \in 1 .. n |-> Record(part, i)]
  BY DEF FirstRecords
<1>3. FirstRecords(part, n) \in Seq(LogRecords(part)) /\ Len(FirstRecords(part, n)) = n
  BY <1>0, <1>1, <1>2
<1> QED BY <1>1, <1>2, <1>3 DEF Numbered

\* So are those that reach the disk later.
LEMMA WrittenOk ==
  ASSUME FilesOk, NEW r, NEW logs, NEW n, Written(r, logs, n)
  PROVE  FilesOk'
<1>1. n \in 0 .. Records
  BY DEF Written
<1>2. DOMAIN files' = Existing
  BY WrittenValues
<1>3. ASSUME NEW f \in Existing PROVE FileOk(f, files'[f])
  <2>1. CASE f \in logs
    <3> DEFINE x == Content(files[f].by \cup {r}, FirstRecords(f[3], n), FALSE)
    <3>1. files'[f] = x
      BY <2>1, WrittenValues
    <3>2. x.records = FirstRecords(f[3], n) /\ x.cut = FALSE /\ IsContent(x)
      BY DEF Content, IsContent
    <3> HIDE DEF x
    <3>3. x.records \in Seq(LogRecords(f[3])) /\ Numbered(x.records)
      BY <1>1, <3>2, FirstOk
    <3> QED BY <3>1, <3>2, <3>3 DEF FileOk, IsTable
  <2>2. CASE f \notin logs
    <3>1. files'[f] = files[f]
      BY <2>2, WrittenValues
    <3> QED BY <3>1 DEF FilesOk
  <2> QED BY <2>1, <2>2
<1> QED BY <1>2, <1>3 DEF FilesOk, Existing, FileOk, IsTable, Numbered, LogRecords

\* The user collects logs under their part into the folder of the execution.
LEMMA SourceNames ==
  ASSUME NEW a, NEW log \in CollectedLogs(a)
  PROVE  /\ Source(log)[3] = log[3] /\ Source(log)[5] = "log" /\ log[5] = "log"
         /\ log[1] = FolderOf(a)
<1>1. PICK stem, part, seed : log = File(FolderOf(a), stem, part, seed)
  BY CollectedOfSeed
<1> QED BY <1>1, FinalNames

\* No step changes what kind of records a file holds.
LEMMA FilesOkStep ==
  SimulationInv /\ VisInv /\ FilesOk /\ [Next]_vars => FilesOk'
<1> SUFFICES ASSUME SimulationInv, VisInv, FilesOk, [Next]_vars PROVE FilesOk'
  OBVIOUS
<1>1. CASE files' = files
  BY <1>1 DEF FilesOk, Existing, FileOk, IsTable, Numbered, LogRecords
<1>2. CASE Simulate
  BY <1>1, <1>2, DockerSteps, OpenOk, WrittenOk
<1>3. CASE MakeFolder \/ Evaluate \/ UNCHANGED vars
  BY <1>1, <1>3 DEF MakeFolder, Evaluate, vars
<1>4. CASE Visualise
  <2>1. ASSUME NEW b, Collect(b) PROVE FilesOk'
    <3> DEFINE new == [log \in CollectedLogs(b) |-> files[Source(log)]]
    <3>1. Put(new) /\ \A log \in CollectedLogs(b) : Source(log) \in Existing
      BY <2>1 DEF Collect
    <3>2. \A log \in CollectedLogs(b) : FileOk(log, files[Source(log)])
      BY <3>1, SourceNames DEF FilesOk, FileOk
    <3>3. \A log \in DOMAIN new : FileOk(log, new[log])
      BY <3>2
    <3> HIDE DEF new
    <3> QED BY <3>1, <3>3, PutOk
  <2>2. ASSUME NEW new, Put(new), \A f \in DOMAIN new : MadeOf(f, new[f]) PROVE FilesOk'
    BY <2>2, MadeOk, PutOk
  <2>3. ASSUME NEW log \in Existing, NEW fixed, Move(log, fixed, files[log]),
               fixed[3] = log[3], log[3] # Packets, log[5] = "log", fixed[5] = "log"
        PROVE  FilesOk'
    <3>1. FileOk(fixed, files[log])
      BY <2>3 DEF FilesOk, FileOk
    <3>2. \A f \in DOMAIN files' : FileOk(f, files'[f])
      BY <2>3, <3>1 DEF Move, FilesOk, Existing
    <3> QED BY <3>2 DEF FilesOk, Existing, FileOk, IsTable, Numbered, LogRecords
  <2> QED BY <1>1, <1>4, <2>1, <2>2, <2>3, VisualiseWrites
<1> QED BY <1>2, <1>3, <1>4 DEF Next

\* No step takes the packet log of a folder away that had one.
LEMMA LogsThereStep ==
  SimulationInv /\ VisInv /\ LogsThere /\ [Next]_vars => LogsThere'
<1> SUFFICES ASSUME SimulationInv, VisInv, LogsThere, [Next]_vars PROVE LogsThere'
  OBVIOUS
<1>1. ASSUME Existing \subseteq Existing',
             \A f \in Existing' \ Existing :
               f[5] = "final" => [f EXCEPT ![5] = "log"] \in Existing
      PROVE  LogsThere'
  BY <1>1 DEF LogsThere
<1>2. CASE files' = files
  BY <1>2 DEF LogsThere, Existing
<1>3. CASE Simulate
  <2>1. ASSUME NEW script \in AllScripts, NEW seed, OpenLogs(script, seed) PROVE LogsThere'
    <3>1. Existing' = Existing \cup Logs(script, seed)
      BY <2>1, PutMore DEF OpenLogs
    <3> QED BY <1>1, <3>1, LogKinds
  <2>2. ASSUME NEW r, NEW logs, NEW n, Written(r, logs, n) PROVE LogsThere'
    <3>1. Existing' = Existing
      BY <2>2, WrittenValues DEF Existing
    <3> QED BY <1>1, <3>1
  <2> QED BY <1>2, <1>3, <2>1, <2>2, DockerSteps
<1>4. CASE MakeFolder \/ Evaluate \/ UNCHANGED vars
  BY <1>2, <1>4 DEF MakeFolder, Evaluate, vars
<1>5. CASE Visualise
  <2>1. ASSUME NEW b, Collect(b) PROVE LogsThere'
    <3>1. Existing' = Existing \cup CollectedLogs(b)
      BY <2>1, PutMore DEF Collect
    <3> QED BY <1>1, <3>1, SourceNames
  <2>2. ASSUME NEW new, Put(new), \A f \in DOMAIN new : MadeOf(f, new[f]) PROVE LogsThere'
    <3>1. Existing' = Existing \cup DOMAIN new
      BY <2>2, PutMore
    <3> QED BY <1>1, <2>2, <3>1 DEF MadeOf
  <2>3. ASSUME NEW log \in Existing, NEW fixed, Move(log, fixed, files[log]),
               fixed[3] = log[3], log[3] # Packets, log[5] = "log", fixed[5] = "log"
        PROVE  LogsThere'
    <3>1. Existing' = (Existing \ {log}) \cup {fixed}
      BY <2>3 DEF Move, Existing
    <3>2. ASSUME NEW f \in Existing', f[3] = Packets, f[5] = "final"
          PROVE  [f EXCEPT ![5] = "log"] \in Existing'
      <4>1. f \in Existing
        BY <2>3, <3>1, <3>2
      <4>2. PICK g : g = [f EXCEPT ![5] = "log"]
        OBVIOUS
      <4>3. g \in Existing
        BY <3>2, <4>1, <4>2 DEF LogsThere
      <4>4. g[3] = f[3]
        BY <4>2
      <4> QED BY <2>3, <3>1, <3>2, <4>2, <4>3, <4>4
    <3> QED BY <3>2 DEF LogsThere
  <2> QED BY <1>2, <1>5, <2>1, <2>2, <2>3, VisualiseWrites
<1> QED BY <1>3, <1>4, <1>5 DEF Next

-----------------------------------------------------------------------------
(* Types.                                                                  *)

RunsTyped ==
  /\ container \in {"none", "stopped", "running"} /\ owned \in BOOLEAN
  /\ lost \subseteq Terminals
  /\ \A t \in Terminals : pc[t] # "idle" => job[t].seed \in Seeds
  /\ \A r \in RunIds : runs[r].seed \in Seeds /\ runs[r].random \in Seeds \cup {1}

LEMMA RunsTypedInit == Init => RunsTyped
<1> SUFFICES ASSUME Init PROVE RunsTyped
  OBVIOUS
<1>1. RunIds = {}
  BY DEF Init, FilesInit, RunIds
<1> QED BY <1>1 DEF Init, DockerInit, RunsTyped

LEMMA RunsTypedStep == SimulationInv /\ RunsTyped /\ [Next]_vars => RunsTyped'
<1> SUFFICES ASSUME SimulationInv, RunsTyped, [Next]_vars PROVE RunsTyped'
  OBVIOUS
<1>0. /\ pc \in [Terminals -> Steps] /\ job \in [Terminals -> Jobs]
      /\ runs \in Seq(RunRecords)
  BY DEF SimulationInv
<1>1. ASSUME UNCHANGED <<runs, job>>, container' \in {"none", "stopped", "running"},
             owned' \in BOOLEAN, lost' \subseteq Terminals,
             \A t \in Terminals : pc'[t] # "idle" => pc[t] # "idle"
      PROVE  RunsTyped'
  BY <1>1 DEF RunsTyped, RunIds
<1>2. ASSUME NEW ts, Leave(ts), UNCHANGED runs, container' \in {"none", "stopped", "running"},
             owned' \in BOOLEAN, lost' \subseteq Terminals
      PROVE  RunsTyped'
  <2>1. \A t \in Terminals : pc'[t] # "idle" => pc[t] # "idle" /\ job'[t] = job[t]
    BY <1>2 DEF Leave
  <2> QED BY <1>2, <2>1 DEF RunsTyped, RunIds
<1>3. ASSUME NEW t \in Terminals, Start(t) \/ Create(t) \/ CreateFails(t) \/ Chown(t)
      PROVE  RunsTyped'
  <2>1. UNCHANGED <<runs, job>>
    BY <1>3 DEF Start, Create, CreateFails, Chown
  <2>2. pc[t] # "idle" /\ \E step : pc' = [pc EXCEPT ![t] = step]
    BY <1>3 DEF Start, Create, CreateFails, Chown, Goto
  <2>3. \A u \in Terminals : pc'[u] # "idle" => pc[u] # "idle"
    BY <2>2, <1>0
  <2>4. /\ container' \in {"none", "stopped", "running"} /\ owned' \in BOOLEAN
        /\ lost' \subseteq Terminals
    BY <1>3 DEF Start, Create, CreateFails, Chown, RunsTyped
  <2> QED BY <1>1, <2>1, <2>3, <2>4
<1>4. ASSUME NEW t \in Terminals, Exec(t) PROVE RunsTyped'
  <2>0. UNCHANGED <<container, owned>> /\ pc[t] = "exec"
    BY <1>4 DEF Exec
  <2>1. CASE /\ OpenLogs(job[t].script, job[t].seed) /\ lost' = lost
             /\ job' = [job EXCEPT ![t].run = Len(runs) + 1] /\ Goto(t, "simulating")
    <3>1. job[t].script \in AllScripts /\ job[t].seed \in AnySeed /\ job[t].seed \in Seeds
      BY <1>0, <2>0 DEF Jobs, RunsTyped
    <3> DEFINE n == Len(runs) + 1
    <3>2. /\ Len(runs) \in Nat /\ Len(runs') = n
          /\ \A r \in RunIds : runs'[r] = runs[r]
          /\ runs'[n] = [script |-> job[t].script, seed |-> job[t].seed,
                         random |-> RandomSeed(job[t].script, job[t].seed)]
      BY <1>0, <2>1, <3>1, AppendRun
    <3>3. RandomSeed(job[t].script, job[t].seed) \in Seeds \cup {1}
      BY <3>1 DEF RandomSeed, SmallSeed
    <3>4. runs'[n].seed \in Seeds /\ runs'[n].random \in Seeds \cup {1}
      <4> HIDE DEF n
      <4> QED BY <3>1, <3>2, <3>3
    <3>5. ASSUME NEW r \in RunIds'
          PROVE  runs'[r].seed \in Seeds /\ runs'[r].random \in Seeds \cup {1}
      <4>1. r = n \/ r \in RunIds
        BY <3>2 DEF RunIds
      <4> QED BY <3>2, <3>4, <4>1 DEF RunsTyped
    <3>6. \A u \in Terminals : job'[u].seed = job[u].seed
      BY <1>0, <2>1 DEF Jobs
    <3>7. \A u \in Terminals : pc'[u] # "idle" => pc[u] # "idle"
      BY <1>0, <2>0, <2>1 DEF Goto
    <3> QED BY <2>0, <2>1, <3>5, <3>6, <3>7 DEF RunsTyped
  <2>2. CASE Goto(t, Failure(t)) /\ UNCHANGED <<job, lost, runs>>
    <3>1. \A u \in Terminals : pc'[u] # "idle" => pc[u] # "idle"
      BY <1>0, <2>0, <2>2 DEF Goto
    <3> QED BY <1>1, <2>0, <2>2, <3>1 DEF RunsTyped
  <2>3. CASE Leave({t}) /\ lost' = lost \ {t} /\ UNCHANGED runs
    BY <1>2, <2>0, <2>3 DEF RunsTyped
  <2> QED BY <1>4, <2>1, <2>2, <2>3 DEF Exec
<1>5. ASSUME NEW t \in Terminals, EndSimulation(t) \/ EndScript(t) PROVE RunsTyped'
  <2>1. Leave({t}) /\ UNCHANGED <<container, owned, runs>> /\ lost' = lost \ {t}
    BY <1>5 DEF EndSimulation, EndScript
  <2> QED BY <1>2, <2>1 DEF RunsTyped
<1>6. ASSUME NEW to \in {"none", "stopped"}, Down(to) PROVE RunsTyped'
  <2>1. /\ Leave(Simulating) /\ UNCHANGED runs /\ container' = to
        /\ owned' \in BOOLEAN /\ lost' \subseteq Terminals
    BY <1>6 DEF Down, RunsTyped
  <2> QED BY <1>2, <2>1
<1>7. ASSUME NEW t \in Terminals, NEW script, NEW seed \in Seeds, RunScript(t, script, seed)
      PROVE  RunsTyped'
  <2>1. UNCHANGED <<container, owned, lost, runs>>
    BY <1>7 DEF RunScript
  <2>2. \A u \in Terminals \ {t} : pc'[u] = pc[u] /\ job'[u] = job[u]
    BY <1>0, <1>7 DEF RunScript, Goto
  <2>3. job'[t].seed = seed
    BY <1>0, <1>7 DEF RunScript
  <2> QED BY <2>1, <2>2, <2>3 DEF RunsTyped, RunIds
<1>8. CASE Simulate
  <2>1. campaign.seeds \subseteq Seeds
    BY CampaignsAssumption DEF SimulationInv
  <2>2. ASSUME NEW t \in Terminals, Trace(t) PROVE RunsTyped'
    BY <2>2 DEF Trace, RunsTyped, RunIds
  <2> QED BY <1>3, <1>4, <1>5, <1>6, <1>7, <1>8, <2>1, <2>2 DEF Simulate, DockerNext
<1>9. CASE MakeFolder \/ Evaluate \/ Visualise \/ UNCHANGED vars
  <2>1. UNCHANGED <<runs, pc, job>>
    BY <1>9, OthersLeaveRuns
  <2>2. UNCHANGED <<container, owned, lost>>
    BY <1>9 DEF MakeFolder, Evaluate, Visualise, vars, docker
  <2> QED BY <1>1, <2>1, <2>2 DEF RunsTyped
<1> QED BY <1>8, <1>9 DEF Next

\* Files are in folders there are; one that is executed for or that the user has
\* put logs into is one of these.
FoldersInv ==
  /\ \A f \in Existing : f[1] \in folders
  /\ vis.step \notin {"idle", "nofolder"} => FolderOf(vis.args) \in folders
  /\ \A place \in collected : place[1] \in folders /\ place[2] \in Seeds

\* Before the first execution nothing is read and nothing is plotted.
LEMMA NoExecutionParts ==
  /\ NoExecution.step = "idle" /\ NoExecution.args.tool = "visualise" /\ NoExecution.at = 1
  /\ NoExecution.table = NoTable /\ NoExecution.plots = <<>>
  /\ NoExecution.queue = NoTable /\ NoExecution.drops = NoTable
  /\ NoTable.by = {} /\ NoTable.records = <<>> /\ NoTable.cut = FALSE
<1> DEFINE args0 == Request("visualise", 10, 1, NotGiven, NotGiven, 1, "cubic", 5)
<1>1. args0.tool = "visualise"
  BY DEF Request
<1> HIDE DEF args0
<1>2. NoExecution = [step |-> "idle", args |-> args0, at |-> 1, table |-> NoTable,
                     plots |-> <<>>, queue |-> NoTable, drops |-> NoTable]
  BY DEF NoExecution, args0
<1>3. NoTable.by = {} /\ NoTable.records = <<>> /\ NoTable.cut = FALSE
  BY DEF NoTable, Table, Content
<1> QED BY <1>1, <1>2, <1>3

\* An execution begins with nothing read, in a folder that exists or not at all.
LEMMA BeginParts ==
  ASSUME NEW b, Begin(b)
  PROVE  /\ vis'.args = b /\ vis'.at = 1 /\ vis'.step \in {"tables", "nofolder"}
         /\ vis'.table = NoTable /\ vis'.plots = <<>>
         /\ vis'.queue = NoTable /\ vis'.drops = NoTable
         /\ vis'.step = "tables" => FolderOf(b) # NoFolder /\ FolderOf(b) \in folders'
         /\ folders \subseteq folders' /\ UNCHANGED <<files, runs, collected, kills>>
<1> DEFINE args0 == Request("visualise", 10, 1, NotGiven, NotGiven, 1, "cubic", 5)
           Begun(step) == [step |-> step, args |-> b, at |-> 1, table |-> NoTable,
                           plots |-> <<>>, queue |-> NoTable, drops |-> NoTable]
<1> HIDE DEF args0
<1>1. NoExecution = [step |-> "idle", args |-> args0, at |-> 1, table |-> NoTable,
                     plots |-> <<>>, queue |-> NoTable, drops |-> NoTable]
  BY DEF NoExecution, args0
<1>2. \/ /\ vis' = Begun("tables") /\ FolderOf(b) # NoFolder
         /\ folders' = folders \cup {FolderOf(b)}
      \/ vis' = Begun("nofolder") /\ folders' = folders
  BY <1>1 DEF Begin
<1>3. UNCHANGED <<files, runs, collected, kills>>
  BY DEF Begin
<1> QED BY <1>2, <1>3

LEMMA FoldersInit == Init => FoldersInv
  BY NoExecutionParts DEF Init, FilesInit, VisInit, FoldersInv, Existing

\* Simulations add folders and write only into folders that exist.
LEMMA SimulateFolders ==
  ASSUME SimulationInv, FoldersInv, Simulate
  PROVE  /\ folders \subseteq folders'
         /\ \A f \in Existing' : f[1] \in folders'
<1>1. folders \subseteq folders'
  BY DEF Simulate, DockerNext, RunScript, Start, Create, CreateFails, Chown, Exec,
         Trace, EndSimulation, EndScript, Down
<1>2. CASE files' = files
  BY <1>1, <1>2 DEF FoldersInv, Existing
<1>3. ASSUME NEW new, Put(new), \A f \in DOMAIN new : f \in Existing \/ f[1] \in folders
      PROVE  \A f \in Existing' : f[1] \in folders'
  BY <1>1, <1>3, PutMore DEF FoldersInv
<1>4. ASSUME NEW t \in Terminals, Trace(t) \/ EndSimulation(t)
      PROVE  \A f \in Existing' : f[1] \in folders'
  <2>1. PICK r, logs, n : logs \subseteq Existing /\ Flush(r, logs, n)
    <3>1. \A r : BlocksOf(r) \subseteq Existing /\ \A f \in LinesOf(r) : {f} \subseteq Existing
      BY DEF BlocksOf, LinesOf
    <3>2. \E r : WriteLine(r) \/ WriteBlock(r) \/ CloseLogs(r)
      BY <1>4 DEF Trace, EndSimulation
    <3> QED BY <3>1, <3>2 DEF WriteLine, WriteBlock, CloseLogs
  <2>2. \E new : Put(new) /\ DOMAIN new \subseteq Existing
    BY <2>1 DEF Flush
  <2> QED BY <1>3, <2>2
<1>5. ASSUME NEW t \in Terminals, Exec(t) PROVE \A f \in Existing' : f[1] \in folders'
  <2>1. CASE files' = files
    BY <1>2, <2>1
  <2>2. CASE /\ CanOpen(job[t].script, job[t].seed)
             /\ OpenLogs(job[t].script, job[t].seed)
    <3> DEFINE logs == Logs(job[t].script, job[t].seed)
    <3>1. \A f \in logs : f[1] \in folders
      BY <2>2 DEF CanOpen
    <3>2. \E new : Put(new) /\ DOMAIN new = logs
      BY <2>2 DEF OpenLogs
    <3> HIDE DEF logs
    <3> QED BY <1>3, <3>1, <3>2
  <2> QED BY <1>5, <2>1, <2>2 DEF Exec
<1>6. ASSUME NEW t \in Terminals,
             Start(t) \/ Create(t) \/ CreateFails(t) \/ Chown(t) \/ EndScript(t)
      PROVE  files' = files
  BY <1>6 DEF Start, Create, CreateFails, Chown, EndScript
<1>7. ASSUME NEW t \in Terminals, NEW script, NEW seed, RunScript(t, script, seed)
      PROVE  files' = files
  BY <1>7 DEF RunScript
<1>8. ASSUME NEW to, Down(to) PROVE files' = files
  BY <1>8 DEF Down
<1>9. \A f \in Existing' : f[1] \in folders'
  BY <1>2, <1>4, <1>5, <1>6, <1>7, <1>8 DEF Simulate, DockerNext
<1> QED BY <1>1, <1>9

\* The steps of an execution that goes on keep its arguments.
LEMMA ArgsKept ==
  ASSUME VisInv, VisNext
  PROVE  /\ \/ vis' = NoExecution
            \/ vis.step \notin {"idle", "nofolder"} /\ vis'.args = vis.args
         /\ folders' = folders /\ collected' = collected /\ UNCHANGED runs
<1>0. folders' = folders /\ collected' = collected /\ UNCHANGED runs
  BY DEF VisNext, MakeTable, SenderStep, Plot, QueueStep, DropsOfSeed, DropsRenamed, Rates, Over,
         KilledBetween, KilledMakingSender, KilledMakingTable
<1> DEFINE Goal == \/ vis' = NoExecution
                   \/ vis.step \notin {"idle", "nofolder"} /\ vis'.args = vis.args
<1>1. ASSUME NEW result, Stop(result) PROVE vis'.args = vis.args
  BY <1>1, VisFields DEF Stop
<1>2. CASE MakeTable
  <2>1. ASSUME NEW table, WithTable(table) PROVE vis'.args = vis.args
    BY <2>1, VisFields DEF WithTable
  <2> QED BY <1>1, <1>2, <2>1 DEF MakeTable, GenerateSendersCsv
<1>3. CASE SenderStep
  BY <1>1, <1>3, VisFields DEF SenderStep
<1>4. CASE Plot
  <2>1. ASSUME NEW plots, NEW at, NEW step,
               vis' = [vis EXCEPT !.plots = plots, !.at = at, !.step = step]
        PROVE  vis'.args = vis.args
    BY <2>1, VisFields
  <2> QED BY <1>1, <1>4, <2>1 DEF Plot
<1>5. CASE QueueStep
  BY <1>1, <1>5, VisFields DEF QueueStep, Renamed
<1>6. CASE DropsOfSeed \/ DropsRenamed
  <2>1. ASSUME NEW drops, NEW step, vis' = [vis EXCEPT !.drops = drops, !.step = step]
        PROVE  vis'.args = vis.args
    BY <2>1, VisFields
  <2> QED BY <1>1, <1>6, <2>1 DEF DropsOfSeed, DropsRenamed, Renamed
<1>7. CASE Rates
  BY <1>1, <1>7 DEF Rates
<1>8. CASE Over \/ KilledBetween
  BY <1>8 DEF Over, KilledBetween, Killed
<1>9. ASSUME NEW k, KilledMakingSender \/ KilledMakingTable(k) PROVE vis' = NoExecution
  BY <1>9 DEF KilledMakingSender, KilledMakingTable, Killed
<1>10. vis.step \notin {"idle", "nofolder"} \/ vis' = NoExecution
  BY DEF VisNext, MakeTable, SenderStep, Plot, QueueStep, DropsOfSeed, DropsRenamed, Rates, Over,
         KilledBetween, KilledMakingSender, KilledMakingTable, Killed
<1>11. Goal
  BY <1>10, <1>2, <1>3, <1>4, <1>5, <1>6, <1>7, <1>8, <1>9 DEF VisNext
<1> QED BY <1>0, <1>11

\* Every file stays in a folder that exists, and an execution in its own.
LEMMA FoldersStep ==
  SimulationInv /\ VisInv /\ FoldersInv /\ [Next]_vars => FoldersInv'
<1> SUFFICES ASSUME SimulationInv, VisInv, FoldersInv, [Next]_vars PROVE FoldersInv'
  OBVIOUS
<1>0. \A a : FolderOf(a)' = FolderOf(a)
  OBVIOUS
<1>1. CASE Simulate
  <2>1. UNCHANGED <<vis, collected>>
    BY <1>1 DEF Simulate
  <2> QED BY <1>0, <1>1, <2>1, SimulateFolders DEF FoldersInv
<1>2. CASE MakeFolder \/ Evaluate \/ UNCHANGED vars
  <2>1. UNCHANGED <<vis, collected, files>> /\ folders \subseteq folders'
    BY <1>2 DEF MakeFolder, Evaluate, vars
  <2> QED BY <1>0, <2>1 DEF FoldersInv, Existing
<1>3. CASE Visualise
  <2>1. ASSUME NEW b, Begin(b) PROVE FoldersInv'
    BY <1>0, <2>1, BeginParts DEF FoldersInv, Existing
  <2>2. ASSUME NEW b \in campaign.requests, Collect(b) PROVE FoldersInv'
    <3>1. /\ UNCHANGED <<vis, folders>> /\ FolderOf(b) \in folders
          /\ collected' \subseteq collected \cup {<<FolderOf(b), b.seed>>}
      BY <2>2 DEF Collect
    <3>2. \E new : Put(new) /\ DOMAIN new = CollectedLogs(b)
      BY <2>2 DEF Collect
    <3>3. Existing' = Existing \cup CollectedLogs(b)
      BY <3>2, PutMore
    <3>4. b.seed \in Seeds
      BY RequestSeeds
    <3> QED BY <1>0, <3>1, <3>3, <3>4, CollectedNames DEF FoldersInv
  <2>3. CASE VisNext
    <3>1. /\ \/ vis' = NoExecution
             \/ vis.step \notin {"idle", "nofolder"} /\ vis'.args = vis.args
          /\ folders' = folders /\ collected' = collected
      BY <2>3, ArgsKept
    <3>2. ASSUME NEW f \in Existing' PROVE f[1] \in folders
      <4>1. CASE files' = files
        BY <4>1 DEF FoldersInv, Existing
      <4>2. ASSUME vis.step \in {"tables", "senders"},
                   NEW new, Put(new), \A g \in DOMAIN new : MadeOf(g, new[g])
            PROVE  f[1] \in folders
        <5>1. Existing' = Existing \cup DOMAIN new
          BY <4>2, PutMore
        <5> QED BY <4>2, <5>1 DEF FoldersInv, MadeOf
      <4>3. ASSUME vis.step \in {"queue", "drops"}, NEW log \in Existing, NEW fixed,
                   Move(log, fixed, files[log]), fixed[1] = log[1]
            PROVE  f[1] \in folders
        <5>1. Existing' = (Existing \ {log}) \cup {fixed}
          BY <4>3 DEF Move, Existing
        <5> QED BY <4>3, <5>1 DEF FoldersInv
      <4>4. CASE \E b : Collect(b)
        <5>1. PICK b : Collect(b)
          BY <4>4
        <5>2. /\ FolderOf(b) \in folders /\ \E new : Put(new) /\ DOMAIN new = CollectedLogs(b)
          BY <5>1 DEF Collect
        <5>3. Existing' = Existing \cup CollectedLogs(b)
          BY <5>2, PutMore
        <5> QED BY <5>2, <5>3, CollectedNames DEF FoldersInv
      <4> QED BY <1>3, <4>1, <4>2, <4>3, <4>4, VisualiseWrites
    <3> QED BY <1>0, <3>1, <3>2, NoExecutionParts DEF FoldersInv
  <2> QED BY <1>3, <2>1, <2>2, <2>3 DEF Visualise
<1> QED BY <1>1, <1>2, <1>3 DEF Next

-----------------------------------------------------------------------------
(* What a step of an execution does to it.                                 *)

\* The table made of all logs of the list.
ListRepaired(list) == \A i \in 1 .. Len(list) : Repairable(list[i])

TablesOf(list) ==
  Table(UNION {files[list[i]].by : i \in 1 .. Len(list)},
        FlattenSeq([i \in 1 .. Len(list) |-> Repaired(list[i]).records]))

Unchanged ==
  /\ vis.step \notin {"idle", "nofolder"} /\ vis'.args = vis.args

Ended ==
  /\ Unchanged
  /\ vis'.step \in {"missing", "unreadable", "untyped", "nofraction", "done"}
  /\ vis'.step = "done" => vis.step = "rates"
  /\ vis'.at = vis.at /\ vis'.table = vis.table /\ vis'.plots = vis.plots
  /\ vis'.queue = vis.queue /\ vis'.drops = vis.drops

Tabled(table) ==
  /\ Unchanged /\ vis.step = "tables"
  /\ vis'.step = IF vis.args.tool = "visualise" THEN "senders" ELSE "plot"
  /\ vis'.at = vis.at /\ vis'.table = table /\ vis'.plots = vis.plots
  /\ vis'.queue = vis.queue /\ vis'.drops = vis.drops

Found == LET final == Final(List[vis.at]) IN final \in Existing /\ Tabled(files[final])

Generated == ~Cached(Final(List[vis.at])) /\ ListRepaired(List) /\ Tabled(TablesOf(List))

SenderDone ==
  /\ Unchanged /\ vis.step = "senders"
  /\ \/ vis'.step = "plot" /\ vis'.at = 1
     \/ vis'.step = "senders" /\ vis'.at = vis.at + 1 /\ vis.at <= Len(SenderList(vis.args))
  /\ vis'.table = vis.table /\ vis'.plots = vis.plots
  /\ vis'.queue = vis.queue /\ vis'.drops = vis.drops

Plotted ==
  /\ Unchanged /\ vis.step = "plot" /\ Plottable(vis.table)
  /\ vis'.plots = Append(vis.plots, Shown(vis.table)) /\ vis'.at = vis.at + 1
  /\ vis'.step = IF vis.at < Len(List) THEN "tables" ELSE "queue"
  /\ vis'.table = vis.table /\ vis'.queue = vis.queue /\ vis'.drops = vis.drops

QueueRead ==
  /\ Unchanged /\ vis.step = "queue" /\ vis'.step = "drops"
  /\ \E f \in Existing' : vis'.queue = files'[f]
  /\ vis'.at = vis.at /\ vis'.table = vis.table /\ vis'.plots = vis.plots
  /\ vis'.drops = vis.drops

DropsRead ==
  /\ Unchanged /\ vis.step = "drops"
  /\ vis'.step \in IF vis.args.tool = "visualise" THEN {"rates"} ELSE {"nofraction", "done"}
  /\ \E f \in Existing' : vis'.drops = files'[f]
  /\ vis'.at = vis.at /\ vis'.table = vis.table /\ vis'.plots = vis.plots
  /\ vis'.queue = vis.queue

\* An execution that stops keeps what it has read and plotted.
LEMMA Stopped ==
  ASSUME VisInv, vis.step \notin {"idle", "nofolder"},
         NEW result \in {"missing", "unreadable", "untyped", "nofraction", "done"},
         result = "done" => vis.step = "rates", Stop(result)
  PROVE  Ended
  BY VisFields DEF Stop, Ended, Unchanged

\* MakeTable fails, finds the tables stored before, or makes them of its logs.
LEMMA TableMoves ==
  ASSUME VisInv, MakeTable
  PROVE  Ended \/ Found \/ Generated
<1> DEFINE final == Final(List[vis.at])
<1>0. vis.step = "tables"
  BY DEF MakeTable
<1>1. ASSUME NEW table, WithTable(table) PROVE Tabled(table)
  BY <1>0, <1>1, VisFields DEF WithTable, Tabled, Unchanged
<1>2. CASE Cached(final)
  <2>1. Stop("unreadable") \/ WithTable(files[final])
    BY <1>2 DEF MakeTable
  <2> HIDE DEF final
  <2>2. ASSUME WithTable(files[final]) PROVE Tabled(files[final])
    BY <1>1, <2>2
  <2> QED BY <1>0, <1>2, <2>1, <2>2, Stopped DEF Cached, Found, final
<1>3. CASE ~Cached(final)
  <2> DEFINE k == RepairedBefore(List)
  <2>1. GenerateSendersCsv(List)
    BY <1>3 DEF MakeTable
  <2>2. CASE k < Len(List)
    <3>1. Stop(Defect(List[k + 1]))
      BY <2>1, <2>2 DEF GenerateSendersCsv
    <3>2. Defect(List[k + 1]) \in {"missing", "unreadable"}
      BY DEF Defect
    <3> QED BY <1>0, <3>1, <3>2, Stopped
  <2>3. CASE ~(k < Len(List))
    <3>1. k = Len(List)
      BY <2>3, RepairedInList, FileLists DEF List
    <3>2. ListRepaired(List)
      BY <3>1, RepairedSound DEF ListRepaired, List
    <3>3. WithTable(TablesOf(List))
      BY <2>1, <2>3 DEF GenerateSendersCsv, TablesOf
    <3> QED BY <1>1, <1>3, <3>2, <3>3 DEF Generated
  <2> QED BY <2>2, <2>3
<1> QED BY <1>2, <1>3

\* The queue and drop logs are read only under their new names.
LEMMA RenamedRead ==
  ASSUME NEW log, NEW fixed, NEW next, Renamed(log, fixed, next)
  PROVE  Stop("missing") \/ (fixed \in Existing' /\ next)
<1>1. CASE fixed \in Existing
  BY <1>1 DEF Renamed, Existing
<1>2. CASE fixed \notin Existing /\ log \in Existing
  <2>1. Move(log, fixed, files[log]) /\ next
    BY <1>2 DEF Renamed
  <2> QED BY <2>1 DEF Move, Existing
<1> QED BY <1>1, <1>2 DEF Renamed

\* A step of visualise.py is one of nine: nothing else happens to an execution.
LEMMA VisMoves ==
  ASSUME VisInv, SimulationInv, VisSeeds, Visualise
  PROVE  \/ vis' = vis \/ vis' = NoExecution
         \/ \E b \in campaign.requests : Begin(b)
         \/ Ended \/ Found \/ Generated \/ SenderDone \/ Plotted \/ QueueRead \/ DropsRead
<1>1. CASE MakeTable
  BY <1>1, TableMoves
<1>2. CASE SenderStep
  <2>0. vis.step = "senders"
    BY <1>2 DEF SenderStep
  <2>1. ASSUME NEW result \in {"missing", "unreadable"}, Stop(result) PROVE Ended
    BY <2>0, <2>1, Stopped
  <2>2. CASE vis' = [vis EXCEPT !.step = "plot", !.at = 1]
    BY <2>0, <2>2, VisFields DEF SenderDone, Unchanged
  <2>3. CASE vis.at <= Len(SenderList(vis.args)) /\ vis' = [vis EXCEPT !.at = @ + 1]
    BY <2>0, <2>3, VisFields DEF SenderDone, Unchanged
  <2> QED BY <1>2, <2>1, <2>2, <2>3 DEF SenderStep, Defect
<1>3. CASE Plot
  <2>0. vis.step = "plot"
    BY <1>3 DEF Plot
  <2>1. CASE ~Plottable(vis.table)
    BY <1>3, <2>0, <2>1, Stopped DEF Plot
  <2>2. CASE Plottable(vis.table)
    <3>1. PICK plots, at, step :
            /\ vis' = [vis EXCEPT !.plots = plots, !.at = at, !.step = step]
            /\ plots = Append(vis.plots, Shown(vis.table)) /\ at = vis.at + 1
            /\ step = IF vis.at < Len(List) THEN "tables" ELSE "queue"
      BY <1>3, <2>2, VisFields DEF Plot
    <3>2. /\ vis'.plots = plots /\ vis'.at = at /\ vis'.step = step /\ vis'.args = vis.args
          /\ vis'.table = vis.table /\ vis'.queue = vis.queue /\ vis'.drops = vis.drops
      BY <3>1, VisFields
    <3> QED BY <2>0, <2>2, <3>1, <3>2 DEF Plotted, Unchanged
  <2> QED BY <2>1, <2>2
<1>4. CASE QueueStep
  <2> DEFINE queue == Here("queue", Queues)
             log == TestLog(vis.args, Queues)
  <2>0. vis.step = "queue"
    BY <1>4 DEF QueueStep
  <2>1. \/ Stop("missing")
        \/ queue \in Existing' /\ vis' = [vis EXCEPT !.queue = files'[queue], !.step = "drops"]
    <3>1. Renamed(log, queue, vis' = [vis EXCEPT !.queue = files'[queue], !.step = "drops"])
      BY <1>4 DEF QueueStep
    <3> HIDE DEF queue, log
    <3> QED BY <3>1, RenamedRead DEF Renamed, Move, Existing
  <2> HIDE DEF queue
  <2>2. ASSUME queue \in Existing', vis' = [vis EXCEPT !.queue = files'[queue], !.step = "drops"]
        PROVE  QueueRead
    BY <2>0, <2>2, VisFields DEF QueueRead, Unchanged
  <2> QED BY <2>0, <2>1, <2>2, Stopped
<1>5. CASE DropsOfSeed
  <2> DEFINE log == TestLog(vis.args, Drops)
  <2>0. vis.step = "drops" /\ vis.args.tool = "visualise" /\ files' = files
    BY <1>5 DEF DropsOfSeed
  <2>1. \/ Stop("missing")
        \/ log \in Existing /\ vis' = [vis EXCEPT !.drops = files[log], !.step = "rates"]
    BY <1>5 DEF DropsOfSeed
  <2> HIDE DEF log
  <2>2. ASSUME log \in Existing, vis' = [vis EXCEPT !.drops = files[log], !.step = "rates"]
        PROVE  DropsRead
    BY <2>0, <2>2, VisFields DEF DropsRead, Unchanged, Existing
  <2> QED BY <2>0, <2>1, <2>2, Stopped
<1>6. CASE DropsRenamed
  <2> DEFINE drops == Here("drops", Drops)
             log == TestLog(vis.args, Drops)
             step == Fraction(files'[drops])
  <2>0. vis.step = "drops" /\ vis.args.tool = "switches"
    BY <1>6 DEF DropsRenamed
  <2>1. \/ Stop("missing")
        \/ drops \in Existing' /\ vis' = [vis EXCEPT !.drops = files'[drops], !.step = step]
    <3>1. Renamed(log, drops, vis' = [vis EXCEPT !.drops = files'[drops], !.step = step])
      BY <1>6 DEF DropsRenamed
    <3> HIDE DEF drops, log, step
    <3> QED BY <3>1, RenamedRead DEF Renamed, Move, Existing
  <2>3. step \in {"nofraction", "done"}
    BY DEF Fraction
  <2> HIDE DEF drops, step
  <2>2. ASSUME drops \in Existing', vis' = [vis EXCEPT !.drops = files'[drops], !.step = step]
        PROVE  DropsRead
    BY <2>0, <2>2, <2>3, VisFields DEF DropsRead, Unchanged
  <2> QED BY <2>0, <2>1, <2>2, Stopped
<1>7. CASE Rates
  BY <1>7, Stopped DEF Rates, Fraction
<1>8. CASE Over \/ KilledBetween
  BY <1>8 DEF Over, KilledBetween, Killed
<1>9. ASSUME NEW k, KilledMakingSender \/ KilledMakingTable(k) PROVE vis' = NoExecution
  BY <1>9 DEF KilledMakingSender, KilledMakingTable, Killed
<1>10. ASSUME NEW b, Collect(b) PROVE vis' = vis
  BY <1>10 DEF Collect
<1> QED BY <1>1, <1>2, <1>3, <1>4, <1>5, <1>6, <1>7, <1>8, <1>9, <1>10 DEF Visualise, VisNext

-----------------------------------------------------------------------------
(* Types: the evaluation and the execution.                                *)

\* The evaluation has its shape.
EvalShape(e) ==
  e = [step |-> e.step, test |-> e.test, big |-> e.big, seed |-> e.seed,
       packets |-> e.packets, queue |-> e.queue, drops |-> e.drops, receivers |-> e.receivers]

EvalTyped ==
  /\ EvalShape(eval)
  /\ eval.step \in {"idle", "packets", "queue", "drops", "receivers", "done", "error"}
  /\ eval.test \in BOOLEAN /\ eval.big \in BOOLEAN
  /\ eval.packets.by \subseteq RunIds /\ eval.receivers.by \subseteq RunIds
  /\ eval.queue \subseteq RunIds /\ eval.drops \subseteq RunIds

LEMMA NoEvaluationParts ==
  /\ EvalShape(NoEvaluation) /\ NoEvaluation.step = "idle"
  /\ NoEvaluation.test = TRUE /\ NoEvaluation.big = FALSE
  /\ NoEvaluation.packets.by = {} /\ NoEvaluation.receivers.by = {}
  /\ NoEvaluation.queue = {} /\ NoEvaluation.drops = {}
<1>1. Nothing.by = {}
  BY ContentParts DEF Nothing
<1> QED BY <1>1 DEF NoEvaluation, EvalShape

LEMMA EvalTypedInit == Init => EvalTyped
  BY NoEvaluationParts DEF Init, EvalInit, EvalTyped

LEMMA EvalFields ==
  ASSUME EvalTyped
  PROVE  DOMAIN eval = {"step", "test", "big", "seed", "packets", "queue", "drops", "receivers"}
  BY DEF EvalTyped, EvalShape

\* What a step of the evaluation does to it: it starts, fails or ends, with nothing
\* read, or reads the next of the logs.
EvalEmpty(e) ==
  /\ EvalShape(e) /\ e.step \in {"idle", "packets", "error"}
  /\ e.test \in BOOLEAN /\ e.big \in BOOLEAN
  /\ e.packets.by = {} /\ e.receivers.by = {} /\ e.queue = {} /\ e.drops = {}
  /\ e.step = "packets" => e.seed \in Seeds

EvalKeeps ==
  /\ EvalShape(eval')
  /\ eval'.test = eval.test /\ eval'.big = eval.big /\ eval'.seed = eval.seed

\* The log has a line for the header.
Headed(f) == f \in Existing /\ files[f].records # <<>>

PacketsRead ==
  LET log == EvalLog(eval.test, eval.big, eval.seed)
  IN  /\ EvalKeeps /\ eval.step = "packets" /\ eval'.step = "queue" /\ Headed(log)
      /\ eval'.packets = WithHeader(files[log]) /\ eval'.receivers = eval.receivers
      /\ eval'.queue = eval.queue /\ eval'.drops = eval.drops

SideRead ==
  /\ EvalKeeps
  /\ \/ /\ eval.step = "queue" /\ eval'.step = "drops" /\ EvalQueue \in Existing
        /\ eval'.queue = files[EvalQueue].by /\ eval'.drops = eval.drops
     \/ /\ eval.step = "drops" /\ eval'.step = IF eval.big THEN "receivers" ELSE "done"
        /\ EvalDrops \in Existing
        /\ eval'.drops = files[EvalDrops].by /\ eval'.queue = eval.queue
  /\ eval'.packets = eval.packets /\ eval'.receivers = eval.receivers

ReceiversRead ==
  LET log == LargeLog(eval.seed)
  IN  /\ EvalKeeps /\ eval.step = "receivers" /\ eval'.step = "done" /\ Headed(log)
      /\ eval'.receivers = WithHeader(files[log]) /\ eval'.packets = eval.packets
      /\ eval'.queue = eval.queue /\ eval'.drops = eval.drops

LEMMA EvalMoves ==
  ASSUME SimulationInv, EvalTyped, Evaluate
  PROVE  EvalEmpty(eval') \/ PacketsRead \/ SideRead \/ ReceiversRead
<1>1. ASSUME NEW switch \in campaign.switches, NEW seed \in campaign.seeds,
             EvalStart(switch.test, switch.big, seed)
      PROVE  EvalEmpty(eval')
  <2>1. switch \in [test : BOOLEAN, big : BOOLEAN] /\ seed \in Seeds
    BY CampaignsAssumption DEF SimulationInv
  <2>2. switch.test \in BOOLEAN /\ switch.big \in BOOLEAN
    BY <2>1
  <2>3. eval' = [NoEvaluation EXCEPT !.step = "packets", !.test = switch.test,
                                     !.big = switch.big, !.seed = seed]
    BY <1>1 DEF EvalStart
  <2> QED BY <2>1, <2>2, <2>3, NoEvaluationParts DEF EvalEmpty, EvalShape
<1>2. CASE EvalEnd
  BY <1>2, NoEvaluationParts DEF EvalEnd, EvalEmpty
<1>3. ASSUME NEW missing, EvalFails(missing) PROVE EvalEmpty(eval')
  BY <1>3, NoEvaluationParts DEF EvalFails, EvalEmpty, EvalShape
<1>4. CASE EvalPackets
  <2> DEFINE log == EvalLog(eval.test, eval.big, eval.seed)
  <2>1. \/ \E missing : EvalFails(missing)
        \/ /\ Headed(log)
           /\ eval' = [eval EXCEPT !.packets = WithHeader(files[log]), !.step = "queue"]
    BY <1>4 DEF EvalPackets, ReadPackets, Headed
  <2>2. eval.step = "packets"
    BY <1>4 DEF EvalPackets
  <2>3. ASSUME Headed(log),
               eval' = [eval EXCEPT !.packets = WithHeader(files[log]), !.step = "queue"]
        PROVE  PacketsRead
    <3>1. PICK table : table = WithHeader(files[log])
      OBVIOUS
    <3>2. eval' = [eval EXCEPT !.packets = table, !.step = "queue"]
      BY <2>3, <3>1
    <3>3. /\ EvalKeeps /\ eval'.packets = table /\ eval'.step = "queue"
          /\ eval'.receivers = eval.receivers
          /\ eval'.queue = eval.queue /\ eval'.drops = eval.drops
      BY <3>2 DEF EvalKeeps, EvalTyped, EvalShape
    <3> QED BY <2>2, <2>3, <3>1, <3>3 DEF PacketsRead
  <2> QED BY <1>3, <2>1, <2>3
<1>5. CASE EvalQueues
  <2>1. \/ \E missing : EvalFails(missing)
        \/ /\ EvalQueue \in Existing
           /\ eval' = [eval EXCEPT !.queue = files[EvalQueue].by, !.step = "drops"]
    BY <1>5 DEF EvalQueues
  <2>2. eval.step = "queue"
    BY <1>5 DEF EvalQueues
  <2>3. ASSUME EvalQueue \in Existing, NEW by, by = files[EvalQueue].by,
               eval' = [eval EXCEPT !.queue = by, !.step = "drops"]
        PROVE  SideRead
    <3>1. /\ EvalKeeps /\ eval'.queue = by /\ eval'.step = "drops"
          /\ eval'.receivers = eval.receivers
          /\ eval'.packets = eval.packets /\ eval'.drops = eval.drops
      BY <2>3 DEF EvalKeeps, EvalTyped, EvalShape
    <3> QED BY <2>2, <2>3, <3>1 DEF SideRead
  <2> QED BY <1>3, <2>1, <2>3
<1>6. CASE EvalFraction
  <2>1. \/ \E missing : EvalFails(missing)
        \/ /\ EvalDrops \in Existing
           /\ eval' = [eval EXCEPT !.drops = files[EvalDrops].by,
                                   !.step = IF eval.big THEN "receivers" ELSE "done"]
    BY <1>6 DEF EvalFraction
  <2>2. eval.step = "drops"
    BY <1>6 DEF EvalFraction
  <2>3. ASSUME EvalDrops \in Existing, NEW by, by = files[EvalDrops].by, NEW step,
               step = (IF eval.big THEN "receivers" ELSE "done"),
               eval' = [eval EXCEPT !.drops = by, !.step = step]
        PROVE  SideRead
    <3>1. /\ EvalKeeps /\ eval'.drops = by /\ eval'.step = step
          /\ eval'.receivers = eval.receivers
          /\ eval'.packets = eval.packets /\ eval'.queue = eval.queue
      BY <2>3 DEF EvalKeeps, EvalTyped, EvalShape
    <3> QED BY <2>2, <2>3, <3>1 DEF SideRead
  <2> QED BY <1>3, <2>1, <2>3
<1>7. CASE EvalReceivers
  <2> DEFINE log == LargeLog(eval.seed)
  <2>1. \/ \E missing : EvalFails(missing)
        \/ /\ Headed(log)
           /\ eval' = [eval EXCEPT !.receivers = WithHeader(files[log]), !.step = "done"]
    BY <1>7 DEF EvalReceivers, ReadPackets, Headed
  <2>2. eval.step = "receivers"
    BY <1>7 DEF EvalReceivers
  <2>3. ASSUME Headed(log),
               eval' = [eval EXCEPT !.receivers = WithHeader(files[log]), !.step = "done"]
        PROVE  ReceiversRead
    <3>1. PICK table : table = WithHeader(files[log])
      OBVIOUS
    <3>2. eval' = [eval EXCEPT !.receivers = table, !.step = "done"]
      BY <2>3, <3>1
    <3>3. /\ EvalKeeps /\ eval'.receivers = table /\ eval'.step = "done"
          /\ eval'.packets = eval.packets
          /\ eval'.queue = eval.queue /\ eval'.drops = eval.drops
      BY <3>2 DEF EvalKeeps, EvalTyped, EvalShape
    <3> QED BY <2>2, <2>3, <3>1, <3>3 DEF ReceiversRead
  <2> QED BY <1>3, <2>1, <2>3
<1> QED BY <1>1, <1>2, <1>4, <1>5, <1>6, <1>7 DEF Evaluate, EvalNext

LEMMA HeaderParts ==
  ASSUME NEW x, IsContent(x)
  PROVE  WithHeader(x).by = x.by /\ WithHeader(x).records = Tail(x.records)
<1>1. PICK by, records, cut : x = [by |-> by, records |-> records, cut |-> cut]
  BY DEF IsContent, Content
<1> QED BY <1>1 DEF WithHeader

\* A run, once started, stays what it was.
LEMMA RunsStay ==
  ASSUME SimulationInv, [Next]_vars
  PROVE  RunIds \subseteq RunIds' /\ \A r \in RunIds : runs'[r] = runs[r]
<1>1. CASE UNCHANGED runs
  BY <1>1 DEF RunIds
<1>2. CASE \E script \in AllScripts, seed \in AnySeed : OpenLogs(script, seed)
  <2>1. PICK script \in AllScripts, seed \in AnySeed : OpenLogs(script, seed)
    BY <1>2
  <2>2. runs \in Seq(RunRecords)
    BY DEF SimulationInv
  <2>3. /\ Len(runs) \in Nat /\ Len(runs') = Len(runs) + 1
        /\ \A r \in RunIds : runs'[r] = runs[r]
    BY <2>1, <2>2, AppendRun
  <2> QED BY <2>3 DEF RunIds
<1>3. CASE \E t \in Simulating : \E logs, n : Written(job[t].run, logs, n)
  BY <1>1, <1>3 DEF Written
<1> QED BY <1>1, <1>2, <1>3, DockerSteps, OthersLeaveRuns DEF Next

LEMMA EvalTypedStep ==
  SimulationInv /\ FilesOk /\ FileSeeds /\ EvalTyped /\ [Next]_vars => EvalTyped'
<1> SUFFICES ASSUME SimulationInv, FilesOk, FileSeeds, EvalTyped, [Next]_vars
             PROVE  EvalTyped'
  OBVIOUS
<1>0. RunIds \subseteq RunIds'
  BY RunsStay
<1>1. CASE UNCHANGED eval
  BY <1>0, <1>1 DEF EvalTyped
<1>2. \A f \in Existing : IsContent(files[f]) /\ files[f].by \subseteq RunIds
  BY DEF FilesOk, FileOk, IsTable, FileSeeds, Right
<1>3. \A f \in Existing : WithHeader(files[f]).by \subseteq RunIds
  BY <1>2, HeaderParts
<1>4. CASE EvalEmpty(eval')
  BY <1>4 DEF EvalEmpty, EvalTyped
<1>5. CASE PacketsRead
  BY <1>0, <1>3, <1>5 DEF PacketsRead, Headed, EvalKeeps, EvalTyped
<1>6. CASE SideRead
  BY <1>0, <1>2, <1>6 DEF SideRead, EvalKeeps, EvalTyped
<1>7. CASE ReceiversRead
  BY <1>0, <1>3, <1>7 DEF ReceiversRead, Headed, EvalKeeps, EvalTyped
<1>8. CASE Evaluate
  BY <1>4, <1>5, <1>6, <1>7, <1>8, EvalMoves
<1>9. CASE Simulate \/ MakeFolder \/ Visualise \/ UNCHANGED vars
  BY <1>1, <1>9 DEF Simulate, MakeFolder, Visualise, vars
<1> QED BY <1>8, <1>9 DEF Next

VisTyped ==
  /\ vis.step \in {"idle", "nofolder", "tables", "senders", "plot", "queue", "drops",
                  "rates", "missing", "unreadable", "untyped", "nofraction", "done"}
  /\ vis.args.tool \in {"visualise", "switches"}
  /\ vis.at \in 1 .. 8
  /\ vis.table.by \subseteq RunIds /\ vis.queue.by \subseteq RunIds
  /\ vis.drops.by \subseteq RunIds

LEMMA VisTypedInit == Init => VisTyped
  BY NoExecutionParts DEF Init, VisInit, VisTyped

\* There are at most six senders.
LEMMA SendersAtMost == \A a : Len(SenderList(a)) \in 0 .. 6
<1> SUFFICES ASSUME NEW a PROVE Len(SenderList(a)) \in 0 .. 6
  OBVIOUS
<1>1. CASE a.tool = "visualise" /\ a.n \in {1, 3, 6}
  <2>1. SenderList(a) = [i \in 1 .. a.n |-> TestLog(a, Sender(3 + i))]
    BY <1>1 DEF SenderList
  <2>2. Len(SenderList(a)) = a.n
    BY <1>1, <2>1
  <2> QED BY <1>1, <2>2
<1>2. CASE ~(a.tool = "visualise" /\ a.n \in {1, 3, 6})
  <2>1. SenderList(a) = <<>>
    BY <1>2 DEF SenderList
  <2> QED BY <2>1
<1> QED BY <1>1, <1>2

LEMMA VisTypedStep ==
  /\ SimulationInv /\ VisInv /\ VisSeeds /\ FileSeeds /\ FileSeeds' /\ VisTyped /\ [Next]_vars
  => VisTyped'
<1> SUFFICES ASSUME SimulationInv, VisInv, VisSeeds, FileSeeds, FileSeeds', VisTyped, [Next]_vars
             PROVE  VisTyped'
  OBVIOUS
<1>0. RunIds \subseteq RunIds'
  BY RunsStay
<1>1. CASE vis' = vis
  BY <1>0, <1>1 DEF VisTyped
<1>2. CASE vis' = NoExecution
  BY <1>2, NoExecutionParts DEF VisTyped
<1>3. ASSUME NEW b \in campaign.requests, Begin(b) PROVE VisTyped'
  BY <1>3, BeginParts, NoExecutionParts, RequestSeeds DEF VisTyped
<1>4. /\ \A f \in Existing : files[f].by \subseteq RunIds
      /\ \A f \in Existing' : files'[f].by \subseteq RunIds'
  BY DEF FileSeeds, Right
<1>5. CASE Ended
  BY <1>0, <1>5 DEF Ended, Unchanged, VisTyped
<1>6. ASSUME NEW table, Tabled(table), table.by \subseteq RunIds PROVE VisTyped'
  BY <1>0, <1>6 DEF Tabled, Unchanged, VisTyped
<1>7. CASE Found
  BY <1>4, <1>6, <1>7 DEF Found
<1>8. CASE Generated
  <2>1. TablesOf(List).by = UNION {files[List[i]].by : i \in 1 .. Len(List)}
    BY ContentParts DEF TablesOf, Table
  <2>2. \A i \in 1 .. Len(List) : List[i] \in Existing
    BY <1>8 DEF Generated, ListRepaired, Repairable
  <2> QED BY <1>4, <1>6, <1>8, <2>1, <2>2 DEF Generated
<1>9. CASE SenderDone
  <2>1. PICK n, at : n \in 0 .. 6 /\ n = Len(SenderList(vis.args)) /\ at = vis'.at
    BY SendersAtMost
  <2>2. at = 1 \/ (at = vis.at + 1 /\ vis.at <= n)
    BY <1>9, <2>1 DEF SenderDone
  <2>3. PICK before : before = vis.at /\ before \in 1 .. 8
    BY DEF VisTyped
  <2>4. n \in 0 .. 6 /\ (at = 1 \/ (at = before + 1 /\ before <= n))
    BY <2>1, <2>2, <2>3
  <2>5. at \in 1 .. 8
    BY <2>3, <2>4
  <2> QED BY <1>0, <1>9, <2>1, <2>5 DEF SenderDone, Unchanged, VisTyped
<1>10. CASE Plotted
  <2>1. vis.at \in 1 .. Len(List) /\ Len(List) \in 1 .. 7
    BY <1>10, FileLists DEF Plotted, VisSeeds, List
  <2>2. PICK n, at, next : n = Len(List) /\ at = vis.at /\ next = vis'.at
    OBVIOUS
  <2>3. next = at + 1
    BY <1>10, <2>2 DEF Plotted
  <2>4. next \in 1 .. 8
    BY <2>1, <2>2, <2>3
  <2> QED BY <1>0, <1>10, <2>2, <2>4 DEF Plotted, Unchanged, VisTyped
<1>11. CASE QueueRead
  BY <1>0, <1>4, <1>11 DEF QueueRead, Unchanged, VisTyped
<1>12. CASE DropsRead
  BY <1>0, <1>4, <1>12 DEF DropsRead, Unchanged, VisTyped
<1>13. CASE Visualise
  BY <1>1, <1>2, <1>3, <1>5, <1>7, <1>8, <1>9, <1>10, <1>11, <1>12, <1>13, VisMoves
<1>14. CASE Simulate \/ MakeFolder \/ Evaluate \/ UNCHANGED vars
  BY <1>1, <1>14 DEF Simulate, MakeFolder, Evaluate, vars
<1> QED BY <1>13, <1>14 DEF Next

LEMMA FilesOkInit == Init => FilesOk
  BY DEF Init, FilesInit, FilesOk, Existing

\* What the state of all parts together can be.
Typed ==
  /\ SimulationInv /\ VisInv /\ FileSeeds /\ VisSeeds
  /\ RunsTyped /\ FoldersInv /\ FilesOk /\ EvalTyped /\ VisTyped

LEMMA TypedInit == Init => Typed
  BY SimulationInit, VisInvInit, FileSeedsInit, VisSeedsInit, RunsTypedInit,
     FoldersInit, FilesOkInit, EvalTypedInit, VisTypedInit DEF Typed

LEMMA TypedStep == Typed /\ [Next]_vars => Typed'
<1> SUFFICES ASSUME Typed, [Next]_vars PROVE Typed'
  OBVIOUS
<1>1. SimulationInv' /\ VisInv' /\ FileSeeds'
  BY SimulationStep, VisInvStep, FileSeedsStep DEF Typed
<1>2. VisSeeds' /\ VisTyped'
  BY <1>1, VisSeedsStep, VisTypedStep DEF Typed
<1>3. EvalTyped'
  BY EvalTypedStep DEF Typed
<1>4. RunsTyped' /\ FoldersInv' /\ FilesOk'
  BY RunsTypedStep, FoldersStep, FilesOkStep DEF Typed
<1> QED BY <1>1, <1>2, <1>3, <1>4 DEF Typed

\* Every variable stays within its type: files in folders there are, written by
\* runs there were, with records numbered up to the length of a log; scripts,
\* evaluation and execution at steps of theirs.
THEOREM TypeCorrect == Spec => []TypeOK
<1>1. Typed => TypeOK
  <2> SUFFICES ASSUME Typed PROVE TypeOK
    OBVIOUS
  <2>1. FilesType
    <3>1. ASSUME NEW f \in Existing
          PROVE  /\ f[1] \in folders /\ files[f].by \subseteq RunIds
                 /\ \A i \in 1 .. Len(files[f].records) : files[f].records[i].no \in 1 .. Records
                 /\ files[f].cut \in BOOLEAN
      <4>1. IsTable(files[f], f[3])
        BY DEF Typed, FilesOk, FileOk
      <4>2. f[1] \in folders /\ files[f].by \subseteq RunIds
        BY DEF Typed, FoldersInv, FileSeeds, Right
      <4>3. files[f].records \in Seq(LogRecords(f[3])) /\ files[f].cut \in BOOLEAN
        BY <4>1 DEF IsTable
      <4>4. \A r \in LogRecords(f[3]) : r.no \in 1 .. Records
        BY DEF LogRecords
      <4>5. \A i \in 1 .. Len(files[f].records) : files[f].records[i] \in LogRecords(f[3])
        BY <4>3
      <4> QED BY <4>2, <4>3, <4>4, <4>5
    <3>2. ASSUME NEW r \in RunIds
          PROVE  /\ runs[r].script \in AllScripts /\ runs[r].seed \in Seeds
                 /\ runs[r].random \in Seeds \cup {1}
      <4>1. runs \in Seq(RunRecords)
        BY DEF Typed, SimulationInv
      <4>2. runs[r] \in RunRecords
        BY <4>1 DEF RunIds
      <4> QED BY <4>2 DEF RunRecords, Typed, RunsTyped
    <3> QED BY <3>1, <3>2 DEF FilesType
  <2>2. EvalType
    BY DEF Typed, EvalTyped, EvalType
  <2>3. VisType
    BY DEF Typed, VisTyped, FoldersInv, VisType
  <2> QED BY <2>1, <2>2, <2>3 DEF Typed, RunsTyped, SimulationInv, TypeOK
<1> QED BY <1>1, TypedInit, TypedStep, PTL DEF Spec

-----------------------------------------------------------------------------
(* What eval.py reads of the large topology.                               *)

\* Such a log is of simulations of that topology, and holds their first packets.
Holds(x, n) == n \in 0 .. Records /\ x.records = FirstRecords(Packets, n)

LargeOk ==
  \A seed : LET f == LargeLog(seed)
            IN  f \in Existing =>
                  /\ files[f].by # {} /\ \A r \in files[f].by : r \in RunIds /\ IsLarge(r)
                  /\ \E n : Holds(files[f], n)

\* What a step does to it: nothing, a new simulation empties it, or one of its own
\* writes to it, more than was there if it writes alone.
LargeSame(f) == f \in DOMAIN files' /\ f \in Existing /\ files'[f] = files[f]

LargeOpened(f) ==
  LET r == Len(runs) + 1
  IN  /\ f \in DOMAIN files' /\ files'[f].by = {r} /\ files'[f].records = <<>>
      /\ r \in RunIds' /\ runs'[r].script = run_topo

LargeWritten(f) ==
  /\ f \in DOMAIN files' /\ f \in Existing
  /\ \E r \in RunIds : \E n :
       /\ IsLarge(r) /\ files'[f].by = files[f].by \cup {r}
       /\ Holds(files'[f], n)
       /\ files[f].by = {r} => \A k : Holds(files[f], k) => k <= n

LEMMA LargePart == \A seed : LargeLog(seed)[3] = Packets /\ InResults(LargeLog(seed))
<1>1. \A seed : LargeLog(seed) = File(Plain("results"), "large_test_disturbance", Packets, seed)
  BY DEF LargeLog
<1> QED BY <1>1, FinalNames, PlainParts DEF InResults

LEMMA LargeOpens ==
  ASSUME SimulationInv, NEW script \in AllScripts, NEW seed \in AnySeed, OpenLogs(script, seed),
         NEW asked
  PROVE  LET f == LargeLog(asked)
         IN  f \in DOMAIN files' => LargeSame(f) \/ LargeOpened(f)
<1> DEFINE f == LargeLog(asked)
           r == Len(runs) + 1
           logs == Logs(script, seed)
           entry == Content({r}, <<>>, FALSE)
           new == [g \in logs |-> entry]
<1>1. Put(new) /\ DOMAIN new = logs
  BY DEF OpenLogs
<1>2. entry.by = {r} /\ entry.records = <<>>
  <2>1. entry.by = {r}
    BY ContentParts
  <2>2. entry.records = <<>>
    BY DEF Content
  <2> QED BY <2>1, <2>2
<1>3. f \in logs => script = run_topo
  BY LogsOfLarge
<1>4. r \in RunIds' /\ runs'[r].script = script
  <2>1. /\ Len(runs) \in Nat /\ Len(runs') = r
        /\ runs'[r] = [script |-> script, seed |-> seed, random |-> RandomSeed(script, seed)]
    BY AppendRun DEF SimulationInv
  <2> HIDE DEF r
  <2> QED BY <2>1 DEF RunIds, r
<1> HIDE DEF f, r, logs, entry
<1>5. CASE f \in logs
  <2>1. f \in DOMAIN new /\ new[f] = entry
    BY <1>5
  <2> HIDE DEF new
  <2>2. f \in DOMAIN files' /\ files'[f] = entry
    BY <1>1, <2>1, PutValues
  <2> QED BY <1>2, <1>3, <1>4, <1>5, <2>2 DEF LargeOpened, r, f
<1>6. CASE f \notin logs
  <2> HIDE DEF new
  <2>1. f \in DOMAIN files' => f \in Existing /\ files'[f] = files[f]
    BY <1>1, <1>6, PutValues
  <2> QED BY <2>1 DEF LargeSame, f
<1> QED BY <1>5, <1>6

LEMMA LargeWrites ==
  ASSUME SimulationInv, NEW r, NEW logs, NEW n, Written(r, logs, n), NEW asked
  PROVE  LET f == LargeLog(asked)
         IN  f \in DOMAIN files' => LargeSame(f) \/ LargeWritten(f)
<1> DEFINE f == LargeLog(asked)
<1>1. /\ r \in RunIds /\ n \in 0 .. Records /\ logs \subseteq Logs(runs[r].script, runs[r].seed)
      /\ f \in logs => (Own(f, r) => LET k == Len(files[f].records)
                                      IN n = k + 1 \/ n > k \/ n = Records)
  BY DEF Written, LogsOf
<1>2. f[3] = Packets
  BY LargePart
<1>3. f \in logs => IsLarge(r)
  BY <1>1, RunScripts, LogsOfLarge DEF IsLarge
<1> HIDE DEF f
<1>4. CASE f \in logs
  <2> DEFINE x == Content(files[f].by \cup {r}, FirstRecords(Packets, n), FALSE)
  <2>1. f \in Existing /\ DOMAIN files' = Existing /\ files'[f] = x
    BY <1>2, <1>4, WrittenValues
  <2>2. x.by = files[f].by \cup {r}
    BY ContentParts
  <2>6. x.records = FirstRecords(Packets, n)
    BY DEF Content
  <2> HIDE DEF x
  <2>3. Holds(files'[f], n)
    BY <1>1, <2>1, <2>6 DEF Holds
  <2>4. ASSUME files[f].by = {r}, NEW k, Holds(files[f], k) PROVE k <= n
    <3>1. Own(f, r) /\ k \in 0 .. Records /\ Len(files[f].records) = k
      BY <2>4, FirstOk DEF Own, Holds
    <3>2. n = k + 1 \/ n > k \/ n = Records
      BY <1>1, <1>4, <3>1
    <3> QED BY <1>1, <3>1, <3>2, RecordsAssumption
  <2>5. LargeWritten(f)
    BY <1>1, <1>3, <1>4, <2>1, <2>2, <2>3, <2>4 DEF LargeWritten
  <2> QED BY <2>5 DEF f
<1>5. CASE f \notin logs
  <2>1. f \in DOMAIN files' => f \in Existing /\ files'[f] = files[f]
    BY <1>5, WrittenValues
  <2> QED BY <2>1 DEF LargeSame, f
<1> QED BY <1>4, <1>5

LEMMA LargeMoves ==
  ASSUME SimulationInv, VisInv, [Next]_vars, NEW asked
  PROVE  LET f == LargeLog(asked)
         IN  /\ f \in DOMAIN files' => LargeSame(f) \/ LargeOpened(f) \/ LargeWritten(f)
             /\ f \in Existing => f \in DOMAIN files'
<1> DEFINE f == LargeLog(asked)
           Goal == /\ f \in DOMAIN files' => LargeSame(f) \/ LargeOpened(f) \/ LargeWritten(f)
                   /\ f \in Existing => f \in DOMAIN files'
<1>1. ASSUME files' = files PROVE Goal
  BY <1>1 DEF LargeSame, Existing
<1>2. ASSUME NEW script \in AllScripts, NEW seed \in AnySeed, OpenLogs(script, seed) PROVE Goal
  <2>1. Existing \subseteq DOMAIN files'
    BY <1>2, PutMore DEF OpenLogs, Existing
  <2> QED BY <1>2, <2>1, LargeOpens
<1>3. ASSUME NEW r, NEW logs, NEW n, Written(r, logs, n) PROVE Goal
  <2>1. DOMAIN files' = Existing
    BY <1>3, WrittenValues
  <2> QED BY <1>3, <2>1, LargeWrites
<1>4. ASSUME Visualise PROVE Goal
  <2>1. Kept /\ InResults(f)
    BY <1>4, VisualiseKeeps, LargePart
  <2> HIDE DEF f
  <2> QED BY <2>1 DEF Kept, LargeSame, Existing
<1> HIDE DEF Goal
<1>5. ASSUME Simulate PROVE Goal
  BY <1>1, <1>2, <1>3, <1>5, DockerSteps
<1>6. ASSUME MakeFolder \/ Evaluate \/ UNCHANGED vars PROVE Goal
  BY <1>1, <1>6 DEF MakeFolder, Evaluate, vars
<1>7. Goal
  BY <1>4, <1>5, <1>6 DEF Next
<1> QED BY <1>7 DEF Goal

LEMMA LargeInit == Init => LargeOk
  BY DEF Init, FilesInit, LargeOk, Existing

LEMMA LargeStep == SimulationInv /\ VisInv /\ LargeOk /\ [Next]_vars => LargeOk'
<1> SUFFICES ASSUME SimulationInv, VisInv, LargeOk, [Next]_vars, NEW seed,
                    LargeLog(seed) \in DOMAIN files'
             PROVE  LET f == LargeLog(seed)
                    IN  /\ files'[f].by # {}
                        /\ \A r \in files'[f].by : r \in RunIds' /\ runs'[r].script = run_topo
                        /\ \E n : Holds(files'[f], n)
  BY DEF LargeOk, Existing, IsLarge, Holds
<1> DEFINE f == LargeLog(seed)
<1>1. LargeSame(f) \/ LargeOpened(f) \/ LargeWritten(f)
  BY LargeMoves
<1>2. RunIds \subseteq RunIds' /\ \A r \in RunIds : runs'[r] = runs[r]
  BY RunsStay
<1>3. f \in Existing => /\ files[f].by # {} /\ \E n : Holds(files[f], n)
                        /\ \A r \in files[f].by : r \in RunIds /\ runs[r].script = run_topo
  BY DEF LargeOk, IsLarge
<1> HIDE DEF f
<1>4. CASE LargeSame(f)
  BY <1>2, <1>3, <1>4 DEF LargeSame, f
<1>5. CASE LargeOpened(f)
  <2>1. 0 \in 0 .. Records /\ <<>> = FirstRecords(Packets, 0)
    BY RecordsAssumption DEF FirstRecords
  <2> QED BY <1>5, <2>1 DEF LargeOpened, Holds, f
<1>6. CASE LargeWritten(f)
  BY <1>2, <1>3, <1>6 DEF LargeWritten, IsLarge, f
<1> QED BY <1>1, <1>4, <1>5, <1>6

\* What eval.py has read of such a log, x, is of no later simulations than the log
\* that there is now, y, and, of the same one alone, no more than that.
NoOlder(x, y) ==
  /\ \A q \in x.by : \E r \in y.by : q <= r
  /\ \A r : x.by = {r} /\ y.by = {r} =>
       \E k \in 1 .. Records : \E n :
         k <= n /\ x.records = Tail(FirstRecords(Packets, k)) /\ Holds(y, n)

\* Between its two looks, eval.py has read no older simulation than it will find;
\* all that it reads is of the seed asked for, the second time of large ones.
EvalInv ==
  /\ eval.step \in {"packets", "queue", "drops", "receivers"} => eval.seed \in Seeds
  /\ \A r \in eval.packets.by \cup eval.receivers.by : r \in RunIds /\ runs[r].seed = eval.seed
  /\ \A r \in eval.receivers.by : IsLarge(r)
  /\ eval.test /\ eval.big =>
       /\ eval.step \in {"queue", "drops", "receivers"} =>
            /\ LargeLog(eval.seed) \in Existing
            /\ NoOlder(eval.packets, files[LargeLog(eval.seed)])
       /\ eval.step = "done" =>
            /\ \A q \in eval.packets.by : \E r \in eval.receivers.by : q <= r
            /\ \A r : eval.packets.by = {r} /\ eval.receivers.by = {r} =>
                 IsPrefix(eval.packets.records, eval.receivers.records)

LEMMA EvalInvInit == Init => EvalInv
  BY NoEvaluationParts DEF Init, EvalInit, EvalInv

\* The rows after the header grow with the rows.
LEMMA TailsPrefix ==
  ASSUME NEW k \in 1 .. Records, NEW n \in k .. Records
  PROVE  IsPrefix(Tail(FirstRecords(Packets, k)), Tail(FirstRecords(Packets, n)))
<1> DEFINE s == FirstRecords(Packets, k)
           t == FirstRecords(Packets, n)
           S == LogRecords(Packets)
<1>1. k \in Nat /\ n \in Nat /\ k \in 0 .. Records /\ n \in 0 .. Records /\ 1 <= k /\ k <= n
  BY RecordsAssumption
<1>2. s \in Seq(S) /\ Len(s) = k /\ t \in Seq(S) /\ Len(t) = n
  BY <1>1, FirstOk
<1>3. \A i \in 1 .. k : s[i] = t[i]
  BY <1>1 DEF FirstRecords
<1> HIDE DEF s, t, S
<1>4. /\ Tail(s) \in Seq(S) /\ Len(Tail(s)) = k - 1 /\ \A i \in 1 .. k - 1 : Tail(s)[i] = s[i + 1]
      /\ Tail(t) \in Seq(S) /\ Len(Tail(t)) = n - 1 /\ \A i \in 1 .. n - 1 : Tail(t)[i] = t[i + 1]
  <2>1. s # <<>> /\ t # <<>>
    BY <1>1, <1>2
  <2> QED BY <1>2, <2>1, TailElements
<1> DEFINE p == Tail(s)
           q == Tail(t)
<1>5. \A i \in 1 .. k - 1 : p[i] = q[i]
  BY <1>1, <1>3, <1>4
<1>6. Len(p) = k - 1 /\ Len(q) = n - 1 /\ p \in Seq(S) /\ q \in Seq(S)
  BY <1>4
<1> HIDE DEF p, q
<1>7. SubSeq(p, 1, Len(p)) = SubSeq(q, 1, Len(p))
  BY <1>1, <1>5, <1>6
<1>8. IsPrefix(p, q)
  BY <1>1, <1>6, <1>7 DEF IsPrefix
<1> QED BY <1>8 DEF p, q, s, t

\* Whatever happens to the log, it does not get older.
LEMMA NoOlderKept ==
  ASSUME SimulationInv, VisInv, LargeOk, [Next]_vars, NEW x, x.by \subseteq RunIds, NEW seed,
         LargeLog(seed) \in Existing, NoOlder(x, files[LargeLog(seed)])
  PROVE  LargeLog(seed) \in DOMAIN files' /\ NoOlder(x, files'[LargeLog(seed)])
<1> DEFINE f == LargeLog(seed)
<1>1. f \in DOMAIN files' /\ (LargeSame(f) \/ LargeOpened(f) \/ LargeWritten(f))
  BY LargeMoves
<1>2. files[f].by # {}
  BY DEF LargeOk
<1>3. Len(runs) \in Nat
  BY DEF SimulationInv
<1> HIDE DEF f
<1>4. CASE LargeSame(f)
  BY <1>1, <1>4 DEF LargeSame, f
<1>5. CASE LargeOpened(f)
  <2> DEFINE n == Len(runs) + 1
  <2>1. files'[f].by = {n}
    BY <1>5 DEF LargeOpened
  <2>2. \A q \in x.by : q <= n /\ q # n
    BY <1>3 DEF RunIds
  <2> HIDE DEF n
  <2>3. NoOlder(x, files'[f])
    BY <2>1, <2>2 DEF NoOlder
  <2> QED BY <1>1, <2>3 DEF f
<1>6. CASE LargeWritten(f)
  <2>1. PICK w, m :
          /\ w \in RunIds
          /\ files'[f].by = files[f].by \cup {w} /\ Holds(files'[f], m)
          /\ files[f].by = {w} => \A k : Holds(files[f], k) => k <= m
    BY <1>6 DEF LargeWritten
  <2>2. ASSUME NEW r, x.by = {r}, files'[f].by = {r}
        PROVE  \E k \in 1 .. Records : \E n :
                 k <= n /\ x.records = Tail(FirstRecords(Packets, k)) /\ Holds(files'[f], n)
    <3>1. files[f].by = {r} /\ w = r
      BY <1>2, <2>1, <2>2
    <3>2. PICK k, n :
            k \in 1 .. Records /\ k <= n /\ x.records = Tail(FirstRecords(Packets, k)) /\ Holds(files[f], n)
      BY <2>2, <3>1 DEF NoOlder, f
    <3>3. n <= m
      BY <2>1, <3>1, <3>2
    <3>4. n \in 0 .. Records /\ m \in 0 .. Records
      BY <2>1, <3>2 DEF Holds
    <3>5. k <= m
      BY <3>2, <3>3, <3>4, RecordsAssumption
    <3> QED BY <2>1, <3>2, <3>5
  <2>3. \A q \in x.by : \E r \in files'[f].by : q <= r
    BY <2>1 DEF NoOlder, f
  <2>4. NoOlder(x, files'[f])
    BY <2>2, <2>3 DEF NoOlder
  <2> QED BY <1>1, <2>4 DEF f
<1> QED BY <1>1, <1>4, <1>5, <1>6

\* While eval.py does nothing, all this stays.
LEMMA EvalInvKept ==
  ASSUME SimulationInv, VisInv, LargeOk, EvalTyped, EvalInv, [Next]_vars, UNCHANGED eval
  PROVE  EvalInv'
<1>1. RunIds \subseteq RunIds' /\ \A r \in RunIds : runs'[r] = runs[r]
  BY RunsStay
<1>2. /\ \A r \in eval.packets.by \cup eval.receivers.by : r \in RunIds' /\ runs'[r].seed = eval.seed
      /\ \A r \in eval.receivers.by : runs'[r].script = run_topo
  BY <1>1 DEF EvalInv, IsLarge
<1>3. ASSUME eval.test, eval.big, eval.step \in {"queue", "drops", "receivers"}
      PROVE  /\ LargeLog(eval.seed) \in DOMAIN files'
             /\ NoOlder(eval.packets, files'[LargeLog(eval.seed)])
  BY <1>3, NoOlderKept DEF EvalInv, EvalTyped
<1>4. EvalInv' <=>
        /\ eval.step \in {"packets", "queue", "drops", "receivers"} => eval.seed \in Seeds
        /\ \A r \in eval.packets.by \cup eval.receivers.by : r \in RunIds' /\ runs'[r].seed = eval.seed
        /\ \A r \in eval.receivers.by : runs'[r].script = run_topo
        /\ eval.test /\ eval.big =>
             /\ eval.step \in {"queue", "drops", "receivers"} =>
                  /\ LargeLog(eval.seed) \in DOMAIN files'
                  /\ NoOlder(eval.packets, files'[LargeLog(eval.seed)])
             /\ eval.step = "done" =>
                  /\ \A q \in eval.packets.by : \E r \in eval.receivers.by : q <= r
                  /\ \A r : eval.packets.by = {r} /\ eval.receivers.by = {r} =>
                       IsPrefix(eval.packets.records, eval.receivers.records)
  BY DEF EvalInv, IsLarge, Existing, NoOlder, Holds, LargeLog, RunIds
<1> QED BY <1>2, <1>3, <1>4 DEF EvalInv

LEMMA EvalInvStep ==
  SimulationInv /\ VisInv /\ FilesOk /\ FileSeeds /\ EvalTyped /\ LargeOk /\ EvalInv /\ [Next]_vars
  => EvalInv'
<1> SUFFICES ASSUME SimulationInv, VisInv, FilesOk, FileSeeds, EvalTyped, LargeOk, EvalInv,
                    [Next]_vars
             PROVE  EvalInv'
  OBVIOUS
<1>1. CASE UNCHANGED eval
  BY <1>1, EvalInvKept
<1>2. CASE Evaluate
  <2>1. UNCHANGED <<files, runs>>
    BY <1>2 DEF Evaluate
  <2>2. /\ RunIds' = RunIds /\ Existing' = Existing /\ \A r : IsLarge(r)' <=> IsLarge(r)
        /\ \A seed : LargeLog(seed)' = LargeLog(seed)
    BY <2>1 DEF RunIds, Existing, IsLarge, LargeLog
  <2>3. ASSUME NEW seed, LargeLog(seed) \in Existing, Headed(LargeLog(seed))
        PROVE  LET x == WithHeader(files[LargeLog(seed)])
               IN  /\ x.by = files[LargeLog(seed)].by
                   /\ \A r \in x.by : r \in RunIds /\ IsLarge(r)
                   /\ \E k \in 1 .. Records : /\ x.records = Tail(FirstRecords(Packets, k))
                                              /\ Holds(files[LargeLog(seed)], k)
    <3> DEFINE f == LargeLog(seed)
               x == WithHeader(files[f])
    <3>1. IsContent(files[f])
      BY <2>3 DEF FilesOk, FileOk, IsTable
    <3>2. x.by = files[f].by /\ x.records = Tail(files[f].records)
      BY <3>1, HeaderParts
    <3>3. PICK k : Holds(files[f], k)
      BY <2>3 DEF LargeOk
    <3>4. k \in 1 .. Records
      <4>1. k \in 0 .. Records /\ Len(files[f].records) = k
        BY <3>3, FirstOk DEF Holds
      <4>2. files[f].records # <<>> /\ files[f].records \in Seq(LogRecords(Packets))
        BY <2>3, <3>3, <4>1, FirstOk DEF Headed, Holds
      <4> QED BY <4>1, <4>2, RecordsAssumption
    <3>5. \A r \in files[f].by : r \in RunIds /\ IsLarge(r)
      BY <2>3 DEF LargeOk
    <3>6. x.records = Tail(FirstRecords(Packets, k))
      BY <3>2, <3>3 DEF Holds
    <3> HIDE DEF x, f
    <3> QED BY <3>2, <3>3, <3>4, <3>5, <3>6 DEF x, f
  <2>4. ASSUME NEW f \in Existing, f[4] = eval.seed, eval.seed \in Seeds
        PROVE  \A r \in WithHeader(files[f]).by : r \in RunIds /\ runs[r].seed = eval.seed
    <3>1. IsContent(files[f])
      BY <2>4 DEF FilesOk, FileOk, IsTable
    <3> QED BY <2>4, <3>1, HeaderParts, OfSeed
  <2>5. CASE EvalEmpty(eval')
    BY <2>5 DEF EvalEmpty, EvalInv
  <2>6. CASE PacketsRead
    <3> DEFINE log == EvalLog(eval.test, eval.big, eval.seed)
               x == WithHeader(files[log])
    <3>1. log \in Existing /\ Headed(log) /\ log[4] = eval.seed /\ eval.seed \in Seeds
      BY <2>6, FileParts DEF PacketsRead, Headed, EvalLog, LargeLog, EvalInv
    <3>2. \A r \in x.by : r \in RunIds /\ runs[r].seed = eval.seed
      BY <2>4, <3>1
    <3>3. ASSUME eval.test, eval.big
          PROVE  LargeLog(eval.seed) \in Existing /\ NoOlder(x, files[LargeLog(eval.seed)])
      <4>1. log = LargeLog(eval.seed)
        BY <3>3 DEF EvalLog
      <4> HIDE DEF log
      <4>2. x.by = files[log].by
            /\ \E k \in 1 .. Records : /\ x.records = Tail(FirstRecords(Packets, k))
                                       /\ Holds(files[log], k)
        BY <2>3, <3>1, <4>1
      <4>3. \A q \in x.by : q \in Nat
        BY <3>2 DEF RunIds
      <4> HIDE DEF x
      <4>4. \A q \in x.by : \E r \in files[log].by : q <= r
        BY <4>2, <4>3
      <4>5. \A k \in 1 .. Records : k <= k
        BY RecordsAssumption
      <4> QED BY <3>1, <4>1, <4>2, <4>4, <4>5 DEF NoOlder
    <3>4. /\ eval'.packets = x /\ eval'.receivers = eval.receivers /\ eval'.step = "queue"
          /\ eval'.test = eval.test /\ eval'.big = eval.big /\ eval'.seed = eval.seed
      BY <2>6 DEF PacketsRead, EvalKeeps
    <3> HIDE DEF x, log
    <3> QED BY <2>1, <2>2, <3>1, <3>2, <3>3, <3>4 DEF EvalInv, NoOlder, Holds
  <2>7. CASE SideRead
    <3>1. /\ eval'.packets = eval.packets /\ eval'.receivers = eval.receivers
          /\ eval'.test = eval.test /\ eval'.big = eval.big /\ eval'.seed = eval.seed
          /\ eval.step \in {"queue", "drops"}
          /\ eval'.step \in {"drops", "receivers"} \/ (eval'.step = "done" /\ ~eval.big)
      BY <2>7 DEF SideRead, EvalKeeps
    <3> QED BY <2>1, <2>2, <3>1 DEF EvalInv, NoOlder, Holds
  <2>8. CASE ReceiversRead
    <3> DEFINE log == LargeLog(eval.seed)
               y == WithHeader(files[log])
    <3>1. /\ eval'.packets = eval.packets /\ eval'.receivers = y /\ eval'.step = "done"
          /\ eval'.test = eval.test /\ eval'.big = eval.big /\ eval'.seed = eval.seed
          /\ eval.step = "receivers" /\ Headed(log) /\ log \in Existing
      BY <2>8 DEF ReceiversRead, EvalKeeps, Headed
    <3>2. log[4] = eval.seed /\ eval.seed \in Seeds
      BY <3>1, FileParts DEF LargeLog, EvalInv
    <3>3. \A r \in y.by : r \in RunIds /\ runs[r].seed = eval.seed
      BY <2>4, <3>1, <3>2
    <3>4. /\ y.by = files[log].by /\ \A r \in y.by : IsLarge(r)
          /\ \E n \in 1 .. Records : /\ y.records = Tail(FirstRecords(Packets, n))
                                     /\ Holds(files[log], n)
      BY <2>3, <3>1
    <3>5. ASSUME eval.test, eval.big
          PROVE  /\ \A q \in eval.packets.by : \E r \in y.by : q <= r
                 /\ \A r : eval.packets.by = {r} /\ y.by = {r} =>
                      IsPrefix(eval.packets.records, y.records)
      <4>1. NoOlder(eval.packets, files[log])
        BY <3>1, <3>5 DEF EvalInv
      <4> HIDE DEF y, log
      <4>2. ASSUME NEW r, eval.packets.by = {r}, y.by = {r}
            PROVE  IsPrefix(eval.packets.records, y.records)
        <5>1. PICK n \in 1 .. Records : /\ y.records = Tail(FirstRecords(Packets, n))
                                        /\ Holds(files[log], n)
          BY <3>4
        <5>2. PICK k, m :
                k \in 1 .. Records /\ k <= m /\ eval.packets.records = Tail(FirstRecords(Packets, k)) /\ Holds(files[log], m)
          BY <3>4, <4>1, <4>2 DEF NoOlder
        <5>3. m = n
          <6>1. n \in 0 .. Records /\ m \in 0 .. Records
            BY <5>1, <5>2 DEF Holds
          <6> QED BY <5>1, <5>2, <6>1, FirstOk DEF Holds
        <5>4. n \in k .. Records
          BY <5>2, <5>3, RecordsAssumption
        <5> QED BY <5>1, <5>2, <5>4, TailsPrefix
      <4> QED BY <3>4, <4>1, <4>2 DEF NoOlder
    <3> HIDE DEF y, log
    <3> QED BY <2>1, <2>2, <3>1, <3>2, <3>3, <3>4, <3>5 DEF EvalInv
  <2> QED BY <1>2, <2>5, <2>6, <2>7, <2>8, EvalMoves
<1>3. CASE Simulate \/ MakeFolder \/ Visualise \/ UNCHANGED vars
  BY <1>1, <1>3 DEF Simulate, MakeFolder, Visualise, vars
<1> QED BY <1>2, <1>3 DEF Next

\* The queue and drop logs are of simulations of the large topology too, and not
\* older than the last of these.
SideOk ==
  \A f \in SideLogs :
    /\ f \in Existing => \A r \in files[f].by : r \in RunIds /\ IsLarge(r)
    /\ \A q \in RunIds : IsLarge(q) => f \in Existing /\ \E r \in files[f].by : q <= r

LEMMA SideNames == \A f \in SideLogs : InResults(f)
  BY FileParts, PlainParts DEF SideLogs, EvalQueue, EvalDrops, InResults

LEMMA SideInit == Init => SideOk
  BY EmptySeq DEF Init, FilesInit, SideOk, Existing, RunIds

LEMMA SideOpens ==
  ASSUME SimulationInv, SideOk, NEW script \in AllScripts, NEW seed \in AnySeed,
         OpenLogs(script, seed)
  PROVE  SideOk'
<1> DEFINE n == Len(runs) + 1
           logs == Logs(script, seed)
           entry == Content({n}, <<>>, FALSE)
           new == [g \in logs |-> entry]
<1>1. Put(new) /\ DOMAIN new = logs
  BY DEF OpenLogs
<1>2. entry.by = {n}
  BY ContentParts
<1>3. /\ Len(runs) \in Nat /\ Len(runs') = n /\ \A r \in RunIds : runs'[r] = runs[r]
      /\ runs'[n].script = script
  <2>1. /\ runs'[n] = [script |-> script, seed |-> seed, random |-> RandomSeed(script, seed)]
        /\ Len(runs) \in Nat /\ Len(runs') = n /\ \A r \in RunIds : runs'[r] = runs[r]
    BY AppendRun DEF SimulationInv
  <2> HIDE DEF n
  <2> QED BY <2>1
<1>4. /\ RunIds' = RunIds \cup {n} /\ n \notin RunIds
      /\ \A q \in RunIds' : q <= n
  BY <1>3 DEF RunIds
<1>5. /\ DOMAIN files' = Existing \cup logs
      /\ \A f \in DOMAIN files' : files'[f] = IF f \in logs THEN entry ELSE files[f]
  <2>1. \A f \in logs : new[f] = entry
    OBVIOUS
  <2> HIDE DEF new, entry, logs
  <2> QED BY <1>1, <2>1, PutValues
<1> SUFFICES ASSUME NEW f \in SideLogs
             PROVE  /\ f \in DOMAIN files' =>
                         \A r \in files'[f].by : r \in RunIds' /\ runs'[r].script = run_topo
                    /\ \A q \in RunIds' : runs'[q].script = run_topo =>
                         f \in DOMAIN files' /\ \E r \in files'[f].by : q <= r
  BY DEF SideOk, SideLogs, EvalQueue, EvalDrops, Existing, IsLarge
<1>6. f \in logs <=> script = run_topo
  BY SideLogsOfLarge
<1>7. /\ f \in Existing => \A r \in files[f].by : r \in RunIds /\ runs[r].script = run_topo
      /\ \A q \in RunIds : runs[q].script = run_topo =>
           f \in Existing /\ \E r \in files[f].by : q <= r
  BY DEF SideOk, IsLarge
<1> HIDE DEF n, logs, entry, new
<1>8. CASE f \in logs
  BY <1>2, <1>3, <1>4, <1>5, <1>6, <1>8
<1>9. CASE f \notin logs
  BY <1>3, <1>4, <1>5, <1>6, <1>7, <1>9
<1> QED BY <1>8, <1>9

LEMMA SideWrites ==
  ASSUME SimulationInv, SideOk, NEW r, NEW logs, NEW n, Written(r, logs, n)
  PROVE  SideOk'
<1>1. /\ DOMAIN files' = Existing
      /\ \A f \in Existing : files'[f].by = files[f].by \cup (IF f \in logs THEN {r} ELSE {})
  BY WrittenValues
<1>2. r \in RunIds /\ runs' = runs /\ logs \subseteq LogsOf(r)
  BY DEF Written
<1>3. \A f \in SideLogs \cap logs : IsLarge(r)
  BY <1>2, RunScripts, SideLogsOfLarge DEF IsLarge, LogsOf
<1> QED BY <1>1, <1>2, <1>3 DEF SideOk, SideLogs, EvalQueue, EvalDrops, Existing, IsLarge, RunIds

LEMMA SideStep == SimulationInv /\ VisInv /\ SideOk /\ [Next]_vars => SideOk'
<1> SUFFICES ASSUME SimulationInv, VisInv, SideOk, [Next]_vars PROVE SideOk'
  OBVIOUS
<1>1. CASE UNCHANGED <<files, runs>>
  BY <1>1 DEF SideOk, SideLogs, EvalQueue, EvalDrops, Existing, IsLarge, RunIds
<1>2. CASE Visualise
  <2>1. Kept /\ UNCHANGED runs
    BY <1>2, VisualiseKeeps, OthersLeaveRuns
  <2>2. \A f \in SideLogs : /\ f \in DOMAIN files' <=> f \in Existing
                            /\ f \in Existing => files'[f] = files[f]
    BY <2>1, SideNames DEF Kept, Existing
  <2> QED BY <2>1, <2>2 DEF SideOk, SideLogs, EvalQueue, EvalDrops, Existing, IsLarge, RunIds
<1>3. CASE Simulate
  BY <1>1, <1>3, DockerSteps, SideOpens, SideWrites
<1>4. CASE MakeFolder \/ Evaluate \/ UNCHANGED vars
  BY <1>1, <1>4 DEF MakeFolder, Evaluate, vars
<1> QED BY <1>2, <1>3, <1>4 DEF Next

\* What eval.py sets beside packets of the large topology is of that topology, and
\* not older.
BesideInv ==
  /\ \A r \in eval.queue \cup eval.drops : r \in RunIds /\ IsLarge(r)
  /\ eval.test /\ eval.big =>
       /\ eval.step \in {"queue", "drops", "receivers", "done"} =>
            \A q \in eval.packets.by : q \in RunIds /\ IsLarge(q)
       /\ eval.step \in {"drops", "receivers", "done"} => NotOlder(eval.queue, eval.packets.by)
       /\ eval.step \in {"receivers", "done"} => NotOlder(eval.drops, eval.packets.by)

LEMMA BesideInit == Init => BesideInv
  BY NoEvaluationParts DEF Init, EvalInit, BesideInv

LEMMA BesideStep ==
  SimulationInv /\ FilesOk /\ EvalTyped /\ LargeOk /\ SideOk /\ BesideInv /\ [Next]_vars
  => BesideInv'
<1> SUFFICES ASSUME SimulationInv, FilesOk, EvalTyped, LargeOk, SideOk, BesideInv, [Next]_vars
             PROVE  BesideInv'
  OBVIOUS
<1>1. RunIds \subseteq RunIds' /\ \A r \in RunIds : runs'[r] = runs[r]
  BY RunsStay
<1>2. CASE UNCHANGED eval
  BY <1>1, <1>2 DEF BesideInv, IsLarge, NotOlder
<1>3. CASE Evaluate
  <2>1. RunIds' = RunIds /\ \A r : IsLarge(r)' <=> IsLarge(r)
    BY <1>3 DEF Evaluate, RunIds, IsLarge
  <2>2. CASE EvalEmpty(eval')
    BY <2>1, <2>2 DEF EvalEmpty, BesideInv, NotOlder
  <2>3. CASE PacketsRead
    <3> DEFINE log == LargeLog(eval.seed)
    <3>1. /\ eval'.queue = eval.queue /\ eval'.drops = eval.drops /\ eval'.step = "queue"
          /\ eval'.test = eval.test /\ eval'.big = eval.big
      BY <2>3 DEF PacketsRead, EvalKeeps
    <3>2. ASSUME eval.test, eval.big
          PROVE  \A q \in eval'.packets.by : q \in RunIds /\ IsLarge(q)
      <4>1. log \in Existing /\ eval'.packets = WithHeader(files[log])
        BY <2>3, <3>2 DEF PacketsRead, Headed, EvalLog
      <4>2. IsContent(files[log])
        BY <4>1 DEF FilesOk, FileOk, IsTable
      <4>3. eval'.packets.by = files[log].by
        BY <4>1, <4>2, HeaderParts
      <4> QED BY <4>1, <4>3 DEF LargeOk
    <3> QED BY <2>1, <3>1, <3>2 DEF BesideInv
  <2>4. CASE SideRead
    <3>1. /\ eval'.packets = eval.packets /\ eval'.test = eval.test /\ eval'.big = eval.big
      BY <2>4 DEF SideRead, EvalKeeps
    <3>2. ASSUME NEW f \in SideLogs, f \in Existing
          PROVE  /\ \A r \in files[f].by : r \in RunIds /\ IsLarge(r)
                 /\ (\A q \in eval.packets.by : q \in RunIds /\ IsLarge(q)) =>
                      NotOlder(files[f].by, eval.packets.by)
      BY <3>2 DEF SideOk, NotOlder
    <3>3. EvalQueue \in SideLogs /\ EvalDrops \in SideLogs
      BY DEF SideLogs
    <3>4. CASE eval.step = "queue"
      <4>1. /\ eval'.step = "drops" /\ EvalQueue \in Existing
            /\ eval'.queue = files[EvalQueue].by /\ eval'.drops = eval.drops
        BY <2>4, <3>4 DEF SideRead
      <4> QED BY <2>1, <3>1, <3>2, <3>3, <3>4, <4>1 DEF BesideInv, NotOlder
    <3>5. CASE eval.step = "drops"
      <4>1. /\ eval'.step \in {"receivers", "done"} /\ EvalDrops \in Existing
            /\ eval'.drops = files[EvalDrops].by /\ eval'.queue = eval.queue
        BY <2>4, <3>5 DEF SideRead
      <4> QED BY <2>1, <3>1, <3>2, <3>3, <3>5, <4>1 DEF BesideInv, NotOlder
    <3> QED BY <2>4, <3>4, <3>5 DEF SideRead
  <2>5. CASE ReceiversRead
    <3>1. /\ eval'.packets = eval.packets /\ eval'.queue = eval.queue
          /\ eval'.drops = eval.drops /\ eval.step = "receivers" /\ eval'.step = "done"
          /\ eval'.test = eval.test /\ eval'.big = eval.big
      BY <2>5 DEF ReceiversRead, EvalKeeps
    <3> QED BY <2>1, <3>1 DEF BesideInv, NotOlder
  <2> QED BY <1>3, <2>2, <2>3, <2>4, <2>5, EvalMoves
<1>4. CASE Simulate \/ MakeFolder \/ Visualise \/ UNCHANGED vars
  BY <1>2, <1>4 DEF Simulate, MakeFolder, Visualise, vars
<1> QED BY <1>3, <1>4 DEF Next

\* Nothing that eval.py reads of the large topology after the packets is older than
\* they are, though simulations that write these logs come and go between.
THEOREM ReadsCorrect == Spec => []ReadsNoOlder
<1> DEFINE Inv == Typed /\ LargeOk /\ EvalInv /\ SideOk /\ BesideInv
<1>1. Init => Inv
  BY TypedInit, LargeInit, EvalInvInit, SideInit, BesideInit
<1>2. Inv /\ [Next]_vars => Inv'
  BY TypedStep, LargeStep, EvalInvStep, SideStep, BesideStep DEF Typed
<1>3. Inv => ReadsNoOlder
  BY DEF EvalInv, BesideInv, ReadsNoOlder, NotOlder
<1> QED BY <1>1, <1>2, <1>3, PTL DEF Spec

-----------------------------------------------------------------------------
(* One port in each plot.                                                  *)

\* The elements of a sequence of known length.
LEMMA Elements ==
  ASSUME NEW S, NEW s \in Seq(S), NEW n, Len(s) = n
  PROVE  \A i \in 1 .. n : s[i] \in S
  OBVIOUS

\* Lists one after the other, as FlattenSeq joins them.
LEMMA FlatRecursion ==
  ASSUME NEW S, NEW ss \in Seq(Seq(S)), ss # <<>>
  PROVE  \E f : /\ f[1] = ss[1] /\ \A i \in 2 .. Len(ss) : f[i] = f[i - 1] \o ss[i]
                /\ FlattenSeq(ss) = f[Len(ss)]
<1> DEFINE T == Seq(S)
           n == Len(ss)
           IsFlat(f) == f = [i \in 1 .. n |-> IF i = 1 THEN ss[i] ELSE f[i - 1] \o ss[i]]
           G == [p \in (1 .. n) \X T |-> p[2] \o ss[p[1]]]
<1>0. \A s \in T, t \in T : s \o t \in T /\ <<>> \o t = t
  OBVIOUS
<1>1. <<>> \in T
  OBVIOUS
<1> HIDE DEF T
<1>2. n \in Nat \ {0} /\ \A i \in 1 .. n : ss[i] \in T
  BY DEF T
<1>3. FlattenSeq(ss) = (CHOOSE f : IsFlat(f))[n]
  BY <1>2 DEF FlattenSeq
<1> HIDE DEF n
<1>4. \E f : IsFlat(f)
  <2>1. G \in [(1 .. n) \X T -> T]
    BY <1>0, <1>2
  <2>2. n \in Nat
    BY <1>2
  <2> HIDE DEF G
  <2>3. PICK g : ByRecursion(g, T, <<>>, n, G)
    BY <1>1, <2>1, <2>2, RecursionExists
  <2>4. /\ g \in [0 .. n -> T] /\ g[0] = <<>>
        /\ \A i \in 1 .. n : g[i] = G[<<i, g[i - 1]>>]
    BY <2>3 DEF ByRecursion
  <2>5. ASSUME NEW i \in 1 .. n PROVE g[i] = g[i - 1] \o ss[i]
    <3>1. i - 1 \in 0 .. n
      BY <2>2
    <3>2. g[i - 1] \in T
      BY <2>4, <3>1
    <3>3. <<i, g[i - 1]>> \in (1 .. n) \X T
      BY <3>2
    <3> QED BY <2>4, <3>3 DEF G
  <2>6. 1 \in 1 .. n /\ 1 - 1 = 0
    BY <1>2
  <2>7. g[1] = ss[1]
    <3>1. g[1] = g[0] \o ss[1]
      BY <2>5, <2>6
    <3> QED BY <1>0, <1>2, <2>4, <2>6, <3>1
  <2> DEFINE f == [i \in 1 .. n |-> g[i]]
  <2>8. ASSUME NEW i \in 1 .. n PROVE f[i] = IF i = 1 THEN ss[i] ELSE f[i - 1] \o ss[i]
    <3>1. i # 1 => i - 1 \in 1 .. n
      BY <1>2
    <3> QED BY <2>5, <2>7, <3>1
  <2>9. IsFlat(f)
    BY <2>8, SMTT(30)
  <2> QED BY <2>9
<1> DEFINE f == CHOOSE f : IsFlat(f)
<1>5. IsFlat(f)
  BY <1>4
<1>6. FlattenSeq(ss) = f[n]
  BY <1>3
<1> HIDE DEF f
<1>7. \A i \in 1 .. n : f[i] = IF i = 1 THEN ss[i] ELSE f[i - 1] \o ss[i]
  BY <1>5
<1>8. 1 \in 1 .. n /\ \A i \in 2 .. n : i \in 1 .. n /\ i # 1
  BY <1>2
<1> QED BY <1>6, <1>7, <1>8 DEF n

\* A list of one table makes that table.
LEMMA FlatOne ==
  ASSUME NEW S, NEW s \in Seq(S)
  PROVE  FlattenSeq(<<s>>) = s
<1>1. <<s>> \in Seq(Seq(S)) /\ <<s>> # <<>> /\ Len(<<s>>) = 1 /\ <<s>>[1] = s
  OBVIOUS
<1> QED BY <1>1, FlatRecursion

\* Appending rows leaves the earlier ones where they are.
LEMMA ConcatPlace ==
  ASSUME NEW S, NEW s \in Seq(S), NEW t \in Seq(S), NEW k \in 1 .. Len(s)
  PROVE  s \o t \in Seq(S) /\ k \in 1 .. Len(s \o t) /\ (s \o t)[k] = s[k]
  OBVIOUS

\* The first element of the second of seven lists follows the first list.
LEMMA FlatSeven ==
  ASSUME NEW S, NEW ss \in Seq(Seq(S)), Len(ss) = 7, ss[2] # <<>>
  PROVE  LET k == Len(ss[1]) + 1
         IN  k \in 1 .. Len(FlattenSeq(ss)) /\ FlattenSeq(ss)[k] = ss[2][1]
<1> DEFINE T == Seq(S)
           k == Len(ss[1]) + 1
<1>0. \A s \in T, t \in T : s \o t \in T
  OBVIOUS
<1>1. ss \in Seq(T)
  OBVIOUS
<1>2. ASSUME NEW s \in T, NEW t \in T, t # <<>>
      PROVE  Len(s) + 1 \in 1 .. Len(s \o t) /\ (s \o t)[Len(s) + 1] = t[1]
  BY <1>2
<1>3. ss # <<>>
  OBVIOUS
<1>4. PICK f : /\ f[1] = ss[1] /\ \A i \in 2 .. Len(ss) : f[i] = f[i - 1] \o ss[i]
               /\ FlattenSeq(ss) = f[Len(ss)]
  BY <1>3, FlatRecursion
<1> HIDE DEF T
<1>5. \A i \in 1 .. 7 : ss[i] \in T
  BY <1>1, Elements
<1>6. ASSUME NEW i \in 2 .. 7 PROVE f[i] = f[i - 1] \o ss[i]
  <2>1. i \in 2 .. Len(ss)
    OBVIOUS
  <2> QED BY <1>4, <2>1
<1> DEFINE Placed(i) == f[i] \in T /\ k \in 1 .. Len(f[i]) /\ f[i][k] = ss[2][1]
<1>7. Placed(2)
  <2>1. f[2] = ss[1] \o ss[2]
    BY <1>4, <1>6, 2 \in 2 .. 7, 2 - 1 = 1
  <2>2. ss[1] \in T /\ ss[2] \in T
    BY <1>5
  <2> QED BY <1>0, <1>2, <2>1, <2>2
<1> HIDE DEF k
<1>8. ASSUME NEW i \in 3 .. 7, Placed(i - 1) PROVE Placed(i)
  <2>1. f[i] = f[i - 1] \o ss[i] /\ ss[i] \in T
    BY <1>5, <1>6, i \in 2 .. 7, i \in 1 .. 7
  <2>2. PICK s, t : s = f[i - 1] /\ t = ss[i]
    OBVIOUS
  <2>3. s \in T /\ t \in T /\ k \in 1 .. Len(s) /\ s[k] = ss[2][1]
    BY <1>8, <2>1, <2>2
  <2>4. s \o t \in T /\ k \in 1 .. Len(s \o t) /\ (s \o t)[k] = s[k]
    BY <2>3, ConcatPlace DEF T
  <2>5. f[i] = s \o t
    BY <2>1, <2>2
  <2> QED BY <2>3, <2>4, <2>5
<1> HIDE DEF Placed
<1>9. Placed(7)
  <2>1. Placed(3)
    BY <1>7, <1>8, 3 \in 3 .. 7, 3 - 1 = 2
  <2>2. Placed(4)
    BY <1>8, <2>1, 4 \in 3 .. 7, 4 - 1 = 3
  <2>3. Placed(5)
    BY <1>8, <2>2, 5 \in 3 .. 7, 5 - 1 = 4
  <2>4. Placed(6)
    BY <1>8, <2>3, 6 \in 3 .. 7, 6 - 1 = 5
  <2> QED BY <1>8, <2>4, 7 \in 3 .. 7, 7 - 1 = 6
<1> QED BY <1>4, <1>9 DEF k, Placed

\* The records of the logs of a list.
AnyRecords(list) == [from : {list[i][3] : i \in 1 .. Len(list)}, no : 1 .. Records, text : BOOLEAN]

ListRecords(list) == [i \in 1 .. Len(list) |-> Repaired(list[i]).records]

\* Every log repaired is a sequence of records that begins with its header as text.
LEMMA ListRepairedRecords ==
  ASSUME FilesOk, NEW a, ListRepaired(FileList(a))
  PROVE  LET list == FileList(a)
         IN  /\ ListRecords(list) \in Seq(Seq(AnyRecords(list)))
             /\ Len(ListRecords(list)) = Len(list)
             /\ \A i \in 1 .. Len(list) : ListRecords(list)[i] # <<>>
                                          /\ ListRecords(list)[i][1].text = TRUE
<1> DEFINE list == FileList(a)
<1>1. Len(list) \in 1 .. 7
  BY FileLists
<1> HIDE DEF list
<1>2. PICK n \in 1 .. 7 : n = Len(list)
  BY <1>1
<1>3. ASSUME NEW i \in 1 .. n
      PROVE  /\ Repaired(list[i]).records \in Seq(AnyRecords(list))
             /\ Repaired(list[i]).records # <<>>
             /\ Repaired(list[i]).records[1].text = TRUE
  <2> DEFINE log == list[i]
  <2>1. log \in Existing /\ Len(files[log].records) >= 2
    BY <1>2 DEF ListRepaired, Repairable, list
  <2>2. files[log].records \in Seq(LogRecords(log[3]))
    BY <2>1 DEF FilesOk, FileOk, IsTable
  <2> HIDE DEF log
  <2>3. files[log].records # <<>>
    BY <2>1
  <2>4. PICK new : new = Repaired(log).records
    OBVIOUS
  <2>5. /\ new \in Seq(LogRecords(log[3])) /\ Len(new) = Len(files[log].records)
        /\ new[1].text = TRUE
    BY <2>2, <2>3, <2>4, RepairedRecords
  <2>6. LogRecords(log[3]) \subseteq AnyRecords(list)
    BY <1>2 DEF LogRecords, AnyRecords, log
  <2>7. new \in Seq(AnyRecords(list)) /\ new # <<>>
    <3> HIDE DEF list
    <3> QED BY <2>1, <2>5, <2>6
  <2> QED BY <2>4, <2>5, <2>7 DEF log
<1>4. ListRecords(list) = [i \in 1 .. n |-> Repaired(list[i]).records]
  BY <1>2 DEF ListRecords
<1> DEFINE rs == ListRecords(list)
<1>5. rs \in Seq(Seq(AnyRecords(list))) /\ Len(rs) = n
  <2> DEFINE T == Seq(AnyRecords(list))
  <2>1. \A i \in 1 .. n : Repaired(list[i]).records \in T
    BY <1>3
  <2> HIDE DEF T
  <2>2. rs \in Seq(T) /\ Len(rs) = n
    BY <1>4, <2>1
  <2> QED BY <2>2 DEF T
<1>6. \A i \in 1 .. n : rs[i] # <<>> /\ rs[i][1].text = TRUE
  BY <1>3, <1>4
<1> QED BY <1>2, <1>5, <1>6 DEF list

\* The table of all ports together is not plotted.
LEMMA AllPorts ==
  ASSUME FilesOk, NEW a, a.tool # "visualise", ListRepaired(FileList(a))
  PROVE  ~Plottable(TablesOf(FileList(a)))
<1> DEFINE list == FileList(a)
           rs == ListRecords(list)
           S == AnyRecords(list)
<1>1. Len(list) = 7
  BY DEF FileList, SwitchesList
<1>2. /\ rs \in Seq(Seq(S)) /\ Len(rs) = Len(list)
      /\ \A i \in 1 .. Len(list) : rs[i] # <<>> /\ rs[i][1].text = TRUE
  BY ListRepairedRecords
<1> HIDE DEF list
<1>3. TablesOf(list).records = FlattenSeq(rs)
  <2>1. \A by, records : Table(by, records).records = records
    BY DEF Table, Content
  <2> QED BY <2>1 DEF TablesOf, ListRecords
<1> HIDE DEF rs, S
<1> DEFINE k == Len(rs[1]) + 1
<1>4. k \in 1 .. Len(FlattenSeq(rs)) /\ FlattenSeq(rs)[k] = rs[2][1]
  BY <1>1, <1>2, FlatSeven, SMTT(30)
<1>5. rs[1] \in Seq(S) /\ rs[1] # <<>> /\ rs[2][1].text = TRUE
  <2>1. \A i \in 1 .. 7 : rs[i] \in Seq(S)
    BY <1>1, <1>2, Elements
  <2>2. \A i \in 1 .. 7 : rs[i] # <<>> /\ rs[i][1].text = TRUE
    BY <1>1, <1>2
  <2> QED BY <2>1, <2>2, 1 \in 1 .. 7, 2 \in 1 .. 7
<1>6. Len(rs[1]) \in Nat \ {0}
  BY <1>5
<1>7. k \in 2 .. Len(FlattenSeq(rs))
  BY <1>4, <1>6
<1> HIDE DEF k
<1>8. FlattenSeq(rs)[k].text = TRUE
  BY <1>4, <1>5
<1> QED BY <1>3, <1>7, <1>8 DEF Plottable, list

Ports == {List[i][3] : i \in 1 .. Len(List)}

\* The plots of visualise_switches.py: as many as ports have been dealt with, each
\* of its own; what is plotted next is of the next port.
PlotsInv ==
  vis.args.tool = "switches" /\ vis.step \notin {"idle", "nofolder"} =>
    /\ vis.step # "senders" /\ vis.plots \in Seq(SUBSET Ports)
    /\ \A i \in 1 .. Len(vis.plots) : vis.plots[i] \subseteq {List[i][3]}
    /\ vis.step \in {"tables", "plot"} => Len(vis.plots) = vis.at - 1
    /\ vis.step = "plot" /\ Plottable(vis.table) => Shown(vis.table) \subseteq {List[vis.at][3]}

\* A file shows the port of its name and no other.
LEMMA ShownOf ==
  ASSUME NEW x, NEW part, IsTable(x, part)
  PROVE  Shown(x) \subseteq {part}
<1>1. x.records \in Seq(LogRecords(part))
  BY DEF IsTable
<1>2. \A i \in 1 .. Len(x.records) : x.records[i] \in LogRecords(part)
  BY <1>1
<1> QED BY <1>2 DEF Shown, LogRecords

LEMMA PlotsInvInit == Init => PlotsInv
  BY NoExecutionParts DEF Init, VisInit, PlotsInv

LEMMA PlotsInvStep == Typed /\ PlotsInv /\ [Next]_vars => PlotsInv'
<1> SUFFICES ASSUME Typed, PlotsInv, [Next]_vars PROVE PlotsInv'
  OBVIOUS
<1>0. SimulationInv /\ VisInv /\ VisSeeds /\ FilesOk
  BY DEF Typed
<1>1. CASE vis' = vis
  <2>1. List' = List
    BY <1>1 DEF List
  <2>2. Ports' = Ports
    BY <2>1 DEF Ports
  <2> QED BY <1>1, <2>1, <2>2 DEF PlotsInv
<1>2. CASE vis' = NoExecution
  BY <1>2, NoExecutionParts DEF PlotsInv
<1>3. ASSUME NEW b, Begin(b) PROVE PlotsInv'
  <2>1. vis'.at = 1 /\ vis'.plots = <<>> /\ vis'.step \in {"tables", "nofolder"}
    BY <1>3, BeginParts
  <2> QED BY <2>1 DEF PlotsInv
<1>4. SUFFICES ASSUME Unchanged, vis.args.tool = "switches" PROVE
         Ended \/ Found \/ Generated \/ SenderDone \/ Plotted \/ QueueRead \/ DropsRead => PlotsInv'
  <2>1. Ended \/ Found \/ Generated \/ SenderDone \/ Plotted \/ QueueRead \/ DropsRead => Unchanged
    BY DEF Ended, Found, Generated, Tabled, SenderDone, Plotted, QueueRead, DropsRead
  <2>2. Unchanged /\ vis.args.tool # "switches" => PlotsInv'
    BY DEF Unchanged, PlotsInv
  <2>3. CASE Visualise
    BY <1>0, <1>1, <1>2, <1>3, <1>4, <2>1, <2>2, <2>3, VisMoves
  <2>4. CASE Simulate \/ MakeFolder \/ Evaluate \/ UNCHANGED vars
    BY <1>1, <2>4 DEF Simulate, MakeFolder, Evaluate, vars
  <2> QED BY <2>3, <2>4 DEF Next
<1>5. /\ vis.step # "senders" /\ vis.plots \in Seq(SUBSET Ports)
      /\ \A i \in 1 .. Len(vis.plots) : vis.plots[i] \subseteq {List[i][3]}
      /\ vis.step \in {"tables", "plot"} => Len(vis.plots) = vis.at - 1
      /\ vis.step = "plot" /\ Plottable(vis.table) => Shown(vis.table) \subseteq {List[vis.at][3]}
  BY <1>4 DEF PlotsInv, Unchanged
<1>6. List' = List /\ Ports' = Ports
  BY <1>4 DEF Unchanged, List, Ports
<1>7. ASSUME vis'.plots = vis.plots, vis'.step \notin {"tables", "senders", "plot"} PROVE PlotsInv'
  BY <1>5, <1>6, <1>7 DEF PlotsInv
<1>8. CASE Ended \/ QueueRead \/ DropsRead
  BY <1>7, <1>8 DEF Ended, QueueRead, DropsRead
<1>9. ASSUME NEW table, Tabled(table), Plottable(table) => Shown(table) \subseteq {List[vis.at][3]}
      PROVE  PlotsInv'
  <2>1. /\ vis'.step = "plot" /\ vis'.table = table /\ vis'.plots = vis.plots /\ vis'.at = vis.at
        /\ vis.step = "tables"
    BY <1>4, <1>9 DEF Tabled
  <2>2. (Plottable(vis.table))' <=> Plottable(table)
    BY <2>1 DEF Plottable
  <2>3. Shown(vis.table)' = Shown(table)
    BY <2>1 DEF Shown
  <2> QED BY <1>5, <1>6, <1>9, <2>1, <2>2, <2>3 DEF PlotsInv
<1>10. CASE Found
  <2>1. vis.at \in 1 .. Len(List)
    BY <1>0, <1>10 DEF Found, Tabled, VisSeeds, List
  <2> DEFINE log == List[vis.at]
  <2>2. Final(log)[3] = log[3]
    BY <2>1, FileLists, FinalNames DEF List
  <2> HIDE DEF log
  <2>3. Final(log) \in Existing /\ Tabled(files[Final(log)])
    BY <1>10 DEF Found, log
  <2>4. IsTable(files[Final(log)], log[3])
    BY <1>0, <2>2, <2>3 DEF FilesOk, FileOk
  <2> QED BY <1>9, <2>3, <2>4, ShownOf DEF log
<1>11. CASE Generated
  <2>1. ~Plottable(TablesOf(List))
    BY <1>0, <1>4, <1>11, AllPorts DEF Generated, List
  <2> QED BY <1>9, <1>11, <2>1 DEF Generated
<1>12. CASE SenderDone
  BY <1>5, <1>12 DEF SenderDone
<1>13. CASE Plotted
  <2> DEFINE shown == Shown(vis.table)
             n == Len(vis.plots)
             plots == Append(vis.plots, shown)
  <2>1. /\ vis'.plots = plots /\ vis'.at = vis.at + 1 /\ vis'.step \in {"tables", "queue"}
        /\ vis.at \in 1 .. Len(List) /\ n = vis.at - 1 /\ shown \subseteq {List[vis.at][3]}
    BY <1>0, <1>5, <1>13 DEF Plotted, VisSeeds, List
  <2>2. n \in Nat /\ vis.at = n + 1
    BY <1>0, <1>5, <2>1, VisFields
  <2>3. shown \in SUBSET Ports
    BY <2>1 DEF Ports
  <2> HIDE DEF shown
  <2>4. plots \in Seq(SUBSET Ports) /\ Len(plots) = n + 1
        /\ plots[n + 1] = shown /\ \A i \in 1 .. n : plots[i] = vis.plots[i]
    BY <1>5, <2>3, AppendElements
  <2> HIDE DEF plots
  <2>5. \A i \in 1 .. n + 1 : i \in 1 .. n \/ i = n + 1
    BY <2>2
  <2>6. \A i \in 1 .. Len(plots) : plots[i] \subseteq {List[i][3]}
    BY <1>5, <2>1, <2>2, <2>4, <2>5
  <2>7. Len(plots) = vis'.at - 1
    BY <2>1, <2>2, <2>4
  <2> QED BY <1>6, <2>1, <2>4, <2>6, <2>7 DEF PlotsInv
<1> QED BY <1>8, <1>10, <1>11, <1>12, <1>13

\* Each plot of a finished visualise_switches.py shows one port: that of its number.
THEOREM PortsCorrect == Spec => []PlotsOnePort
<1>1. PlotsInv => PlotsOnePort
  BY DEF PlotsInv, PlotsOnePort
<1> QED BY <1>1, TypedInit, TypedStep, PlotsInvInit, PlotsInvStep, PTL DEF Spec

-----------------------------------------------------------------------------
(* The packet logs and who still writes to them.                           *)

Running == {job[t].run : t \in Simulating}

\* What terminals do to files: nothing, open the logs of one new run, or write
\* those of one that runs.
LEMMA RunningSteps ==
  ASSUME SimulationInv, Simulate
  PROVE  \/ UNCHANGED <<files, runs>> /\ Running' \subseteq Running
         \/ /\ \E script \in AllScripts, seed \in AnySeed : OpenLogs(script, seed)
            /\ Running' \subseteq Running \cup {Len(runs) + 1}
         \/ \E r \in Running : \E logs, n : Written(r, logs, n) /\ Running' \subseteq Running
<1>0. pc \in [Terminals -> Steps] /\ job \in [Terminals -> Jobs]
  BY DEF SimulationInv
<1>1. ASSUME Simulating' \subseteq Simulating, \A t \in Simulating' : job'[t] = job[t]
      PROVE  Running' \subseteq Running
  BY <1>1 DEF Running
<1>2. ASSUME NEW t \in Terminals, NEW step, step # "simulating", Goto(t, step)
      PROVE  Simulating' = Simulating \ {t}
  BY <1>0, <1>2 DEF Goto, Simulating
<1>3. ASSUME NEW ts, Leave(ts)
      PROVE  Running' \subseteq Running
  <2>1. Simulating' = Simulating \ ts /\ \A t \in Simulating' : job'[t] = job[t]
    BY <1>0, <1>3 DEF Leave, Simulating
  <2> QED BY <1>1, <2>1
<1>4. ASSUME NEW t \in Terminals, Start(t) \/ Create(t) \/ CreateFails(t) \/ Chown(t)
      PROVE  UNCHANGED <<files, runs>> /\ Running' \subseteq Running
  <2>1. UNCHANGED <<files, runs, job>>
    BY <1>4 DEF Start, Create, CreateFails, Chown
  <2>2. PICK step \in {"create", "chown", "exec"} : Goto(t, step)
    BY <1>4 DEF Start, Create, CreateFails, Chown, AfterStart
  <2> QED BY <1>1, <1>2, <2>1, <2>2
<1>5. ASSUME NEW t \in Terminals, NEW script, NEW seed, RunScript(t, script, seed)
      PROVE  UNCHANGED <<files, runs>> /\ Running' \subseteq Running
  <2>1. Simulating' = Simulating \ {t}
    BY <1>2, <1>5 DEF RunScript
  <2>2. \A u \in Simulating' : job'[u] = job[u]
    BY <1>0, <1>5, <2>1 DEF RunScript, Simulating
  <2>3. UNCHANGED <<files, runs>>
    BY <1>5, Zenon DEF RunScript
  <2> QED BY <1>1, <2>1, <2>2, <2>3
<1>6. ASSUME NEW t \in Terminals, Exec(t)
      PROVE  \/ UNCHANGED <<files, runs>> /\ Running' \subseteq Running
             \/ /\ \E script \in AllScripts, seed \in AnySeed : OpenLogs(script, seed)
                /\ Running' \subseteq Running \cup {Len(runs) + 1}
  <2>1. CASE Leave({t}) /\ UNCHANGED <<files, runs>>
    BY <1>3, <2>1
  <2>2. CASE Goto(t, Failure(t)) /\ UNCHANGED <<job, files, runs>>
    <3>1. Failure(t) # "simulating"
      BY DEF Failure
    <3> QED BY <1>1, <1>2, <2>2, <3>1
  <2>3. CASE /\ OpenLogs(job[t].script, job[t].seed)
             /\ job' = [job EXCEPT ![t].run = Len(runs) + 1]
             /\ Goto(t, "simulating")
    <3>1. Simulating' = Simulating \cup {t}
      BY <1>0, <2>3 DEF Goto, Simulating
    <3>2. job'[t].run = Len(runs) + 1 /\ \A u \in Simulating : u # t => job'[u] = job[u]
      BY <1>0, <2>3 DEF Jobs, Simulating
    <3>3. Running' \subseteq Running \cup {Len(runs) + 1}
      BY <3>1, <3>2 DEF Running
    <3>4. job[t].script \in AllScripts /\ job[t].seed \in AnySeed
      BY <1>0 DEF Jobs
    <3> QED BY <2>3, <3>3, <3>4
  <2> QED BY <1>6, <2>1, <2>2, <2>3 DEF Exec
<1>7. ASSUME NEW t \in Terminals, Trace(t) \/ EndSimulation(t) PROVE Running' \subseteq Running
  <2>1. CASE Trace(t)
    <3>1. UNCHANGED <<pc, job>>
      BY <2>1 DEF Trace
    <3> QED BY <1>1, <3>1 DEF Simulating
  <2>2. CASE EndSimulation(t)
    BY <1>3, <2>2 DEF EndSimulation
  <2> QED BY <1>7, <2>1, <2>2
<1>8. ASSUME NEW t \in Terminals, EndScript(t)
      PROVE  UNCHANGED <<files, runs>> /\ Running' \subseteq Running
  BY <1>3, <1>8 DEF EndScript
<1>9. ASSUME NEW to, Down(to) PROVE UNCHANGED <<files, runs>> /\ Running' \subseteq Running
  BY <1>3, <1>9 DEF Down
<1>10. CASE \E t \in Terminals : Trace(t) \/ EndSimulation(t)
  <2>1. PICK t \in Terminals : Trace(t) \/ EndSimulation(t)
    BY <1>10
  <2>2. t \in Simulating /\ \E logs, n : Written(job[t].run, logs, n)
    BY <2>1, TracesWrite
  <2> QED BY <1>7, <2>1, <2>2 DEF Running
<1> QED BY <1>4, <1>5, <1>6, <1>8, <1>9, <1>10 DEF Simulate, DockerNext

PacketFiles == {f \in Existing : f[3] = Packets}

\* A program writes one packet log.
LEMMA OnePacketLog ==
  ASSUME NEW script \in AllScripts, NEW seed, NEW f \in Logs(script, seed),
         NEW g \in Logs(script, seed), f[3] = Packets, g[3] = Packets
  PROVE  f = g
<1>1. Packets[1] = "packets" /\ Queues[1] = "queues" /\ Drops[1] = "drops" /\ Unused[1] = "unused"
  BY DEF Packets, Queues, Drops, Unused
<1>2. \A n : /\ Sender(n)[1] = "sender" /\ Receiver(n)[1] = "receiver"
             /\ SwitchA(n)[1] = "switch_A" /\ SwitchC(n)[1] = "switch_C" /\ SwitchE(n)[1] = "switch_E"
  BY DEF Sender, Receiver, SwitchA, SwitchC, SwitchE
<1>3. \A folder, stem, part, s : File(folder, stem, part, s)[3] = part
  BY DEF File
<1> DEFINE own == File(Plain(script.base), script.stem, Packets, seed)
<1> SUFFICES ASSUME NEW h \in Logs(script, seed), h[3] = Packets PROVE h = own
  OBVIOUS
<1>4. CASE script = run_topo
  <2>1. h \in trafficgen_logs(script, seed)
    BY <1>4, LogsByProgram DEF run_topo
  <2> QED BY <1>1, <1>3, <2>1 DEF trafficgen_logs
<1>5. CASE script.program = "trafficgen_small"
  <2>1. h \in trafficgen_small_logs(script, seed)
    BY <1>5, LogsByProgram
  <2> QED BY <1>1, <1>3, <2>1 DEF trafficgen_small_logs
<1>6. CASE script.program = "trafficgen_small_tests"
  <2>1. h \in trafficgen_small_tests_logs(script, seed)
    BY <1>6, LogsByProgram
  <2>2. PICK part : h = File(Plain(script.base), script.stem, part, seed)
    BY <2>1 DEF trafficgen_small_tests_logs
  <2> QED BY <1>3, <2>2
<1>7. CASE script.program = "trafficgen_large_tests"
  <2>1. h \in trafficgen_large_tests_logs(script, seed)
    BY <1>7, LogsByProgram
  <2>2. PICK folder, stem, part, s :
          /\ h = File(folder, stem, part, s)
          /\ part[1] \in {"unused", "receiver", "switch_A", "switch_C", "switch_E", "queues", "drops"}
    BY <1>1, <1>2, <2>1 DEF trafficgen_large_tests_logs
  <2> QED BY <1>1, <1>3, <2>2
<1> QED BY <1>4, <1>5, <1>6, <1>7, Programs

\* s gives for writers how many packets they have left together: every packet log
\* that no one writes to any more, and every table of one that was written to the
\* end, holds as many.
CountsLog(s, x) == ~x.cut /\ x.by \cap Running = {} => Len(x.records) = s[x.by]

Counted(s) ==
  /\ s[{}] = 0
  /\ \A f \in PacketFiles : CountsLog(s, files[f])
  /\ vis.args.tool = "visualise" => CountsLog(s, vis.table)

\* A simulation that runs has opened the logs it is a writer of.
OwnLogs == \A f \in Existing : \A r \in files[f].by \cap Running : f \in LogsOf(r)

CountInv == OwnLogs /\ \E s : Counted(s)

LEMMA CountInit == Init => CountInv
<1> SUFFICES ASSUME Init PROVE CountInv
  OBVIOUS
<1>1. Existing = {}
  BY DEF Init, FilesInit, Existing
<1>2. vis.table.records = <<>> /\ vis.table.by = {}
  BY NoExecutionParts DEF Init, VisInit
<1> DEFINE s == [by \in {{}} |-> 0]
<1>3. s[{}] = 0
  OBVIOUS
<1> HIDE DEF s
<1>4. Counted(s)
  BY <1>1, <1>2, <1>3 DEF Counted, CountsLog, PacketFiles
<1> QED BY <1>1, <1>4 DEF CountInv, OwnLogs

\* Writers, all those who write before or after a step, are so of logs of their own;
\* files of others stay.  What the writers leave in their logs is counted anew.
LEMMA CountMoves ==
  ASSUME CountInv, vis' = vis, vis.table = NoTable,
         NEW writers, Running \subseteq writers, Running' \subseteq writers,
         writers \subseteq RunIds',
         \A f \in PacketFiles' : files'[f].by \subseteq Nat,
         \A r \in RunIds' : runs'[r].script \in AllScripts,
         \A f \in DOMAIN files' : \A r \in files'[f].by \cap writers :
           f \in Logs(runs'[r].script, runs'[r].seed),
         \A f \in PacketFiles' : files'[f].by \cap writers = {} =>
           f \in PacketFiles /\ files'[f] = files[f]
  PROVE  CountInv'
<1>1. PICK s : Counted(s)
  BY DEF CountInv
<1> DEFINE Left(by) == {Len(files'[f].records) : f \in {g \in PacketFiles' : files'[g].by = by}}
           anew == [by \in SUBSET Nat |->
                      IF by \cap writers # {} THEN CHOOSE k : k \in Left(by) ELSE s[by]]
<1>9. PICK t : t = anew
  OBVIOUS
<1>2. ASSUME NEW f \in PacketFiles', files'[f].by \cap writers # {}
      PROVE  t[files'[f].by] = Len(files'[f].records)
  <2> DEFINE by == files'[f].by
  <2>1. PICK r \in RunIds' : r \in by \cap writers
    BY <1>2
  <2>2. \A g \in PacketFiles' : files'[g].by = by => g = f
    <3>1. \A g \in PacketFiles' : files'[g].by = by =>
            g \in Logs(runs'[r].script, runs'[r].seed) /\ g[3] = Packets
      BY <2>1 DEF PacketFiles, Existing
    <3> QED BY <2>1, <3>1, OnePacketLog
  <2>3. Left(by) = {Len(files'[f].records)}
    BY <2>2
  <2>4. by \in SUBSET Nat /\ by \cap writers # {}
    BY <1>2
  <2> HIDE DEF by, Left
  <2>5. t[by] = CHOOSE k : k \in Left(by)
    BY <1>9, <2>4
  <2> QED BY <2>3, <2>5 DEF by
<1>3. \A by \in SUBSET Nat : by \cap writers = {} => t[by] = s[by]
  BY <1>9
<1> HIDE DEF anew, Left
<1>4. ASSUME NEW f \in PacketFiles', ~files'[f].cut, files'[f].by \cap Running' = {}
      PROVE  Len(files'[f].records) = t[files'[f].by]
  <2>1. CASE files'[f].by \cap writers # {}
    BY <1>2, <2>1
  <2>2. CASE files'[f].by \cap writers = {}
    <3>1. f \in PacketFiles /\ files'[f] = files[f] /\ files[f].by \cap Running = {}
      BY <2>2
    <3>2. Len(files[f].records) = s[files[f].by]
      BY <1>1, <1>4, <3>1 DEF Counted, CountsLog
    <3> QED BY <1>3, <2>2, <3>1, <3>2
  <2> QED BY <2>1, <2>2
<1>5. t[{}] = 0
  BY <1>1, <1>3 DEF Counted
<1>6. vis'.table.by = {} /\ Len(vis'.table.records) = 0
  BY NoExecutionParts
<1>7. Counted(t)'
  BY <1>4, <1>5, <1>6 DEF Counted, CountsLog
<1>8. OwnLogs'
  BY DEF OwnLogs, LogsOf, Existing
<1> QED BY <1>7, <1>8 DEF CountInv

LEMMA CountSimulate ==
  ASSUME Typed, Typed', CountInv, Simulate, vis.table = NoTable
  PROVE  CountInv'
<1>0. /\ SimulationInv /\ vis' = vis /\ Len(runs) \in Nat
      /\ Running \subseteq RunIds /\ RunIds \subseteq RunIds'
      /\ \A r \in RunIds : runs'[r] = runs[r]
  <2>1. SimulationInv /\ vis' = vis /\ Len(runs) \in Nat
    BY DEF Typed, SimulationInv, Simulate
  <2>2. Running \subseteq RunIds
    BY <2>1 DEF SimulationInv, Running, Simulating
  <2>3. [Next]_vars
    BY DEF Next
  <2> QED BY <2>1, <2>2, <2>3, RunsStay
<1>1. \A f \in Existing : files[f].by \subseteq RunIds
  BY DEF Typed, FileSeeds, Right
<1>2. \A f \in PacketFiles' : files'[f].by \subseteq Nat
  BY DEF Typed, FileSeeds, Right, PacketFiles, RunIds
<1>3. \A r \in RunIds' : runs'[r].script \in AllScripts
  <2>1. runs' \in Seq(RunRecords)
    BY DEF Typed, SimulationInv
  <2>2. \A r \in 1 .. Len(runs') : runs'[r] \in RunRecords
    BY <2>1
  <2> QED BY <2>2 DEF RunIds, RunRecords
<1>4. \A f \in Existing : \A r \in files[f].by \cap Running :
        f \in Logs(runs'[r].script, runs'[r].seed)
  BY <1>0 DEF CountInv, OwnLogs, LogsOf
<1>5. CASE UNCHANGED <<files, runs>> /\ Running' \subseteq Running
  BY <1>0, <1>2, <1>3, <1>4, <1>5, CountMoves DEF Existing, PacketFiles
<1>6. ASSUME NEW script \in AllScripts, NEW seed \in AnySeed, OpenLogs(script, seed),
             Running' \subseteq Running \cup {Len(runs) + 1}
      PROVE  CountInv'
  <2> DEFINE n == Len(runs) + 1
             logs == Logs(script, seed)
             entry == Content({n}, <<>>, FALSE)
             new == [f \in logs |-> entry]
  <2>1. Put(new) /\ entry.by = {n}
    BY <1>6, ContentParts DEF OpenLogs
  <2>2. /\ n \in RunIds' /\ n \notin RunIds
        /\ runs'[n].script = script /\ runs'[n].seed = seed
    <3>1. /\ Len(runs') = n
          /\ runs'[n] = [script |-> script, seed |-> seed, random |-> RandomSeed(script, seed)]
      BY <1>0, <1>6, AppendRun DEF SimulationInv
    <3> HIDE DEF n
    <3>2. runs'[n].script = script /\ runs'[n].seed = seed
      BY <3>1
    <3> QED BY <1>0, <3>1, <3>2 DEF n, RunIds
  <2> HIDE DEF n, entry
  <2>3. /\ DOMAIN new = logs /\ \A f \in logs : new[f] = entry
    OBVIOUS
  <2> HIDE DEF new, logs
  <2>4. /\ DOMAIN files' = Existing \cup logs
        /\ \A f \in DOMAIN files' : files'[f] = IF f \in logs THEN entry ELSE files[f]
    BY <2>1, <2>3, PutValues
  <2>5. \A f \in DOMAIN files' : \A r \in files'[f].by \cap (Running \cup {n}) :
          f \in Logs(runs'[r].script, runs'[r].seed)
    BY <1>0, <1>1, <1>4, <2>1, <2>2, <2>4 DEF logs
  <2>6. \A f \in PacketFiles' : files'[f].by \cap (Running \cup {n}) = {} =>
          f \in PacketFiles /\ files'[f] = files[f]
    BY <2>1, <2>4 DEF PacketFiles, Existing
  <2>7. Running \subseteq Running \cup {n} /\ Running' \subseteq Running \cup {n}
        /\ Running \cup {n} \subseteq RunIds'
    BY <1>0, <1>6, <2>2 DEF n
  <2> QED BY <1>0, <1>2, <1>3, <2>5, <2>6, <2>7, CountMoves
<1>7. ASSUME NEW r \in Running, NEW logs, NEW n, Written(r, logs, n), Running' \subseteq Running
      PROVE  CountInv'
  <2>1. /\ DOMAIN files' = Existing
        /\ \A f \in Existing : files'[f].by = files[f].by \cup (IF f \in logs THEN {r} ELSE {})
        /\ \A f \in Existing \ logs : files'[f] = files[f]
    BY <1>7, WrittenValues
  <2>2. logs \subseteq Logs(runs'[r].script, runs'[r].seed)
    BY <1>7 DEF Written, LogsOf
  <2>3. \A f \in DOMAIN files' : \A q \in files'[f].by \cap Running :
          f \in Logs(runs'[q].script, runs'[q].seed)
    BY <1>4, <2>1, <2>2
  <2>4. \A f \in PacketFiles' : files'[f].by \cap Running = {} =>
          f \in PacketFiles /\ files'[f] = files[f]
    BY <1>7, <2>1 DEF PacketFiles, Existing
  <2> QED BY <1>0, <1>2, <1>3, <1>7, <2>3, <2>4, CountMoves
<1> QED BY <1>0, <1>5, <1>6, <1>7, RunningSteps

-----------------------------------------------------------------------------
(* The packets that visualise.py counts.                                   *)

\* visualise.py makes its table of one log.
LEMMA OneLog ==
  ASSUME NEW a, a.tool = "visualise"
  PROVE  LET log == FileList(a)[1]
         IN  /\ Len(FileList(a)) = 1 /\ FileList(a) = <<log>>
             /\ log[3] = Packets /\ log[5] = "log"
             /\ Final(log)[3] = Packets /\ Final(log)[5] = "final"
             /\ [Final(log) EXCEPT ![5] = "log"] = log
<1> DEFINE log == TestLog(a, Packets)
<1>1. FileList(a) = <<log>>
  BY DEF FileList, VisualiseList
<1>2. /\ log[3] = Packets /\ log[5] = "log"
      /\ Final(log)[3] = Packets /\ Final(log)[5] = "final"
      /\ [Final(log) EXCEPT ![5] = "log"] = log
  BY FinalNames DEF TestLog
<1> HIDE DEF log
<1>3. Len(FileList(a)) = 1 /\ FileList(a)[1] = log
  BY <1>1
<1> QED BY <1>1, <1>2, <1>3

\* A table of packets, in order.
InOrder(x) == x.records \in Seq(LogRecords(Packets)) /\ Numbered(x.records)

\* Its table holds the packets of the log.
LEMMA OneTable ==
  ASSUME FilesOk, NEW a, a.tool = "visualise", ListRepaired(FileList(a))
  PROVE  LET log == FileList(a)[1]
             x == TablesOf(FileList(a))
         IN  /\ log \in PacketFiles /\ ~files[log].cut
             /\ x.by = files[log].by /\ Len(x.records) = Len(files[log].records)
             /\ InOrder(x)
<1> DEFINE list == FileList(a)
           log == list[1]
<1>1. list = <<log>> /\ Len(list) = 1 /\ log[3] = Packets /\ log[5] = "log"
  BY OneLog
<1> HIDE DEF list, log
<1>2. log \in Existing /\ Len(files[log].records) >= 2
  <2>1. Repairable(list[1])
    BY <1>1 DEF ListRepaired, list
  <2> QED BY <2>1 DEF Repairable, log
<1>3. /\ files[log].records \in Seq(LogRecords(Packets)) /\ Numbered(files[log].records)
      /\ ~files[log].cut
  BY <1>1, <1>2 DEF FilesOk, FileOk, IsTable
<1>4. PICK new : new = Repaired(log).records
  OBVIOUS
<1>5. files[log].records # <<>>
  BY <1>2
<1>6. /\ new \in Seq(LogRecords(Packets)) /\ Len(new) = Len(files[log].records)
      /\ \A i \in 1 .. Len(new) : new[i].no = files[log].records[i].no
  BY <1>3, <1>4, <1>5, RepairedRecords
<1>7. Numbered(new)
  BY <1>3, <1>6 DEF Numbered
<1>8. \A by, records : Table(by, records).by = by /\ Table(by, records).records = records
  BY DEF Table, Content
<1>9. TablesOf(list).records = new
  <2>1. [i \in 1 .. Len(list) |-> Repaired(list[i]).records] = <<new>>
    BY <1>1, <1>4 DEF log
  <2>2. TablesOf(list).records = FlattenSeq(<<new>>)
    BY <1>8, <2>1 DEF TablesOf
  <2> QED BY <1>6, <2>2, FlatOne
<1>10. TablesOf(list).by = files[log].by
  <2>1. UNION {files[list[i]].by : i \in 1 .. Len(list)} = files[log].by
    BY <1>1 DEF log
  <2> QED BY <1>8, <2>1 DEF TablesOf
<1> QED BY <1>1, <1>2, <1>3, <1>6, <1>7, <1>9, <1>10 DEF InOrder, PacketFiles, list, log

\* A table made of a packet log and written to the end has its runs and its length.
LEMMA MadeCounts ==
  ASSUME FilesOk, NEW f, NEW x, MadeOf(f, x), f[3] = Packets,
         NEW s, \A g \in PacketFiles : CountsLog(s, files[g])
  PROVE  CountsLog(s, x)
<1>1. PICK log \in Existing :
        /\ f[3] = log[3] /\ log[5] = "log"
        /\ \E table : /\ TableOf(log, table)
                      /\ x = table \/ x \in Remains(table)
  BY DEF MadeOf
<1>2. PICK table : TableOf(log, table) /\ (x = table \/ x \in Remains(table))
  BY <1>1
<1>3. log[3] = Packets /\ log[5] = "log"
  BY <1>1
<1>4. /\ files[log].records \in Seq(LogRecords(Packets)) /\ Numbered(files[log].records)
      /\ ~files[log].cut
  BY <1>3 DEF FilesOk, FileOk, IsTable
<1>5. /\ IsTable(table, Packets) /\ table.by = files[log].by
      /\ Len(table.records) = Len(files[log].records)
  BY <1>2, <1>3, <1>4, TablesMade
<1>6. CASE x = table
  BY <1>3, <1>4, <1>5, <1>6 DEF CountsLog, PacketFiles
<1>7. CASE x \in Remains(table)
  BY <1>5, <1>7, RemainsOk DEF CountsLog
<1> QED BY <1>2, <1>6, <1>7

\* What a step of visualise.py does to the packet logs and their tables.
LEMMA CountWrites ==
  ASSUME Typed, Visualise, NEW s, \A g \in PacketFiles : CountsLog(s, files[g])
  PROVE  /\ \A f \in PacketFiles' : CountsLog(s, files'[f])
         /\ \A f \in PacketFiles : f \in Existing'
<1>0. SimulationInv /\ VisInv /\ FilesOk
  BY DEF Typed
<1> DEFINE Goal == /\ \A f \in PacketFiles' : CountsLog(s, files'[f])
                   /\ \A f \in PacketFiles : f \in Existing'
<1>1. CASE files' = files
  BY <1>1 DEF PacketFiles, Existing
<1>2. ASSUME NEW new, Put(new),
             \A f \in DOMAIN new : f[3] = Packets => CountsLog(s, new[f])
      PROVE  Goal
  <2>1. \A f \in Existing' : (f \in DOMAIN new /\ files'[f] = new[f])
                             \/ (f \in Existing /\ files'[f] = files[f])
    BY <1>2 DEF Put, Existing
  <2>2. Existing' = Existing \cup DOMAIN new
    BY <1>2, PutMore
  <2> QED BY <1>2, <2>1, <2>2 DEF PacketFiles
<1>3. ASSUME NEW b, Collect(b) PROVE Goal
  <2>1. PICK new : Put(new) /\ new = [log \in CollectedLogs(b) |-> files[Source(log)]]
    BY <1>3 DEF Collect
  <2>2. ASSUME NEW log \in CollectedLogs(b), log[3] = Packets PROVE CountsLog(s, new[log])
    <3>1. Source(log) \in PacketFiles
      BY <1>3, <2>2, SourceNames DEF Collect, PacketFiles
    <3> QED BY <2>1, <3>1
  <2> QED BY <1>2, <2>1, <2>2
<1>4. ASSUME NEW new, Put(new), \A f \in DOMAIN new : MadeOf(f, new[f]) PROVE Goal
  BY <1>0, <1>2, <1>4, MadeCounts
<1>5. ASSUME NEW log \in Existing, NEW fixed, Move(log, fixed, files[log]),
             fixed[3] = log[3], log[3] # Packets
      PROVE  Goal
  <2>1. /\ Existing' = (Existing \ {log}) \cup {fixed}
        /\ \A f \in Existing' : f # fixed => files'[f] = files[f]
    BY <1>5 DEF Move, Existing
  <2> QED BY <1>5, <2>1 DEF PacketFiles
<1> HIDE DEF Goal
<1>6. Goal
  BY <1>0, <1>3, <1>4, <1>5, VisualiseWrites, <1>1 DEF Goal
<1> QED BY <1>6 DEF Goal

\* What visualise.py has read is numbered through, and the log of it is there; no
\* script runs meanwhile.
ReportInv ==
  /\ vis.step = "idle" => vis.table = NoTable
  /\ vis.step # "idle" => Busy = {}
  /\ vis.args.tool = "visualise" =>
       /\ InOrder(vis.table)
       /\ vis.step \in {"senders", "plot", "queue", "drops", "rates", "done"} =>
            List[1] \in Existing

LEMMA ReportInit == Init => ReportInv
<1>1. InOrder(NoTable)
  BY NoExecutionParts, EmptySeq DEF InOrder, Numbered
<1>2. Init => vis.step = "idle" /\ vis.table = NoTable
  BY NoExecutionParts DEF Init, VisInit
<1> QED BY <1>1, <1>2 DEF ReportInv

\* The table changes only when one is found or made.
LEMMA TableRead ==
  ASSUME Typed, LogsThere, ReportInv, Visualise, vis'.args.tool = "visualise",
         NEW s, s[{}] = 0, \A f \in PacketFiles : CountsLog(s, files[f]),
         vis.args.tool = "visualise" => CountsLog(s, vis.table)
  PROVE  /\ CountsLog(s, vis'.table) /\ InOrder(vis'.table)
         /\ vis'.step \in {"senders", "plot", "queue", "drops", "rates", "done"} =>
              vis'.args = vis.args /\ List[1] \in Existing
<1>0. SimulationInv /\ VisInv /\ VisSeeds /\ FilesOk
  BY DEF Typed
<1> DEFINE Goal == /\ CountsLog(s, vis'.table) /\ InOrder(vis'.table)
                   /\ vis'.step \in {"senders", "plot", "queue", "drops", "rates", "done"} =>
                        vis'.args = vis.args /\ List[1] \in Existing
           New == Found \/ Generated
           Old == Ended \/ SenderDone \/ Plotted \/ QueueRead \/ DropsRead
<1>1. CountsLog(s, NoTable) /\ InOrder(NoTable)
  BY NoExecutionParts DEF CountsLog, InOrder, Numbered
<1>2. CASE vis' = vis
  BY <1>2 DEF ReportInv
<1>3. CASE vis' = NoExecution
  BY <1>1, <1>3, NoExecutionParts
<1>4. ASSUME NEW b, Begin(b) PROVE Goal
  BY <1>1, <1>4, BeginParts
<1>5. CASE Old
  <2>1. /\ vis'.args = vis.args /\ vis'.table = vis.table
        /\ vis'.step \in {"senders", "plot", "queue", "drops", "rates", "done"} =>
             vis.step \in {"senders", "plot", "queue", "drops", "rates", "done"}
    BY <1>5 DEF Ended, SenderDone, Plotted, QueueRead, DropsRead, Unchanged
  <2> QED BY <2>1 DEF ReportInv
<1>6. CASE New
  <2>1. vis'.args = vis.args /\ vis.step = "tables" /\ vis.args.tool = "visualise"
    BY <1>6 DEF Found, Generated, Tabled, Unchanged
  <2> DEFINE log == List[1]
  <2>2. /\ Len(List) = 1 /\ log[3] = Packets /\ log[5] = "log"
        /\ Final(log)[3] = Packets /\ Final(log)[5] = "final"
        /\ [Final(log) EXCEPT ![5] = "log"] = log
    BY <2>1, OneLog DEF List
  <2>3. vis.at = 1
    <3>1. vis.at \in 1 .. Len(List)
      BY <1>0, <2>1 DEF VisSeeds, List
    <3> QED BY <2>2, <3>1
  <2>4. CASE Found
    <3>1. Final(log) \in Existing /\ vis'.table = files[Final(log)]
      BY <2>3, <2>4 DEF Found, Tabled
    <3> HIDE DEF log
    <3>2. log \in Existing
      BY <2>2, <3>1 DEF LogsThere
    <3>3. CountsLog(s, files[Final(log)]) /\ InOrder(files[Final(log)])
      BY <1>0, <2>2, <3>1 DEF FilesOk, FileOk, IsTable, InOrder, PacketFiles
    <3> QED BY <2>1, <3>1, <3>2, <3>3 DEF log
  <2>5. CASE Generated
    <3> DEFINE x == TablesOf(List)
    <3>1. vis'.table = x /\ ListRepaired(List)
      BY <2>5 DEF Generated, Tabled
    <3>2. /\ log \in PacketFiles /\ ~files[log].cut
          /\ x.by = files[log].by /\ Len(x.records) = Len(files[log].records)
          /\ InOrder(x)
      BY <1>0, <2>1, <3>1, OneTable DEF List
    <3> HIDE DEF x, log
    <3>3. CountsLog(s, x) /\ log \in Existing
      BY <3>2 DEF CountsLog, PacketFiles
    <3> QED BY <2>1, <3>1, <3>2, <3>3 DEF log
  <2> QED BY <1>6, <2>4, <2>5
<1> HIDE DEF Goal
<1>7. Goal
  BY <1>0, <1>2, <1>3, <1>4, <1>5, <1>6, VisMoves DEF Goal
<1> QED BY <1>7 DEF Goal

\* What visualise.py counts is what the runs of its table had written.
LEMMA CountVisualise ==
  ASSUME Typed, LogsThere, CountInv, ReportInv, Visualise
  PROVE  CountInv' /\ ReportInv'
<1>1. UNCHANGED <<runs, pc, job>> /\ Busy = {}
  BY OthersLeaveRuns DEF Visualise, docker
<1>2. Simulating = {} /\ Simulating' = {} /\ Running = {} /\ Running' = {}
  BY <1>1 DEF Busy, Simulating, Running
<1>3. PICK s : Counted(s)
  BY DEF CountInv
<1>4. /\ \A f \in PacketFiles' : CountsLog(s, files'[f])
      /\ \A f \in PacketFiles : f \in Existing'
  BY <1>3, CountWrites DEF Counted
<1>5. vis'.args.tool = "visualise" =>
        /\ CountsLog(s, vis'.table) /\ InOrder(vis'.table)
        /\ vis'.step \in {"senders", "plot", "queue", "drops", "rates", "done"} =>
             vis'.args = vis.args /\ List[1] \in Existing
  BY <1>3, TableRead DEF Counted
<1>6. CountInv'
  <2>1. RunIds' = RunIds
    BY <1>1 DEF RunIds
  <2>2. Counted(s)'
    BY <1>2, <1>3, <1>4, <1>5, <2>1 DEF Counted, CountsLog
  <2>3. OwnLogs'
    BY <1>2 DEF OwnLogs
  <2> QED BY <2>2, <2>3 DEF CountInv
<1>7. ReportInv'
  <2>1. ASSUME vis'.args.tool = "visualise", vis'.args = vis.args, List[1] \in Existing
        PROVE  List'[1] \in Existing'
    <3>1. List' = List
      BY <2>1 DEF List
    <3>2. List[1] \in PacketFiles
      BY <2>1, OneLog DEF List, PacketFiles
    <3> QED BY <1>4, <3>1, <3>2
  <2>2. vis'.step = "idle" => vis'.table = NoTable
    <3>1. \A b : Begin(b) => vis'.step # "idle"
      BY BeginParts
    <3>2. Ended \/ Found \/ Generated \/ SenderDone \/ Plotted \/ QueueRead \/ DropsRead
            => vis'.step # "idle"
      BY DEF Ended, Found, Generated, Tabled, SenderDone, Plotted, QueueRead, DropsRead
    <3>3. vis' = NoExecution => vis'.table = NoTable
      BY NoExecutionParts
    <3> QED BY <3>1, <3>2, <3>3, VisMoves DEF Typed, ReportInv
  <2>3. NoTable' = NoTable /\ Busy' = {}
    BY <1>1 DEF NoTable, Busy
  <2> QED BY <1>5, <2>1, <2>2, <2>3 DEF ReportInv, InOrder, Numbered
<1> QED BY <1>6, <1>7

\* No step leaves a table without the records of the runs it is made of.
LEMMA CountStep ==
  Typed /\ Typed' /\ LogsThere /\ CountInv /\ ReportInv /\ [Next]_vars => CountInv' /\ ReportInv'
<1> SUFFICES ASSUME Typed, Typed', LogsThere, CountInv, ReportInv, [Next]_vars
             PROVE  CountInv' /\ ReportInv'
  OBVIOUS
<1>1. CASE Simulate
  <2>1. vis' = vis /\ vis.step = "idle"
    BY <1>1 DEF Simulate
  <2>2. ReportInv'
    BY <2>1 DEF ReportInv, List, InOrder, Numbered
  <2>3. vis.table = NoTable
    BY <2>1 DEF ReportInv
  <2> QED BY <1>1, <2>2, <2>3, CountSimulate
<1>2. CASE MakeFolder \/ Evaluate \/ UNCHANGED vars
  <2>1. UNCHANGED <<files, runs, vis, pc, job>>
    BY <1>2 DEF MakeFolder, Evaluate, vars, docker
  <2>2. Running' = Running /\ Existing' = Existing /\ PacketFiles' = PacketFiles /\ Busy' = Busy
    BY <2>1 DEF Running, Simulating, Existing, PacketFiles, Busy
  <2>3. ReportInv'
    BY <2>1, <2>2 DEF ReportInv, List, InOrder, Numbered
  <2>4. PICK s : Counted(s)
    BY DEF CountInv
  <2>5. Counted(s)'
    BY <2>1, <2>2, <2>4 DEF Counted, CountsLog
  <2>6. OwnLogs'
    BY <2>1, <2>2 DEF CountInv, OwnLogs, LogsOf
  <2> QED BY <2>3, <2>5, <2>6 DEF CountInv
<1> QED BY <1>1, <1>2, CountVisualise DEF Next

LEMMA LogsThereInit == Init => LogsThere
  BY DEF Init, FilesInit, LogsThere, Existing

\* The packets that visualise.py counts are all those of the log, in order, unless
\* the table was cut short by a kill or is from an earlier simulation.
THEOREM PacketsCorrect == Spec => []PacketsCounted
<1> DEFINE Inv == Typed /\ LogsThere /\ CountInv /\ ReportInv
<1>1. Init => Inv
  BY TypedInit, LogsThereInit, CountInit, ReportInit
<1>2. Inv /\ [Next]_vars => Inv'
  BY TypedStep, LogsThereStep, CountStep DEF Typed
<1>3. Inv => PacketsCounted
  <2> SUFFICES ASSUME Inv, vis.step = "done", vis.args.tool = "visualise", ~vis.table.cut
               PROVE  /\ Numbered(vis.table.records)
                      /\ vis.table.by = files[List[1]].by =>
                           Len(vis.table.records) = Len(files[List[1]].records)
    BY DEF PacketsCounted, Numbered
  <2> DEFINE log == List[1]
  <2>1. InOrder(vis.table) /\ log \in PacketFiles /\ ~files[log].cut /\ Busy = {}
    BY OneLog DEF ReportInv, List, PacketFiles, Typed, FilesOk, FileOk
  <2>2. Running = {}
    BY <2>1 DEF Running, Simulating, Busy
  <2>3. PICK s : Counted(s)
    BY DEF CountInv
  <2> HIDE DEF log
  <2>4. /\ Len(files[log].records) = s[files[log].by]
        /\ Len(vis.table.records) = s[vis.table.by]
    BY <2>1, <2>2, <2>3 DEF Counted, CountsLog
  <2> QED BY <2>1, <2>4 DEF InOrder, log
<1> QED BY <1>1, <1>2, <1>3, PTL DEF Spec

=============================================================================
