----------------------------- MODULE ResultFiles -----------------------------
(***************************************************************************)
(* The files that the simulations leave behind: which script starts which  *)
(* program, where its logs go, what happens to them when it ends, is       *)
(* killed, or shares a name with another.                                  *)
(*                                                                         *)
(* A file is named by its folder, its stem, the part that a program adds   *)
(* to the stem, the seed in its name (0: none) and whether it is a log or  *)
(* the table that visualise.py made of it.  A folder is a base and what    *)
(* visualise.py puts into its name: label, TCP variant, seed, bandwidth    *)
(* ("-" or 0: none).                                                       *)
(***************************************************************************)
EXTENDS Integers, Sequences, FiniteSets

CONSTANTS
  Seeds,         \* the seeds that scripts are given
  Records,       \* number of records of a log written to the end
  Lines,         \* the same of the queue and drop logs
  TestSenders    \* the node numbers of the senders of trafficgen_small_tests

ASSUME SeedsAssumption == Seeds \subseteq Nat \ {0}

ASSUME RecordsAssumption == Records \in Nat /\ Lines \in 0 .. Records

VARIABLES
  files,         \* the files there are: name -> who wrote it, its records,
                 \*   whether the writing of it was cut short
  folders,       \* the folders there are
  runs           \* the simulations started so far

-----------------------------------------------------------------------------
(* Names.                                                                  *)

Plain(base) == <<base, "-", "-", 0, 0>>

File(folder, stem, part, seed) == <<folder, stem, part, seed, "log">>

Packets == <<"packets", 0>>
Queues == <<"queues", 0>>
Drops == <<"drops", 0>>
Unused == <<"unused", 0>>
Sender(n) == <<"sender", n>>
Receiver(n) == <<"receiver", n>>
SwitchA(port) == <<"switch_A", port>>
SwitchC(port) == <<"switch_C", port>>
SwitchE(port) == <<"switch_E", port>>

Existing == DOMAIN files

-----------------------------------------------------------------------------
(* The scripts: program, folder made before it runs, folder and stem of    *)
(* the logs.                                                               *)

run_topo ==
  [program |-> "trafficgen", makes |-> "results",
   base |-> "results", stem |-> "large_test_disturbance"]

run_topo_small ==
  [program |-> "trafficgen_small", makes |-> "results",
   base |-> "results", stem |-> "small_test_one_disturbance"]

run_topo_no_disturbance ==
  [program |-> "trafficgen_small", makes |-> "results",
   base |-> "results", stem |-> "small_test_no_disturbance"]

run_topo_small_tests ==
  [program |-> "trafficgen_small_tests", makes |-> "results_test",
   base |-> "results_test", stem |-> "small_test_no_disturbance"]

run_topo_large_tests ==
  [program |-> "trafficgen_large_tests", makes |-> "results_test",
   base |-> "results_test_large", stem |-> "small_test_no_disturbance"]

AllScripts == {run_topo, run_topo_small, run_topo_no_disturbance,
               run_topo_small_tests, run_topo_large_tests}

-----------------------------------------------------------------------------
(* The programs: the logs they open and the seed of their random numbers.  *)

\* Mutant: the packet log is not named after the seed.
Mutant_logs(script, seed) ==
  {File(Plain(script.base), script.stem, Packets, 1),
   File(Plain("results"), "queue", Queues, 0),
   File(Plain("results"), "drops", Drops, 0)}

trafficgen_logs(script, seed) ==
  {File(Plain(script.base), script.stem, Packets, seed),
   File(Plain("results"), "queue", Queues, 0),
   File(Plain("results"), "drops", Drops, 0)}

trafficgen_small_logs(script, seed) ==
  {File(Plain(script.base), script.stem, Packets, seed),
   File(Plain("results"), "queue_status", Queues, 0),
   File(Plain("results"), "drop_pkts", Drops, 0)}

trafficgen_small_tests_logs(script, seed) ==
  {File(Plain(script.base), script.stem, part, seed) :
     part \in {Packets, Queues, Drops} \cup {Sender(n) : n \in TestSenders}}

\* The file named by the prefix is opened; no trace writes to it.
trafficgen_large_tests_logs(script, seed) ==
  {File(Plain(script.base), script.stem, Unused, seed)}
  \cup {File(Plain("results_test_large"), "-", part, 0) :
     part \in UNION {{Receiver(n), SwitchA(n), SwitchC(n), SwitchE(n)} : n \in 1 .. 3}}
  \cup {File(Plain("results_test_large"), "queue", Queues, 0),
        File(Plain("results_test_large"), "drops", Drops, 0)}

Logs(script, seed) ==
  CASE script.program = "trafficgen" -> trafficgen_logs(script, seed)
    [] script.program = "trafficgen_small" -> trafficgen_small_logs(script, seed)
    [] script.program = "trafficgen_small_tests" ->
         trafficgen_small_tests_logs(script, seed)
    [] OTHER -> trafficgen_large_tests_logs(script, seed)

\* Mutant: its own variable starts at 0.
MutantSmallSeed(seed) == 0

\* The small program parses the flag into a parameter passed by value, so that
\* its own variable stays at 1.
SmallSeed(seed) == 1

RandomSeed(script, seed) ==
  IF script.program = "trafficgen_small" THEN SmallSeed(seed) ELSE seed

-----------------------------------------------------------------------------
(* Contents.  A record is known by the log it is from and its number.      *)

Record(part, n) == [from |-> part, no |-> n, text |-> FALSE]

FirstRecords(part, n) == [i \in 1 .. n |-> Record(part, i)]

Content(by, records, cut) == [by |-> by, records |-> records, cut |-> cut]

\* The files of new, a function of names, are written: created or replaced.
Put(new) ==
  files' = [f \in Existing \cup DOMAIN new |->
              IF f \in DOMAIN new THEN new[f] ELSE files[f]]

RunIds == 1 .. Len(runs)

\* A program opens its logs when it starts: what they held is gone.
OpenLogs(script, seed) ==
  /\ Put([f \in Logs(script, seed) |-> Content({Len(runs) + 1}, <<>>, FALSE)])
  /\ runs' = Append(runs, [script |-> script, seed |-> seed,
                           random |-> RandomSeed(script, seed)])

\* Opening fails, and ends the program, if the folder is missing.
CanOpen(script, seed) == \A f \in Logs(script, seed) : f[1] \in folders

LogsOf(r) == Logs(runs[r].script, runs[r].seed)

\* logValue and logDrop end a line with std::endl, which puts it on the disk; the
\* other lines end with "\n" and reach it in blocks.
LineByLine(f) == f[3] \in {Queues, Drops}

LinesOf(r) == {f \in LogsOf(r) \cap Existing : LineByLine(f)}

BlocksOf(r) == {f \in LogsOf(r) \cap Existing : ~LineByLine(f) /\ f[3] # Unused}

\* The log is r's alone: r opened it last, and no one else has written since.
Own(f, r) == files[f].by = {r}

\* What simulation r has written to logs is on the disk, n records.
Flush(r, logs, n) ==
  Put([f \in logs |-> Content(files[f].by \cup {r}, FirstRecords(f[3], n), FALSE)])

\* Each simulation that has a log open writes at its own place in the file, over
\* what is there or beyond its end: rows get lost, so that of a log that is not
\* r's alone any number of rows may be left.
WriteLine(r) ==
  \E f \in LinesOf(r), n \in 0 .. Lines :
    /\ Own(f, r) => n = Len(files[f].records) + 1
    /\ Flush(r, {f}, n)

WriteBlock(r) ==
  \E n \in 0 .. Records :
    /\ \A f \in BlocksOf(r) : Own(f, r) => n > Len(files[f].records)
    /\ Flush(r, BlocksOf(r), n)

\* The simulation has been run to its end, and its streams are closed.
CloseLogs(r) ==
  \E n \in 0 .. Records :
    /\ \A f \in LinesOf(r) : Own(f, r) => Len(files[f].records) = Lines
    /\ \A f \in BlocksOf(r) : Own(f, r) => n = Records
    /\ Flush(r, BlocksOf(r), n)

FilesInit ==
  /\ files = <<>>
  /\ folders = {Plain(".")}
  /\ runs = <<>>

FilesType ==
  /\ \A f \in Existing :
       /\ f[1] \in folders
       /\ files[f].by \subseteq RunIds
       /\ \A i \in 1 .. Len(files[f].records) : files[f].records[i].no \in 1 .. Records
       /\ files[f].cut \in BOOLEAN
  /\ \A r \in RunIds : /\ runs[r].script \in AllScripts
                       /\ runs[r].seed \in Seeds
                       /\ runs[r].random \in Seeds \cup {1}
=============================================================================
