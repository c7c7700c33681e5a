---------------------------- MODULE Experiments ----------------------------
(***************************************************************************)
(* Experiments from the run scripts to the reports: terminals that run     *)
(* simulations in the shared container (DockerRunner), the evaluation of   *)
(* their logs (Evaluation) and their visualisation (Visualisation).        *)
(*                                                                         *)
(* The user is out for one of several campaigns: the scripts that are      *)
(* started and how many at a time, the seeds they are given, the switches  *)
(* that eval.py is set to and the command lines of the visualisation.      *)
(* Campaigns of different programs share the container and no file.        *)
(*                                                                         *)
(* The user visualises when neither a script nor the evaluation runs: the  *)
(* folders concerned are not those that they read and write.  Evaluation   *)
(* and simulations overlap.                                                *)
(***************************************************************************)
EXTENDS DockerRunner, Evaluation, Visualisation

CONSTANT Campaigns \* records [scripts, atOnce, seeds, switches, requests]

ASSUME CampaignsAssumption ==
  \A c \in Campaigns :
    /\ c.scripts \subseteq AllScripts
    /\ c.atOnce \in Nat
    /\ c.seeds \subseteq Seeds
    /\ c.switches \subseteq [test : BOOLEAN, big : BOOLEAN]
    /\ c.requests \subseteq [tool : {"visualise", "switches"}, rate : Nat, n : Nat,
                            rst : STRING, inf : STRING, seed : Seeds, cc : STRING, bw : Nat]

VARIABLE campaign

vars == <<campaign, files, folders, runs, docker, eval, vis, collected, kills>>

Init ==
  /\ campaign \in Campaigns
  /\ FilesInit /\ DockerInit /\ EvalInit /\ VisInit

\* No script makes the folder that trafficgen_large_tests writes to.
MakeFolder ==
  /\ Busy = {} /\ eval.step = "idle" /\ vis.step = "idle"
  /\ folders' = folders \cup {Plain("results_test_large")}
  /\ UNCHANGED <<campaign, files, runs, docker, eval, vis, collected, kills>>

Simulate ==
  /\ vis.step = "idle"
  /\ \/ \E t \in Terminals, script \in campaign.scripts, seed \in campaign.seeds :
          /\ Cardinality(Busy) < campaign.atOnce
          /\ RunScript(t, script, seed)
     \/ DockerNext
  /\ UNCHANGED <<campaign, eval, vis, collected, kills>>

Evaluate ==
  /\ \/ \E switch \in campaign.switches, seed \in campaign.seeds :
          EvalStart(switch.test, switch.big, seed)
     \/ EvalNext
  /\ UNCHANGED <<campaign, files, folders, runs, docker, vis, collected, kills>>

\* Whether there is a container makes no difference to it: there is none.
Visualise ==
  /\ container = "none" /\ Busy = {} /\ eval.step = "idle"
  /\ \/ \E a \in campaign.requests : Begin(a) \/ Collect(a)
     \/ VisNext
  /\ UNCHANGED <<campaign, docker, eval>>

Next == Simulate \/ MakeFolder \/ Evaluate \/ Visualise

Spec == Init /\ [][Next]_vars

-----------------------------------------------------------------------------
TypeOK ==
  /\ FilesType /\ EvalType /\ VisType
  /\ container \in {"none", "stopped", "running"}
  /\ owned \in BOOLEAN
  /\ pc \in [Terminals -> Steps]
  /\ lost \subseteq Terminals

\* A script finds its container owned by root only if its docker run or chown
\* failed, or the container was removed meanwhile (docker-run.sh: || and &&).
OwnedUnlessLost == \A t \in Terminals : pc[t] = "denied" => t \in lost

IsLarge(r) == runs[r].script = run_topo

NotOlder(later, earlier) == \A q \in earlier : \E r \in later : q <= r

\* A finished eval.py with BIG set has read packets of the seed asked for and
\* everything beside them of the large topology.  With TEST set too, nothing that
\* it reads after the packets, queues, drops and the packets once more, is of older
\* simulations only, and of one that had the log to itself it finds again all rows
\* that it found first.
ReadsNoOlder ==
  (eval.step = "done" /\ eval.big) =>
    /\ \A r \in eval.packets.by \cup eval.receivers.by : runs[r].seed = eval.seed
    /\ \A r \in eval.queue \cup eval.drops \cup eval.receivers.by : IsLarge(r)
    /\ eval.test =>
         /\ NotOlder(eval.queue, eval.packets.by)
         /\ NotOlder(eval.drops, eval.packets.by)
         /\ NotOlder(eval.receivers.by, eval.packets.by)
         /\ \A r \in RunIds : eval.packets.by = {r} /\ eval.receivers.by = {r} =>
              IsPrefix(eval.packets.records, eval.receivers.records)

\* visualise.py reports on the seed asked for: its packets and drops by their
\* names, its queues, which lose theirs, by that of the folder.
ReportOfSeed ==
  (vis.step = "done" /\ vis.args.tool = "visualise") =>
    /\ \A r \in vis.table.by \cup vis.drops.by : runs[r].seed = vis.args.seed
    /\ (vis.args.rate = 1 /\ (vis.args.n \in {1, 3} \/ Given(vis.args.rst))) =>
         \A r \in vis.queue.by : runs[r].seed = vis.args.seed

\* Once the user has put complete logs into a folder, no execution there fails
\* for a missing file, however often others were interrupted before it.
RerunCompletes ==
  vis.step = "missing" => <<FolderOf(vis.args), vis.args.seed>> \notin collected

\* The packets that visualise.py counts for the drop fraction are all those of
\* the log, in order, the one read as header included, unless the table on the
\* disk was cut short by a kill or is from an earlier simulation.
PacketsCounted ==
  (vis.step = "done" /\ vis.args.tool = "visualise" /\ ~vis.table.cut) =>
    LET log == List[1]
    IN  /\ \A i \in 1 .. Len(vis.table.records) : vis.table.records[i].no = i
        /\ vis.table.by = files[log].by =>
             Len(vis.table.records) = Len(files[log].records)

\* Each plot of a finished visualise_switches.py shows one port: that of its
\* number.  (A first execution shows all ports in one table, but never finishes.)
PlotsOnePort ==
  (vis.step = "done" /\ vis.args.tool = "switches") =>
    \A i \in 1 .. Len(vis.plots) : vis.plots[i] \subseteq {List[i][3]}

\* Two simulations started by one script with different seeds draw different
\* random numbers (README: to generate multiple runs pass the seed argument,
\* which varies the start times).
SeedVaries ==
  \A q, r \in RunIds :
    (runs[q].script = runs[r].script /\ runs[q].seed # runs[r].seed) =>
      runs[q].random # runs[r].random
=============================================================================
