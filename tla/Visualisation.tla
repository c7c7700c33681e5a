---------------------------- MODULE Visualisation ----------------------------
(***************************************************************************)
(* visualise.py and visualise_switches.py: logs that the user has put into *)
(* a folder named after the experiment are repaired into tables, kept in   *)
(* files and reused; queue and drop logs are renamed.  One of the two runs *)
(* at a time; it can be interrupted at every step and while it writes.     *)
(* Plots are left out; what they are drawn from is kept.                   *)
(***************************************************************************)
EXTENDS ResultFiles, SequencesExt

CONSTANT MaxKills \* bound: executions that are interrupted

VARIABLES
  kills,         \* counter for the bound
  vis,           \* the execution: its step, its arguments, what it read
  collected      \* history: folder and seed of the logs the user has put
                 \*   there, if complete

-----------------------------------------------------------------------------
(* Arguments and folders.                                                  *)

\* The arguments and, unless it is given, no text for --rst and --infinitedata.
Request(tool, rate, n, rst, inf, seed, cc, bw) ==
  [tool |-> tool, rate |-> rate, n |-> n, rst |-> rst, inf |-> inf, seed |-> seed,
   cc |-> cc, bw |-> bw]

NotGiven == ""

\* --rst and --infinitedata are of type bool: any text given counts, "False" too.
Given(text) == text # NotGiven

NoFolder == Plain("none")

Folder(base, label, cc, seed, bw) == <<base, label, cc, seed, bw>>

Unnumbered(base, label) == Folder(base, label, "-", 0, 0)

\* Mutant: the seed is left out of the name of the folder.
MutantOneSender(a) ==
  IF a.rate = 10 THEN Unnumbered("results_test", "10Mbps_1sender")
  ELSE Folder("results_test", "1Mbps_1sender", a.cc, 0, a.bw)

OneSender(a) ==
  CASE a.rate = 10 -> Unnumbered("results_test", "10Mbps_1sender")
    [] a.rate = 1 /\ Given(a.inf) ->
         Folder("results_test", "1Mbps_1sender_inf", a.cc, a.seed, a.bw)
    [] OTHER -> Folder("results_test", "1Mbps_1sender", a.cc, a.seed, a.bw)

ThreeSenders(a) ==
  CASE a.rate = 10 -> Unnumbered("results_test", "10Mbps_3senders")
    [] a.rate = 1 /\ (Given(a.inf) \/ Given(a.rst)) ->
         Folder("results_test", "1Mbps_3senders_inf_rst",
                IF a.cc = "bbr" THEN "bbr" ELSE "cubic", a.seed, a.bw)
    [] OTHER -> Folder("results_test", "1Mbps_3senders", "-", a.seed, 0)

SixSenders(base, a) ==
  CASE a.rate = 10 -> Unnumbered(base, "10Mbps_6senders")
    [] a.rate = 1 /\ Given(a.inf) ->
         Folder(base, "1Mbps_6senders_inf_rst", "cubic", a.seed, a.bw)
    [] a.rate = 1 /\ ~Given(a.inf) /\ Given(a.rst) ->
         Folder(base, "1Mbps_6senders_rst", "-", a.seed, 0)
    [] OTHER -> Unnumbered(base, "1Mbps_6senders")

SixtySenders(a) ==
  CASE ~Given(a.rst) -> Unnumbered("results_test", "1Mbps_60senders")
    [] Given(a.rst) /\ Given(a.inf) ->
         Folder("results_test", "1Mbps_60senders_inf_rst", a.cc, a.seed, a.bw)
    [] OTHER -> Folder("results_test", "1Mbps_60senders_rst", a.cc, a.seed, a.bw)

NineSenders(base, a) ==
  CASE Given(a.inf) -> Folder(base, "1Mbps_9senders_inf_rst", "cubic", a.seed, a.bw)
    [] ~Given(a.inf) /\ Given(a.rst) -> Folder(base, "1Mbps_9senders_rst", "-", a.seed, 0)
    [] OTHER -> Unnumbered(base, "1Mbps_9senders")

\* Other command lines leave the name of the folder unset.
VisualiseFolder(a) ==
  CASE a.rate \in {1, 10} /\ a.n = 1 -> OneSender(a)
    [] a.rate \in {1, 10} /\ a.n = 3 -> ThreeSenders(a)
    [] a.rate \in {1, 10} /\ a.n = 6 -> SixSenders("results_test", a)
    [] a.rate = 1 /\ a.n = 60 -> SixtySenders(a)
    [] OTHER -> NoFolder

SwitchesFolder(a) ==
  CASE a.rate = 1 /\ a.n = 6 -> SixSenders("results_test_large", a)
    [] a.rate = 1 /\ a.n = 9 -> NineSenders("results_test_large", a)
    [] OTHER -> NoFolder

FolderOf(a) == IF a.tool = "visualise" THEN VisualiseFolder(a) ELSE SwitchesFolder(a)

TestLog(a, part) == File(FolderOf(a), "small_test_no_disturbance", part, a.seed)

\* The logs that tables are made of.
VisualiseList(a) == <<TestLog(a, Packets)>>

SwitchesList(a) ==
  LET PortLog(part) == File(FolderOf(a), "-", part, 0)
  IN  <<PortLog(SwitchA(1)), PortLog(SwitchA(2)), PortLog(SwitchC(1)),
        PortLog(SwitchC(2)), PortLog(SwitchC(3)), PortLog(SwitchE(1)),
        PortLog(SwitchE(2))>>

FileList(a) == IF a.tool = "visualise" THEN VisualiseList(a) ELSE SwitchesList(a)

\* Senders are dealt with if they are 1, 3 or 6; their nodes start at 4.
SenderList(a) ==
  IF a.tool = "visualise" /\ a.n \in {1, 3, 6}
  THEN [i \in 1 .. a.n |-> TestLog(a, Sender(3 + i))]
  ELSE <<>>

-----------------------------------------------------------------------------
(* Tables.                                                                 *)

Final(log) == [log EXCEPT ![5] = "final"]

Table(by, records) == Content(by, records, FALSE)

\* Mutant: the header is not put back.
MutantRepaired(log) == Table(files[log].by, Tail(files[log].records))

\* read_csv takes the first record for the header, np.vstack puts it back: as
\* text, for column names are text.
Repaired(log) ==
  LET records == files[log].records
  IN  Table(files[log].by, << [Head(records) EXCEPT !.text = TRUE] >> \o Tail(records))

\* A table on the disk has a header of its own and no text.
Stored(table) ==
  Table(table.by, [i \in 1 .. Len(table.records) |->
                     [table.records[i] EXCEPT !.text = FALSE]])

\* What a kill leaves of a table while it is written: a file with nothing in it,
\* or its header and its first n records.
Blank == Content({}, <<>>, TRUE)

Truncated(table, n) ==
  LET written == IF n < Len(table.records) THEN n ELSE Len(table.records)
  IN  Content(table.by, SubSeq(table.records, 1, written), TRUE)

Remains(table) == {Blank} \cup {Truncated(table, n) : n \in 0 .. Records - 1}

\* A table is kept together with the first value that fills the gap its header
\* leaves, which is taken from the second record: there must be one.
Repairable(log) == log \in Existing /\ Len(files[log].records) >= 2

\* read_csv needs a line to take the header from.
Unreadable(f) == IF f[5] = "log" THEN files[f].records = <<>> ELSE files[f] = Blank

\* How many logs of a list are repaired and stored before one cannot be.
RepairedBefore(list) ==
  IF \A i \in 1 .. Len(list) : Repairable(list[i]) THEN Len(list)
  ELSE (CHOOSE i \in 1 .. Len(list) :
          /\ ~Repairable(list[i])
          /\ \A j \in 1 .. i - 1 : Repairable(list[j])) - 1

StoredTables(list, k) ==
  [f \in {Final(list[i]) : i \in 1 .. k} |-> Stored(Repaired([f EXCEPT ![5] = "log"]))]

Stop(result) == vis' = [vis EXCEPT !.step = result]

\* Why a table cannot be made of a log.
Defect(log) == IF log \notin Existing THEN "missing" ELSE "unreadable"

\* After a table: visualise.py goes on with the senders, visualise_switches.py
\* plots it first.
WithTable(table) ==
  vis' = [vis EXCEPT !.table = table,
                     !.step = IF vis.args.tool = "visualise" THEN "senders" ELSE "plot"]

\* All tables of the list are made again, whichever of them was not there.
GenerateSendersCsv(list) ==
  LET k == RepairedBefore(list)
  IN  /\ Put(StoredTables(list, k))
      /\ IF k < Len(list) THEN Stop(Defect(list[k + 1]))
         ELSE WithTable(Table(UNION {files[list[i]].by : i \in 1 .. Len(list)},
                              FlattenSeq([i \in 1 .. Len(list) |-> Repaired(list[i]).records])))

\* Mutant: text is compared as well.
MutantPlottable(table) == TRUE

\* timeseries_plot drops the first record, then compares all times with numbers.
Plottable(table) == \A i \in 2 .. Len(table.records) : ~table.records[i].text

-----------------------------------------------------------------------------
(* The steps of main, up to the queue log.                                 *)

NoTable == Table({}, <<>>)

NoExecution ==
  [step |-> "idle", args |-> Request("visualise", 10, 1, NotGiven, NotGiven, 1, "cubic", 5), at |-> 1,
   table |-> NoTable, plots |-> <<>>, queue |-> NoTable, drops |-> NoTable]

Begin(a) ==
  LET begun == [NoExecution EXCEPT !.step = "tables", !.args = a]
  IN  /\ vis.step = "idle"
      /\ \/ /\ FolderOf(a) # NoFolder
            /\ Plain(FolderOf(a)[1]) \in folders
            /\ folders' = folders \cup {FolderOf(a)}
            /\ vis' = begun
         \/ /\ \/ FolderOf(a) = NoFolder
               \/ Plain(FolderOf(a)[1]) \notin folders
            /\ folders' = folders
            /\ vis' = [begun EXCEPT !.step = "nofolder"]
      /\ UNCHANGED <<files, runs, collected, kills>>

List == FileList(vis.args)

\* os.path.isfile
Cached(f) == f \in Existing

MakeTable ==
  LET final == Final(List[vis.at])
  IN  /\ vis.step = "tables"
      /\ \/ /\ Cached(final)
            /\ IF Unreadable(final) THEN Stop("unreadable") ELSE WithTable(files[final])
            /\ files' = files
         \/ /\ ~Cached(final)
            /\ GenerateSendersCsv(List)
      /\ UNCHANGED <<folders, runs, collected, kills>>

Killed ==
  /\ kills < MaxKills
  /\ kills' = kills + 1
  /\ vis' = NoExecution

\* A kill while one of the tables is written.
KilledMakingTable(k) ==
  /\ vis.step = "tables"
  /\ ~Cached(Final(List[vis.at]))
  /\ k \in 1 .. RepairedBefore(List)
  /\ LET final == Final(List[k])
         tables == StoredTables(List, k)
     IN  \E left \in Remains(tables[final]) : Put([tables EXCEPT ![final] = left])
  /\ Killed
  /\ UNCHANGED <<folders, runs, collected>>

\* configure_sender_csv: the first record is lost as the header.
SenderTable(log) == Table(files[log].by, Tail(files[log].records))

SenderStep ==
  LET senders == SenderList(vis.args)
  IN  /\ vis.step = "senders"
      /\ \/ /\ vis.at > Len(senders)
            /\ vis' = [vis EXCEPT !.step = "plot", !.at = 1]
            /\ files' = files
         \/ LET log == senders[vis.at]
            IN  /\ vis.at <= Len(senders)
                /\ IF Cached(Final(log))
                   THEN /\ IF Unreadable(Final(log)) THEN Stop("unreadable")
                           ELSE vis' = [vis EXCEPT !.at = @ + 1]
                        /\ files' = files
                   ELSE IF log \notin Existing \/ Unreadable(log)
                        THEN Stop(Defect(log)) /\ files' = files
                        ELSE /\ Put([f \in {Final(log)} |-> SenderTable(log)])
                             /\ vis' = [vis EXCEPT !.at = @ + 1]
      /\ UNCHANGED <<folders, runs, collected, kills>>

KilledMakingSender ==
  /\ vis.step = "senders"
  /\ vis.at <= Len(SenderList(vis.args))
  /\ LET log == SenderList(vis.args)[vis.at]
     IN  /\ log \in Existing /\ ~Unreadable(log) /\ ~Cached(Final(log))
         /\ \E left \in Remains(SenderTable(log)) : Put([f \in {Final(log)} |-> left])
  /\ Killed
  /\ UNCHANGED <<folders, runs, collected>>

\* The parts whose records a plot shows.
Shown(table) == {table.records[i].from : i \in 1 .. Len(table.records)}

Plot ==
  /\ vis.step = "plot"
  /\ IF ~Plottable(vis.table) THEN Stop("untyped")
     ELSE vis' = [vis EXCEPT !.plots = Append(@, Shown(vis.table)),
                             !.at = @ + 1,
                             !.step = IF vis.at < Len(List) THEN "tables" ELSE "queue"]
  /\ UNCHANGED <<files, folders, runs, collected, kills>>

-----------------------------------------------------------------------------
(* The queue and drop logs, and the report.                                *)

Here(stem, part) == File(FolderOf(vis.args), stem, part, 0)

Move(name, new, content) ==
  files' = [f \in (Existing \ {name}) \cup {new} |->
              IF f = new THEN content ELSE files[f]]

\* Mutant: the log is renamed whether or not it has been.
MutantRenamed(log, fixed, next) ==
  IF log \notin Existing THEN Stop("missing") /\ files' = files
  ELSE Move(log, fixed, files[log]) /\ next

\* A log is given its fixed name unless there is a file of that name.
Renamed(log, fixed, next) ==
  IF fixed \in Existing THEN files' = files /\ next
  ELSE IF log \notin Existing THEN Stop("missing") /\ files' = files
  ELSE Move(log, fixed, files[log]) /\ next

QueueStep ==
  LET queue == Here("queue", Queues)
      log == TestLog(vis.args, Queues)
  IN  /\ vis.step = "queue"
      /\ Renamed(log, queue, vis' = [vis EXCEPT !.queue = files'[queue], !.step = "drops"])
      /\ UNCHANGED <<folders, runs, collected, kills>>

\* visualise.py reads the drop log by its seed, visualise_switches.py renames it.
DropsOfSeed ==
  LET log == TestLog(vis.args, Drops)
  IN  /\ vis.step = "drops" /\ vis.args.tool = "visualise"
      /\ IF log \notin Existing THEN Stop("missing")
         ELSE vis' = [vis EXCEPT !.drops = files[log], !.step = "rates"]
      /\ UNCHANGED <<files, folders, runs, collected, kills>>

\* Then the drop fraction is printed, a division by zero without packets and drops.
Fraction(drops) ==
  IF vis.table.records = <<>> /\ drops.records = <<>> THEN "nofraction" ELSE "done"

DropsRenamed ==
  LET drops == Here("drops", Drops)
      log == TestLog(vis.args, Drops)
  IN  /\ vis.step = "drops" /\ vis.args.tool = "switches"
      /\ Renamed(log, drops, vis' = [vis EXCEPT !.drops = files'[drops],
                                                !.step = Fraction(files'[drops])])
      /\ UNCHANGED <<folders, runs, collected, kills>>

\* The tables of the senders are read back for the sending rates.
Rates ==
  LET unreadable == \E i \in 1 .. Len(SenderList(vis.args)) :
                      Unreadable(Final(SenderList(vis.args)[i]))
  IN  /\ vis.step = "rates"
      /\ Stop(IF unreadable THEN "unreadable" ELSE Fraction(vis.drops))
      /\ UNCHANGED <<files, folders, runs, collected, kills>>

\* The execution has ended.
Over ==
  /\ vis.step \in {"nofolder", "missing", "unreadable", "untyped", "nofraction", "done"}
  /\ vis' = NoExecution
  /\ UNCHANGED <<files, folders, runs, collected, kills>>

\* It is interrupted between two steps.
KilledBetween ==
  /\ vis.step \in {"tables", "senders", "plot", "queue", "drops", "rates"}
  /\ Killed
  /\ UNCHANGED <<files, folders, runs, collected>>

-----------------------------------------------------------------------------
(* The user puts logs into the folder that a command line will look in.    *)

NeededLogs(a) ==
  {FileList(a)[i] : i \in 1 .. Len(FileList(a))}
  \cup {SenderList(a)[i] : i \in 1 .. Len(SenderList(a))}

CollectedLogs(a) ==
  NeededLogs(a) \cup
  IF a.tool = "visualise" THEN {TestLog(a, Queues), TestLog(a, Drops)}
  ELSE {File(FolderOf(a), "queue", Queues, 0), File(FolderOf(a), "drops", Drops, 0)}

Source(log) == [log EXCEPT ![1] = Plain(log[1][1])]

Collect(a) ==
  /\ vis.step = "idle"
  /\ FolderOf(a) \in folders \ {NoFolder}
  /\ \A log \in CollectedLogs(a) : Source(log) \in Existing
  /\ Put([log \in CollectedLogs(a) |-> files[Source(log)]])
  /\ LET key == <<FolderOf(a), a.seed>>
         complete == \A log \in NeededLogs(a) : Len(files[Source(log)].records) >= 2
     IN  collected' = IF complete THEN collected \cup {key} ELSE collected \ {key}
  /\ UNCHANGED <<vis, folders, runs, kills>>

\* All but the start, and the user.
VisNext ==
  \/ MakeTable \/ SenderStep \/ Plot \/ QueueStep \/ DropsOfSeed \/ DropsRenamed
  \/ Rates \/ Over \/ KilledBetween
  \/ KilledMakingSender
  \/ \E k \in 1 .. 7 : KilledMakingTable(k)

VisInit ==
  /\ vis = NoExecution
  /\ collected = {}
  /\ kills = 0

VisType ==
  /\ vis.step \in {"idle", "nofolder", "tables", "senders", "plot", "queue", "drops",
                  "rates", "missing", "unreadable", "untyped", "nofraction", "done"}
  /\ vis.args.tool \in {"visualise", "switches"}
  /\ vis.at \in 1 .. 8
  /\ \A table \in {vis.table, vis.queue, vis.drops} : table.by \subseteq RunIds
  /\ \A place \in collected : place[1] \in folders /\ place[2] \in Seeds
=============================================================================
