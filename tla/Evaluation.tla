----------------------------- MODULE Evaluation -----------------------------
(***************************************************************************)
(* eval.py: reads the packet log of one seed, then the queue log, then the *)
(* drop log, and with BIG set the packet log once more, while simulations  *)
(* may be writing them.  Plots are left out; what they are drawn from is   *)
(* kept.                                                                   *)
(***************************************************************************)
EXTENDS ResultFiles

VARIABLE eval     \* the evaluation: its step, its arguments, what it read (of
                  \*   queue and drop log: whose)

Nothing == Content({}, <<>>, FALSE)

LargeLog(seed) ==
  File(Plain("results"), "large_test_disturbance", Packets, seed)

\* The log that the constants TEST and BIG and the argument choose.
EvalLog(test, big, seed) ==
  CASE ~test -> File(Plain("results"), "small_test_no_disturbance", Packets, seed)
    [] test /\ ~big -> File(Plain("results"), "small_test_one_disturbance", Packets, seed)
    [] OTHER -> LargeLog(seed)

EvalQueue == File(Plain("results"), "queue", Queues, 0)
EvalDrops == File(Plain("results"), "drops", Drops, 0)

\* read_csv takes the first record for the header: it is lost to the table.  An
\* empty file is an error.
WithHeader(table) == [table EXCEPT !.records = Tail(@)]

NoEvaluation ==
  [step |-> "idle", test |-> TRUE, big |-> FALSE, seed |-> 1, packets |-> Nothing,
   queue |-> {}, drops |-> {}, receivers |-> Nothing]

EvalStart(test, big, seed) ==
  /\ eval.step = "idle"
  /\ eval' = [NoEvaluation EXCEPT !.step = "packets", !.test = test, !.big = big,
                                  !.seed = seed]

\* The report has been read, or the error.
EvalEnd ==
  /\ eval.step \in {"done", "error"}
  /\ eval' = NoEvaluation

EvalFails(missing) ==
  /\ missing
  /\ eval' = [NoEvaluation EXCEPT !.step = "error"]

ReadPackets(name, into, next) ==
  LET unreadable == name \in Existing => files[name].records = <<>>
  IN  \/ EvalFails(unreadable)
      \/ /\ ~unreadable
         /\ eval' = [eval EXCEPT ![into] = WithHeader(files[name]), !.step = next]

EvalPackets ==
  /\ eval.step = "packets"
  /\ ReadPackets(EvalLog(eval.test, eval.big, eval.seed), "packets", "queue")

\* The queue and drop logs have no header: their columns are named.
EvalQueues ==
  /\ eval.step = "queue"
  /\ \/ EvalFails(EvalQueue \notin Existing)
     \/ /\ EvalQueue \in Existing
        /\ eval' = [eval EXCEPT !.queue = files[EvalQueue].by, !.step = "drops"]

\* The drop fraction: of no packets and no drops it is a division by zero.
NoFraction(packets, drops) == packets.records = <<>> /\ drops.records = <<>>

EvalFraction ==
  LET unprintable == EvalDrops \in Existing => NoFraction(eval.packets, files[EvalDrops])
  IN  /\ eval.step = "drops"
      /\ \/ EvalFails(unprintable)
         \/ /\ ~unprintable
            /\ eval' = [eval EXCEPT !.drops = files[EvalDrops].by,
                                    !.step = IF eval.big THEN "receivers" ELSE "done"]

EvalReceivers ==
  /\ eval.step = "receivers"
  /\ ReadPackets(LargeLog(eval.seed), "receivers", "done")

\* All but the start.
EvalNext == EvalPackets \/ EvalQueues \/ EvalFraction \/ EvalReceivers \/ EvalEnd

EvalInit == eval = NoEvaluation

EvalType ==
  /\ eval.step \in {"idle", "packets", "queue", "drops", "receivers", "done", "error"}
  /\ eval.test \in BOOLEAN /\ eval.big \in BOOLEAN
  /\ \A by \in {eval.packets.by, eval.queue, eval.drops, eval.receivers.by} :
       by \subseteq RunIds
=============================================================================
