---------------------------- MODULE DockerRunner ----------------------------
(***************************************************************************)
(* docker-run.sh, called by the run scripts in one or more terminals that  *)
(* share one container.  The container itself is Docker's: it can be       *)
(* stopped (the host restarts) and removed (README) at any time, which     *)
(* ends what runs in it.  A program that the container runs goes on when   *)
(* its terminal is closed; another terminal then stands for the user.      *)
(***************************************************************************)
EXTENDS ResultFiles, Bindings

CONSTANTS
  Terminals,     \* the terminals that scripts are started in
  MaxRuns,       \* bound: scripts started
  BuildBindings  \* whether waf found what it needs to build Python bindings

VARIABLES
  container,     \* "none", "stopped" or "running"
  owned,         \* its files belong to the user
  pc,            \* of each terminal: the step of the script it is at
  job,           \* of each terminal: script, seed and number of its simulation
  lost           \* history: the terminals whose docker run or chown failed, or
                 \*   whose container was removed, since their script started

docker == <<container, owned, pc, job, lost>>

Steps == {"idle", "start", "create", "chown", "exec", "simulating",
          "denied", "unbuilt", "unopened"}

Busy == {t \in Terminals : pc[t] # "idle"}
Simulating == {t \in Terminals : pc[t] = "simulating"}

NoJob == [script |-> run_topo, seed |-> 1, run |-> 0]

Goto(t, step) == pc' = [pc EXCEPT ![t] = step]

\* The script ends.
Leave(ts) ==
  /\ pc' = [t \in Terminals |-> IF t \in ts THEN "idle" ELSE pc[t]]
  /\ job' = [t \in Terminals |-> IF t \in ts THEN NoJob ELSE job[t]]

-----------------------------------------------------------------------------
(* mkdir -p, then docker-run.sh.                                           *)

RunScript(t, script, seed) ==
  /\ pc[t] = "idle"
  /\ Len(runs) + Cardinality(Busy) < MaxRuns
  /\ folders' = folders \cup {Plain(script.makes)}
  /\ job' = [job EXCEPT ![t] = [script |-> script, seed |-> seed, run |-> 0]]
  /\ Goto(t, "start")
  /\ UNCHANGED <<container, owned, lost, files, runs>>

\* Mutant: start || (run && chown), as one may read it.
MutantAfterStart == "exec"

\* What follows a start that succeeds: bash takes || and && from the left.
AfterStart == "chown"

\* docker start
Start(t) ==
  /\ pc[t] = "start"
  /\ \/ /\ container # "none"
        /\ container' = "running"
        /\ Goto(t, AfterStart)
     \/ /\ container = "none"
        /\ container' = container
        /\ Goto(t, "create")
  /\ UNCHANGED <<owned, job, lost, files, folders, runs>>

\* || docker run: the name must be free.
Create(t) ==
  /\ pc[t] = "create"
  /\ container = "none"
  /\ container' = "running"
  /\ owned' = FALSE
  /\ Goto(t, "chown")
  /\ UNCHANGED <<job, lost, files, folders, runs>>

\* It fails, its message hidden: the name is taken, or the image out of reach.
CreateFails(t) ==
  /\ pc[t] = "create"
  /\ lost' = lost \cup {t}
  /\ Goto(t, "exec")
  /\ UNCHANGED <<container, owned, job, files, folders, runs>>

\* && docker exec chown -R
Chown(t) ==
  /\ pc[t] = "chown"
  /\ \/ /\ container = "running"
        /\ owned' = TRUE
        /\ lost' = lost
     \/ /\ container # "running"
        /\ owned' = owned
        /\ lost' = lost \cup {t}
  /\ Goto(t, "exec")
  /\ UNCHANGED <<container, job, files, folders, runs>>

\* docker exec --user: waf builds, then runs the program.  It writes to the
\* build directory, so that the user must own it.
CanBuild == BuildBindings => main

Failure(t) ==
  CASE ~owned -> "denied"
    [] owned /\ ~CanBuild -> "unbuilt"
    [] OTHER -> "unopened"

Exec(t) ==
  LET possible == owned /\ CanBuild /\ CanOpen(job[t].script, job[t].seed)
  IN  /\ pc[t] = "exec"
      /\ \/ /\ container = "running" /\ possible
            /\ OpenLogs(job[t].script, job[t].seed)
            /\ job' = [job EXCEPT ![t].run = Len(runs) + 1]
            /\ Goto(t, "simulating")
            /\ lost' = lost
         \/ /\ container = "running" /\ ~possible
            /\ Goto(t, Failure(t))
            /\ UNCHANGED <<job, lost, files, runs>>
         \/ /\ container # "running"
            /\ Leave({t})
            /\ lost' = lost \ {t}
            /\ UNCHANGED <<files, runs>>
      /\ UNCHANGED <<container, owned, folders>>

\* The simulation traces: part of what it logs reaches the disk.
Trace(t) ==
  /\ pc[t] = "simulating"
  /\ WriteLine(job[t].run) \/ WriteBlock(job[t].run)
  /\ UNCHANGED <<container, owned, pc, job, lost, folders, runs>>

EndSimulation(t) ==
  /\ pc[t] = "simulating"
  /\ CloseLogs(job[t].run)
  /\ Leave({t})
  /\ lost' = lost \ {t}
  /\ UNCHANGED <<container, owned, folders, runs>>

\* A script that failed ends; Ctrl-C before the program runs ends it too.
EndScript(t) ==
  /\ pc[t] \in {"denied", "unbuilt", "unopened", "create", "chown", "exec"}
  /\ Leave({t})
  /\ lost' = lost \ {t}
  /\ UNCHANGED <<container, owned, files, folders, runs>>

\* The container is stopped or removed, and what runs in it ends: what is not on
\* the disk by then is lost.
Down(to) ==
  /\ \/ container = "running"
     \/ container = "stopped" /\ to = "none"
  /\ container' = to
  /\ Leave(Simulating)
  /\ lost' = (lost \ Simulating) \cup {t \in Terminals : pc[t] \in {"chown", "exec"} /\ to = "none"}
  /\ owned' = (owned /\ to = "stopped")
  /\ UNCHANGED <<files, folders, runs>>

\* All but the start of scripts.
DockerNext ==
  \/ \E t \in Terminals :
       \/ Start(t) \/ Create(t) \/ CreateFails(t) \/ Chown(t) \/ Exec(t)
       \/ Trace(t) \/ EndSimulation(t) \/ EndScript(t)
  \/ \E to \in {"none", "stopped"} : Down(to)

DockerInit ==
  /\ container = "none"
  /\ owned = FALSE
  /\ pc = [t \in Terminals |-> "idle"]
  /\ job = [t \in Terminals |-> NoJob]
  /\ lost = {}
=============================================================================
