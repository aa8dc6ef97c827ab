------------------------------- MODULE JobRuns -------------------------------
(***************************************************************************)
(* The scheduled jobs of the process (src/platform/jobs): the clock starts *)
(* them, a job that is still running is skipped, and the shutdown stops    *)
(* accepting runs and waits for the ones in progress before the module     *)
(* closes what they use.                                                   *)
(***************************************************************************)
EXTENDS Naturals, FiniteSets

CONSTANTS
  Jobs,
  MaxJobRuns   \* bound: the times the clock starts a job

ASSUME JobRunsAssumption == MaxJobRuns \in Nat

VARIABLES
  accepting,
  running,    \* of each job: the run the map holds, 0 for none
  working,    \* of each job: the runs in progress
  started,    \* of each job: the runs started so far
  awaited,    \* the runs the shutdown waits for
  process     \* up, stopping or closed

jobsVars == <<accepting, running, working, started, awaited, process>>

JobsInit ==
  /\ accepting = TRUE /\ awaited = {} /\ process = "up"
  /\ running = [j \in Jobs |-> 0] /\ started = running
  /\ working = [j \in Jobs |-> {}]

isRunning(j) == running[j] # 0

\* runJob: the schedule may still fire while the process stops.
runJob(j) ==
  /\ started[j] < MaxJobRuns /\ process # "closed"
  /\ accepting /\ ~isRunning(j)
  /\ started' = [started EXCEPT ![j] = @ + 1]
  /\ running' = [running EXCEPT ![j] = started'[j]]
  /\ working' = [working EXCEPT ![j] = @ \cup {started'[j]}]
  /\ UNCHANGED <<accepting, awaited, process>>

\* execute catches what the work throws, so the run always leaves the map.
endRun(j, run) ==
  /\ run \in working[j]
  /\ working' = [working EXCEPT ![j] = @ \ {run}] /\ running' = [running EXCEPT ![j] = 0]
  /\ awaited' = awaited \ {<<j, run>>}
  /\ UNCHANGED <<accepting, started, process>>

\* Mutant: it waits for the runs in progress and only then stops accepting others.
acceptsWhileStoppingStill == TRUE
acceptsWhileStopping == FALSE

\* stopJobRuns: the runs in the map at this moment.
stopJobRuns ==
  /\ process = "up" /\ process' = "stopping"
  /\ accepting' = acceptsWhileStopping
  /\ awaited' = {<<j, running[j]>> : j \in {i \in Jobs : running[i] # 0}}
  /\ UNCHANGED <<running, working, started>>

closeApp ==
  /\ process = "stopping" /\ awaited = {} /\ process' = "closed" /\ accepting' = FALSE
  /\ UNCHANGED <<running, working, started, awaited>>

\* Another process: acceptJobRuns.
restartApp == process = "closed" /\ process' = "up" /\ accepting' = TRUE /\ UNCHANGED <<running, working, started, awaited>>

JobsNext ==
  \/ \E j \in Jobs : runJob(j) \/ \E run \in working[j] : endRun(j, run)
  \/ stopJobRuns \/ closeApp \/ restartApp

JobsSpec == JobsInit /\ [][JobsNext]_jobsVars

-----------------------------------------------------------------------------
(* Properties. *)

\* No job works once the process closed what it uses: none starts while the shutdown waits for the others.
NoJobAfterClose == process = "closed" => \A j \in Jobs : working[j] = {}

\* A job never overlaps itself, and the map knows the run that works.
JobsDoNotOverlap == \A j \in Jobs : working[j] = (IF running[j] = 0 THEN {} ELSE {running[j]})

\* A job runs alone and only while what it uses is open (runJob, stopJobRuns).
JobsRunAlone == NoJobAfterClose /\ JobsDoNotOverlap
=============================================================================
