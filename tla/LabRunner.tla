------------------------------ MODULE LabRunner ------------------------------
(***************************************************************************)
(* The managed capture lab (lab/service.go).  Its database outlives the     *)
(* server; the goroutines of Activate and Start, and what they know, do     *)
(* not.  The script of a job is a process group of its own, so that it      *)
(* outlives a crash, and may outlive the SIGTERM its deadline sends.        *)
(* Settings, log lines and the archive are left out.                        *)
(* An operator Op_Word is a plausible bug in Op; no specification uses it.  *)
(***************************************************************************)
EXTENDS Naturals, FiniteSets

CONSTANTS
  Runs,        \* identifiers of experiments
  Activation,  \* the job that activates the gateways
  MaxFiles,    \* bound: files one experiment writes
  MaxCrashes   \* bound: crashes of the server

ASSUME LabConstants == Activation \notin Runs /\ MaxFiles \in Nat /\ MaxCrashes \in Nat

LabJobs == Runs \cup {Activation}

VARIABLES
  server,   \* "up", "closing", "down"
  runtime,  \* lab_runtime.state
  run,      \* lab_runs.state, "NONE" for no row
  files,    \* files of an experiment on disk
  indexed,  \* those of them in lab_datasets
  worker,   \* the goroutine of a job
  script,   \* its process: none, the server's child, or left behind
  crashes,
  unrecorded,   \* history: jobs whose last UPDATE the database refused
  activated \* history: an activation succeeded under this server

labVars == <<server, runtime, run, files, indexed, worker, script, crashes, unrecorded, activated>>

LabInit ==
  /\ server = "up" /\ runtime = "INACTIVE" /\ run = [r \in Runs |-> "NONE"]
  /\ files = [r \in Runs |-> 0] /\ indexed = [r \in Runs |-> 0]
  /\ worker = [j \in LabJobs |-> "none"] /\ script = [j \in LabJobs |-> "none"]
  /\ crashes = 0 /\ unrecorded = {} /\ activated = FALSE

----------------------------------------------------------------------------
\* Activate, under the mutex.
Activate ==
  /\ server = "up" /\ runtime \notin {"STARTING", "READY"}
  /\ runtime' = "STARTING"
  /\ worker' = [worker EXCEPT ![Activation] = "starting"]
  /\ UNCHANGED <<server, run, files, indexed, script, crashes, unrecorded, activated>>

\* Start, under the mutex: one row RUNNING at a time.
Start_Concurrent(r) ==
  /\ server = "up" /\ run[r] = "NONE" /\ runtime = "READY"
  /\ run' = [run EXCEPT ![r] = "RUNNING"] /\ worker' = [worker EXCEPT ![r] = "starting"]
  /\ UNCHANGED <<server, runtime, files, indexed, script, crashes, unrecorded, activated>>
Start(r) ==
  /\ server = "up" /\ run[r] = "NONE" /\ runtime = "READY"
  /\ \A other \in Runs : run[other] # "RUNNING"
  /\ run' = [run EXCEPT ![r] = "RUNNING"] /\ worker' = [worker EXCEPT ![r] = "starting"]
  /\ UNCHANGED <<server, runtime, files, indexed, script, crashes, unrecorded, activated>>

\* The runner starts the script, or cannot (also because the context is done).
Launch(j) ==
  /\ server # "down" /\ worker[j] = "starting"
  /\ \/ /\ server = "up"
        /\ worker' = [worker EXCEPT ![j] = "waiting"] /\ script' = [script EXCEPT ![j] = "child"]
     \/ worker' = [worker EXCEPT ![j] = "failed"] /\ UNCHANGED script
  /\ UNCHANGED <<server, runtime, run, files, indexed, crashes, unrecorded, activated>>

\* The script of an experiment writes a file.  While its server waits for it,
\* the line "Captured ..." makes the server index what is there.
Capture(r) ==
  /\ script[r] # "none" /\ files[r] < MaxFiles
  /\ files' = [files EXCEPT ![r] = @ + 1]
  /\ \/ /\ worker[r] = "waiting" /\ server = "up" /\ indexed' = [indexed EXCEPT ![r] = files[r] + 1]
     \/ UNCHANGED indexed
  /\ UNCHANGED <<server, runtime, run, worker, script, crashes, unrecorded, activated>>

\* The script ends, well or not.
Exit(j) ==
  /\ script[j] # "none"
  /\ script' = [script EXCEPT ![j] = "none"]
  /\ IF worker[j] = "waiting"
     THEN \E next \in {"succeeded", "failed"} : worker' = [worker EXCEPT ![j] = next]
     ELSE UNCHANGED worker
  /\ UNCHANGED <<server, runtime, run, files, indexed, crashes, unrecorded, activated>>

\* The deadline of the job, or Close: SIGTERM to the group; after WaitDelay only
\* the shell itself is killed, and what ignored the signal goes on.
Terminate_Never(j) == worker[j] = "none" /\ FALSE /\ UNCHANGED labVars
Terminate(j) ==
  /\ server # "down" /\ worker[j] = "waiting"
  /\ worker' = [worker EXCEPT ![j] = "failed"]
  /\ \E left \in {"none", "orphan"} : script' = [script EXCEPT ![j] = left]
  /\ UNCHANGED <<server, runtime, run, files, indexed, crashes, unrecorded, activated>>

\* index after the script's success; it stops at the first error.
Index_Skipped(r) ==
  /\ server # "down" /\ worker[r] = "succeeded"
  /\ worker' = [worker EXCEPT ![r] = "indexed"]
  /\ UNCHANGED <<server, runtime, run, files, indexed, script, crashes, unrecorded, activated>>
Index(r) ==
  /\ server # "down" /\ worker[r] = "succeeded"
  /\ \/ /\ server = "up"
        /\ worker' = [worker EXCEPT ![r] = "indexed"] /\ indexed' = [indexed EXCEPT ![r] = files[r]]
     \/ worker' = [worker EXCEPT ![r] = "failed"] /\ \E n \in indexed[r]..files[r] : indexed' = [indexed EXCEPT ![r] = n]
  /\ UNCHANGED <<server, runtime, run, files, script, crashes, unrecorded, activated>>

\* The last UPDATE of the goroutine, whose error is ignored.
Outcome(j) == IF worker[j] = "failed" THEN "FAILED" ELSE IF j = Activation THEN "READY" ELSE "COMPLETED"
Record(j) ==
  /\ server # "down"
  /\ worker[j] = "failed" \/ worker[j] = (IF j = Activation THEN "succeeded" ELSE "indexed")
  /\ worker' = [worker EXCEPT ![j] = "none"]
  /\ \/ /\ IF j = Activation THEN runtime' = Outcome(j) /\ UNCHANGED run
           ELSE run' = [run EXCEPT ![j] = Outcome(j)] /\ UNCHANGED runtime
        /\ activated' = (activated \/ (j = Activation /\ worker[j] = "succeeded"))
        /\ UNCHANGED unrecorded
     \/ unrecorded' = unrecorded \cup {j} /\ UNCHANGED <<runtime, run, activated>>
  /\ UNCHANGED <<server, files, indexed, script, crashes>>

----------------------------------------------------------------------------
\* Close: cancel, wait for the goroutines, close the database.
Close ==
  /\ server = "up" /\ server' = "closing"
  /\ UNCHANGED <<runtime, run, files, indexed, worker, script, crashes, unrecorded, activated>>

Closed_AtOnce ==
  /\ server = "closing" /\ server' = "down"
  /\ worker' = [j \in LabJobs |-> "none"]
  /\ UNCHANGED <<runtime, run, files, indexed, script, crashes, unrecorded, activated>>
Closed ==
  /\ server = "closing" /\ \A j \in LabJobs : worker[j] = "none"
  /\ server' = "down"
  /\ UNCHANGED <<runtime, run, files, indexed, worker, script, crashes, unrecorded, activated>>

\* A crash loses the goroutines; the scripts go on by themselves.
Crash ==
  /\ server # "down" /\ crashes < MaxCrashes
  /\ server' = "down" /\ crashes' = crashes + 1
  /\ worker' = [j \in LabJobs |-> "none"]
  /\ script' = [j \in LabJobs |-> IF script[j] = "child" THEN "orphan" ELSE script[j]]
  /\ UNCHANGED <<runtime, run, files, indexed, unrecorded, activated>>

\* New.
Restart_KeepsRuns ==
  /\ server = "down" /\ server' = "up" /\ runtime' = "INACTIVE"
  /\ activated' = FALSE /\ unrecorded' = {}
  /\ UNCHANGED <<run, files, indexed, worker, script, crashes>>
Restart_KeepsRuntime ==
  /\ server = "down" /\ server' = "up"
  /\ run' = [r \in Runs |-> IF run[r] = "RUNNING" THEN "FAILED" ELSE run[r]]
  /\ activated' = FALSE /\ unrecorded' = {}
  /\ UNCHANGED <<runtime, files, indexed, worker, script, crashes>>
Restart ==
  /\ server = "down" /\ server' = "up" /\ runtime' = "INACTIVE"
  /\ run' = [r \in Runs |-> IF run[r] = "RUNNING" THEN "FAILED" ELSE run[r]]
  /\ activated' = FALSE /\ unrecorded' = {}
  /\ UNCHANGED <<files, indexed, worker, script, crashes>>

Works(j) == Launch(j) \/ Terminate(j) \/ (j \in Runs /\ Index(j)) \/ Record(j)

LabNext ==
  \/ Activate \/ (\E r \in Runs : Start(r) \/ Capture(r))
  \/ (\E j \in LabJobs : Works(j) \/ Exit(j))
  \/ Close \/ Closed \/ Crash \/ Restart

\* A goroutine goes on, and its deadline ends a script that does not.
LabFairness == WF_labVars(\E j \in LabJobs : Works(j))
LabSpec == LabInit /\ [][LabNext]_labVars /\ LabFairness

----------------------------------------------------------------------------
\* Properties.

\* Types.
LabTypeOK ==
  /\ server \in {"up", "closing", "down"} /\ runtime \in {"INACTIVE", "STARTING", "READY", "FAILED"}
  /\ run \in [Runs -> {"NONE", "RUNNING", "COMPLETED", "FAILED"}]
  /\ files \in [Runs -> 0..MaxFiles] /\ indexed \in [Runs -> 0..MaxFiles]
  /\ worker \in [LabJobs -> {"none", "starting", "waiting", "succeeded", "indexed", "failed"}]
  /\ script \in [LabJobs -> {"none", "child", "orphan"}]
  /\ crashes \in 0..MaxCrashes /\ unrecorded \subseteq LabJobs /\ activated \in BOOLEAN

\* One job of a server at a time touches the shared gateways: the activation
\* and the experiments exclude each other (scripts that outlived their server or
\* their deadline apart).
OneJobAtATime == \A j, k \in LabJobs : script[j] = "child" /\ script[k] = "child" => j = k

\* An experiment shown as COMPLETED, whose archive is open, has every file its
\* script wrote in the index, also those of before a failed indexing.
CompletedIsIndexed == \A r \in Runs : run[r] = "COMPLETED" => indexed[r] = files[r] /\ script[r] = "none"

\* A RUNNING experiment, which keeps every other from starting, is somebody's
\* work, unless its last UPDATE was refused; after a restart nothing is RUNNING
\* that nobody runs.
RunningIsWorked ==
  server = "up" => \A r \in Runs : run[r] = "RUNNING" => worker[r] # "none" \/ r \in unrecorded

\* READY gateways were activated by this server.
ReadyIsActivated == server = "up" /\ runtime = "READY" => activated

\* No job of a server that was closed goes on working.
ClosedIsQuiet == server = "down" => \A j \in LabJobs : script[j] # "child"

\* The lab is what its database says, across jobs, crashes and restarts.
LabIsOrderly ==
  OneJobAtATime /\ CompletedIsIndexed /\ RunningIsWorked /\ ReadyIsActivated /\ ClosedIsQuiet

\* A RUNNING experiment ends, unless the server or its database does first.
ExperimentEnds ==
  \A r \in Runs : run[r] = "RUNNING" ~> run[r] # "RUNNING" \/ server = "down" \/ r \in unrecorded
==============================================================================
