------------------------- MODULE AnalysisLifecycle -------------------------
(***************************************************************************)
(* The life of an analysis: Service.Start, Cancel, Retry, execute and fail *)
(* of core/analysis/service.go, the offline pipeline those threads drive   *)
(* (core/analysis/pipeline.go, Run), the state of its fusion run           *)
(* (fusion/session/service.go) and the workspace entry that names it.      *)
(*                                                                         *)
(* Three kinds of thread take part.  The thread of a Start or Retry call   *)
(* creates the fusion run, inserts the record, binds the workspace and     *)
(* launches the worker; the worker is the goroutine of execute; a caller   *)
(* is a concurrent Cancel request.  Each critical section of Service.mu,   *)
(* and each call into another component, is one step, so everything that   *)
(* another thread may do between two sections is explored.                 *)
(* An operator Op_Word is a plausible bug in Op; no specification uses it. *)
(***************************************************************************)
EXTENDS Naturals, Sequences

CONSTANTS
  Analyses,       \* analysis identifiers (uuid.NewV7), used once each
  Callers,        \* threads that serve Cancel requests
  NoAnalysis,     \* the workspace names no analysis
  Options,        \* analysis options a request may carry
  MaxGeneration   \* bound on workspace resets

ASSUME AnalysisAssumption ==
  /\ NoAnalysis \notin Analyses
  /\ Options \subseteq [ml : BOOLEAN, security : BOOLEAN]
  /\ MaxGeneration \in Nat

VARIABLES
  record,      \* State of records[id]; "NONE" before it is inserted
  stage,       \* Stage of records[id]
  version,     \* SnapshotVersion of records[id]
  options,     \* the analysis options the pipeline reads
  cancels,     \* ids that have an entry in the cancels map
  stopped,     \* ids whose run context has been cancelled
  run,         \* state of the fusion run of each analysis
  covered,     \* evidence sources with terminal coverage, per fusion run
  fused,       \* ids whose fusion pass has finished
  assessment,  \* outcome of the security assessment
  pipeline,    \* whether SetPipeline was called
  workspace,   \* generation of the current workspace and the analysis it names
  ownership,   \* the generation bindWorkspace read, per analysis
  starter, worker, caller,  \* program counters of the threads
  log          \* lifecycle events published, per analysis

lifecycleVars == <<record, stage, version, cancels, stopped>>
fusionVars    == <<run, covered, fused, assessment>>
settingVars   == <<options, pipeline>>
bindingVars   == <<workspace, ownership>>
threadVars    == <<starter, worker, caller>>
vars == <<lifecycleVars, fusionVars, settingVars, bindingVars, threadVars, log>>

Terminal == {"COMPLETED", "FAILED", "CANCELLED"}
Sources  == {"PACKET_PARSER", "FLOW_ANALYZER", "VICI", "XFRM", "ML", "SHAP"}
Stages   == {"NONE", "INITIALIZING", "PROTOCOL_PROCESSING", "FEATURE_EXTRACTION",
             "ML_INFERENCE", "FUSION", "SECURITY_ANALYSIS"} \cup Terminal

StarterPc == {"idle", "created", "rejected", "inserted", "binding", "bound",
              "failing", "reporting", "returned"}

\* Where Pipeline.Run may return an error.
Fallible == {"sensor", "parser", "flow", "vici", "xfrm", "mlDone", "shapDone",
             "mlOff", "shapOff", "mlLost", "fusing"}
WorkerPc == Fallible \cup
            {"off", "begin", "features", "inference", "infer", "shapLost", "fusion", "security",
             "assessing", "report", "snapshot", "succeeded",
             "errored", "failing", "reporting", "done"}
Idle == [pc |-> "idle", target |-> NoAnalysis]
CallerPc == {"idle", "checked", "revoked", "reporting"}

Goto(pc, t, next) == pc' = [pc EXCEPT ![t] = next]
Publish(a, category) == log' = [log EXCEPT ![a] = Append(@, category)]

Init ==
  /\ record     = [a \in Analyses |-> "NONE"]
  /\ stage      = [a \in Analyses |-> "NONE"]
  /\ version    = [a \in Analyses |-> 0]
  /\ options    = [a \in Analyses |-> [ml |-> FALSE, security |-> FALSE]]
  /\ cancels    = {}
  /\ stopped    = {}
  /\ run        = [a \in Analyses |-> "NONE"]
  /\ covered    = [a \in Analyses |-> {}]
  /\ fused      = {}
  /\ assessment = [a \in Analyses |-> "NONE"]
  /\ pipeline   \in BOOLEAN
  /\ workspace  = [generation |-> 0, analysis |-> NoAnalysis]
  /\ ownership  = [a \in Analyses |-> 0]
  /\ starter    = [a \in Analyses |-> "idle"]
  /\ worker     = [a \in Analyses |-> "off"]
  /\ caller     = [c \in Callers |-> Idle]
  /\ log        = [a \in Analyses |-> <<>>]

-----------------------------------------------------------------------------
(* The thread of Start. *)

\* fusion.Create stores an ACTIVE run.  When its creation event cannot be
\* published Start returns the error and the run stays behind.
CreateRun(a, chosen) ==
  /\ starter[a] = "idle"
  /\ options' = [options EXCEPT ![a] = chosen]
  /\ run' = [run EXCEPT ![a] = "ACTIVE"]
  /\ \/ Goto(starter, a, "created")
     \/ Goto(starter, a, "rejected")
  /\ UNCHANGED <<lifecycleVars, covered, fused, assessment, pipeline, bindingVars,
                 worker, caller, log>>

Start(a) == \E chosen \in Options : CreateRun(a, chosen)

\* Retry calls Start with the options of an analysis that failed or was
\* cancelled; the worker of that analysis may still be running.
Retry(a, old) ==
  /\ record[old] \in {"FAILED", "CANCELLED"}
  /\ CreateRun(a, options[old])

InsertRecord(a) ==
  /\ starter[a] = "created"
  /\ record' = [record EXCEPT ![a] = "RUNNING"]
  /\ stage'  = [stage EXCEPT ![a] = "INITIALIZING"]
  /\ Goto(starter, a, "inserted")
  /\ UNCHANGED <<version, cancels, stopped, fusionVars, settingVars, bindingVars,
                 worker, caller, log>>

\* bindWorkspace reads the ownership token and writes under it later.
ReadOwnership(a) ==
  /\ starter[a] = "inserted"
  /\ ownership' = [ownership EXCEPT ![a] = workspace.generation]
  /\ Goto(starter, a, "binding")
  /\ UNCHANGED <<lifecycleVars, fusionVars, settingVars, workspace, worker, caller, log>>

BindWorkspace_Unchecked(a) ==
  /\ starter[a] = "binding"
  /\ workspace' = [workspace EXCEPT !.analysis = a]
  /\ Goto(starter, a, "bound")
  /\ UNCHANGED <<lifecycleVars, fusionVars, settingVars, ownership, worker, caller, log>>

BindWorkspace(a) ==
  /\ starter[a] = "binding"
  /\ workspace' = IF ownership[a] = workspace.generation
                  THEN [workspace EXCEPT !.analysis = a]
                  ELSE workspace
  /\ Goto(starter, a, "bound")
  /\ UNCHANGED <<lifecycleVars, fusionVars, settingVars, ownership, worker, caller, log>>

\* cancels[id] is set in a critical section of its own, then execute starts.
Launch(a) ==
  /\ starter[a] = "bound"
  /\ pipeline
  /\ cancels' = cancels \cup {a}
  /\ Goto(worker, a, "begin")
  /\ Goto(starter, a, "returned")
  /\ UNCHANGED <<record, stage, version, stopped, fusionVars, settingVars,
                 bindingVars, caller, log>>

LaunchWithoutPipeline_Silent(a) ==
  /\ starter[a] = "bound"
  /\ ~pipeline
  /\ Goto(starter, a, "returned")
  /\ UNCHANGED <<lifecycleVars, fusionVars, settingVars, bindingVars, worker, caller, log>>

LaunchWithoutPipeline(a) ==
  /\ starter[a] = "bound"
  /\ ~pipeline
  /\ Goto(starter, a, "failing")
  /\ UNCHANGED <<lifecycleVars, fusionVars, settingVars, bindingVars, worker, caller, log>>

-----------------------------------------------------------------------------
(* Service.fail: a critical section, then an event whatever the state was. *)

FailRecord_Unguarded(a) ==
  /\ record' = [record EXCEPT ![a] = "FAILED"]
  /\ stage'  = [stage EXCEPT ![a] = "FAILED"]
  /\ stopped' = IF a \in cancels THEN stopped \cup {a} ELSE stopped
  /\ cancels' = cancels \ {a}
  /\ UNCHANGED <<version, fusionVars, settingVars, bindingVars, log>>

FailRecord(a) ==
  /\ record' = [record EXCEPT ![a] = IF @ = "RUNNING" THEN "FAILED" ELSE @]
  /\ stage'  = [stage EXCEPT ![a] = IF record[a] = "RUNNING" THEN "FAILED" ELSE @]
  /\ stopped' = IF a \in cancels THEN stopped \cup {a} ELSE stopped
  /\ cancels' = cancels \ {a}
  /\ UNCHANGED <<version, fusionVars, settingVars, bindingVars, log>>

StarterFails(a) ==
  /\ starter[a] = "failing"
  /\ FailRecord(a)
  /\ Goto(starter, a, "reporting")
  /\ UNCHANGED <<worker, caller>>

StarterReports(a) ==
  /\ starter[a] = "reporting"
  /\ Publish(a, "FAILED")
  /\ Goto(starter, a, "returned")
  /\ UNCHANGED <<lifecycleVars, fusionVars, settingVars, bindingVars, worker, caller>>

WorkerFails(a) ==
  /\ worker[a] = "failing"
  /\ FailRecord(a)
  /\ Goto(worker, a, "reporting")
  /\ UNCHANGED <<starter, caller>>

WorkerReports(a) ==
  /\ worker[a] = "reporting"
  /\ Publish(a, "FAILED")
  /\ Goto(worker, a, "done")
  /\ UNCHANGED <<lifecycleVars, fusionVars, settingVars, bindingVars, starter, caller>>

-----------------------------------------------------------------------------
(* The pipeline, run by execute.  advance and snapshot touch the record    *)
(* only while it is RUNNING.  A write to the fusion run needs a live       *)
(* context and an ACTIVE run.                                              *)

CanWrite_AnyRun(a) == a \notin stopped

CanWrite(a) == a \notin stopped /\ run[a] = "ACTIVE"

Advance_Unguarded(a, s) == stage' = [stage EXCEPT ![a] = s]

Advance(a, s) ==
  stage' = [stage EXCEPT ![a] = IF record[a] = "RUNNING" THEN s ELSE @]

PipelineStep(a, at, next) == worker[a] = at /\ Goto(worker, a, next)

\* A step of the pipeline that only moves the stage on.
AdvanceStep(a, at, s, next) ==
  /\ PipelineStep(a, at, next)
  /\ Advance(a, s)
  /\ UNCHANGED <<record, version, cancels, stopped, fusionVars, settingVars,
                 bindingVars, starter, caller, log>>

Begin(a) ==
  /\ PipelineStep(a, "begin", "sensor")
  /\ Publish(a, "STARTED")
  /\ Advance(a, "PROTOCOL_PROCESSING")
  /\ UNCHANGED <<record, version, cancels, stopped, fusionVars, settingVars,
                 bindingVars, starter, caller>>

\* exportSensor: AddBatch rejects each item of a run that is not ACTIVE and
\* still returns no error, so this stage passes on a cancelled run.
ExportSensor(a) ==
  /\ PipelineStep(a, "sensor", "parser")
  /\ a \notin stopped
  /\ UNCHANGED <<lifecycleVars, fusionVars, settingVars, bindingVars, starter, caller, log>>

\* MarkSourceComplete and MarkSourceUnavailable.  The coverage is stored before
\* its event is published, so an error may follow it.
Mark(a, at, source, next) ==
  /\ \/ PipelineStep(a, at, next)
     \/ at \in Fallible /\ PipelineStep(a, at, "errored")
  /\ CanWrite(a)
  /\ covered' = [covered EXCEPT ![a] = @ \cup {source}]
  /\ UNCHANGED <<lifecycleVars, run, fused, assessment, settingVars, bindingVars,
                 starter, caller, log>>

\* The error of marking SHAP after a lost worker is ignored.
SkipMark(a) ==
  /\ PipelineStep(a, "shapLost", "fusion")
  /\ ~CanWrite(a)
  /\ UNCHANGED <<lifecycleVars, fusionVars, settingVars, bindingVars, starter, caller, log>>

\* ML.Start: only for the analysis the workspace names; any error means that
\* the worker is unavailable, and the pipeline goes on.
Infer_LossUnmarked(a) ==
  /\ \/ PipelineStep(a, "infer", "mlDone") /\ workspace.analysis = a
     \/ PipelineStep(a, "infer", "shapLost")
  /\ UNCHANGED <<lifecycleVars, fusionVars, settingVars, bindingVars, starter, caller, log>>

Infer(a) ==
  /\ \/ PipelineStep(a, "infer", "mlDone") /\ workspace.analysis = a
     \/ PipelineStep(a, "infer", "mlLost")
  /\ UNCHANGED <<lifecycleVars, fusionVars, settingVars, bindingVars, starter, caller, log>>

CollectEvidence(a) ==
  \/ Begin(a)
  \/ ExportSensor(a)
  \/ Mark(a, "parser", "PACKET_PARSER", "flow")
  \/ Mark(a, "flow", "FLOW_ANALYZER", "vici")
  \/ Mark(a, "vici", "VICI", "xfrm")
  \/ Mark(a, "xfrm", "XFRM", "features")

Classify(a) ==
  \/ AdvanceStep(a, "features", "FEATURE_EXTRACTION",
                 IF options[a].ml THEN "inference" ELSE "mlOff")
  \/ AdvanceStep(a, "inference", "ML_INFERENCE", "infer")
  \/ Infer(a)
  \/ Mark(a, "mlDone", "ML", "shapDone")
  \/ Mark(a, "shapDone", "SHAP", "fusion")
  \/ Mark(a, "mlLost", "ML", "shapLost")
  \/ Mark(a, "shapLost", "SHAP", "fusion")
  \/ SkipMark(a)
  \/ Mark(a, "mlOff", "ML", "shapOff")
  \/ Mark(a, "shapOff", "SHAP", "fusion")

RunFusion(a) ==
  /\ PipelineStep(a, "fusing", IF options[a].security THEN "security" ELSE "report")
  /\ CanWrite(a)
  /\ fused' = fused \cup {a}
  /\ UNCHANGED <<lifecycleVars, run, covered, assessment, settingVars, bindingVars,
                 starter, caller, log>>

\* Security.Run keeps a failed read of the conclusions in the assessment and
\* returns no error.
Assess(a) ==
  /\ PipelineStep(a, "assessing", "report")
  /\ \E outcome \in {"COMPLETED", "FAILED"} :
       /\ a \in stopped => outcome = "FAILED"
       /\ assessment' = [assessment EXCEPT ![a] = outcome]
  /\ UNCHANGED <<lifecycleVars, run, covered, fused, settingVars, bindingVars,
                 starter, caller, log>>

ReportCompletion(a) ==
  /\ PipelineStep(a, "report", "snapshot")
  /\ Publish(a, "COMPLETED")
  /\ UNCHANGED <<lifecycleVars, fusionVars, settingVars, bindingVars, starter, caller>>

TakeSnapshot(a) ==
  /\ PipelineStep(a, "snapshot", "succeeded")
  /\ version' = [version EXCEPT ![a] = IF record[a] = "RUNNING" THEN @ + 1 ELSE @]
  /\ UNCHANGED <<record, stage, cancels, stopped, fusionVars, settingVars,
                 bindingVars, starter, caller, log>>

Conclude(a) ==
  \/ AdvanceStep(a, "fusion", "FUSION", "fusing")
  \/ RunFusion(a)
  \/ AdvanceStep(a, "security", "SECURITY_ANALYSIS", "assessing")
  \/ Assess(a)
  \/ ReportCompletion(a)
  \/ TakeSnapshot(a)

PipelineError(a) ==
  /\ worker[a] \in Fallible
  /\ Goto(worker, a, "errored")
  /\ UNCHANGED <<lifecycleVars, fusionVars, settingVars, bindingVars, starter, caller, log>>

\* execute, after Run returned an error: a cancelled context is not a failure.
ClassifyError_Swallowed(a) ==
  /\ PipelineStep(a, "errored", "done")
  /\ UNCHANGED <<lifecycleVars, fusionVars, settingVars, bindingVars, starter, caller, log>>

ClassifyError_Retried(a) ==
  /\ PipelineStep(a, "errored", IF a \in stopped THEN "done" ELSE "sensor")
  /\ UNCHANGED <<lifecycleVars, fusionVars, settingVars, bindingVars, starter, caller, log>>

ClassifyError(a) ==
  /\ PipelineStep(a, "errored", IF a \in stopped THEN "done" ELSE "failing")
  /\ UNCHANGED <<lifecycleVars, fusionVars, settingVars, bindingVars, starter, caller, log>>

\* execute, after Run succeeded.
Complete_KeepsContext(a) ==
  /\ PipelineStep(a, "succeeded", "done")
  /\ record' = [record EXCEPT ![a] = IF @ = "RUNNING" THEN "COMPLETED" ELSE @]
  /\ stage'  = [stage EXCEPT ![a] = IF record[a] = "RUNNING" THEN "COMPLETED" ELSE @]
  /\ UNCHANGED <<version, cancels, stopped, fusionVars, settingVars, bindingVars,
                 starter, caller, log>>

Complete_FailsIfEnded(a) ==
  /\ PipelineStep(a, "succeeded", IF record[a] = "RUNNING" THEN "done" ELSE "failing")
  /\ record' = [record EXCEPT ![a] = IF @ = "RUNNING" THEN "COMPLETED" ELSE @]
  /\ stage'  = [stage EXCEPT ![a] = IF record[a] = "RUNNING" THEN "COMPLETED" ELSE @]
  /\ cancels' = cancels \ {a}
  /\ UNCHANGED <<version, stopped, fusionVars, settingVars, bindingVars, starter, caller, log>>

Complete(a) ==
  /\ PipelineStep(a, "succeeded", "done")
  /\ record' = [record EXCEPT ![a] = IF @ = "RUNNING" THEN "COMPLETED" ELSE @]
  /\ stage'  = [stage EXCEPT ![a] = IF record[a] = "RUNNING" THEN "COMPLETED" ELSE @]
  /\ cancels' = cancels \ {a}
  /\ UNCHANGED <<version, stopped, fusionVars, settingVars, bindingVars, starter, caller, log>>

-----------------------------------------------------------------------------
(* A Cancel request. *)

CheckRunning(c, a) ==
  /\ caller[c].pc = "idle"
  /\ record[a] = "RUNNING"
  /\ caller' = [caller EXCEPT ![c] = [pc |-> "checked", target |-> a]]
  /\ UNCHANGED <<lifecycleVars, fusionVars, settingVars, bindingVars, starter, worker, log>>

\* fusion.Cancel; the request's own context may have ended by then.
RevokeRun_ErrorIgnored(c) ==
  LET a == caller[c].target IN
  /\ caller[c].pc = "checked"
  /\ run' \in {run, [run EXCEPT ![a] = "CANCELLED"]}
  /\ caller' = [caller EXCEPT ![c].pc = "revoked"]
  /\ UNCHANGED <<lifecycleVars, covered, fused, assessment, settingVars, bindingVars,
                 starter, worker, log>>

RevokeRun_Finalizes(c) ==
  /\ caller[c].pc = "checked"
  /\ run' = [run EXCEPT ![caller[c].target] = "FINALIZED"]
  /\ caller' = [caller EXCEPT ![c].pc = "revoked"]
  /\ UNCHANGED <<lifecycleVars, covered, fused, assessment, settingVars, bindingVars,
                 starter, worker, log>>

RevokeRun(c) ==
  LET a == caller[c].target IN
  /\ caller[c].pc = "checked"
  /\ \/ /\ run' = [run EXCEPT ![a] = "CANCELLED"]
        /\ caller' = [caller EXCEPT ![c].pc = "revoked"]
     \/ /\ caller' = [caller EXCEPT ![c] = Idle]
        /\ UNCHANGED run
  /\ UNCHANGED <<lifecycleVars, covered, fused, assessment, settingVars, bindingVars,
                 starter, worker, log>>

MarkCancelled(c) ==
  LET a == caller[c].target IN
  /\ caller[c].pc = "revoked"
  /\ record'  = [record EXCEPT ![a] = "CANCELLED"]
  /\ stage'   = [stage EXCEPT ![a] = "CANCELLED"]
  /\ stopped' = IF a \in cancels THEN stopped \cup {a} ELSE stopped
  /\ cancels' = cancels \ {a}
  /\ caller'  = [caller EXCEPT ![c].pc = "reporting"]
  /\ UNCHANGED <<version, fusionVars, settingVars, bindingVars, starter, worker, log>>

ReportCancelled(c) ==
  /\ caller[c].pc = "reporting"
  /\ Publish(caller[c].target, "CANCELLED")
  /\ caller' = [caller EXCEPT ![c] = Idle]
  /\ UNCHANGED <<lifecycleVars, fusionVars, settingVars, bindingVars, starter, worker>>

-----------------------------------------------------------------------------
\* Workspace.Reset as the server wires it: no cleanup coordinator is
\* registered, so a new empty workspace replaces the old one and nothing else.
ResetWorkspace ==
  /\ workspace.generation < MaxGeneration
  /\ workspace' = [generation |-> workspace.generation + 1, analysis |-> NoAnalysis]
  /\ UNCHANGED <<lifecycleVars, fusionVars, settingVars, ownership, threadVars, log>>

StarterStep(a) ==
  \/ InsertRecord(a) \/ ReadOwnership(a) \/ BindWorkspace(a)
  \/ Launch(a) \/ LaunchWithoutPipeline(a)
  \/ StarterFails(a) \/ StarterReports(a)

WorkerStep(a) ==
  \/ CollectEvidence(a) \/ Classify(a) \/ Conclude(a)
  \/ PipelineError(a) \/ ClassifyError(a) \/ Complete(a)
  \/ WorkerFails(a) \/ WorkerReports(a)

CallerStep(c) == RevokeRun(c) \/ MarkCancelled(c) \/ ReportCancelled(c)

Next ==
  \/ \E a \in Analyses : Start(a) \/ StarterStep(a) \/ WorkerStep(a)
  \/ \E a, old \in Analyses : Retry(a, old)
  \/ \E c \in Callers : CallerStep(c) \/ \E a \in Analyses : CheckRunning(c, a)
  \/ ResetWorkspace

\* Every thread that runs keeps running: the Go scheduler starves no goroutine
\* and no step waits for another thread.  Requests need not arrive.
Fairness ==
  /\ \A a \in Analyses : WF_vars(StarterStep(a)) /\ WF_vars(WorkerStep(a))
  /\ \A c \in Callers : WF_vars(CallerStep(c))

Spec == Init /\ [][Next]_vars /\ Fairness

-----------------------------------------------------------------------------
(* Properties. *)

\* Every variable has its type.
TypeOK ==
  /\ record \in [Analyses -> {"NONE", "RUNNING"} \cup Terminal]
  /\ stage \in [Analyses -> Stages]
  /\ version \in [Analyses -> Nat]
  /\ options \in [Analyses -> [ml : BOOLEAN, security : BOOLEAN]]
  /\ cancels \in SUBSET Analyses
  /\ stopped \in SUBSET Analyses
  /\ run \in [Analyses -> {"NONE", "ACTIVE", "CANCELLED"}]
  /\ covered \in [Analyses -> SUBSET Sources]
  /\ fused \in SUBSET Analyses
  /\ assessment \in [Analyses -> {"NONE", "COMPLETED", "FAILED"}]
  /\ pipeline \in BOOLEAN
  /\ workspace \in [generation : Nat, analysis : Analyses \cup {NoAnalysis}]
  /\ ownership \in [Analyses -> Nat]
  /\ starter \in [Analyses -> StarterPc]
  /\ worker \in [Analyses -> WorkerPc]
  /\ caller \in [Callers -> [pc : CallerPc, target : Analyses \cup {NoAnalysis}]]
  /\ log \in [Analyses -> Seq({"STARTED"} \cup Terminal)]

Published(a, category) == \E i \in 1 .. Len(log[a]) : log[a][i] = category

\* The threads that can still move a record out of RUNNING.
StarterActive(a)   == starter[a] \in {"inserted", "binding", "bound", "failing"}
WorkerActive(a)    == worker[a] \notin {"off", "reporting", "done"}

\* A record that says RUNNING is never abandoned: its Start is still under way,
\* or its worker is.  The early return of execute on a cancelled context leaves
\* the record to somebody else; this says the somebody was always there already.
RunningHasDriver ==
  \A a \in Analyses :
    record[a] = "RUNNING" => StarterActive(a) \/ WorkerActive(a)

\* A cancelled analysis has a cancelled fusion run, whatever order Start, the
\* pipeline and the Cancel calls ran in, so no late evidence can enter it.
CancelledRunIsCancelled ==
  \A a \in Analyses : record[a] = "CANCELLED" => run[a] = "CANCELLED"

\* COMPLETED means assessed: every source reached terminal coverage, fusion ran
\* over it, and the security assessment was made if it was asked for, although
\* the pipeline ignores several errors on the way.
CompletedIsAssessed ==
  \A a \in Analyses : record[a] = "COMPLETED" =>
    /\ covered[a] = Sources
    /\ a \in fused
    /\ options[a].security => assessment[a] # "NONE"

\* Clients are never told both that an analysis completed and that it failed.
NoFailureAfterCompletion ==
  \A a \in Analyses : ~(Published(a, "COMPLETED") /\ Published(a, "FAILED"))

\* When the worker is gone its entry of the cancels map is gone too, including
\* when a Cancel ran before the entry was set.
WorkerReleasesContext ==
  \A a \in Analyses : worker[a] \in {"off", "reporting", "done"} => a \notin cancels

\* The stage of a finished record is its state: a late advance of a pipeline
\* that has not noticed the end does not touch it.
StageFollowsState ==
  \A a \in Analyses : record[a] \in Terminal => stage[a] = record[a]

\* Once an analysis is CANCELLED its fusion run gains no coverage and no result.
NoResultAfterCancel ==
  [][\A a \in Analyses : record[a] = "CANCELLED" =>
       covered'[a] = covered[a] /\ (a \in fused' => a \in fused)]_vars

\* The workspace names an analysis only if that analysis was bound under the
\* current generation: a Start that a reset overtook leaves no trace in it.
WorkspaceBindingIsCurrent ==
  \A a \in Analyses : workspace.analysis = a => ownership[a] = workspace.generation

\* The service implements the contract its clients see.
Contract == INSTANCE AnalysisContract WITH
  state  <- record,
  intake <- [a \in Analyses |-> CASE run[a] = "ACTIVE" -> "OPEN"
                                   [] run[a] = "CANCELLED" -> "CLOSED"
                                   [] OTHER -> "NONE"]
ImplementsContract == Contract!Spec

\* Every analysis ends.
EveryAnalysisEnds ==
  \A a \in Analyses : (record[a] = "RUNNING") ~> (record[a] \in Terminal)

\* Every cancelled worker stops.
CancelledWorkerStops ==
  \A a \in Analyses :
    (record[a] = "CANCELLED" /\ worker[a] # "off") ~> (worker[a] = "done")

\* Nothing the service keeps of an analysis is abandoned or contradicts the
\* rest: its record, its stage and its entry of the cancels map.
AnalysesAreKept == RunningHasDriver /\ StageFollowsState /\ WorkerReleasesContext

\* A Cancel that was answered is final for the fusion run too.
CancelIsFinal == []CancelledRunIsCancelled /\ NoResultAfterCancel

\* COMPLETED is only said of an analysis that was done, and never taken back.
CompletionIsTrue == CompletedIsAssessed /\ NoFailureAfterCompletion

\* Every analysis ends, and so does the goroutine of a cancelled one.
AnalysesEnd == EveryAnalysisEnds /\ CancelledWorkerStops

=============================================================================
