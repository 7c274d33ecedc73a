---------------------- MODULE AnalysisLifecycleProofs ----------------------
(***************************************************************************)
(* Proofs about AnalysisLifecycle, for any number of analyses and callers. *)
(***************************************************************************)
EXTENDS AnalysisLifecycle, TLAPS

(***************************************************************************)
(* The inductive invariant, in named parts.                                *)
(***************************************************************************)

\* How far Start has come tells which of the objects it makes exist.
StartOrder == \A a \in Analyses :
  /\ (record[a] = "NONE") <=> (starter[a] \in {"idle", "created", "rejected"})
  /\ (run[a] = "NONE") <=> (starter[a] = "idle")
  /\ (run[a] = "CANCELLED") => (record[a] # "NONE")
  /\ (worker[a] # "off") => (starter[a] = "returned")

\* A run context exists while its worker runs, and a context that was
\* cancelled belongs to a record that has left RUNNING.
ContextOwner == \A a \in Analyses :
  /\ (a \in cancels) => WorkerActive(a)
  /\ (a \in stopped) =>
       /\ starter[a] = "returned"
       /\ a \notin cancels
       /\ record[a] # "RUNNING"

\* Only a Cancel takes the record away from a Start or a worker under way.
WorkerOwnsRecord == \A a \in Analyses :
  StarterActive(a) \/ WorkerActive(a) => record[a] \in {"RUNNING", "CANCELLED"}

\* A Cancel request works on an analysis that exists, and revokes its fusion
\* run before it touches the record.
CancelOrder == \A c \in Callers :
  caller[c].pc # "idle" =>
    /\ caller[c].target \in Analyses
    /\ record[caller[c].target] # "NONE"
    /\ (caller[c].pc = "revoked") => (run[caller[c].target] = "CANCELLED")

\* The steps of the pipeline that come after its fusion pass.
AfterFusion == {"security", "assessing", "report", "snapshot", "succeeded"}
FusedBefore == \A a \in Analyses : worker[a] \in AfterFusion => a \in fused

Inv ==
  /\ TypeOK
  /\ StartOrder
  /\ ContextOwner
  /\ WorkerOwnsRecord
  /\ CancelOrder
  /\ FusedBefore
  /\ CancelledRunIsCancelled
  /\ RunningHasDriver
  /\ StageFollowsState


(***************************************************************************)
(* The steps of the pipeline have the same shape for this invariant.       *)
(***************************************************************************)

Running == WorkerPc \ {"off", "reporting", "done"}

PipelineMove(a) ==
  /\ WorkerActive(a)
  /\ \E next \in Running :
       /\ worker' = [worker EXCEPT ![a] = next]
       /\ (next \in AfterFusion) => (a \in fused')
  /\ (stage' = stage) \/ \E s \in Stages : Advance(a, s)
  /\ fused' \in {fused, fused \cup {a}}
  /\ covered' \in [Analyses -> SUBSET Sources]
  /\ version' \in [Analyses -> Nat]
  /\ assessment' \in [Analyses -> {"NONE", "COMPLETED", "FAILED"}]
  /\ log' \in [Analyses -> Seq({"STARTED"} \cup Terminal)]
  /\ UNCHANGED <<record, cancels, stopped, run, settingVars, bindingVars, starter, caller>>

LEMMA MarkMoves ==
  ASSUME TypeOK, NEW a \in Analyses,
         NEW at \in Running, NEW source \in Sources, NEW next \in Running \ AfterFusion,
         Mark(a, at, source, next)
  PROVE  PipelineMove(a)
<1>1. "errored" \in Running \ AfterFusion
  BY DEF Running, WorkerPc, Fallible, AfterFusion
<1>2. PICK to \in Running \ AfterFusion : PipelineStep(a, at, to)
  BY <1>1 DEF Mark
<1>3. /\ WorkerActive(a)
      /\ worker' = [worker EXCEPT ![a] = to]
  BY <1>2 DEF PipelineStep, Goto, Running, WorkerActive
<1>4. covered' \in [Analyses -> SUBSET Sources]
  BY DEF Mark, TypeOK
<1> QED
  BY <1>3, <1>4 DEF Mark, PipelineMove, TypeOK, lifecycleVars, settingVars, bindingVars

LEMMA AdvanceMoves ==
  ASSUME TypeOK, FusedBefore, NEW a \in Analyses,
         NEW at \in Running, NEW s \in Stages, NEW next \in Running,
         next \in AfterFusion => at \in AfterFusion,
         AdvanceStep(a, at, s, next)
  PROVE  PipelineMove(a)
<1>1. /\ WorkerActive(a)
      /\ worker' = [worker EXCEPT ![a] = next]
      /\ (next \in AfterFusion) => (a \in fused')
  BY DEF AdvanceStep, PipelineStep, Goto, Running, WorkerActive, FusedBefore, fusionVars
<1> QED
  BY <1>1 DEF AdvanceStep, PipelineMove, TypeOK, fusionVars, settingVars, bindingVars

LEMMA CollectMoves ==
  ASSUME TypeOK, FusedBefore, NEW a \in Analyses, CollectEvidence(a)
  PROVE  PipelineMove(a)
<1>1. {"begin", "sensor", "parser", "flow", "vici", "xfrm", "features"} \subseteq Running \ AfterFusion
  BY DEF Running, WorkerPc, Fallible, AfterFusion
<1>2. CASE Begin(a)
  <2>1. WorkerActive(a) /\ worker' = [worker EXCEPT ![a] = "sensor"]
    BY <1>2 DEF Begin, PipelineStep, Goto, WorkerActive
  <2>2. log' \in [Analyses -> Seq({"STARTED"} \cup Terminal)]
    BY <1>2 DEF Begin, Publish, TypeOK
  <2> QED
    BY <1>1, <1>2, <2>1, <2>2 DEF Begin, PipelineMove, TypeOK, Stages, fusionVars, settingVars, bindingVars
<1>3. CASE ExportSensor(a)
  <2>1. WorkerActive(a) /\ worker' = [worker EXCEPT ![a] = "parser"]
    BY <1>3 DEF ExportSensor, PipelineStep, Goto, WorkerActive
  <2> QED
    BY <1>1, <1>3, <2>1 DEF ExportSensor, PipelineMove, TypeOK, lifecycleVars, fusionVars, settingVars, bindingVars
<1> QED
  BY <1>1, <1>2, <1>3, MarkMoves DEF CollectEvidence, Sources

LEMMA ClassifyMoves ==
  ASSUME TypeOK, FusedBefore, NEW a \in Analyses, Classify(a)
  PROVE  PipelineMove(a)
<1>1. {"features", "inference", "infer", "mlDone", "shapDone", "mlLost", "shapLost",
       "mlOff", "shapOff", "fusion"} \subseteq Running \ AfterFusion
  BY DEF Running, WorkerPc, Fallible, AfterFusion
<1>2. {"FEATURE_EXTRACTION", "ML_INFERENCE"} \subseteq Stages
  BY DEF Stages
<1>3. CASE \/ AdvanceStep(a, "features", "FEATURE_EXTRACTION",
                          IF options[a].ml THEN "inference" ELSE "mlOff")
           \/ AdvanceStep(a, "inference", "ML_INFERENCE", "infer")
  BY <1>1, <1>2, <1>3, AdvanceMoves
<1>4. CASE Infer(a) \/ SkipMark(a)
  BY <1>1, <1>4 DEF Infer, SkipMark, TypeOK, PipelineMove, PipelineStep, Goto, WorkerActive, lifecycleVars, fusionVars, settingVars, bindingVars
<1>5. CASE \/ Mark(a, "mlDone", "ML", "shapDone")
           \/ Mark(a, "shapDone", "SHAP", "fusion")
           \/ Mark(a, "mlLost", "ML", "shapLost")
           \/ Mark(a, "shapLost", "SHAP", "fusion")
           \/ Mark(a, "mlOff", "ML", "shapOff")
           \/ Mark(a, "shapOff", "SHAP", "fusion")
  BY <1>1, <1>5, MarkMoves DEF Sources
<1> QED
  BY <1>3, <1>4, <1>5 DEF Classify

LEMMA ConcludeMoves ==
  ASSUME TypeOK, FusedBefore, NEW a \in Analyses, Conclude(a)
  PROVE  PipelineMove(a)
<1>1. /\ AfterFusion \subseteq Running
      /\ {"fusion", "fusing", "errored"} \subseteq Running \ AfterFusion
  BY DEF Running, WorkerPc, Fallible, AfterFusion
<1>2. CASE \/ AdvanceStep(a, "fusion", "FUSION", "fusing")
           \/ AdvanceStep(a, "security", "SECURITY_ANALYSIS", "assessing")
  BY <1>1, <1>2, AdvanceMoves DEF Stages, AfterFusion
<1>3. CASE RunFusion(a)
  BY <1>1, <1>3 DEF RunFusion, TypeOK, PipelineMove, PipelineStep, Goto, WorkerActive, AfterFusion, lifecycleVars, settingVars, bindingVars
<1>4. CASE Assess(a)
  <2>1. /\ WorkerActive(a)
        /\ worker' = [worker EXCEPT ![a] = "report"]
        /\ "report" \in Running
        /\ a \in fused /\ fused' = fused
    BY <1>1, <1>4 DEF Assess, PipelineStep, Goto, WorkerActive, FusedBefore, AfterFusion
  <2>2. assessment' \in [Analyses -> {"NONE", "COMPLETED", "FAILED"}]
    BY <1>4 DEF Assess, TypeOK
  <2> QED
    BY <1>4, <2>1, <2>2 DEF Assess, TypeOK, PipelineMove, lifecycleVars, settingVars, bindingVars
<1>5. CASE ReportCompletion(a)
  <2>1. /\ WorkerActive(a)
        /\ worker' = [worker EXCEPT ![a] = "snapshot"]
        /\ "snapshot" \in Running
        /\ a \in fused /\ fused' = fused
    BY <1>1, <1>5 DEF ReportCompletion, PipelineStep, Goto, WorkerActive, FusedBefore, AfterFusion, fusionVars
  <2>2. log' \in [Analyses -> Seq({"STARTED"} \cup Terminal)]
    BY <1>5 DEF ReportCompletion, Publish, TypeOK, Terminal
  <2> QED
    BY <1>5, <2>1, <2>2 DEF ReportCompletion, TypeOK, PipelineMove, lifecycleVars, fusionVars, settingVars, bindingVars
<1>6. CASE TakeSnapshot(a)
  <2>1. /\ WorkerActive(a)
        /\ worker' = [worker EXCEPT ![a] = "succeeded"]
        /\ "succeeded" \in Running
        /\ a \in fused /\ fused' = fused
    BY <1>1, <1>6 DEF TakeSnapshot, PipelineStep, Goto, WorkerActive, FusedBefore, AfterFusion, fusionVars
  <2>2. version' \in [Analyses -> Nat]
    BY <1>6 DEF TakeSnapshot, TypeOK
  <2> QED
    BY <1>6, <2>1, <2>2 DEF TakeSnapshot, TypeOK, PipelineMove, fusionVars, settingVars, bindingVars
<1> QED
  BY <1>2, <1>3, <1>4, <1>5, <1>6 DEF Conclude

LEMMA ErrorMoves ==
  ASSUME TypeOK, NEW a \in Analyses, PipelineError(a)
  PROVE  PipelineMove(a)
<1>1. "errored" \in Running \ AfterFusion
  BY DEF Running, WorkerPc, Fallible, AfterFusion
<1>2. WorkerActive(a) /\ worker' = [worker EXCEPT ![a] = "errored"]
  BY DEF PipelineError, Goto, WorkerActive, Fallible
<1> QED
  BY <1>1, <1>2 DEF PipelineError, TypeOK, PipelineMove, lifecycleVars, fusionVars, settingVars, bindingVars

(***************************************************************************)
(* The invariant holds initially and every step preserves it.              *)
(***************************************************************************)

\* Everything but the types.
Order ==
  /\ StartOrder
  /\ ContextOwner
  /\ WorkerOwnsRecord
  /\ CancelOrder
  /\ FusedBefore
  /\ CancelledRunIsCancelled
  /\ RunningHasDriver
  /\ StageFollowsState

LEMMA InitInv == Init => Inv
<1> SUFFICES ASSUME Init PROVE Inv
  OBVIOUS
<1>1. TypeOK
  BY AnalysisAssumption DEF Init, TypeOK, Stages, StarterPc, WorkerPc, CallerPc, Idle, AnalysisAssumption
<1>2. StartOrder /\ ContextOwner /\ WorkerOwnsRecord /\ CancelOrder /\ FusedBefore
  BY DEF Init, StartOrder, ContextOwner, WorkerOwnsRecord, CancelOrder, FusedBefore, StarterActive, WorkerActive, AfterFusion, Idle
<1>3. CancelledRunIsCancelled /\ RunningHasDriver /\ StageFollowsState
  BY DEF Init, CancelledRunIsCancelled, RunningHasDriver, StageFollowsState, Terminal
<1> QED
  BY <1>1, <1>2, <1>3 DEF Inv

LEMMA PipelineMoveType ==
  ASSUME TypeOK, NEW a \in Analyses, PipelineMove(a)
  PROVE  TypeOK'
<1>1. worker' \in [Analyses -> WorkerPc]
  BY DEF PipelineMove, TypeOK, Running
<1>2. CASE stage' = stage
  BY <1>1, <1>2 DEF PipelineMove, TypeOK, settingVars, bindingVars
<1>3. ASSUME NEW s \in Stages, Advance(a, s)
      PROVE  stage' \in [Analyses -> Stages]
  BY <1>3 DEF TypeOK, Advance
<1> QED
  BY <1>1, <1>2, <1>3 DEF PipelineMove, TypeOK, settingVars, bindingVars

LEMMA PipelineMoveOrder ==
  ASSUME TypeOK, Order, NEW a \in Analyses, PipelineMove(a)
  PROVE  Order'
<1> USE DEF TypeOK, Order, PipelineMove
<1>1. PICK next \in Running :
        /\ worker' = [worker EXCEPT ![a] = next]
        /\ (next \in AfterFusion) => (a \in fused')
  OBVIOUS
<1>2. \A b \in Analyses : WorkerActive(b)' <=> WorkerActive(b)
  BY <1>1 DEF WorkerActive, Running
<1>3. StartOrder'
  BY <1>1, <1>2 DEF StartOrder, Running, WorkerActive
<1>4. ContextOwner'
  BY <1>2 DEF ContextOwner
<1>5. WorkerOwnsRecord'
  BY <1>2 DEF WorkerOwnsRecord, StarterActive
<1>6. CancelOrder'
  BY DEF CancelOrder
<1>7. FusedBefore'
  BY <1>1 DEF FusedBefore
<1>8. CancelledRunIsCancelled'
  BY DEF CancelledRunIsCancelled
<1>9. RunningHasDriver'
  BY <1>2 DEF RunningHasDriver, StarterActive
<1>10. StageFollowsState'
  BY DEF StageFollowsState, Advance, Terminal
<1> QED
  BY <1>3, <1>4, <1>5, <1>6, <1>7, <1>8, <1>9, <1>10


LEMMA StepType ==
  ASSUME TypeOK, Order, [Next]_vars
  PROVE  TypeOK'
<1>1. ASSUME NEW a \in Analyses, NEW chosen \in [ml : BOOLEAN, security : BOOLEAN],
             CreateRun(a, chosen)
      PROVE  TypeOK'
  BY <1>1 DEF TypeOK, CreateRun, Goto, StarterPc, lifecycleVars, fusionVars, settingVars, bindingVars
<1>2. ASSUME NEW a \in Analyses, InsertRecord(a)
      PROVE  TypeOK'
  BY <1>2 DEF TypeOK, InsertRecord, Goto, StarterPc, Stages, fusionVars, settingVars, bindingVars
<1>3. ASSUME NEW a \in Analyses, ReadOwnership(a)
      PROVE  TypeOK'
  BY <1>3 DEF TypeOK, ReadOwnership, Goto, StarterPc, lifecycleVars, fusionVars, settingVars
<1>4. ASSUME NEW a \in Analyses, BindWorkspace(a)
      PROVE  TypeOK'
  BY <1>4 DEF TypeOK, BindWorkspace, Goto, StarterPc, lifecycleVars, fusionVars, settingVars
<1>5. ASSUME NEW a \in Analyses, Launch(a)
      PROVE  TypeOK'
  BY <1>5 DEF TypeOK, Launch, Goto, StarterPc, WorkerPc, fusionVars, settingVars, bindingVars
<1>6. ASSUME NEW a \in Analyses, LaunchWithoutPipeline(a)
      PROVE  TypeOK'
  BY <1>6 DEF TypeOK, LaunchWithoutPipeline, Goto, StarterPc, lifecycleVars, fusionVars, settingVars, bindingVars
<1>7. ASSUME NEW a \in Analyses, StarterFails(a)
      PROVE  TypeOK'
  BY <1>7 DEF TypeOK, StarterFails, FailRecord, Goto, StarterPc, Stages, Terminal, fusionVars, settingVars, bindingVars
<1>8. ASSUME NEW a \in Analyses, StarterReports(a)
      PROVE  TypeOK'
  BY <1>8 DEF TypeOK, StarterReports, Publish, Goto, StarterPc, Terminal, lifecycleVars, fusionVars, settingVars, bindingVars
<1>9. ASSUME NEW a \in Analyses, ClassifyError(a)
      PROVE  TypeOK'
  BY <1>9 DEF TypeOK, ClassifyError, PipelineStep, Goto, WorkerPc, Fallible, lifecycleVars, fusionVars, settingVars, bindingVars
<1>10. ASSUME NEW a \in Analyses, Complete(a)
      PROVE  TypeOK'
  BY <1>10 DEF TypeOK, Complete, PipelineStep, Goto, WorkerPc, Stages, Terminal, fusionVars, settingVars, bindingVars
<1>11. ASSUME NEW a \in Analyses, WorkerFails(a)
      PROVE  TypeOK'
  BY <1>11 DEF TypeOK, WorkerFails, FailRecord, Goto, WorkerPc, Stages, Terminal, fusionVars, settingVars, bindingVars
<1>12. ASSUME NEW a \in Analyses, WorkerReports(a)
      PROVE  TypeOK'
  BY <1>12 DEF TypeOK, WorkerReports, Publish, Goto, WorkerPc, Terminal, lifecycleVars, fusionVars, settingVars, bindingVars
<1>13. ASSUME NEW c \in Callers, RevokeRun(c)
      PROVE  TypeOK'
  <2>1. caller[c].target \in Analyses
    BY <1>13 DEF RevokeRun, Order, CancelOrder
  <2>2. run' \in [Analyses -> {"NONE", "ACTIVE", "CANCELLED"}]
    BY <1>13, <2>1 DEF TypeOK, RevokeRun
  <2>3. caller' \in [Callers -> [pc : CallerPc, target : Analyses \cup {NoAnalysis}]]
    <3>1. CASE caller' = [caller EXCEPT ![c].pc = "revoked"]
      <4>1. caller[c] \in [pc : CallerPc, target : Analyses \cup {NoAnalysis}]
        BY DEF TypeOK
      <4>2. [caller[c] EXCEPT !.pc = "revoked"] \in [pc : CallerPc, target : Analyses \cup {NoAnalysis}]
        BY <4>1 DEF CallerPc
      <4> QED
        BY <3>1, <4>2 DEF TypeOK
    <3>2. CASE caller' = [caller EXCEPT ![c] = Idle]
      BY <3>2 DEF TypeOK, CallerPc, Idle
    <3> QED
      BY <1>13, <3>1, <3>2 DEF RevokeRun
  <2> QED
    BY <1>13, <2>2, <2>3 DEF TypeOK, RevokeRun, lifecycleVars, settingVars, bindingVars
<1>14. ASSUME NEW c \in Callers, MarkCancelled(c)
      PROVE  TypeOK'
  <2>1. caller[c].target \in Analyses
    BY <1>14 DEF MarkCancelled, Order, CancelOrder
  <2>2. /\ record' \in [Analyses -> {"NONE", "RUNNING"} \cup Terminal]
        /\ stage' \in [Analyses -> Stages]
    BY <1>14, <2>1 DEF TypeOK, MarkCancelled, Stages, Terminal
  <2>3. cancels' \in SUBSET Analyses /\ stopped' \in SUBSET Analyses
    BY <1>14, <2>1 DEF TypeOK, MarkCancelled
  <2>4. caller' \in [Callers -> [pc : CallerPc, target : Analyses \cup {NoAnalysis}]]
    <3>1. caller[c] \in [pc : CallerPc, target : Analyses \cup {NoAnalysis}]
      BY DEF TypeOK
    <3>2. [caller[c] EXCEPT !.pc = "reporting"] \in [pc : CallerPc, target : Analyses \cup {NoAnalysis}]
      BY <3>1 DEF CallerPc
    <3> QED
      BY <1>14, <3>2 DEF TypeOK, MarkCancelled
  <2> QED
    BY <1>14, <2>2, <2>3, <2>4 DEF TypeOK, MarkCancelled, fusionVars, settingVars, bindingVars
<1>15. ASSUME NEW c \in Callers, ReportCancelled(c)
      PROVE  TypeOK'
  BY <1>15 DEF TypeOK, ReportCancelled, Publish, CallerPc, Idle, Terminal, lifecycleVars, fusionVars, settingVars, bindingVars, CancelOrder, Order
<1>16. ASSUME NEW c \in Callers, NEW a \in Analyses, CheckRunning(c, a)
      PROVE  TypeOK'
  BY <1>16 DEF TypeOK, CheckRunning, CallerPc, lifecycleVars, fusionVars, settingVars, bindingVars, CancelOrder, Order
<1>17. CASE ResetWorkspace
  BY <1>17 DEF TypeOK, ResetWorkspace, lifecycleVars, fusionVars, settingVars, threadVars
<1>18. CASE UNCHANGED vars
  BY <1>18 DEF TypeOK, vars, threadVars, lifecycleVars, fusionVars, settingVars, bindingVars
<1>19. ASSUME NEW a \in Analyses,
             CollectEvidence(a) \/ Classify(a) \/ Conclude(a) \/ PipelineError(a)
      PROVE  TypeOK'
  BY <1>19, CollectMoves, ClassifyMoves, ConcludeMoves, ErrorMoves, PipelineMoveType DEF Order
<1>20. ASSUME NEW a \in Analyses, Start(a) \/ \E old \in Analyses : Retry(a, old)
       PROVE  TypeOK'
  BY <1>1, <1>20, AnalysisAssumption DEF Start, Retry, AnalysisAssumption, TypeOK
<1>21. ASSUME NEW a \in Analyses, StarterStep(a)
       PROVE  TypeOK'
  BY <1>2, <1>3, <1>4, <1>5, <1>6, <1>7, <1>8, <1>21 DEF StarterStep
<1>22. ASSUME NEW a \in Analyses, WorkerStep(a)
       PROVE  TypeOK'
  BY <1>9, <1>10, <1>11, <1>12, <1>19, <1>22 DEF WorkerStep
<1>23. ASSUME NEW c \in Callers, CallerStep(c)
       PROVE  TypeOK'
  BY <1>13, <1>14, <1>15, <1>23 DEF CallerStep
<1> QED
  BY <1>16, <1>17, <1>18, <1>20, <1>21, <1>22, <1>23 DEF Next

LEMMA CreateKeepsDriver ==
  ASSUME TypeOK, StartOrder, RunningHasDriver, NEW a \in Analyses, NEW chosen, CreateRun(a, chosen)
  PROVE  RunningHasDriver'
<1>1. record[a] = "NONE" /\ record' = record /\ worker' = worker
  BY DEF CreateRun, StartOrder, lifecycleVars
<1>2. \A b \in Analyses : b # a => starter'[b] = starter[b]
  BY DEF CreateRun, Goto, TypeOK
<1>3. ASSUME NEW b \in Analyses, record'[b] = "RUNNING"
      PROVE  StarterActive(b)' \/ WorkerActive(b)'
  <2>1. b # a /\ (StarterActive(b) \/ WorkerActive(b))
    BY <1>1, <1>3 DEF RunningHasDriver
  <2> QED
    BY <1>1, <1>2, <2>1 DEF StarterActive, WorkerActive
<1> QED
  BY <1>3 DEF RunningHasDriver

LEMMA StepOrder ==
  ASSUME TypeOK, Order, [Next]_vars
  PROVE  Order'
<1> USE DEF TypeOK, Order, WorkerActive, StarterActive, AfterFusion, Terminal, StartOrder, ContextOwner, WorkerOwnsRecord, CancelOrder, FusedBefore, CancelledRunIsCancelled, RunningHasDriver, StageFollowsState
<1>1. ASSUME NEW a \in Analyses, NEW chosen \in [ml : BOOLEAN, security : BOOLEAN],
             CreateRun(a, chosen)
      PROVE  Order'
  <2>1. StartOrder'
    BY <1>1 DEF CreateRun, Goto, lifecycleVars, fusionVars, settingVars, bindingVars
  <2>2. ContextOwner'
    BY <1>1 DEF CreateRun, Goto, lifecycleVars, fusionVars, settingVars, bindingVars
  <2>3. WorkerOwnsRecord'
    BY <1>1 DEF CreateRun, Goto, lifecycleVars, fusionVars, settingVars, bindingVars
  <2>4. CancelOrder'
    BY <1>1 DEF CreateRun, Goto, lifecycleVars, fusionVars, settingVars, bindingVars
  <2>5. FusedBefore'
    BY <1>1 DEF CreateRun, Goto, lifecycleVars, fusionVars, settingVars, bindingVars
  <2>6. CancelledRunIsCancelled'
    BY <1>1 DEF CreateRun, Goto, lifecycleVars, fusionVars, settingVars, bindingVars
  <2>7. RunningHasDriver'
    BY <1>1, CreateKeepsDriver
  <2>8. StageFollowsState'
    BY <1>1 DEF CreateRun, Goto, lifecycleVars, fusionVars, settingVars, bindingVars
  <2> QED
    BY <2>1, <2>2, <2>3, <2>4, <2>5, <2>6, <2>7, <2>8
<1>2. ASSUME NEW a \in Analyses, InsertRecord(a)
      PROVE  Order'
  BY <1>2 DEF InsertRecord, Goto, lifecycleVars, fusionVars, settingVars, bindingVars
<1>3. ASSUME NEW a \in Analyses, ReadOwnership(a)
      PROVE  Order'
  BY <1>3 DEF ReadOwnership, Goto, lifecycleVars, fusionVars, settingVars, bindingVars
<1>4. ASSUME NEW a \in Analyses, BindWorkspace(a)
      PROVE  Order'
  BY <1>4 DEF BindWorkspace, Goto, lifecycleVars, fusionVars, settingVars, bindingVars
<1>5. ASSUME NEW a \in Analyses, Launch(a)
      PROVE  Order'
  <2>1. StartOrder'
    BY <1>5 DEF Launch, Goto, lifecycleVars, fusionVars, settingVars, bindingVars
  <2>2. ContextOwner'
    BY <1>5 DEF Launch, Goto, lifecycleVars, fusionVars, settingVars, bindingVars
  <2>3. WorkerOwnsRecord'
    BY <1>5 DEF Launch, Goto, lifecycleVars, fusionVars, settingVars, bindingVars
  <2>4. CancelOrder'
    BY <1>5 DEF Launch, Goto, lifecycleVars, fusionVars, settingVars, bindingVars
  <2>5. FusedBefore'
    BY <1>5 DEF Launch, Goto, lifecycleVars, fusionVars, settingVars, bindingVars
  <2>6. CancelledRunIsCancelled'
    BY <1>5 DEF Launch, Goto, lifecycleVars, fusionVars, settingVars, bindingVars
  <2>7. RunningHasDriver'
    BY <1>5 DEF Launch, Goto, lifecycleVars, fusionVars, settingVars, bindingVars
  <2>8. StageFollowsState'
    BY <1>5 DEF Launch, Goto, lifecycleVars, fusionVars, settingVars, bindingVars
  <2> QED
    BY <2>1, <2>2, <2>3, <2>4, <2>5, <2>6, <2>7, <2>8
<1>6. ASSUME NEW a \in Analyses, LaunchWithoutPipeline(a)
      PROVE  Order'
  BY <1>6 DEF LaunchWithoutPipeline, Goto, lifecycleVars, fusionVars, settingVars, bindingVars
<1>7. ASSUME NEW a \in Analyses, StarterFails(a)
      PROVE  Order'
  BY <1>7 DEF StarterFails, FailRecord, Goto, lifecycleVars, fusionVars, settingVars, bindingVars
<1>8. ASSUME NEW a \in Analyses, StarterReports(a)
      PROVE  Order'
  BY <1>8 DEF StarterReports, Goto, lifecycleVars, fusionVars, settingVars, bindingVars
<1>9. ASSUME NEW a \in Analyses, ClassifyError(a)
      PROVE  Order'
  BY <1>9 DEF ClassifyError, PipelineStep, Goto, lifecycleVars, fusionVars, settingVars, bindingVars
<1>10. ASSUME NEW a \in Analyses, Complete(a)
      PROVE  Order'
  BY <1>10 DEF Complete, PipelineStep, Goto, lifecycleVars, fusionVars, settingVars, bindingVars
<1>11. ASSUME NEW a \in Analyses, WorkerFails(a)
      PROVE  Order'
  BY <1>11 DEF WorkerFails, FailRecord, Goto, lifecycleVars, fusionVars, settingVars, bindingVars
<1>12. ASSUME NEW a \in Analyses, WorkerReports(a)
      PROVE  Order'
  BY <1>12 DEF WorkerReports, Goto, lifecycleVars, fusionVars, settingVars, bindingVars
<1>13. ASSUME NEW c \in Callers, RevokeRun(c)
      PROVE  Order'
  <2>1. caller[c].pc = "checked" /\ caller[c].target \in Analyses
    BY <1>13 DEF RevokeRun
  <2>2. StartOrder'
    BY <1>13, <2>1 DEF RevokeRun, Idle, lifecycleVars, fusionVars, settingVars, bindingVars
  <2>3. ContextOwner'
    BY <1>13, <2>1 DEF RevokeRun, Idle, lifecycleVars, fusionVars, settingVars, bindingVars
  <2>4. WorkerOwnsRecord'
    BY <1>13, <2>1 DEF RevokeRun, Idle, lifecycleVars, fusionVars, settingVars, bindingVars
  <2>5. CancelOrder'
    <3>1. CASE /\ run' = [run EXCEPT ![caller[c].target] = "CANCELLED"]
               /\ caller' = [caller EXCEPT ![c].pc = "revoked"]
      BY <1>13, <2>1, <3>1 DEF RevokeRun, lifecycleVars
    <3>2. CASE run' = run /\ caller' = [caller EXCEPT ![c] = Idle]
      BY <1>13, <3>2 DEF RevokeRun, Idle, lifecycleVars
    <3> QED
      BY <1>13, <3>1, <3>2 DEF RevokeRun
  <2>6. FusedBefore'
    BY <1>13, <2>1 DEF RevokeRun, Idle, lifecycleVars, fusionVars, settingVars, bindingVars
  <2>7. CancelledRunIsCancelled'
    BY <1>13, <2>1 DEF RevokeRun, Idle, lifecycleVars, fusionVars, settingVars, bindingVars
  <2>8. RunningHasDriver'
    BY <1>13, <2>1 DEF RevokeRun, Idle, lifecycleVars, fusionVars, settingVars, bindingVars
  <2>9. StageFollowsState'
    BY <1>13, <2>1 DEF RevokeRun, Idle, lifecycleVars, fusionVars, settingVars, bindingVars
  <2> QED
    BY <2>2, <2>3, <2>4, <2>5, <2>6, <2>7, <2>8, <2>9
<1>14. ASSUME NEW c \in Callers, MarkCancelled(c)
      PROVE  Order'
  <2>1. /\ caller[c].target \in Analyses
        /\ record[caller[c].target] # "NONE"
        /\ run[caller[c].target] = "CANCELLED"
    BY <1>14 DEF MarkCancelled
  <2>2. StartOrder'
    BY <1>14, <2>1 DEF MarkCancelled, lifecycleVars, fusionVars, settingVars, bindingVars
  <2>3. ContextOwner'
    BY <1>14, <2>1 DEF MarkCancelled, lifecycleVars, fusionVars, settingVars, bindingVars
  <2>4. WorkerOwnsRecord'
    BY <1>14, <2>1 DEF MarkCancelled, lifecycleVars, fusionVars, settingVars, bindingVars
  <2>5. CancelOrder'
    BY <1>14, <2>1 DEF MarkCancelled, lifecycleVars, fusionVars, settingVars, bindingVars
  <2>6. FusedBefore'
    BY <1>14, <2>1 DEF MarkCancelled, lifecycleVars, fusionVars, settingVars, bindingVars
  <2>7. CancelledRunIsCancelled'
    BY <1>14, <2>1 DEF MarkCancelled, lifecycleVars, fusionVars, settingVars, bindingVars
  <2>8. RunningHasDriver'
    BY <1>14, <2>1 DEF MarkCancelled, lifecycleVars, fusionVars, settingVars, bindingVars
  <2>9. StageFollowsState'
    BY <1>14, <2>1 DEF MarkCancelled, lifecycleVars, fusionVars, settingVars, bindingVars
  <2> QED
    BY <2>2, <2>3, <2>4, <2>5, <2>6, <2>7, <2>8, <2>9
<1>15. ASSUME NEW c \in Callers, ReportCancelled(c)
      PROVE  Order'
  BY <1>15 DEF ReportCancelled, Idle, lifecycleVars, fusionVars, settingVars, bindingVars
<1>16. ASSUME NEW c \in Callers, NEW a \in Analyses, CheckRunning(c, a)
      PROVE  Order'
  BY <1>16 DEF CheckRunning, lifecycleVars, fusionVars, settingVars, bindingVars
<1>17. CASE ResetWorkspace
  BY <1>17 DEF ResetWorkspace, threadVars, lifecycleVars, fusionVars, settingVars, bindingVars
<1>18. CASE UNCHANGED vars
  BY <1>18 DEF vars, threadVars, lifecycleVars, fusionVars, settingVars, bindingVars
<1>19. ASSUME NEW a \in Analyses,
             CollectEvidence(a) \/ Classify(a) \/ Conclude(a) \/ PipelineError(a)
      PROVE  Order'
  BY <1>19, CollectMoves, ClassifyMoves, ConcludeMoves, ErrorMoves, PipelineMoveOrder
<1>20. ASSUME NEW a \in Analyses, Start(a) \/ \E old \in Analyses : Retry(a, old)
       PROVE  Order'
  BY <1>1, <1>20, AnalysisAssumption DEF Start, Retry, AnalysisAssumption
<1>21. ASSUME NEW a \in Analyses, StarterStep(a)
       PROVE  Order'
  BY <1>2, <1>3, <1>4, <1>5, <1>6, <1>7, <1>8, <1>21 DEF StarterStep
<1>22. ASSUME NEW a \in Analyses, WorkerStep(a)
       PROVE  Order'
  BY <1>9, <1>10, <1>11, <1>12, <1>19, <1>22 DEF WorkerStep
<1>23. ASSUME NEW c \in Callers, CallerStep(c)
       PROVE  Order'
  BY <1>13, <1>14, <1>15, <1>23 DEF CallerStep
<1> QED
  BY <1>16, <1>17, <1>18, <1>20, <1>21, <1>22, <1>23 DEF Next

\* The parts of the invariant hold together, whatever Start, execute and Cancel do.
THEOREM Invariance == Spec => []Inv
<1>1. Init => Inv
  BY InitInv
<1>2. Inv /\ [Next]_vars => Inv'
  BY StepType, StepOrder DEF Inv, Order
<1> QED
  BY <1>1, <1>2, PTL DEF Spec

\* Every variable has its type.
THEOREM TypeCorrect == Spec => []TypeOK
<1>1. Inv => TypeOK
  BY DEF Inv
<1> QED
  BY <1>1, Invariance, PTL

\* A cancelled analysis has a cancelled fusion run.
THEOREM CancelRevokesRun == Spec => []CancelledRunIsCancelled
<1>1. Inv => CancelledRunIsCancelled
  BY DEF Inv
<1> QED
  BY <1>1, Invariance, PTL

\* A record that says RUNNING is never abandoned.
THEOREM NoAbandonedAnalysis == Spec => []RunningHasDriver
<1>1. Inv => RunningHasDriver
  BY DEF Inv
<1> QED
  BY <1>1, Invariance, PTL

\* The stage of a finished record is its state.
THEOREM StageIsFinal == Spec => []StageFollowsState
<1>1. Inv => StageFollowsState
  BY DEF Inv
<1> QED
  BY <1>1, Invariance, PTL

\* A worker that is gone leaves no run context behind.
THEOREM ContextReleased == Spec => []WorkerReleasesContext
<1>1. Inv => WorkerReleasesContext
  BY DEF Inv, ContextOwner, WorkerActive, WorkerReleasesContext
<1> QED
  BY <1>1, Invariance, PTL

(***************************************************************************)
(* The service implements AnalysisContract.                                *)
(***************************************************************************)

\* The steps the contract does not see.
LEMMA QuietStep ==
  ASSUME UNCHANGED <<record, run, fused>>
  PROVE  UNCHANGED Contract!vars
BY DEF Contract!vars

LEMMA QuietWorker ==
  ASSUME NEW a \in Analyses,
         CollectEvidence(a) \/ Classify(a) \/ PipelineError(a) \/ ClassifyError(a) \/ WorkerReports(a)
  PROVE  UNCHANGED <<record, run, fused>>
<1>1. CASE CollectEvidence(a)
  BY <1>1 DEF CollectEvidence, Begin, ExportSensor, Mark, lifecycleVars, fusionVars
<1>2. CASE Classify(a)
  BY <1>2 DEF Classify, AdvanceStep, Infer, Mark, SkipMark, lifecycleVars, fusionVars
<1>3. CASE PipelineError(a) \/ ClassifyError(a) \/ WorkerReports(a)
  BY <1>3 DEF PipelineError, ClassifyError, WorkerReports, lifecycleVars, fusionVars
<1> QED
  BY <1>1, <1>2, <1>3

LEMMA ConcludeContract ==
  ASSUME Inv, NEW a \in Analyses, Conclude(a)
  PROVE  [Contract!Next]_(Contract!vars)
<1>1. CASE RunFusion(a)
  <2>1. /\ run[a] = "ACTIVE" /\ run' = run /\ record' = record
        /\ fused' = fused \cup {a}
    BY <1>1 DEF RunFusion, CanWrite, lifecycleVars
  <2>2. WorkerActive(a)
    BY <1>1 DEF RunFusion, PipelineStep, WorkerActive
  <2>3. record[a] = "RUNNING"
    BY <2>1, <2>2 DEF Inv, WorkerOwnsRecord, CancelledRunIsCancelled
  <2> QED
    BY <2>1, <2>3 DEF Contract!Next, Contract!Fuse, Inv, TypeOK
<1>2. CASE ~RunFusion(a)
  <2>1. UNCHANGED <<record, run, fused>>
    BY <1>2 DEF Conclude, AdvanceStep, Assess, ReportCompletion, TakeSnapshot, lifecycleVars, fusionVars
  <2> QED
    BY <2>1, QuietStep
<1> QED
  BY <1>1, <1>2

LEMMA FailContract ==
  ASSUME Inv, NEW a \in Analyses, FailRecord(a)
  PROVE  [Contract!Next]_(Contract!vars)
<1>1. run' = run /\ fused' = fused
  BY DEF FailRecord, fusionVars
<1>2. CASE record[a] = "RUNNING"
  BY <1>1, <1>2 DEF FailRecord, Contract!Next, Contract!Fail
<1>3. CASE record[a] # "RUNNING"
  <2>1. record' = record
    BY <1>3 DEF FailRecord, Inv, TypeOK
  <2> QED
    BY <1>1, <2>1, QuietStep
<1> QED
  BY <1>2, <1>3

LEMMA CompleteContract ==
  ASSUME Inv, NEW a \in Analyses, Complete(a)
  PROVE  [Contract!Next]_(Contract!vars)
<1>1. run' = run /\ fused' = fused
  BY DEF Complete, fusionVars
<1>2. CASE record[a] = "RUNNING"
  <2>1. a \in fused
    BY DEF Complete, PipelineStep, Inv, FusedBefore, AfterFusion
  <2> QED
    BY <1>1, <1>2, <2>1 DEF Complete, Contract!Next, Contract!Complete
<1>3. CASE record[a] # "RUNNING"
  <2>1. record' = record
    BY <1>3 DEF Complete, Inv, TypeOK
  <2> QED
    BY <1>1, <2>1, QuietStep
<1> QED
  BY <1>2, <1>3

LEMMA CallerContract ==
  ASSUME Inv, NEW c \in Callers, CallerStep(c)
  PROVE  [Contract!Next]_(Contract!vars)
<1>1. PICK a \in Analyses : a = caller[c].target /\ record[a] # "NONE"
  BY DEF CallerStep, RevokeRun, MarkCancelled, ReportCancelled, Inv, CancelOrder
<1>2. CASE RevokeRun(c)
  <2>1. record[a] # "NONE"
    BY <1>1
  <2>2. record' = record /\ fused' = fused
    BY <1>2 DEF RevokeRun, lifecycleVars
  <2>3. run[a] \in {"ACTIVE", "CANCELLED"}
    BY <2>1 DEF Inv, TypeOK, StartOrder
  <2>4. CASE run' = run
    BY <2>2, <2>4, QuietStep
  <2>5. CASE run' = [run EXCEPT ![a] = "CANCELLED"] /\ run[a] = "CANCELLED"
    BY <2>2, <2>5, QuietStep DEF Inv, TypeOK
  <2>6. CASE run' = [run EXCEPT ![a] = "CANCELLED"] /\ run[a] = "ACTIVE"
    <3>1. Contract!Close(a)
      BY <2>1, <2>2, <2>6 DEF Contract!Close, Inv, TypeOK
    <3> QED
      BY <3>1 DEF Contract!Next
  <2> QED
    BY <1>1, <1>2, <2>3, <2>4, <2>5, <2>6 DEF RevokeRun
<1>3. CASE MarkCancelled(c)
  <2>1. record[a] # "NONE" /\ run[a] = "CANCELLED"
    BY <1>1, <1>3 DEF MarkCancelled, Inv, CancelOrder
  <2>2. /\ run' = run /\ fused' = fused
        /\ record' = [record EXCEPT ![a] = "CANCELLED"]
    BY <1>1, <1>3 DEF MarkCancelled, fusionVars
  <2>3. CASE record[a] = "CANCELLED"
    BY <2>2, <2>3, QuietStep DEF Inv, TypeOK
  <2>4. CASE record[a] \in {"RUNNING", "COMPLETED", "FAILED"}
    BY <2>1, <2>2, <2>4 DEF Contract!Next, Contract!Cancel
  <2> QED
    BY <2>1, <2>3, <2>4 DEF Inv, TypeOK, Terminal
<1>4. CASE ReportCancelled(c)
  BY <1>4, QuietStep DEF ReportCancelled, lifecycleVars, fusionVars
<1> QED
  BY <1>2, <1>3, <1>4 DEF CallerStep

LEMMA StarterContract ==
  ASSUME Inv, NEW a \in Analyses, StarterStep(a)
  PROVE  [Contract!Next]_(Contract!vars)
<1>1. CASE InsertRecord(a)
  <2>1. record[a] = "NONE" /\ run[a] = "ACTIVE"
    BY <1>1 DEF InsertRecord, Inv, TypeOK, StartOrder
  <2> QED
    BY <1>1, <2>1 DEF InsertRecord, fusionVars, Contract!Next, Contract!Admit
<1>2. CASE StarterFails(a)
  BY <1>2, FailContract DEF StarterFails
<1>3. CASE \/ ReadOwnership(a) \/ BindWorkspace(a) \/ Launch(a)
           \/ LaunchWithoutPipeline(a) \/ StarterReports(a)
  BY <1>3, QuietStep DEF ReadOwnership, BindWorkspace, Launch, LaunchWithoutPipeline, StarterReports, lifecycleVars, fusionVars
<1> QED
  BY <1>1, <1>2, <1>3 DEF StarterStep

LEMMA CreateContract ==
  ASSUME Inv, NEW a \in Analyses, Start(a) \/ \E old \in Analyses : Retry(a, old)
  PROVE  [Contract!Next]_(Contract!vars)
<1>1. PICK chosen : CreateRun(a, chosen)
  BY DEF Start, Retry
<1>2. /\ run[a] = "NONE" /\ run' = [run EXCEPT ![a] = "ACTIVE"]
      /\ record' = record /\ fused' = fused
  BY <1>1 DEF CreateRun, Inv, StartOrder, lifecycleVars
<1> QED
  BY <1>2 DEF Contract!Next, Contract!Open, Inv, TypeOK

LEMMA StepContract ==
  ASSUME Inv, [Next]_vars
  PROVE  [Contract!Next]_(Contract!vars)
<1>1. ASSUME NEW a \in Analyses, WorkerStep(a)
      PROVE  [Contract!Next]_(Contract!vars)
  <2>1. CASE WorkerFails(a)
    BY <2>1, FailContract DEF WorkerFails
  <2> QED
    BY <1>1, <2>1, QuietWorker, QuietStep, ConcludeContract, CompleteContract DEF WorkerStep
<1>2. CASE \/ \E c \in Callers, a \in Analyses : CheckRunning(c, a)
           \/ ResetWorkspace
           \/ UNCHANGED vars
  BY <1>2, QuietStep DEF CheckRunning, ResetWorkspace, vars, lifecycleVars, fusionVars
<1> QED
  BY <1>1, <1>2, StarterContract, CallerContract, CreateContract DEF Next

\* Every behaviour of the service is one the contract allows.
THEOREM Implements == Spec => ImplementsContract
<1>1. Init => Contract!Init
  BY DEF Init, Contract!Init
<1>2. Inv /\ [Next]_vars => [Contract!Next]_(Contract!vars)
  BY StepContract
<1> QED
  BY <1>1, <1>2, Invariance, PTL DEF Spec, ImplementsContract, Contract!Spec

(***************************************************************************)
(* A cancelled analysis gains nothing more.                                *)
(***************************************************************************)

NoGain == \A a \in Analyses : record[a] = "CANCELLED" =>
            covered'[a] = covered[a] /\ (a \in fused' => a \in fused)

LEMMA WorkerGain ==
  ASSUME Inv, NEW b \in Analyses, WorkerStep(b)
  PROVE  NoGain
<1>1. CASE covered' = covered /\ fused' = fused
  BY <1>1 DEF NoGain
<1>2. CASE /\ CanWrite(b)
           /\ \/ RunFusion(b)
              \/ \E at, source, next : Mark(b, at, source, next)
  <2>1. record[b] # "CANCELLED"
    BY <1>2 DEF CanWrite, Inv, CancelledRunIsCancelled
  <2>2. \A a \in Analyses \ {b} : covered'[a] = covered[a] /\ (a \in fused' => a \in fused)
    BY <1>2 DEF RunFusion, Mark, Inv, TypeOK
  <2> QED
    BY <2>1, <2>2 DEF NoGain
<1>3. CASE CollectEvidence(b) \/ Classify(b)
  BY <1>1, <1>2, <1>3 DEF CollectEvidence, Classify, Begin, ExportSensor, AdvanceStep, Infer, Mark, SkipMark, fusionVars
<1>4. CASE Conclude(b)
  BY <1>1, <1>2, <1>4 DEF Conclude, AdvanceStep, RunFusion, Assess, ReportCompletion, TakeSnapshot, fusionVars
<1>5. CASE \/ PipelineError(b) \/ ClassifyError(b) \/ Complete(b)
           \/ WorkerFails(b) \/ WorkerReports(b)
  BY <1>1, <1>5 DEF PipelineError, ClassifyError, Complete, WorkerFails, FailRecord, WorkerReports, fusionVars
<1> QED
  BY <1>3, <1>4, <1>5 DEF WorkerStep

LEMMA StepGain ==
  ASSUME Inv, [Next]_vars
  PROVE  NoGain
<1>1. CASE covered' = covered /\ fused' = fused
  BY <1>1 DEF NoGain
<1>2. ASSUME NEW a \in Analyses, Start(a) \/ (\E old \in Analyses : Retry(a, old)) \/ StarterStep(a)
      PROVE  covered' = covered /\ fused' = fused
  BY <1>2 DEF Start, Retry, CreateRun, StarterStep, InsertRecord, ReadOwnership, BindWorkspace, Launch, LaunchWithoutPipeline, StarterFails, FailRecord, StarterReports, fusionVars
<1>3. CASE \E c \in Callers : CallerStep(c) \/ \E a \in Analyses : CheckRunning(c, a)
  BY <1>1, <1>3 DEF CallerStep, RevokeRun, MarkCancelled, ReportCancelled, CheckRunning, fusionVars
<1>4. CASE ResetWorkspace \/ UNCHANGED vars
  BY <1>1, <1>4 DEF ResetWorkspace, vars, fusionVars
<1> QED
  BY <1>1, <1>2, <1>3, <1>4, WorkerGain DEF Next

\* Once an analysis is CANCELLED its fusion run gains no coverage and no result.
THEOREM CancelledGainsNothing == Spec => NoResultAfterCancel
<1>1. Inv /\ [Next]_vars => [NoGain]_vars
  BY StepGain
<1> QED
  BY <1>1, Invariance, PTL DEF Spec, NoResultAfterCancel, NoGain

\* No record, stage or context of an analysis is abandoned.
THEOREM NothingAbandoned == Spec => []AnalysesAreKept
BY NoAbandonedAnalysis, StageIsFinal, ContextReleased, PTL DEF AnalysesAreKept

\* A cancelled analysis has a cancelled fusion run, and gains nothing in it.
THEOREM CancelHolds == Spec => CancelIsFinal
BY CancelRevokesRun, CancelledGainsNothing, PTL DEF CancelIsFinal

(***************************************************************************)
(* The workspace names an analysis bound under its own generation.         *)
(***************************************************************************)

\* Where a Start has not bound the workspace yet.
Unbound == {"idle", "created", "rejected", "inserted", "binding"}

\* The analysis the workspace names was bound, and bound under the generation
\* of this workspace: a Start that has not bound yet is never named.
BoundOnce == \A a \in Analyses : workspace.analysis = a =>
  /\ starter[a] \notin Unbound
  /\ ownership[a] = workspace.generation

LEMMA StepBinding ==
  ASSUME TypeOK, BoundOnce, [Next]_vars
  PROVE  BoundOnce'
<1>1. CASE UNCHANGED <<bindingVars, starter>>
  BY <1>1 DEF BoundOnce, bindingVars
<1>2. ASSUME NEW a \in Analyses, NEW next \in StarterPc, UNCHANGED bindingVars,
             starter' = [starter EXCEPT ![a] = next],
             starter[a] \in Unbound \/ next \notin Unbound
      PROVE  BoundOnce'
  BY <1>2 DEF BoundOnce, bindingVars, TypeOK
<1>3. ASSUME NEW a \in Analyses, ReadOwnership(a)
      PROVE  BoundOnce'
  BY <1>3 DEF ReadOwnership, Goto, BoundOnce, Unbound, TypeOK
<1>4. ASSUME NEW a \in Analyses, BindWorkspace(a)
      PROVE  BoundOnce'
  <2>1. /\ starter' = [starter EXCEPT ![a] = "bound"] /\ ownership' = ownership
        /\ \/ workspace' = workspace
           \/ ownership[a] = workspace.generation /\ workspace' = [workspace EXCEPT !.analysis = a]
    BY <1>4 DEF BindWorkspace, Goto
  <2> QED
    BY <2>1 DEF BoundOnce, Unbound, TypeOK
<1>5. ASSUME NEW a \in Analyses, NEW chosen, CreateRun(a, chosen)
      PROVE  BoundOnce'
  BY <1>2, <1>5 DEF CreateRun, Goto, StarterPc, Unbound
<1>6. ASSUME NEW a \in Analyses, StarterStep(a)
      PROVE  BoundOnce'
  BY <1>2, <1>3, <1>4, <1>6 DEF StarterStep, InsertRecord, Launch, LaunchWithoutPipeline, StarterFails, FailRecord, StarterReports, Goto, StarterPc, Unbound
<1>7. ASSUME NEW a \in Analyses, WorkerStep(a)
      PROVE  BoundOnce'
  <2>1. CASE CollectEvidence(a) \/ Classify(a) \/ Conclude(a) \/ PipelineError(a)
    BY <1>1, <2>1 DEF CollectEvidence, Classify, Conclude, PipelineError, Begin, ExportSensor, Mark, AdvanceStep, Infer, SkipMark, RunFusion, Assess, ReportCompletion, TakeSnapshot
  <2>2. CASE ClassifyError(a) \/ Complete(a) \/ WorkerFails(a) \/ WorkerReports(a)
    BY <1>1, <2>2 DEF ClassifyError, Complete, WorkerFails, FailRecord, WorkerReports
  <2> QED
    BY <1>7, <2>1, <2>2 DEF WorkerStep
<1>8. CASE \E c \in Callers : CallerStep(c) \/ \E a \in Analyses : CheckRunning(c, a)
  BY <1>1, <1>8 DEF CallerStep, RevokeRun, MarkCancelled, ReportCancelled, CheckRunning
<1>9. CASE ResetWorkspace
  BY <1>9, AnalysisAssumption DEF ResetWorkspace, BoundOnce, AnalysisAssumption
<1>10. CASE UNCHANGED vars
  BY <1>1, <1>10 DEF vars, threadVars
<1> QED
  BY <1>5, <1>6, <1>7, <1>8, <1>9, <1>10 DEF Next, Start, Retry

\* The workspace names an analysis only if it was bound under this generation.
THEOREM BindingIsCurrent == Spec => []WorkspaceBindingIsCurrent
<1>1. Init => BoundOnce
  BY AnalysisAssumption DEF Init, BoundOnce, AnalysisAssumption
<1>2. TypeOK /\ BoundOnce /\ [Next]_vars => BoundOnce'
  BY StepBinding
<1>3. BoundOnce => WorkspaceBindingIsCurrent
  BY DEF BoundOnce, WorkspaceBindingIsCurrent
<1> QED
  BY <1>1, <1>2, <1>3, TypeCorrect, PTL DEF Spec

(***************************************************************************)
(* COMPLETED is true, and never taken back.                                *)
(***************************************************************************)

\* Where the pipeline is once it has marked a source.
PastMark(source) ==
  LET shap == {"fusion", "fusing"} \cup AfterFusion
      ml   == {"shapDone", "shapLost", "shapOff"} \cup shap
      xfrm == {"features", "inference", "infer", "mlDone", "mlLost", "mlOff"} \cup ml
  IN CASE source = "SHAP"          -> shap
       [] source = "ML"            -> ml
       [] source = "XFRM"          -> xfrm
       [] source = "VICI"          -> {"xfrm"} \cup xfrm
       [] source = "FLOW_ANALYZER" -> {"vici", "xfrm"} \cup xfrm
       [] source = "PACKET_PARSER" -> {"flow", "vici", "xfrm"} \cup xfrm

\* A pipeline that can still write has covered every source it is past; the
\* errors it ignores need a context or a run that has ended, and fusion stops
\* at that.
SourcesMarked == \A a \in Analyses : \A source \in Sources :
  (CanWrite(a) \/ worker[a] \in AfterFusion) /\ worker[a] \in PastMark(source)
    => source \in covered[a]

\* Past the assessment, it was made if it was asked for.
AssessedBefore == \A a \in Analyses :
  worker[a] \in {"report", "snapshot", "succeeded"} /\ options[a].security
    => assessment[a] # "NONE"

\* What the worker does with the evidence, as these two parts see it.
PipelineWrite(a) ==
  /\ \E next \in WorkerPc :
       /\ worker' = [worker EXCEPT ![a] = next]
       /\ next \in AfterFusion => CanWrite(a) \/ worker[a] \in AfterFusion
       /\ \A source \in Sources : CanWrite(a) /\ next \in PastMark(source) =>
            worker[a] \in PastMark(source) \/ source \in covered'[a]
       /\ next \in {"report", "snapshot", "succeeded"} /\ options[a].security =>
            worker[a] \in {"report", "snapshot", "succeeded"} \/ assessment'[a] # "NONE"
  /\ \A b \in Analyses : covered[b] \subseteq covered'[b]
  /\ \A b \in Analyses : assessment[b] # "NONE" => assessment'[b] # "NONE"
  /\ UNCHANGED <<run, options>>
  /\ stopped \subseteq stopped'

LEMMA PipelineWriteMarks ==
  ASSUME TypeOK, SourcesMarked, AssessedBefore, NEW a \in Analyses, PipelineWrite(a)
  PROVE  SourcesMarked' /\ AssessedBefore'
<1>1. PICK next \in WorkerPc :
        /\ worker' = [worker EXCEPT ![a] = next]
        /\ next \in AfterFusion => CanWrite(a) \/ worker[a] \in AfterFusion
        /\ \A source \in Sources : CanWrite(a) /\ next \in PastMark(source) =>
             worker[a] \in PastMark(source) \/ source \in covered'[a]
        /\ next \in {"report", "snapshot", "succeeded"} /\ options[a].security =>
             worker[a] \in {"report", "snapshot", "succeeded"} \/ assessment'[a] # "NONE"
  BY DEF PipelineWrite
<1>2. \A b \in Analyses : CanWrite(b)' => CanWrite(b)
  BY DEF PipelineWrite, CanWrite
<1>3. SourcesMarked'
  <2> SUFFICES ASSUME NEW b \in Analyses, NEW source \in Sources,
                      (CanWrite(b) \/ worker[b] \in AfterFusion)',
                      (worker[b] \in PastMark(source))'
               PROVE  source \in covered'[b]
    BY DEF SourcesMarked
  <2>1. CASE b = a
    <3>1. CanWrite(a) \/ worker[a] \in AfterFusion
      BY <1>1, <1>2, <2>1 DEF TypeOK
    <3>2. worker[a] \in PastMark(source) \/ source \in covered'[a]
      <4>1. CASE CanWrite(a)
        BY <1>1, <2>1, <4>1 DEF TypeOK, PastMark
      <4>2. CASE worker[a] \in AfterFusion
        BY <4>2 DEF PastMark, Sources
      <4> QED
        BY <3>1, <4>1, <4>2
    <3> QED
      BY <2>1, <3>1, <3>2 DEF SourcesMarked, PipelineWrite
  <2>2. CASE b # a
    <3>1. worker'[b] = worker[b]
      BY <1>1, <2>2 DEF TypeOK
    <3> QED
      BY <1>2, <3>1 DEF SourcesMarked, PipelineWrite, PastMark
  <2> QED
    BY <2>1, <2>2
<1>4. AssessedBefore'
  BY <1>1 DEF AssessedBefore, PipelineWrite, TypeOK
<1> QED
  BY <1>3, <1>4

LEMMA MarkWrites ==
  ASSUME TypeOK, NEW a \in Analyses,
         NEW at \in WorkerPc, NEW source \in Sources, NEW next \in WorkerPc \ AfterFusion,
         \A s \in Sources \ {source} : next \in PastMark(s) => at \in PastMark(s),
         Mark(a, at, source, next)
  PROVE  PipelineWrite(a)
<1>1. "errored" \in WorkerPc \ AfterFusion /\ \A s \in Sources : "errored" \notin PastMark(s)
  BY DEF WorkerPc, Fallible, AfterFusion, PastMark, Sources
<1>2. /\ source \in covered'[a]
      /\ \A b \in Analyses : covered[b] \subseteq covered'[b]
  BY DEF Mark, TypeOK
<1>3. PICK to \in WorkerPc \ AfterFusion :
        /\ worker[a] = at
        /\ worker' = [worker EXCEPT ![a] = to]
        /\ \A s \in Sources \ {source} : to \in PastMark(s) => at \in PastMark(s)
  BY <1>1 DEF Mark, PipelineStep, Goto
<1>4. to \notin {"report", "snapshot", "succeeded"}
  BY DEF AfterFusion
<1>5. UNCHANGED <<run, options, stopped, assessment>>
  BY DEF Mark, lifecycleVars, settingVars
<1>6. \A s \in Sources : to \in PastMark(s) => worker[a] \in PastMark(s) \/ s \in covered'[a]
  BY <1>2, <1>3
<1> QED
  BY <1>2, <1>3, <1>4, <1>5, <1>6 DEF PipelineWrite

\* A step of the pipeline that leaves the evidence alone and marks nothing.
LEMMA QuietWrites ==
  ASSUME TypeOK, NEW a \in Analyses, NEW at \in WorkerPc, NEW next \in WorkerPc,
         PipelineStep(a, at, next),
         next \in AfterFusion => at \in AfterFusion,
         \A s \in Sources : CanWrite(a) /\ next \in PastMark(s) => at \in PastMark(s),
         next \in {"report", "snapshot", "succeeded"} =>
           at \in {"report", "snapshot", "succeeded"} \/ assessment'[a] # "NONE",
         UNCHANGED <<covered, run, options>>, stopped \subseteq stopped',
         \A b \in Analyses : assessment[b] # "NONE" => assessment'[b] # "NONE"
  PROVE  PipelineWrite(a)
BY DEF PipelineWrite, PipelineStep, Goto

LEMMA CollectWrites ==
  ASSUME TypeOK, NEW a \in Analyses, CollectEvidence(a)
  PROVE  PipelineWrite(a)
<1>1. {"begin", "sensor", "parser", "flow", "vici", "xfrm", "features"} \subseteq WorkerPc \ AfterFusion
  BY DEF WorkerPc, Fallible, AfterFusion
<1>2. CASE Begin(a) \/ ExportSensor(a)
  <2>1. \E at \in {"begin", "sensor"}, next \in {"sensor", "parser"} : PipelineStep(a, at, next)
    BY <1>2 DEF Begin, ExportSensor
  <2>2. UNCHANGED <<covered, run, options, stopped, assessment>>
    BY <1>2 DEF Begin, ExportSensor, lifecycleVars, fusionVars, settingVars
  <2>3. \A s \in Sources : "sensor" \notin PastMark(s) /\ "parser" \notin PastMark(s)
    BY DEF Sources, PastMark, AfterFusion
  <2> QED
    BY <1>1, <2>1, <2>2, <2>3, QuietWrites
<1>3. CASE Mark(a, "parser", "PACKET_PARSER", "flow")
  <2>1. \A s \in Sources \ {"PACKET_PARSER"} : "flow" \notin PastMark(s)
    BY DEF Sources, PastMark, AfterFusion
  <2> QED
    BY <1>1, <1>3, <2>1, MarkWrites DEF Sources
<1>4. CASE Mark(a, "flow", "FLOW_ANALYZER", "vici")
  <2>1. \A s \in Sources \ {"FLOW_ANALYZER"} : "vici" \in PastMark(s) => "flow" \in PastMark(s)
    BY DEF Sources, PastMark, AfterFusion
  <2> QED
    BY <1>1, <1>4, <2>1, MarkWrites DEF Sources
<1>5. CASE Mark(a, "vici", "VICI", "xfrm")
  <2>1. \A s \in Sources \ {"VICI"} : "xfrm" \in PastMark(s) => "vici" \in PastMark(s)
    BY DEF Sources, PastMark, AfterFusion
  <2> QED
    BY <1>1, <1>5, <2>1, MarkWrites DEF Sources
<1>6. CASE Mark(a, "xfrm", "XFRM", "features")
  <2>1. \A s \in Sources \ {"XFRM"} : "features" \in PastMark(s) => "xfrm" \in PastMark(s)
    BY DEF Sources, PastMark, AfterFusion
  <2> QED
    BY <1>1, <1>6, <2>1, MarkWrites DEF Sources
<1> QED
  BY <1>2, <1>3, <1>4, <1>5, <1>6 DEF CollectEvidence

LEMMA ClassifyWrites ==
  ASSUME TypeOK, NEW a \in Analyses, Classify(a)
  PROVE  PipelineWrite(a)
<1>1. {"features", "inference", "infer", "mlDone", "shapDone", "mlLost", "shapLost",
       "mlOff", "shapOff", "fusion"} \subseteq WorkerPc \ AfterFusion
  BY DEF WorkerPc, Fallible, AfterFusion
<1>2. \A p, q \in {"features", "inference", "infer", "mlDone", "mlLost", "mlOff"}, s \in Sources :
        p \in PastMark(s) => q \in PastMark(s)
  BY DEF Sources, PastMark, AfterFusion
<1>3. CASE \/ AdvanceStep(a, "features", "FEATURE_EXTRACTION",
                          IF options[a].ml THEN "inference" ELSE "mlOff")
           \/ AdvanceStep(a, "inference", "ML_INFERENCE", "infer")
           \/ Infer(a)
  <2>1. \E at, next \in {"features", "inference", "infer", "mlDone", "mlLost", "mlOff"} :
          PipelineStep(a, at, next)
    BY <1>3 DEF AdvanceStep, Infer, PipelineStep, Goto
  <2>2. UNCHANGED <<covered, run, options, stopped, assessment>>
    BY <1>3 DEF AdvanceStep, Infer, lifecycleVars, fusionVars, settingVars
  <2> QED
    BY <1>1, <1>2, <2>1, <2>2, QuietWrites
<1>4. CASE SkipMark(a)
  <2>1. PipelineStep(a, "shapLost", "fusion") /\ ~CanWrite(a)
    BY <1>4 DEF SkipMark
  <2>2. UNCHANGED <<covered, run, options, stopped, assessment>>
    BY <1>4 DEF SkipMark, lifecycleVars, fusionVars, settingVars
  <2> QED
    BY <1>1, <2>1, <2>2, QuietWrites
<1>5. ASSUME NEW at \in {"mlDone", "mlLost", "mlOff"}, NEW next \in {"shapDone", "shapLost", "shapOff"},
             Mark(a, at, "ML", next)
      PROVE  PipelineWrite(a)
  <2>1. \A s \in Sources \ {"ML"} : next \in PastMark(s) => at \in PastMark(s)
    BY DEF Sources, PastMark, AfterFusion
  <2> QED
    BY <1>1, <1>5, <2>1, MarkWrites DEF Sources
<1>6. ASSUME NEW at \in {"shapDone", "shapLost", "shapOff"}, Mark(a, at, "SHAP", "fusion")
      PROVE  PipelineWrite(a)
  <2>1. \A s \in Sources \ {"SHAP"} : "fusion" \in PastMark(s) => at \in PastMark(s)
    BY DEF Sources, PastMark, AfterFusion
  <2> QED
    BY <1>1, <1>6, <2>1, MarkWrites DEF Sources
<1> QED
  BY <1>3, <1>4, <1>5, <1>6 DEF Classify

LEMMA ConcludeWrites ==
  ASSUME TypeOK, NEW a \in Analyses, Conclude(a)
  PROVE  PipelineWrite(a)
<1>1. AfterFusion \cup {"fusion", "fusing"} \subseteq WorkerPc
  BY DEF WorkerPc, Fallible, AfterFusion
<1>2. \A p, q \in AfterFusion \cup {"fusion", "fusing"}, s \in Sources :
        p \in PastMark(s) => q \in PastMark(s)
  BY DEF Sources, PastMark
<1>3. CASE \/ AdvanceStep(a, "fusion", "FUSION", "fusing")
           \/ AdvanceStep(a, "security", "SECURITY_ANALYSIS", "assessing")
  <2>1. UNCHANGED <<covered, run, options, stopped, assessment>>
    BY <1>3 DEF AdvanceStep, lifecycleVars, fusionVars, settingVars
  <2>2. \/ PipelineStep(a, "fusion", "fusing")
        \/ PipelineStep(a, "security", "assessing")
    BY <1>3 DEF AdvanceStep
  <2> QED
    BY <1>1, <1>2, <2>1, <2>2, QuietWrites DEF AfterFusion
<1>4. CASE RunFusion(a)
  <2>1. PICK next \in {"security", "report"} :
          /\ worker[a] = "fusing" /\ worker' = [worker EXCEPT ![a] = next]
          /\ (next = "report") => ~options[a].security
    BY <1>4 DEF RunFusion, PipelineStep, Goto
  <2>2. CanWrite(a) /\ UNCHANGED <<covered, run, options, stopped, assessment>>
    BY <1>4 DEF RunFusion, lifecycleVars, settingVars
  <2> QED
    BY <1>1, <1>2, <2>1, <2>2 DEF PipelineWrite, AfterFusion
<1>5. CASE Assess(a)
  <2>1. PipelineStep(a, "assessing", "report") /\ assessment'[a] # "NONE"
    BY <1>5 DEF Assess, TypeOK
  <2>2. UNCHANGED <<covered, run, options, stopped>>
    BY <1>5 DEF Assess, lifecycleVars, settingVars
  <2>3. \A b \in Analyses : assessment[b] # "NONE" => assessment'[b] # "NONE"
    BY <1>5 DEF Assess, TypeOK
  <2> QED
    BY <1>1, <1>2, <2>1, <2>2, <2>3, QuietWrites DEF AfterFusion
<1>6. CASE ReportCompletion(a) \/ TakeSnapshot(a)
  <2>1. \/ PipelineStep(a, "report", "snapshot")
        \/ PipelineStep(a, "snapshot", "succeeded")
    BY <1>6 DEF ReportCompletion, TakeSnapshot
  <2>2. UNCHANGED <<covered, run, options, stopped, assessment>>
    BY <1>6 DEF ReportCompletion, TakeSnapshot, lifecycleVars, fusionVars, settingVars
  <2> QED
    BY <1>1, <1>2, <2>1, <2>2, QuietWrites DEF AfterFusion
<1> QED
  BY <1>3, <1>4, <1>5, <1>6 DEF Conclude

\* The worker leaves the pipeline, past no source any more.
LEMMA ExitWrites ==
  ASSUME TypeOK, NEW a \in Analyses,
         PipelineError(a) \/ ClassifyError(a) \/ Complete(a) \/ WorkerFails(a) \/ WorkerReports(a)
  PROVE  PipelineWrite(a)
<1> DEFINE Exits == {"errored", "failing", "reporting", "done"}
<1>1. \A next \in Exits :
        /\ next \in WorkerPc \ AfterFusion
        /\ \A s \in Sources : next \notin PastMark(s)
        /\ next \notin {"report", "snapshot", "succeeded"}
  BY DEF WorkerPc, Fallible, AfterFusion, PastMark, Sources
<1>2. \E next \in Exits : worker' = [worker EXCEPT ![a] = next]
  BY DEF PipelineError, ClassifyError, Complete, WorkerFails, WorkerReports, PipelineStep, Goto
<1>3. UNCHANGED <<covered, run, options, assessment>> /\ stopped \subseteq stopped'
  BY DEF PipelineError, ClassifyError, Complete, WorkerFails, FailRecord, WorkerReports, lifecycleVars, fusionVars, settingVars
<1> HIDE DEF Exits
<1> QED
  BY <1>1, <1>2, <1>3 DEF PipelineWrite

LEMMA StepMarks ==
  ASSUME Inv, SourcesMarked, AssessedBefore, [Next]_vars
  PROVE  SourcesMarked' /\ AssessedBefore'
<1>1. ASSUME NEW a \in Analyses, WorkerStep(a)
      PROVE  SourcesMarked' /\ AssessedBefore'
  BY <1>1, CollectWrites, ClassifyWrites, ConcludeWrites, ExitWrites, PipelineWriteMarks DEF WorkerStep, Inv
<1>2. ASSUME NEW a \in Analyses, Start(a) \/ \E old \in Analyses : Retry(a, old)
      PROVE  SourcesMarked' /\ AssessedBefore'
  <2>1. PICK chosen : CreateRun(a, chosen)
    BY <1>2 DEF Start, Retry
  <2>2. worker[a] = "off"
    BY <2>1 DEF CreateRun, Inv, StartOrder
  <2>3. \A b \in Analyses \ {a} : run'[b] = run[b] /\ options'[b] = options[b]
    BY <2>1 DEF CreateRun, Inv, TypeOK
  <2>4. UNCHANGED <<worker, covered, stopped, assessment>>
    BY <2>1 DEF CreateRun, lifecycleVars
  <2>5. "off" \notin AfterFusion /\ \A s \in Sources : "off" \notin PastMark(s)
    BY DEF PastMark, AfterFusion, Sources
  <2>6. SourcesMarked'
    BY <2>2, <2>3, <2>4, <2>5 DEF SourcesMarked, CanWrite, PastMark
  <2>7. AssessedBefore'
    BY <2>2, <2>3, <2>4 DEF AssessedBefore
  <2> QED
    BY <2>6, <2>7
<1>3. ASSUME NEW a \in Analyses, StarterStep(a)
      PROVE  SourcesMarked' /\ AssessedBefore'
  <2>1. CASE Launch(a)
    <3>1. /\ UNCHANGED <<run, stopped, covered, options, assessment>>
          /\ worker' = [worker EXCEPT ![a] = "begin"]
      BY <2>1 DEF Launch, Goto, fusionVars, settingVars
    <3>2. "begin" \notin AfterFusion /\ \A s \in Sources : "begin" \notin PastMark(s)
      BY DEF PastMark, AfterFusion, Sources
    <3>3. SourcesMarked'
      BY <3>1, <3>2 DEF SourcesMarked, CanWrite, PastMark, Inv, TypeOK
    <3>4. AssessedBefore'
      BY <3>1 DEF AssessedBefore, Inv, TypeOK
    <3> QED
      BY <3>3, <3>4
  <2>2. CASE ~Launch(a)
    <3>1. UNCHANGED <<run, worker, covered, options, assessment>> /\ stopped \subseteq stopped'
      BY <1>3, <2>2 DEF StarterStep, InsertRecord, ReadOwnership, BindWorkspace, LaunchWithoutPipeline, StarterFails, FailRecord, StarterReports, lifecycleVars, fusionVars, settingVars
    <3> QED
      BY <3>1 DEF SourcesMarked, AssessedBefore, CanWrite, PastMark
  <2> QED
    BY <2>1, <2>2
<1>4. ASSUME NEW c \in Callers, CallerStep(c)
      PROVE  SourcesMarked' /\ AssessedBefore'
  <2>1. caller[c].pc = "idle" \/ caller[c].target \in Analyses
    BY DEF Inv, CancelOrder
  <2>2. \A a \in Analyses : CanWrite(a)' => CanWrite(a)
    BY <1>4, <2>1 DEF CanWrite, CallerStep, RevokeRun, MarkCancelled, ReportCancelled, lifecycleVars, fusionVars, Inv, TypeOK
  <2>3. UNCHANGED <<worker, covered, options, assessment>>
    BY <1>4 DEF CallerStep, RevokeRun, MarkCancelled, ReportCancelled, fusionVars, settingVars
  <2> QED
    BY <2>2, <2>3 DEF SourcesMarked, AssessedBefore, PastMark
<1>5. CASE (\E c \in Callers, a \in Analyses : CheckRunning(c, a)) \/ ResetWorkspace \/ UNCHANGED vars
  <2>1. UNCHANGED <<run, stopped, worker, covered, options, assessment>>
    BY <1>5 DEF CheckRunning, ResetWorkspace, vars, threadVars, lifecycleVars, fusionVars, settingVars
  <2> QED
    BY <2>1 DEF SourcesMarked, AssessedBefore, CanWrite, PastMark
<1> QED
  BY <1>1, <1>2, <1>3, <1>4, <1>5 DEF Next

\* A client that was told COMPLETED was told so by a worker that cannot fail
\* any more, and FAILED is the last word of the thread that says it.
ToldOnce == \A a \in Analyses :
  /\ Published(a, "COMPLETED") =>
       worker[a] \in {"snapshot", "succeeded", "done"} /\ ~Published(a, "FAILED")
  /\ Published(a, "FAILED") =>
       worker[a] = "done" \/ (worker[a] = "off" /\ starter[a] = "returned")

\* Publishing appends one event to the events of one analysis.
LEMMA PublishAppends ==
  ASSUME TypeOK, NEW a \in Analyses, NEW category \in {"STARTED"} \cup Terminal,
         Publish(a, category)
  PROVE  \A b \in Analyses, k \in {"COMPLETED", "FAILED"} :
           Published(b, k)' <=> Published(b, k) \/ (b = a /\ k = category)
<1> SUFFICES ASSUME NEW b \in Analyses, NEW k \in {"COMPLETED", "FAILED"}
             PROVE  Published(b, k)' <=> Published(b, k) \/ (b = a /\ k = category)
  OBVIOUS
<1>1. log[b] \in Seq({"STARTED"} \cup Terminal)
  BY DEF TypeOK
<1>2. CASE b = a
  <2>1. log'[b] = Append(log[b], category)
    BY <1>2 DEF Publish, TypeOK
  <2>2. /\ Len(log'[b]) = Len(log[b]) + 1 /\ Len(log[b]) \in Nat
        /\ \A i \in 1 .. Len(log[b]) : log'[b][i] = log[b][i]
        /\ log'[b][Len(log[b]) + 1] = category
    BY <1>1, <2>1
  <2>3. 1 .. Len(log'[b]) = (1 .. Len(log[b])) \cup {Len(log[b]) + 1}
    BY <2>2
  <2> QED
    BY <1>2, <2>2, <2>3 DEF Published
<1>3. CASE b # a
  <2>1. log'[b] = log[b]
    BY <1>3 DEF Publish, TypeOK
  <2> QED
    BY <1>3, <2>1 DEF Published
<1> QED
  BY <1>2, <1>3

LEMMA StepTold ==
  ASSUME Inv, ToldOnce, [Next]_vars
  PROVE  ToldOnce'
<1> USE DEF Inv
<1>1. ASSUME UNCHANGED log,
             \A a \in Analyses :
               /\ worker[a] \in {"snapshot", "succeeded", "done"} =>
                    worker'[a] \in {"snapshot", "succeeded", "done"}
               /\ worker[a] = "done" => worker'[a] = "done"
               /\ worker[a] = "off" /\ starter[a] = "returned" =>
                    worker'[a] = "off" /\ starter'[a] = "returned"
      PROVE  ToldOnce'
  <2>1. \A a \in Analyses, k \in {"COMPLETED", "FAILED"} : Published(a, k)' <=> Published(a, k)
    BY <1>1 DEF Published
  <2> HIDE DEF Inv
  <2> QED
    BY <1>1, <2>1 DEF ToldOnce
<1>2. ASSUME NEW a \in Analyses, Start(a) \/ \E old \in Analyses : Retry(a, old)
      PROVE  ToldOnce'
  <2>1. starter[a] = "idle" /\ \A b \in Analyses \ {a} : starter'[b] = starter[b]
    BY <1>2 DEF TypeOK, Start, Retry, CreateRun, Goto
  <2>2. UNCHANGED <<worker, log>>
    BY <1>2 DEF Start, Retry, CreateRun
  <2> QED
    BY <1>1, <2>1, <2>2
<1>3. ASSUME NEW a \in Analyses, StarterStep(a)
      PROVE  ToldOnce'
  <2>1. worker[a] = "off" /\ starter[a] # "returned"
    BY <1>3 DEF StartOrder, StarterStep, InsertRecord, ReadOwnership, BindWorkspace, Launch, LaunchWithoutPipeline, StarterFails, StarterReports
  <2>2. \A b \in Analyses \ {a} : starter'[b] = starter[b] /\ worker'[b] = worker[b]
    BY <1>3 DEF StarterStep, InsertRecord, ReadOwnership, BindWorkspace, Launch, LaunchWithoutPipeline, StarterFails, StarterReports, Goto, TypeOK
  <2>3. CASE StarterReports(a)
    <3>1. Publish(a, "FAILED") /\ worker' = worker /\ starter'[a] = "returned"
      BY <2>3 DEF StarterReports, Goto, TypeOK
    <3> QED
      BY <2>1, <2>2, <3>1, PublishAppends DEF ToldOnce, Terminal
  <2>4. CASE ~StarterReports(a)
    <3>1. UNCHANGED log
      BY <1>3, <2>4 DEF StarterStep, InsertRecord, ReadOwnership, BindWorkspace, Launch, LaunchWithoutPipeline, StarterFails, FailRecord
    <3> QED
      BY <1>1, <2>1, <2>2, <3>1
  <2> QED
    BY <2>3, <2>4
<1>4. ASSUME NEW a \in Analyses, WorkerStep(a)
      PROVE  ToldOnce'
  <2>1. starter' = starter /\ \A b \in Analyses \ {a} : worker'[b] = worker[b]
    <3>1. CASE CollectEvidence(a) \/ Classify(a) \/ Conclude(a) \/ PipelineError(a)
      <4>1. PipelineMove(a)
        BY <3>1, CollectMoves, ClassifyMoves, ConcludeMoves, ErrorMoves
      <4>2. starter' = starter /\ \E next \in Running : worker' = [worker EXCEPT ![a] = next]
        BY <4>1 DEF PipelineMove
      <4> QED
        BY <4>2 DEF TypeOK
    <3>2. CASE ClassifyError(a) \/ Complete(a) \/ WorkerFails(a) \/ WorkerReports(a)
      BY <3>2 DEF ClassifyError, Complete, WorkerFails, WorkerReports, PipelineStep, Goto, TypeOK
    <3> QED
      BY <1>4, <3>1, <3>2 DEF WorkerStep
  <2>2. CASE Begin(a)
    <3>1. Publish(a, "STARTED") /\ worker[a] = "begin"
      BY <2>2 DEF Begin, PipelineStep
    <3>2. \A b \in Analyses, k \in {"COMPLETED", "FAILED"} : Published(b, k)' <=> Published(b, k)
      BY <3>1, PublishAppends
    <3>3. ~Published(a, "COMPLETED") /\ ~Published(a, "FAILED")
      BY <3>1 DEF ToldOnce
    <3> QED
      BY <2>1, <3>2, <3>3 DEF ToldOnce
  <2>3. CASE ReportCompletion(a)
    <3>1. Publish(a, "COMPLETED") /\ worker[a] = "report" /\ worker'[a] = "snapshot"
      BY <2>3 DEF ReportCompletion, PipelineStep, Goto, TypeOK
    <3> QED
      BY <2>1, <3>1, PublishAppends DEF ToldOnce, Terminal
  <2>4. CASE WorkerReports(a)
    <3>1. Publish(a, "FAILED") /\ worker[a] = "reporting" /\ worker'[a] = "done"
      BY <2>4 DEF WorkerReports, Goto, TypeOK
    <3> QED
      BY <2>1, <3>1, PublishAppends DEF ToldOnce, Terminal
  <2>5. CASE ~Begin(a) /\ ~ReportCompletion(a) /\ ~WorkerReports(a)
    <3>1. UNCHANGED log
      BY <1>4, <2>5 DEF WorkerStep, CollectEvidence, Classify, Conclude, ExportSensor, Mark, AdvanceStep, Infer, SkipMark, RunFusion, Assess, TakeSnapshot, PipelineError, ClassifyError, Complete, WorkerFails, FailRecord
    <3>2. CASE worker[a] \notin {"snapshot", "succeeded"}
      <4>1. worker[a] \notin {"off", "done"}
        BY <1>4 DEF WorkerStep, CollectEvidence, Classify, Conclude, Begin, ExportSensor, Mark, AdvanceStep, Infer, SkipMark, RunFusion, Assess, ReportCompletion, TakeSnapshot, PipelineError, ClassifyError, Complete, WorkerFails, WorkerReports, PipelineStep, Fallible
      <4> QED
        BY <1>1, <2>1, <3>1, <3>2, <4>1
    <3>3. CASE worker[a] \in {"snapshot", "succeeded"}
      <4>1. TakeSnapshot(a) \/ Complete(a)
        BY <1>4, <3>3 DEF WorkerStep, CollectEvidence, Classify, Conclude, Begin, ExportSensor, Mark, AdvanceStep, Infer, SkipMark, RunFusion, Assess, ReportCompletion, PipelineError, ClassifyError, WorkerFails, WorkerReports, PipelineStep, Fallible
      <4>2. worker'[a] \in {"succeeded", "done"}
        BY <4>1 DEF TakeSnapshot, Complete, PipelineStep, Goto, TypeOK
      <4> QED
        BY <1>1, <2>1, <3>1, <3>3, <4>2
    <3> QED
      BY <3>2, <3>3
  <2> QED
    BY <2>2, <2>3, <2>4, <2>5
<1>5. ASSUME NEW c \in Callers, CallerStep(c)
      PROVE  ToldOnce'
  <2>1. UNCHANGED <<starter, worker>>
    BY <1>5 DEF CallerStep, RevokeRun, MarkCancelled, ReportCancelled
  <2>2. CASE ReportCancelled(c)
    <3>1. caller[c].target \in Analyses /\ Publish(caller[c].target, "CANCELLED")
      BY <2>2 DEF ReportCancelled, CancelOrder
    <3> QED
      BY <2>1, <3>1, PublishAppends DEF ToldOnce, Terminal
  <2>3. CASE ~ReportCancelled(c)
    BY <1>1, <1>5, <2>1, <2>3 DEF CallerStep, RevokeRun, MarkCancelled
  <2> QED
    BY <2>2, <2>3
<1>6. CASE (\E c \in Callers, a \in Analyses : CheckRunning(c, a)) \/ ResetWorkspace \/ UNCHANGED vars
  BY <1>1, <1>6 DEF CheckRunning, ResetWorkspace, vars, threadVars
<1> QED
  BY <1>2, <1>3, <1>4, <1>5, <1>6 DEF Next

LEMMA StepAssessed ==
  ASSUME Inv, SourcesMarked, AssessedBefore, CompletedIsAssessed, [Next]_vars
  PROVE  CompletedIsAssessed'
<1> USE DEF Inv, TypeOK
<1>1. ASSUME \A b \in Analyses : record'[b] = "COMPLETED" =>
                /\ record[b] = "COMPLETED" /\ options'[b] = options[b],
             \A b \in Analyses : covered[b] \subseteq covered'[b] /\ covered'[b] \subseteq Sources,
             \A b \in Analyses : assessment[b] # "NONE" => assessment'[b] # "NONE",
             fused \subseteq fused'
      PROVE  CompletedIsAssessed'
  <2> SUFFICES ASSUME NEW a \in Analyses, record'[a] = "COMPLETED"
               PROVE  /\ covered'[a] = Sources
                      /\ a \in fused'
                      /\ options'[a].security => assessment'[a] # "NONE"
    BY DEF CompletedIsAssessed
  <2>1. record[a] = "COMPLETED" /\ options'[a] = options[a]
    BY <1>1
  <2>2. covered[a] = Sources /\ covered[a] \subseteq covered'[a] /\ covered'[a] \subseteq Sources
    BY <1>1, <2>1 DEF CompletedIsAssessed
  <2>3. covered'[a] = Sources
    BY <2>2
  <2> QED
    BY <1>1, <2>1, <2>3 DEF CompletedIsAssessed
<1>2. ASSUME NEW a \in Analyses, WorkerStep(a)
      PROVE  CompletedIsAssessed'
  <2>1. PipelineWrite(a)
    BY <1>2, CollectWrites, ClassifyWrites, ConcludeWrites, ExitWrites DEF WorkerStep
  <2>2. fused \subseteq fused' /\ \A b \in Analyses : covered'[b] \subseteq Sources
    BY <1>2, StepType DEF Order, WorkerStep, CollectEvidence, Classify, Conclude, Begin, ExportSensor, Mark, AdvanceStep, Infer, SkipMark, RunFusion, Assess, ReportCompletion, TakeSnapshot, PipelineError, ClassifyError, Complete, WorkerFails, FailRecord, WorkerReports, fusionVars, Next
  <2>3. CASE Complete(a)
    <3>1. /\ worker[a] = "succeeded" /\ UNCHANGED <<covered, fused, assessment, options>>
          /\ \A b \in Analyses \ {a} : record'[b] = record[b]
      BY <2>3 DEF Complete, PipelineStep, fusionVars, settingVars
    <3>2. \A source \in Sources : "succeeded" \in PastMark(source)
      BY DEF PastMark, Sources, AfterFusion
    <3>3. a \in fused /\ (options[a].security => assessment[a] # "NONE")
      BY <3>1 DEF AssessedBefore, FusedBefore, AfterFusion
    <3>4. Sources \subseteq covered[a]
      BY <3>1, <3>2 DEF SourcesMarked, AfterFusion
    <3>5. covered[a] = Sources
      BY <3>4
    <3> QED
      BY <3>1, <3>3, <3>5 DEF CompletedIsAssessed
  <2>4. CASE ~Complete(a)
    <3>1. \A b \in Analyses : record'[b] = "COMPLETED" => record[b] = "COMPLETED"
      BY <1>2, <2>4 DEF WorkerStep, CollectEvidence, Classify, Conclude, Begin, ExportSensor, Mark, AdvanceStep, Infer, SkipMark, RunFusion, Assess, ReportCompletion, TakeSnapshot, PipelineError, ClassifyError, WorkerFails, FailRecord, WorkerReports, lifecycleVars
    <3> QED
      BY <1>1, <2>1, <2>2, <3>1 DEF PipelineWrite
  <2> QED
    BY <2>3, <2>4
<1>3. ASSUME NEW a \in Analyses, Start(a) \/ \E old \in Analyses : Retry(a, old)
      PROVE  CompletedIsAssessed'
  <2>1. PICK chosen : CreateRun(a, chosen)
    BY <1>3 DEF Start, Retry
  <2>2. record[a] = "NONE" /\ UNCHANGED <<record, covered, fused, assessment>>
    BY <2>1 DEF CreateRun, StartOrder, lifecycleVars
  <2>3. \A b \in Analyses \ {a} : options'[b] = options[b]
    BY <2>1 DEF CreateRun
  <2> QED
    BY <2>2, <2>3 DEF CompletedIsAssessed
<1>4. ASSUME NEW a \in Analyses, StarterStep(a)
      PROVE  CompletedIsAssessed'
  BY <1>1, <1>4 DEF StarterStep, InsertRecord, ReadOwnership, BindWorkspace, Launch, LaunchWithoutPipeline, StarterFails, FailRecord, StarterReports, lifecycleVars, fusionVars, settingVars
<1>5. ASSUME NEW c \in Callers, CallerStep(c)
      PROVE  CompletedIsAssessed'
  BY <1>1, <1>5 DEF CallerStep, RevokeRun, MarkCancelled, ReportCancelled, CancelOrder, lifecycleVars, fusionVars, settingVars
<1>6. CASE (\E c \in Callers, a \in Analyses : CheckRunning(c, a)) \/ ResetWorkspace \/ UNCHANGED vars
  BY <1>1, <1>6 DEF CheckRunning, ResetWorkspace, vars, lifecycleVars, fusionVars, settingVars
<1> QED
  BY <1>2, <1>3, <1>4, <1>5, <1>6 DEF Next

\* COMPLETED is only said of an analysis that was done, and a client that was
\* told COMPLETED is never told FAILED.
THEOREM CompletionHolds == Spec => []CompletionIsTrue
<1> DEFINE Done == SourcesMarked /\ AssessedBefore /\ CompletedIsAssessed /\ ToldOnce
<1>1. Init => Done
  BY DEF Init, SourcesMarked, AssessedBefore, CompletedIsAssessed, ToldOnce, Published, PastMark, Sources, AfterFusion
<1>2. Inv /\ Done /\ [Next]_vars => Done'
  BY StepMarks, StepAssessed, StepTold
<1>3. Done => CompletionIsTrue
  BY DEF CompletionIsTrue, NoFailureAfterCompletion, ToldOnce
<1> HIDE DEF Done
<1> QED
  BY <1>1, <1>2, <1>3, Invariance, PTL DEF Spec

=============================================================================
