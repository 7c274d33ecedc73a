---------------------------- MODULE LiveAnalysis ----------------------------
(***************************************************************************)
(* Pipeline.runLive (core/analysis/pipeline.go): the worker of a live      *)
(* analysis selects between its context, the feature windows of the        *)
(* session and a refresh ticker, classifies windows in a live inference    *)
(* job (core/ml/service.go), exports packets as evidence and assesses the  *)
(* result again.  It runs beside the sensor of FlowStream, a client that   *)
(* cancels the inference job, and a Cancel of the analysis.                *)
(* An operator Op_Word is a plausible bug in Op; no specification uses it. *)
(***************************************************************************)
EXTENDS FlowStream

CONSTANTS
  Encrypted,  \* flows the classifier accepts (isClassifierProtocol)
  MaxBatch    \* packets whose evidence fits into one AddBatch

ASSUME LiveAssumption ==
  Encrypted \subseteq Flows /\ MaxBatch \in Nat \ {0}

VARIABLES
  worker,       \* where runLive is
  holding,      \* the window it classifies
  mlLost,       \* mlUnavailable
  dirty,        \* something changed since the last assessment
  cursor,       \* observationCursor
  exported,     \* packets whose evidence, if they give any, is stored
  reported,     \* packets reported as missed
  classified,   \* windows whose prediction was stored as evidence
  unassessed,   \* kinds of evidence accepted since the last assessment
  coverage,     \* terminal coverage of the classifier in the fusion run
  job,          \* state of the live inference job
  predictions,  \* windows whose prediction the job holds
  run,          \* state of the fusion run
  cancelled     \* whether the context of the analysis is cancelled

evidenceVars == <<exported, reported, classified, unassessed, coverage>>
jobVars      == <<job, predictions>>
loopVars     == <<worker, holding, mlLost, dirty, cursor>>
requestVars  == <<run, cancelled>>
liveVars     == <<loopVars, requestVars, evidenceVars, jobVars>>
vars         == <<sensorVars, liveVars>>

Ended == {"completed", "failed", "offline"}
Looping == {"select", "classify", "predict", "ingest", "lost", "telemetry", "refresh"}

Init ==
  /\ SensorInit
  /\ worker = "begin" /\ holding = 0
  /\ mlLost = FALSE
  /\ dirty = TRUE /\ cursor = 0
  /\ exported = {} /\ reported = {} /\ classified = {} /\ unassessed = {}
  /\ coverage = "PENDING"
  /\ job = "NONE" /\ predictions = {}
  /\ run = "ACTIVE" /\ cancelled = FALSE

\* The run takes evidence and coverage only while it is active, and every call
\* of ingestion first looks at the context.  A batch for a run that was closed
\* before is rejected item by item, which is no error.
Writable == run = "ACTIVE" /\ ~ cancelled
Rejects  == run = "CANCELLED" /\ ~ cancelled
Accept(kind) == unassessed' = unassessed \cup {kind}
Step(from, to) == worker = from /\ worker' = to
\* An error of runLive; execute decides what becomes of the analysis.
Fail(from) == /\ Step(from, "failed")
              /\ UNCHANGED <<sensorVars, holding, mlLost, dirty, cursor, requestVars,
                             evidenceVars, jobVars>>

-----------------------------------------------------------------------------
(* Before the loop. *)

\* Run reads the source's state, runLive subscribes later.  Input.StopLive writes
\* STOPPED only after the session has been stopped.
CheckSource ==
  /\ \/ Step("begin", "subscribe")
     \/ session = "closed" /\ Step("begin", "offline")
  /\ UNCHANGED <<sensorVars, holding, mlLost, dirty, cursor, requestVars, evidenceVars, jobVars>>

Subscribe ==
  /\ Step("subscribe", "model")
  /\ stream' = [stream EXCEPT !.state = "open"]
  /\ UNCHANGED <<capture, session, logVars, reader, flowVars, heard, dropped, holding,
                 mlLost, dirty, cursor, requestVars, evidenceVars, jobVars>>

BeginLive ==
  /\ Step("model", "select")
  /\ job' = "RUNNING"
  /\ UNCHANGED <<sensorVars, holding, mlLost, dirty, cursor, requestVars, evidenceVars, predictions>>

\* Not asked for, not configured, or no predictor is connected.
WithoutModel ==
  /\ Step("model", "select")
  /\ Writable
  /\ mlLost' = TRUE /\ coverage' = "UNAVAILABLE"
  /\ UNCHANGED <<sensorVars, holding, dirty, cursor, requestVars, exported, reported,
                 classified, unassessed, jobVars>>

-----------------------------------------------------------------------------
(* The select loop. *)

Receive_IgnoresClose ==
  /\ stream.items # <<>>
  /\ Step("select", "classify")
  /\ holding' = Head(stream.items) /\ stream' = [stream EXCEPT !.items = Tail(@)]
  /\ UNCHANGED <<capture, session, logVars, reader, flowVars, heard, dropped, mlLost, dirty,
                 cursor, requestVars, evidenceVars, jobVars>>

\* A closed channel first yields what it still buffers.
Receive ==
  /\ \/ /\ stream.items # <<>>
        /\ Step("select", "classify")
        /\ holding' = Head(stream.items) /\ stream' = [stream EXCEPT !.items = Tail(@)]
     \/ /\ stream.items = <<>> /\ stream.state = "closed"
        /\ Step("select", "export")
        /\ UNCHANGED <<holding, stream>>
  /\ UNCHANGED <<capture, session, logVars, reader, flowVars, heard, dropped, mlLost, dirty,
                 cursor, requestVars, evidenceVars, jobVars>>

ContextDone == cancelled /\ Fail("select")

\* classifyLiveWindow: nothing to do for a window that is gone, of a flow the
\* classifier does not accept or without a classifier.
Classifiable(w) == ~ mlLost /\ w \in retained /\ windows[w].flow \in Encrypted

SkipWindow ==
  /\ Step("classify", "select")
  /\ ~ Classifiable(holding) /\ dirty' = TRUE
  /\ UNCHANGED <<sensorVars, holding, mlLost, cursor, requestVars, evidenceVars, jobVars>>

\* PredictLiveWindow looks at the job, calls the worker without the lock, and
\* looks again before it stores the prediction.
StartPrediction ==
  /\ Classifiable(holding)
  /\ Step("classify", IF job = "RUNNING" THEN "predict" ELSE "lost")
  /\ UNCHANGED <<sensorVars, holding, mlLost, dirty, cursor, requestVars, evidenceVars, jobVars>>

PredictionArrives ==
  /\ Step("predict", "ingest")
  /\ predictions' = IF job = "RUNNING" THEN predictions \cup {holding} ELSE predictions
  /\ UNCHANGED <<sensorVars, holding, mlLost, dirty, cursor, requestVars, evidenceVars, job>>

\* The classifier fails, times out or answers nothing.
PredictionFails ==
  /\ Step("predict", "lost")
  /\ UNCHANGED <<sensorVars, holding, mlLost, dirty, cursor, requestVars, evidenceVars, jobVars>>

IngestPrediction_Clean ==
  /\ Writable /\ Step("ingest", "select")
  /\ classified' = classified \cup {holding} /\ Accept("ml")
  /\ UNCHANGED <<sensorVars, holding, mlLost, dirty, cursor, requestVars, exported, reported,
                 coverage, jobVars>>

IngestPrediction ==
  /\ Writable /\ Step("ingest", "select")
  /\ classified' = classified \cup {holding} /\ Accept("ml")
  /\ dirty' = TRUE
  /\ UNCHANGED <<sensorVars, holding, mlLost, cursor, requestVars, exported, reported,
                 coverage, jobVars>>

PredictionRejected ==
  /\ Rejects /\ Step("ingest", "select") /\ dirty' = TRUE
  /\ UNCHANGED <<sensorVars, holding, mlLost, cursor, requestVars, evidenceVars, jobVars>>

\* The context is done, or the run is closed between AddBatch's look at it and
\* the storing of the evidence, or between that and the computation.
IngestFails ==
  /\ ~ Writable /\ Step("ingest", "lost")
  /\ \/ classified' = classified \cup {holding} /\ Accept("ml")
     \/ UNCHANGED <<classified, unassessed>>
  /\ UNCHANGED <<sensorVars, holding, mlLost, dirty, cursor, requestVars, exported, reported,
                 coverage, jobVars>>

LoseModel_Unmarked ==
  /\ Step("lost", "select") /\ mlLost' = TRUE
  /\ UNCHANGED <<sensorVars, holding, dirty, cursor, requestVars, evidenceVars, jobVars>>

\* Any error of a window ends the classification, not the analysis; the error
\* of marking it is ignored.
LoseModel ==
  /\ Step("lost", "select") /\ mlLost' = TRUE
  /\ coverage' = IF Writable THEN "UNAVAILABLE" ELSE coverage
  /\ UNCHANGED <<sensorVars, holding, dirty, cursor, requestVars, exported, reported,
                 classified, unassessed, jobVars>>

-----------------------------------------------------------------------------
(* exportLivePacketDelta, the telemetry and the assessment, which the ticker *)
(* causes while the capture runs and which end the analysis afterwards.  The *)
(* computation that AddBatch makes itself is part of the next Assess: a run  *)
(* that is closed in between fails there.                                    *)

New    == {n \in Kept : n > cursor}
Missed == cursor + 1 .. log.first - 1

\* Whether AddBatch is called: packets that do not belong to IPsec give no evidence.
Sends == CASE Missed # {} -> {TRUE} [] New = {} -> {FALSE} [] OTHER -> BOOLEAN

Export_Quiet(from, to) ==
  /\ Step(from, to)
  /\ \E sends \in Sends :
       /\ sends => Writable /\ Cardinality(New) <= MaxBatch
       /\ IF sends THEN Accept("packet") ELSE UNCHANGED unassessed
  /\ exported' = exported \cup New
  /\ cursor' = log.next - 1
  /\ dirty' = (dirty \/ New \cup Missed # {})
  /\ UNCHANGED <<sensorVars, holding, mlLost, requestVars, reported, classified, coverage, jobVars>>

\* ListSince returns the retained packets after the cursor and how many it missed.
Export(from, to) ==
  /\ Step(from, to)
  /\ \E sends \in Sends :
       /\ sends => Writable /\ Cardinality(New) <= MaxBatch
       /\ IF sends THEN Accept("packet") ELSE UNCHANGED unassessed
  /\ exported' = exported \cup New
  /\ reported' = reported \cup Missed
  /\ cursor' = log.next - 1
  /\ dirty' = (dirty \/ New \cup Missed # {})
  /\ UNCHANGED <<sensorVars, holding, mlLost, requestVars, classified, coverage, jobVars>>

ExportRejected(from, to) ==
  /\ Step(from, to)
  /\ Rejects /\ TRUE \in Sends /\ Cardinality(New) <= MaxBatch
  /\ cursor' = log.next - 1 /\ dirty' = TRUE
  /\ UNCHANGED <<sensorVars, holding, mlLost, requestVars, evidenceVars, jobVars>>

ExportFails(from) ==
  /\ TRUE \in Sends /\ (~ Writable \/ Cardinality(New) > MaxBatch)
  /\ Fail(from)

\* collectLiveTelemetry: a gateway sample, if one can be taken, does not count as
\* a change.
Telemetry(from, to) ==
  /\ Step(from, to)
  /\ (Writable /\ Accept("gateway")) \/ UNCHANGED unassessed
  /\ UNCHANGED <<sensorVars, holding, mlLost, dirty, cursor, requestVars, exported, reported,
                 classified, coverage, jobVars>>

TelemetryFails(from) == ~ Writable /\ Fail(from)

Tick == Export("select", "telemetry") \/ ExportRejected("select", "telemetry") \/ ExportFails("select")
Sample == Telemetry("telemetry", "refresh") \/ TelemetryFails("telemetry")

\* refreshLiveAssessment runs fusion and the security assessment.
Assess(from, to) ==
  /\ Step(from, to)
  /\ Writable
  /\ unassessed' = {} /\ dirty' = FALSE
  /\ UNCHANGED <<sensorVars, holding, mlLost, cursor, requestVars, exported, reported,
                 classified, coverage, jobVars>>

Refresh == dirty /\ (Assess("refresh", "select") \/ Fail("refresh"))
KeepAssessment ==
  /\ ~ dirty /\ Step("refresh", "select")
  /\ UNCHANGED <<sensorVars, holding, mlLost, dirty, cursor, requestVars, evidenceVars, jobVars>>

\* After the stream is closed: the last packets, telemetry and flow counters.
FinalExport == Export("export", "sample") \/ ExportRejected("export", "sample") \/ ExportFails("export")
FinalSample == Telemetry("sample", "counters") \/ TelemetryFails("sample")
NoFlows == windows = <<>> /\ \A f \in Flows : pending[f] = "none"
Counters ==
  \/ /\ Step("counters", "sources")
     /\ IF NoFlows \/ Rejects THEN UNCHANGED unassessed ELSE Writable /\ Accept("flow")
     /\ UNCHANGED <<sensorVars, holding, mlLost, dirty, cursor, requestVars, exported, reported,
                    classified, coverage, jobVars>>
  \/ ~ NoFlows /\ ~ Writable /\ Fail("counters")

\* completeLiveSources marks the sensor's sources and then the classifier's.
MarkSensor ==
  \/ /\ Step("sources", IF mlLost THEN "final" ELSE "complete")
     /\ Writable
     /\ UNCHANGED <<sensorVars, holding, mlLost, dirty, cursor, requestVars, evidenceVars, jobVars>>
  \/ ~ Writable /\ Fail("sources")

CompleteLive_Any ==
  /\ Step("complete", "mark")
  /\ job' = "COMPLETED"
  /\ UNCHANGED <<sensorVars, holding, mlLost, dirty, cursor, requestVars, evidenceVars, predictions>>

\* CompleteLive only ends a job that is RUNNING and has no error for one that a
\* client cancelled.
CompleteLive ==
  /\ Step("complete", "mark")
  /\ job' = IF job = "RUNNING" THEN "COMPLETED" ELSE job
  /\ UNCHANGED <<sensorVars, holding, mlLost, dirty, cursor, requestVars, evidenceVars, predictions>>

MarkModel ==
  \/ /\ Step("mark", "final")
     /\ Writable /\ coverage' = "COMPLETE"
     /\ UNCHANGED <<sensorVars, holding, mlLost, dirty, cursor, requestVars, exported, reported,
                    classified, unassessed, jobVars>>
  \/ ~ Writable /\ Fail("mark")

FinalAssessment_IfDirty ==
  \/ dirty /\ (Assess("final", "completed") \/ Fail("final"))
  \/ /\ ~ dirty /\ Step("final", "completed")
     /\ UNCHANGED <<sensorVars, holding, mlLost, dirty, cursor, requestVars, evidenceVars, jobVars>>

FinalAssessment == Assess("final", "completed") \/ Fail("final")

-----------------------------------------------------------------------------
(* The other threads. *)

\* The deferred cancel of the subscription, or the one its context causes.
Unsubscribe ==
  /\ worker \in Ended \/ cancelled
  /\ stream.state = "open" /\ stream' = ClosedStream
  /\ UNCHANGED <<capture, session, logVars, reader, flowVars, heard, dropped, liveVars>>

\* A client can cancel the job once its identifier shows in a prediction.
CancelInference ==
  /\ job = "RUNNING" /\ predictions # {}
  /\ job' = "CANCELLED"
  /\ UNCHANGED <<sensorVars, loopVars, requestVars, evidenceVars, predictions>>

\* The Cancel of the analysis revokes the run and then cancels the context.
RevokeRun ==
  /\ worker \notin Ended
  /\ run = "ACTIVE" /\ run' = "CANCELLED"
  /\ UNCHANGED <<sensorVars, loopVars, cancelled, evidenceVars, jobVars>>

CancelContext ==
  /\ run = "CANCELLED" /\ ~ cancelled /\ cancelled' = TRUE
  /\ UNCHANGED <<sensorVars, loopVars, run, evidenceVars, jobVars>>

Open == CheckSource \/ Subscribe \/ BeginLive \/ WithoutModel \/ (~ Writable /\ Fail("model"))
Classify == SkipWindow \/ StartPrediction \/ PredictionArrives \/ PredictionFails
             \/ IngestPrediction \/ PredictionRejected \/ IngestFails \/ LoseModel
Update == Sample \/ Refresh \/ KeepAssessment
Finish == FinalExport \/ FinalSample \/ Counters \/ MarkSensor \/ CompleteLive \/ MarkModel \/ FinalAssessment

\* What the sensor does after the end of the analysis is left to SensorCapture.
Beside(step) == worker \notin Ended /\ step /\ UNCHANGED liveVars

Next ==
  \/ Beside(Sensor)
  \/ Open \/ Receive \/ ContextDone \/ Classify \/ Tick \/ Update \/ Finish
  \/ Unsubscribe \/ CancelInference \/ RevokeRun \/ CancelContext

Spec == Init /\ [][Next]_vars

\* The goroutines of the backend are scheduled, calls to the classifier, the
\* gateway and the kernel have timeouts, and select chooses at random among the
\* cases that are ready.  Nothing makes anybody stop the capture or the session.
Fairness ==
  /\ WF_vars(Beside(Reader))
  /\ WF_vars(Beside(CloseSession))
  /\ WF_vars(Open \/ Classify \/ Update \/ Finish)
  /\ SF_vars(Receive) /\ SF_vars(Tick)
  /\ WF_vars(Unsubscribe) /\ WF_vars(CancelContext)

FairSpec == Spec /\ Fairness

-----------------------------------------------------------------------------
\* Every variable has its type; the buffer and the stores keep their limits.
TypeOK ==
  /\ SensorTypeOK
  /\ worker \in {"begin", "subscribe", "model", "export", "sample", "counters", "sources", "complete",
                 "mark", "final"} \cup Looping \cup Ended
  /\ holding \in 0 .. Len(windows)
  /\ mlLost \in BOOLEAN /\ dirty \in BOOLEAN /\ cancelled \in BOOLEAN
  /\ cursor \in Nat
  /\ exported \subseteq Nat /\ reported \subseteq Nat
  /\ classified \subseteq DOMAIN windows /\ predictions \subseteq DOMAIN windows
  /\ unassessed \subseteq {"packet", "ml", "gateway", "flow"}
  /\ coverage \in {"PENDING", "COMPLETE", "UNAVAILABLE"}
  /\ job \in {"NONE", "RUNNING", "COMPLETED", "CANCELLED"}
  /\ run \in {"ACTIVE", "CANCELLED"}

\* No packet is lost silently: when a live analysis completes, every packet that
\* was logged before the stop closed its stream is evidence or was reported as
\* missed.
PacketsAccounted == worker = "completed" => 1 .. atClose \subseteq exported \cup reported

\* "instead of treating an unavailable optional dependency as a passing result"
\* (pipeline.go:39): every window the stream carried or dropped was classified,
\* was counted as dropped or evicted, or belongs to no encrypted flow; otherwise
\* the classifier's coverage says UNAVAILABLE.
WindowsAccounted ==
  worker = "completed" =>
    \A w \in heard : \/ w \in classified \cup dropped
                     \/ w \notin retained
                     \/ windows[w].flow \notin Encrypted
                     \/ coverage = "UNAVAILABLE"

\* A job reported as COMPLETED holds the predictions that the analysis used as
\* evidence, and no others.
CompletedJobMatches == job = "COMPLETED" => predictions = classified

\* Between two refreshes, evidence of an open run that the assessment has not
\* seen is remembered as a change, but for gateway samples.
CleanIsAssessed ==
  worker = "select" /\ Writable /\ ~ dirty => unassessed \subseteq {"gateway"}

\* The last assessment of a completed analysis has seen all its evidence.
FinalAssessmentIsCurrent == worker = "completed" => unassessed = {}

\* What a live analysis ends with is complete: the job holds what was used as
\* evidence, and the assessment has seen the evidence.
AssessmentIsComplete == CompletedJobMatches /\ CleanIsAssessed /\ FinalAssessmentIsCurrent

\* "must recompute affected conclusions when ML evidence arrives"
\* (go_core_backend_api_spec_v1.md:100), even if the capture goes on for ever.
PredictionIsAssessed == "ml" \in unassessed ~> "ml" \notin unassessed \/ worker = "failed"

\* A live analysis ends once its session is being closed, provided it subscribed
\* before that had closed the streams, and so does a cancelled one.
StopEndsLive == (session = "finalized" /\ stream.state = "open") \/ cancelled ~> worker \in Ended

\* The loop of a live analysis serves its predictions and hears its stop, though
\* select chooses between them as it likes.
LoopIsFair == PredictionIsAssessed /\ StopEndsLive

=============================================================================
