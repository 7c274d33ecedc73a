------------------------- MODULE LiveAnalysisProofs -------------------------
(***************************************************************************)
(* Proofs about LiveAnalysis for any flows, limits of the packet log, the  *)
(* retention, the subscription and the batches.                            *)
(*                                                                         *)
(* Packets: the cursor is always behind the log, everything up to it is    *)
(* accounted for, and the loop only ends when the stream is closed; unless *)
(* the analysis is cancelled, in which case it does not complete, that was *)
(* the stop of the session.  Job: only an open job gains predictions, each *)
(* of which becomes evidence or loses the model.  Windows: one that was    *)
(* published waits in the stream or with the loop, was taken care of, or   *)
(* has lost the model its coverage.  A run that is closed rejects batches  *)
(* without an error, but the analysis does not complete then; so these are *)
(* only claimed while the run is open (Taken).                             *)
(***************************************************************************)
EXTENDS LiveAnalysis, FiniteSetTheorems, TLAPS

Before == {"begin", "subscribe", "model"}
After  == {"sample", "counters", "sources", "complete", "mark", "final"}

LogOrdered ==
  /\ log \in [first : Nat, next : Nat] /\ cursor \in Nat /\ atClose \in Nat
  /\ cursor < log.next /\ atClose < log.next

\* No batch has been rejected so far: a run that is closed stays closed.
Taken == run = "ACTIVE" \/ worker = "completed"
Covered == Taken => 1 .. cursor \subseteq exported \cup reported

\* Who closes the stream.
Closed ==
  /\ "state" \in DOMAIN stream
  /\ stream.state = "closed" \/ worker = "export" => session = "closed" \/ cancelled \/ worker \in Ended

\* What the export after the loop has achieved.
Drained ==
  /\ worker \in After => cancelled \/ (session = "closed" /\ atClose <= cursor)
  /\ worker = "completed" => session = "closed" /\ atClose <= cursor

PacketInv == LogOrdered /\ Covered /\ Closed /\ Drained

-----------------------------------------------------------------------------
(* Packets. *)

LEMMA PacketInit == Init => PacketInv
BY DEF Init, SensorInit, PacketInv, LogOrdered, Covered, Taken, Closed, Drained, Before, After, Ended

\* A step that leaves the log, the cursor and the stream alone, and the worker
\* where it was or on its way to the end of a phase.
LEMMA PacketQuiet ==
  ASSUME PacketInv,
         UNCHANGED <<log, cursor, atClose, stream, session, exported, reported>>,
         cancelled => cancelled', run' = "ACTIVE" => run = "ACTIVE",
         worker' = worker \/ worker \notin Ended,
         \/ worker' = worker
         \/ worker' \in {"failed", "offline"} \cup Before \cup Looping
         \/ worker \in After /\ worker' \in After
         \/ worker = "final" /\ worker' = "completed" /\ Writable
  PROVE  PacketInv'
BY DEF PacketInv, LogOrdered, Covered, Taken, Writable, Closed, Drained, Before, After, Looping, Ended

LEMMA PacketSensor == PacketInv /\ Sensor /\ UNCHANGED liveVars => PacketInv'
<1> SUFFICES ASSUME PacketInv, Sensor, UNCHANGED liveVars PROVE PacketInv'
  OBVIOUS
<1> USE DEF liveVars, loopVars, requestVars, evidenceVars, jobVars
<1>1. CASE Observe
  BY <1>1 DEF Observe, flowVars, streamVars, PacketInv, LogOrdered, Covered, Taken, Closed, Drained
<1>2. CASE ObservePacket
  BY <1>2, PacketQuiet DEF ObservePacket, logVars, streamVars
<1>3. CASE StopCapture
  BY <1>3, PacketQuiet DEF StopCapture, logVars, streamVars
<1>4. CASE FinalizeSession
  <2>1. worker \in After \cup {"completed"} => cancelled
    BY <1>4 DEF FinalizeSession, PacketInv, Drained, After
  <2> QED BY <1>4, <2>1 DEF FinalizeSession, logVars, streamVars, PacketInv, LogOrdered, Covered,
               Taken, Closed, Drained, After
<1>5. CASE CloseStream
  BY <1>5 DEF CloseStream, ClosedStream, flowVars, PacketInv, LogOrdered, Covered, Taken, Closed,
              Drained, After
<1>6. ASSUME NEW w, Deliver(w), UNCHANGED <<session, logVars>> PROVE PacketInv'
  <2>1. DOMAIN stream' = DOMAIN stream /\ stream'.state = stream.state
    BY <1>6 DEF Deliver, streamVars, PacketInv, Closed
  <2> QED BY <1>6, <2>1 DEF logVars, PacketInv, LogOrdered, Covered, Taken, Closed, Drained
<1>7. CASE ReaderPublishes
  BY <1>6, <1>7 DEF ReaderPublishes
<1>8. CASE PublishFinal
  BY <1>6, <1>8 DEF PublishFinal
<1> QED BY <1>1, <1>2, <1>3, <1>4, <1>5, <1>7, <1>8 DEF Sensor, Reader, CloseSession

\* The export of the log brings the cursor to its end.
LEMMA PacketExport ==
  ASSUME PacketInv, NEW from, NEW to, Export(from, to),
         from \notin Ended,
         (from = "export" /\ to \in After) \/ to \in Looping
  PROVE  PacketInv'
<1> USE DEF Export, Step
<1>1. UNCHANGED sensorVars /\ UNCHANGED requestVars
  OBVIOUS
<1>2. LogOrdered' /\ cursor' = log.next - 1
  BY <1>1 DEF PacketInv, LogOrdered, sensorVars, logVars
<1>3. Covered'
  <2> SUFFICES ASSUME Taken, NEW n \in 1 .. log.next - 1 PROVE n \in exported' \cup reported'
    BY <1>1, <1>2 DEF Covered, Taken, requestVars, Looping, After, Ended
  <2>1. CASE n <= cursor
    BY <2>1 DEF PacketInv, Covered, LogOrdered
  <2>2. CASE n > cursor /\ n < log.first
    BY <2>2 DEF PacketInv, LogOrdered, Missed
  <2>3. CASE n > cursor /\ n >= log.first
    BY <2>3 DEF PacketInv, LogOrdered, New, Kept
  <2> QED BY <2>1, <2>2, <2>3 DEF PacketInv, LogOrdered
<1>4. Closed' /\ Drained'
  <2>1. atClose <= log.next - 1 /\ log.next - 1 \in Nat
    BY DEF PacketInv, LogOrdered
  <2> QED BY <1>1, <1>2, <2>1 DEF PacketInv, Closed, Drained, After, Ended, Looping, sensorVars,
               logVars, streamVars, requestVars
<1> QED BY <1>2, <1>3, <1>4 DEF PacketInv

\* A batch that is rejected takes the cursor as far.
LEMMA PacketRejected ==
  ASSUME PacketInv, NEW from, NEW to, ExportRejected(from, to),
         from \notin Ended,
         (from = "export" /\ to \in After) \/ to \in Looping
  PROVE  PacketInv'
<1> USE DEF ExportRejected, Step
<1>1. UNCHANGED sensorVars /\ UNCHANGED requestVars
  OBVIOUS
<1>2. LogOrdered' /\ cursor' = log.next - 1
  BY <1>1 DEF PacketInv, LogOrdered, sensorVars, logVars
<1>3. Covered'
  BY <1>1 DEF Covered, Taken, Rejects, requestVars, Looping, After
<1>4. Closed' /\ Drained'
  <2>1. atClose <= log.next - 1 /\ log.next - 1 \in Nat
    BY DEF PacketInv, LogOrdered
  <2> QED BY <1>1, <1>2, <2>1 DEF PacketInv, Closed, Drained, After, Ended, Looping, sensorVars,
               logVars, streamVars, requestVars
<1> QED BY <1>2, <1>3, <1>4 DEF PacketInv

LEMMA PacketFail ==
  ASSUME PacketInv, NEW from, from \notin Ended, Fail(from)
  PROVE  PacketInv'
BY PacketQuiet DEF Fail, Step, sensorVars, logVars, streamVars, requestVars, evidenceVars

LEMMA PacketStep == PacketInv /\ [Next]_vars => PacketInv'
<1> SUFFICES ASSUME PacketInv, [Next]_vars PROVE PacketInv'
  OBVIOUS
<1> USE DEF Step, sensorVars, logVars, streamVars, requestVars, evidenceVars, Ended
<1>1. CASE Beside(Sensor)
  BY <1>1, PacketSensor DEF Beside
<1>2. CASE Open
  <2>1. CASE CheckSource
    BY <2>1, PacketQuiet DEF CheckSource, Before
  <2>2. CASE Subscribe
    BY <2>2 DEF Subscribe, PacketInv, LogOrdered, Covered, Taken, Closed, Drained, After
  <2>3. CASE BeginLive
    BY <2>3, PacketQuiet DEF BeginLive, Looping
  <2>4. CASE WithoutModel
    BY <2>4, PacketQuiet DEF WithoutModel, Looping
  <2> QED BY <1>2, <2>1, <2>2, <2>3, <2>4, PacketFail DEF Open
<1>3. CASE Receive
  <2>1. CASE Step("select", "classify")
    BY <1>3, <2>1 DEF Receive, PacketInv, LogOrdered, Covered, Taken, Closed, Drained, After
  <2>2. CASE stream.state = "closed" /\ Step("select", "export") /\ UNCHANGED stream
    BY <1>3, <2>2 DEF Receive, PacketInv, LogOrdered, Covered, Taken, Closed, Drained, After
  <2> QED BY <1>3, <2>1, <2>2 DEF Receive
<1>4. CASE ContextDone
  BY <1>4, PacketFail DEF ContextDone
<1>5. CASE Classify
  <2>1. CASE SkipWindow
    BY <2>1, PacketQuiet DEF SkipWindow, Looping
  <2>2. CASE StartPrediction
    BY <2>2, PacketQuiet DEF StartPrediction, Looping
  <2>3. CASE PredictionArrives \/ PredictionFails
    BY <2>3, PacketQuiet DEF PredictionArrives, PredictionFails, Looping
  <2>4. CASE IngestPrediction \/ PredictionRejected \/ IngestFails
    BY <2>4, PacketQuiet DEF IngestPrediction, PredictionRejected, IngestFails, Looping
  <2>5. CASE LoseModel
    BY <2>5, PacketQuiet DEF LoseModel, Looping
  <2> QED BY <1>5, <2>1, <2>2, <2>3, <2>4, <2>5 DEF Classify
<1>6. CASE Tick
  BY <1>6, PacketExport, PacketRejected, PacketFail DEF Tick, ExportFails, Looping
<1>7. CASE Update
  <2>1. CASE Sample
    BY <2>1, PacketQuiet, PacketFail DEF Sample, Telemetry, TelemetryFails, Looping
  <2>2. CASE Refresh \/ KeepAssessment
    BY <2>2, PacketQuiet, PacketFail DEF Refresh, KeepAssessment, Assess, Looping
  <2> QED BY <1>7, <2>1, <2>2 DEF Update
<1>8. CASE Finish
  <2>1. CASE FinalExport
    BY <2>1, PacketExport, PacketRejected, PacketFail DEF FinalExport, ExportFails, After
  <2>2. CASE FinalSample
    BY <2>2, PacketQuiet, PacketFail DEF FinalSample, Telemetry, TelemetryFails, After
  <2>3. CASE Counters
    BY <2>3, PacketQuiet, PacketFail DEF Counters, After
  <2>4. CASE MarkSensor \/ CompleteLive \/ MarkModel
    BY <2>4, PacketQuiet, PacketFail DEF MarkSensor, CompleteLive, MarkModel, After
  <2>5. CASE FinalAssessment
    BY <2>5, PacketQuiet, PacketFail DEF FinalAssessment, Assess, Writable
  <2> QED BY <1>8, <2>1, <2>2, <2>3, <2>4, <2>5 DEF Finish
<1>9. CASE Unsubscribe
  BY <1>9 DEF Unsubscribe, ClosedStream, liveVars, loopVars, PacketInv, LogOrdered, Covered, Taken, Closed,
              Drained
<1>10. CASE CancelInference \/ RevokeRun \/ CancelContext
  BY <1>10, PacketQuiet DEF CancelInference, RevokeRun, CancelContext, loopVars
<1>11. CASE UNCHANGED vars
  BY <1>11, PacketQuiet DEF vars, liveVars, loopVars
<1> QED BY <1>1, <1>2, <1>3, <1>4, <1>5, <1>6, <1>7, <1>8, <1>9, <1>10, <1>11 DEF Next

\* PacketsAccounted: no packet logged before the stop is lost silently.
THEOREM NoSilentLoss == Spec => []PacketsAccounted
<1>1. PacketInv => PacketsAccounted
  BY DEF PacketInv, PacketsAccounted, Drained, Covered, Taken, LogOrdered
<1> QED BY <1>1, PacketInit, PacketStep, PTL DEF Spec

-----------------------------------------------------------------------------
(* The inference job. *)

JobInv ==
  /\ worker \in Before => job = "NONE" /\ predictions = classified
  /\ worker \in {"predict", "ingest"} => job # "NONE" /\ ~ mlLost
  /\ worker = "complete" => ~ mlLost
  /\ /\ job = "RUNNING" /\ worker \notin {"ingest", "lost"} /\ ~ mlLost
     /\ run = "ACTIVE" \/ worker = "complete"
     => predictions = classified
  /\ job = "RUNNING" /\ worker = "ingest" /\ run = "ACTIVE" => predictions = classified \cup {holding}
  /\ job = "COMPLETED" => predictions = classified /\ worker \in {"mark", "final"} \cup Ended

LEMMA JobStep == JobInv /\ [Next]_vars => JobInv'
<1> SUFFICES ASSUME JobInv, [Next]_vars PROVE JobInv'
  OBVIOUS
<1> USE DEF Step, sensorVars, logVars, streamVars, requestVars, evidenceVars, jobVars, Ended,
            JobInv, Before, Writable, Rejects
<1>0. ASSUME NEW from, Fail(from), from \notin {"ingest", "lost"} PROVE JobInv'
  BY <1>0 DEF Fail
<1>1. CASE Beside(Sensor)
  BY <1>1 DEF Beside, liveVars, loopVars
<1>2. CASE Open
  BY <1>0, <1>2 DEF Open, CheckSource, Subscribe, BeginLive, WithoutModel
<1>3. CASE Receive
  BY <1>3 DEF Receive
<1>4. CASE ContextDone
  BY <1>0, <1>4 DEF ContextDone
<1>5. CASE Classify
  <2>1. CASE SkipWindow \/ StartPrediction
    BY <2>1 DEF SkipWindow, StartPrediction, Classifiable
  <2>2. CASE PredictionArrives \/ PredictionFails
    BY <2>2 DEF PredictionArrives, PredictionFails
  <2>3. CASE IngestPrediction \/ PredictionRejected
    BY <2>3 DEF IngestPrediction, PredictionRejected
  <2>4. CASE IngestFails \/ LoseModel
    BY <2>4 DEF IngestFails, LoseModel
  <2> QED BY <1>5, <2>1, <2>2, <2>3, <2>4 DEF Classify
<1>6. CASE Tick
  BY <1>0, <1>6 DEF Tick, Export, ExportRejected, ExportFails
<1>7. CASE Update
  <2>1. CASE Sample
    BY <1>0, <2>1 DEF Sample, Telemetry, TelemetryFails
  <2>2. CASE Refresh \/ KeepAssessment
    BY <1>0, <2>2 DEF Refresh, KeepAssessment, Assess
  <2> QED BY <1>7, <2>1, <2>2 DEF Update
<1>8. CASE Finish
  <2>1. CASE FinalExport \/ FinalSample
    BY <1>0, <2>1 DEF FinalExport, FinalSample, Export, ExportRejected, ExportFails, Telemetry, TelemetryFails
  <2>2. CASE Counters \/ MarkSensor
    BY <1>0, <2>2 DEF Counters, MarkSensor
  <2>3. CASE CompleteLive \/ MarkModel
    BY <1>0, <2>3 DEF CompleteLive, MarkModel
  <2>4. CASE FinalAssessment
    BY <1>0, <2>4 DEF FinalAssessment, Assess
  <2> QED BY <1>8, <2>1, <2>2, <2>3, <2>4 DEF Finish
<1>9. CASE Unsubscribe
  BY <1>9 DEF Unsubscribe, liveVars, loopVars
<1>10. CASE CancelInference \/ RevokeRun \/ CancelContext
  BY <1>10 DEF CancelInference, RevokeRun, CancelContext, loopVars
<1>11. CASE UNCHANGED vars
  BY <1>11 DEF vars, liveVars, loopVars
<1> QED BY <1>1, <1>2, <1>3, <1>4, <1>5, <1>6, <1>7, <1>8, <1>9, <1>10, <1>11 DEF Next

\* CompletedJobMatches: a client's Cancel of the job may race every call of the
\* pipeline, but a job that ends COMPLETED holds exactly what became evidence.
THEOREM JobIsHonest == Spec => []CompletedJobMatches
<1>1. Init => JobInv
  BY DEF Init, JobInv, Before, Ended
<1>2. JobInv => CompletedJobMatches
  BY DEF JobInv, CompletedJobMatches
<1> QED BY <1>1, <1>2, JobStep, PTL DEF Spec

-----------------------------------------------------------------------------
(* The assessment. *)

AssessInv ==
  /\ dirty \in BOOLEAN
  /\ worker \in Before => unassessed = {}
  /\ worker \in Looping /\ Writable /\ ~ dirty => unassessed \subseteq {"gateway"}
  /\ FinalAssessmentIsCurrent

LEMMA SendsSomething == TRUE \in Sends => New \cup Missed # {}
<1>1. CASE Missed # {}
  BY <1>1
<1>2. CASE Missed = {} /\ New = {}
  <2>1. Sends = {FALSE}
    BY <1>2 DEF Sends
  <2> QED BY <2>1
<1>3. CASE New # {}
  BY <1>3
<1> QED BY <1>1, <1>2, <1>3

\* An export that sends evidence marks the assessment as out of date.
LEMMA AssessExport ==
  ASSUME AssessInv, NEW from, NEW to, Export(from, to), from \in Looping \/ to \notin Looping,
         to \notin Before, to # "completed"
  PROVE  AssessInv'
<1> USE DEF Export, Step
<1>1. dirty' \in BOOLEAN /\ (dirty' = FALSE => dirty = FALSE /\ New \cup Missed = {})
  BY DEF AssessInv
<1>2. New \cup Missed = {} => unassessed' = unassessed
  BY SendsSomething DEF Sends
<1>3. UNCHANGED requestVars
  OBVIOUS
<1> QED BY <1>1, <1>2, <1>3 DEF AssessInv, FinalAssessmentIsCurrent, Writable, requestVars

LEMMA AssessStep == AssessInv /\ [Next]_vars => AssessInv'
<1> SUFFICES ASSUME AssessInv, [Next]_vars PROVE AssessInv'
  OBVIOUS
<1> USE DEF Step, requestVars, evidenceVars, Ended, AssessInv, FinalAssessmentIsCurrent, Before,
            Looping, Writable, Accept
<1>0. ASSUME NEW from, Fail(from) PROVE AssessInv'
  BY <1>0 DEF Fail
<1>1. CASE Beside(Sensor)
  BY <1>1 DEF Beside, liveVars, loopVars
<1>2. CASE Open
  BY <1>0, <1>2 DEF Open, CheckSource, Subscribe, BeginLive, WithoutModel
<1>3. CASE Receive
  BY <1>3 DEF Receive
<1>4. CASE ContextDone
  BY <1>0, <1>4 DEF ContextDone
<1>5. CASE Classify
  <2>1. CASE SkipWindow \/ StartPrediction
    BY <2>1 DEF SkipWindow, StartPrediction
  <2>2. CASE PredictionArrives \/ PredictionFails
    BY <2>2 DEF PredictionArrives, PredictionFails
  <2>3. CASE IngestPrediction \/ PredictionRejected
    BY <2>3 DEF IngestPrediction, PredictionRejected
  <2>4. CASE IngestFails \/ LoseModel
    BY <2>4 DEF IngestFails, LoseModel
  <2> QED BY <1>5, <2>1, <2>2, <2>3, <2>4 DEF Classify
<1>6. CASE Tick
  BY <1>0, <1>6, AssessExport DEF Tick, ExportRejected, ExportFails
<1>7. CASE Update
  <2>1. CASE Sample
    BY <1>0, <2>1 DEF Sample, Telemetry, TelemetryFails
  <2>2. CASE Refresh \/ KeepAssessment
    BY <1>0, <2>2 DEF Refresh, KeepAssessment, Assess
  <2> QED BY <1>7, <2>1, <2>2 DEF Update
<1>8. CASE Finish
  <2>1. CASE FinalExport
    BY <1>0, <2>1, AssessExport DEF FinalExport, ExportRejected, ExportFails
  <2>2. CASE FinalSample
    BY <1>0, <2>2 DEF FinalSample, Telemetry, TelemetryFails
  <2>3. CASE Counters \/ MarkSensor
    BY <1>0, <2>3 DEF Counters, MarkSensor
  <2>4. CASE CompleteLive \/ MarkModel
    BY <1>0, <2>4 DEF CompleteLive, MarkModel
  <2>5. CASE FinalAssessment
    BY <1>0, <2>5 DEF FinalAssessment, Assess
  <2> QED BY <1>8, <2>1, <2>2, <2>3, <2>4, <2>5 DEF Finish
<1>9. CASE Unsubscribe
  BY <1>9 DEF Unsubscribe, liveVars, loopVars
<1>10. CASE CancelInference \/ RevokeRun \/ CancelContext
  BY <1>10 DEF CancelInference, RevokeRun, CancelContext, loopVars
<1>11. CASE UNCHANGED vars
  BY <1>11 DEF vars, liveVars, loopVars
<1> QED BY <1>1, <1>2, <1>3, <1>4, <1>5, <1>6, <1>7, <1>8, <1>9, <1>10, <1>11 DEF Next

LEMMA AssessAlways == Spec => []AssessInv
<1>1. Init => AssessInv
  BY DEF Init, AssessInv, FinalAssessmentIsCurrent, Looping, Before
<1> QED BY <1>1, AssessStep, PTL DEF Spec

\* CleanIsAssessed: no refresh is skipped while there is something to assess.
THEOREM NothingForgotten == Spec => []CleanIsAssessed
<1>1. AssessInv => CleanIsAssessed
  BY DEF AssessInv, CleanIsAssessed, Looping
<1> QED BY <1>1, AssessAlways, PTL

\* FinalAssessmentIsCurrent: what arrives while the sources are completed is
\* part of the last assessment.
THEOREM LastAssessmentSeesAll == Spec => []FinalAssessmentIsCurrent
<1>1. AssessInv => FinalAssessmentIsCurrent
  BY DEF AssessInv
<1> QED BY <1>1, AssessAlways, PTL

\* Job and assessment are complete when the live analysis says so.
THEOREM EndIsComplete == Spec => []AssessmentIsComplete
BY JobIsHonest, NothingForgotten, LastAssessmentSeesAll, PTL DEF AssessmentIsComplete

-----------------------------------------------------------------------------
(* Types and limits. *)

Windows == [flow : Flows, ready : BOOLEAN]

\* Taking the head of a channel leaves its other items in their order.
LEMMA TakingOne ==
  ASSUME NEW S, NEW s \in Seq(S), s # <<>>
  PROVE  /\ Head(s) \in S /\ Head(s) = s[1]
         /\ Tail(s) \in Seq(S)
         /\ Len(s) \in Nat /\ Len(Tail(s)) = Len(s) - 1
         /\ \A i \in DOMAIN s : i = 1 \/ (i - 1 \in DOMAIN Tail(s) /\ Tail(s)[i - 1] = s[i])
<1>1. Len(s) \in Nat /\ Len(s) > 0 /\ DOMAIN s = 1 .. Len(s)
  OBVIOUS
<1>2. Head(s) = s[1] /\ s[1] \in S
  BY <1>1
<1>3. Tail(s) \in Seq(S) /\ Len(Tail(s)) = Len(s) - 1
  BY <1>1
<1>4. DOMAIN Tail(s) = 1 .. Len(s) - 1
  BY <1>3
<1>5. \A i \in 1 .. Len(s) - 1 : Tail(s)[i] = s[i + 1]
  BY <1>1
<1>6. ASSUME NEW i \in DOMAIN s, i # 1
      PROVE i - 1 \in DOMAIN Tail(s) /\ Tail(s)[i - 1] = s[i]
  <2>1. i \in Int /\ i - 1 \in 1 .. Len(s) - 1 /\ (i - 1) + 1 = i
    BY <1>1, <1>6
  <2> QED
    BY <2>1, <1>4, <1>5
<1> QED
  BY <1>1, <1>2, <1>3, <1>6

LEMMA SomeSmallest ==
  ASSUME NEW S \in SUBSET Nat, IsFiniteSet(S), S # {}
  PROVE  \E w \in S : \A v \in S : v >= w
<1> DEFINE Below(w) == {v \in S : v < w}
           T == {Below(w) : w \in S}
           Fewer == StrictSubsetOrdering(S)
<1>1. T \subseteq SUBSET S /\ T # {}
  OBVIOUS
<1>2. IsWellFoundedOn(Fewer, SUBSET S)
  BY FS_StrictSubsetOrderingWellFounded, FS_FiniteSubsetsOfFinite
<1>3. PICK x \in T : \A y \in T : ~(<<y, x>> \in Fewer)
  <2> HIDE DEF T, Fewer
  <2> QED
    BY <1>1, <1>2, WFMin
<1>4. PICK w \in S : x = Below(w)
  BY <1>3
<1>5. ASSUME NEW v \in S, v < w PROVE FALSE
  <2>0. v \in Nat /\ w \in Nat /\ \A u \in S : u \in Nat
    OBVIOUS
  <2>3. \A u \in Below(v) : u \in Below(w)
    BY <1>5, <2>0
  <2>4. v \in Below(w) /\ v \notin Below(v)
    BY <1>5, <2>0
  <2>1. Below(v) \subseteq Below(w) /\ v \in Below(w) /\ v \notin Below(v)
    BY <2>3, <2>4
  <2>2. <<Below(v), x>> \in Fewer
    BY <1>4, <2>1 DEF StrictSubsetOrdering
  <2> QED
    BY <1>3, <2>2
<1> QED
  BY <1>5

\* The newest of some windows are no more than may be retained.
LEMMA NewestAreFew ==
  ASSUME NEW ids \in SUBSET Nat, IsFiniteSet(ids)
  PROVE  Newest(ids) \subseteq ids /\ Cardinality(Newest(ids)) <= MaxWindows
<1>1. Newest(ids) \subseteq ids /\ \A w \in Newest(ids) : Cardinality({v \in ids : v >= w}) <= MaxWindows
  BY DEF Newest
<1>2. IsFiniteSet(Newest(ids)) /\ Newest(ids) \in SUBSET Nat
  BY <1>1, FS_Subset
<1>3. CASE Newest(ids) = {}
  <2>1. Cardinality(Newest(ids)) = 0
    BY <1>3, FS_EmptySet
  <2> QED
    BY <1>1, <2>1, StreamAssumption
<1>4. CASE Newest(ids) # {}
  <2>1. PICK w \in Newest(ids) : \A v \in Newest(ids) : v >= w
    BY <1>2, <1>4, SomeSmallest
  <2>2. Newest(ids) \in SUBSET {v \in ids : v >= w}
    BY <1>1, <2>1
  <2>3. IsFiniteSet({v \in ids : v >= w})
    <3>1. {v \in ids : v >= w} \in SUBSET ids
      OBVIOUS
    <3> QED
      BY <3>1, FS_Subset
  <2>4. /\ Cardinality(Newest(ids)) <= Cardinality({v \in ids : v >= w})
        /\ Cardinality({v \in ids : v >= w}) \in Nat /\ Cardinality(Newest(ids)) \in Nat
    BY <1>2, <2>2, <2>3, FS_Subset, FS_CardinalityType
  <2>5. Cardinality({v \in ids : v >= w}) <= MaxWindows
    BY <1>1, <2>1
  <2> HIDE DEF Newest
  <2> QED
    BY <1>1, <2>4, <2>5, StreamAssumption
<1> QED
  BY <1>3, <1>4

\* What is known of the windows.
WindowTypes ==
  /\ windows \in Seq(Windows) /\ pending \in [Flows -> Fill]
  /\ retained \subseteq DOMAIN windows /\ Cardinality(retained) <= MaxWindows

\* Finalising keeps the windows there are, and brings none back that was evicted.
LEMMA Finalizing ==
  ASSUME WindowTypes, NEW fs \in Seq(Flows), FinalizeAll(fs)
  PROVE  /\ windows' \in Seq(Windows) /\ Len(windows') = Len(windows) + Len(fs)
         /\ DOMAIN windows \subseteq DOMAIN windows'
         /\ \A w \in DOMAIN windows : windows'[w] = windows[w] /\ (w \in retained' => w \in retained)
         /\ retained' \subseteq DOMAIN windows' /\ Cardinality(retained') <= MaxWindows
<1> DEFINE more == [i \in DOMAIN fs |-> [flow |-> fs[i], ready |-> pending[fs[i]] = "enough"]]
           ids == retained \cup (Len(windows) + 1 .. Len(windows) + Len(fs))
<1>1. Len(fs) \in Nat /\ DOMAIN fs = 1..Len(fs) /\ Len(windows) \in Nat /\ DOMAIN windows = 1..Len(windows)
  BY DEF WindowTypes
<1>2. \A i \in DOMAIN fs : [flow |-> fs[i], ready |-> pending[fs[i]] = "enough"] \in Windows
  BY DEF Windows
<1>3. more \in Seq(Windows) /\ Len(more) = Len(fs) /\ DOMAIN more = 1..Len(fs)
  <2>1. more \in [1..Len(fs) -> Windows]
    BY <1>1, <1>2
  <2> QED
    BY <1>1, <2>1
<1>4. windows' = windows \o more /\ retained' = Newest(ids)
  BY DEF FinalizeAll, Finalized
<1> HIDE DEF more
<1>5. windows' \in Seq(Windows) /\ Len(windows') = Len(windows) + Len(fs) /\ DOMAIN windows' = 1..(Len(windows) + Len(fs))
  BY <1>1, <1>3, <1>4 DEF WindowTypes
<1>6. \A w \in DOMAIN windows : windows'[w] = windows[w]
  BY <1>1, <1>3, <1>4 DEF WindowTypes
<1>7. ids \subseteq DOMAIN windows' /\ ids \in SUBSET Nat
  BY <1>1, <1>5 DEF WindowTypes
<1>8. IsFiniteSet(ids)
  <2>1. IsFiniteSet(1..(Len(windows) + Len(fs)))
    BY <1>1, FS_Interval
  <2> QED
    BY <1>5, <1>7, <2>1, FS_Subset
<1>9. retained' \subseteq ids /\ Cardinality(retained') <= MaxWindows
  BY <1>4, <1>7, <1>8, NewestAreFew
<1>10. \A w \in DOMAIN windows : w \in ids => w \in retained
  BY <1>1
<1> HIDE DEF ids
<1> QED
  BY <1>1, <1>5, <1>6, <1>7, <1>9, <1>10

LEMMA OrdersAreSequences ==
  ASSUME NEW fs \in Orders
  PROVE  fs \in Seq(Flows)
<1>1. Cardinality(Flows) \in Nat
  BY StreamAssumption, FS_CardinalityType
<1>2. PICK n \in 0 .. Cardinality(Flows) : fs \in [1 .. n -> Flows]
  BY DEF Orders
<1> QED
  BY <1>1, <1>2

-----------------------------------------------------------------------------
\* Types.

LogTypes ==
  /\ capture \in {"running", "stopped"} /\ session \in {"open", "finalized", "closed"}
  /\ log \in [first : Nat, next : Nat] /\ log.next - log.first \in 0 .. MaxRecords
  /\ atClose \in Nat
ReaderTypes ==
  reader \in [pc : {"idle", "decoded", "logged"}] \cup [pc : {"publish"}, window : DOMAIN windows]
NameTypes ==
  /\ unsent \in Seq(DOMAIN windows)
  /\ stream \in [state : {"none", "open", "closed"}, items : Seq(DOMAIN windows)]
  /\ Len(stream.items) <= Buffer
  /\ dropped \subseteq heard /\ heard \subseteq DOMAIN windows
  /\ holding \in 0 .. Len(windows)
  /\ classified \subseteq DOMAIN windows /\ predictions \subseteq DOMAIN windows
LoopTypes ==
  /\ worker \in {"begin", "subscribe", "model", "export", "sample", "counters", "sources", "complete",
                 "mark", "final"} \cup Looping \cup Ended
  /\ mlLost \in BOOLEAN /\ dirty \in BOOLEAN /\ cancelled \in BOOLEAN
  /\ cursor \in Nat
  /\ exported \subseteq Nat /\ reported \subseteq Nat
  /\ unassessed \subseteq {"packet", "ml", "gateway", "flow"}
  /\ coverage \in {"PENDING", "COMPLETE", "UNAVAILABLE"}
  /\ job \in {"NONE", "RUNNING", "COMPLETED", "CANCELLED"}
  /\ run \in {"ACTIVE", "CANCELLED"}

\* The types, and what the steps need of the log, the loop and the stream.
HoldingKept == worker \in {"classify", "predict", "ingest"} => holding \in DOMAIN windows
LiveTypes == LogTypes /\ ReaderTypes /\ WindowTypes /\ NameTypes /\ LoopTypes /\ HoldingKept

LEMMA LiveTypesAreTypes == LiveTypes => TypeOK
BY DEF LiveTypes, LogTypes, ReaderTypes, WindowTypes, NameTypes, LoopTypes, TypeOK, SensorTypeOK, Windows

LEMMA LiveTypesInit == Init => LiveTypes
<1> SUFFICES ASSUME Init PROVE LiveTypes
  OBVIOUS
<1> USE StreamAssumption DEF Init, SensorInit
<1>1. LogTypes
  BY DEF LogTypes
<1>2. ReaderTypes
  BY DEF ReaderTypes, Free
<1>3. WindowTypes
  BY FS_EmptySet DEF WindowTypes, Fill
<1>4. NameTypes
  <2>1. stream \in [state : {"none", "open", "closed"}, items : Seq(DOMAIN windows)] /\ Len(stream.items) = 0
    OBVIOUS
  <2>2. unsent \in Seq(DOMAIN windows) /\ 0 \in 0 .. Len(windows)
    OBVIOUS
  <2> QED
    BY <2>1, <2>2 DEF NameTypes
<1>5. LoopTypes
  BY DEF LoopTypes, Looping, Ended
<1> QED
  BY <1>1, <1>2, <1>3, <1>4, <1>5 DEF LiveTypes, HoldingKept

LEMMA MoreNames ==
  ASSUME NEW A, NEW B, A \subseteq B, NEW s \in Seq(A)
  PROVE  s \in Seq(B)
OBVIOUS

\* More windows leave what names the old ones in order.
LEMMA Growth ==
  ASSUME LiveTypes, WindowTypes', DOMAIN windows \subseteq DOMAIN windows', Len(windows) <= Len(windows'),
         unsent' \in Seq(DOMAIN windows'),
         UNCHANGED <<stream, heard, dropped, liveVars>>
  PROVE  NameTypes' /\ LoopTypes' /\ HoldingKept'
<1> USE DEF LiveTypes, NameTypes, liveVars, loopVars, requestVars, evidenceVars, jobVars
<1>1. stream.items \in Seq(DOMAIN windows')
  BY MoreNames
<1>2. stream' \in [state : {"none", "open", "closed"}, items : Seq(DOMAIN windows')] /\ Len(stream'.items) <= Buffer
  BY <1>1
<1>3. holding' \in 0 .. Len(windows')
  BY DEF WindowTypes
<1>4. LoopTypes' /\ HoldingKept'
  BY DEF LoopTypes, HoldingKept
<1> QED
  BY <1>2, <1>3, <1>4

LEMMA DeliverTypes ==
  ASSUME LiveTypes, NEW w \in DOMAIN windows, Deliver(w), UNCHANGED <<windows, liveVars>>,
         unsent' \in Seq(DOMAIN windows)
  PROVE  NameTypes' /\ LoopTypes' /\ HoldingKept'
<1> USE DEF liveVars, loopVars, requestVars, evidenceVars, jobVars
<1>1. LoopTypes' /\ HoldingKept'
  BY DEF LiveTypes, LoopTypes, HoldingKept
<1>2. /\ stream' \in [state : {"none", "open", "closed"}, items : Seq(DOMAIN windows)]
      /\ Len(stream'.items) <= Buffer /\ dropped' \subseteq heard' /\ heard' \subseteq DOMAIN windows
  <2>1. CASE UNCHANGED streamVars
    BY <2>1 DEF streamVars, LiveTypes, NameTypes
  <2>2. CASE heard' = heard \cup {w} /\ dropped' = dropped \cup {w} /\ UNCHANGED stream
    BY <2>2 DEF LiveTypes, NameTypes
  <2>3. CASE /\ heard' = heard \cup {w} /\ UNCHANGED dropped /\ Len(stream.items) < Buffer
             /\ stream' = [stream EXCEPT !.items = Append(@, w)]
    <3>1. stream.items \in Seq(DOMAIN windows) /\ Len(stream.items) \in Nat
      BY DEF LiveTypes, NameTypes
    <3>2. Append(stream.items, w) \in Seq(DOMAIN windows) /\ Len(Append(stream.items, w)) = Len(stream.items) + 1
      BY <3>1
    <3>3. stream' \in [state : {"none", "open", "closed"}, items : Seq(DOMAIN windows)] /\ stream'.items = Append(stream.items, w)
      BY <2>3, <3>2 DEF LiveTypes, NameTypes
    <3>4. Buffer \in Nat
      BY StreamAssumption
    <3> QED
      BY <2>3, <3>1, <3>2, <3>3, <3>4 DEF LiveTypes, NameTypes
  <2> QED
    BY <2>1, <2>2, <2>3 DEF Deliver
<1>3. holding' \in 0 .. Len(windows') /\ classified' \subseteq DOMAIN windows' /\ predictions' \subseteq DOMAIN windows'
  BY DEF LiveTypes, NameTypes
<1> QED
  BY <1>1, <1>2, <1>3 DEF NameTypes

LEMMA SensorTypes == LiveTypes /\ PacketInv /\ Sensor /\ UNCHANGED liveVars => LiveTypes'
<1> SUFFICES ASSUME LiveTypes, PacketInv, Sensor, UNCHANGED liveVars PROVE LiveTypes'
  OBVIOUS
<1>0. LogTypes /\ ReaderTypes /\ WindowTypes /\ NameTypes
  BY DEF LiveTypes
<1>1. CASE Observe
  <2>1. LogTypes'
    <3>1. /\ log.first \in Nat /\ log.next \in Nat /\ log.next - log.first \in 0 .. MaxRecords
          /\ MaxRecords \in Nat \ {0}
      BY <1>0, StreamAssumption DEF LogTypes
    <3>2. log' = [first |-> IF log.next - log.first + 1 > MaxRecords THEN log.first + 1 ELSE log.first,
                  next |-> log.next + 1]
      BY <1>1 DEF Observe
    <3>3. log'.next = log.next + 1 /\ log'.first = IF log.next - log.first + 1 > MaxRecords THEN log.first + 1 ELSE log.first
      BY <3>2
    <3>4. log'.next - log'.first \in 0 .. MaxRecords /\ log' \in [first : Nat, next : Nat]
      <4>1. CASE log.next - log.first + 1 > MaxRecords
        BY <3>1, <3>2, <3>3, <4>1
      <4>2. CASE ~(log.next - log.first + 1 > MaxRecords)
        BY <3>1, <3>2, <3>3, <4>2
      <4> QED
        BY <4>1, <4>2
    <3> QED
      BY <1>0, <1>1, <3>4 DEF LogTypes, Observe
  <2>2. ReaderTypes'
    BY <1>1 DEF ReaderTypes, Observe
  <2>3. WindowTypes' /\ UNCHANGED <<windows, unsent, stream, heard, dropped>>
    BY <1>0, <1>1 DEF Observe, flowVars, streamVars, WindowTypes
  <2>4. NameTypes' /\ LoopTypes' /\ HoldingKept'
    BY <1>0, <2>3, Growth DEF WindowTypes, NameTypes
  <2> QED
    BY <2>1, <2>2, <2>3, <2>4 DEF LiveTypes
<1>2. CASE ObservePacket
  <2>1. LogTypes'
    BY <1>0, <1>2 DEF ObservePacket, logVars, LogTypes
  <2>2. UNCHANGED <<unsent, stream, heard, dropped>>
    BY <1>2 DEF ObservePacket, streamVars
  <2>3. ASSUME NEW f \in Flows, Complete(f) PROVE LiveTypes'
    <3>1. FinalizeAll(<<f>>) /\ <<f>> \in Seq(Flows) /\ Len(<<f>>) = 1
      BY <2>3 DEF Complete
    <3>2. /\ windows' \in Seq(Windows) /\ Len(windows') = Len(windows) + 1
          /\ DOMAIN windows \subseteq DOMAIN windows'
          /\ retained' \subseteq DOMAIN windows' /\ Cardinality(retained') <= MaxWindows
      BY <1>0, <3>1, Finalizing
    <3>3. pending' \in [Flows -> Fill]
      BY <1>0, <2>3 DEF Complete, WindowTypes, Fill
    <3>4. Len(windows) \in Nat /\ DOMAIN windows' = 1..(Len(windows) + 1)
      BY <1>0, <3>2 DEF WindowTypes
    <3>5. ReaderTypes'
      BY <2>3, <3>4 DEF Complete, ReaderTypes
    <3>6. WindowTypes'
      BY <3>2, <3>3 DEF WindowTypes
    <3>7. NameTypes' /\ LoopTypes' /\ HoldingKept'
      BY <1>0, <2>2, <3>2, <3>4, <3>6, Growth, MoreNames DEF NameTypes
    <3> QED
      BY <2>1, <3>5, <3>6, <3>7 DEF LiveTypes
  <2>4. ASSUME reader' = Free, UNCHANGED <<windows, retained>>, pending' \in [Flows -> Fill] PROVE LiveTypes'
    <3>1. ReaderTypes' /\ WindowTypes'
      BY <1>0, <2>4 DEF ReaderTypes, Free, WindowTypes
    <3>2. NameTypes' /\ LoopTypes' /\ HoldingKept'
      BY <1>0, <2>2, <2>4, <3>1, Growth DEF NameTypes, WindowTypes
    <3> QED
      BY <2>1, <3>1, <3>2 DEF LiveTypes
  <2>5. ASSUME NEW f \in Flows, Extend(f) PROVE LiveTypes'
    <3>1. PICK fill \in Fill : pending' = [pending EXCEPT ![f] = fill]
      BY <2>5 DEF Extend, Fill
    <3> QED
      BY <1>0, <2>4, <2>5, <3>1 DEF Extend, WindowTypes
  <2>6. CASE NoFlow
    BY <1>0, <2>4, <2>6 DEF NoFlow, WindowTypes
  <2> QED
    BY <1>2, <2>3, <2>5, <2>6 DEF ObservePacket
<1>3. CASE ReaderPublishes
  <2>1. reader.window \in DOMAIN windows
    BY <1>0, <1>3 DEF ReaderPublishes, ReaderTypes
  <2>2. Deliver(reader.window) /\ reader' = Free /\ UNCHANGED <<capture, session, logVars, flowVars>>
    BY <1>3 DEF ReaderPublishes
  <2>3. NameTypes' /\ LoopTypes' /\ HoldingKept'
    BY <1>0, <2>1, <2>2, DeliverTypes DEF flowVars, NameTypes
  <2> QED
    BY <1>0, <2>2, <2>3 DEF LiveTypes, LogTypes, ReaderTypes, WindowTypes, Free, logVars, flowVars
<1>4. CASE StopCapture
  <2>1. ReaderTypes' /\ capture' = "stopped" /\ UNCHANGED <<session, logVars, flowVars, streamVars>>
    BY <1>0, <1>4 DEF StopCapture, ReaderTypes, flowVars
  <2>2. LogTypes' /\ WindowTypes'
    BY <1>0, <2>1 DEF LogTypes, WindowTypes, logVars, flowVars
  <2>3. NameTypes' /\ LoopTypes' /\ HoldingKept'
    BY <1>0, <2>1, <2>2, Growth DEF NameTypes, WindowTypes, flowVars, streamVars
  <2> QED
    BY <2>1, <2>2, <2>3 DEF LiveTypes
<1>5. CASE FinalizeSession
  <2>1. PICK fs \in Orders : FinalizeAll(fs) /\ unsent' = [i \in DOMAIN fs |-> Len(windows) + i]
    BY <1>5 DEF FinalizeSession
  <2>2. /\ pending' = [f \in Flows |-> "none"] /\ session' = "finalized"
        /\ UNCHANGED <<capture, logVars, reader, streamVars>>
    BY <1>5 DEF FinalizeSession
  <2>3. fs \in Seq(Flows)
    BY OrdersAreSequences
  <2>4. /\ windows' \in Seq(Windows) /\ Len(windows') = Len(windows) + Len(fs)
        /\ DOMAIN windows \subseteq DOMAIN windows'
        /\ retained' \subseteq DOMAIN windows' /\ Cardinality(retained') <= MaxWindows
    BY <1>0, <2>1, <2>3, Finalizing
  <2>5. Len(windows) \in Nat /\ Len(fs) \in Nat /\ DOMAIN fs = 1..Len(fs) /\ DOMAIN windows' = 1..(Len(windows) + Len(fs))
    BY <1>0, <2>3, <2>4 DEF WindowTypes
  <2>6. unsent' \in Seq(DOMAIN windows')
    <3>1. \A i \in 1..Len(fs) : Len(windows) + i \in 1..(Len(windows) + Len(fs))
      BY <2>5
    <3>2. unsent' \in [1..Len(fs) -> DOMAIN windows']
      BY <2>1, <2>5, <3>1
    <3> QED
      BY <2>5, <3>2
  <2>7. WindowTypes'
    BY <2>2, <2>4 DEF WindowTypes, Fill
  <2>8. NameTypes' /\ LoopTypes' /\ HoldingKept'
    <3>1. Len(windows) <= Len(windows')
      BY <2>4, <2>5
    <3> QED
      BY <2>2, <2>4, <2>6, <2>7, <3>1, Growth DEF streamVars
  <2>9. ReaderTypes'
    BY <1>0, <2>2, <2>4 DEF ReaderTypes
  <2>10. LogTypes'
    BY <1>0, <2>2 DEF LogTypes, logVars
  <2> QED
    BY <2>7, <2>8, <2>9, <2>10 DEF LiveTypes
<1>6. CASE PublishFinal
  <2>1. Head(unsent) \in DOMAIN windows /\ Tail(unsent) \in Seq(DOMAIN windows)
    BY <1>0, <1>6 DEF PublishFinal, NameTypes
  <2>2. /\ Deliver(Head(unsent)) /\ unsent' = Tail(unsent)
        /\ UNCHANGED <<capture, session, logVars, reader, pending, windows, retained>>
    BY <1>6 DEF PublishFinal
  <2>3. NameTypes' /\ LoopTypes' /\ HoldingKept'
    BY <2>1, <2>2, DeliverTypes
  <2> QED
    BY <1>0, <2>2, <2>3 DEF LiveTypes, LogTypes, ReaderTypes, WindowTypes, logVars
<1>7. CASE CloseStream
  <2>1. /\ session' = "closed" /\ stream' = ClosedStream /\ atClose' = log.next - 1
        /\ UNCHANGED <<capture, log, reader, flowVars, heard, dropped>>
    BY <1>7 DEF CloseStream
  <2>2. LogTypes'
    BY <1>0, <2>1 DEF LogTypes, PacketInv, LogOrdered
  <2>3. NameTypes'
    BY <1>0, <2>1 DEF NameTypes, ClosedStream, flowVars, liveVars, loopVars, evidenceVars, jobVars
  <2>4. LoopTypes' /\ HoldingKept' /\ ReaderTypes' /\ WindowTypes'
    BY <1>0, <2>1 DEF LiveTypes, LoopTypes, HoldingKept, ReaderTypes, WindowTypes, flowVars, liveVars, loopVars, requestVars, evidenceVars, jobVars
  <2> QED
    BY <2>2, <2>3, <2>4 DEF LiveTypes
<1> QED
  BY <1>1, <1>2, <1>3, <1>4, <1>5, <1>6, <1>7 DEF Sensor, Reader, CloseSession

\* The loop names only windows there are, and counts no packet that was not logged.
LEMMA ExportTypes ==
  ASSUME LiveTypes, PacketInv, NEW from, NEW to, Export(from, to) \/ ExportRejected(from, to),
         to \in {"telemetry", "sample"}
  PROVE  LiveTypes'
<1> USE DEF LiveTypes, Export, ExportRejected, Step, sensorVars, logVars, flowVars, streamVars, requestVars,
            jobVars, evidenceVars, Accept
<1>1. LogTypes' /\ ReaderTypes' /\ WindowTypes'
  BY DEF LogTypes, ReaderTypes, WindowTypes
<1>2. NameTypes' /\ HoldingKept'
  BY DEF NameTypes, HoldingKept
<1>3. cursor' \in Nat
  <2>1. cursor' = log.next - 1
    OBVIOUS
  <2> QED
    BY <2>1 DEF PacketInv, LogOrdered
<1>4. New \subseteq Nat /\ Missed \subseteq Nat
  BY DEF New, Missed, Kept, LogTypes, LoopTypes
<1>5. LoopTypes'
  BY <1>3, <1>4 DEF LoopTypes, Looping
<1> QED
  BY <1>1, <1>2, <1>5

LEMMA LoopStepTypes ==
  ASSUME LiveTypes, UNCHANGED <<capture, session, log, atClose, reader, windows, pending, retained>>,
         NameTypes', LoopTypes', HoldingKept'
  PROVE  LiveTypes'
BY DEF LiveTypes, LogTypes, ReaderTypes, WindowTypes

\* A step of the loop that leaves the stream alone.
LEMMA QuietTypes ==
  ASSUME LiveTypes, UNCHANGED sensorVars, UNCHANGED holding, LoopTypes',
         worker' \in {"classify", "predict", "ingest"} => worker \in {"classify", "predict", "ingest"},
         classified' = classified \/ (worker = "ingest" /\ classified' = classified \cup {holding}),
         predictions' = predictions \/ (worker = "predict" /\ predictions' = predictions \cup {holding})
  PROVE  LiveTypes'
BY LoopStepTypes DEF LiveTypes, NameTypes, HoldingKept, sensorVars, logVars, flowVars, streamVars

LEMMA LiveTypesStep == LiveTypes /\ PacketInv /\ [Next]_vars => LiveTypes'
<1> SUFFICES ASSUME LiveTypes, PacketInv, [Next]_vars PROVE LiveTypes'
  OBVIOUS
<1>0. LoopTypes /\ NameTypes /\ HoldingKept
  BY DEF LiveTypes
<1> USE DEF Step, requestVars, evidenceVars, jobVars
<1>1. ASSUME NEW from, Fail(from) PROVE LiveTypes'
  BY <1>0, <1>1, QuietTypes DEF Fail, LoopTypes, Ended
<1>2. CASE Beside(Sensor)
  BY <1>2, SensorTypes DEF Beside
<1>3. CASE Open
  <2>1. CASE CheckSource
    BY <1>0, <2>1, QuietTypes DEF CheckSource, LoopTypes, Ended
  <2>2. CASE Subscribe
    <3>1. NameTypes' /\ LoopTypes' /\ HoldingKept'
      BY <1>0, <2>2 DEF Subscribe, NameTypes, LoopTypes, HoldingKept, flowVars
    <3> QED
      BY <2>2, <3>1, LoopStepTypes DEF Subscribe, flowVars, logVars
  <2>3. CASE BeginLive
    BY <1>0, <2>3, QuietTypes DEF BeginLive, LoopTypes, Looping
  <2>4. CASE WithoutModel
    BY <1>0, <2>4, QuietTypes DEF WithoutModel, LoopTypes, Looping
  <2> QED
    BY <1>1, <1>3, <2>1, <2>2, <2>3, <2>4 DEF Open
<1>4. CASE Receive
  <2>1. UNCHANGED <<capture, session, log, atClose, reader, windows, pending, retained, unsent, heard, dropped>>
    BY <1>4 DEF Receive, flowVars, logVars
  <2>2. CASE /\ stream.items # <<>> /\ Step("select", "classify")
             /\ holding' = Head(stream.items) /\ stream' = [stream EXCEPT !.items = Tail(@)]
    <3>1. Head(stream.items) \in DOMAIN windows /\ Tail(stream.items) \in Seq(DOMAIN windows) /\ Len(Tail(stream.items)) <= Buffer
      <4>1. stream.items \in Seq(DOMAIN windows) /\ Len(stream.items) <= Buffer /\ Buffer \in Nat
        BY <1>0, StreamAssumption DEF NameTypes
      <4>2. /\ Head(stream.items) \in DOMAIN windows /\ Tail(stream.items) \in Seq(DOMAIN windows)
            /\ Len(Tail(stream.items)) = Len(stream.items) - 1 /\ Len(stream.items) \in Nat
        BY <2>2, <4>1, TakingOne
      <4>3. ASSUME NEW n \in Nat, NEW m, m = n - 1, n <= Buffer PROVE m <= Buffer
        BY <4>1, <4>3
      <4> QED
        BY ONLY <4>1, <4>2, <4>3
    <3>2. /\ stream' \in [state : {"none", "open", "closed"}, items : Seq(DOMAIN windows)]
          /\ stream'.items = Tail(stream.items)
      BY <1>0, <2>2, <3>1 DEF NameTypes
    <3>3. holding' \in 0 .. Len(windows) /\ holding' \in DOMAIN windows
      BY <2>2, <3>1 DEF LiveTypes, WindowTypes
    <3>4. NameTypes'
      BY <1>0, <1>4, <2>1, <3>1, <3>2, <3>3 DEF Receive, NameTypes
    <3>5. LoopTypes' /\ HoldingKept'
      BY <1>0, <1>4, <2>1, <2>2, <3>3 DEF Receive, LoopTypes, HoldingKept, Looping
    <3> QED
      BY <2>1, <3>4, <3>5, LoopStepTypes
  <2>3. CASE Step("select", "export") /\ UNCHANGED <<holding, stream>>
    BY <1>0, <1>4, <2>1, <2>3, QuietTypes DEF Receive, LoopTypes, sensorVars, logVars, flowVars, streamVars
  <2> QED
    BY <1>4, <2>2, <2>3 DEF Receive
<1>5. CASE ContextDone
  BY <1>1, <1>5 DEF ContextDone
<1>6. CASE Classify
  <2>1. CASE SkipWindow
    BY <1>0, <2>1, QuietTypes DEF SkipWindow, LoopTypes, Looping
  <2>2. CASE StartPrediction
    BY <1>0, <2>2, QuietTypes DEF StartPrediction, LoopTypes, Looping
  <2>3. CASE PredictionArrives
    BY <1>0, <2>3, QuietTypes DEF PredictionArrives, LoopTypes, Looping
  <2>4. CASE PredictionFails
    BY <1>0, <2>4, QuietTypes DEF PredictionFails, LoopTypes, Looping
  <2>5. CASE IngestPrediction \/ PredictionRejected
    BY <1>0, <2>5, QuietTypes DEF IngestPrediction, PredictionRejected, LoopTypes, Looping, Accept
  <2>6. CASE IngestFails
    BY <1>0, <2>6, QuietTypes DEF IngestFails, LoopTypes, Looping, Accept
  <2>7. CASE LoseModel
    BY <1>0, <2>7, QuietTypes DEF LoseModel, LoopTypes, Looping
  <2> QED
    BY <1>6, <2>1, <2>2, <2>3, <2>4, <2>5, <2>6, <2>7 DEF Classify
<1>7. CASE Tick
  BY <1>1, <1>7, ExportTypes DEF Tick, ExportFails
<1>8. CASE Update
  <2>1. CASE Sample
    BY <1>0, <1>1, <2>1, QuietTypes, ZenonT(40) DEF Sample, Telemetry, TelemetryFails, LoopTypes, Looping, Accept
  <2>2. CASE Refresh \/ KeepAssessment
    BY <1>0, <1>1, <2>2, QuietTypes DEF Refresh, KeepAssessment, Assess, LoopTypes, Looping
  <2> QED
    BY <1>8, <2>1, <2>2 DEF Update
<1>9. CASE Finish
  <2>1. CASE FinalExport
    BY <1>1, <2>1, ExportTypes DEF FinalExport, ExportFails
  <2>2. CASE FinalSample
    BY <1>0, <1>1, <2>2, QuietTypes DEF FinalSample, Telemetry, TelemetryFails, LoopTypes, Accept
  <2>3. CASE Counters
    BY <1>0, <1>1, <2>3, QuietTypes DEF Counters, LoopTypes, Accept
  <2>4. CASE MarkSensor
    BY <1>0, <1>1, <2>4, QuietTypes DEF MarkSensor, LoopTypes
  <2>5. CASE CompleteLive
    BY <1>0, <2>5, QuietTypes DEF CompleteLive, LoopTypes
  <2>6. CASE MarkModel
    BY <1>0, <1>1, <2>6, QuietTypes DEF MarkModel, LoopTypes
  <2>7. CASE FinalAssessment
    BY <1>0, <1>1, <2>7, QuietTypes DEF FinalAssessment, Assess, LoopTypes, Ended
  <2> QED
    BY <1>9, <2>1, <2>2, <2>3, <2>4, <2>5, <2>6, <2>7 DEF Finish
<1>10. CASE Unsubscribe
  <2>1. /\ stream' = ClosedStream
        /\ UNCHANGED <<capture, session, logVars, reader, flowVars, heard, dropped, liveVars>>
    BY <1>10 DEF Unsubscribe
  <2>2. NameTypes'
    <3>1. stream' \in [state : {"none", "open", "closed"}, items : Seq(DOMAIN windows)] /\ stream'.items = stream.items
      BY <1>0, <2>1 DEF NameTypes, ClosedStream
    <3>2. UNCHANGED <<windows, unsent, heard, dropped, holding, classified, predictions>>
      BY <2>1 DEF flowVars, liveVars, loopVars
    <3>3. Len(stream'.items) <= Buffer
      BY <1>0, <3>1 DEF NameTypes
    <3> QED
      BY <1>0, <3>1, <3>2, <3>3 DEF NameTypes
  <2>2a. LoopTypes' /\ HoldingKept'
    BY <1>0, <2>1 DEF LoopTypes, HoldingKept, flowVars, liveVars, loopVars
  <2> QED
    BY <2>1, <2>2, <2>2a, LoopStepTypes DEF logVars, flowVars
<1>11. CASE CancelInference \/ RevokeRun \/ CancelContext
  BY <1>0, <1>11, QuietTypes DEF CancelInference, RevokeRun, CancelContext, loopVars, LoopTypes
<1>12. CASE UNCHANGED vars
  BY <1>0, <1>12, QuietTypes DEF vars, liveVars, loopVars, LoopTypes
<1> QED
  BY <1>2, <1>3, <1>4, <1>5, <1>6, <1>7, <1>8, <1>9, <1>10, <1>11, <1>12 DEF Next

LEMMA LiveTypesAlways == Spec => []LiveTypes
BY LiveTypesInit, LiveTypesStep, PacketInit, PacketStep, PTL DEF Spec

\* Every variable has its type, the buffer of the subscription never overflows, and
\* the log and the windows keep their limits.
THEOREM LiveTypesHold == Spec => []TypeOK
BY LiveTypesAlways, LiveTypesAreTypes, PTL

-----------------------------------------------------------------------------
(* Windows. *)

Busy == {"classify", "predict", "ingest"}

\* Why a published window needs no more from the loop, or where it waits for it.
Settled(w) ==
  \/ w \in classified \cup dropped \/ w \notin retained \/ windows[w].flow \notin Encrypted
  \/ mlLost \/ worker = "lost"
  \/ holding = w /\ worker \in Busy
  \/ \E i \in DOMAIN stream.items : stream.items[i] = w

\* The loop ends when the closed stream is empty, and nothing is published after that.
StreamPhase ==
  /\ worker \in {"begin", "subscribe"} => stream.state = "none" /\ heard = {}
  /\ worker \in {"export", "completed"} \cup After => stream.state = "closed" /\ stream.items = <<>>
LossIsMarked ==
  /\ worker \in {"complete", "mark"} => ~ mlLost
  /\ mlLost /\ (Writable \/ worker = "completed") => coverage = "UNAVAILABLE"
AllSettled == worker \notin {"failed", "offline"} /\ Taken => \A w \in heard : Settled(w)
WindowInv == StreamPhase /\ LossIsMarked /\ AllSettled

LEMMA WindowInit == Init => WindowInv
BY DEF Init, SensorInit, WindowInv, StreamPhase, LossIsMarked, AllSettled, After

\* A step of the loop that takes nothing from the stream.
LEMMA StaysSettled ==
  ASSUME AllSettled, UNCHANGED <<windows, retained, heard, dropped>>, stream'.items = stream.items,
         classified \subseteq classified', mlLost => mlLost',
         worker \in {"failed", "offline"} => worker' = worker, Taken' => Taken,
         worker = "lost" => worker' \in {"lost", "failed"} \/ mlLost',
         worker \in Busy =>
           \/ worker' \in {"lost", "failed"} \/ (worker' \in Busy /\ holding' = holding)
           \/ holding \in classified' \/ ~ Classifiable(holding) \/ ~ Taken'
  PROVE  AllSettled'
<1> SUFFICES ASSUME worker' \notin {"failed", "offline"}, Taken', NEW w \in heard PROVE Settled(w)'
  BY DEF AllSettled
<1>1. Settled(w)
  BY DEF AllSettled
<1>2. CASE w \in classified \cup dropped \/ w \notin retained \/ windows[w].flow \notin Encrypted \/ mlLost
  BY <1>2 DEF Settled
<1>3. CASE worker = "lost"
  BY <1>3 DEF Settled
<1>4. CASE holding = w /\ worker \in Busy
  BY <1>4 DEF Settled, Classifiable
<1>5. CASE \E i \in DOMAIN stream.items : stream.items[i] = w
  BY <1>5 DEF Settled
<1> QED
  BY <1>1, <1>2, <1>3, <1>4, <1>5 DEF Settled

\* A step of the loop that moves on within a phase.
LEMMA WindowQuiet ==
  ASSUME WindowInv, UNCHANGED sensorVars, UNCHANGED <<mlLost, coverage>>,
         classified \subseteq classified', Writable' => Writable, run' = "ACTIVE" => run = "ACTIVE",
         worker \in Ended \cup {"lost"} => worker' = worker,
         worker \in Busy =>
           \/ worker' \in {"lost", "failed"} \/ (worker' \in Busy /\ holding' = holding)
           \/ holding \in classified' \/ ~ Classifiable(holding) \/ ~ Taken',
         \/ worker' = worker \/ worker' \in {"failed", "offline"} \cup Looping
         \/ worker = "begin" /\ worker' = "subscribe"
         \/ worker \in After \cup {"export"} /\ worker' \in After \cup {"completed"},
         worker' \in {"complete", "mark"} => worker \in {"complete", "mark"} \/ ~ mlLost,
         worker' = "completed" => worker = "completed" \/ Writable
  PROVE  WindowInv'
<1>1. AllSettled'
  BY StaysSettled DEF WindowInv, Taken, Writable, sensorVars, flowVars, streamVars, Ended
<1>2. StreamPhase' 
  BY DEF WindowInv, StreamPhase, sensorVars, streamVars, After, Looping, Ended
<1>3. LossIsMarked'
  BY DEF WindowInv, LossIsMarked
<1> QED
  BY <1>1, <1>2, <1>3 DEF WindowInv

\* The sensor publishes a window: the stream takes it or drops it.
LEMMA WindowDeliver ==
  ASSUME LiveTypes, WindowInv, NEW w \in DOMAIN windows, Deliver(w), UNCHANGED <<windows, retained, liveVars>>
  PROVE  WindowInv'
<1> USE DEF liveVars, loopVars, requestVars, evidenceVars, jobVars, WindowInv, AllSettled, Taken, StreamPhase, LossIsMarked
<1>1. CASE UNCHANGED streamVars
  BY <1>1 DEF streamVars, Settled, Writable
<1>2. CASE heard' = heard \cup {w} /\ dropped' = dropped \cup {w} /\ UNCHANGED stream /\ stream.state = "open"
  BY <1>2 DEF Settled, Writable, After
<1>3. CASE /\ heard' = heard \cup {w} /\ UNCHANGED dropped /\ stream.state = "open"
           /\ stream' = [stream EXCEPT !.items = Append(@, w)]
  <2>1. /\ stream.items \in Seq(DOMAIN windows)
        /\ stream'.items = Append(stream.items, w) /\ stream'.state = "open"
    BY <1>3 DEF LiveTypes, NameTypes
  <2>2. \A i \in DOMAIN stream.items : i \in DOMAIN stream'.items /\ stream'.items[i] = stream.items[i]
    BY <2>1
  <2>3. \E i \in DOMAIN stream'.items : stream'.items[i] = w
    <3>1. Len(stream.items) + 1 \in DOMAIN stream'.items /\ stream'.items[Len(stream.items) + 1] = w
      BY <2>1
    <3> QED
      BY <3>1
  <2>4. AllSettled'
    BY <1>3, <2>2, <2>3 DEF Settled
  <2>5. StreamPhase' /\ LossIsMarked'
    BY <1>3, <2>1 DEF After, Writable
  <2> QED
    BY <2>4, <2>5
<1> QED
  BY <1>1, <1>2, <1>3 DEF Deliver

\* The sensor finalises windows: those there were keep their flow or are evicted.
LEMMA WindowFinalize ==
  ASSUME LiveTypes, WindowInv, NEW fs \in Seq(Flows), FinalizeAll(fs), UNCHANGED <<streamVars, liveVars>>
  PROVE  WindowInv'
<1> USE DEF liveVars, loopVars, requestVars, evidenceVars, jobVars, streamVars, WindowInv
<1>1. \A w \in DOMAIN windows : windows'[w] = windows[w] /\ (w \in retained' => w \in retained)
  BY Finalizing DEF LiveTypes
<1>2. heard \subseteq DOMAIN windows
  BY DEF LiveTypes, NameTypes
<1>3. AllSettled'
  BY <1>1, <1>2 DEF AllSettled, Taken, Settled
<1> QED
  BY <1>3 DEF StreamPhase, LossIsMarked, Writable

LEMMA WindowSensor == LiveTypes /\ WindowInv /\ Sensor /\ UNCHANGED liveVars => WindowInv'
<1> SUFFICES ASSUME LiveTypes, WindowInv, Sensor, UNCHANGED liveVars PROVE WindowInv'
  OBVIOUS
<1>0. ASSUME UNCHANGED <<windows, retained, streamVars>> PROVE WindowInv'
  BY <1>0 DEF WindowInv, StreamPhase, LossIsMarked, AllSettled, Taken, Settled, Writable, streamVars,
              liveVars, loopVars, requestVars, evidenceVars, jobVars
<1>1. CASE Observe \/ StopCapture
  BY <1>0, <1>1 DEF Observe, StopCapture, flowVars
<1>2. CASE ObservePacket
  <2>1. ASSUME NEW f \in Flows, Complete(f) PROVE WindowInv'
    <3>1. FinalizeAll(<<f>>) /\ <<f>> \in Seq(Flows) /\ UNCHANGED streamVars
      BY <1>2, <2>1 DEF Complete, ObservePacket
    <3> QED
      BY <3>1, WindowFinalize
  <2> QED
    BY <1>0, <1>2, <2>1 DEF ObservePacket, NoFlow, Extend
<1>3. CASE ReaderPublishes
  <2>1. reader.window \in DOMAIN windows
    BY <1>3 DEF ReaderPublishes, LiveTypes, ReaderTypes
  <2> QED
    BY <1>3, <2>1, WindowDeliver DEF ReaderPublishes, flowVars
<1>4. CASE FinalizeSession
  <2>1. PICK fs \in Orders : FinalizeAll(fs)
    BY <1>4 DEF FinalizeSession
  <2> QED
    BY <1>4, <2>1, OrdersAreSequences, WindowFinalize DEF FinalizeSession
<1>5. CASE PublishFinal
  <2>1. Head(unsent) \in DOMAIN windows
    BY <1>5, TakingOne DEF PublishFinal, LiveTypes, NameTypes
  <2> QED
    BY <1>5, <2>1, WindowDeliver DEF PublishFinal
<1>6. CASE CloseStream
  <2>1. /\ stream'.items = stream.items /\ stream'.state = (IF stream.state = "open" THEN "closed" ELSE stream.state)
        /\ UNCHANGED <<windows, retained, heard, dropped>>
    BY <1>6 DEF CloseStream, ClosedStream, flowVars, LiveTypes, NameTypes
  <2> QED
    BY <2>1 DEF WindowInv, StreamPhase, LossIsMarked, AllSettled, Taken, Settled, Writable,
                liveVars, loopVars, requestVars, evidenceVars, jobVars
<1> QED
  BY <1>1, <1>2, <1>3, <1>4, <1>5, <1>6 DEF Sensor, Reader, CloseSession

LEMMA WindowExport ==
  ASSUME WindowInv, NEW from, NEW to, Export(from, to) \/ ExportRejected(from, to),
         <<from, to>> \in {<<"select", "telemetry">>, <<"export", "sample">>}
  PROVE  WindowInv'
<1>1. /\ worker = from /\ worker' = to
      /\ UNCHANGED <<sensorVars, holding, mlLost, run, cancelled, classified, coverage>>
  BY DEF Export, ExportRejected, Step, requestVars, evidenceVars
<1> QED
  BY <1>1, WindowQuiet DEF Writable, Busy, Ended, Looping, After

LEMMA WindowStep == LiveTypes /\ WindowInv /\ [Next]_vars => WindowInv'
<1> SUFFICES ASSUME LiveTypes, WindowInv, [Next]_vars PROVE WindowInv'
  OBVIOUS
<1> USE DEF Step, requestVars, evidenceVars, jobVars
<1>1. ASSUME NEW from, Fail(from), from \notin {"lost"} \cup Ended PROVE WindowInv'
  BY <1>1, WindowQuiet DEF Fail, Writable, Busy
<1>2. CASE Beside(Sensor)
  BY <1>2, WindowSensor DEF Beside
<1>3. CASE Open
  <2>1. CASE CheckSource
    BY <2>1, WindowQuiet DEF CheckSource, Writable, Busy, Ended
  <2>2. CASE Subscribe
    <3>1. heard = {} /\ heard' = {} /\ worker' = "model" /\ UNCHANGED <<mlLost, coverage, run, cancelled>>
      BY <2>2 DEF Subscribe, WindowInv, StreamPhase
    <3> QED
      BY <3>1 DEF WindowInv, StreamPhase, LossIsMarked, AllSettled, Taken, Writable, After
  <2>3. CASE BeginLive
    BY <2>3, WindowQuiet DEF BeginLive, Writable, Busy, Ended, Looping
  <2>4. CASE WithoutModel
    <3>1. AllSettled'
      BY <2>4, StaysSettled DEF WithoutModel, WindowInv, Taken, Busy, sensorVars, flowVars, streamVars
    <3> QED
      BY <2>4, <3>1 DEF WithoutModel, WindowInv, StreamPhase, LossIsMarked, After
  <2> QED
    BY <1>1, <1>3, <2>1, <2>2, <2>3, <2>4 DEF Open, Ended
<1>4. CASE Receive
  <2>1. UNCHANGED <<windows, retained, heard, dropped, classified, mlLost, coverage, run, cancelled>>
    BY <1>4 DEF Receive, flowVars
  <2>2. CASE /\ stream.items # <<>> /\ Step("select", "classify")
             /\ holding' = Head(stream.items) /\ stream' = [stream EXCEPT !.items = Tail(@)]
    <3>1. stream.items \in Seq(DOMAIN windows) /\ stream'.items = Tail(stream.items)
      BY <2>2 DEF LiveTypes, NameTypes
    <3>2. /\ holding' = stream.items[1]
          /\ \A i \in DOMAIN stream.items :
               i = 1 \/ (i - 1 \in DOMAIN stream'.items /\ stream'.items[i - 1] = stream.items[i])
      BY <2>2, <3>1, TakingOne
    <3>3. ASSUME run = "ACTIVE", NEW w \in heard PROVE Settled(w)'
      <4>1. Settled(w) /\ worker = "select" /\ worker' = "classify"
        BY <2>2, <3>3 DEF WindowInv, AllSettled, Taken
      <4>2. CASE \E i \in DOMAIN stream.items : stream.items[i] = w
        <5>1. PICK i \in DOMAIN stream.items : stream.items[i] = w
          BY <4>2
        <5>2. CASE i = 1
          BY <3>2, <4>1, <5>1, <5>2 DEF Settled, Busy
        <5>3. CASE i # 1
          BY <3>2, <5>1, <5>3 DEF Settled
        <5> QED
          BY <5>2, <5>3
      <4> QED
        BY <2>1, <4>1, <4>2 DEF Settled, Busy
    <3> QED
      BY <2>1, <2>2, <3>3 DEF WindowInv, StreamPhase, LossIsMarked, AllSettled, Taken, Writable, After
  <2>3. CASE /\ stream.items = <<>> /\ stream.state = "closed"
             /\ Step("select", "export") /\ UNCHANGED <<holding, stream>>
    <3>1. AllSettled'
      BY <2>1, <2>3, StaysSettled DEF WindowInv, Taken, Busy
    <3> QED
      BY <2>1, <2>3, <3>1 DEF WindowInv, StreamPhase, LossIsMarked, Writable
  <2> QED
    BY <1>4, <2>2, <2>3 DEF Receive
<1>5. CASE ContextDone
  BY <1>1, <1>5 DEF ContextDone, Ended
<1>6. CASE Classify
  <2>1. CASE SkipWindow
    BY <2>1, WindowQuiet DEF SkipWindow, Writable, Busy, Ended, Looping
  <2>2. CASE StartPrediction
    BY <2>2, WindowQuiet DEF StartPrediction, Writable, Busy, Ended, Looping
  <2>3. CASE PredictionArrives
    BY <2>3, WindowQuiet DEF PredictionArrives, Writable, Busy, Ended, Looping
  <2>4. CASE PredictionFails
    BY <2>4, WindowQuiet DEF PredictionFails, Writable, Busy, Ended, Looping
  <2>5. CASE IngestPrediction \/ PredictionRejected
    BY <2>5, WindowQuiet DEF IngestPrediction, PredictionRejected, Rejects, Taken, Writable, Busy, Ended, Looping
  <2>6. CASE IngestFails
    BY <2>6, WindowQuiet DEF IngestFails, Writable, Busy, Ended, Looping
  <2>7. CASE LoseModel
    <3>1. AllSettled'
      BY <2>7, StaysSettled DEF LoseModel, WindowInv, Taken, Busy, sensorVars, flowVars, streamVars
    <3> QED
      BY <2>7, <3>1 DEF LoseModel, WindowInv, StreamPhase, LossIsMarked, Writable, After, sensorVars, streamVars
  <2> QED
    BY <1>6, <2>1, <2>2, <2>3, <2>4, <2>5, <2>6, <2>7 DEF Classify
<1>7. CASE Tick
  <2>1. CASE Export("select", "telemetry") \/ ExportRejected("select", "telemetry")
    BY <2>1, WindowExport
  <2> QED
    BY <1>1, <1>7, <2>1 DEF Tick, ExportFails, Ended
<1>8. CASE Update
  <2>1. CASE Sample
    BY <1>1, <2>1, WindowQuiet DEF Sample, Telemetry, TelemetryFails, Writable, Busy, Ended, Looping
  <2>2. CASE Refresh \/ KeepAssessment
    BY <1>1, <2>2, WindowQuiet DEF Refresh, KeepAssessment, Assess, Writable, Busy, Ended, Looping
  <2> QED
    BY <1>8, <2>1, <2>2 DEF Update
<1>9. CASE Finish
  <2> USE DEF Busy, Ended, After
  <2>1. CASE FinalExport
    <3>1. CASE Export("export", "sample") \/ ExportRejected("export", "sample")
      BY <3>1, WindowExport
    <3> QED
      BY <1>1, <2>1, <3>1 DEF FinalExport, ExportFails
  <2>2. CASE FinalSample
    BY <1>1, <2>2, WindowQuiet DEF FinalSample, Telemetry, TelemetryFails, Writable
  <2>3. CASE Counters
    BY <1>1, <2>3, WindowQuiet DEF Counters, Writable
  <2>4. CASE MarkSensor
    BY <1>1, <2>4, WindowQuiet DEF MarkSensor, Writable
  <2>5. CASE CompleteLive
    BY <2>5, WindowQuiet DEF CompleteLive, Writable
  <2>6. CASE MarkModel
    <3>1. CASE Step("mark", "final")
      <4>1. AllSettled'
        BY <2>6, <3>1, StaysSettled DEF MarkModel, WindowInv, Taken, Busy, sensorVars, flowVars, streamVars, Fail
      <4> QED
        BY <2>6, <3>1, <4>1 DEF MarkModel, WindowInv, StreamPhase, LossIsMarked, Writable, sensorVars, streamVars, Fail
    <3> QED
      BY <1>1, <2>6, <3>1 DEF MarkModel
  <2>7. CASE FinalAssessment
    BY <1>1, <2>7, WindowQuiet DEF FinalAssessment, Assess, Writable
  <2> QED
    BY <1>9, <2>1, <2>2, <2>3, <2>4, <2>5, <2>6, <2>7 DEF Finish
<1>10. CASE Unsubscribe
  <2>1. /\ stream'.items = stream.items /\ stream.state = "open" /\ stream'.state = "closed"
        /\ UNCHANGED <<windows, retained, heard, dropped, liveVars>>
    BY <1>10 DEF Unsubscribe, ClosedStream, flowVars, LiveTypes, NameTypes
  <2> QED
    BY <2>1 DEF WindowInv, StreamPhase, LossIsMarked, AllSettled, Taken, Settled, Writable, liveVars, loopVars
<1>11. CASE CancelInference \/ RevokeRun \/ CancelContext
  BY <1>11, WindowQuiet DEF CancelInference, RevokeRun, CancelContext, Writable, loopVars
<1>12. CASE UNCHANGED vars
  BY <1>12, WindowQuiet DEF vars, liveVars, loopVars, Writable
<1> QED
  BY <1>2, <1>3, <1>4, <1>5, <1>6, <1>7, <1>8, <1>9, <1>10, <1>11, <1>12 DEF Next

\* WindowsAccounted: however slow the loop and small the retention, a live analysis
\* completes only with every published window classified, dropped, evicted or of no
\* encrypted flow, unless the classifier's coverage says UNAVAILABLE.
THEOREM WindowsStayAccounted == Spec => []WindowsAccounted
<1>1. WindowInv => WindowsAccounted
  BY DEF WindowInv, StreamPhase, LossIsMarked, AllSettled, Taken, Settled, WindowsAccounted, Busy
<1> QED
  BY <1>1, LiveTypesAlways, WindowInit, WindowStep, PTL DEF Spec

=============================================================================
