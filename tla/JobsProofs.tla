----------------------------- MODULE JobsProofs -----------------------------
(***************************************************************************)
(* What the work of the server leaves on record: inference jobs            *)
(* (MLJob), the lab's activations and experiments (LabRunner) and reports  *)
(* (Reports), for any number of jobs, windows, workers, files, crashes and *)
(* reports.                                                                *)
(***************************************************************************)
EXTENDS MLJob, LabRunner, Reports, Workspace, FiniteSetTheorems, TLAPS

----------------------------------------------------------------------------
\* Inference jobs: a COMPLETED one is whole.

\* Before the pool starts, and in all that follows, the sets of a job are parts
\* of the windows it found.
Within(j) ==
  /\ predictions[j] \subseteq work[j] /\ queue[j] \subseteq work[j] /\ busy[j] \subseteq work[j]
  /\ pc[j] \in {"none", "inserted", "listing"} => work[j] = {} /\ ~failed[j]

\* Every busy worker is one that has not returned; after wg.Wait none works or
\* can start.
Pool(j) ==
  /\ Cardinality(busy[j]) <= workers[j]
  /\ pc[j] \in {"completing", "returned"} => busy[j] = {} /\ (workers[j] = 0 \/ queue[j] = {})

\* Only a context that is done explains a window that is lost, or a pool that
\* has no worker for the windows there are.
Covered(j) ==
  pc[j] = "working" /\ ~done[j] =>
    /\ work[j] \subseteq predictions[j] \cup busy[j] \cup queue[j]
    /\ work[j] # {} => workers[j] > 0

\* An error and a Cancel end the context.
Ended(j) == failed[j] \/ state[j] = "CANCELLED" => done[j]

\* Where Start is and what the job is.
Stages(j) ==
  /\ pc[j] = "none" => state[j] = "NONE"
  /\ pc[j] \in {"inserted", "listing", "working", "completing"} => state[j] \in {"RUNNING", "CANCELLED"}
  /\ pc[j] = "returned" => state[j] \in {"FAILED", "COMPLETED"}

\* What the last section of Start relies on, and what it leaves.
Whole(j) == pc[j] = "completing" \/ state[j] = "COMPLETED" => predictions[j] = work[j] /\ ~failed[j]

JobInv(j) == Within(j) /\ Pool(j) /\ Covered(j) /\ Ended(j) /\ Stages(j) /\ Whole(j)
JobsInv == JobTypeOK /\ \A j \in Jobs : JobInv(j)

\* Sets of windows are finite, so that they can be counted.
LEMMA WindowSets ==
  ASSUME NEW S \in SUBSET Windows
  PROVE  IsFiniteSet(S) /\ Cardinality(S) \in Nat /\ (S = {} <=> Cardinality(S) = 0)
BY JobConstants, FS_Subset, FS_CardinalityType, FS_EmptySet

LEMMA AddWindow ==
  ASSUME NEW S \in SUBSET Windows, NEW w \in Windows
  PROVE  Cardinality(S \cup {w}) <= Cardinality(S) + 1
<1>1. IsFiniteSet(S) /\ Cardinality(S) \in Nat
  BY WindowSets
<1>2. Cardinality(S \cup {w}) = IF w \in S THEN Cardinality(S) ELSE Cardinality(S) + 1
  BY <1>1, FS_AddElement, Zenon
<1> QED
  BY <1>1, <1>2

LEMMA RemoveWindow ==
  ASSUME NEW S \in SUBSET Windows, NEW w \in S
  PROVE  Cardinality(S \ {w}) = Cardinality(S) - 1 /\ Cardinality(S) > 0
<1>1. IsFiniteSet(S) /\ Cardinality(S) \in Nat /\ Cardinality(S) # 0
  BY WindowSets
<1>2. Cardinality(S \ {w}) = IF w \in S THEN Cardinality(S) - 1 ELSE Cardinality(S)
  BY <1>1, FS_RemoveElement, Zenon
<1> QED
  BY <1>1, <1>2

LEMMA JobsInitInv == JobInit => JobsInv
<1>1. Cardinality({}) = 0
  BY FS_EmptySet
<1> QED
  BY <1>1, JobConstants DEF JobInit, JobsInv, JobTypeOK, JobInv, Within, Pool, Covered, Ended, Stages, Whole

\* The steps of Start outside the pool.
LEMMA StartSteps ==
  ASSUME JobsInv, NEW j \in Jobs, Insert(j) \/ Wire(j) \/ ListFails(j) \/ Settle(j) \/ Complete(j)
  PROVE  JobsInv'
<1> USE JobConstants DEF JobsInv, JobTypeOK, JobInv, Within, Pool, Covered, Ended, Stages, Whole
<1>1. CASE Insert(j)
  BY <1>1 DEF Insert
<1>2. CASE Wire(j)
  BY <1>2 DEF Wire
<1>3. CASE ListFails(j)
  BY <1>3, WindowSets DEF ListFails, Fails
<1>4. CASE Settle(j)
  <2>1. CASE failed[j] \/ (work[j] # {} /\ done[j])
    BY <1>4, <2>1 DEF Settle, Join, Fails
  <2>2. CASE ~(failed[j] \/ (work[j] # {} /\ done[j]))
    <3>1. /\ pc[j] = "working" /\ busy[j] = {}
          /\ workers[j] = 0 \/ queue[j] = {}
          /\ pc' = [pc EXCEPT ![j] = "completing"]
          /\ UNCHANGED <<state, predictions, work, queue, busy, workers, failed, done, known>>
      BY <1>4, <2>2 DEF Settle, Join
    <3>2. work[j] # {} => work[j] \subseteq predictions[j] \cup queue[j] /\ workers[j] > 0
      BY <2>2, <3>1
    <3>3. work[j] \subseteq predictions[j]
      BY <3>1, <3>2
    <3>4. predictions[j] = work[j]
      BY <3>3
    <3> QED
      BY <2>2, <3>1, <3>4
  <2> QED
    BY <2>1, <2>2
<1>5. CASE Complete(j)
  BY <1>5 DEF Complete
<1> QED
  BY <1>1, <1>2, <1>3, <1>4, <1>5

\* The start of the pool.
LEMMA ListSteps ==
  ASSUME JobsInv, NEW j \in Jobs, NEW found \in SUBSET Windows, List(j, found)
  PROVE  JobsInv'
<1>1. Cardinality(found) \in Nat /\ (found = {} <=> Cardinality(found) = 0)
  BY WindowSets
<1>2. workers'[j] \in 0..Workers /\ (found # {} => workers'[j] > 0)
  BY <1>1, JobConstants DEF List, JobsInv, JobTypeOK
<1>3. Cardinality(busy[j]) = 0
  BY FS_EmptySet DEF List, JobsInv, JobInv, Within
<1> QED
  BY <1>2, <1>3, JobConstants DEF List, JobsInv, JobTypeOK, JobInv, Within, Pool, Covered, Ended, Stages, Whole

\* The workers.
LEMMA WorkerSteps ==
  ASSUME JobsInv, NEW j \in Jobs, NEW w \in Windows,
         TakeWindow(j, w) \/ Predicted(j, w) \/ PredictFails(j, w)
  PROVE  JobsInv'
<1> USE JobConstants DEF JobsInv, JobTypeOK, JobInv, Within, Pool, Covered, Ended, Stages, Whole
<1>1. busy[j] \in SUBSET Windows /\ workers[j] \in 0..Workers /\ Cardinality(busy[j]) \in Nat
  BY WindowSets
<1>2. CASE TakeWindow(j, w)
  <2>1. workers[j] > 0 /\ pc[j] = "working"
    BY <1>1, <1>2, WindowSets DEF TakeWindow
  <2>2. Cardinality(busy[j] \cup {w}) \in Nat /\ Cardinality(busy[j] \cup {w}) <= Cardinality(busy[j]) + 1
    BY <1>1, WindowSets, AddWindow
  <2>3. CASE done[j]
    BY <1>1, <1>2, <2>1, <2>3 DEF TakeWindow
  <2>4. CASE ~done[j]
    <3>1. /\ queue' = [queue EXCEPT ![j] = @ \ {w}]
          /\ busy' = [busy EXCEPT ![j] = @ \cup {w}]
          /\ w \in queue[j] /\ Cardinality(busy[j]) < workers[j]
          /\ UNCHANGED <<pc, state, predictions, work, workers, failed, done, known>>
      BY <1>2, <2>4 DEF TakeWindow
    <3>2. JobTypeOK'
      BY <3>1
    <3>3. Cardinality(busy'[j]) <= workers'[j]
      BY <1>1, <2>2, <3>1
    <3>4. JobInv(j)'
      BY <2>1, <3>1, <3>3
    <3>5. ASSUME NEW k \in Jobs, k # j PROVE JobInv(k)'
      BY <3>1, <3>5
    <3> QED
      BY <3>2, <3>4, <3>5
  <2> QED
    BY <2>3, <2>4
<1>3. CASE Predicted(j, w)
  <2>1. pc[j] = "working" /\ Cardinality(busy[j] \ {w}) = Cardinality(busy[j]) - 1
    BY <1>1, <1>3, RemoveWindow DEF Predicted
  <2>2. state[j] = "RUNNING" \/ done[j]
    BY <2>1
  <2>3. CASE state[j] = "RUNNING"
    BY <1>1, <1>3, <2>1, <2>3 DEF Predicted
  <2>4. CASE state[j] # "RUNNING"
    BY <1>1, <1>3, <2>1, <2>2, <2>4 DEF Predicted
  <2> QED
    BY <2>3, <2>4
<1>4. CASE PredictFails(j, w)
  <2>1. /\ pc[j] = "working" /\ workers[j] > 0
        /\ Cardinality(busy[j] \ {w}) = Cardinality(busy[j]) - 1
    BY <1>1, <1>4, RemoveWindow DEF PredictFails
  <2> QED
    BY <1>1, <1>4, <2>1 DEF PredictFails
<1> QED
  BY <1>2, <1>3, <1>4

\* The clients.
LEMMA ClientSteps ==
  ASSUME JobsInv, NEW j \in Jobs, LeaveJob(j) \/ ReadLatest(j) \/ Cancel(j)
  PROVE  JobsInv'
<1> USE JobConstants DEF JobsInv, JobTypeOK, JobInv, Within, Pool, Covered, Ended, Stages, Whole
<1>1. CASE LeaveJob(j)
  BY <1>1 DEF LeaveJob
<1>2. CASE ReadLatest(j)
  BY <1>2 DEF ReadLatest
<1>3. CASE Cancel(j)
  BY <1>3 DEF Cancel
<1> QED
  BY <1>1, <1>2, <1>3

LEMMA JobsInductive == JobsInv /\ [JobNext]_jobVars => JobsInv'
<1> SUFFICES ASSUME JobsInv, [JobNext]_jobVars PROVE JobsInv'
  OBVIOUS
<1>1. CASE UNCHANGED jobVars
  BY <1>1 DEF jobVars, JobsInv, JobTypeOK, JobInv, Within, Pool, Covered, Ended, Stages, Whole
<1>2. CASE JobNext
  <2>1. PICK j \in Jobs : Insert(j) \/ GoesOn(j) \/ LeaveJob(j) \/ ReadLatest(j) \/ Cancel(j)
    BY <1>2 DEF JobNext
  <2>2. CASE GoesOn(j)
    BY <2>2, StartSteps, ListSteps, WorkerSteps DEF GoesOn
  <2> QED
    BY <2>1, <2>2, StartSteps, ClientSteps
<1> QED
  BY <1>1, <1>2

LEMMA JobsInvariance == JobSpec => []JobsInv
BY JobsInitInv, JobsInductive, PTL DEF JobSpec

\* Types; the pool never has more workers than its size, nor less than none.
THEOREM JobTypes == JobSpec => []JobTypeOK
<1>1. JobsInv => JobTypeOK
  BY DEF JobsInv
<1> QED
  BY <1>1, JobsInvariance, PTL

\* A COMPLETED job has predicted every window it found, whatever clients and
\* workers do meanwhile (CompletedIsWhole).
THEOREM JobIsWhole == JobSpec => []CompletedIsWhole
<1>1. JobsInv => CompletedIsWhole
  BY DEF JobsInv, JobInv, Whole, CompletedIsWhole
<1> QED
  BY <1>1, JobsInvariance, PTL

\* A worker's error never ends as COMPLETED (ErrorIsReported).
THEOREM ErrorsAreReported == JobSpec => []ErrorIsReported
<1>1. JobsInv => ErrorIsReported
  BY DEF JobsInv, JobInv, Whole, ErrorIsReported
<1> QED
  BY <1>1, JobsInvariance, PTL

\* The results of a job that is over are those of then (ResultsAreFrozen).
THEOREM ResultsFreeze == JobSpec => ResultsAreFrozen
<1> DEFINE Frozen == \A j \in Jobs : state[j] \notin {"NONE", "RUNNING"} => predictions'[j] = predictions[j]
<1>1. ASSUME JobTypeOK, JobNext PROVE Frozen
  <2>1. PICK j \in Jobs : Insert(j) \/ GoesOn(j) \/ LeaveJob(j) \/ ReadLatest(j) \/ Cancel(j)
    BY <1>1 DEF JobNext
  <2>2. CASE UNCHANGED predictions
    BY <2>2
  <2>3. ASSUME NEW w \in Windows, Predicted(j, w) PROVE Frozen
    BY <1>1, <2>3 DEF Predicted, JobTypeOK
  <2>4. UNCHANGED predictions \/ \E w \in Windows : Predicted(j, w)
    BY <2>1 DEF Insert, GoesOn, LeaveJob, ReadLatest, Cancel, Wire, List, ListFails, TakeWindow,
                PredictFails, Settle, Complete
  <2> QED
    BY <2>2, <2>3, <2>4
<1>2. JobTypeOK /\ [JobNext]_jobVars => [Frozen]_jobVars
  BY <1>1
<1>3. JobsInv => JobTypeOK
  BY DEF JobsInv
<1> QED
  BY <1>2, <1>3, JobsInvariance, PTL DEF JobSpec, ResultsAreFrozen

\* The state of a job tells what its predictions are worth, for good (JobsAreWhole).
THEOREM JobsStayWhole == JobSpec => JobsAreWhole
BY JobIsWhole, ErrorsAreReported, ResultsFreeze, PTL DEF JobsAreWhole

----------------------------------------------------------------------------
\* The lab: its jobs exclude each other and its database stays true to them.

\* A goroutine waits for its script exactly while that is the server's child.
Waiting == \A j \in LabJobs : script[j] = "child" <=> worker[j] = "waiting"

\* What a goroutine at work says of the database: the gateways are READY for an
\* experiment and STARTING for the activation, so that neither can begin.
Working ==
  /\ \A r \in Runs : worker[r] # "none" => run[r] = "RUNNING" /\ runtime = "READY"
  /\ worker[Activation] # "none" => runtime = "STARTING"

\* Start admits one experiment.
OneRunning == \A r, s \in Runs : run[r] = "RUNNING" /\ run[s] = "RUNNING" => r = s

\* After its script an experiment writes nothing; after the index it is complete.
Indexed ==
  /\ \A r \in Runs : worker[r] \in {"succeeded", "indexed"} => script[r] = "none"
  /\ \A r \in Runs : worker[r] = "indexed" => indexed[r] = files[r]

Down == server = "down" => \A j \in LabJobs : worker[j] = "none"

LabInv ==
  /\ LabTypeOK /\ Waiting /\ Working /\ OneRunning /\ Indexed /\ Down
  /\ CompletedIsIndexed /\ RunningIsWorked /\ ReadyIsActivated

LEMMA LabInitInv == LabInit => LabInv
<1> SUFFICES ASSUME LabInit PROVE LabInv
  OBVIOUS
<1>1. LabTypeOK
  <2>1. activated \in BOOLEAN
    BY Zenon DEF LabInit
  <2> QED
    BY <2>1, LabConstants DEF LabInit, LabTypeOK, LabJobs
<1>2. Waiting /\ Working /\ OneRunning /\ Indexed /\ Down
  BY LabConstants DEF LabInit, LabJobs, Waiting, Working, OneRunning, Indexed, Down
<1>3. CompletedIsIndexed /\ RunningIsWorked /\ ReadyIsActivated
  BY LabConstants DEF LabInit, CompletedIsIndexed, RunningIsWorked, ReadyIsActivated
<1> QED
  BY <1>1, <1>2, <1>3 DEF LabInv

\* The requests of clients.
LEMMA RequestSteps ==
  ASSUME LabInv, Activate \/ \E r \in Runs : Start(r)
  PROVE  LabInv'
<1> USE LabConstants DEF LabInv, LabTypeOK, LabJobs, Waiting, Working, OneRunning, Indexed, Down,
        CompletedIsIndexed, RunningIsWorked, ReadyIsActivated
<1>1. CASE Activate
  BY <1>1 DEF Activate
<1>2. ASSUME NEW r \in Runs, Start(r) PROVE LabInv'
  <2>1. worker[Activation] = "none" /\ \A s \in Runs : worker[s] = "none"
    BY <1>2 DEF Start
  <2> QED
    BY <1>2, <2>1 DEF Start
<1> QED
  BY <1>1, <1>2

\* The scripts.
LEMMA ScriptSteps ==
  ASSUME LabInv, NEW j \in LabJobs, Launch(j) \/ Exit(j) \/ Terminate(j)
  PROVE  LabInv'
<1> USE LabConstants DEF LabInv, LabTypeOK, LabJobs, Waiting, Working, OneRunning, Indexed, Down,
        CompletedIsIndexed, RunningIsWorked, ReadyIsActivated
<1>1. CASE Launch(j)
  BY <1>1 DEF Launch
<1>2. CASE Exit(j)
  BY <1>2 DEF Exit
<1>3. CASE Terminate(j)
  BY <1>3 DEF Terminate
<1> QED
  BY <1>1, <1>2, <1>3

LEMMA FileSteps ==
  ASSUME LabInv, NEW r \in Runs, Capture(r) \/ Index(r)
  PROVE  LabInv'
<1> USE LabConstants DEF LabInv, LabTypeOK, LabJobs, Waiting, Working, OneRunning, Indexed, Down,
        CompletedIsIndexed, RunningIsWorked, ReadyIsActivated
<1>1. CASE Capture(r)
  BY <1>1 DEF Capture
<1>2. CASE Index(r)
  BY <1>2 DEF Index
<1> QED
  BY <1>1, <1>2

\* The last UPDATE of a goroutine.
LEMMA RecordSteps ==
  ASSUME LabInv, NEW j \in LabJobs, Record(j)
  PROVE  LabInv'
<1> USE LabConstants DEF LabInv, LabTypeOK, LabJobs, Waiting, Working, OneRunning, Indexed, Down,
        CompletedIsIndexed, RunningIsWorked, ReadyIsActivated
<1>1. CASE unrecorded' = unrecorded \cup {j} /\ UNCHANGED <<runtime, run, activated>>
  BY <1>1 DEF Record
<1> DEFINE Tells == activated' = (activated \/ (j = Activation /\ worker[j] = "succeeded"))
<1>2. CASE j = Activation /\ runtime' = Outcome(j) /\ UNCHANGED <<run, unrecorded>> /\ Tells
  <2>1. activated' \in BOOLEAN
    BY <1>2
  <2>2. activated \/ worker[j] = "succeeded" => activated'
    BY <1>2
  <2>3. /\ server # "down" /\ worker[j] \in {"failed", "succeeded"} /\ worker' = [worker EXCEPT ![j] = "none"]
        /\ runtime' = IF worker[j] = "failed" THEN "FAILED" ELSE "READY"
        /\ UNCHANGED <<server, run, unrecorded, files, indexed, script, crashes>>
    BY <1>2 DEF Record, Outcome
  <2> QED
    BY <1>2, <2>1, <2>2, <2>3
<1>3. CASE j # Activation /\ run' = [run EXCEPT ![j] = Outcome(j)] /\ UNCHANGED <<runtime, unrecorded>> /\ Tells
  <2>1. activated' = activated
    BY <1>3, Zenon
  <2>2. /\ server # "down" /\ worker[j] \in {"failed", "indexed"} /\ worker' = [worker EXCEPT ![j] = "none"]
        /\ run' = [run EXCEPT ![j] = IF worker[j] = "failed" THEN "FAILED" ELSE "COMPLETED"]
        /\ UNCHANGED <<server, runtime, unrecorded, files, indexed, script, crashes>>
    BY <1>3 DEF Record, Outcome
  <2> QED
    BY <1>3, <2>1, <2>2
<1> QED
  BY <1>1, <1>2, <1>3 DEF Record

\* The server.
LEMMA ServerSteps ==
  ASSUME LabInv, Close \/ Closed \/ Crash \/ Restart
  PROVE  LabInv'
<1> USE LabConstants DEF LabInv, LabTypeOK, LabJobs, Waiting, Working, OneRunning, Indexed, Down,
        CompletedIsIndexed, RunningIsWorked, ReadyIsActivated
<1>1. CASE Close
  BY <1>1 DEF Close
<1>2. CASE Closed
  BY <1>2 DEF Closed
<1>3. CASE Crash
  BY <1>3 DEF Crash
<1>4. CASE Restart
  BY <1>4 DEF Restart
<1> QED
  BY <1>1, <1>2, <1>3, <1>4

LEMMA LabInductive == LabInv /\ [LabNext]_labVars => LabInv'
<1> SUFFICES ASSUME LabInv, [LabNext]_labVars PROVE LabInv'
  OBVIOUS
<1>1. CASE UNCHANGED labVars
  BY <1>1 DEF labVars, LabInv, LabTypeOK, Waiting, Working, OneRunning, Indexed, Down,
     CompletedIsIndexed, RunningIsWorked, ReadyIsActivated
<1>2. CASE LabNext
  BY <1>2, RequestSteps, ScriptSteps, FileSteps, RecordSteps, ServerSteps DEF LabNext, Works
<1> QED
  BY <1>1, <1>2

LEMMA LabInvariance == LabSpec => []LabInv
BY LabInitInv, LabInductive, PTL DEF LabSpec

\* Types.
THEOREM LabTypes == LabSpec => []LabTypeOK
<1>1. LabInv => LabTypeOK
  BY DEF LabInv
<1> QED
  BY <1>1, LabInvariance, PTL

\* The jobs that change the shared gateways exclude each other (OneJobAtATime).
THEOREM JobsAreSerialized == LabSpec => []OneJobAtATime
<1>1. LabInv => OneJobAtATime
  <2> SUFFICES ASSUME LabInv, NEW j \in LabJobs, NEW k \in LabJobs, script[j] = "child", script[k] = "child"
               PROVE  j = k
    BY DEF OneJobAtATime
  <2>1. worker[j] # "none" /\ worker[k] # "none"
    BY DEF LabInv, Waiting
  <2> QED
    BY <2>1, LabConstants DEF LabInv, LabJobs, Working, OneRunning
<1> QED
  BY <1>1, LabInvariance, PTL

\* A COMPLETED experiment has all its files in the index (CompletedIsIndexed).
THEOREM ArchiveIsComplete == LabSpec => []CompletedIsIndexed
<1>1. LabInv => CompletedIsIndexed
  BY DEF LabInv
<1> QED
  BY <1>1, LabInvariance, PTL

\* Also across crashes no experiment stays RUNNING that nobody works on, unless
\* the database refused its end (RunningIsWorked).
THEOREM RestartRecovers == LabSpec => []RunningIsWorked
<1>1. LabInv => RunningIsWorked
  BY DEF LabInv
<1> QED
  BY <1>1, LabInvariance, PTL

\* READY never survives a restart (ReadyIsActivated).
THEOREM ActivationIsOwn == LabSpec => []ReadyIsActivated
<1>1. LabInv => ReadyIsActivated
  BY DEF LabInv
<1> QED
  BY <1>1, LabInvariance, PTL

\* A closed server has no script of its own left (ClosedIsQuiet).
THEOREM CloseWaits == LabSpec => []ClosedIsQuiet
<1>1. LabInv => ClosedIsQuiet
  BY DEF LabInv, Waiting, Down, ClosedIsQuiet
<1> QED
  BY <1>1, LabInvariance, PTL

\* The lab is what its database says, across jobs, crashes and restarts (LabIsOrderly).
THEOREM LabStaysOrderly == LabSpec => []LabIsOrderly
BY JobsAreSerialized, ArchiveIsComplete, RestartRecovers, ActivationIsOwn, CloseWaits, PTL
   DEF LabIsOrderly

----------------------------------------------------------------------------
\* Reports: what a report, its artifact and the workspace say of one another.

\* A report has its artifact's identifier from the renderer's last section on,
\* which is also what makes it READY.
Rendered(r) ==
  /\ report[r].state = "READY" => report[r].artifact
  /\ report[r].artifact => renderer[r] = "done"

\* Nobody can name a report before it is bound.
Unbound(r) ==
  /\ renderer[r] = "none" => report[r].state = "NONE"
  /\ renderer[r] = "binding" => report[r].state = "GENERATING"
  /\ renderer[r] \in {"none", "binding"} => shown.report # r /\ deleter[r] = "none"

\* What a Delete under way has read and done.
Deleting(r) ==
  /\ deleter[r] \in {"with", "past"} => report[r].artifact
  /\ deleter[r] = "past" => artifact[r] = "absent"
  /\ deleter[r] = "without" /\ report[r].state = "READY" => r \in overtaken

\* The renderer's artifact is there, or was deleted by itself.
Rendering(r) == renderer[r] \in {"created", "referenced"} => artifact[r] # "absent" \/ r \in removed

Owned(r) ==
  artifact[r] # "absent" =>
    \/ report[r].state = "READY"
    \/ renderer[r] \in {"created", "referenced", "discarding"}
    \/ r \in overtaken \/ r \in late

Openable(r) == report[r].state = "READY" /\ artifact[r] = "absent" => r \in removed \/ deleter[r] = "past"

\* A workspace that has moved on names no report.
Left == ~shown.current => shown.report = NoReport

ReportInv(r) == Rendered(r) /\ Unbound(r) /\ Deleting(r) /\ Rendering(r) /\ Owned(r) /\ Openable(r)
ReportsInv == ReportTypeOK /\ Left /\ WorkspaceShowsState /\ \A r \in Reports : ReportInv(r)

LEMMA ReportsInitInv == ReportInit => ReportsInv
BY ReportConstants DEF ReportInit, ReportsInv, ReportTypeOK, States, Left, WorkspaceShowsState, ReportInv, Rendered, Unbound,
   Deleting, Rendering, Owned, Openable

\* bindWorkspace names the report it is called for, with the state it is called
\* with, or nothing.
LEMMA BoundNames ==
  ASSUME ReportsInv, NEW r \in Reports, NEW status \in States
  PROVE  /\ Bound(r, status) \in [current : BOOLEAN, report : Reports \cup {NoReport}, status : States]
         /\ Bound(r, status).current = shown.current
         /\ Bound(r, status).report \in {r, NoReport}
         /\ Bound(r, status).report = r => Bound(r, status).status = status
         /\ ~shown.current => Bound(r, status).report = NoReport
BY ReportConstants DEF ReportsInv, ReportTypeOK, Bound, Left, States

\* Steps that leave the workspace alone.
LEMMA SilentSteps ==
  ASSUME ReportsInv, NEW r \in Reports,
         Generate(r) \/ Expire(r) \/ CreateArtifact(r) \/ SetReferenced(r) \/ DiscardArtifact(r)
  PROVE  ReportsInv'
<1> USE ReportConstants DEF ReportsInv, ReportTypeOK, States, Left, WorkspaceShowsState, ReportInv, Rendered, Unbound,
        Deleting, Rendering, Owned, Openable
<1>1. CASE Generate(r)
  BY <1>1 DEF Generate
<1>2. CASE Expire(r)
  BY <1>2 DEF Expire
<1>3. CASE CreateArtifact(r)
  BY <1>3 DEF CreateArtifact
<1>4. CASE SetReferenced(r)
  BY <1>4 DEF SetReferenced
<1>5. CASE DiscardArtifact(r)
  <2>1. /\ renderer[r] = "discarding" /\ renderer' = [renderer EXCEPT ![r] = "done"]
        /\ UNCHANGED <<report, late, deleter, cleanup, shown, removed, overtaken>>
    BY <1>5 DEF DiscardArtifact
  <2>2. \/ UNCHANGED artifact /\ (r \in late \/ artifact[r] = "absent")
        \/ artifact' = [artifact EXCEPT ![r] = "absent"]
    BY <1>5 DEF DiscardArtifact, DropArtifact
  <2>3. report[r].state # "READY"
    BY <2>1
  <2>4. CASE UNCHANGED artifact /\ (r \in late \/ artifact[r] = "absent")
    BY <2>1, <2>3, <2>4
  <2>5. CASE artifact' = [artifact EXCEPT ![r] = "absent"]
    BY <2>1, <2>3, <2>5
  <2> QED
    BY <2>2, <2>4, <2>5
<1> QED
  BY <1>1, <1>2, <1>3, <1>4, <1>5

\* Steps that bind a report.
LEMMA BindingSteps ==
  ASSUME ReportsInv, NEW r \in Reports,
         BindGenerating(r) \/ RenderFails(r) \/ Finish(r) \/ MarkDeleted(r)
  PROVE  ReportsInv'
<1> USE ReportConstants DEF ReportsInv, ReportTypeOK, States, Left, WorkspaceShowsState, ReportInv, Rendered, Unbound,
        Deleting, Rendering, Owned, Openable
<1>1. CASE BindGenerating(r)
  BY <1>1, BoundNames DEF BindGenerating
<1>2. CASE RenderFails(r)
  BY <1>2, BoundNames DEF RenderFails
<1>3. CASE Finish(r)
  <2>1. CASE report[r].state = "DELETED"
    BY <1>3, <2>1 DEF Finish
  <2>2. CASE report[r].state # "DELETED"
    <3>1. /\ renderer[r] = "referenced" /\ renderer' = [renderer EXCEPT ![r] = "done"]
          /\ report' = [report EXCEPT ![r] = [state |-> "READY", artifact |-> TRUE]]
          /\ shown' = Bound(r, "READY")
          /\ overtaken' = IF deleter[r] = "without" THEN overtaken \cup {r} ELSE overtaken
          /\ UNCHANGED <<late, deleter, artifact, cleanup, removed>>
      BY <1>3, <2>2 DEF Finish
    <3>2. ReportTypeOK'
      BY <3>1, BoundNames
    <3>3. Left' /\ WorkspaceShowsState'
      BY <3>1, BoundNames
    <3>4. ReportInv(r)'
      BY <3>1
    <3>5. ASSUME NEW q \in Reports, q # r PROVE ReportInv(q)'
      BY <3>1, <3>5, BoundNames
    <3> QED
      BY <3>2, <3>3, <3>4, <3>5
  <2> QED
    BY <2>1, <2>2
<1>4. CASE MarkDeleted(r)
  BY <1>4, BoundNames DEF MarkDeleted
<1> QED
  BY <1>1, <1>2, <1>3, <1>4

\* Deletes.
LEMMA DeletionSteps ==
  ASSUME ReportsInv, NEW r \in Reports,
         DeleteReport(r) \/ DeleteItsArtifact(r) \/ DeleteArtifact(r) \/ CleanOne(r)
  PROVE  ReportsInv'
<1> USE ReportConstants DEF ReportsInv, ReportTypeOK, States, Left, WorkspaceShowsState, ReportInv, Rendered, Unbound,
        Deleting, Rendering, Owned, Openable
<1>1. CASE DeleteReport(r)
  BY <1>1 DEF DeleteReport
<1>2. CASE DeleteItsArtifact(r)
  <2>1. deleter[r] = "with" /\ report[r].artifact /\ renderer[r] = "done"
    BY <1>2 DEF DeleteItsArtifact
  <2>2. UNCHANGED <<report, renderer, late, cleanup, shown, overtaken>>
    BY <1>2 DEF DeleteItsArtifact
  <2>3. CASE artifact' = [artifact EXCEPT ![r] = "absent"] /\ deleter' = [deleter EXCEPT ![r] = "past"] /\ UNCHANGED removed
    BY <2>1, <2>2, <2>3
  <2>4. CASE artifact' = [artifact EXCEPT ![r] = "absent"] /\ deleter' = [deleter EXCEPT ![r] = "none"] /\ removed' = removed \cup {r}
    BY <2>1, <2>2, <2>4
  <2>5. CASE artifact[r] = "absent" /\ deleter' = [deleter EXCEPT ![r] = "none"] /\ UNCHANGED <<artifact, removed>>
    BY <2>1, <2>2, <2>5
  <2> QED
    BY <1>2, <2>3, <2>4, <2>5 DEF DeleteItsArtifact, DropArtifact
<1>3. CASE DeleteArtifact(r)
  BY <1>3 DEF DeleteArtifact, DropArtifact
<1>4. CASE CleanOne(r)
  BY <1>4 DEF CleanOne, DropArtifact
<1> QED
  BY <1>1, <1>2, <1>3, <1>4

\* The start of a cleanup, and the reset of the workspace.
LEMMA OtherSteps ==
  ASSUME ReportsInv, (\E all \in BOOLEAN : StartCleanup(all)) \/ LeaveWorkspace
  PROVE  ReportsInv'
<1> USE ReportConstants DEF ReportsInv, ReportTypeOK, States, Left, WorkspaceShowsState, ReportInv, Rendered, Unbound,
        Deleting, Rendering, Owned, Openable
<1>1. ASSUME NEW all \in BOOLEAN, StartCleanup(all) PROVE ReportsInv'
  BY <1>1 DEF StartCleanup
<1>2. CASE LeaveWorkspace
  BY <1>2 DEF LeaveWorkspace
<1> QED
  BY <1>1, <1>2

LEMMA ReportsInductive == ReportsInv /\ [ReportNext]_reportVars => ReportsInv'
<1> SUFFICES ASSUME ReportsInv, [ReportNext]_reportVars PROVE ReportsInv'
  OBVIOUS
<1>1. CASE UNCHANGED reportVars
  BY <1>1 DEF reportVars, ReportsInv, ReportTypeOK, Left, WorkspaceShowsState, ReportInv, Rendered, Unbound,
     Deleting, Rendering, Owned, Openable
<1>2. ASSUME NEW r \in Reports,
             \/ Generate(r) \/ Render(r) \/ Expire(r)
             \/ DeleteReport(r) \/ DeleteItsArtifact(r) \/ MarkDeleted(r)
             \/ DeleteArtifact(r) \/ CleanOne(r)
      PROVE  ReportsInv'
  BY <1>2, SilentSteps, BindingSteps, DeletionSteps DEF Render
<1> QED
  BY <1>1, <1>2, OtherSteps DEF ReportNext

LEMMA ReportsInvariance == ReportSpec => []ReportsInv
BY ReportsInitInv, ReportsInductive, PTL DEF ReportSpec

\* Types.
THEOREM ReportTypes == ReportSpec => []ReportTypeOK
<1>1. ReportsInv => ReportTypeOK
  BY DEF ReportsInv
<1> QED
  BY <1>1, ReportsInvariance, PTL

\* The workspace never shows a state its report is not in (WorkspaceShowsState).
THEOREM WorkspaceIsTrue == ReportSpec => []WorkspaceShowsState
<1>1. ReportsInv => WorkspaceShowsState
  BY DEF ReportsInv
<1> QED
  BY <1>1, ReportsInvariance, PTL

\* Apart from the two races named there, no artifact is without an owner
\* (ArtifactsAreHeld).
THEOREM ArtifactsHaveOwners == ReportSpec => []ArtifactsAreHeld
<1>1. ReportsInv => ArtifactsAreHeld
  BY DEF ReportsInv, ReportInv, Owned, ArtifactsAreHeld
<1> QED
  BY <1>1, ReportsInvariance, PTL

\* A READY report can be opened (ReadyIsOpenable).
THEOREM ReadyReportsOpen == ReportSpec => []ReadyIsOpenable
<1>1. ReportsInv => ReadyIsOpenable
  BY DEF ReportsInv, ReportInv, Openable, ReadyIsOpenable
<1> QED
  BY <1>1, ReportsInvariance, PTL

\* The renderer does not bring a deleted report back (DeletedStaysUnreadable).
THEOREM DeletedForGood == ReportSpec => DeletedStaysUnreadable
<1> DEFINE Unreadable ==
      \A r \in Reports : report[r].state = "DELETED" => report'[r].state \in {"DELETED", "FAILED"}
<1>1. ASSUME ReportsInv, ReportNext PROVE Unreadable
  <2> USE DEF ReportsInv, ReportTypeOK, ReportInv, Unbound
  <2>1. CASE UNCHANGED report
    BY <2>1
  <2>2. ASSUME NEW r \in Reports, Generate(r) \/ RenderFails(r) \/ Finish(r) \/ MarkDeleted(r) PROVE Unreadable
    <3>1. CASE Generate(r)
      BY <1>1, <3>1 DEF Generate
    <3>2. CASE RenderFails(r)
      BY <1>1, <3>2 DEF RenderFails
    <3>3. CASE Finish(r)
      BY <1>1, <3>3 DEF Finish
    <3>4. CASE MarkDeleted(r)
      BY <1>1, <3>4 DEF MarkDeleted
    <3> QED
      BY <2>2, <3>1, <3>2, <3>3, <3>4
  <2>3. UNCHANGED report \/ \E r \in Reports : Generate(r) \/ RenderFails(r) \/ Finish(r) \/ MarkDeleted(r)
    BY <1>1 DEF ReportNext, Render, BindGenerating, CreateArtifact, SetReferenced, DiscardArtifact, Expire,
                DeleteReport, DeleteItsArtifact, DeleteArtifact, CleanOne, StartCleanup, LeaveWorkspace
  <2> QED
    BY <2>1, <2>2, <2>3
<1>2. ReportsInv /\ [ReportNext]_reportVars => [Unreadable]_reportVars
  BY <1>1
<1> QED
  BY <1>2, ReportsInvariance, PTL DEF ReportSpec, DeletedStaysUnreadable

\* What is said of a report stays true (ReportsKeepFaith).
THEOREM ReportsStayTrue == ReportSpec => ReportsKeepFaith
BY ArtifactsHaveOwners, ReadyReportsOpen, WorkspaceIsTrue, DeletedForGood, PTL DEF ReportsKeepFaith

----------------------------------------------------------------------------
\* The workspace keeps what was bound to it, one call at a time replaces it, and
\* calls with one key get one workspace.

WorkspaceRecords == [id : Nat, state : {"EMPTY", "BOUND", "RESETTING"}, bound : Bindings]
CallPlaces == {"none", "asked", "marking", "cleaning", "making", "made", "storing", "answered", "failed"}
CallRecords == [pc : CallPlaces,
                kind : Kinds, key : Keys \cup {NoKey}, previous : WorkspaceRecords, answer : Nat]
BinderRecords == [pc : {"none", "read", "accepted", "refused"}, read : Nat]

\* The types the argument needs; that no more generations than calls are given
\* out is not among them.
WorkspaceTypes ==
  /\ workspace \in WorkspaceRecords /\ generation \in Nat
  /\ replays \in [Kinds -> [Keys -> Nat]]
  /\ holder \in Calls \cup {NoCall}
  /\ call \in [Calls -> CallRecords]
  /\ binder \in [Binders -> BinderRecords]
  /\ unmade \in BOOLEAN /\ forgotten \in Bindings

\* The mutex is held by the one call that is between Enter and its answer.
Busy == {"marking", "cleaning", "making", "made", "storing"}
Mutex == \A c \in Calls : call[c].pc \in Busy <=> holder = c

\* How the workspace and the last generation relate, by where the call is that
\* replaces it.
Generations ==
  /\ holder = NoCall => workspace.id = generation
  /\ \A c \in Calls :
       /\ call[c].pc \in {"marking", "cleaning", "making"} => workspace.id = generation
       /\ call[c].pc = "made" => call[c].answer = generation /\ generation = workspace.id + 1
       /\ call[c].pc = "storing" => call[c].answer = generation /\ workspace.id = generation /\ generation # 0

\* RESETTING is the mark of a call that is replacing the workspace, or was left
\* by one that could not.
Marks ==
  /\ holder = NoCall => (workspace.state = "RESETTING" => unmade)
  /\ \A c \in Calls :
       /\ call[c].pc \in {"marking", "storing"} => (workspace.state = "RESETTING" => unmade)
       /\ call[c].pc = "cleaning" => (call[c].previous.state = "RESETTING" => unmade)

\* The copy a failed cleanup brings back is the workspace, with fewer bindings.
Copies ==
  \A c \in Calls : call[c].pc = "cleaning" =>
    call[c].previous.id = workspace.id /\ call[c].previous.bound \subseteq workspace.bound

\* No callback has read a workspace that does not exist yet, and what was taken
\* back had been accepted.
Reads ==
  /\ \A b \in Binders : binder[b].read <= workspace.id
  /\ forgotten \subseteq {b \in Binders : binder[b].pc = "accepted"}

\* A workspace is the answer of one key, or of one call without a key; the one
\* that is being made is the answer of nobody.
Answers ==
  /\ \A k1, k2 \in Kinds, x1, x2 \in Keys :
       replays[k1][x1] # 0 /\ replays[k1][x1] = replays[k2][x2] => k1 = k2 /\ x1 = x2
  /\ \A k \in Kinds, x \in Keys : replays[k][x] <= generation
  /\ \A c \in Calls : call[c].pc = "answered" =>
       /\ call[c].answer # 0 /\ call[c].answer <= generation
       /\ call[c].key \in Keys => replays[call[c].kind][call[c].key] = call[c].answer
       /\ call[c].key = NoKey =>
            /\ \A k \in Kinds, x \in Keys : replays[k][x] # call[c].answer
            /\ \A d \in Calls : d # c /\ call[d].pc = "answered" /\ call[d].key = NoKey => call[d].answer # call[c].answer
  /\ \A c \in Calls : call[c].pc \in Busy /\ call[c].key \in Keys => replays[call[c].kind][call[c].key] = 0
  /\ \A c \in Calls : call[c].pc \in {"made", "storing"} =>
       /\ \A k \in Kinds, x \in Keys : replays[k][x] < generation
       /\ \A d \in Calls : call[d].pc = "answered" => call[d].answer < generation

WInv == WorkspaceTypes /\ Mutex /\ Generations /\ Marks /\ Copies /\ Reads /\ BindingsAreOwn /\ Answers

LEMMA WorkspaceInitInv == WorkspaceInit => WInv
<1> SUFFICES ASSUME WorkspaceInit PROVE WInv
  OBVIOUS
<1>1. WorkspaceTypes
  <2>1. Nothing \in WorkspaceRecords
    BY DEF Nothing, WorkspaceRecords, Bindings
  <2>2. \A c \in Calls : call[c] \in CallRecords
    BY <2>1, WorkspaceConstants DEF WorkspaceInit, CallRecords, CallPlaces
  <2> QED
    BY <2>1, <2>2, WorkspaceConstants DEF WorkspaceInit, WorkspaceTypes, BinderRecords, Bindings
<1>2. \A c \in Calls : call[c].pc = "none"
  BY DEF WorkspaceInit
<1>3. /\ holder = NoCall /\ generation = 0 /\ forgotten = {}
      /\ workspace.id = 0 /\ workspace.state = "EMPTY" /\ workspace.bound = {}
      /\ \A b \in Binders : binder[b].pc = "none" /\ binder[b].read = 0
      /\ \A k \in Kinds, x \in Keys : replays[k][x] = 0
  BY DEF WorkspaceInit, Nothing
<1>4. Mutex /\ Generations /\ Marks /\ Copies
  BY <1>2, <1>3, WorkspaceConstants DEF Mutex, Generations, Marks, Copies, Busy
<1>5. Reads /\ BindingsAreOwn
  BY <1>3 DEF Reads, BindingsAreOwn
<1>6. Answers
  BY <1>2, <1>3 DEF Answers, Busy
<1> QED
  BY <1>1, <1>4, <1>5, <1>6 DEF WInv

\* A call moves on: its record has new fields, and no other call's record changes.
LEMMA PcOnly ==
  ASSUME WorkspaceTypes, NEW c \in Calls, NEW p \in CallPlaces,
         call' = [call EXCEPT ![c] = [@ EXCEPT !.pc = p]]
  PROVE  /\ call' \in [Calls -> CallRecords]
         /\ call'[c].pc = p /\ call'[c].kind = call[c].kind /\ call'[c].key = call[c].key
         /\ call'[c].previous = call[c].previous /\ call'[c].answer = call[c].answer
         /\ \A d \in Calls : d # c => call'[d] = call[d]
<1>1. call[c] \in CallRecords
  BY DEF WorkspaceTypes
<1>2. LET w == [call[c] EXCEPT !.pc = p] IN
        /\ w \in CallRecords /\ w.pc = p /\ w.kind = call[c].kind /\ w.key = call[c].key
        /\ w.previous = call[c].previous /\ w.answer = call[c].answer
  BY <1>1 DEF CallRecords, CallPlaces
<1> QED
  BY <1>2 DEF WorkspaceTypes

LEMMA PcAndAnswer ==
  ASSUME WorkspaceTypes, NEW c \in Calls, NEW p \in CallPlaces, NEW n \in Nat,
         call' = [call EXCEPT ![c] = [@ EXCEPT !.pc = p, !.answer = n]]
  PROVE  /\ call' \in [Calls -> CallRecords]
         /\ call'[c].pc = p /\ call'[c].kind = call[c].kind /\ call'[c].key = call[c].key
         /\ call'[c].previous = call[c].previous /\ call'[c].answer = n
         /\ \A d \in Calls : d # c => call'[d] = call[d]
<1>1. call[c] \in CallRecords
  BY DEF WorkspaceTypes
<1>2. LET w == [call[c] EXCEPT !.pc = p, !.answer = n] IN
        /\ w \in CallRecords /\ w.pc = p /\ w.kind = call[c].kind /\ w.key = call[c].key
        /\ w.previous = call[c].previous /\ w.answer = n
  BY <1>1 DEF CallRecords, CallPlaces
<1> QED
  BY <1>2 DEF WorkspaceTypes

LEMMA PcAndPrevious ==
  ASSUME WorkspaceTypes, NEW c \in Calls, NEW p \in CallPlaces, NEW r \in WorkspaceRecords,
         call' = [call EXCEPT ![c] = [@ EXCEPT !.pc = p, !.previous = r]]
  PROVE  /\ call' \in [Calls -> CallRecords]
         /\ call'[c].pc = p /\ call'[c].kind = call[c].kind /\ call'[c].key = call[c].key
         /\ call'[c].previous = r /\ call'[c].answer = call[c].answer
         /\ \A d \in Calls : d # c => call'[d] = call[d]
<1>1. call[c] \in CallRecords
  BY DEF WorkspaceTypes
<1>2. LET w == [call[c] EXCEPT !.pc = p, !.previous = r] IN
        /\ w \in CallRecords /\ w.pc = p /\ w.kind = call[c].kind /\ w.key = call[c].key
        /\ w.previous = r /\ w.answer = call[c].answer
  BY <1>1 DEF CallRecords, CallPlaces
<1> QED
  BY <1>2 DEF WorkspaceTypes

LEMMA AskInv ==
  ASSUME WInv, NEW c \in Calls, NEW kind \in Kinds, NEW key \in Keys \cup {NoKey}, Ask(c, kind, key)
  PROVE  WInv'
<1>1. /\ call[c].pc = "none"
      /\ call' = [call EXCEPT ![c] = [@ EXCEPT !.pc = "asked", !.kind = kind, !.key = key]]
      /\ UNCHANGED <<workspace, generation, replays, holder, binder, unmade, forgotten>>
  BY DEF Ask
<1>2. call[c] \in CallRecords
  BY DEF WInv, WorkspaceTypes
<1>3. /\ [call[c] EXCEPT !.pc = "asked", !.kind = kind, !.key = key] \in CallRecords
      /\ [call[c] EXCEPT !.pc = "asked", !.kind = kind, !.key = key].pc = "asked"
  BY <1>2 DEF CallRecords, CallPlaces
<1>4. /\ call' \in [Calls -> CallRecords] /\ call'[c].pc = "asked"
      /\ \A d \in Calls : d # c => call'[d] = call[d]
  BY <1>1, <1>3 DEF WInv, WorkspaceTypes
<1>5. WorkspaceTypes'
  BY <1>1, <1>4 DEF WInv, WorkspaceTypes
<1>6. Mutex' /\ Generations' /\ Marks' /\ Copies'
  BY <1>1, <1>4 DEF WInv, Mutex, Generations, Marks, Copies, Busy
<1>7. Reads' /\ BindingsAreOwn'
  BY <1>1 DEF WInv, Reads, BindingsAreOwn
<1>8. Answers'
  BY <1>1, <1>4 DEF WInv, Answers, Busy
<1> QED
  BY <1>5, <1>6, <1>7, <1>8 DEF WInv

LEMMA EnterInv ==
  ASSUME WInv, NEW c \in Calls, Enter(c)
  PROVE  WInv'
<1>1. /\ call[c].pc = "asked" /\ holder = NoCall
      /\ UNCHANGED <<workspace, generation, replays, binder, unmade, forgotten>>
  BY DEF Enter
<1>2. call[c] \in CallRecords /\ call[c].kind \in Kinds /\ call[c].key \in Keys \cup {NoKey}
  BY DEF WInv, WorkspaceTypes, CallRecords
<1>3. \A d \in Calls : call[d].pc \notin Busy
  BY <1>1, WorkspaceConstants DEF WInv, Mutex
<1>4. CASE Answered(call[c].kind, call[c].key)
  <2> DEFINE n == replays[call[c].kind][call[c].key]
  <2>1. call[c].key \in Keys /\ n # 0 /\ n \in Nat /\ n <= generation
    BY <1>2, <1>4 DEF Answered, WInv, WorkspaceTypes, Answers
  <2>2. /\ call' = [call EXCEPT ![c] = [@ EXCEPT !.pc = "answered", !.answer = n]] /\ holder' = holder
    BY <1>4 DEF Enter
  <2>3. /\ call' \in [Calls -> CallRecords] /\ call'[c].pc = "answered" /\ call'[c].answer = n
        /\ call'[c].kind = call[c].kind /\ call'[c].key = call[c].key
        /\ \A d \in Calls : d # c => call'[d] = call[d]
    <3> HIDE DEF n
    <3> QED
      BY <1>2, <2>1, <2>2, PcAndAnswer DEF WInv, CallPlaces
  <2>4. WorkspaceTypes'
    BY <1>1, <2>2, <2>3 DEF WInv, WorkspaceTypes
  <2>5. Mutex' /\ Generations' /\ Marks' /\ Copies'
    BY <1>1, <1>3, <2>2, <2>3, WorkspaceConstants DEF WInv, Mutex, Generations, Marks, Copies, Busy
  <2>6. Reads' /\ BindingsAreOwn'
    BY <1>1 DEF WInv, Reads, BindingsAreOwn
  <2>7. Answers'
    BY <1>1, <1>2, <1>3, <2>1, <2>3, WorkspaceConstants DEF WInv, Answers, Busy
  <2> QED
    BY <2>4, <2>5, <2>6, <2>7 DEF WInv
<1>5. CASE ~Answered(call[c].kind, call[c].key)
  <2> DEFINE p == IF workspace.id = 0 THEN "making" ELSE "marking"
  <2>1. call' = [call EXCEPT ![c] = [@ EXCEPT !.pc = p]] /\ holder' = c
    BY <1>5 DEF Enter
  <2>2. /\ call' \in [Calls -> CallRecords] /\ call'[c].pc \in {"making", "marking"}
        /\ call'[c].kind = call[c].kind /\ call'[c].key = call[c].key
        /\ \A d \in Calls : d # c => call'[d] = call[d]
    BY <1>2, <2>1, PcOnly DEF WInv, CallPlaces
  <2>3. WorkspaceTypes'
    BY <1>1, <2>1, <2>2 DEF WInv, WorkspaceTypes
  <2>4. Mutex' /\ Generations' /\ Marks' /\ Copies'
    BY <1>1, <1>3, <2>1, <2>2, WorkspaceConstants DEF WInv, Mutex, Generations, Marks, Copies, Busy
  <2>5. Reads' /\ BindingsAreOwn'
    BY <1>1 DEF WInv, Reads, BindingsAreOwn
  <2>6. call[c].key \in Keys => replays[call[c].kind][call[c].key] = 0
    BY <1>5 DEF Answered
  <2>7. Answers'
    BY <1>1, <1>3, <2>2, <2>6 DEF WInv, Answers, Busy
  <2> QED
    BY <2>3, <2>4, <2>5, <2>7 DEF WInv
<1> QED
  BY <1>4, <1>5

LEMMA MarkInv ==
  ASSUME WInv, NEW c \in Calls, MarkResetting(c)
  PROVE  WInv'
<1> DEFINE p == IF Guarded THEN "cleaning" ELSE "making"
<1>1. /\ call[c].pc = "marking"
      /\ call' = [call EXCEPT ![c] = [@ EXCEPT !.pc = p, !.previous = workspace]]
      /\ workspace' = [workspace EXCEPT !.state = "RESETTING"]
      /\ UNCHANGED <<generation, replays, holder, binder, unmade, forgotten>>
  BY DEF MarkResetting
<1>2. call[c] \in CallRecords /\ workspace \in WorkspaceRecords
  BY DEF WInv, WorkspaceTypes
<1>3. /\ call' \in [Calls -> CallRecords] /\ call'[c].pc \in {"cleaning", "making"} /\ call'[c].previous = workspace
      /\ call'[c].kind = call[c].kind /\ call'[c].key = call[c].key
      /\ \A d \in Calls : d # c => call'[d] = call[d]
  BY <1>1, <1>2, PcAndPrevious, ZenonT(30) DEF WInv, CallPlaces
<1>4. /\ workspace' \in WorkspaceRecords /\ workspace'.id = workspace.id /\ workspace'.bound = workspace.bound
      /\ workspace'.state = "RESETTING"
  BY <1>1, <1>2 DEF WorkspaceRecords
<1>5. holder = c /\ \A d \in Calls : d # c => call[d].pc \notin Busy
  BY <1>1 DEF WInv, Mutex, Busy
<1>6. WorkspaceTypes'
  BY <1>1, <1>3, <1>4 DEF WInv, WorkspaceTypes
<1>7. Mutex' /\ Generations' /\ Marks' /\ Copies'
  BY <1>1, <1>3, <1>4, <1>5, WorkspaceConstants DEF WInv, Mutex, Generations, Marks, Copies, Busy
<1>8. Reads' /\ BindingsAreOwn'
  BY <1>1, <1>4 DEF WInv, Reads, BindingsAreOwn
<1>9. Answers'
  BY <1>1, <1>3, <1>5 DEF WInv, Answers, Busy
<1> QED
  BY <1>6, <1>7, <1>8, <1>9 DEF WInv

LEMMA CleanupInv ==
  ASSUME WInv, NEW c \in Calls, CleanupEnds(c) \/ CleanupFails(c)
  PROVE  WInv'
<1>1. call[c].pc = "cleaning" /\ UNCHANGED <<generation, replays, binder, unmade>>
  BY DEF CleanupEnds, CleanupFails
<1>2. call[c] \in CallRecords /\ call[c].previous \in WorkspaceRecords
  BY DEF WInv, WorkspaceTypes, CallRecords
<1>3. holder = c /\ \A d \in Calls : d # c => call[d].pc \notin Busy
  BY <1>1 DEF WInv, Mutex, Busy
<1>4. CASE CleanupEnds(c)
  <2>1. call' = [call EXCEPT ![c] = [@ EXCEPT !.pc = "making"]] /\ UNCHANGED <<workspace, holder, forgotten>>
    BY <1>4 DEF CleanupEnds
  <2>2. /\ call' \in [Calls -> CallRecords] /\ call'[c].pc = "making"
        /\ call'[c].kind = call[c].kind /\ call'[c].key = call[c].key
        /\ \A d \in Calls : d # c => call'[d] = call[d]
    BY <1>2, <2>1, PcOnly DEF WInv, CallPlaces
  <2>3. WorkspaceTypes'
    BY <1>1, <2>1, <2>2 DEF WInv, WorkspaceTypes
  <2>4. Mutex' /\ Generations' /\ Marks' /\ Copies'
    BY <1>1, <1>3, <2>1, <2>2, WorkspaceConstants DEF WInv, Mutex, Generations, Marks, Copies, Busy
  <2>5. Reads' /\ BindingsAreOwn'
    BY <1>1, <2>1 DEF WInv, Reads, BindingsAreOwn
  <2>6. Answers'
    BY <1>1, <1>3, <2>2 DEF WInv, Answers, Busy
  <2> QED
    BY <2>3, <2>4, <2>5, <2>6 DEF WInv
<1>5. CASE CleanupFails(c)
  <2>1. workspace.id = call[c].previous.id /\ call[c].previous.bound \subseteq workspace.bound
    BY <1>1 DEF WInv, Copies
  <2>2. /\ call' = [call EXCEPT ![c] = [@ EXCEPT !.pc = "failed"]] /\ holder' = NoCall
        /\ workspace' = call[c].previous
        /\ forgotten' = forgotten \cup (workspace.bound \ call[c].previous.bound)
    BY <1>5, <2>1 DEF CleanupFails
  <2>3. /\ call' \in [Calls -> CallRecords] /\ call'[c].pc = "failed"
        /\ \A d \in Calls : d # c => call'[d] = call[d]
    BY <1>2, <2>2, PcOnly DEF WInv, CallPlaces
  <2>4. WorkspaceTypes'
    BY <1>1, <1>2, <2>2, <2>3 DEF WInv, WorkspaceTypes, WorkspaceRecords, Bindings
  <2>5. Mutex' /\ Generations' /\ Marks' /\ Copies'
    BY <1>1, <1>3, <2>1, <2>2, <2>3, WorkspaceConstants DEF WInv, Mutex, Generations, Marks, Copies, Busy
  <2>6. Reads' /\ BindingsAreOwn'
    BY <1>1, <2>1, <2>2 DEF WInv, Reads, BindingsAreOwn
  <2>7. Answers'
    BY <1>1, <1>3, <2>3 DEF WInv, Answers, Busy
  <2> QED
    BY <2>4, <2>5, <2>6, <2>7 DEF WInv
<1> QED
  BY <1>4, <1>5

LEMMA NewEmptyInv ==
  ASSUME WInv, NEW c \in Calls, NewEmpty(c) \/ NewEmptyFails(c)
  PROVE  WInv'
<1>1. call[c].pc = "making" /\ UNCHANGED <<workspace, replays, binder, forgotten>>
  BY DEF NewEmpty, NewEmptyFails
<1>2. call[c] \in CallRecords /\ call[c].kind \in Kinds /\ call[c].key \in Keys \cup {NoKey}
  BY DEF WInv, WorkspaceTypes, CallRecords
<1>3. holder = c /\ workspace.id = generation /\ \A d \in Calls : d # c => call[d].pc \notin Busy
  BY <1>1 DEF WInv, Mutex, Generations, Busy
<1>n. generation \in Nat
  BY DEF WInv, WorkspaceTypes
<1>4. CASE NewEmpty(c)
  <2>1. /\ call' = [call EXCEPT ![c] = [@ EXCEPT !.pc = "made", !.answer = generation + 1]]
        /\ generation' = generation + 1 /\ UNCHANGED <<holder, unmade>>
    BY <1>4 DEF NewEmpty
  <2>2. /\ call' \in [Calls -> CallRecords] /\ call'[c].pc = "made" /\ call'[c].answer = generation + 1
        /\ call'[c].kind = call[c].kind /\ call'[c].key = call[c].key
        /\ \A d \in Calls : d # c => call'[d] = call[d]
    <3> DEFINE n == generation + 1
    <3>1. n \in Nat /\ call' = [call EXCEPT ![c] = [@ EXCEPT !.pc = "made", !.answer = n]]
      BY <1>n, <2>1
    <3> HIDE DEF n
    <3>2. /\ call' \in [Calls -> CallRecords] /\ call'[c].pc = "made" /\ call'[c].answer = n
          /\ call'[c].kind = call[c].kind /\ call'[c].key = call[c].key
          /\ \A d \in Calls : d # c => call'[d] = call[d]
      BY <3>1, PcAndAnswer DEF WInv, CallPlaces
    <3> QED
      BY <3>2 DEF n
  <2>3. WorkspaceTypes'
    BY <1>1, <1>n, <2>1, <2>2 DEF WInv, WorkspaceTypes
  <2>4. Mutex' /\ Generations' /\ Marks' /\ Copies'
    BY <1>1, <1>3, <2>1, <2>2, WorkspaceConstants DEF WInv, Mutex, Generations, Marks, Copies, Busy
  <2>5. Reads' /\ BindingsAreOwn'
    BY <1>1, <2>1 DEF WInv, Reads, BindingsAreOwn
  <2>6. /\ \A k \in Kinds, x \in Keys : replays[k][x] \in Nat /\ replays[k][x] <= generation
        /\ \A d \in Calls : call[d].answer \in Nat
    BY DEF WInv, WorkspaceTypes, CallRecords, Answers
  <2>7. Answers'
    BY <1>1, <1>3, <1>n, <2>1, <2>2, <2>6 DEF WInv, Answers, Busy
  <2> QED
    BY <2>3, <2>4, <2>5, <2>7 DEF WInv
<1>5. CASE NewEmptyFails(c)
  <2>1. /\ call' = [call EXCEPT ![c] = [@ EXCEPT !.pc = "failed"]] /\ holder' = NoCall
        /\ unmade' = (unmade \/ workspace.state = "RESETTING") /\ generation' = generation
    BY <1>5 DEF NewEmptyFails
  <2>2. /\ call' \in [Calls -> CallRecords] /\ call'[c].pc = "failed"
        /\ \A d \in Calls : d # c => call'[d] = call[d]
    BY <1>2, <2>1, PcOnly DEF WInv, CallPlaces
  <2>3. unmade' \in BOOLEAN /\ (workspace.state = "RESETTING" => unmade')
    BY <2>1
  <2>4. WorkspaceTypes'
    BY <1>1, <2>1, <2>2, <2>3 DEF WInv, WorkspaceTypes
  <2>5. Mutex' /\ Generations' /\ Marks' /\ Copies'
    BY <1>1, <1>3, <2>1, <2>2, <2>3, WorkspaceConstants DEF WInv, Mutex, Generations, Marks, Copies, Busy
  <2>6. Reads' /\ BindingsAreOwn'
    BY <1>1 DEF WInv, Reads, BindingsAreOwn
  <2>7. Answers'
    BY <1>1, <1>3, <2>1, <2>2 DEF WInv, Answers, Busy
  <2> QED
    BY <2>4, <2>5, <2>6, <2>7 DEF WInv
<1> QED
  BY <1>4, <1>5

LEMMA ReplaceInv ==
  ASSUME WInv, NEW c \in Calls, Replace(c)
  PROVE  WInv'
<1>1. /\ call[c].pc = "made"
      /\ call' = [call EXCEPT ![c] = [@ EXCEPT !.pc = "storing"]]
      /\ workspace' = [id |-> call[c].answer, state |-> "EMPTY", bound |-> {}]
      /\ unmade' = FALSE
      /\ UNCHANGED <<generation, replays, holder, binder, forgotten>>
  BY DEF Replace
<1>2. call[c] \in CallRecords
  BY DEF WInv, WorkspaceTypes
<1>3. /\ call' \in [Calls -> CallRecords] /\ call'[c].pc = "storing" /\ call'[c].answer = call[c].answer
      /\ call'[c].kind = call[c].kind /\ call'[c].key = call[c].key
      /\ \A d \in Calls : d # c => call'[d] = call[d]
  BY <1>1, <1>2, PcOnly DEF WInv, CallPlaces
<1>4. /\ holder = c /\ call[c].answer = generation /\ generation = workspace.id + 1
      /\ \A d \in Calls : d # c => call[d].pc \notin Busy
  BY <1>1 DEF WInv, Mutex, Generations, Busy
<1>5. WorkspaceTypes'
  <2>1. workspace' \in WorkspaceRecords
    BY <1>1, <1>2 DEF WorkspaceRecords, CallRecords, Bindings
  <2> QED
    BY <1>1, <1>3, <2>1 DEF WInv, WorkspaceTypes
<1>g. generation # 0
  BY <1>4 DEF WInv, WorkspaceTypes, WorkspaceRecords
<1>6. Mutex' /\ Generations' /\ Marks' /\ Copies'
  BY <1>1, <1>3, <1>4, <1>g, WorkspaceConstants DEF WInv, Mutex, Generations, Marks, Copies, Busy
<1>7. workspace.id \in Nat /\ \A b \in Binders : binder[b].read \in Nat /\ binder[b].read <= workspace.id
  BY DEF WInv, WorkspaceTypes, WorkspaceRecords, BinderRecords, Reads
<1>8. Reads' /\ BindingsAreOwn'
  BY <1>1, <1>4, <1>7 DEF WInv, Reads, BindingsAreOwn
<1>9. Answers'
  BY <1>1, <1>3, <1>4 DEF WInv, Answers, Busy
<1> QED
  BY <1>5, <1>6, <1>8, <1>9 DEF WInv

LEMMA StoreReplayInv ==
  ASSUME WInv, NEW c \in Calls, StoreReplay(c)
  PROVE  WInv'
<1> DEFINE k0 == call[c].kind
           x0 == call[c].key
<1>1. /\ call[c].pc = "storing"
      /\ call' = [call EXCEPT ![c] = [@ EXCEPT !.pc = "answered"]] /\ holder' = NoCall
      /\ replays' = IF x0 = NoKey THEN replays ELSE [replays EXCEPT ![k0][x0] = call[c].answer]
      /\ UNCHANGED <<workspace, generation, binder, unmade, forgotten>>
  BY DEF StoreReplay
<1>2. call[c] \in CallRecords /\ k0 \in Kinds /\ x0 \in Keys \cup {NoKey} /\ call[c].answer \in Nat
  BY DEF WInv, WorkspaceTypes, CallRecords
<1>3. /\ call' \in [Calls -> CallRecords] /\ call'[c].pc = "answered" /\ call'[c].answer = call[c].answer
      /\ call'[c].kind = k0 /\ call'[c].key = x0
      /\ \A d \in Calls : d # c => call'[d] = call[d]
  BY <1>1, <1>2, PcOnly DEF WInv, CallPlaces
<1>4. /\ holder = c /\ call[c].answer = generation /\ generation = workspace.id /\ generation # 0
      /\ \A d \in Calls : d # c => call[d].pc \notin Busy
  BY <1>1 DEF WInv, Mutex, Generations, Busy
<1>5. /\ \A k \in Kinds, x \in Keys : replays[k][x] \in Nat /\ replays[k][x] < generation
      /\ \A d \in Calls : call[d].answer \in Nat /\ (call[d].pc = "answered" => call[d].answer < generation)
  BY <1>1 DEF WInv, WorkspaceTypes, CallRecords, Answers
<1>6. /\ replays' \in [Kinds -> [Keys -> Nat]]
      /\ \A k \in Kinds, x \in Keys :
           replays'[k][x] = IF k = k0 /\ x = x0 THEN generation ELSE replays[k][x]
  <2>1. CASE x0 = NoKey
    BY <1>1, <2>1, WorkspaceConstants DEF WInv, WorkspaceTypes
  <2>2. CASE x0 # NoKey
    BY <1>1, <1>2, <1>4, <2>2 DEF WInv, WorkspaceTypes
  <2> QED
    BY <2>1, <2>2
<1>7. WorkspaceTypes'
  BY <1>1, <1>3, <1>6 DEF WInv, WorkspaceTypes
<1>8. Mutex' /\ Generations' /\ Marks' /\ Copies'
  BY <1>1, <1>3, <1>4, WorkspaceConstants DEF WInv, Mutex, Generations, Marks, Copies, Busy
<1>9. Reads' /\ BindingsAreOwn'
  BY <1>1 DEF WInv, Reads, BindingsAreOwn
<1>10. Answers'
  <2>1. \A k1, k2 \in Kinds, x1, x2 \in Keys :
          replays'[k1][x1] # 0 /\ replays'[k1][x1] = replays'[k2][x2] => k1 = k2 /\ x1 = x2
    BY <1>5, <1>6 DEF WInv, Answers
  <2>2. generation \in Nat /\ \A k \in Kinds, x \in Keys : replays'[k][x] <= generation
    BY <1>5, <1>6 DEF WInv, WorkspaceTypes
  <2>3. ASSUME NEW d \in Calls, call'[d].pc = "answered"
        PROVE  /\ call'[d].answer # 0 /\ call'[d].answer <= generation
               /\ call'[d].key \in Keys => replays'[call'[d].kind][call'[d].key] = call'[d].answer
               /\ call'[d].key = NoKey =>
                    /\ \A k \in Kinds, x \in Keys : replays'[k][x] # call'[d].answer
                    /\ \A e \in Calls : e # d /\ call'[e].pc = "answered" /\ call'[e].key = NoKey => call'[e].answer # call'[d].answer
    <3>1. CASE d = c
      BY <1>2, <1>3, <1>4, <1>5, <1>6, <2>2, <2>3, <3>1, WorkspaceConstants
    <3>2. CASE d # c
      <4>1. call'[d] = call[d] /\ call[d].pc = "answered" /\ call[d].kind \in Kinds
        BY <1>3, <2>3, <3>2 DEF WInv, WorkspaceTypes, CallRecords
      <4>2. /\ call[d].answer # 0 /\ call[d].answer < generation
            /\ call[d].key \in Keys => replays[call[d].kind][call[d].key] = call[d].answer
            /\ call[d].key = NoKey =>
                 /\ \A k \in Kinds, x \in Keys : replays[k][x] # call[d].answer
                 /\ \A e \in Calls : e # d /\ call[e].pc = "answered" /\ call[e].key = NoKey => call[e].answer # call[d].answer
        BY <1>5, <4>1 DEF WInv, Answers
      <4>3. x0 \in Keys => replays[k0][x0] = 0
        BY <1>1 DEF WInv, Answers, Busy
      <4>4. call[d].key \in Keys => ~(call[d].kind = k0 /\ call[d].key = x0)
        BY <4>2, <4>3
      <4>5. call[d].key \in Keys => replays'[call[d].kind][call[d].key] = call[d].answer
        BY <1>6, <4>1, <4>2, <4>4
      <4>6. ASSUME call[d].key = NoKey
            PROVE  \A k \in Kinds, x \in Keys : replays'[k][x] # call[d].answer
        BY <1>5, <1>6, <2>2, <4>1, <4>2, <4>6
      <4>7. ASSUME call[d].key = NoKey, NEW e \in Calls, e # d, call'[e].pc = "answered", call'[e].key = NoKey
            PROVE  call'[e].answer # call[d].answer
        BY <1>3, <1>4, <1>5, <2>2, <4>1, <4>2, <4>7
      <4>8. call[d].answer <= generation
        BY <2>2, <4>2, <1>5
      <4> QED
        BY <4>1, <4>2, <4>5, <4>6, <4>7, <4>8, SMTT(30)
    <3> QED
      BY <3>1, <3>2
  <2>4. \A d \in Calls : call'[d].pc \notin Busy
    BY <1>3, <1>4 DEF Busy
  <2>5. generation' = generation /\ \A d \in Calls : call'[d].pc \notin {"made", "storing"}
    BY <1>1, <2>4 DEF Busy
  <2> QED
    BY <2>1, <2>2, <2>3, <2>4, <2>5 DEF Answers
<1> QED
  BY <1>7, <1>8, <1>9, <1>10 DEF WInv

LEMMA BinderInv ==
  ASSUME WInv, NEW b \in Binders, ReadCurrent(b) \/ UpdateIfCurrent(b)
  PROVE  WInv'
<1>1. UNCHANGED <<generation, replays, holder, call, unmade, forgotten>>
  BY DEF ReadCurrent, UpdateIfCurrent
<1>2. binder[b] \in BinderRecords /\ workspace \in WorkspaceRecords
  BY DEF WInv, WorkspaceTypes
<1>3. CASE ReadCurrent(b)
  <2>1. /\ binder[b].pc = "none" /\ workspace' = workspace
        /\ binder' = [binder EXCEPT ![b] = [pc |-> "read", read |-> workspace.id]]
    BY <1>3 DEF ReadCurrent
  <2>2. /\ binder' \in [Binders -> BinderRecords] /\ binder'[b].pc = "read" /\ binder'[b].read = workspace.id
        /\ \A d \in Binders : d # b => binder'[d] = binder[d]
    BY <1>2, <2>1 DEF WInv, WorkspaceTypes, BinderRecords, WorkspaceRecords
  <2>3. WorkspaceTypes'
    BY <1>1, <2>1, <2>2 DEF WInv, WorkspaceTypes
  <2>4. Mutex' /\ Generations' /\ Marks' /\ Copies' /\ Answers'
    BY <1>1, <2>1 DEF WInv, Mutex, Generations, Marks, Copies, Answers, Busy
  <2>5. \A d \in Binders : (binder'[d].pc = "accepted" <=> binder[d].pc = "accepted")
                           /\ (binder[d].pc = "accepted" => binder'[d].read = binder[d].read)
    BY <2>1, <2>2
  <2>6. workspace.id \in Nat
    BY <1>2 DEF WorkspaceRecords
  <2>7. Reads'
    BY <1>1, <2>1, <2>2, <2>5, <2>6 DEF WInv, Reads
  <2>8. BindingsAreOwn'
    BY <1>1, <2>1, <2>5 DEF WInv, BindingsAreOwn
  <2> QED
    BY <2>3, <2>4, <2>7, <2>8 DEF WInv
<1>4. CASE UpdateIfCurrent(b) /\ workspace.id = binder[b].read
  <2>1. /\ binder[b].pc = "read"
        /\ binder' = [binder EXCEPT ![b].pc = "accepted"]
        /\ workspace' = [workspace EXCEPT !.state = "BOUND", !.bound = @ \cup {b}]
    BY <1>4 DEF UpdateIfCurrent
  <2>2. /\ binder' \in [Binders -> BinderRecords] /\ binder'[b].pc = "accepted" /\ binder'[b].read = binder[b].read
        /\ \A d \in Binders : d # b => binder'[d] = binder[d]
    BY <1>2, <2>1 DEF WInv, WorkspaceTypes, BinderRecords
  <2>3. /\ workspace' \in WorkspaceRecords /\ workspace'.id = workspace.id /\ workspace'.state = "BOUND"
        /\ workspace'.bound = workspace.bound \cup {b}
    BY <1>2, <2>1 DEF WorkspaceRecords, Bindings
  <2>4. WorkspaceTypes'
    BY <1>1, <2>2, <2>3 DEF WInv, WorkspaceTypes
  <2>5. Mutex' /\ Generations' /\ Marks' /\ Copies' /\ Answers'
    BY <1>1, <2>3 DEF WInv, Mutex, Generations, Marks, Copies, Answers, Busy
  <2>6. b \notin forgotten
    BY <2>1 DEF WInv, Reads
  <2>7. Reads'
    BY <1>1, <2>2, <2>3 DEF WInv, Reads
  <2>8. BindingsAreOwn'
    BY <1>1, <1>4, <2>1, <2>2, <2>3, <2>6 DEF WInv, BindingsAreOwn
  <2> QED
    BY <2>4, <2>5, <2>7, <2>8 DEF WInv
<1>5. CASE UpdateIfCurrent(b) /\ workspace.id # binder[b].read
  <2>1. /\ binder[b].pc = "read" /\ workspace' = workspace
        /\ binder' = [binder EXCEPT ![b].pc = "refused"]
    BY <1>5 DEF UpdateIfCurrent
  <2>2. /\ binder' \in [Binders -> BinderRecords] /\ binder'[b].pc = "refused" /\ binder'[b].read = binder[b].read
        /\ \A d \in Binders : d # b => binder'[d] = binder[d]
    BY <1>2, <2>1 DEF WInv, WorkspaceTypes, BinderRecords
  <2>3. WorkspaceTypes'
    BY <1>1, <2>1, <2>2 DEF WInv, WorkspaceTypes
  <2>4. Mutex' /\ Generations' /\ Marks' /\ Copies' /\ Answers'
    BY <1>1, <2>1 DEF WInv, Mutex, Generations, Marks, Copies, Answers, Busy
  <2>5. Reads' /\ BindingsAreOwn'
    BY <1>1, <2>1, <2>2 DEF WInv, Reads, BindingsAreOwn
  <2> QED
    BY <2>3, <2>4, <2>5 DEF WInv
<1> QED
  BY <1>3, <1>4, <1>5

LEMMA WorkspaceStep == WInv /\ [WorkspaceNext]_workspaceVars => WInv'
<1> SUFFICES ASSUME WInv, [WorkspaceNext]_workspaceVars PROVE WInv'
  OBVIOUS
<1>1. ASSUME NEW c \in Calls, Proceeds(c)
      PROVE  WInv'
  BY <1>1, EnterInv, MarkInv, CleanupInv, NewEmptyInv, ReplaceInv, StoreReplayInv DEF Proceeds
<1>2. ASSUME NEW c \in Calls, NEW kind \in Kinds, NEW key \in Keys \cup {NoKey}, Ask(c, kind, key)
      PROVE  WInv'
  BY <1>2, AskInv
<1>3. ASSUME NEW b \in Binders, ReadCurrent(b) \/ UpdateIfCurrent(b)
      PROVE  WInv'
  BY <1>3, BinderInv
<1>4. CASE UNCHANGED workspaceVars
  BY <1>4 DEF workspaceVars, WInv, WorkspaceTypes, Mutex, Generations, Marks, Copies, Reads, BindingsAreOwn, Answers
<1> QED
  BY <1>1, <1>2, <1>3, <1>4 DEF WorkspaceNext

\* The inductive invariant holds throughout: one call has the mutex, and the
\* generations, marks, copies and answers are as its progress says.
THEOREM WorkspaceInvariant == WorkspaceSpec => []WInv
<1> QED
  BY WorkspaceInitInv, WorkspaceStep, PTL DEF WorkspaceSpec

\* A workspace holds exactly what UpdateIfCurrent accepted for it, but for what a
\* failed cleanup took back.
THEOREM BindingsStay == WorkspaceSpec => []BindingsAreOwn
<1>1. WInv => BindingsAreOwn
  BY DEF WInv
<1> QED
  BY <1>1, WorkspaceInvariant, PTL

\* While no call has operationMu the workspace is the newest, and RESETTING only
\* where newEmpty failed.
THEOREM NewestStays == WorkspaceSpec => []NewestIsCurrent
<1>1. WInv => NewestIsCurrent
  BY DEF WInv, Generations, Marks, NewestIsCurrent
<1> QED
  BY <1>1, WorkspaceInvariant, PTL

\* Calls with one idempotency key are answered with one workspace, and others
\* with different ones.
THEOREM KeysAreAnswers == WorkspaceSpec => []OneWorkspacePerKey
<1>1. WInv => OneWorkspacePerKey
  <2> SUFFICES ASSUME WInv, NEW c \in Calls, NEW d \in Calls, c # d, call[c].pc = "answered", call[d].pc = "answered"
               PROVE  call[c].answer = call[d].answer <=>
                        call[c].key # NoKey /\ call[c].key = call[d].key /\ call[c].kind = call[d].kind
    BY DEF OneWorkspacePerKey
  <2>1. /\ call[c].kind \in Kinds /\ call[c].key \in Keys \cup {NoKey}
        /\ call[d].kind \in Kinds /\ call[d].key \in Keys \cup {NoKey}
    BY DEF WInv, WorkspaceTypes, CallRecords
  <2>2. CASE call[c].key = NoKey \/ call[d].key = NoKey
    BY <2>1, <2>2 DEF WInv, Answers
  <2>3. CASE call[c].key # NoKey /\ call[d].key # NoKey
    BY <2>1, <2>3 DEF WInv, Answers
  <2> QED
    BY <2>2, <2>3
<1> QED
  BY <1>1, WorkspaceInvariant, PTL

\* Every call gets its own workspace, and every workspace its own bindings
\* (WorkspaceIsOwn).
THEOREM WorkspaceStaysOwn == WorkspaceSpec => []WorkspaceIsOwn
BY BindingsStay, KeysAreAnswers, NewestStays, PTL DEF WorkspaceIsOwn

\* No more generations than calls that made one; whatever names a generation
\* names one that was given out.
Makers == {c \in Calls : call[c].pc \in {"made", "storing", "answered"}}
Counted ==
  /\ generation <= Cardinality(Makers)
  /\ \A c \in Calls : call[c].answer <= generation /\ call[c].previous.id <= generation

LEMMA MakersCount ==
  ASSUME NEW S \in SUBSET Calls, NEW T \in SUBSET Calls, S \subseteq T
  PROVE  /\ Cardinality(S) \in Nat /\ Cardinality(T) \in Nat /\ Cardinality(S) <= Cardinality(T)
         /\ (\E c \in T : c \notin S) => Cardinality(S) + 1 <= Cardinality(T)
<1>1. IsFiniteSet(S) /\ IsFiniteSet(T)
  BY WorkspaceConstants, FS_Subset
<1>2. Cardinality(S) \in Nat /\ Cardinality(T) \in Nat /\ Cardinality(S) <= Cardinality(T)
  BY <1>1, FS_CardinalityType, FS_Subset
<1>3. ASSUME NEW c \in T, c \notin S
      PROVE  Cardinality(S) + 1 <= Cardinality(T)
  <2>1. Cardinality(S \cup {c}) = Cardinality(S) + 1
    BY <1>1, <1>3, FS_AddElement, Zenon
  <2>2. S \cup {c} \subseteq T
    BY <1>3
  <2>3. Cardinality(S \cup {c}) <= Cardinality(T)
    BY <1>1, <2>2, FS_Subset
  <2> QED
    BY <2>1, <2>3
<1> QED
  BY <1>2, <1>3

\* The workspace is of a generation that was given out.
LEMMA CurrentWasGiven ==
  ASSUME WInv
  PROVE  workspace.id \in Nat /\ generation \in Nat /\ workspace.id <= generation
<1>1. workspace.id \in Nat /\ generation \in Nat /\ holder \in Calls \cup {NoCall}
  BY DEF WInv, WorkspaceTypes, WorkspaceRecords
<1>2. CASE holder = NoCall
  BY <1>1, <1>2 DEF WInv, Generations
<1>3. CASE holder \in Calls
  <2>1. call[holder].pc \in Busy
    BY <1>3 DEF WInv, Mutex
  <2> QED
    BY <1>1, <1>3, <2>1 DEF WInv, Generations, Busy
<1> QED
  BY <1>1, <1>2, <1>3

\* A step that gives out no generation.
GivesNone ==
  /\ generation' = generation
  /\ \A c \in Calls :
       /\ call[c].pc \in {"made", "storing", "answered"} => call'[c].pc \in {"made", "storing", "answered"}
       /\ call'[c].answer = call[c].answer \/ call'[c].answer <= generation
       /\ call'[c].previous = call[c].previous \/ call'[c].previous = workspace

LEMMA NoneMade ==
  ASSUME WInv, WInv', Counted, GivesNone
  PROVE  Counted'
<1>1. Makers \in SUBSET Calls /\ Makers' \in SUBSET Calls /\ Makers \subseteq Makers'
  BY DEF Makers, GivesNone
<1>2. Cardinality(Makers) \in Nat /\ Cardinality(Makers') \in Nat /\ Cardinality(Makers) <= Cardinality(Makers')
  BY <1>1, MakersCount
<1>3. workspace.id <= generation /\ generation \in Nat
  BY CurrentWasGiven
<1> QED
  BY <1>2, <1>3 DEF Counted, GivesNone

LEMMA CountedStep ==
  ASSUME WInv, WInv', Counted, [WorkspaceNext]_workspaceVars
  PROVE  Counted'
<1>0. /\ call \in [Calls -> CallRecords] /\ generation \in Nat
      /\ \A c \in Calls : call[c] \in CallRecords /\ call[c].answer \in Nat
  BY DEF WInv, WorkspaceTypes, CallRecords
<1>1. ASSUME NEW c \in Calls, NEW kind, NEW key, Ask(c, kind, key)
      PROVE  GivesNone
  BY <1>0, <1>1 DEF Ask, CallRecords, GivesNone
<1>2. ASSUME NEW c \in Calls, Enter(c)
      PROVE  GivesNone
  <2>1. CASE Answered(call[c].kind, call[c].key)
    <3>1. replays[call[c].kind][call[c].key] <= generation
      BY <1>0, <2>1 DEF WInv, Answers, Answered, CallRecords
    <3> DEFINE a == replays[call[c].kind][call[c].key]
    <3>2. /\ call' = [call EXCEPT ![c] = [@ EXCEPT !.pc = "answered", !.answer = a]]
          /\ generation' = generation /\ a <= generation
      BY <1>2, <2>1, <3>1 DEF Enter
    <3> HIDE DEF a
    <3>3. /\ call'[c].pc = "answered" /\ call'[c].answer = a /\ call'[c].previous = call[c].previous
          /\ \A d \in Calls \ {c} : call'[d] = call[d]
      BY <1>0, <3>2 DEF CallRecords
    <3> QED
      BY <3>2, <3>3 DEF GivesNone
  <2>2. CASE ~Answered(call[c].kind, call[c].key)
    BY <1>0, <1>2, <2>2 DEF Enter, CallRecords, GivesNone
  <2> QED
    BY <2>1, <2>2
<1>3. ASSUME NEW c \in Calls, MarkResetting(c)
      PROVE  GivesNone
  BY <1>0, <1>3 DEF MarkResetting, CallRecords, GivesNone
<1>4. ASSUME NEW c \in Calls, CleanupEnds(c) \/ CleanupFails(c) \/ NewEmptyFails(c) \/ Replace(c) \/ StoreReplay(c)
      PROVE  GivesNone
  <2>1. PICK p \in CallPlaces : call' = [call EXCEPT ![c].pc = p] /\ generation' = generation
                                /\ (call[c].pc \in {"made", "storing", "answered"} => p \in {"made", "storing", "answered"})
    BY <1>4 DEF CleanupEnds, CleanupFails, NewEmptyFails, Replace, StoreReplay, CallPlaces
  <2> QED
    BY <1>0, <2>1 DEF CallRecords, GivesNone
<1>5. ASSUME NEW c \in Calls, NewEmpty(c)
      PROVE  Counted'
  <2>1. /\ call[c].pc = "making" /\ generation' = generation + 1
        /\ call' = [call EXCEPT ![c] = [@ EXCEPT !.pc = "made", !.answer = generation + 1]]
    BY <1>5 DEF NewEmpty
  <2>2. /\ call'[c].pc = "made" /\ call'[c].answer = generation + 1 /\ call'[c].previous = call[c].previous
        /\ \A d \in Calls \ {c} : call'[d] = call[d]
    BY <1>0, <2>1 DEF CallRecords
  <2>3. Makers \in SUBSET Calls /\ Makers' \in SUBSET Calls /\ Makers \subseteq Makers' /\ c \in Makers' /\ c \notin Makers
    BY <2>1, <2>2 DEF Makers
  <2>4. Cardinality(Makers) \in Nat /\ Cardinality(Makers') \in Nat /\ Cardinality(Makers) + 1 <= Cardinality(Makers')
    BY <2>3, MakersCount
  <2>5. \A d \in Calls : call[d].previous.id \in Nat
    BY <1>0 DEF CallRecords, WorkspaceRecords
  <2> QED
    BY <1>0, <2>1, <2>2, <2>4, <2>5 DEF Counted
<1>6. ASSUME NEW b \in Binders, ReadCurrent(b) \/ UpdateIfCurrent(b)
      PROVE  GivesNone
  BY <1>6 DEF ReadCurrent, UpdateIfCurrent, GivesNone
<1>7. ASSUME UNCHANGED workspaceVars
      PROVE  GivesNone
  BY <1>7 DEF workspaceVars, GivesNone
<1> QED
  BY <1>1, <1>2, <1>3, <1>4, <1>5, <1>6, <1>7, NoneMade DEF WorkspaceNext, Proceeds

\* Types: in particular no more generations are given out than there are calls,
\* and nothing names one that was not.
THEOREM WorkspaceTypesHold == WorkspaceSpec => []WorkspaceTypeOK
<1>1. WorkspaceInit => Counted
  <2>1. Makers \in SUBSET Calls
    BY DEF Makers
  <2>2. Cardinality(Makers) \in Nat
    BY <2>1, MakersCount
  <2> QED
    BY <2>2 DEF WorkspaceInit, Counted, Nothing
<1>2. WInv /\ WInv' /\ Counted /\ [WorkspaceNext]_workspaceVars => Counted'
  BY CountedStep
<1>3. WInv /\ Counted => WorkspaceTypeOK
  <2> SUFFICES ASSUME WInv, Counted PROVE WorkspaceTypeOK
    OBVIOUS
  <2>1. generation \in Nat /\ generation <= Cardinality(Calls) /\ Cardinality(Calls) \in Nat
    <3>1. Makers \in SUBSET Calls /\ Calls \in SUBSET Calls /\ Makers \subseteq Calls
      BY DEF Makers
    <3>2. Cardinality(Makers) \in Nat /\ Cardinality(Calls) \in Nat /\ Cardinality(Makers) <= Cardinality(Calls)
      BY <3>1, MakersCount
    <3> QED
      BY <3>2, CurrentWasGiven DEF Counted
  <2>2. \A n \in Nat : n <= generation => n \in Ids
    BY <2>1 DEF Ids
  <2>3. generation \in Ids /\ workspace.id \in Ids
    BY <2>1, <2>2, CurrentWasGiven
  <2>4. workspace \in Records
    BY <2>3 DEF WInv, WorkspaceTypes, WorkspaceRecords, Records
  <2>5. replays \in [Kinds -> [Keys -> Ids]]
    BY <2>2 DEF WInv, WorkspaceTypes, Answers
  <2>6. ASSUME NEW c \in Calls
        PROVE  call[c] \in [pc : {"none", "asked", "marking", "cleaning", "making", "made", "storing", "answered", "failed"},
                            kind : Kinds, key : Keys \cup {NoKey}, previous : Records, answer : Ids]
    <3>1. call[c] \in CallRecords
      BY DEF WInv, WorkspaceTypes
    <3>2. call[c].answer \in Ids /\ call[c].previous.id \in Ids
      BY <2>2, <3>1 DEF Counted, CallRecords, WorkspaceRecords
    <3>3. call[c].previous \in Records
      BY <3>1, <3>2 DEF CallRecords, WorkspaceRecords, Records
    <3> QED
      BY <3>1, <3>2, <3>3 DEF CallRecords, CallPlaces
  <2>7. ASSUME NEW b \in Binders
        PROVE  binder[b] \in [pc : {"none", "read", "accepted", "refused"}, read : Ids]
    <3>1. binder[b] \in BinderRecords /\ binder[b].read <= workspace.id
      BY DEF WInv, WorkspaceTypes, Reads
    <3>2. binder[b].read \in Ids
      BY <2>2, <3>1, CurrentWasGiven DEF BinderRecords
    <3> QED
      BY <3>1, <3>2 DEF BinderRecords
  <2> QED
    BY <2>3, <2>4, <2>5, <2>6, <2>7 DEF WInv, WorkspaceTypes, WorkspaceTypeOK
<1> QED
  BY <1>1, <1>2, <1>3, WorkspaceInvariant, PTL DEF WorkspaceSpec
=============================================================================
