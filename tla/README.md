# Alchemist backend: a TLA+ model

This directory holds a TLA+ model of the Go backend of *Alchemist* (`src/backend/src`),
the program that captures or reads IPsec traffic, extracts protocol evidence from it,
classifies the encrypted flows with a machine-learning worker, fuses the evidence of
several sources and assesses the security of the result. It says what the concurrent
parts of the backend do, checks that on small instances with TLC, and proves the most
important facts for every instance with TLAPS.

All paths below are relative to `src/backend/src/internal` unless they start with `src/`.

1. [The system](#1-the-system)
2. [The plan](#2-the-plan)
3. [The modules](#3-the-modules)
4. [The runs](#4-the-runs)
5. [Fairness](#5-fairness)
6. [The proofs](#6-the-proofs)
7. [Where code and text disagree](#7-where-code-and-text-disagree)
8. [What is not modelled](#8-what-is-not-modelled)

## 1. The system

### Components

| Component | Files | State | Operations |
|---|---|---|---|
| Analysis service | `core/analysis/service.go` | records, cancel functions | Start, Cancel, Retry, execute, fail, advance, snapshot |
| Analysis pipeline | `core/analysis/pipeline.go` | none of its own | Run (offline), runLive, telemetry, evidence export |
| Workspace | `core/workspace/service.go` | the current workspace, generation, idempotency replays | Create, Reset, UpdateIfCurrent, cleanup |
| Input | `core/input/service.go` | sources, uploads, PCAP parsing | uploads, StartLive, StopLive, Reset, Remove |
| Core events | `core/events/service.go` | subscriber channels, sequence | Publish, Subscribe, cancel |
| Artifacts and reports | `core/artifact/service.go`, `core/report/` | file records, reports | Create, Delete, Cleanup, Open; render, Delete |
| ML jobs | `core/ml/service.go` | jobs, predictions | Start, Cancel, BeginLive, PredictLiveWindow, CompleteLive |
| Security, risk | `core/security/`, `core/risk/`, `security/` | assessments, scores | Run, Reevaluate, Score |
| Sensor sessions | `sensor/session/service.go` | one state per session | Create, BeginCapture, Stop, Reset |
| Capture | `sensor/capture/` | the active capture, tcpdump process | Start, await, Stop, Status, Reset |
| Flows | `sensor/flow/service.go` | flows, pending and final windows, subscribers | ObservePacket, closeSession, Subscribe, publish |
| Observations | `sensor/observation/service.go` | a bounded packet log per session | Observe, ListSince, Reset |
| Fusion store | `fusion/store/memory.go` | runs: state, coverage, evidence, groups, conflicts, conclusions | Get, Update, AddEvidence, RemoveEvidence, Replace... |
| Fusion sessions | `fusion/session/service.go` | through the store | Create, Finalize, Cancel, Reset |
| Fusion ingest | `fusion/ingest/service.go` | through the store | Add, AddBatch, MarkSource..., Remove |
| Fusion engine | `fusion/engine/`, `correlation/`, `conflict/`, `decision/` | through the store | Run, Recompute, Schedule |
| Fusion events | `fusion/event/service.go`, `transport/grpc/core/event_handler.go` | history, subscribers | Publish, Subscribe with replay, the handler that joins both streams |
| Fusion decision | `fusion/decision/`, `fusion/confidence/`, `fusion/policy/` | none | Select, Calculate |
| Runtime configuration | `core/runtimeconfig/service.go` | revision, values, listeners | Update, Subscribe |
| Lab runner | `lab/service.go` | experiments and runs in SQLite, scripts | Activate, Start, Close, restart recovery |
| Transport | `src/backend/src/cmd/server/`, `transport/grpc/` | none | wiring, HTTP and gRPC handlers; startLiveCapture and uploadPCAP call several services in turn |

`PROJECT.json` lists every component with its status, including the ones outside Go
(the Python classifier and the web frontend).

### Interaction

* A client starts a **capture**: `Input.StartLive` creates a sensor session and starts
  tcpdump through `capture.Start`. A reader goroutine decodes packets and hands each to the
  observation log and then to the flow service, which cuts flows into windows and
  publishes the identifiers of completed windows to subscribers. A second goroutine
  awaits the end of the process.
* A client starts an **analysis**: `analysis.Start` creates a fusion run, inserts the
  record, binds the workspace and launches `execute` in a goroutine. The pipeline exports
  sensor data as evidence through `ingest`, calls the classifier, runs fusion and then the
  security assessment, and publishes core events. For a source that is still capturing it
  enters `runLive`, a select loop over the context, the window subscription and a ticker.
* **Fusion** is driven from both sides: ingestion computes after every batch
  (`Schedule`, incremental), clients call `Run` and `Recompute`. The engine's mutex
  serialises computations; ingestion and session calls interleave with them store call by
  store call.
* **Stops** travel the other way: `StopSession` runs hooks that stop the capture, finalise
  the pending windows, publish them and close the subscriptions, which ends `runLive`.
* **Cancels** revoke the fusion run first, and then cancel the context of the worker.

### What is hard

Nothing in the backend holds one lock over a whole operation. Every handler reads under
one lock, works without it and writes under another, so the questions are always of the
kind *what may another thread do in between*:

| Component | Hard behaviour | What makes it correct |
|---|---|---|
| Analysis | Cancel in three sections against a worker of twenty steps; a Cancel before the cancel function exists; errors that are ignored | no record is abandoned in RUNNING; a cancelled analysis has a closed run and gains nothing; COMPLETED means assessed |
| Capture | two Stops of one capture; a process that ends by itself while it is stopped; a caller whose context ends while it waits; a reset of a live record | the slot is taken exactly while a record is live; a verdict is final; every stopped process goes away; no live record is forgotten |
| Sessions | hooks that run unlocked between reading and writing the state | an ended session never captures again; data is kept until a reset |
| Fusion store | in-place updates of shared maps; clones made outside the lock | committed updates survive; clones are private |
| Fusion run | a computation over stale clones of the run while evidence comes and goes, cut off anywhere | nothing refers to removed evidence; increments end where one full computation ends; a closed run is frozen |
| Live analysis | a bounded log, a bounded stream and bounded retention against a slow reader; a classifier that fails; a client that cancels the job | no packet and no window is lost without a trace; every accepted item is assessed; it ends |

| Events | one handler over two subscriptions; replay beside Publish; slow readers that are closed or lose events | no gap and no duplicate; a loss is known; nobody waits under the lock |
| Reports | a rendering goroutine with a deadline against Delete and Cleanup | an artifact has an owner; a READY report opens; DELETED is for good |
| Inference jobs | a pool of workers, their errors, Cancel and a leaving client | COMPLETED means every window; an error is not lost |
| Lab | a database and scripts that outlive the server | one job at a time; nothing RUNNING without a goroutine |
| Sources | chunks again, too early or half written; StopLive against Remove | a source is exactly what was sent; no file without an owner |
| Workspace | a cleanup that fails after bindings came in; requests sent again | a workspace has its own bindings; one workspace per key |
| Assessment | evaluations that overlap; weights that move when a control becomes known | the newest is the one shown; more knowledge takes no decision back |
| Decision | five factors, a minimum for models, age; a correlation older than the evidence that is read | never surer than the evidence; losers decide nothing; dissent and time raise nothing beyond what a better correlation is worth |
| Live start | four services called in turn, without a lock, for a client that may leave | no capture without an analysis; the slot is given back |
| Configuration | one goroutine per change | no consumer keeps anything older than the changes that overlap |

`PROJECT.json` has the most important hazards line by line. Some that no property covers are
told in section 7.

## 2. The plan

The order follows importance: first what decides whether an analysis is *right*, then what
feeds it, then what surrounds it.

| Step | Modules | Composes | State |
|---|---|---|---|
| 1 | `AnalysisContract`, `AnalysisLifecycle`, `...Proofs` | analysis service, offline pipeline, fusion run state, workspace binding | done, proved |
| 2 | `SensorCapture`, `...Proofs` | sessions, capture, tcpdump, hooks, stores | done, proved |
| 3 | `FusionStore`, `FusionRun`, `...Proofs` | store; ingest, engine, correlation, conflicts, session | done, proved; what is settled after a removal is model-checked |
| 4 | `FlowStream`, `LiveAnalysis`, `...Proofs` | flows, observation log, subscription; live pipeline, live ML job | done, proved |
| 5 | `MLJob`, `JobsProofs` | Start with its pool, Cancel, LatestForAnalysis | done, proved |
| 6 | `EventStream`, `RuntimeConfig`, `ServicesProofs` | Fusion events with replay, Core events, the handler of both; configuration and its consumers | done, proved |
| 7 | `Workspace` (`JobsProofs`), `Intake`, `LiveStart` (`ServicesProofs`) | cleanup, restoration, idempotency; uploads and live sources; workspace, capture and analysis of one HTTP request | done, proved |
| 8 | `Reports`, `JobsProofs` | artifacts and reports with deletion, expiry and deadline | done, proved |
| 9 | `Assessments`, `SecurityScore` (`AssessmentsProofs`), `Decision`, `ConclusionPages` (`ServicesProofs`) | evaluations; the fourteen controls and their score; selection and confidence; paging | done, proved |
| 10 | `LabRunner`, `JobsProofs` | jobs, scripts, database, restart | done, proved |
| 11 | `MCServices`, `MCServicesProofs` | thirteen services side by side | done, proved |

"Proved" is of the safety properties: liveness under fairness is outside the prover's reach
and stays with TLC. What may follow: SA epochs and window buckets of `sensor/flow`, which are
left as a choice, and what computations settle on after evidence was removed (section 6).

## 3. The modules

A step of every module is one critical section of one mutex, or one call into another
component; the program counters of threads name what they do next. An operator called
`Op_Word` is a plausible bug in `Op`: no specification uses it, and `PROJECT.json` says
which property notices it. `MC...` modules give small values to the constants.

### AnalysisLifecycle and AnalysisContract

`record`, `stage`, `version` and `cancels` are the maps of `analysis.Service`; `stopped`
is the set of cancelled run contexts; `run`, `covered`, `fused` are what the analysis sees
of its fusion run; `workspace` and `ownership` are the token check of `bindWorkspace`;
`log` holds the lifecycle events. Three kinds of thread act:

* the *starter* (`Start`, `Retry`): create the run, insert the record, read the ownership
  token, bind under it, launch. `Start` may lack a pipeline and then fails the record.
* the *worker* (`execute` with the offline `Pipeline.Run`): one step per evidence source,
  stage, fusion, assessment, event and snapshot. Each step that writes to the run needs a
  live context and an active run; each fallible call may also end in `errored`.
* the *caller* (`Cancel`): check, revoke the run, mark, report.

`AnalysisContract` has no threads: it says how `state`, the intake of the fusion run and
`fused` may change. It deliberately allows COMPLETED to become CANCELLED, because the code
does that: `Cancel` tests RUNNING and writes CANCELLED in two sections, and the analysis may
finish in between.

### SensorCapture

`session`/`owner` are `session.Service`; `capture`, `target`, `listed`, `activeID` are
`capture.Service`; `process`, `done`, `reader` and `waiter` are the tcpdump handle and its
goroutines, with the exit value delivered once through `done`; `held` is what the
observation and flow stores keep of a session. Callers run StopSession, ResetSession or
StopCapture. Start holds the mutex while tcpdump starts, so `starting` blocks every other
section of the service.

### FusionStore

A model of references: `heap` maps a place to what its two maps hold, `current` is the
stored run, and an update writes the maps of `current` in place before it stores one clone
and hands out another. `Get` copies the struct under the read lock (`Take`) and the maps
afterwards (`Copy`).

### FusionRun

The fields of `model.Run` with identifiers from a finite pool, one engine, and requests as
threads: `add` (prepare against a clone, then store), `remove`, `mark`, `recompute`, `run`,
`cancel`, `finalize`, `reset`. A computation is the sequence of store calls of
`engine.process`: correlate, regroup, expand the affected properties, detect and resolve
conflicts, conclude. `seen` is the clone it works on and may be stale. Map iteration order
is a choice (which conflict is resolved first, which of two conclusions with one
identifier is stored last, how far one pass over the groups expands). Correlation is the
smallest equivalence over linked items, not the union-find loop that computes it. An
identifier is 128 random bits in the code; here it is one the run does not name anywhere, its
index of conclusions included (`Taken`), and a step that draws identifiers waits until
enough are left in `Ids` (`Left`). A run that had to wait would end in a deadlock, which TLC
looks for: eight are enough.

### FlowStream and LiveAnalysis

`FlowStream` is what the sensor offers one session: the packet log (`log.first`,
`log.next`), the pending packets of each flow, the windows in order of their finalisation,
the retained ones, and the subscription with its buffer. The reader handles a packet in
three sections (log it, add it to its flow, publish the completed window); the stop of the
session finalises, publishes and closes in three more, and the reader may still be at its
last packet. `heard` and `dropped` are history: what was offered to the open stream and
what of it found the buffer full.

`LiveAnalysis` extends it with `runLive`: `worker` is its place, `dirty` and `cursor` are
its locals, `job` and `predictions` the live inference job, `coverage` the classifier's
coverage. `unassessed` is history: the kinds of evidence accepted since the last
assessment. A run that was revoked before a batch rejects its items without an error
(`PredictionRejected`, `ExportRejected`, `Counters`), so the worker goes on until its next
computation; one that is revoked during the call is an error. A client may cancel the inference job once a prediction shows its identifier,
and the analysis at any time; the latter revokes the run and then the context, as in
`AnalysisLifecycle`. The computation that `AddBatch` makes itself is folded into the next
assessment.

### EventStream

`published`, `history` and `corePublished` are what both services have published; `stream`
is one handler with its two subscriptions. A Fusion event is offered to the subscriber in
the section that numbers it; one that finds the buffer full closes the subscription with an
error. A subscription replays the retained history after any number the client names, also
one that is not given yet, in the section that registers it. Core
events are not kept, and a full buffer loses them (`coreLost`). The handler's `select` is a
choice among the ready sources.

### Reports

`report`, `renderer`, `deleter` are a report, its goroutine and a Delete of it; `artifact`
and `cleanup` are the artifact service; `shown` is what the workspace says. The renderer
creates the artifact, makes the reference and finishes in three calls, and `Expire` may
come before each. `removed`, `late` and `overtaken` are history: the cases in which the
code leaves an artifact without a report or a report without an artifact.

### MLJob

One record per job: Start lists the windows (`work`), workers take them from `queue`, and
the last section reads the error and the context before it writes COMPLETED. `failed` is
the one error `errCh` keeps; `done` is the context, which an error, Cancel or a leaving
client ends.

### LabRunner

`runtime`, `run`, `indexed` are the tables of the database, `files` the directory of an
experiment, `worker` the goroutines and `script` their processes. A crash keeps the tables,
the files and the scripts (as orphans) and nothing else; the restart fails what was RUNNING
and takes READY back. The error of a goroutine's last UPDATE is ignored, so it may be
refused (`unrecorded`).

### Intake

Uploads (`upload`, `content`, `next`, `complete`, `file`), whose chunks may be sent again,
too early, or be written half, over gRPC or over HTTP (`http`); and live sources with
StopLive and Remove in the sections the code has. A StopLive whose source was removed
dereferences nil with the mutex held: `broken`.

### Workspace

Calls of Create and Reset (`call`) go through `operationMu` (`holder`); `workspace` is the
one record, `replays` the answers kept by key, `binder` a callback that reads the ownership
and updates under it. A failed cleanup brings the copy back that was made before it.
`Guarded` gives the service a coordinator: `src/backend/src/cmd/server/main.go:77` wires
none today, but the service is written for one and its failure path is the only one that
restores a record.

### Assessments, SecurityScore

`Assessments` has the records and the evaluations of one analysis; a result is the number
of conclusions it was made from, and `now` is the last value of `UpdatedAt`.
`SecurityScore` is the content: fourteen controls as operators over the facts of a
resource, the weights of their categories, the score with its bounds and cap, the choice of
the headline, and the level of `core/risk`. A fact becomes known, changes or is forgotten
in one step and everything is assessed again, so its action properties compare two
assessments that differ in one fact.

### Decision, ConclusionPages

`Decision` computes the winner and the confidence of one property over evidence that
arrives, leaves and ages; confidence is a whole number of parts of `One`, which every
factor of the default policy divides. A computation first builds the correlation groups from
what is stored and reads the evidence it concludes from later (`fusion/engine/service.go:353`
and `:385`), so the group it finds may lack evidence that came in between, or be gone: in
`Compute` any group of the evidence may have been found, or none, which is also the case of
the resource types the correlation does not know. `Companion` stands for evidence on other
properties of the resource. The conclusion records the quality it was given, as its breakdown
does, and `ComputeAgain` is a computation with the same evidence. `ConclusionPages` is a reader with a page token over
conclusions that are computed anew; that a key keeps its identifier and that an identifier
may move to another resource is what `FusionRun` shows of them.

### RuntimeConfig, LiveStart

`RuntimeConfig` has one goroutine per accepted change (`notifying`) that calls the three
setters of the listener in turn; `overlapping` is history: the configurations of the last
change and of those that were still being told when it, or one of them, was made. `LiveStart` composes what one HTTP request does with the
workspace, the capture and the analysis (`step`), abstracted to what the other modules show
of them: a slot, an owner with a token, a binding. `gone` requests have a context that is
done. Others that bind a workspace (`uploadPCAP`, Start and Retry over gRPC) are outside it: a
workspace they are used on may show theirs, as `AnalysisLifecycle` has it.

### MCServices

The modules of these last sections and `FusionStore`, thirteen services, share no state. `MCServices` extends them
all and adds `focus`: a behaviour chooses one service at its start and only that one moves.
An interleaving of two that share nothing satisfies every property each of them satisfies
alone, so nothing is lost, and the runs stay small. No fair action is enabled in an initial
state, so the fairness of the others holds of themselves. `MCServicesProofs` proves that much:
the composition implements each of the thirteen specifications, fairness included.

## 4. The runs

A name in bold is a property of a run; those in brackets are its parts, each stated and
explained on its own in the module. Each part has a mutant of the code it is about.

| Run | Instance | Shows |
|---|---|---|
| `analysis_cancel` | 1 analysis, every option, 2 Cancels, 1 reset | types; **AnalysesAreKept** (`RunningHasDriver`, `StageFollowsState`, `WorkerReleasesContext`); **CancelIsFinal** (`CancelledRunIsCancelled`, `NoResultAfterCancel`); **CompletionIsTrue** (`CompletedIsAssessed`, `NoFailureAfterCompletion`); **ImplementsContract**, the refinement of `AnalysisContract`; **AnalysesEnd** (`EveryAnalysisEnds`, `CancelledWorkerStops`) |
| `analysis_pair` | 2 analyses (each may retry the other), 1 Cancel, 1 reset | **WorkspaceBindingIsCurrent** |
| `sensor_slot` | 2 sessions, 2 captures, 2 callers | types; **ActiveSlot**; **ForgottenIsSettled**; **EndsAreFinal** (`VerdictIsFinal`, `EndedNeverRuns`) |
| `sensor_liveness` | 1 session, 1 capture with packets, 2 callers | **StopsComplete** (`StoppedProcessExits`, `ExitFreesSlot`); **KeptUntilReset** |
| `sensor_one_process` | 2 sessions, 2 captures, 2 callers | *violated*: `OneProcess` |
| `fusion_safety` | 4 items, 2 properties, 2 resources, three workloads | types; **EvidenceExists**; **ComputationsSettle** (`Converged`, `ConflictsSettled`); **ClosedIsFrozen** (`ClosedRunIsFrozen`, `ClosedSourceGainsNothing`) |
| `fusion_split` | one workload with a removal | *violated*: `RunConcludesEveryGroup` |
| `fusion_store_race` | 3 updates, 2 readers | *violated*: `NoConcurrentAccess` |
| `live_safety` | 2 flows, 4 packets, log of 2, 1 window, buffer of 1, batch of 2 | types; **PacketsAccounted**; **WindowsAccounted**; **AssessmentIsComplete** (`CompletedJobMatches`, `CleanIsAssessed`, `FinalAssessmentIsCurrent`) |
| `live_liveness` | 1 flow, 3 packets, batch of 1 | **LoopIsFair** (`PredictionIsAssessed`, `StopEndsLive`) |
| `services` | thirteen services, one moving (bounds below) | types; see the table that follows |
| `services_liveness` | smaller instances of seven of them | **StreamsAreServed** (`HandlerReleases`, `WaitingIsTaken`); **ServicesSettle** (`ReportSettles`, `StartReturns`, `ExperimentEnds`, `CallsReturn`, `SlotIsFreed`, `ChangesArrive`) |

| Service of `services` | Instance | Shows |
|---|---|---|
| `EventStream` | 3 Fusion events of 3 types, history of 1, buffer of 1 beyond it, 2 Core events, 3 requests | **StreamIsHonest** (`FusionEventsGapless`, `ChannelsAreSafe`, `CoreEventsAccounted`, `FilterHolds`) |
| `Reports` | 2 reports, every deletion and deadline | **ReportsKeepFaith** (`ArtifactsAreHeld`, `ReadyIsOpenable`, `WorkspaceShowsState`, `DeletedStaysUnreadable`) |
| `MLJob` | 2 jobs, 2 windows, 2 workers | **JobsAreWhole** (`CompletedIsWhole`, `ErrorIsReported`, `ResultsAreFrozen`) |
| `LabRunner` | 2 experiments and an activation, 2 files, 1 crash | **LabIsOrderly** (`OneJobAtATime`, `CompletedIsIndexed`, `RunningIsWorked`, `ReadyIsActivated`, `ClosedIsQuiet`) |
| `Intake` | 1 upload of 2 chunks sent up to 3 times, 1 live source | **SourcesAreExact** (`SourceIsExact`, `FilesAreOwned`, `BreaksOnlyByRemoval`) |
| `FusionStore` | 3 updates, 2 readers | **StoreKeepsUpdates** (`NothingLost`, `ResultIsOwn`) |
| `Workspace` | 3 calls of 2 kinds with 1 key or none, 2 callbacks, a failing coordinator | **WorkspaceIsOwn** (`BindingsAreOwn`, `OneWorkspacePerKey`, `NewestIsCurrent`) |
| `Assessments` | 3 evaluations, 2 conclusions | **LatestIsCurrent** |
| `SecurityScore` | 4 gateways, 2 changes of any fact | **KnowledgeHelps** (`BoundsTighten`, `DecisionsStand`); **HeadlineIsHonest** (`CriticalIsHeadline`, `HeadlineIsWorst`) |
| `Decision` | 2 properties, 5 items each, 6 moments, a window of 3 | **NeverSurerThanEvidence**; **EvidenceDecides** (`LosersDecideNothing`, `DissentNeverHelps`, `AgeNeverHelps`) |
| `RuntimeConfig` | 3 setters, 2 values, 3 changes | **ConsumersAreCurrent** |
| `LiveStart` | 3 requests | **CapturesAreWatched** (`NoUnwatchedCapture`, `AnsweredIsShown`) |
| `ConclusionPages` | 3 places, 3 identifiers, pages of 1 | **ReadIsWhole** |

### Bounds, and why they are enough

* **Analysis.** Analyses share nothing but the workspace and the way Retry copies options,
  so one analysis with two concurrent Cancels shows every race of one record, and two
  analyses show every race for the workspace. One reset is enough to make a token stale.
* **Sensor.** The slot is the only thing captures share; a second capture is what a slot
  freed too early admits. Two callers are what it takes for the second Stop to find
  STOPPING. `Busy` says which captures carry packets: the slot properties do not depend on
  packets, so `sensor_slot` has none and `sensor_liveness` has them.
* **Fusion.** The four items are chosen so that one link (`a`–`c`) merges two resources
  with two properties each: this is where conclusions change their resource, properties
  outside a request's own are affected, a conflict appears, and (when the link's item is
  removed) a resource splits. The three workloads each put the requests together that race
  for the same decision; every subset order is explored. `Mortal` requests may lose their
  context between any two store calls. Eight identifiers are more than a run ever holds.
* **Fusion store.** One thread in the middle of an in-place update, one behind it that
  commits and one that fails halfway, with a reader before and after.
* **Live analysis.** Four packets make two ready windows, so that a window overflows a
  buffer of one, retention of one evicts a window whose identifier is still queued, a log of
  two drops packets between refreshes, and a batch of two can be exceeded or not. The two
  flows differ in what the classifier accepts. The liveness run needs one flow and three
  packets: two for a ready window and one to complete it.

* **Services.** Two of each are what races need: two reports so that a Cleanup has a second
  artifact, two jobs so that a newer one can hide an older, two experiments and the activation
  so that each can exclude another, three calls of the workspace so that one is between two
  with the same key, three evaluations so that an overlap can end before a third starts. A
  history and a buffer of one overflow with three events. One crash leaves an orphan; a
  second one finds nothing the first did not leave. The four gateways of the score are one nothing is
  known of, one half observed, a good and a weak one; two changes are a fact and its neighbour. The items of
  `Decision` are one per rank of status, precedence, trust, confidence and age, so that each
  criterion decides somewhere. The clock passes the window with items of three ages, and every
group of five items may be what a computation finds. A better correlation outweighs a dissent
only among about eleven items, so the allowance for it in `DissentNeverHelps` is not needed in
the instance; the theorem has it for any number, and `AgeNeverHelps` needs it at once. Three
  places with pages of one have a boundary on either side of the middle one.

Deadlock is not checked where threads come to an end (analysis, sensor, store, live
analysis): these systems stop when all requests are served. `FusionRun` stutters explicitly
when all requests are answered, so a computation that gets stuck before shows as a deadlock.

## 5. Fairness

No property assumes that a client acts. What is assumed:

* *Analysis*: weak fairness of the starter, the worker and the caller of a request under
  way. They are goroutines that never wait for one another; the calls they make have
  timeouts.
* *Sensor*: weak fairness of Start, await, the reader and the callers; a process whose
  context is cancelled ends (`exec.CommandContext` kills it). Nothing makes a process end
  that was not cancelled.
* *Live analysis*: weak fairness of the reader, of closeSession once it has begun, of the
  steps of `runLive`, of the goroutine that closes the subscription with its context and of
  the second half of Cancel. Strong fairness of receiving a window and of the tick: Go's
  `select` chooses uniformly among the ready cases, so a case that is ready again and again
  is taken. `PredictionIsAssessed` needs that for the tick. Nothing makes anybody stop the
  capture.

* *Services*: weak fairness of what the code runs without being asked: the handler and the
  closing goroutines of a subscription, the renderer, Start of an inference job with its
  workers (each call has a timeout), the goroutines of the lab (a script ends at its
  deadline), the holder of the workspace's mutex, the goroutine that tells a configuration,
  and the end of a capture, which `stopAfter` guarantees after 300 seconds. But for
  the captures, each is stated of the whole service, which is weaker than fairness of each
  goroutine and enough here.

## 6. The proofs

Eight modules hold the theorems. TLAPS checks each of them for every value of the constants
that satisfies the named assumption of the module it is about; TLC evaluates the assumptions
on every run. What they assume, and why the code justifies it:

* *null values are not identifiers* (most assumptions), and *bounds are natural numbers*,
  positive where they are sizes of buffers, pools, pages or windows (`StreamAssumption`,
  `LiveAssumption`, `JobConstants`, `LabConstants`, `PageConstants`, `StreamConstants`,
  `DecisionConstants`);
* *what one analysis has is finite*: flows (`StreamAssumption`), items of evidence
  (`FusionAssumption`, `DecisionConstants`), windows of a job (`JobConstants`), evaluations
  (`AssessmentConstants`), calls (`WorkspaceConstants`), places of conclusions
  (`PageConstants`), resources (`ScoreConstants`);
* `FusionAssumption`: `decision.better` is a strict order of the items, its last criterion is
  the identifier, so ranks differ; a removal names one item, a recomputation at least one
  property; identifiers are as many as 128 bits give, and are names neither of items nor of the
  resources that sensors report;
* `StoreAssumption`: there are enough places for the maps of a run, its clones and copies:
  memory does not run out;
* `DecisionConstants`: confidence lies between 0 and 1 (`fusion/ingest/service.go` refuses
  anything else), statuses and sources are those the policy ranks;
* `ConfigConstants`: the listener has a setter to call, and the default is a value;
* `ScoreConstants`: what can become known of a resource has the form the extractors give it.

Nothing else is taken on trust, and no theorem has a hypothesis about states.

* **AnalysisLifecycleProofs**: `TypeCorrect`, `CancelRevokesRun`, `NoAbandonedAnalysis`,
  `StageIsFinal`, `ContextReleased`, `CancelledGainsNothing`, and `Implements`, the refinement
  of `AnalysisContract`; from these `NothingAbandoned` and `CancelHolds`; and `BindingIsCurrent`
  and `CompletionHolds`. The inductive
  invariant adds to the properties who owns what: a starter owns a record until it launches the
  worker (`StartOrder`, `WorkerOwnsRecord`), an entry of `cancels` belongs to a worker that is
  running (`ContextOwner`), a Cancel past its revocation has a cancelled run behind it
  (`CancelOrder`), a context that was cancelled belongs to a record that has left RUNNING
  (`ContextOwner` again), and a worker past fusion has a fused run (`FusedBefore`). Without
  `CancelOrder`, `CancelRevokesRun` is not inductive; without the ownership facts the early
  return of `execute` could abandon a record. `CompletionHolds` needs where the pipeline is once
  it has marked a source or assessed (`SourcesMarked`, `AssessedBefore`), and that a client was
  told COMPLETED by the same worker that would tell it FAILED (`ToldOnce`);
  `BindingIsCurrent` that a token is read under the generation it names (`BoundOnce`).
* **SensorCaptureProofs**: `TypeCorrect`, `SlotIsExact`, `VerdictStays`, `EndedIsFinal`,
  `RecordsAreKept`, `DataIsKept`, and `EndsStay` of the two in the middle. `SlotIsExact` needs
  `Reserved` (while a Start holds the mutex the slot is free and no record is live).
  `RecordsAreKept` needs that a request's record fits what it does (`CallFits`), that a reset
  works on an ended session (`ResetIsOfEnded`), so that no new capture of it can start, and
  that once a reset has looked, only the capture it is stopping can still be live
  (`ResetSeesAll`).
* **LiveAnalysisProofs**: `NoSilentLoss`, `JobIsHonest`, `NothingForgotten`,
  `LastAssessmentSeesAll`, and `EndIsComplete` of the last three. `NoSilentLoss` needs that the
  log is ordered and bounded by what was logged (`LogOrdered`), that everything up to the
  cursor is exported or missed (`Covered`), that only a closed or unsubscribed stream lets the
  worker leave its loop (`Closed`), and that the final export brings the cursor to or beyond
  the last packet before the close (`Drained`). It holds while the run is open (`Taken`): one
  that is closed rejects batches, and its analysis does not complete. The other three have invariants of their own
  (`JobInv`, `AssessInv`) that follow the prediction from the job to the evidence, and the
  accepted evidence to the dirty flag. `WindowsStayAccounted` follows a window the worker has
  heard of: it is queued, in the worker's hands, accepted, or the loss of the model is marked
  (`AllSettled`, `LossIsMarked`), and nothing is left in a stream the loop has finished
  (`StreamPhase`). `LiveTypesHold` is the types of both modules.

* **FusionRunProofs**: five theorems about one run, for any items, links, requests and
  workloads. `EvidenceStays` needs that groups, conflicts and conclusions have members, and
  that a winner is among them (`Shape`): a store call that was computed from an old clone is
  refused because of its evidence, and the best of the members that are left is a member
  (`BestItem`, found as the least of the sets of items that beat one). `ClosedStaysFrozen`
  needs the types of the coverage. `RunTypesHold` follows the types through the clone, the
  computation and the store; its core is that fresh identifiers exist where a step draws them
  (`Numbering`, `NewIds`). `AnswersStaySound` says that what a computation calls COMPLETE is of
  one reading of the run, whatever was added, removed or closed while it worked: its conflicts
  are resolved, its conclusions follow from the clone it read last, and name the conflict on
  their own key. Its invariant has what is still open on the list (`Resolved`), what the
  clone and the store share (`PartOf`), and that an incremental computation is about some
  property, a whole one about all (`Aimed`). `AnswersAreSound` is not one of the properties
  of the runs.

  `ComputationsDoSettle` is the longest argument: however additions, recomputations, whole
  runs and closings interleave, once all are answered, if nothing was removed and no addition
  was cut off (`AdditionsLast`), the conclusions are those one computation of everything
  reaches, and the conflicts are resolved accordingly. It has two layers. The first is about
  data: components of links are classes (`ComponentClass`), a new grouping only merges the
  old groups (`Regrouped`, `RegroupedPartition`) and changes the logical resource of an item
  only if its group gains a member (`RegroupedResource`). The second is the invariant
  `Settling` about the run, the engine's computation, the items it computes for (`own`) and
  the stored items whose computation is still to come (`waiting`). A property is *unsettled*
  by such an item when the item's group has a member of that property; every other one is
  `Exact` (its conclusions are those of its evidence, under the keys in the index) and
  `SettledOn` (its conflicts are found and resolved), outside the computation at any time and
  within it stage by stage (`Clean`, `Stages`). Items without a group are waiting or the
  computation's own (`Placed`), what a computation read differs from what there is only by
  waiting items (`ReadsNow`), and after expansion it is about all that its own items unsettle
  (`AimedAt`). The point that is easy to miss is the identifiers of conclusions: an identifier
  taken over from an overlapping conclusion must never be wanted by two keys, or one would
  replace the other. `Ties` says why: an identifier, in the store or only in the index, belongs to
  one property and one group, dead resources of older groupings aside. A removal breaks
  exactly this, which is the third run of section 7.
* **JobsProofs**, the parts with goroutines of their own:
  * *jobs* (`JobTypes`, `JobIsWhole`, `ErrorsAreReported`, `ResultsFreeze`, together
    `JobsStayWhole`): a window is predicted, with a worker or queued as long as the context
    lives (`Covered`), an error or a Cancel ends the context (`Ended`), and there are no more
    busy windows than workers (`Pool`, a fact about cardinalities), so that after the pool has
    returned nothing is under way;
  * *lab* (`LabTypes`, `JobsAreSerialized`, `ArchiveIsComplete`, `RestartRecovers`,
    `ActivationIsOwn`, `CloseWaits`, together `LabStaysOrderly`): what a goroutine says of the
    database (`Working`): READY with an experiment, STARTING with the activation, so that
    neither can begin; and that a child has its goroutine (`Waiting`);
  * *reports* (`ReportTypes`, `WorkspaceIsTrue`, `ArtifactsHaveOwners`, `ReadyReportsOpen`,
    `DeletedForGood`, together `ReportsStayTrue`): renderer, report, artifact and Delete are
    related pairwise (`Rendered`, `Unbound`, `Deleting`, `Rendering`);
  * *workspace* (`BindingsStay`, `NewestStays`, `KeysAreAnswers`, together
    `WorkspaceStaysOwn`): `Generations` says how the workspace and the last generation relate
    at each place of the call that holds the mutex (`Mutex`), `Copies` that what a failed
    cleanup brings back is the workspace with fewer bindings, `Answers` that a generation is
    the answer of one key or one call. `WorkspaceTypesHold` bounds the generations by the
    calls: each was made by a call of its own (`Counted`, `Makers`).
* **AssessmentsProofs**: `LatestIsFresh`: an evaluation that is alone reads no fewer conclusions
  than any result shows (`Fresh`), so a better result is a newer one (`Newer`).
  `AssessmentTypes` bounds the clock by the evaluations that are past it (`Bounded`, `Past`).
  `HeadlineStaysHonest` and `KnowledgeHelping` are about the score over any resources: each of
  the fourteen controls decides no less when one more fact is known, the weights of the
  controls that are decided only grow, so the bounds close in; the lowest score among scopes
  exists by a minimal counterexample. `ScoreTypes` goes with them.
* **ServicesProofs**, one group per service, each with its types:
  * `StreamsAreHonest`: history and subscription hold the numbers after the last one taken,
    in order and without a gap (`HistoryKept`, `Served`), so the channel never blocks and
    a handler that was told of no loss has lost nothing;
  * `UpdatesAreKept`: a writer under the lock, and readers that copy after it, each have maps
    of their own (`Own`, `Writing`, `Copying`), as many as there are places;
  * `SourcesStayExact`: a file is written in order until a write fails (`Uploading`), and an
    overtaken stop is not the one of the removal (`Stopping`);
  * `ReadsAreWhole`: what stayed is read once up to the token and not at all beyond it
    (`Progress`), by counting places (`Rank`, `Upto`);
  * `NeverSurer`, `OnlyWinnersDecide`: the winner beats each candidate criterion by criterion;
    each factor of the confidence lies in 0..1, and for one correlation quality it does not grow
    with age or dissent. What a change of the quality adds is bounded by what it weighs
    (`QualityCounts`, `GainIsWorth`), for a product and for a minimum;
  * `ConsumersStayCurrent`: each setting that no goroutine has yet to tell is that of one of
    the overlapping changes (`ToldOverlapping`);
  * `CapturesStayWatched`: where each request is tells what it has done (`Reached`), and one
    of them has the slot (`OneCapture`).
* **MCServicesProofs**: a step of the composition is a step of one service and a stutter of the
  others (`StepOfEach`), so the composition implements each of the thirteen specifications,
  their fairness included (`ServicesImplement`); hence it has all their types
  (`ServicesTypesHold`) and keeps all their safety promises (`ServicesKeepPromises`).

Induction over the natural numbers, where counting needs it, is done by a minimal
counterexample (`SmallestNumber`, from the well-foundedness of `<`), since the induction rules
take an operator the provers cannot instantiate. Some definitions are written so that the
provers can use them: sequences as functions on an interval, records of Booleans compared by
case, recursion as folds or functions.

Model-checked only:

* *liveness*, which is outside the prover's reach: `AnalysesEnd`, `StopsComplete`,
  `LoopIsFair`, `StreamsAreServed`, `ServicesSettle`;
* `ConflictsSettled` of `FusionRun` after a removal, and `Converged` where `ComputationsDoSettle`
  does not reach: an `add` whose own context ends leaves its evidence uncomputed until
  somebody asks again, and after a removal two halves of a resource may claim one conclusion.
  The runs therefore let recomputations be cut off anywhere and additions not. What holds
  everywhere is `AnswersStaySound`;
* the three violations of section 7, which are counterexamples.

## 7. Where code and text disagree

Each of these is a run that TLC must find violated.

* **Two captures can run at once** (`sensor_one_process`). The second `Stop` of a capture
  skips the handle and frees the slot before the first has cancelled the process.
* **`Get` clones maps that `Update` is writing** (`fusion_store_race`). The read lock is
  released first.
* **A removal that splits a resource loses a conclusion** (`fusion_split`). Both halves take
  the identifier of the old conclusion.

Other observations were made while modelling. The models have the behaviour, or name it as an
exception of a property; no text of the repository is contradicted by a run.

Sensor and live analysis:

* A packet the reader still holds when the session stops opens a window that is neither
  flushed nor published, although StopSession is documented to flush final feature windows
  (`docs/go_sensor_api_spec_v1.md:551`).
* One refresh sends all new packets in one `AddBatch`, whose limit is 10,000 items
  (`core/analysis/pipeline.go:276`). An ESP packet gives four, so about 250 a second end a live
  analysis long before the packet log reports anything as missed.
* The stop of a session may close its streams between Run's look at the source and runLive's
  subscription (`core/analysis/pipeline.go:145`); nobody closes the new channel, and the
  analysis waits until it is cancelled.
* After an error of the classifier, and every error of runLive, the live job stays RUNNING
  (`core/analysis/pipeline.go:187`).
* Two overlapping `startLiveCapture` requests: the workspace of one may show the analysis of
  the other. A client that goes away in between leaves a capture without an analysis until its
  limit of 300 seconds, because the undoing `StopLive` uses the request's context
  (`src/backend/src/cmd/server/http_api.go:236`).

Fusion:

* Evidence stored between the correlation of a computation (`fusion/engine/service.go:353`) and
  its read (`:385`) is concluded as uncorrelated (.70). The next computation of the same evidence
  finds it in a group, so the confidence of a conclusion that stands rises by up to three
  hundredths without any news. `AgeNeverHelps` and `DissentNeverHelps` allow for exactly this
  (`CorrelationGain`): with ten items that agree, the jump is more than what one that
  disagrees takes away.
* Evidence that is UNKNOWN, or on another property of the resource, can raise a confidence a
  little through the correlation quality (which is why `DissentNeverHelps` is about known
  evidence). The confidence of a model's
  conclusion is the smaller of probability and common factor, where every other one is their
  product, so with the same numbers a model is surer.
* The rationale PROPERTY_SOURCE_PRECEDENCE may be given where the status had decided.
* A conclusion that moves to another resource takes its identifier with it. If it is the one a
  page token names, the reader goes on from the new place and skips or repeats what lies
  between (`ReadIsWhole` names the exception); one that is gone fails the read, and with it the
  assessment.
* Reloading a policy has no directory to load from as the server is wired, and making another
  policy active does not change runs, which ask for the default one by name.
* A change of the configuration made while another is being told may leave the services on the
  older values, or on some of either, until the next change (`core/runtimeconfig/service.go:110`);
  nothing older than the changes that overlapped can come back (`ConsumersAreCurrent`).

Security:

* A number 0 is rendered as the empty string and reads as unknown
  (`core/security/service.go:509`, `core/analysis/telemetry.go:182`): a replay window of 0 makes
  the control UNKNOWN and never FAIL; a lifetime of 0 likewise.
* SIH_SA_PARAMETERS_001 needs facts that only XFRM states have and others that only VICI CHILD
  SAs have on one resource, so it stays UNKNOWN unless correlation joins the two.
* A critical proposal of a connection caps the connection and not the headline, while
  `Overrides` reports a cap of 40 (`core/risk/service.go:74`). Proposals of the form
  `encr=null` are never critical (`security/assessment.go:283`). A capped score can lie below
  its own lower bound.
* `Reevaluate` that names the policy moves UpdatedAt before it evaluates, so that an older
  result is shown meanwhile; one that fails turns COMPLETED into FAILED.

Others:

* Cancel may turn a finished analysis into CANCELLED, and a cancelled inference job may become
  COMPLETED; `AnalysisContract` and `CompletedIsWhole` say what holds all the same.
* A reset of the workspace does not cancel the analysis it replaces, since no coordinator is
  wired, though the API document says it must
  (`docs/go_core_backend_api_spec_v1.md:588`). With one that fails, accepted bindings are lost.
* Calls that repeat a key get the workspace of the first call, also after it was replaced.
* A client that asks only for Core's categories is sent every Fusion event.
* A Delete that overtakes the renderer leaves an artifact without a report; a rendering that
  fails after the deletion turns DELETED into FAILED.
* StopLive after Remove dereferences nil and leaves the mutex locked
  (`core/input/service.go:134`). An HTTP upload whose body fails is never discarded. The session
  of a failed upload stays READY, since its reset is refused (`core/input/service.go:256`).
* After a crash a script may go on beside those of the next server.

## 8. What is not modelled

* *Read-only operations*: listings, snapshots, protocol views, provenance, queries. They may
  observe a result between two computations; the one that several parts build on, the reading
  of all conclusions, is `ConclusionPages`. The protocol summaries read one page of 1000 items.
* *Wording and numbers of no consequence for a property*: feature statistics, rationale codes,
  findings, recommendations, report layout, rounding.
* *Parsers*: the IKE and PCAP parsers compute metadata from bytes without state. A model would
  be byte arithmetic over inputs longer than TLC can enumerate.
* *Telemetry*: the samples of strongSwan, the kernel and the interfaces are evidence that may
  arrive or fail; how they are read is not modelled.
* *Policies*: there is one in the server as it is wired.
* *Time*: a timeout is a choice that may happen at any moment; window durations appear only
  as the choice whether a packet completes a window.
* *Across modules*: `AnalysisLifecycle` has the fusion run as a state, a coverage set and
  "fused or not"; `FusionRun` has the run in full but no analysis; `LiveAnalysis` has what
  the select loop sees of both. The abstractions agree where they meet (a run that is not
  active accepts nothing), and no module relies on a property only another one checks,
  except that `FlowStream` takes from `SensorCapture` that closeSession begins after the
  process was stopped, that a reader may outlive it by one packet, and that a session is not
  reset while it is analysed.
* *Outside Go*: the Python classifier is a call that answers, fails or times out; tcpdump is
  a process that may end at any time; the frontend is the set of requests.

More than half of the repository's lines are generated protobuf code (`src/backend/gen`) and a
good part of the rest is conversion between that code and the services' records, parsing,
rendering and start-up: code without state, of which a model would say nothing. The share of
lines that `PROJECT.json` maps is small for that reason; of the handlers that change
state, the ones left are listed above.
