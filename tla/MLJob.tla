-------------------------------- MODULE MLJob --------------------------------
(***************************************************************************)
(* Inference over a whole analysis (core/ml/service.go): Service.Start with *)
(* its pool of workers, Cancel, and the reader of the newest usable job.    *)
(* The job of a live analysis is in LiveAnalysis.  What a prediction says   *)
(* is left out; a worker call ends by its timeout.                          *)
(* An operator Op_Word is a plausible bug in Op; no specification uses it.  *)
(***************************************************************************)
EXTENDS Naturals, FiniteSets

CONSTANTS
  Jobs,     \* the jobs of one analysis, in the order of their creation times
  Windows,  \* its finalised windows of classifier traffic that are ready
  Workers   \* size of the pool

ASSUME JobConstants == Jobs \subseteq Nat /\ Workers \in Nat \ {0} /\ IsFiniteSet(Windows)

VARIABLES
  pc,           \* where Start is
  state,        \* job.state
  predictions,  \* job.predictions
  work,         \* the windows Start found
  queue,        \* those no worker has taken
  busy,         \* those a worker waits for
  workers,      \* workers that have not returned
  failed,       \* errCh holds an error
  done,         \* jobContext is done
  known         \* identifiers a client can know

jobVars == <<pc, state, predictions, work, queue, busy, workers, failed, done, known>>

JobInit ==
  /\ pc = [j \in Jobs |-> "none"] /\ state = [j \in Jobs |-> "NONE"]
  /\ predictions = [j \in Jobs |-> {}] /\ work = [j \in Jobs |-> {}]
  /\ queue = [j \in Jobs |-> {}] /\ busy = [j \in Jobs |-> {}] /\ workers = [j \in Jobs |-> 0]
  /\ failed = [j \in Jobs |-> FALSE] /\ done = [j \in Jobs |-> FALSE] /\ known = {}

----------------------------------------------------------------------------
\* Start inserts the job, and in a second section stores its cancel function.
Insert(j) ==
  /\ pc[j] = "none"
  /\ pc' = [pc EXCEPT ![j] = "inserted"] /\ state' = [state EXCEPT ![j] = "RUNNING"]
  /\ UNCHANGED <<predictions, work, queue, busy, workers, failed, done, known>>

Wire(j) ==
  /\ pc[j] = "inserted"
  /\ pc' = [pc EXCEPT ![j] = "listing"]
  /\ UNCHANGED <<state, predictions, work, queue, busy, workers, failed, done, known>>

\* fail: whatever the job was, it is FAILED; Start returns.
Fails(j) == pc' = [pc EXCEPT ![j] = "returned"] /\ state' = [state EXCEPT ![j] = "FAILED"]

\* Listing the flows and their windows, or an error of it; then the pool starts.
List(j, found) ==
  /\ pc[j] = "listing" /\ ~done[j]
  /\ pc' = [pc EXCEPT ![j] = "working"]
  /\ work' = [work EXCEPT ![j] = found] /\ queue' = [queue EXCEPT ![j] = found]
  /\ workers' = [workers EXCEPT ![j] = IF Cardinality(found) < Workers THEN Cardinality(found) ELSE Workers]
  /\ UNCHANGED <<state, predictions, busy, failed, done, known>>

ListFails(j) ==
  /\ pc[j] = "listing" /\ Fails(j)
  /\ UNCHANGED <<predictions, work, queue, busy, workers, failed, done, known>>

\* A free worker takes the next window, and returns if the context is done.
TakeWindow(j, w) ==
  /\ Cardinality(busy[j]) < workers[j] /\ w \in queue[j]
  /\ queue' = [queue EXCEPT ![j] = @ \ {w}]
  /\ IF done[j] THEN workers' = [workers EXCEPT ![j] = @ - 1] /\ UNCHANGED busy
     ELSE busy' = [busy EXCEPT ![j] = @ \cup {w}] /\ UNCHANGED workers
  /\ UNCHANGED <<pc, state, predictions, work, failed, done, known>>

\* storeResult.
Predicted_Unchecked(j, w) ==
  /\ w \in busy[j]
  /\ busy' = [busy EXCEPT ![j] = @ \ {w}]
  /\ predictions' = [predictions EXCEPT ![j] = @ \cup {w}]
  /\ UNCHANGED <<pc, state, work, queue, workers, failed, done, known>>
Predicted(j, w) ==
  /\ w \in busy[j]
  /\ busy' = [busy EXCEPT ![j] = @ \ {w}]
  /\ predictions' = IF state[j] = "RUNNING" THEN [predictions EXCEPT ![j] = @ \cup {w}] ELSE predictions
  /\ UNCHANGED <<pc, state, work, queue, workers, failed, done, known>>

\* An error of the worker or of the answer's checks: the first one is kept.
PredictFails(j, w) ==
  /\ w \in busy[j]
  /\ busy' = [busy EXCEPT ![j] = @ \ {w}] /\ workers' = [workers EXCEPT ![j] = @ - 1]
  /\ failed' = [failed EXCEPT ![j] = TRUE] /\ done' = [done EXCEPT ![j] = TRUE]
  /\ UNCHANGED <<pc, state, predictions, work, queue, known>>

\* wg.Wait, and what is checked after it.
Join_Early(j) == pc[j] = "working" /\ (busy[j] = {} \/ Cardinality(busy[j]) < workers[j])
Join(j) == pc[j] = "working" /\ busy[j] = {} /\ (workers[j] = 0 \/ queue[j] = {})

Settle_Stuck(j) ==
  /\ Join(j) /\ ~failed[j] /\ pc' = [pc EXCEPT ![j] = "completing"]
  /\ UNCHANGED <<state, predictions, work, queue, busy, workers, failed, done, known>>
Settle_ErrorOnly(j) ==
  /\ Join(j)
  /\ IF failed[j] THEN Fails(j) ELSE pc' = [pc EXCEPT ![j] = "completing"] /\ UNCHANGED state
  /\ UNCHANGED <<predictions, work, queue, busy, workers, failed, done, known>>
Settle(j) ==
  /\ Join(j)
  /\ IF failed[j] \/ (work[j] # {} /\ done[j]) THEN Fails(j)
     ELSE pc' = [pc EXCEPT ![j] = "completing"] /\ UNCHANGED state
  /\ UNCHANGED <<predictions, work, queue, busy, workers, failed, done, known>>

\* The last section does not look at the state it overwrites.
Complete(j) ==
  /\ pc[j] = "completing"
  /\ pc' = [pc EXCEPT ![j] = "returned"] /\ state' = [state EXCEPT ![j] = "COMPLETED"]
  /\ UNCHANGED <<predictions, work, queue, busy, workers, failed, done, known>>

----------------------------------------------------------------------------
\* The client of Start goes away, which ends its context.
LeaveJob(j) ==
  /\ pc[j] \in {"inserted", "listing", "working", "completing"} /\ ~done[j]
  /\ done' = [done EXCEPT ![j] = TRUE]
  /\ UNCHANGED <<pc, state, predictions, work, queue, busy, workers, failed, known>>

\* LatestForAnalysis: the newest job that is COMPLETED or has a prediction.  Only
\* this (in reports and read models) and the answer of Start tell its identifier.
Usable(j) == state[j] = "COMPLETED" \/ (state[j] = "RUNNING" /\ predictions[j] # {})
ReadLatest(j) ==
  /\ Usable(j) /\ \A k \in Jobs : Usable(k) => k <= j
  /\ j \notin known /\ known' = known \cup {j}
  /\ UNCHANGED <<pc, state, predictions, work, queue, busy, workers, failed, done>>

Cancel(j) ==
  /\ j \in known /\ state[j] = "RUNNING"
  /\ state' = [state EXCEPT ![j] = "CANCELLED"] /\ done' = [done EXCEPT ![j] = TRUE]
  /\ UNCHANGED <<pc, predictions, work, queue, busy, workers, failed, known>>

GoesOn(j) ==
  \/ Wire(j) \/ (\E found \in SUBSET Windows : List(j, found)) \/ ListFails(j)
  \/ (\E w \in Windows : TakeWindow(j, w) \/ Predicted(j, w) \/ PredictFails(j, w))
  \/ Settle(j) \/ Complete(j)

JobNext == \E j \in Jobs : Insert(j) \/ GoesOn(j) \/ LeaveJob(j) \/ ReadLatest(j) \/ Cancel(j)

\* Of the goroutines of Start and their workers, one or the other goes on; a call
\* of the worker times out.
JobFairness == WF_jobVars(\E j \in Jobs : GoesOn(j))
JobSpec == JobInit /\ [][JobNext]_jobVars /\ JobFairness

----------------------------------------------------------------------------
\* Properties.

\* Types; a job has no more workers than the pool.
JobTypeOK ==
  /\ pc \in [Jobs -> {"none", "inserted", "listing", "working", "completing", "returned"}]
  /\ state \in [Jobs -> {"NONE", "RUNNING", "CANCELLED", "FAILED", "COMPLETED"}]
  /\ predictions \in [Jobs -> SUBSET Windows] /\ work \in [Jobs -> SUBSET Windows]
  /\ queue \in [Jobs -> SUBSET Windows] /\ busy \in [Jobs -> SUBSET Windows]
  /\ workers \in [Jobs -> 0..Workers]
  /\ failed \in [Jobs -> BOOLEAN] /\ done \in [Jobs -> BOOLEAN] /\ known \in SUBSET Jobs

\* A COMPLETED job has a prediction for every window it found, also when a
\* Cancel, a leaving client or a failing worker came between: the reports take
\* it for the whole of the analysis.
CompletedIsWhole == \A j \in Jobs : state[j] = "COMPLETED" => predictions[j] = work[j]

\* An error of a worker is never answered with COMPLETED.
ErrorIsReported == \A j \in Jobs : failed[j] => state[j] # "COMPLETED"

\* Results do not change once the job is over, so that what one reader saw of
\* a cancelled or completed job is what the next one sees.
ResultsAreFrozen ==
  [][\A j \in Jobs : state[j] \notin {"NONE", "RUNNING"} => predictions'[j] = predictions[j]]_jobVars

\* The state of a job tells what its predictions are worth, and keeps them.
JobsAreWhole == [](CompletedIsWhole /\ ErrorIsReported) /\ ResultsAreFrozen

\* Start returns, with a job that is no longer RUNNING.
StartReturns == \A j \in Jobs : pc[j] = "inserted" ~> pc[j] = "returned" /\ state[j] # "RUNNING"
==============================================================================
