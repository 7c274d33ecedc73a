------------------------------ MODULE LiveStart ------------------------------
(***************************************************************************)
(* The start of a live capture over HTTP (startLiveCapture of               *)
(* cmd/server/http_api.go), which makes a workspace, a capture and an       *)
(* analysis with one call after the other and no lock around them, beside   *)
(* other such requests, clients that go away and captures that end.  The    *)
(* capture slot, the ownership of the workspace and the analysis are here   *)
(* what SensorCapture, Workspace and AnalysisLifecycle show of them.        *)
(* An operator Op_Word is a plausible bug in Op; no specification uses it.  *)
(***************************************************************************)
EXTENDS FiniteSets

CONSTANTS
  Starts,   \* requests, which also name the workspace, capture and analysis each makes
  Nobody

ASSUME LiveStartConstants == Nobody \notin Starts

VARIABLES
  step,      \* where each request is
  gone,      \* requests whose client went away: their context is done
  owner,     \* the request that made the current workspace
  bound,     \* the request whose analysis the workspace shows
  token,     \* the ownership each request read
  capturing, \* by request: its capture, "none", "running" or "stopped"
  analysed,  \* requests whose analysis was started
  tardy      \* history: requests whose capture had ended before their analysis was bound

liveStartVars == <<step, gone, owner, bound, token, capturing, analysed, tardy>>

LiveStartInit ==
  /\ step = [q \in Starts |-> "none"] /\ gone = {}
  /\ owner = Nobody /\ bound = Nobody /\ token = [q \in Starts |-> Nobody]
  /\ capturing = [q \in Starts |-> "none"] /\ analysed = {} /\ tardy = {}

Active == \E q \in Starts : capturing[q] = "running"
Goes(q, from, to) == step[q] = from /\ step' = [step EXCEPT ![q] = to]

\* The look at the slot, which holds for that moment only.
CheckSlot(q) ==
  /\ Goes(q, "none", IF Active THEN "refused" ELSE "create")
  /\ UNCHANGED <<gone, owner, bound, token, capturing, analysed, tardy>>

CreateWorkspace(q) ==
  /\ Goes(q, "create", IF q \in gone THEN "refused" ELSE "start")
  /\ IF q \in gone THEN UNCHANGED <<owner, bound>> ELSE owner' = q /\ bound' = Nobody
  /\ UNCHANGED <<gone, token, capturing, analysed, tardy>>

\* The session, the capture and the source; any of them may be refused.
StartsCapture(q) ==
  /\ q \notin gone /\ ~Active
  /\ Goes(q, "start", "status")
  /\ capturing' = [capturing EXCEPT ![q] = "running"]
  /\ UNCHANGED <<gone, owner, bound, token, analysed, tardy>>
CaptureRefused(q) ==
  /\ Goes(q, "start", "refused")
  /\ UNCHANGED <<gone, owner, bound, token, capturing, analysed, tardy>>

\* An error of the status ends the request and leaves the capture.
ReadStatus(q) ==
  /\ Goes(q, "status", IF q \in gone THEN "refused" ELSE "analyse")
  /\ UNCHANGED <<gone, owner, bound, token, capturing, analysed, tardy>>

StartAnalysis(q) ==
  /\ q \notin gone
  /\ Goes(q, "analyse", "own")
  /\ analysed' = analysed \cup {q}
  /\ UNCHANGED <<gone, owner, bound, token, capturing, tardy>>
AnalysisRefused_Only(q) ==
  /\ Goes(q, "analyse", "refused")
  /\ UNCHANGED <<gone, owner, bound, token, capturing, analysed, tardy>>
AnalysisRefused(q) ==
  /\ Goes(q, "analyse", "undo")
  /\ UNCHANGED <<gone, owner, bound, token, capturing, analysed, tardy>>

\* StopLive works with the context of the request: it fails when the client is gone.
Undo(q) ==
  /\ Goes(q, "undo", "refused")
  /\ capturing' = IF q \in gone THEN capturing ELSE [capturing EXCEPT ![q] = "stopped"]
  /\ UNCHANGED <<gone, owner, bound, token, analysed, tardy>>

\* bindWorkspace gives up without a word when the context is done.
ReadOwner(q) ==
  /\ Goes(q, "own", IF q \in gone THEN "answered" ELSE "bind")
  /\ token' = IF q \in gone THEN token ELSE [token EXCEPT ![q] = owner]
  /\ UNCHANGED <<gone, owner, bound, capturing, analysed, tardy>>
BindOwn_Empty(q) ==
  /\ Goes(q, "bind", "answered")
  /\ bound' = IF token[q] = owner /\ bound = Nobody THEN q ELSE bound
  /\ tardy' = IF capturing[q] = "stopped" THEN tardy \cup {q} ELSE tardy
  /\ UNCHANGED <<gone, owner, token, capturing, analysed>>
BindOwn(q) ==
  /\ Goes(q, "bind", "answered")
  /\ bound' = IF token[q] = owner THEN q ELSE bound
  /\ tardy' = IF capturing[q] = "stopped" THEN tardy \cup {q} ELSE tardy
  /\ UNCHANGED <<gone, owner, token, capturing, analysed>>

LeaveRequest(q) ==
  /\ step[q] \notin {"none", "refused", "answered"} /\ q \notin gone
  /\ gone' = gone \cup {q}
  /\ UNCHANGED <<step, owner, bound, token, capturing, analysed, tardy>>

\* stopLiveCapture, by a client that was answered.
StopCapture(q) ==
  /\ step[q] = "answered" /\ q \notin gone /\ capturing[q] = "running"
  /\ capturing' = [capturing EXCEPT ![q] = "stopped"]
  /\ UNCHANGED <<step, gone, owner, bound, token, analysed, tardy>>

\* stopAfter: every capture of this handler has a limit of 300 seconds.  It may
\* also end by itself earlier.
CaptureEnds_Analysed(q) ==
  /\ capturing[q] = "running" /\ q \in analysed
  /\ capturing' = [capturing EXCEPT ![q] = "stopped"]
  /\ UNCHANGED <<step, gone, owner, bound, token, analysed, tardy>>
CaptureEnds(q) ==
  /\ capturing[q] = "running"
  /\ capturing' = [capturing EXCEPT ![q] = "stopped"]
  /\ UNCHANGED <<step, gone, owner, bound, token, analysed, tardy>>

Handles(q) ==
  \/ CheckSlot(q) \/ CreateWorkspace(q) \/ StartsCapture(q) \/ CaptureRefused(q) \/ ReadStatus(q)
  \/ StartAnalysis(q) \/ AnalysisRefused(q) \/ Undo(q) \/ ReadOwner(q) \/ BindOwn(q)

LiveStartNext == \E q \in Starts : Handles(q) \/ LeaveRequest(q) \/ StopCapture(q) \/ CaptureEnds(q)

LiveStartFairness == \A q \in Starts : WF_liveStartVars(CaptureEnds(q))
LiveStartSpec == LiveStartInit /\ [][LiveStartNext]_liveStartVars /\ LiveStartFairness

----------------------------------------------------------------------------
\* Properties.

\* Types.
LiveStartTypeOK ==
  /\ step \in [Starts -> {"none", "create", "start", "status", "analyse", "undo", "own", "bind", "answered", "refused"}]
  /\ gone \cup analysed \cup tardy \subseteq Starts /\ {owner, bound} \subseteq Starts \cup {Nobody}
  /\ token \in [Starts -> Starts \cup {Nobody}] /\ capturing \in [Starts -> {"none", "running", "stopped"}]

\* A capture never runs on without an analysis once its request has ended, unless
\* the client went away in the middle of it.
NoUnwatchedCapture ==
  \A q \in Starts : capturing[q] = "running" /\ step[q] \in {"answered", "refused"} => q \in analysed \/ q \in gone

\* While the capture of a request runs, and as long as the workspace is the one
\* that request made and the client stayed for the answer, the workspace shows its
\* analysis.  Requests that overlapped it may have bound theirs to the same
\* workspace; only one whose capture had ended when it did so can have come later.
AnsweredIsShown ==
  \A q \in Starts :
    step[q] = "answered" /\ q \notin gone /\ owner = q /\ capturing[q] = "running" => bound = q \/ bound \in tardy

\* What a start of a live capture leaves behind is watched, and shown to whom it
\* was answered.
CapturesAreWatched == NoUnwatchedCapture /\ AnsweredIsShown

\* Whatever becomes of its request, a capture gives the slot back.
SlotIsFreed == \A q \in Starts : capturing[q] = "running" ~> capturing[q] = "stopped"
==============================================================================
