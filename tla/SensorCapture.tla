---------------------------- MODULE SensorCapture ----------------------------
(***************************************************************************)
(* Live acquisition: the session registry (sensor/session/service.go), the *)
(* capture service with its single active slot (sensor/capture/service.go),*)
(* the tcpdump handle (sensor/capture/tcpdump.go) and the hooks that join  *)
(* them to the flow and observation stores (sensor/acquisition).           *)
(*                                                                         *)
(* The threads are the callers of StopSession, ResetSession and            *)
(* StopCapture (the stopAfter timer is one more StopCapture), the process  *)
(* of each capture, the goroutine that reads its packets and the goroutine *)
(* that awaits its end.  A step is one critical section of one mutex.      *)
(* Capture.Start keeps the mutex while the engine starts, so no other      *)
(* section of the capture service runs while "starting" names a capture.   *)
(* An operator Op_Word is a plausible bug in Op; no specification uses it. *)
(***************************************************************************)
CONSTANTS
  Sessions,   \* sensor session identifiers
  Captures,   \* capture identifiers, used once each
  Callers,    \* threads that serve Stop and Reset requests
  NoCapture,  \* the empty capture identifier
  NoSession,
  Busy        \* captures whose interface carries packets

ASSUME SensorAssumption ==
  NoCapture \notin Captures /\ NoSession \notin Sessions /\ Busy \subseteq Captures

VARIABLES
  session,    \* Session.State; "NONE" before Create
  owner,      \* Session.CaptureID
  capture,    \* captureRecord.state; "NONE" before Start
  target,     \* captureRecord.sessionID
  listed,     \* identifiers in Service.captures
  activeID,   \* the active slot
  starting,   \* the capture whose Start holds the mutex
  process,    \* the tcpdump process
  done,       \* the done channel of the handle
  reader,     \* the goroutine of readPCAP and the packet in its hands
  waiter,     \* the goroutine of await
  held,       \* what the stores keep of a session
  call        \* what each caller is doing

sessionVars == <<session, owner>>
recordVars  == <<capture, target, listed, activeID, starting>>
engineVars  == <<process, done, reader, waiter>>
vars == <<sessionVars, recordVars, engineVars, held, call>>

SessionState == {"NONE", "READY", "RUNNING", "STOPPED", "EMPTY"}
CaptureState == {"NONE", "STARTING", "REJECTED", "CAPTURING", "STOPPING", "STOPPED", "FAILED"}
Live    == {"CAPTURING", "STOPPING"}
Settled == {"STOPPED", "FAILED"}
Stores  == {"observation", "flow", "pending"}
Pc      == {"idle", "find", "lookup", "mark", "cancel", "wait", "settle",
            "flush", "delete", "clearFlows", "clearObservations", "write"}
CallType == [op : {"none", "stop", "reset", "capture"}, session : Sessions \cup {NoSession},
             capture : Captures \cup {NoCapture}, pc : Pc]
Idle == [op |-> "none", session |-> NoSession, capture |-> NoCapture, pc |-> "idle"]

Init ==
  /\ session  = [s \in Sessions |-> "NONE"]
  /\ owner    = [s \in Sessions |-> NoCapture]
  /\ capture  = [c \in Captures |-> "NONE"]
  /\ target   = [c \in Captures |-> NoSession]
  /\ listed   = {}
  /\ activeID = NoCapture
  /\ starting = NoCapture
  /\ process  = [c \in Captures |-> "off"]
  /\ done     = [c \in Captures |-> "open"]
  /\ reader   = [c \in Captures |-> "off"]
  /\ waiter   = [c \in Captures |-> "off"]
  /\ held     = [s \in Sessions |-> {}]
  /\ call     = [t \in Callers |-> Idle]

-----------------------------------------------------------------------------
(* The session registry. *)

Create(s) ==
  /\ session[s] = "NONE"
  /\ session' = [session EXCEPT ![s] = "READY"]
  /\ UNCHANGED <<owner, recordVars, engineVars, held, call>>

BeginCapture(s, c) ==
  /\ session[s] = "READY"
  /\ session' = [session EXCEPT ![s] = "RUNNING"]
  /\ owner'   = [owner EXCEPT ![s] = c]

CaptureStartFailed_AnyState(s, c) ==
  /\ session' = [session EXCEPT ![s] = "READY"]
  /\ owner'   = [owner EXCEPT ![s] = NoCapture]

\* Only the reservation of this very capture is rolled back.
CaptureStartFailed(s, c) ==
  IF owner[s] = c /\ session[s] = "RUNNING"
  THEN /\ session' = [session EXCEPT ![s] = "READY"]
       /\ owner'   = [owner EXCEPT ![s] = NoCapture]
  ELSE UNCHANGED sessionVars

-----------------------------------------------------------------------------
(* Start, under the mutex of the capture service. *)

Start(s, c) ==
  /\ starting = NoCapture /\ activeID = NoCapture
  /\ capture[c] = "NONE"
  /\ BeginCapture(s, c)
  /\ starting' = c
  /\ target'   = [target EXCEPT ![c] = s]
  /\ capture'  = [capture EXCEPT ![c] = "STARTING"]
  /\ UNCHANGED <<listed, activeID, engineVars, held, call>>

\* tcpdump has written its file header: the reader may already decode packets.
EngineStarts(c) ==
  /\ starting = c /\ process[c] = "off"
  /\ process' = [process EXCEPT ![c] = "running"]
  /\ reader'  = [reader EXCEPT ![c] = "reading"]
  /\ UNCHANGED <<sessionVars, recordVars, done, waiter, held, call>>

Started(c) ==
  /\ starting = c /\ process[c] # "off"
  /\ starting' = NoCapture
  /\ capture'  = [capture EXCEPT ![c] = "CAPTURING"]
  /\ listed'   = listed \cup {c}
  /\ activeID' = c
  /\ waiter'   = [waiter EXCEPT ![c] = "waiting"]
  /\ UNCHANGED <<sessionVars, target, process, done, reader, held, call>>

\* No tcpdump, or none that writes a header in time: no record is kept.  Stop
\* kills a process that was launched before the error is returned.
StartFails(c) ==
  /\ starting = c /\ process[c] = "off"
  /\ starting' = NoCapture
  /\ capture'  = [capture EXCEPT ![c] = "REJECTED"]
  /\ CaptureStartFailed(target[c], c)
  /\ UNCHANGED <<target, listed, activeID, engineVars, held, call>>

-----------------------------------------------------------------------------
(* The tcpdump process, its reader and the await goroutine. *)

\* The process ends when its context is cancelled, or on its own; an error
\* after the cancellation is not an error.  Wait closes the pipe the reader
\* reads, and does not wait for the reader.
ProcessExits(c) ==
  /\ process[c] \in {"running", "cancelled"}
  /\ \E err \in {"ok", "err"} :
        /\ process[c] = "cancelled" => err = "ok"
        /\ done' = [done EXCEPT ![c] = err]
  /\ process' = [process EXCEPT ![c] = "exited"]
  /\ UNCHANGED <<sessionVars, recordVars, reader, waiter, held, call>>

Cancelled(c) ==
  IF process[c] = "running" THEN [process EXCEPT ![c] = "cancelled"] ELSE process

\* The receive on done: the value is delivered once, to whoever comes first,
\* and everybody else gets nil from the closed channel.
Receive(c) == done' = [done EXCEPT ![c] = "closed"]

\* A packet is decoded while the process lives; a record above the safety
\* limit, or the closed pipe, ends the reader.
ReaderDecodes(c) ==
  /\ reader[c] = "reading"
  /\ \/ /\ process[c] # "exited" /\ c \in Busy
        /\ reader' = [reader EXCEPT ![c] = "decoded"]
     \/ reader' = [reader EXCEPT ![c] = "ended"]
  /\ UNCHANGED <<sessionVars, recordVars, process, done, waiter, held, call>>

ReaderObserves(c) ==
  /\ reader[c] = "decoded"
  /\ reader' = [reader EXCEPT ![c] = "observed"]
  /\ held'   = [held EXCEPT ![target[c]] = @ \cup {"observation"}]
  /\ UNCHANGED <<sessionVars, recordVars, process, done, waiter, call>>

\* NAT keepalives reach no flow; MaxCaptureBytes makes the reader itself cancel
\* the process.
ReaderFeedsFlow(c) ==
  /\ reader[c] = "observed"
  /\ reader' = [reader EXCEPT ![c] = "reading"]
  /\ \/ held' = [held EXCEPT ![target[c]] = @ \cup {"flow", "pending"}]
     \/ UNCHANGED held
  /\ process' \in {process, Cancelled(c)}
  /\ UNCHANGED <<sessionVars, recordVars, done, waiter, call>>

AwaitReceives(c) ==
  /\ waiter[c] = "waiting" /\ done[c] # "open"
  /\ waiter' = [waiter EXCEPT ![c] = IF done[c] = "err" THEN "failed" ELSE "ended"]
  /\ Receive(c)
  /\ UNCHANGED <<sessionVars, recordVars, process, reader, held, call>>

AwaitSettles_OnlyCapturing(c) ==
  /\ waiter[c] \in {"failed", "ended"} /\ starting = NoCapture
  /\ waiter' = [waiter EXCEPT ![c] = "returned"]
  /\ IF capture[c] = "CAPTURING"
     THEN /\ capture'  = [capture EXCEPT ![c] = IF waiter[c] = "failed" THEN "FAILED" ELSE "STOPPED"]
          /\ activeID' = NoCapture
     ELSE UNCHANGED <<capture, activeID>>
  /\ UNCHANGED <<sessionVars, target, listed, starting, process, done, reader, held, call>>

AwaitSettles(c) ==
  /\ waiter[c] \in {"failed", "ended"} /\ starting = NoCapture
  /\ waiter' = [waiter EXCEPT ![c] = "returned"]
  /\ IF capture[c] \in Live
     THEN /\ capture'  = [capture EXCEPT ![c] = IF waiter[c] = "failed" THEN "FAILED" ELSE "STOPPED"]
          /\ activeID' = IF activeID = c THEN NoCapture ELSE activeID
     ELSE UNCHANGED <<capture, activeID>>
  /\ UNCHANGED <<sessionVars, target, listed, starting, process, done, reader, held, call>>

-----------------------------------------------------------------------------
(* Stop and Reset. *)

Goto(t, pc) == call' = [call EXCEPT ![t].pc = pc]
Return(t)   == call' = [call EXCEPT ![t] = Idle]
At(t, pc)   == call[t].pc = pc

\* A section under the capture mutex, which Start may be holding.
CaptureLock == starting = NoCapture

StopSession(t, s) ==
  /\ At(t, "idle") /\ session[s] = "RUNNING"
  /\ call' = [call EXCEPT ![t] = [op |-> "stop", session |-> s, capture |-> NoCapture, pc |-> "find"]]
  /\ UNCHANGED <<sessionVars, recordVars, engineVars, held>>

ResetSession_Running(t, s) ==
  /\ At(t, "idle") /\ session[s] \in {"RUNNING", "STOPPED"}
  /\ call' = [call EXCEPT ![t] = [op |-> "reset", session |-> s, capture |-> NoCapture, pc |-> "find"]]
  /\ UNCHANGED <<sessionVars, recordVars, engineVars, held>>

ResetSession(t, s) ==
  /\ At(t, "idle") /\ session[s] = "STOPPED"
  /\ call' = [call EXCEPT ![t] = [op |-> "reset", session |-> s, capture |-> NoCapture, pc |-> "find"]]
  /\ UNCHANGED <<sessionVars, recordVars, engineVars, held>>

StopCapture(t, c) ==
  /\ At(t, "idle")
  /\ call' = [call EXCEPT ![t] = [op |-> "capture", session |-> target[c], capture |-> c, pc |-> "lookup"]]
  /\ UNCHANGED <<sessionVars, recordVars, engineVars, held>>

LiveCaptures_NotStopping(s) == {c \in listed : target[c] = s /\ capture[c] = "CAPTURING"}
LiveCaptures(s) == {c \in listed : target[c] = s /\ capture[c] \in Live}

AfterStop(t) == IF call[t].op = "stop" THEN "flush" ELSE "delete"

\* StopForSession looks for a live capture of the session.
FindCapture(t) ==
  /\ At(t, "find") /\ CaptureLock
  /\ IF LiveCaptures(call[t].session) = {}
     THEN Goto(t, AfterStop(t))
     ELSE \E c \in LiveCaptures(call[t].session) :
            call' = [call EXCEPT ![t].capture = c, ![t].pc = "lookup"]
  /\ UNCHANGED <<sessionVars, recordVars, engineVars, held>>

\* Service.Stop: the record, then its state, are read in two sections.
LookUp(t) ==
  /\ At(t, "lookup") /\ CaptureLock
  /\ IF call[t].capture \in listed THEN Goto(t, "mark") ELSE Return(t)
  /\ UNCHANGED <<sessionVars, recordVars, engineVars, held>>

MarkStopping_Rereads(t) ==
  LET c == call[t].capture IN
  /\ At(t, "mark") /\ CaptureLock
  /\ Goto(t, "settle")
  /\ capture' = IF capture[c] = "CAPTURING" THEN [capture EXCEPT ![c] = "STOPPING"] ELSE capture
  /\ UNCHANGED <<sessionVars, target, listed, activeID, starting, engineVars, held>>

MarkStopping(t) ==
  LET c == call[t].capture IN
  /\ At(t, "mark") /\ CaptureLock
  /\ IF capture[c] = "CAPTURING"
     THEN capture' = [capture EXCEPT ![c] = "STOPPING"] /\ Goto(t, "cancel")
     ELSE Goto(t, "settle") /\ UNCHANGED capture
  /\ UNCHANGED <<sessionVars, target, listed, activeID, starting, engineVars, held>>

CancelProcess(t) ==
  /\ At(t, "cancel")
  /\ process' = Cancelled(call[t].capture)
  /\ Goto(t, "wait")
  /\ UNCHANGED <<sessionVars, recordVars, done, reader, waiter, held>>

\* The process has ended, or the caller's own context has.
AwaitExit(t) ==
  LET c == call[t].capture IN
  /\ At(t, "wait")
  /\ \/ /\ done[c] # "open"
        /\ Receive(c)
        /\ IF done[c] = "err" THEN Return(t) ELSE Goto(t, "settle")
     \/ Return(t) /\ UNCHANGED done
  /\ UNCHANGED <<sessionVars, recordVars, process, reader, waiter, held>>

SettleStopped_Overwrites(t) ==
  LET c == call[t].capture IN
  /\ At(t, "settle") /\ CaptureLock
  /\ capture'  = [capture EXCEPT ![c] = "STOPPED"]
  /\ activeID' = IF activeID = c THEN NoCapture ELSE activeID
  /\ IF call[t].op = "capture" THEN Return(t) ELSE Goto(t, AfterStop(t))
  /\ UNCHANGED <<sessionVars, target, listed, starting, engineVars, held>>

SettleStopped_ClearsAnySlot(t) ==
  LET c == call[t].capture IN
  /\ At(t, "settle") /\ CaptureLock
  /\ capture'  = [capture EXCEPT ![c] = IF @ = "FAILED" THEN @ ELSE "STOPPED"]
  /\ activeID' = NoCapture
  /\ IF call[t].op = "capture" THEN Return(t) ELSE Goto(t, AfterStop(t))
  /\ UNCHANGED <<sessionVars, target, listed, starting, engineVars, held>>

SettleStopped(t) ==
  LET c == call[t].capture IN
  /\ At(t, "settle") /\ CaptureLock
  /\ capture'  = [capture EXCEPT ![c] = IF @ = "FAILED" THEN @ ELSE "STOPPED"]
  /\ activeID' = IF activeID = c THEN NoCapture ELSE activeID
  /\ IF call[t].op = "capture" THEN Return(t) ELSE Goto(t, AfterStop(t))
  /\ UNCHANGED <<sessionVars, target, listed, starting, engineVars, held>>

\* flow.StopForSession finalises the pending windows, unless the context ended.
FlushFlows(t) ==
  /\ At(t, "flush")
  /\ \/ /\ held' = [held EXCEPT ![call[t].session] = @ \ {"pending"}]
        /\ Goto(t, "write")
     \/ Return(t) /\ UNCHANGED held
  /\ UNCHANGED <<sessionVars, recordVars, engineVars>>

\* capture.ResetForSession deletes the records of the session.
DeleteRecords(t) ==
  /\ At(t, "delete") /\ CaptureLock
  /\ listed' = {c \in listed : target[c] # call[t].session}
  /\ Goto(t, "clearFlows")
  /\ UNCHANGED <<sessionVars, capture, target, activeID, starting, engineVars, held>>

ClearFlows(t) ==
  /\ At(t, "clearFlows")
  /\ \/ /\ held' = [held EXCEPT ![call[t].session] = @ \ {"flow", "pending"}]
        /\ Goto(t, "clearObservations")
     \/ Return(t) /\ UNCHANGED held
  /\ UNCHANGED <<sessionVars, recordVars, engineVars>>

ClearObservations(t) ==
  /\ At(t, "clearObservations")
  /\ held' = [held EXCEPT ![call[t].session] = @ \ {"observation"}]
  /\ Goto(t, "write")
  /\ UNCHANGED <<sessionVars, recordVars, engineVars>>

WriteSession_Stopping(t) ==
  /\ At(t, "write")
  /\ session' = [session EXCEPT ![call[t].session] = "STOPPING"]
  /\ Return(t)
  /\ UNCHANGED <<owner, recordVars, engineVars, held>>

\* The state is written without another look at it.
WriteSession(t) ==
  LET s == call[t].session IN
  /\ At(t, "write")
  /\ IF call[t].op = "stop"
     THEN session' = [session EXCEPT ![s] = "STOPPED"] /\ UNCHANGED owner
     ELSE /\ session' = [session EXCEPT ![s] = "EMPTY"]
          /\ owner'   = [owner EXCEPT ![s] = NoCapture]
  /\ Return(t)
  /\ UNCHANGED <<recordVars, engineVars, held>>

-----------------------------------------------------------------------------
Engine(c) == EngineStarts(c) \/ Started(c) \/ StartFails(c)
Waiter(c) == AwaitReceives(c) \/ AwaitSettles(c)
Reader(c) == ReaderDecodes(c) \/ ReaderObserves(c) \/ ReaderFeedsFlow(c)
StopStep(t) == FindCapture(t) \/ LookUp(t) \/ MarkStopping(t) \/ CancelProcess(t)
                \/ AwaitExit(t) \/ SettleStopped(t)
HookStep(t) == FlushFlows(t) \/ DeleteRecords(t) \/ ClearFlows(t)
                \/ ClearObservations(t) \/ WriteSession(t)

Next ==
  \/ \E s \in Sessions : Create(s)
  \/ \E s \in Sessions, c \in Captures : Start(s, c)
  \/ \E c \in Captures : Engine(c) \/ ProcessExits(c) \/ Waiter(c) \/ Reader(c)
  \/ \E t \in Callers, s \in Sessions : StopSession(t, s) \/ ResetSession(t, s)
  \/ \E t \in Callers, c \in Captures : StopCapture(t, c)
  \/ \E t \in Callers : StopStep(t) \/ HookStep(t)

Spec == Init /\ [][Next]_vars

\* Goroutines are scheduled, Start returns within its timeout, and a process
\* whose context is cancelled is killed; nothing makes a process end by itself.
Fairness ==
  /\ \A c \in Captures :
       /\ WF_vars(Engine(c))
       /\ WF_vars(process[c] = "cancelled" /\ ProcessExits(c))
       /\ WF_vars(Waiter(c))
       /\ WF_vars(Reader(c))
  /\ \A t \in Callers : WF_vars(StopStep(t)) /\ WF_vars(HookStep(t))

FairSpec == Spec /\ Fairness

-----------------------------------------------------------------------------
\* Every variable has its type.
TypeOK ==
  /\ session \in [Sessions -> SessionState]
  /\ owner \in [Sessions -> Captures \cup {NoCapture}]
  /\ capture \in [Captures -> CaptureState]
  /\ target \in [Captures -> Sessions \cup {NoSession}]
  /\ listed \subseteq Captures
  /\ activeID \in Captures \cup {NoCapture}
  /\ starting \in Captures \cup {NoCapture}
  /\ process \in [Captures -> {"off", "running", "cancelled", "exited"}]
  /\ done \in [Captures -> {"open", "ok", "err", "closed"}]
  /\ reader \in [Captures -> {"off", "reading", "decoded", "observed", "ended"}]
  /\ waiter \in [Captures -> {"off", "waiting", "failed", "ended", "returned"}]
  /\ held \in [Sessions -> SUBSET Stores]
  /\ call \in [Callers -> CallType]

\* The slot that refuses a second capture is taken exactly as long as a record
\* is live: a slot left behind would refuse every later capture, a slot cleared
\* by the stop of an older capture would admit two.
ActiveSlot == \A c \in Captures : capture[c] \in Live <=> activeID = c

\* A reset deletes the records of a session, and with a record the only handle
\* that can stop its process: by then the record must be settled.
ForgottenIsSettled ==
  \A c \in Captures : capture[c] \in Live => c \in listed

\* A capture that has ended keeps its verdict: neither the goroutine that awaits
\* the process nor a Stop that comes late turns FAILED into STOPPED or back.
VerdictIsFinal ==
  [][\A c \in Captures : capture[c] \in Settled => capture'[c] = capture[c]]_vars

\* A session that was stopped or reset never captures again: Stop, Reset and a
\* failing Start write the state without looking at it, and none of them may
\* give a finished session back to BeginCapture.
EndedNeverRuns ==
  [][\A s \in Sessions : session[s] \in {"STOPPED", "EMPTY"}
                           => session'[s] \in {"STOPPED", "EMPTY"}]_vars

\* What has ended stays ended, whoever writes last: captures and sessions.
EndsAreFinal == VerdictIsFinal /\ EndedNeverRuns

\* Observations and flows are kept until a reset of a stopped session; stopping,
\* failing or losing the capture discards nothing.
KeptUntilReset ==
  [][\A s \in Sessions : ~ (held[s] \ {"pending"} \subseteq held'[s])
                           => session[s] \in {"STOPPED", "EMPTY"}]_vars

\* The process of every capture that was asked to stop, or is reported as ended,
\* is eventually gone, though Stop may return early and may skip the handle when
\* another Stop is under way.
StoppedProcessExits ==
  \A c \in Captures : capture[c] \in {"STOPPING"} \cup Settled ~> process[c] = "exited"

\* When the process ends, by a Stop, a limit or by itself, the slot is given back
\* without anybody calling Stop.
ExitFreesSlot ==
  \A c \in Captures : process[c] = "exited" ~> activeID # c

\* A stop gets through to the process, and the end of the process to the slot.
StopsComplete == StoppedProcessExits /\ ExitFreesSlot

\* "a capture is already running" (capture/service.go:200): a Start is refused
\* while the process of another capture runs.
OneProcess ==
  \A c, d \in Captures : process[c] = "running" /\ process[d] = "running" => c = d
=============================================================================
