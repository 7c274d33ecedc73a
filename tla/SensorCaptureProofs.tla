------------------------- MODULE SensorCaptureProofs -------------------------
(***************************************************************************)
(* Proofs about SensorCapture for any sets of sessions, captures and       *)
(* callers.  The argument has two parts: the slot is reserved while a      *)
(* Start is under way (Reserved), and a reset that has looked for a live   *)
(* capture of its session can only be overtaken by the one it found        *)
(* (ResetSeesAll), because an ended session is never given back to         *)
(* BeginCapture.                                                           *)
(***************************************************************************)
EXTENDS SensorCapture, TLAPS

Ended == {"STOPPED", "EMPTY"}

\* While Start holds the mutex the slot is free and only its record is STARTING.
Reserved == starting # NoCapture => activeID = NoCapture /\ capture[starting] = "STARTING"

\* The operation and the place of a caller fit together.
CallFits ==
  \A t \in Callers :
    /\ call[t].pc = "find" => call[t].op \in {"stop", "reset"}
    /\ call[t].pc \in {"delete", "clearFlows", "clearObservations"} => call[t].op = "reset"
    /\ call[t].op = "reset" => call[t].session \in Sessions
    /\ call[t].pc # "idle" => call[t].op # "none"

\* A session that is being reset has ended.
ResetIsOfEnded == \A t \in Callers : call[t].op = "reset" => session[call[t].session] \in Ended

Stopping == {"lookup", "mark", "cancel", "wait", "settle"}

\* Once a reset has looked, only the capture it is stopping may still be live.
ResetSeesAll ==
  \A t \in Callers, c \in Captures :
    call[t].op = "reset" /\ target[c] = call[t].session /\ (capture[c] \in Live \/ starting = c)
      => call[t].pc = "find" \/ (call[t].pc \in Stopping /\ call[t].capture = c)

SlotInv  == Reserved /\ ActiveSlot
ResetInv == CallFits /\ ResetIsOfEnded /\ ResetSeesAll /\ ForgottenIsSettled
Inv      == TypeOK /\ SlotInv /\ ResetInv

-----------------------------------------------------------------------------
(* Type correctness. *)

LEMMA TypeInit == Init => TypeOK
BY DEF Init, TypeOK, SessionState, CaptureState, Stores, Pc, Idle, CallType

\* A caller's record keeps its type when the caller moves, finds a capture, gets
\* a new request or returns.
LEMMA RecordTypes ==
  ASSUME NEW r \in CallType
  PROVE  /\ \A pc \in Pc : [r EXCEPT !.pc = pc] \in CallType
         /\ \A c \in Captures : [r EXCEPT !.capture = c, !.pc = "lookup"] \in CallType
         /\ Idle \in CallType
BY DEF CallType, Pc, Idle

LEMMA CallTypes ==
  ASSUME TypeOK, NEW t \in Callers
  PROVE  /\ \A pc \in Pc : [call EXCEPT ![t].pc = pc] \in [Callers -> CallType]
         /\ \A c \in Captures :
              [call EXCEPT ![t].capture = c, ![t].pc = "lookup"] \in [Callers -> CallType]
         /\ [call EXCEPT ![t] = Idle] \in [Callers -> CallType]
         /\ \A r \in CallType : [call EXCEPT ![t] = r] \in [Callers -> CallType]
<1>1. call \in [Callers -> CallType] /\ call[t] \in CallType
  BY DEF TypeOK
<1>2. /\ \A pc \in Pc : [call[t] EXCEPT !.pc = pc] \in CallType
      /\ \A c \in Captures : [call[t] EXCEPT !.capture = c, !.pc = "lookup"] \in CallType
      /\ Idle \in CallType
  BY <1>1, RecordTypes
<1>3. ASSUME NEW c \in Captures
      PROVE  [call EXCEPT ![t].capture = c, ![t].pc = "lookup"]
               = [call EXCEPT ![t] = [call[t] EXCEPT !.capture = c, !.pc = "lookup"]]
  BY <1>1 DEF CallType
<1> QED BY <1>1, <1>2, <1>3

LEMMA TypeStep == TypeOK /\ [Next]_vars => TypeOK'
<1> SUFFICES ASSUME TypeOK, [Next]_vars PROVE TypeOK'
  OBVIOUS
<1> USE DEF TypeOK
<1>1. ASSUME NEW s \in Sessions, Create(s) PROVE TypeOK'
  BY <1>1 DEF Create, SessionState, recordVars, engineVars
<1>2. ASSUME NEW s \in Sessions, NEW c \in Captures, Start(s, c) PROVE TypeOK'
  BY <1>2 DEF Start, BeginCapture, SessionState, CaptureState, engineVars
<1>3. ASSUME NEW c \in Captures, EngineStarts(c) PROVE TypeOK'
  BY <1>3 DEF EngineStarts, sessionVars, recordVars
<1>4. ASSUME NEW c \in Captures, Started(c) PROVE TypeOK'
  BY <1>4 DEF Started, CaptureState, sessionVars
<1>5. ASSUME NEW c \in Captures, StartFails(c) PROVE TypeOK'
  BY <1>5 DEF StartFails, CaptureStartFailed, SessionState, CaptureState, sessionVars, engineVars
<1>6. ASSUME NEW c \in Captures, ProcessExits(c) PROVE TypeOK'
  BY <1>6 DEF ProcessExits, sessionVars, recordVars
<1>7. ASSUME NEW c \in Captures, AwaitReceives(c) PROVE TypeOK'
  BY <1>7 DEF AwaitReceives, Receive, sessionVars, recordVars
<1>8. ASSUME NEW c \in Captures, AwaitSettles(c) PROVE TypeOK'
  BY <1>8 DEF AwaitSettles, CaptureState, sessionVars
<1>9. ASSUME NEW c \in Captures, ReaderDecodes(c) PROVE TypeOK'
  BY <1>9 DEF ReaderDecodes, sessionVars, recordVars
<1>10. ASSUME NEW c \in Captures, ReaderObserves(c) PROVE TypeOK'
  BY <1>10 DEF ReaderObserves, Stores, sessionVars, recordVars
<1>11. ASSUME NEW c \in Captures, ReaderFeedsFlow(c) PROVE TypeOK'
  BY <1>11 DEF ReaderFeedsFlow, Cancelled, Stores, sessionVars, recordVars
<1>12. ASSUME NEW t \in Callers, NEW s \in Sessions, StopSession(t, s) \/ ResetSession(t, s)
       PROVE  TypeOK'
  <2>1. PICK op \in {"stop", "reset"} :
          call' = [call EXCEPT ![t] = [op |-> op, session |-> s, capture |-> NoCapture, pc |-> "find"]]
    BY <1>12 DEF StopSession, ResetSession
  <2>2. [op |-> op, session |-> s, capture |-> NoCapture, pc |-> "find"] \in CallType
    BY DEF CallType, Pc
  <2>3. call' \in [Callers -> CallType]
    BY <2>1, <2>2, CallTypes
  <2> QED BY <1>12, <2>3 DEF StopSession, ResetSession, sessionVars, recordVars, engineVars
<1>13. ASSUME NEW t \in Callers, NEW c \in Captures, StopCapture(t, c) PROVE TypeOK'
  <2>1. [op |-> "capture", session |-> target[c], capture |-> c, pc |-> "lookup"] \in CallType
    BY DEF CallType, Pc
  <2>2. call' \in [Callers -> CallType]
    BY <1>13, <2>1, CallTypes DEF StopCapture
  <2> QED BY <1>13, <2>2 DEF StopCapture, sessionVars, recordVars, engineVars
<1>14. ASSUME NEW t \in Callers, StopStep(t) PROVE TypeOK'
  <2>1. call' \in [Callers -> CallType]
    <3>1. \/ \E pc \in Pc : call' = [call EXCEPT ![t].pc = pc]
          \/ \E c \in Captures : call' = [call EXCEPT ![t].capture = c, ![t].pc = "lookup"]
          \/ call' = [call EXCEPT ![t] = Idle]
      <4>1. CASE FindCapture(t)
        BY <4>1 DEF FindCapture, LiveCaptures, Goto, AfterStop, Pc
      <4>2. CASE LookUp(t) \/ MarkStopping(t) \/ CancelProcess(t)
        BY <4>2 DEF LookUp, MarkStopping, CancelProcess, Goto, Return, Pc
      <4>3. CASE AwaitExit(t)
        BY <4>3 DEF AwaitExit, Goto, Return, Pc
      <4>4. CASE SettleStopped(t)
        BY <4>4 DEF SettleStopped, Goto, Return, AfterStop, Pc
      <4> QED BY <1>14, <4>1, <4>2, <4>3, <4>4 DEF StopStep
    <3>2. ASSUME NEW pc \in Pc, call' = [call EXCEPT ![t].pc = pc]
          PROVE  call' \in [Callers -> CallType]
      <4>1. [call EXCEPT ![t].pc = pc] \in [Callers -> CallType]
        BY CallTypes
      <4> QED BY <3>2, <4>1
    <3>3. ASSUME NEW c \in Captures, call' = [call EXCEPT ![t].capture = c, ![t].pc = "lookup"]
          PROVE  call' \in [Callers -> CallType]
      <4>1. [call EXCEPT ![t].capture = c, ![t].pc = "lookup"] \in [Callers -> CallType]
        BY CallTypes
      <4> QED BY <3>3, <4>1
    <3>4. CASE call' = [call EXCEPT ![t] = Idle]
      BY <3>4, CallTypes
    <3> QED BY <3>1, <3>2, <3>3, <3>4
  <2>2. CASE FindCapture(t) \/ LookUp(t)
    BY <2>1, <2>2 DEF FindCapture, LookUp, sessionVars, recordVars, engineVars
  <2>3. CASE MarkStopping(t)
    BY <2>1, <2>3 DEF MarkStopping, CaptureState, sessionVars, engineVars
  <2>4. CASE CancelProcess(t)
    BY <2>1, <2>4 DEF CancelProcess, Cancelled, sessionVars, recordVars
  <2>5. CASE AwaitExit(t)
    BY <2>1, <2>5 DEF AwaitExit, Receive, sessionVars, recordVars
  <2>6. CASE SettleStopped(t)
    BY <2>1, <2>6 DEF SettleStopped, CaptureState, sessionVars, engineVars
  <2> QED BY <1>14, <2>2, <2>3, <2>4, <2>5, <2>6 DEF StopStep
<1>15. ASSUME NEW t \in Callers, HookStep(t) PROVE TypeOK'
  <2>1. call' \in [Callers -> CallType]
    <3>1. \/ \E pc \in Pc : call' = [call EXCEPT ![t].pc = pc]
          \/ call' = [call EXCEPT ![t] = Idle]
      BY <1>15 DEF HookStep, FlushFlows, DeleteRecords, ClearFlows, ClearObservations, WriteSession,
                   Goto, Return, Pc
    <3>2. ASSUME NEW pc \in Pc, call' = [call EXCEPT ![t].pc = pc]
          PROVE  call' \in [Callers -> CallType]
      <4>1. [call EXCEPT ![t].pc = pc] \in [Callers -> CallType]
        BY CallTypes
      <4> QED BY <3>2, <4>1
    <3>3. CASE call' = [call EXCEPT ![t] = Idle]
      BY <3>3, CallTypes
    <3> QED BY <3>1, <3>2, <3>3
  <2>2. CASE FlushFlows(t) \/ ClearFlows(t) \/ ClearObservations(t)
    BY <2>1, <2>2 DEF FlushFlows, ClearFlows, ClearObservations, Stores,
                      sessionVars, recordVars, engineVars
  <2>3. CASE DeleteRecords(t)
    BY <2>1, <2>3 DEF DeleteRecords, sessionVars, engineVars
  <2>4. CASE WriteSession(t)
    BY <2>1, <2>4 DEF WriteSession, SessionState, recordVars, engineVars
  <2> QED BY <1>15, <2>2, <2>3, <2>4 DEF HookStep
<1>16. CASE UNCHANGED vars
  BY <1>16 DEF vars, sessionVars, recordVars, engineVars
<1> QED BY <1>1, <1>2, <1>3, <1>4, <1>5, <1>6, <1>7, <1>8, <1>9, <1>10, <1>11, <1>12, <1>13, <1>14,
           <1>15, <1>16 DEF Next, Engine, Waiter, Reader

\* Every variable keeps its type, for any sets of sessions, captures and callers.
THEOREM TypeCorrect == Spec => []TypeOK
BY TypeInit, TypeStep, PTL DEF Spec

-----------------------------------------------------------------------------
(* The slot. *)

SlotSteps ==
  \/ UNCHANGED <<capture, activeID, starting>>
  \/ \E s \in Sessions, c \in Captures : Start(s, c)
  \/ \E c \in Captures : Started(c) \/ StartFails(c) \/ AwaitSettles(c)
  \/ \E t \in Callers : MarkStopping(t) \/ SettleStopped(t)

\* Only these steps touch the records' states or the slot.
LEMMA StepsOfSlot == [Next]_vars => SlotSteps
<1> SUFFICES ASSUME [Next]_vars PROVE SlotSteps
  OBVIOUS
<1> USE DEF SlotSteps, recordVars
<1>1. ASSUME NEW s \in Sessions, Create(s) PROVE SlotSteps
  BY <1>1 DEF Create
<1>2. ASSUME NEW c \in Captures, Engine(c) \/ ProcessExits(c) \/ Waiter(c) PROVE SlotSteps
  BY <1>2 DEF Engine, Waiter, EngineStarts, ProcessExits, AwaitReceives
<1>3. ASSUME NEW c \in Captures, Reader(c) PROVE SlotSteps
  BY <1>3 DEF Reader, ReaderDecodes, ReaderObserves, ReaderFeedsFlow
<1>4. ASSUME NEW t \in Callers, NEW s \in Sessions, StopSession(t, s) \/ ResetSession(t, s)
      PROVE  SlotSteps
  BY <1>4 DEF StopSession, ResetSession
<1>5. ASSUME NEW t \in Callers, NEW c \in Captures, StopCapture(t, c) PROVE SlotSteps
  BY <1>5 DEF StopCapture
<1>6. ASSUME NEW t \in Callers, StopStep(t) PROVE SlotSteps
  BY <1>6 DEF StopStep, FindCapture, LookUp, CancelProcess, AwaitExit
<1>7. ASSUME NEW t \in Callers, HookStep(t) PROVE SlotSteps
  BY <1>7 DEF HookStep, FlushFlows, DeleteRecords, ClearFlows, ClearObservations, WriteSession
<1>8. CASE UNCHANGED vars
  BY <1>8 DEF vars
<1> QED BY <1>1, <1>2, <1>3, <1>4, <1>5, <1>6, <1>7, <1>8 DEF Next

LEMMA SlotInit == Init => SlotInv
BY SensorAssumption DEF Init, SlotInv, Reserved, ActiveSlot, Live

LEMMA SlotStep == TypeOK /\ SlotInv /\ [Next]_vars => SlotInv'
<1> SUFFICES ASSUME TypeOK, SlotInv, [Next]_vars PROVE SlotInv'
  OBVIOUS
<1>1. capture \in [Captures -> CaptureState] /\ NoCapture \notin Captures
  BY SensorAssumption DEF TypeOK
<1> USE DEF SlotInv, Reserved, ActiveSlot, Live
<1>2. CASE UNCHANGED <<capture, activeID, starting>>
  BY <1>2
<1>3. ASSUME NEW s \in Sessions, NEW c \in Captures, Start(s, c) PROVE SlotInv'
  BY <1>1, <1>3 DEF Start
<1>4. ASSUME NEW c \in Captures, Started(c) PROVE SlotInv'
  BY <1>1, <1>4 DEF Started
<1>5. ASSUME NEW c \in Captures, StartFails(c) PROVE SlotInv'
  BY <1>1, <1>5 DEF StartFails
<1>6. ASSUME NEW c \in Captures, AwaitSettles(c) PROVE SlotInv'
  BY <1>1, <1>6 DEF AwaitSettles
<1>7. ASSUME NEW t \in Callers, MarkStopping(t) PROVE SlotInv'
  BY <1>1, <1>7 DEF MarkStopping, CaptureLock
<1>8. ASSUME NEW t \in Callers, SettleStopped(t) PROVE SlotInv'
  BY <1>1, <1>8 DEF SettleStopped, CaptureLock
<1> QED BY <1>2, <1>3, <1>4, <1>5, <1>6, <1>7, <1>8, StepsOfSlot DEF SlotSteps

\* A record is live exactly while it holds the slot: no capture is refused for a
\* slot left behind and none is admitted beside a live one.
THEOREM SlotIsExact == Spec => []ActiveSlot
<1>1. SlotInv => ActiveSlot
  BY DEF SlotInv
<1> QED BY TypeInit, TypeStep, SlotInit, SlotStep, <1>1, PTL DEF Spec

\* Whoever comes last, a capture that has ended keeps its verdict.
THEOREM VerdictStays == Spec => VerdictIsFinal
<1>1. TypeOK /\ SlotInv /\ [Next]_vars
        => [\A c \in Captures : capture[c] \in Settled => capture'[c] = capture[c]]_vars
  <2> SUFFICES ASSUME TypeOK, SlotInv, [Next]_vars, NEW d \in Captures, capture[d] \in Settled
               PROVE  capture'[d] = capture[d]
    OBVIOUS
  <2>1. capture \in [Captures -> CaptureState] /\ NoCapture \notin Captures
    BY SensorAssumption DEF TypeOK
  <2> USE DEF Settled, Live
  <2>2. ASSUME NEW s \in Sessions, NEW c \in Captures, Start(s, c) PROVE capture'[d] = capture[d]
    BY <2>1, <2>2 DEF Start
  <2>3. ASSUME NEW c \in Captures, Started(c) \/ StartFails(c) PROVE capture'[d] = capture[d]
    BY <2>1, <2>3 DEF Started, StartFails, SlotInv, Reserved
  <2>4. ASSUME NEW c \in Captures, AwaitSettles(c) PROVE capture'[d] = capture[d]
    BY <2>1, <2>4 DEF AwaitSettles
  <2>5. ASSUME NEW t \in Callers, MarkStopping(t) \/ SettleStopped(t) PROVE capture'[d] = capture[d]
    BY <2>1, <2>5 DEF MarkStopping, SettleStopped
  <2> QED BY <2>2, <2>3, <2>4, <2>5, StepsOfSlot DEF SlotSteps
<1> QED BY <1>1, TypeInit, TypeStep, SlotInit, SlotStep, PTL DEF Spec, VerdictIsFinal

-----------------------------------------------------------------------------
(* Sessions that have ended, and the resets of them. *)

\* No step takes a session out of STOPPED and EMPTY.
LEMMA EndedStays ==
  ASSUME TypeOK, [Next]_vars, NEW s \in Sessions, session[s] \in Ended
  PROVE  session'[s] \in Ended
<1> USE DEF Ended
<1>1. session \in [Sessions -> SessionState]
  BY DEF TypeOK
<1>2. ASSUME NEW r \in Sessions, Create(r) PROVE session'[s] \in Ended
  BY <1>1, <1>2 DEF Create
<1>3. ASSUME NEW r \in Sessions, NEW c \in Captures, Start(r, c) PROVE session'[s] \in Ended
  BY <1>1, <1>3 DEF Start, BeginCapture
<1>4. ASSUME NEW c \in Captures, StartFails(c) PROVE session'[s] \in Ended
  BY <1>1, <1>4 DEF StartFails, CaptureStartFailed, sessionVars
<1>5. ASSUME NEW c \in Captures, \/ EngineStarts(c) \/ Started(c) \/ ProcessExits(c)
                                 \/ Waiter(c) \/ Reader(c)
      PROVE  session' = session
  BY <1>5 DEF EngineStarts, Started, ProcessExits, Waiter, AwaitReceives, AwaitSettles,
              Reader, ReaderDecodes, ReaderObserves, ReaderFeedsFlow, sessionVars
<1>6. ASSUME NEW t \in Callers, NEW r \in Sessions, StopSession(t, r) \/ ResetSession(t, r)
      PROVE  session' = session
  BY <1>6 DEF StopSession, ResetSession, sessionVars
<1>7. ASSUME NEW t \in Callers, StopStep(t) PROVE session' = session
  BY <1>7 DEF StopStep, FindCapture, LookUp, MarkStopping, CancelProcess, AwaitExit, SettleStopped,
              sessionVars
<1>8. ASSUME NEW t \in Callers, WriteSession(t) PROVE session'[s] \in Ended
  BY <1>1, <1>8 DEF WriteSession
<1>9. ASSUME NEW t \in Callers, \/ FlushFlows(t) \/ DeleteRecords(t)
                                \/ ClearFlows(t) \/ ClearObservations(t)
      PROVE  session' = session
  BY <1>9 DEF FlushFlows, DeleteRecords, ClearFlows, ClearObservations, sessionVars
<1>10. CASE UNCHANGED vars
  BY <1>10 DEF vars, sessionVars
<1>11. ASSUME NEW t \in Callers, NEW c \in Captures, StopCapture(t, c) PROVE session' = session
  BY <1>11 DEF StopCapture, sessionVars
<1> QED BY <1>2, <1>3, <1>4, <1>5, <1>6, <1>7, <1>8, <1>9, <1>10, <1>11
   DEF Next, Engine, HookStep

\* A session that was stopped or reset never captures again.
THEOREM EndedIsFinal == Spec => EndedNeverRuns
<1>1. TypeOK /\ [Next]_vars
        => [\A s \in Sessions : session[s] \in {"STOPPED", "EMPTY"}
                                  => session'[s] \in {"STOPPED", "EMPTY"}]_vars
  BY EndedStays DEF Ended
<1> QED BY <1>1, TypeInit, TypeStep, PTL DEF Spec, EndedNeverRuns

LEMMA ResetInit == Init => ResetInv
BY SensorAssumption DEF Init, Idle, ResetInv, CallFits, ResetIsOfEnded, ResetSeesAll,
   ForgottenIsSettled, Live, Ended

\* The callers do not move in the other steps.
LEMMA ResetBackground ==
  ASSUME Inv, [Next]_vars, call' = call,
         listed \subseteq listed' /\ listed' \subseteq Captures,
         \A c \in Captures : \/ capture'[c] \notin Live /\ starting' # c
                             \/ (capture[c] \in Live \/ starting = c) /\ target'[c] = target[c],
         \A c \in Captures : capture'[c] \in Live => capture[c] \in Live \/ c \in listed'
  PROVE  ResetInv'
<1> USE DEF Inv, ResetInv
<1>1. CallFits'
  BY DEF CallFits
<1>2. ResetIsOfEnded'
  BY EndedStays DEF ResetIsOfEnded, CallFits
<1>3. ResetSeesAll'
  BY DEF ResetSeesAll
<1>4. ForgottenIsSettled'
  BY DEF ForgottenIsSettled
<1> QED BY <1>1, <1>2, <1>3, <1>4

\* What a step of caller t must keep is a matter of t's own record.
LEMMA ResetCaller ==
  ASSUME Inv, [Next]_vars, NEW t \in Callers,
         \A u \in Callers \ {t} : call'[u] = call[u],
         UNCHANGED <<target, starting>>,
         \A c \in Captures : capture'[c] \in Live => capture[c] \in Live /\ c \in listed',
         call'[t].pc = "find" => call'[t].op \in {"stop", "reset"},
         call'[t].pc \in {"delete", "clearFlows", "clearObservations"} => call'[t].op = "reset",
         call'[t].pc # "idle" => call'[t].op # "none",
         call'[t].op = "reset" =>
           /\ call'[t].session \in Sessions /\ session[call'[t].session] \in Ended
           /\ \A c \in Captures : target[c] = call'[t].session /\ (capture'[c] \in Live \/ starting = c)
                => call'[t].pc = "find" \/ (call'[t].pc \in Stopping /\ call'[t].capture = c)
  PROVE  ResetInv'
<1> USE DEF Inv, ResetInv
<1>1. CallFits'
  BY DEF CallFits
<1>2. ResetIsOfEnded'
  BY EndedStays DEF ResetIsOfEnded, CallFits
<1>3. ResetSeesAll'
  BY DEF ResetSeesAll
<1>4. ForgottenIsSettled'
  BY DEF ForgottenIsSettled
<1> QED BY <1>1, <1>2, <1>3, <1>4

LEMMA ResetStep == Inv /\ [Next]_vars => ResetInv'
<1> SUFFICES ASSUME Inv, [Next]_vars PROVE ResetInv'
  OBVIOUS
<1>0. /\ capture \in [Captures -> CaptureState] /\ NoCapture \notin Captures
      /\ target \in [Captures -> Sessions \cup {NoSession}] /\ NoSession \notin Sessions
      /\ call \in [Callers -> CallType] /\ listed \subseteq Captures
      /\ session \in [Sessions -> SessionState]
  BY SensorAssumption DEF Inv, TypeOK
<1>1. ASSUME NEW s \in Sessions, NEW c \in Captures, Start(s, c) PROVE ResetInv'
  <2>1. call' = call /\ listed' = listed
    BY <1>1 DEF Start
  <2>2. session[s] = "READY"
    BY <1>1 DEF Start, BeginCapture
  <2>3. /\ starting' = c /\ target' = [target EXCEPT ![c] = s]
        /\ capture' = [capture EXCEPT ![c] = "STARTING"] /\ starting = NoCapture
    BY <1>1 DEF Start
  <2>4. ForgottenIsSettled' /\ CallFits'
    BY <1>0, <2>1, <2>3 DEF Inv, ResetInv, ForgottenIsSettled, CallFits, Live
  <2>5. ResetIsOfEnded'
    BY <2>1, EndedStays DEF Inv, ResetInv, ResetIsOfEnded, CallFits
  <2>6. ResetSeesAll'
    BY <1>0, <2>1, <2>2, <2>3 DEF Inv, ResetInv, ResetIsOfEnded, ResetSeesAll, Live, Ended
  <2> QED BY <2>4, <2>5, <2>6 DEF ResetInv
<1>2. ASSUME NEW c \in Captures, Started(c) PROVE ResetInv'
  BY <1>0, <1>2, ResetBackground DEF Started, Live
<1>3. ASSUME NEW c \in Captures, StartFails(c) PROVE ResetInv'
  BY <1>0, <1>3, ResetBackground DEF StartFails, Live
<1>4. ASSUME NEW c \in Captures, AwaitSettles(c) PROVE ResetInv'
  BY <1>0, <1>4, ResetBackground DEF AwaitSettles, Live
<1>5. CASE call' = call /\ UNCHANGED recordVars
  BY <1>0, <1>5, ResetBackground DEF recordVars
<1>6. ASSUME NEW t \in Callers, NEW s \in Sessions, StopSession(t, s) PROVE ResetInv'
  <2>1. call'[t] = [op |-> "stop", session |-> s, capture |-> NoCapture, pc |-> "find"]
        /\ \A u \in Callers \ {t} : call'[u] = call[u]
    BY <1>0, <1>6 DEF StopSession
  <2> QED BY <1>0, <1>6, <2>1, ResetCaller DEF StopSession, recordVars, Inv, ResetInv, ForgottenIsSettled
<1>7. ASSUME NEW t \in Callers, NEW s \in Sessions, ResetSession(t, s) PROVE ResetInv'
  <2>1. call'[t] = [op |-> "reset", session |-> s, capture |-> NoCapture, pc |-> "find"]
        /\ \A u \in Callers \ {t} : call'[u] = call[u]
    BY <1>0, <1>7 DEF ResetSession
  <2> QED BY <1>0, <1>7, <2>1, ResetCaller
          DEF ResetSession, recordVars, Inv, ResetInv, ForgottenIsSettled, Ended
<1>8. ASSUME NEW t \in Callers, NEW c \in Captures, StopCapture(t, c) PROVE ResetInv'
  <2>1. call'[t] = [op |-> "capture", session |-> target[c], capture |-> c, pc |-> "lookup"]
        /\ \A u \in Callers \ {t} : call'[u] = call[u]
    BY <1>0, <1>8 DEF StopCapture
  <2> QED BY <1>0, <1>8, <2>1, ResetCaller DEF StopCapture, recordVars, Inv, ResetInv, ForgottenIsSettled
<1>9. ASSUME NEW t \in Callers, NEW place \in Pc, call' = [call EXCEPT ![t].pc = place]
      PROVE  /\ \A u \in Callers \ {t} : call'[u] = call[u]
             /\ call'[t].op = call[t].op /\ call'[t].session = call[t].session
             /\ call'[t].capture = call[t].capture /\ call'[t].pc = place
  BY <1>0, <1>9 DEF CallType
<1>10. ASSUME NEW t \in Callers, call' = [call EXCEPT ![t] = Idle], UNCHANGED recordVars
       PROVE  ResetInv'
  <2>1. call'[t] = Idle /\ \A u \in Callers \ {t} : call'[u] = call[u]
    BY <1>0, <1>10
  <2> QED BY <1>0, <1>10, <2>1, ResetCaller DEF Idle, recordVars, Inv, ResetInv, ForgottenIsSettled
<1>11. ASSUME NEW t \in Callers, NEW place \in Stopping \cup {"write", "flush"},
              call[t].pc \in Stopping, call' = [call EXCEPT ![t].pc = place], UNCHANGED <<target, starting, listed>>,
              \A c \in Captures : capture'[c] \in Live => capture[c] \in Live,
              place \in {"write", "flush"} => call[t].op # "reset"
       PROVE  ResetInv'
  <2>1. place \in Pc
    BY DEF Stopping, Pc
  <2>2. /\ \A u \in Callers \ {t} : call'[u] = call[u]
        /\ call'[t].op = call[t].op /\ call'[t].session = call[t].session
        /\ call'[t].capture = call[t].capture /\ call'[t].pc = place
    BY <1>9, <1>11, <2>1
  <2> QED BY <1>11, <2>2, ResetCaller
          DEF Inv, ResetInv, ForgottenIsSettled, CallFits, ResetIsOfEnded, ResetSeesAll, Stopping
<1>12. ASSUME NEW t \in Callers, FindCapture(t) PROVE ResetInv'
  <2> DEFINE s == call[t].session
  <2>1. call[t].pc = "find" /\ starting = NoCapture /\ UNCHANGED recordVars
    BY <1>12 DEF FindCapture, At, CaptureLock
  <2>2. CASE LiveCaptures(s) = {} /\ Goto(t, AfterStop(t))
    <3>1. /\ \A u \in Callers \ {t} : call'[u] = call[u]
          /\ call'[t].op = call[t].op /\ call'[t].session = call[t].session
          /\ call'[t].pc = AfterStop(t)
      BY <1>9, <2>2, ZenonT(40) DEF Goto, AfterStop, Pc
    <3>2. \A c \in Captures : target[c] = s => capture[c] \notin Live
      BY <2>2 DEF LiveCaptures, Inv, ResetInv, ForgottenIsSettled
    <3>3. call[t].op \in {"stop", "reset"}
      BY <2>1 DEF Inv, ResetInv, CallFits
    <3> QED BY <1>0, <2>1, <3>1, <3>2, <3>3, ResetCaller
            DEF AfterStop, recordVars, Inv, ResetInv, ForgottenIsSettled, CallFits, ResetIsOfEnded
  <2>3. ASSUME NEW c \in LiveCaptures(s), call' = [call EXCEPT ![t].capture = c, ![t].pc = "lookup"]
        PROVE  ResetInv'
    <3>1. /\ \A u \in Callers \ {t} : call'[u] = call[u]
          /\ call'[t].op = call[t].op /\ call'[t].session = call[t].session
          /\ call'[t].capture = c /\ call'[t].pc = "lookup"
      BY <1>0, <2>3 DEF CallType
    <3>2. \A d \in Captures : capture[d] \in Live => d = c
      <4>1. c \in Captures /\ capture[c] \in Live
        BY <1>0, <2>3 DEF LiveCaptures
      <4> QED BY <4>1 DEF Inv, SlotInv, ActiveSlot
    <3> QED BY <1>0, <2>1, <3>1, <3>2, ResetCaller
            DEF recordVars, Inv, ResetInv, ForgottenIsSettled, CallFits, ResetIsOfEnded, Stopping
  <2> QED BY <1>12, <2>2, <2>3 DEF FindCapture
<1>13. ASSUME NEW t \in Callers, LookUp(t) \/ CancelProcess(t) \/ AwaitExit(t) PROVE ResetInv'
  <2>1. call[t].pc \in Stopping /\ UNCHANGED recordVars
    BY <1>13 DEF LookUp, CancelProcess, AwaitExit, At, Stopping
  <2>2. \/ \E place \in Stopping : call' = [call EXCEPT ![t].pc = place]
        \/ call' = [call EXCEPT ![t] = Idle]
    BY <1>13 DEF LookUp, CancelProcess, AwaitExit, Goto, Return, Stopping
  <2>3. CASE call' = [call EXCEPT ![t] = Idle]
    BY <1>10, <2>1, <2>3
  <2>4. ASSUME NEW place \in Stopping, call' = [call EXCEPT ![t].pc = place] PROVE ResetInv'
    BY <1>11, <2>1, <2>4 DEF recordVars, Stopping
  <2> QED BY <2>2, <2>3, <2>4
<1>14. ASSUME NEW t \in Callers, MarkStopping(t) PROVE ResetInv'
  <2>1. call[t].pc \in Stopping /\ UNCHANGED <<target, starting, listed>>
    BY <1>14 DEF MarkStopping, At, Stopping
  <2>2. PICK place \in Stopping : call' = [call EXCEPT ![t].pc = place]
    BY <1>14 DEF MarkStopping, Goto, Stopping
  <2>3. \A c \in Captures : capture'[c] \in Live => capture[c] \in Live
    BY <1>0, <1>14 DEF MarkStopping, Live
  <2> QED BY <1>11, <2>1, <2>2, <2>3 DEF Stopping
<1>15. ASSUME NEW t \in Callers, SettleStopped(t) PROVE ResetInv'
  <2> DEFINE c == call[t].capture
  <2>1. /\ call[t].pc = "settle" /\ starting = NoCapture /\ UNCHANGED <<target, starting, listed>>
        /\ \A d \in Captures : capture'[d] \in Live => capture[d] \in Live /\ d # c
    BY <1>0, <1>15 DEF SettleStopped, At, CaptureLock, Live
  <2>2. CASE Return(t)
    <3>1. call'[t] = Idle /\ \A u \in Callers \ {t} : call'[u] = call[u]
      BY <1>0, <2>2 DEF Return
    <3> QED BY <2>1, <3>1, ResetCaller DEF Idle, Inv, ResetInv, ForgottenIsSettled
  <2>3. CASE Goto(t, AfterStop(t)) /\ call[t].op # "capture"
    <3>1. /\ \A u \in Callers \ {t} : call'[u] = call[u]
          /\ call'[t].op = call[t].op /\ call'[t].session = call[t].session
          /\ call'[t].pc = AfterStop(t)
      BY <1>9, <2>3 DEF Goto, AfterStop, Pc
    <3>2. call[t].op \in {"stop", "reset"}
      BY <1>0, <2>1, <2>3 DEF CallType, Inv, ResetInv, CallFits
    <3> QED BY <1>0, <2>1, <3>1, <3>2, ResetCaller
            DEF AfterStop, Inv, ResetInv, ForgottenIsSettled, CallFits, ResetIsOfEnded, ResetSeesAll,
                Stopping
  <2> QED BY <1>15, <2>2, <2>3 DEF SettleStopped
<1>16. ASSUME NEW t \in Callers, NEW place \in {"write", "clearFlows", "clearObservations"},
              call[t].pc \in {"flush", "delete", "clearFlows", "clearObservations"},
              place = "clearFlows" \/ place = "clearObservations" => call[t].op = "reset",
              call' = [call EXCEPT ![t].pc = place], UNCHANGED <<capture, target, starting>>,
              \A c \in Captures : capture[c] \in Live => c \in listed'
       PROVE  ResetInv'
  <2>1. /\ \A u \in Callers \ {t} : call'[u] = call[u]
        /\ call'[t].op = call[t].op /\ call'[t].session = call[t].session
        /\ call'[t].capture = call[t].capture /\ call'[t].pc = place
    BY <1>9, <1>16 DEF Pc
  <2> QED BY <1>16, <2>1, ResetCaller DEF Inv, ResetInv, CallFits, ResetIsOfEnded, ResetSeesAll, Stopping
<1>17. ASSUME NEW t \in Callers, FlushFlows(t) \/ ClearFlows(t) \/ ClearObservations(t)
       PROVE  ResetInv'
  <2>1. UNCHANGED recordVars /\ call[t].pc \in {"flush", "clearFlows", "clearObservations"}
    BY <1>17 DEF FlushFlows, ClearFlows, ClearObservations, At
  <2>2. CASE Return(t)
    BY <1>10, <2>1, <2>2 DEF Return
  <2>3. CASE Goto(t, "write")
    BY <1>16, <2>1, <2>3 DEF Goto, recordVars, Inv, ResetInv, ForgottenIsSettled
  <2>4. CASE Goto(t, "clearObservations") /\ call[t].pc = "clearFlows"
    BY <1>16, <2>1, <2>4 DEF Goto, recordVars, Inv, ResetInv, ForgottenIsSettled, CallFits
  <2> QED BY <1>17, <2>2, <2>3, <2>4 DEF FlushFlows, ClearFlows, ClearObservations, At
<1>18. ASSUME NEW t \in Callers, DeleteRecords(t) PROVE ResetInv'
  <2>1. call[t].pc = "delete" /\ call[t].op = "reset" /\ call' = [call EXCEPT ![t].pc = "clearFlows"]
    BY <1>18 DEF DeleteRecords, At, Goto, Inv, ResetInv, CallFits
  <2>2. \A c \in Captures : capture[c] \in Live => c \in listed'
    BY <1>18, <2>1 DEF DeleteRecords, Inv, ResetInv, ResetSeesAll, ForgottenIsSettled, Stopping
  <2> QED BY <1>16, <1>18, <2>1, <2>2 DEF DeleteRecords
<1>19. ASSUME NEW t \in Callers, WriteSession(t) PROVE ResetInv'
  BY <1>10, <1>19 DEF WriteSession, Return
<1>20. ASSUME NEW s \in Sessions, Create(s) PROVE ResetInv'
  BY <1>5, <1>20 DEF Create
<1>21. ASSUME NEW c \in Captures, \/ EngineStarts(c) \/ ProcessExits(c) \/ AwaitReceives(c)
                                  \/ Reader(c)
       PROVE  ResetInv'
  BY <1>5, <1>21 DEF EngineStarts, ProcessExits, AwaitReceives, Reader, ReaderDecodes, ReaderObserves,
                     ReaderFeedsFlow
<1>22. CASE UNCHANGED vars
  BY <1>5, <1>22 DEF vars
<1>23. ASSUME NEW t \in Callers, StopStep(t) \/ HookStep(t) PROVE ResetInv'
  BY <1>12, <1>13, <1>14, <1>15, <1>17, <1>18, <1>19, <1>23 DEF StopStep, HookStep
<1> QED BY <1>1, <1>2, <1>3, <1>4, <1>6, <1>7, <1>8, <1>20, <1>21, <1>22, <1>23
        DEF Next, Engine, Waiter

LEMMA InvStep == Inv /\ [Next]_vars => Inv'
BY TypeStep, SlotStep, ResetStep DEF Inv

LEMMA InvInit == Init => Inv
BY TypeInit, SlotInit, ResetInit DEF Inv

\* A reset never deletes the record of a live capture, and with it the only
\* handle that could stop the process.
THEOREM RecordsAreKept == Spec => []ForgottenIsSettled
<1>1. Inv => ForgottenIsSettled
  BY DEF Inv, ResetInv
<1> QED BY InvInit, InvStep, <1>1, PTL DEF Spec

\* Observations and flows leave a session only by the reset of a stopped one.
THEOREM DataIsKept == Spec => KeptUntilReset
<1>1. Inv /\ [Next]_vars
        => [\A s \in Sessions : ~ (held[s] \ {"pending"} \subseteq held'[s])
                                  => session[s] \in {"STOPPED", "EMPTY"}]_vars
  <2> SUFFICES ASSUME Inv, [Next]_vars, NEW s \in Sessions, ~ (held[s] \ {"pending"} \subseteq held'[s])
               PROVE  session[s] \in Ended
    BY DEF Ended
  <2>1. held \in [Sessions -> SUBSET Stores]
    BY DEF Inv, TypeOK
  <2> DEFINE Cleared == \E t \in Callers : ClearFlows(t) \/ ClearObservations(t)
  <2>2. Cleared
    <3> HIDE DEF Cleared
    <3>1. held' # held
      OBVIOUS
    <3>2. ASSUME NEW c \in Captures, Reader(c) PROVE Cleared
      BY <2>1, <3>1, <3>2 DEF Reader, ReaderDecodes, ReaderObserves, ReaderFeedsFlow
    <3>3. ASSUME NEW t \in Callers, FlushFlows(t) PROVE Cleared
      BY <2>1, <3>3 DEF FlushFlows
    <3>4. ASSUME NEW r \in Sessions, Create(r) PROVE Cleared
      BY <3>1, <3>4 DEF Create
    <3>5. ASSUME NEW r \in Sessions, NEW c \in Captures, Start(r, c) PROVE Cleared
      BY <3>1, <3>5 DEF Start
    <3>6. ASSUME NEW c \in Captures, Engine(c) \/ ProcessExits(c) \/ Waiter(c) PROVE Cleared
      BY <3>1, <3>6 DEF Engine, EngineStarts, Started, StartFails, ProcessExits, Waiter,
                        AwaitReceives, AwaitSettles
    <3>7. ASSUME NEW t \in Callers, NEW r \in Sessions, StopSession(t, r) \/ ResetSession(t, r)
          PROVE  Cleared
      BY <3>1, <3>7 DEF StopSession, ResetSession
    <3>8. ASSUME NEW t \in Callers, NEW c \in Captures, StopCapture(t, c) PROVE Cleared
      BY <3>1, <3>8 DEF StopCapture
    <3>9. ASSUME NEW t \in Callers, StopStep(t) \/ DeleteRecords(t) \/ WriteSession(t) PROVE Cleared
      BY <3>1, <3>9 DEF StopStep, FindCapture, LookUp, MarkStopping, CancelProcess, AwaitExit,
                        SettleStopped, DeleteRecords, WriteSession
    <3>10. ASSUME NEW t \in Callers, ClearFlows(t) \/ ClearObservations(t) PROVE Cleared
      BY <3>10 DEF Cleared
    <3>11. CASE UNCHANGED vars
      BY <3>1, <3>11 DEF vars
    <3> QED BY <3>2, <3>3, <3>4, <3>5, <3>6, <3>7, <3>8, <3>9, <3>10, <3>11 DEF Next, HookStep
  <2>3. PICK t \in Callers : ClearFlows(t) \/ ClearObservations(t)
    BY <2>2
  <2>4. call[t].pc \in {"clearFlows", "clearObservations"}
    BY <2>3 DEF ClearFlows, ClearObservations, At
  <2>5. call[t].op = "reset" /\ session[call[t].session] \in Ended
    BY <2>4 DEF Inv, ResetInv, CallFits, ResetIsOfEnded
  <2>6. s = call[t].session
    BY <2>1, <2>3 DEF ClearFlows, ClearObservations
  <2> QED BY <2>5, <2>6
<1> QED BY InvInit, InvStep, <1>1, PTL DEF Spec, KeptUntilReset

\* Captures and sessions that have ended stay ended, whoever writes last.
THEOREM EndsStay == Spec => EndsAreFinal
BY VerdictStays, EndedIsFinal, PTL DEF EndsAreFinal
=============================================================================
