----------------------------- MODULE FlowStream -----------------------------
(***************************************************************************)
(* What the sensor hands to a live analysis of one session: the bounded    *)
(* packet log (sensor/observation/service.go), the feature windows of the  *)
(* flows (sensor/flow/service.go) and the subscription that delivers their *)
(* identifiers.                                                            *)
(*                                                                         *)
(* The capture's reader goroutine logs a packet, adds it to its flow and   *)
(* publishes the window this completes, in three critical sections.  The   *)
(* stop of the session finalises what is pending, publishes it and closes  *)
(* the stream, again in separate sections; the reader may still be in the  *)
(* middle of its last packet (SensorCapture, which also shows why the      *)
(* process is taken to be gone when closeSession begins).  The session is  *)
(* not reset while it is analysed.                                         *)
(* An operator Op_Word is a plausible bug in Op; no specification uses it. *)
(***************************************************************************)
EXTENDS Naturals, Sequences, FiniteSets

CONSTANTS
  Flows,       \* flows of the session
  MaxPackets,  \* bound: packets the capture delivers
  MaxRecords,  \* MaxRecordsPerSession of the packet log
  MaxWindows,  \* MaxRetainedWindows of the flow service
  Buffer       \* buffer of the subscription

ASSUME StreamAssumption ==
  /\ {MaxPackets, MaxRecords, MaxWindows, Buffer} \subseteq Nat \ {0}
  /\ IsFiniteSet(Flows)

VARIABLES
  capture,   \* "running", or "stopped" when the capture process has ended
  session,   \* how far closeSession got: "open", "finalized", "closed"
  log,       \* the retained packets are log.first .. log.next - 1
  reader,    \* the reader goroutine: what it does next, and the window it publishes
  pending,   \* the packets of a flow outside any window: none, too few, enough
  windows,   \* every finalised window, in the order of windowOrder
  retained,  \* windows that are still stored
  unsent,    \* windows closeSession has finalised and not yet published
  stream,    \* the subscription: its state and the identifiers it buffers
  heard,     \* windows that were published to the open stream
  dropped,   \* those of them that found the buffer full (droppedStreams)
  atClose    \* packets logged when the stream was closed

logVars    == <<log, atClose>>
flowVars   == <<pending, windows, retained, unsent>>
streamVars == <<stream, heard, dropped>>
sensorVars == <<capture, session, logVars, reader, flowVars, streamVars>>

Fill == {"none", "short", "enough"}
Kept == log.first .. log.next - 1
Free == [pc |-> "idle"]

SensorInit ==
  /\ capture  = "running"
  /\ session  = "open"
  /\ log      = [first |-> 1, next |-> 1]
  /\ reader   = Free
  /\ pending  = [f \in Flows |-> "none"]
  /\ windows  = <<>>
  /\ retained = {}
  /\ unsent   = <<>>
  /\ stream   = [state |-> "none", items |-> <<>>]
  /\ heard    = {}
  /\ dropped  = {}
  /\ atClose  = 0

-----------------------------------------------------------------------------
\* While the capture runs, reading a packet is part of logging it; the process
\* may end after the reader has read a packet and before it has logged it.
Arrives == reader = Free /\ log.next <= MaxPackets
HasPacket == (capture = "running" /\ Arrives) \/ reader.pc = "decoded"

\* The log keeps the newest MaxRecords packets.
Observe ==
  /\ HasPacket
  /\ log' = [first |-> IF log.next - log.first + 1 > MaxRecords THEN log.first + 1
                                                                ELSE log.first,
             next  |-> log.next + 1]
  /\ reader' = [pc |-> "logged"]
  /\ UNCHANGED <<capture, session, atClose, flowVars, streamVars>>

\* The windows that remain when those of the flows fs are finalised in that
\* order; the oldest are evicted beyond MaxWindows.
Finalized(fs) == windows \o [i \in DOMAIN fs |-> [flow |-> fs[i], ready |-> pending[fs[i]] = "enough"]]
Newest(ids) == {w \in ids : Cardinality({v \in ids : v >= w}) <= MaxWindows}
FinalizeAll(fs) ==
  /\ windows' = Finalized(fs)
  /\ retained' = Newest(retained \cup (Len(windows) + 1 .. Len(windows) + Len(fs)))

\* A packet in a later bucket completes the pending window and begins the next
\* one.  A window is ready for the classifier when it has two packets and its
\* last one is later than its first; a packet with an earlier time can undo that.
Complete(f) ==
  /\ pending[f] # "none"
  /\ FinalizeAll(<<f>>)
  /\ pending' = [pending EXCEPT ![f] = "short"]
  /\ reader' = [pc |-> "publish", window |-> Len(windows) + 1]

Extend(f) ==
  /\ \E fill \in IF pending[f] = "none" THEN {"short"} ELSE {"short", "enough"} :
        pending' = [pending EXCEPT ![f] = fill]
  /\ reader' = Free
  /\ UNCHANGED <<windows, retained>>

\* NAT keepalives and other encapsulated packets reach no flow.
NoFlow == reader' = Free /\ UNCHANGED <<pending, windows, retained>>

ObservePacket ==
  /\ reader.pc = "logged"
  /\ NoFlow \/ \E f \in Flows : Complete(f) \/ Extend(f)
  /\ UNCHANGED <<capture, session, logVars, unsent, streamVars>>

\* publish: a full buffer costs the subscriber the window, under DROP_FEATURE_WINDOW.
Deliver_Overflows(w) ==
  IF windows[w].ready /\ stream.state = "open"
  THEN /\ heard' = heard \cup {w}
       /\ stream' = [stream EXCEPT !.items = Append(@, w)]
       /\ UNCHANGED dropped
  ELSE UNCHANGED streamVars

Deliver(w) ==
  IF windows[w].ready /\ stream.state = "open"
  THEN /\ heard' = heard \cup {w}
       /\ IF Len(stream.items) < Buffer
          THEN stream' = [stream EXCEPT !.items = Append(@, w)] /\ UNCHANGED dropped
          ELSE dropped' = dropped \cup {w} /\ UNCHANGED stream
  ELSE UNCHANGED streamVars

ReaderPublishes ==
  /\ reader.pc = "publish"
  /\ Deliver(reader.window)
  /\ reader' = Free
  /\ UNCHANGED <<capture, session, logVars, flowVars>>

-----------------------------------------------------------------------------
(* The stop of the session: capture.StopForSession, then closeSession.      *)

StopCapture ==
  /\ capture = "running"
  /\ capture' = "stopped"
  /\ reader' \in {reader} \cup (IF Arrives THEN {[pc |-> "decoded"]} ELSE {})
  /\ UNCHANGED <<session, logVars, flowVars, streamVars>>

\* Every order of the flows that have pending packets (the map's order).
Orders == {fs \in UNION {[1 .. n -> Flows] : n \in 0 .. Cardinality(Flows)} :
             /\ \A i, j \in DOMAIN fs : fs[i] = fs[j] => i = j
             /\ {fs[i] : i \in DOMAIN fs} = {f \in Flows : pending[f] # "none"}}

FinalizeSession ==
  /\ capture = "stopped" /\ session = "open"
  /\ \E fs \in Orders :
       /\ FinalizeAll(fs)
       /\ unsent' = [i \in DOMAIN fs |-> Len(windows) + i]
  /\ pending' = [f \in Flows |-> "none"]
  /\ session' = "finalized"
  /\ UNCHANGED <<capture, logVars, reader, streamVars>>

PublishFinal ==
  /\ session = "finalized" /\ unsent # <<>>
  /\ Deliver(Head(unsent))
  /\ unsent' = Tail(unsent)
  /\ UNCHANGED <<capture, session, logVars, reader, pending, windows, retained>>

ClosedStream == [stream EXCEPT !.state = IF @ = "open" THEN "closed" ELSE @]

CloseStream ==
  /\ session = "finalized" /\ unsent = <<>>
  /\ session' = "closed" /\ stream' = ClosedStream
  /\ atClose' = log.next - 1
  /\ UNCHANGED <<capture, log, reader, flowVars, heard, dropped>>

Reader == Observe \/ ObservePacket \/ ReaderPublishes
CloseSession == PublishFinal \/ CloseStream
Sensor == Reader \/ StopCapture \/ FinalizeSession \/ CloseSession

\* The sensor's part of the type invariant.
SensorTypeOK ==
  /\ capture \in {"running", "stopped"}
  /\ session \in {"open", "finalized", "closed"}
  /\ log \in [first : Nat, next : Nat] /\ log.next - log.first \in 0 .. MaxRecords
  /\ reader \in [pc : {"idle", "decoded", "logged"}]
                  \cup [pc : {"publish"}, window : DOMAIN windows]
  /\ pending \in [Flows -> Fill]
  /\ windows \in Seq([flow : Flows, ready : BOOLEAN])
  /\ retained \subseteq DOMAIN windows /\ Cardinality(retained) <= MaxWindows
  /\ unsent \in Seq(DOMAIN windows)
  /\ stream.state \in {"none", "open", "closed"}
  /\ stream.items \in Seq(DOMAIN windows) /\ Len(stream.items) <= Buffer
  /\ dropped \subseteq heard /\ heard \subseteq DOMAIN windows
  /\ atClose \in Nat
=============================================================================
