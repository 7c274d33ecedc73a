-------------------------- MODULE AnalysisContract --------------------------
(***************************************************************************)
(* What the analysis service promises to its clients, with no threads and  *)
(* no locks: how the state of an analysis may change, and what has to have *)
(* happened to its fusion run by then.  AnalysisLifecycle implements it.   *)
(*                                                                         *)
(* The promise is weaker than "a finished analysis keeps its state": a     *)
(* cancellation that was accepted while the analysis ran may still turn a  *)
(* COMPLETED or FAILED record into a CANCELLED one.                        *)
(***************************************************************************)
CONSTANT Analyses

VARIABLES
  state,    \* as a client reads it
  intake,   \* whether the fusion run takes evidence: "NONE", "OPEN", "CLOSED"
  fused     \* analyses whose evidence was fused

vars == <<state, intake, fused>>

States == {"NONE", "RUNNING", "COMPLETED", "FAILED", "CANCELLED"}

Init ==
  /\ state  = [a \in Analyses |-> "NONE"]
  /\ intake = [a \in Analyses |-> "NONE"]
  /\ fused  = {}

Open(a) ==
  /\ intake[a] = "NONE"
  /\ intake' = [intake EXCEPT ![a] = "OPEN"]
  /\ UNCHANGED <<state, fused>>

Admit(a) ==
  /\ state[a] = "NONE" /\ intake[a] = "OPEN"
  /\ state' = [state EXCEPT ![a] = "RUNNING"]
  /\ UNCHANGED <<intake, fused>>

Fuse(a) ==
  /\ intake[a] = "OPEN" /\ state[a] = "RUNNING"
  /\ fused' = fused \cup {a}
  /\ UNCHANGED <<state, intake>>

Complete(a) ==
  /\ state[a] = "RUNNING" /\ a \in fused
  /\ state' = [state EXCEPT ![a] = "COMPLETED"]
  /\ UNCHANGED <<intake, fused>>

Fail(a) ==
  /\ state[a] = "RUNNING"
  /\ state' = [state EXCEPT ![a] = "FAILED"]
  /\ UNCHANGED <<intake, fused>>

Close(a) ==
  /\ intake[a] = "OPEN" /\ state[a] # "NONE"
  /\ intake' = [intake EXCEPT ![a] = "CLOSED"]
  /\ UNCHANGED <<state, fused>>

Cancel(a) ==
  /\ intake[a] = "CLOSED" /\ state[a] \in {"RUNNING", "COMPLETED", "FAILED"}
  /\ state' = [state EXCEPT ![a] = "CANCELLED"]
  /\ UNCHANGED <<intake, fused>>

Next == \E a \in Analyses :
  \/ Open(a) \/ Admit(a) \/ Fuse(a) \/ Complete(a) \/ Fail(a) \/ Close(a) \/ Cancel(a)

Spec == Init /\ [][Next]_vars
=============================================================================
