------------------------------ MODULE Workspace ------------------------------
(***************************************************************************)
(* The one workspace of Core (core/workspace/service.go): Create and Reset  *)
(* replace it under operationMu, and callbacks of other services bind what *)
(* they made to the workspace they read.  A coordinator clears a subsystem  *)
(* before the replacement and may fail; the server configures none today.   *)
(* An operator Op_Word is a plausible bug in Op; no specification uses it.  *)
(***************************************************************************)
EXTENDS Naturals, FiniteSets

CONSTANTS
  Calls,      \* calls of Create and of Reset, once each
  Kinds,      \* "create", "reset"
  Keys,       \* their idempotency keys
  NoKey, NoCall,
  Binders,    \* callbacks, once each
  Guarded     \* coordinators are configured

ASSUME WorkspaceConstants ==
  NoKey \notin Keys /\ NoCall \notin Calls /\ IsFiniteSet(Calls) /\ Guarded \in BOOLEAN /\ "create" \in Kinds

VARIABLES
  workspace,  \* Service.current: identifier (and generation) 0 for none, state, what is bound
  generation, \* the last one given out
  replays,    \* by kind and key: the workspace a call made, 0 for none
  holder,     \* the call that holds operationMu
  call,       \* where each call is, what it asked for, the copy it made, its answer
  binder,     \* a callback: the generation it read, and whether its update was accepted
  unmade,     \* history: newEmpty failed while the workspace was RESETTING
  forgotten   \* history: bindings a failed cleanup took back

workspaceVars == <<workspace, generation, replays, holder, call, binder, unmade, forgotten>>

Ids == 0..Cardinality(Calls)
Bindings == SUBSET Binders
Records == [id : Ids, state : {"EMPTY", "BOUND", "RESETTING"}, bound : Bindings]
Nothing == [id |-> 0, state |-> "EMPTY", bound |-> {}]

WorkspaceInit ==
  /\ workspace = Nothing /\ generation = 0 /\ holder = NoCall
  /\ replays = [k \in Kinds |-> [x \in Keys |-> 0]]
  /\ call = [c \in Calls |-> [pc |-> "none", kind |-> "create", key |-> NoKey, previous |-> Nothing, answer |-> 0]]
  /\ binder = [b \in Binders |-> [pc |-> "none", read |-> 0]]
  /\ unmade = FALSE /\ forgotten = {}

----------------------------------------------------------------------------
\* Create and Reset.

\* The answer of an earlier call with the same kind and key, if there is one.
Answered(kind, key) == key \in Keys /\ replays[kind][key] # 0

Ask(c, kind, key) ==
  /\ call[c].pc = "none"
  /\ call' = [call EXCEPT ![c] = [@ EXCEPT !.pc = "asked", !.kind = kind, !.key = key]]
  /\ UNCHANGED <<workspace, generation, replays, holder, binder, unmade, forgotten>>

\* operationMu, and the look at the replays under it.
Enter_Unlocked(c) ==
  /\ call[c].pc = "asked"
  /\ IF Answered(call[c].kind, call[c].key)
     THEN /\ call' = [call EXCEPT ![c] = [@ EXCEPT !.pc = "answered", !.answer = replays[call[c].kind][call[c].key]]]
          /\ UNCHANGED holder
     ELSE /\ call' = [call EXCEPT ![c].pc = IF workspace.id = 0 THEN "making" ELSE "marking"]
          /\ holder' = c
  /\ UNCHANGED <<workspace, generation, replays, binder, unmade, forgotten>>
Enter(c) ==
  /\ call[c].pc = "asked" /\ holder = NoCall
  /\ IF Answered(call[c].kind, call[c].key)
     THEN /\ call' = [call EXCEPT ![c] = [@ EXCEPT !.pc = "answered", !.answer = replays[call[c].kind][call[c].key]]]
          /\ UNCHANGED holder
     ELSE /\ call' = [call EXCEPT ![c].pc = IF workspace.id = 0 THEN "making" ELSE "marking"]
          /\ holder' = c
  /\ UNCHANGED <<workspace, generation, replays, binder, unmade, forgotten>>

\* cleanupCurrent: the copy and the mark are one section.
MarkResetting(c) ==
  /\ call[c].pc = "marking"
  /\ call' = [call EXCEPT ![c] = [@ EXCEPT !.pc = IF Guarded THEN "cleaning" ELSE "making", !.previous = workspace]]
  /\ workspace' = [workspace EXCEPT !.state = "RESETTING"]
  /\ UNCHANGED <<generation, replays, holder, binder, unmade, forgotten>>

CleanupEnds(c) ==
  /\ call[c].pc = "cleaning"
  /\ call' = [call EXCEPT ![c].pc = "making"]
  /\ UNCHANGED <<workspace, generation, replays, holder, binder, unmade, forgotten>>

\* A coordinator fails: the copy comes back, whatever was bound meanwhile.
CleanupFails_KeepsMark(c) ==
  /\ call[c].pc = "cleaning"
  /\ call' = [call EXCEPT ![c].pc = "failed"] /\ holder' = NoCall
  /\ UNCHANGED <<workspace, generation, replays, binder, unmade, forgotten>>
CleanupFails_KeepsMutex(c) ==
  /\ call[c].pc = "cleaning"
  /\ call' = [call EXCEPT ![c].pc = "failed"]
  /\ workspace' = call[c].previous /\ forgotten' = forgotten \cup (workspace.bound \ call[c].previous.bound)
  /\ UNCHANGED <<generation, replays, holder, binder, unmade>>
CleanupFails(c) ==
  /\ call[c].pc = "cleaning"
  /\ call' = [call EXCEPT ![c].pc = "failed"] /\ holder' = NoCall
  /\ IF workspace.id = call[c].previous.id
     THEN workspace' = call[c].previous /\ forgotten' = forgotten \cup (workspace.bound \ call[c].previous.bound)
     ELSE UNCHANGED <<workspace, forgotten>>
  /\ UNCHANGED <<generation, replays, binder, unmade>>

\* newEmpty; if there is no identifier, the old workspace stays as it is.
NewEmpty(c) ==
  /\ call[c].pc = "making"
  /\ generation' = generation + 1
  /\ call' = [call EXCEPT ![c] = [@ EXCEPT !.pc = "made", !.answer = generation + 1]]
  /\ UNCHANGED <<workspace, replays, holder, binder, unmade, forgotten>>

NewEmptyFails(c) ==
  /\ call[c].pc = "making"
  /\ call' = [call EXCEPT ![c].pc = "failed"] /\ holder' = NoCall
  /\ unmade' = (unmade \/ workspace.state = "RESETTING")
  /\ UNCHANGED <<workspace, generation, replays, binder, forgotten>>

Replace(c) ==
  /\ call[c].pc = "made"
  /\ call' = [call EXCEPT ![c].pc = "storing"]
  /\ workspace' = [id |-> call[c].answer, state |-> "EMPTY", bound |-> {}]
  /\ unmade' = FALSE
  /\ UNCHANGED <<generation, replays, holder, binder, forgotten>>

StoreReplay(c) ==
  /\ call[c].pc = "storing"
  /\ call' = [call EXCEPT ![c].pc = "answered"] /\ holder' = NoCall
  /\ replays' = IF call[c].key = NoKey THEN replays
                ELSE [replays EXCEPT ![call[c].kind][call[c].key] = call[c].answer]
  /\ UNCHANGED <<workspace, generation, binder, unmade, forgotten>>

----------------------------------------------------------------------------
\* bindSource and the like: CurrentOwnership, then UpdateIfCurrent.
ReadCurrent(b) ==
  /\ binder[b].pc = "none" /\ workspace.id # 0
  /\ binder' = [binder EXCEPT ![b] = [pc |-> "read", read |-> workspace.id]]
  /\ UNCHANGED <<workspace, generation, replays, holder, call, unmade, forgotten>>

UpdateIfCurrent_Any(b) ==
  /\ binder[b].pc = "read"
  /\ binder' = [binder EXCEPT ![b].pc = "accepted"]
  /\ workspace' = [workspace EXCEPT !.state = "BOUND", !.bound = @ \cup {b}]
  /\ UNCHANGED <<generation, replays, holder, call, unmade, forgotten>>
UpdateIfCurrent(b) ==
  /\ binder[b].pc = "read"
  /\ IF workspace.id = binder[b].read
     THEN /\ binder' = [binder EXCEPT ![b].pc = "accepted"]
          /\ workspace' = [workspace EXCEPT !.state = "BOUND", !.bound = @ \cup {b}]
     ELSE binder' = [binder EXCEPT ![b].pc = "refused"] /\ UNCHANGED workspace
  /\ UNCHANGED <<generation, replays, holder, call, unmade, forgotten>>

Proceeds(c) ==
  \/ Enter(c) \/ MarkResetting(c) \/ CleanupEnds(c) \/ CleanupFails(c)
  \/ NewEmpty(c) \/ NewEmptyFails(c) \/ Replace(c) \/ StoreReplay(c)

WorkspaceNext ==
  \/ \E c \in Calls : Proceeds(c) \/ (\E kind \in Kinds, key \in Keys \cup {NoKey} : Ask(c, kind, key))
  \/ \E b \in Binders : ReadCurrent(b) \/ UpdateIfCurrent(b)

\* A call that has the mutex goes on; a cleanup ends by its timeout.
WorkspaceFairness == WF_workspaceVars(\E c \in Calls : Proceeds(c))
WorkspaceSpec == WorkspaceInit /\ [][WorkspaceNext]_workspaceVars /\ WorkspaceFairness

----------------------------------------------------------------------------
\* Properties.

\* Types.
WorkspaceTypeOK ==
  /\ workspace \in Records /\ generation \in Ids /\ replays \in [Kinds -> [Keys -> Ids]]
  /\ holder \in Calls \cup {NoCall} /\ unmade \in BOOLEAN /\ forgotten \in Bindings
  /\ call \in [Calls -> [pc : {"none", "asked", "marking", "cleaning", "making", "made", "storing", "answered", "failed"},
                         kind : Kinds, key : Keys \cup {NoKey}, previous : Records, answer : Ids]]
  /\ binder \in [Binders -> [pc : {"none", "read", "accepted", "refused"}, read : Ids]]

\* A workspace holds exactly the bindings that were accepted for it, whatever was
\* replaced or restored in between, but for those a failed cleanup took back.
BindingsAreOwn ==
  workspace.bound = {b \in Binders : binder[b].pc = "accepted" /\ binder[b].read = workspace.id} \ forgotten

\* Two calls with the same kind and key are answered with one workspace, and
\* two without a common key never are.
OneWorkspacePerKey ==
  \A c, d \in Calls :
    c # d /\ call[c].pc = "answered" /\ call[d].pc = "answered" =>
      (call[c].answer = call[d].answer <=>
         call[c].key # NoKey /\ call[c].key = call[d].key /\ call[c].kind = call[d].kind)

\* While nobody is replacing it, the workspace is the newest one and is not
\* RESETTING, unless the replacement could not be made.
NewestIsCurrent ==
  holder = NoCall => workspace.id = generation /\ (workspace.state = "RESETTING" => unmade)

\* Every call is answered with its own workspace, and the workspace with its own
\* bindings, though resets, closes and bindings race.
WorkspaceIsOwn == BindingsAreOwn /\ OneWorkspacePerKey /\ NewestIsCurrent

\* Every call is answered, and gives the mutex back.
CallsReturn == \A c \in Calls : call[c].pc = "asked" ~> call[c].pc \in {"answered", "failed"} /\ holder # c
==============================================================================
