------------------------------ MODULE FusionRun ------------------------------
(***************************************************************************)
(* One Fusion run: evidence ingestion (fusion/ingest), the execution engine*)
(* (fusion/engine) with correlation, conflict detection and resolution, the*)
(* run's session operations (fusion/session) and the store they share      *)
(* (fusion/store).                                                         *)
(*                                                                         *)
(* A request is a thread.  A step is one call of the store; the engine's   *)
(* mutex lets one request compute at a time, while ingestion and session   *)
(* requests interleave with it.  The context of a mortal request may end   *)
(* at any moment: every later store call and event publication of that     *)
(* request fails, except the record of the failure itself.  Confidence,    *)
(* provenance, timestamps and the evidence of the security rule source,    *)
(* which nothing emits, are left out; store.Get is one step here.          *)
(* An operator Op_Word is a plausible bug in Op; no specification uses it. *)
(***************************************************************************)
EXTENDS Naturals, FiniteSets

CONSTANTS
  Items,         \* evidence items
  Property,      \* EvidenceItem.PropertyKey
  Resource,      \* EvidenceItem.ResourceID (one correlated resource type)
  Source,        \* EvidenceItem.Source
  Value,         \* canonical value of the item; NoValue when it is unknown
  Rank,          \* place of the item in the order of decision.better
  Links,         \* pairs of items that share a correlation token
  Required,      \* required sources of the run's policy
  NoValue,
  Requests,      \* records [op, on]: the requests that may be made to the run
  Workloads,     \* the sets of requests that are made together
  Mortal,        \* requests whose context may end
  Ids, NoId      \* correlation, conflict and conclusion identifiers

Properties == {Property[i] : i \in Items}
Sources    == {Source[i] : i \in Items} \cup Required
Ops == {"add", "remove", "mark", "recompute", "run", "cancel", "finalize", "reset"}

ASSUME FusionAssumption ==
  /\ NoId \notin Ids \cup Items /\ IsFiniteSet(Ids)
  /\ IsFiniteSet(Items) /\ \A i \in Items : Rank[i] \in Nat /\ Resource[i] \notin Ids
  /\ \A i, j \in Items : Rank[i] = Rank[j] => i = j
  /\ Mortal \subseteq Requests /\ Workloads \subseteq SUBSET Requests
  /\ \A r \in Requests :
       /\ r.op \in Ops
       /\ r.op \in {"add", "remove"} => r.on \subseteq Items
       /\ r.op = "remove" => r.on # {}
       /\ r.op = "recompute" => r.on # {} /\ r.on \subseteq Properties
       /\ r.op = "mark" => r.on \subseteq Sources

VARIABLES
  state,        \* Run.State; "NONE" once the run is deleted
  coverage,     \* Run.SourceCoverage
  evidence,     \* the items of Run.EvidenceByID
  groups,       \* Run.Correlations: members by identifier
  conflicts,    \* Run.Conflicts
  conclusions,  \* Run.Conclusions
  byKey,        \* Run.ConclusionByKey
  counted,      \* Run.Counts.Conclusions
  fusion,       \* Run.Fusion.State
  engine,       \* the computation that holds the engine's mutex
  seen,         \* the clone of the run that computation last read
  pc,           \* what each request is doing
  batch,        \* the items a request stored or removed
  gone          \* requests whose context has ended

runVars == <<state, coverage, evidence, groups, conflicts, conclusions, byKey, counted, fusion>>
frozenVars == <<coverage, evidence, groups, conflicts, conclusions, byKey, counted, fusion>>
data    == <<coverage, evidence, groups, conflicts, conclusions, byKey, counted>>
vars    == <<runVars, engine, seen, pc, batch, gone>>

Empty == [x \in {} |-> NoId]
Idle  == [pc |-> "idle", properties |-> {}, full |-> FALSE, todo |-> {}]
Nothing == [evidence |-> {}, groups |-> Empty, conflicts |-> Empty,
            conclusions |-> Empty, byKey |-> Empty]
Clone == [evidence |-> evidence, groups |-> groups, conflicts |-> conflicts,
          conclusions |-> conclusions, byKey |-> byKey]
Terminal == {"COMPLETE", "UNAVAILABLE"}

Init ==
  /\ state = "ACTIVE"
  /\ coverage = [s \in Sources |-> IF s \in Required THEN "PENDING" ELSE "ABSENT"]
  /\ evidence = {}
  /\ groups = Empty /\ conflicts = Empty /\ conclusions = Empty /\ byKey = Empty
  /\ counted = 0
  /\ fusion = "IDLE"
  /\ engine = Idle /\ seen = Nothing
  /\ \E made \in Workloads : pc = [r \in Requests |-> IF r \in made THEN "begin" ELSE "done"]
  /\ batch = [r \in Requests |-> {}]
  /\ gone = {}

-----------------------------------------------------------------------------
(* Correlation and decision: pure functions of a clone of the run.          *)

Linked(i, j) == Resource[i] = Resource[j] \/ {i, j} \in Links

\* buildGroups: the classes of the smallest equivalence that joins linked items.
Component(i, items) ==
  {j \in items : \A C \in SUBSET items :
     i \in C /\ (\A k \in C, l \in items : Linked(k, l) => l \in C) => j \in C}
Components(items) == {Component(i, items) : i \in items}

\* reusableGroup: a component keeps the identifier of the old group it shares
\* most items with, unless a component built earlier has taken it.
Overlap(c, id, run) == Cardinality(c \cap run.groups[id])
Keeps(run, components) ==
  {keep \in [components -> DOMAIN run.groups \cup {NoId}] :
     \A c \in components :
       /\ keep[c] # NoId => Overlap(c, keep[c], run) > 0
       /\ \A d \in components \ {c} : keep[c] = keep[d] => keep[c] = NoId
       /\ \A id \in DOMAIN run.groups :
            (Overlap(c, id, run) > 0 /\
             (keep[c] = NoId \/ Overlap(c, id, run) > Overlap(c, keep[c], run)))
            => \E d \in components : keep[d] = id}

\* The identifiers a run names, those left in its index too.
Taken(run) == DOMAIN run.groups \cup DOMAIN run.conflicts \cup DOMAIN run.conclusions
  \cup {run.conflicts[k].resource : k \in DOMAIN run.conflicts}
  \cup {run.conclusions[k].resource : k \in DOMAIN run.conclusions}
  \cup {run.conclusions[k].conflict : k \in DOMAIN run.conclusions}
  \cup {run.byKey[key] : key \in DOMAIN run.byKey} \cup {key[2] : key \in DOMAIN run.byKey}

\* Fresh identifiers for the elements of S.  The code draws them from 128 random
\* bits; here a step that draws some waits until enough are left in Ids.
Left(S, run) == Cardinality(S) <= Cardinality(Ids \ Taken(run))
FreshIds(S, run) ==
  CHOOSE f \in [S -> Ids \ Taken(run)] : \A x, y \in S : f[x] = f[y] => x = y

Ungrouped(keep) == {c \in DOMAIN keep : keep[c] = NoId}
Rebuilt(run, keep) ==
  LET components == DOMAIN keep
      new == FreshIds(Ungrouped(keep), run)
      name(c) == IF keep[c] = NoId THEN new[c] ELSE keep[c]
  IN  [id \in {name(c) : c \in components} |-> CHOOSE c \in components : name(c) = id]

\* logicalResourceID: the members' resource when they agree, else the group's.
Logical(id, members) ==
  IF \E r \in {Resource[i] : i \in Items} : \A i \in members : Resource[i] = r
  THEN Resource[CHOOSE i \in members : TRUE] ELSE id

ResourceOf(i, run) ==
  IF \E id \in DOMAIN run.groups : i \in run.groups[id]
  THEN LET id == CHOOSE id \in DOMAIN run.groups : i \in run.groups[id]
       IN  Logical(id, run.groups[id])
  ELSE Resource[i]

\* GroupEvidence: the items of the affected properties by property and resource.
Affected(properties) == IF properties = {} THEN Properties ELSE properties
Keys(run, properties) ==
  {<<Property[i], ResourceOf(i, run)>> :
     i \in {j \in run.evidence : Property[j] \in Affected(properties)}}
Group(key, run) == {i \in run.evidence : <<Property[i], ResourceOf(i, run)>> = key}

Winner(items) == CHOOSE i \in items : \A j \in items : Rank[i] >= Rank[j]
Disputed(items) == Cardinality({Value[i] : i \in items} \ {NoValue}) > 1

-----------------------------------------------------------------------------
(* Ingestion: fusion/ingest over the store.                                 *)

Active == state = "ACTIVE"
To(r, place) == pc' = [pc EXCEPT ![r] = place]
Begins(r, op) == pc[r] = "begin" /\ r.op = op
Exists(r) == state # "NONE" /\ r \notin gone

\* AddBatch, first half: Get, then prepare every item against the clone.
Prepared(r) == {i \in r.on : state = "ACTIVE" /\ coverage[Source[i]] \notin Terminal}
Prepare(r) ==
  /\ Begins(r, "add")
  /\ IF Exists(r) /\ Prepared(r) # {}
     THEN batch' = [batch EXCEPT ![r] = Prepared(r)] /\ To(r, "store")
     ELSE UNCHANGED batch /\ To(r, "done")
  /\ UNCHANGED <<runVars, engine, seen, gone>>

\* AddBatch, second half: AddEvidence takes the whole batch or nothing.
Storable_Prepared(r) == Exists(r) /\ Active /\ batch[r] \cap evidence = {}
Storable_AnyRun(r) ==
  Exists(r) /\ \A i \in batch[r] : coverage[Source[i]] \notin Terminal /\ i \notin evidence
Storable(r) ==
  /\ Exists(r) /\ Active
  /\ \A i \in batch[r] : coverage[Source[i]] \notin Terminal /\ i \notin evidence
Store(r) ==
  /\ pc[r] = "store"
  /\ IF Storable(r)
     THEN /\ evidence' = evidence \cup batch[r]
          /\ coverage' = [s \in Sources |->
               IF coverage[s] = "ABSENT" /\ \E i \in batch[r] : Source[i] = s
               THEN "PENDING" ELSE coverage[s]]
          /\ fusion' = "IDLE"
          /\ To(r, "schedule")
     ELSE UNCHANGED <<evidence, coverage, fusion>> /\ To(r, "done")
  /\ UNCHANGED <<state, groups, conflicts, conclusions, byKey, counted, engine, seen, batch, gone>>

Without(f, S) == [x \in DOMAIN f \ S |-> f[x]]
KeyOf(c) == <<c.property, c.resource>>

\* Remove deletes the item with everything that was derived from it.
Remove(r) ==
  /\ Begins(r, "remove")
  /\ IF Exists(r) /\ Active /\ r.on \subseteq evidence
     THEN LET of(f) == {k \in DOMAIN f : f[k].evidence \cap r.on # {}}
              stale == {KeyOf(conclusions[k]) : k \in of(conclusions)}
          IN  /\ evidence' = evidence \ r.on
              /\ groups' = Without(groups, {g \in DOMAIN groups : groups[g] \cap r.on # {}})
              /\ conflicts' = Without(conflicts, of(conflicts))
              /\ conclusions' = Without(conclusions, of(conclusions))
              /\ byKey' = Without(byKey, stale)
              /\ counted' = Cardinality(DOMAIN conclusions \ of(conclusions))
              /\ fusion' = "IDLE"
              /\ batch' = [batch EXCEPT ![r] = r.on]
              /\ To(r, "schedule")
     ELSE /\ To(r, "done")
          /\ UNCHANGED <<evidence, groups, conflicts, conclusions, byKey, counted, fusion, batch>>
  /\ UNCHANGED <<state, coverage, engine, seen, gone>>

\* MarkSourceComplete, MarkSourceUnavailable: a terminal verdict is final.
Mark(r) ==
  /\ Begins(r, "mark") /\ To(r, "done")
  /\ \E verdict \in Terminal :
       coverage' = [s \in Sources |->
         IF s \in r.on /\ Exists(r) /\ Active /\ coverage[s] \notin Terminal
         THEN verdict ELSE coverage[s]]
  /\ UNCHANGED <<state, evidence, groups, conflicts, conclusions, byKey, counted, fusion,
                 engine, seen, batch, gone>>

-----------------------------------------------------------------------------
(* The session of the run: fusion/session.                                  *)

Cancel(r) ==
  /\ Begins(r, "cancel") /\ To(r, "done")
  /\ state' = IF Exists(r) /\ Active THEN "CANCELLED" ELSE state
  /\ UNCHANGED <<data, fusion, engine, seen, batch, gone>>

Finalize_Misnamed(r) ==
  /\ Begins(r, "finalize") /\ To(r, "done")
  /\ state' = IF Exists(r) /\ Active /\ \A s \in Required : coverage[s] \in Terminal
              THEN "COMPLETE" ELSE state
  /\ UNCHANGED <<data, fusion, engine, seen, batch, gone>>
Finalize(r) ==
  /\ Begins(r, "finalize") /\ To(r, "done")
  /\ state' = IF Exists(r) /\ Active /\ \A s \in Required : coverage[s] \in Terminal
              THEN "FINALIZED" ELSE state
  /\ UNCHANGED <<data, fusion, engine, seen, batch, gone>>

Reset(r) ==
  /\ Begins(r, "reset") /\ To(r, "done")
  /\ IF Exists(r)
     THEN /\ state' = "NONE" /\ evidence' = {} /\ counted' = 0 /\ fusion' = "IDLE"
          /\ coverage' = [s \in Sources |-> "ABSENT"]
          /\ groups' = Empty /\ conflicts' = Empty /\ conclusions' = Empty /\ byKey' = Empty
     ELSE UNCHANGED runVars
  /\ UNCHANGED <<engine, seen, batch, gone>>

-----------------------------------------------------------------------------
(* The computation: fusion/engine, under its mutex.                         *)

At(r, place) == pc[r] = "compute" /\ engine.pc = place
Proceed(place) == engine' = [engine EXCEPT !.pc = place]
Reads(r, place) == seen' = Clone /\ Proceed(place)

Scope(r) == CASE r.op = "recompute" -> r.on
              [] r.op = "run"       -> {}
              [] OTHER              -> {Property[i] : i \in batch[r]}

\* Run, Recompute and Schedule: take the mutex and mark the run RUNNING.
Start(r) ==
  /\ engine.pc = "idle"
  /\ pc[r] = "schedule" \/ Begins(r, "recompute") \/ Begins(r, "run")
  /\ IF Exists(r) /\ Active
     THEN /\ fusion' = "RUNNING"
          /\ engine' = [pc |-> "correlate", properties |-> Scope(r),
                        full |-> r.op = "run", todo |-> {}]
          /\ To(r, "compute")
     ELSE UNCHANGED <<fusion, engine>> /\ To(r, "done")
  /\ UNCHANGED <<state, data, seen, batch, gone>>

\* Rebuild: read the evidence, then replace every group.
Correlate(r) ==
  /\ At(r, "correlate")
  /\ IF Exists(r) /\ Active THEN Reads(r, "regroup") ELSE Proceed("fail") /\ UNCHANGED seen
  /\ UNCHANGED <<runVars, pc, batch, gone>>

Regroup(r) ==
  /\ At(r, "regroup")
  /\ IF Exists(r) /\ Active /\ seen.evidence \subseteq evidence
     THEN /\ \E keep \in Keeps(seen, Components(seen.evidence)) :
               Left(Ungrouped(keep), seen) /\ groups' = Rebuilt(seen, keep)
          /\ Proceed(IF engine.full THEN "detect" ELSE "expand")
     ELSE Proceed("fail") /\ UNCHANGED groups
  /\ UNCHANGED <<state, coverage, evidence, conflicts, conclusions, byKey, counted, fusion,
                 seen, pc, batch, gone>>

\* expandAffectedProperties: one pass over the groups in an arbitrary order; a
\* group met after one of its properties is affected adds all of its own.
PropertiesOf(ids) == {Property[i] : i \in UNION {groups[g] \cap evidence : g \in ids}}
Touched(g, properties) == PropertiesOf({g}) \cap properties # {}
Expansions_Given(properties) == {properties}
Expansions(properties) ==
  LET direct == {g \in DOMAIN groups : Touched(g, properties)}
      chained(S) == \A T \in SUBSET S : (direct \subseteq T /\ T # S) =>
                      \E g \in S \ T : Touched(g, properties \cup PropertiesOf(T))
  IN  {properties \cup PropertiesOf(S) :
         S \in {T \in SUBSET DOMAIN groups : direct \subseteq T /\ chained(T)}}
Expand(r) ==
  /\ At(r, "expand")
  /\ IF Exists(r)
     THEN \E properties \in Expansions(engine.properties) :
            engine' = [engine EXCEPT !.pc = "detect", !.properties = properties]
     ELSE Proceed("fail")
  /\ UNCHANGED <<runVars, seen, pc, batch, gone>>

Spared(f) == IF engine.full THEN Empty
             ELSE Without(f, {k \in DOMAIN f : f[k].property \in engine.properties})
Extend(f, g) == [x \in DOMAIN f \cup DOMAIN g |-> IF x \in DOMAIN g THEN g[x] ELSE f[x]]

\* Detect: read the run, then replace the conflicts of the affected properties.
\* A conflict whose candidates are the same keeps its resolution.
Detect(r) ==
  /\ At(r, "detect")
  /\ IF Exists(r) /\ Active THEN Reads(r, "replace") ELSE Proceed("fail") /\ UNCHANGED seen
  /\ UNCHANGED <<runVars, pc, batch, gone>>

ConflictOn(key, run) == {k \in DOMAIN run.conflicts : KeyOf(run.conflicts[k]) = key}
DisputedKeys(run) == {key \in Keys(run, engine.properties) : Disputed(Group(key, run))}
Undetected(run) == {key \in DisputedKeys(run) : ConflictOn(key, run) = {}}
Detected(run) ==
  LET keys == DisputedKeys(run)
      new == FreshIds(Undetected(run), run)
      name(key) == IF key \in DOMAIN new THEN new[key]
                   ELSE CHOOSE k \in ConflictOn(key, run) : TRUE
      winner(key) ==
        IF key \notin DOMAIN new /\ run.conflicts[name(key)].evidence = Group(key, run)
        THEN run.conflicts[name(key)].winner ELSE NoId
  IN  [id \in {name(key) : key \in keys} |->
         LET key == CHOOSE k \in keys : name(k) = id
         IN  [property |-> key[1], resource |-> key[2],
              evidence |-> Group(key, run), winner |-> winner(key)]]

\* ReplaceConflicts: the store changes the run's maps in place, so an incremental
\* replacement that fails keeps the deletions and the conflicts stored before.
ReplaceConflicts(r) ==
  /\ At(r, "replace") /\ Left(Undetected(seen), seen)
  /\ LET found == Detected(seen)
         valid == {k \in DOMAIN found : found[k].evidence \subseteq evidence}
     IN  IF Exists(r) /\ Active /\ valid = DOMAIN found
         THEN conflicts' = Extend(Spared(conflicts), found) /\ Proceed("list")
         ELSE /\ Proceed("fail")
              /\ IF Exists(r) /\ Active /\ ~engine.full
                 THEN \E before \in SUBSET valid :
                        conflicts' = Extend(Spared(conflicts), [k \in before |-> found[k]])
                 ELSE UNCHANGED conflicts
  /\ UNCHANGED <<state, coverage, evidence, groups, conclusions, byKey, counted, fusion,
                 seen, pc, batch, gone>>

ListConflicts(r) ==
  /\ At(r, "list")
  /\ IF Exists(r)
     THEN engine' = [engine EXCEPT !.pc = "resolve", !.todo =
            {k \in DOMAIN conflicts : conflicts[k].property \in Affected(engine.properties)}]
     ELSE Proceed("fail")
  /\ UNCHANGED <<runVars, seen, pc, batch, gone>>

\* Resolve: the best of the candidates that remain wins.
Resolve(r) ==
  /\ At(r, "resolve")
  /\ \E k \in engine.todo :
       IF Exists(r) /\ Active /\ k \in DOMAIN conflicts /\ conflicts[k].evidence \cap evidence # {}
       THEN /\ conflicts' = [conflicts EXCEPT ![k].winner =
                               Winner(conflicts[k].evidence \cap evidence)]
            /\ engine' = [engine EXCEPT !.todo = @ \ {k}]
       ELSE Proceed("fail") /\ UNCHANGED conflicts
  /\ UNCHANGED <<state, coverage, evidence, groups, conclusions, byKey, counted, fusion,
                 seen, pc, batch, gone>>

ReadRun_Early(r) ==
  /\ At(r, "resolve")
  /\ IF Exists(r) THEN Reads(r, "conclude") ELSE Proceed("fail") /\ UNCHANGED seen
  /\ UNCHANGED <<runVars, pc, batch, gone>>
ReadRun(r) ==
  /\ At(r, "resolve") /\ engine.todo = {}
  /\ IF Exists(r) THEN Reads(r, "conclude") ELSE Proceed("fail") /\ UNCHANGED seen
  /\ UNCHANGED <<runVars, pc, batch, gone>>

\* The identifier of a conclusion: that of its key, else that of the only
\* conclusion on the property that shares evidence with it, else a new one.
Overlapping(key, run) ==
  {k \in DOMAIN run.conclusions : /\ run.conclusions[k].property = key[1]
                                  /\ run.conclusions[k].evidence \cap Group(key, run) # {}}
Known(key, run) == key \in DOMAIN run.byKey \/ Cardinality(Overlapping(key, run)) = 1
Unknown(keys, run) == {key \in keys : ~Known(key, run)}
Names(keys, run) ==
  LET new == FreshIds(Unknown(keys, run), run)
  IN  [key \in keys |-> IF key \in DOMAIN run.byKey THEN run.byKey[key]
                        ELSE IF key \in DOMAIN new THEN new[key]
                        ELSE CHOOSE k \in Overlapping(key, run) : TRUE]
Conclusion(key, run) ==
  [property |-> key[1], resource |-> key[2], evidence |-> Group(key, run),
   winner |-> Winner(Group(key, run)),
   conflict |-> IF ConflictOn(key, run) = {} THEN NoId
                ELSE CHOOSE k \in ConflictOn(key, run) : TRUE]

\* The checks of ApplyConclusions.
Applicable_Unchecked(c, id, index) ==
  c.conflict \in DOMAIN conflicts \cup {NoId} /\ (KeyOf(c) \in DOMAIN index => index[KeyOf(c)] = id)
Applicable(c, id, index) ==
  /\ c.evidence \subseteq evidence
  /\ c.conflict = NoId \/ c.conflict \in DOMAIN conflicts
  /\ KeyOf(c) \in DOMAIN index => index[KeyOf(c)] = id

\* What the maps hold after the conclusions on keys are stored over the spared
\* ones: of two with one identifier the later replaces the earlier.
Stored(keys, names, kept) ==
  {Extend(kept, [id \in {names[k] : k \in keys} |-> Conclusion(last[id], seen)]) :
     last \in {f \in [{names[k] : k \in keys} -> keys] : \A id \in DOMAIN f : names[f[id]] = id}}

\* ApplyConclusions, in place like ReplaceConflicts.
ApplyConclusions(r) ==
  /\ At(r, "conclude") /\ Left(Unknown(Keys(seen, engine.properties), seen), seen)
  /\ LET keys == Keys(seen, engine.properties)
         names == Names(keys, seen)
         kept == Spared(conclusions)
         dropped == {KeyOf(conclusions[k]) : k \in DOMAIN conclusions \ DOMAIN kept}
         index == IF engine.full THEN Empty ELSE Without(byKey, dropped)
         valid == {key \in keys : Applicable(Conclusion(key, seen), names[key], index)}
         apply(done) == /\ conclusions' \in Stored(done, names, kept)
                        /\ byKey' = Extend(index, [key \in done |-> names[key]])
     IN  IF Exists(r) /\ Active /\ valid = keys
         THEN apply(keys) /\ counted' = Cardinality(DOMAIN conclusions') /\ Proceed("finish")
         ELSE /\ Proceed("fail")
              /\ UNCHANGED counted
              /\ IF Exists(r) /\ Active /\ ~engine.full
                 THEN \E before \in SUBSET valid : apply(before)
                 ELSE UNCHANGED <<conclusions, byKey>>
  /\ UNCHANGED <<state, coverage, evidence, groups, conflicts, fusion, seen, pc, batch, gone>>

Leaves(r) == engine' = Idle /\ seen' = Nothing /\ To(r, "done")

Complete(r) ==
  /\ At(r, "finish")
  /\ IF Exists(r) /\ Active
     THEN fusion' = "COMPLETE" /\ Leaves(r)
     ELSE Proceed("fail") /\ UNCHANGED <<fusion, seen, pc>>
  /\ UNCHANGED <<state, data, batch, gone>>

\* The failure is recorded under a context of its own.
Fail(r) ==
  /\ At(r, "fail") /\ Leaves(r)
  /\ fusion' = IF Active THEN "FAILED" ELSE fusion
  /\ UNCHANGED <<state, data, batch, gone>>

Expire(r) ==
  /\ r \in Mortal \ gone /\ pc[r] # "done"
  /\ gone' = gone \cup {r}
  /\ UNCHANGED <<runVars, engine, seen, pc, batch>>

Compute(r) == \/ Correlate(r) \/ Regroup(r) \/ Expand(r) \/ Detect(r) \/ ReplaceConflicts(r)
              \/ ListConflicts(r) \/ Resolve(r) \/ ReadRun(r) \/ ApplyConclusions(r)
              \/ Complete(r) \/ Fail(r)
Serve(r) == \/ Prepare(r) \/ Store(r) \/ Remove(r) \/ Mark(r)
            \/ Cancel(r) \/ Finalize(r) \/ Reset(r) \/ Start(r) \/ Compute(r)
AllDone == \A r \in Requests : pc[r] = "done"

Next == (\E r \in Requests : Serve(r) \/ Expire(r)) \/ (AllDone /\ UNCHANGED vars)
Spec == Init /\ [][Next]_vars

-----------------------------------------------------------------------------
(* Properties.                                                              *)

ConflictType == [property : Properties, resource : {Resource[i] : i \in Items} \cup Ids,
                 evidence : SUBSET Items, winner : Items \cup {NoId}]
ConclusionType == [property : Properties, resource : {Resource[i] : i \in Items} \cup Ids,
                   evidence : SUBSET Items, winner : Items, conflict : Ids \cup {NoId}]
Maps(f, D, R) == DOMAIN f \subseteq D /\ \A x \in DOMAIN f : f[x] \in R

\* The variables have their types.
TypeOK ==
  /\ state \in {"ACTIVE", "FINALIZED", "CANCELLED", "NONE"}
  /\ coverage \in [Sources -> {"ABSENT", "PENDING"} \cup Terminal]
  /\ evidence \subseteq Items
  /\ Maps(groups, Ids, SUBSET Items)
  /\ Maps(conflicts, Ids, ConflictType)
  /\ Maps(conclusions, Ids, ConclusionType)
  /\ Maps(byKey, Properties \X ({Resource[i] : i \in Items} \cup Ids), Ids)
  /\ counted \in Nat
  /\ fusion \in {"IDLE", "RUNNING", "COMPLETE", "FAILED"}
  /\ engine.properties \subseteq Properties /\ engine.todo \subseteq Ids
  /\ pc \in [Requests -> {"begin", "store", "schedule", "compute", "done"}]
  /\ batch \in [Requests -> SUBSET Items]
  /\ gone \subseteq Mortal

\* Whatever is removed while a computation works on an older clone, no group,
\* conflict or conclusion refers to evidence the run no longer has: the store
\* refuses the results of a clone that went stale (store/memory.go).
EvidenceExists ==
  /\ \A g \in DOMAIN groups : groups[g] \subseteq evidence
  /\ \A k \in DOMAIN conflicts : conflicts[k].evidence \subseteq evidence
  /\ \A k \in DOMAIN conclusions : /\ conclusions[k].evidence \subseteq evidence
                                   /\ conclusions[k].winner \in evidence

\* The conclusions a computation of everything would reach from the evidence
\* and the groups of the run.
Fused == {[property |-> key[1], resource |-> key[2], evidence |-> Group(key, Clone),
           winner |-> Winner(Group(key, Clone)), disputed |-> Disputed(Group(key, Clone))] :
            key \in Keys(Clone, {})}
Held == {[property |-> conclusions[k].property, resource |-> conclusions[k].resource,
          evidence |-> conclusions[k].evidence, winner |-> conclusions[k].winner,
          disputed |-> conclusions[k].conflict # NoId] : k \in DOMAIN conclusions}

Removed == UNION {batch[r] : r \in {q \in Requests : q.op = "remove"}}

\* Once every request is answered, the incremental computations have together
\* reached what one computation of everything reaches, though requests raced
\* and computations of impatient callers were cut off anywhere.  (After a
\* removal they may not: see RunConcludesEveryGroup.)
Converged == AllDone /\ Active /\ Removed = {} => Held = Fused

\* Then every conflict is resolved, in favour of the conclusion that names it,
\* and every disputed conclusion names the conflict of its key.
ConflictsSettled ==
  AllDone /\ Active =>
    /\ \A k \in DOMAIN conflicts : conflicts[k].winner # NoId
    /\ \A k \in DOMAIN conclusions : conclusions[k].conflict # NoId =>
         /\ conclusions[k].conflict \in DOMAIN conflicts
         /\ KeyOf(conflicts[conclusions[k].conflict]) = KeyOf(conclusions[k])
         /\ conflicts[conclusions[k].conflict].winner = conclusions[k].winner

\* A run that is cancelled, finalized or reset in the middle of a computation
\* or of an ingestion keeps exactly what it had: no late write reaches it.
ClosedRunIsFrozen == [][(state # "ACTIVE" /\ state' = state) => UNCHANGED frozenVars]_vars

\* Evidence prepared before its source was closed does not enter after it, and
\* a batch enters as a whole: no later item is left out for a closed source.
ClosedSourceGainsNothing ==
  [][\A s \in Sources : coverage[s] \in Terminal =>
       {i \in evidence' : Source[i] = s} \subseteq {i \in evidence : Source[i] = s}]_vars

\* Racing and cut-off computations settle on what one computation reaches.
ComputationsSettle == Converged /\ ConflictsSettled

\* What a computation is about to call COMPLETE is of one reading of the run,
\* whatever was added, removed or closed while it worked: each conflict of its
\* properties is resolved, each of their conclusions follows from the clone it
\* read last, and names, if any, the conflict on its own key.
Concludes(c, run, properties) == \E key \in Keys(run, properties) : c = Conclusion(key, run)
AnswersAreSound ==
  engine.pc = "finish" =>
    /\ \A k \in DOMAIN conflicts :
         conflicts[k].property \in Affected(engine.properties) => conflicts[k].winner # NoId
    /\ \A k \in DOMAIN conclusions :
         conclusions[k].property \in Affected(engine.properties) =>
           /\ Concludes(conclusions[k], seen, engine.properties)
           /\ conclusions[k].conflict \in DOMAIN conflicts =>
                KeyOf(conflicts[conclusions[k].conflict]) = KeyOf(conclusions[k])

\* What is closed, a run or one source of it, does not change any more.
ClosedIsFrozen == ClosedRunIsFrozen /\ ClosedSourceGainsNothing

\* What the code does not keep: see the findings.

\* Run: "group by property ... create/update conclusions": when a computation
\* of everything completes, each group of the evidence has its conclusion.
RunConcludesEveryGroup ==
  [][\A r \in Requests :
       (r.op = "run" /\ At(r, "finish") /\ fusion' = "COMPLETE" /\ seen.evidence = evidence)
       => \A key \in Keys(seen, {}) : \E k \in DOMAIN conclusions : KeyOf(conclusions[k]) = key]_vars
=============================================================================
