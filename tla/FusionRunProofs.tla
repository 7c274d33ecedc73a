--------------------------- MODULE FusionRunProofs ---------------------------
(***************************************************************************)
(* What the store of the Fusion core holds refers to evidence the run has, *)
(* a run that has ended stays as it is, and the variables keep their types,*)
(* for any finite set of items and any requests, links and ranks of them.  *)
(* Computations answer what one reading of the run leads to, and together  *)
(* settle on what a single computation of everything reaches.              *)
(***************************************************************************)
EXTENDS FusionRun, FunctionTheorems, FiniteSetTheorems, TLAPS

\* Among some items one is best: the items that beat it are fewest.
LEMMA BestItem ==
  ASSUME NEW S \in SUBSET Items, S # {}
  PROVE  Winner(S) \in S /\ \A j \in S : Rank[Winner(S)] >= Rank[j]
<1> DEFINE Beating(i) == {j \in S : Rank[j] > Rank[i]}
           T == {Beating(i) : i \in S}
           Fewer == StrictSubsetOrdering(Items)
<1>1. \A i \in Items : Rank[i] \in Nat
  BY FusionAssumption DEF FusionAssumption
<1>2. T \subseteq SUBSET Items /\ T # {}
  OBVIOUS
<1>3. IsWellFoundedOn(Fewer, SUBSET Items)
  BY FusionAssumption, FS_StrictSubsetOrderingWellFounded, FS_FiniteSubsetsOfFinite DEF FusionAssumption
<1>4. PICK x \in T : \A y \in T : ~(<<y, x>> \in Fewer)
  <2> HIDE DEF T, Fewer
  <2> QED
    BY <1>2, <1>3, WFMin
<1>5. PICK i \in S : x = Beating(i)
  BY <1>4
<1>6. ASSUME NEW j \in S, Rank[j] > Rank[i]
      PROVE  FALSE
  <2>1. Beating(j) \subseteq Beating(i) /\ j \in Beating(i) /\ j \notin Beating(j)
    BY <1>1, <1>6
  <2>2. <<Beating(j), x>> \in Fewer
    BY <1>5, <2>1 DEF StrictSubsetOrdering
  <2> QED
    BY <1>4, <2>2
<1>7. \A j \in S : Rank[i] >= Rank[j]
  BY <1>1, <1>6
<1> QED
  BY <1>7 DEF Winner

(***************************************************************************)
(* What the store holds refers to evidence the run has.                    *)
(***************************************************************************)

\* A conflict is a record, which resolution updates in place.
ConflictRecord(c) ==
  c \in [property : {c.property}, resource : {c.resource}, evidence : {c.evidence}, winner : {c.winner}]

\* Requests and clones name items.
ItemsOnly ==
  /\ evidence \subseteq Items /\ seen.evidence \subseteq Items
  /\ batch \in [Requests -> SUBSET Items]

Shape ==
  /\ ItemsOnly
  /\ \A k \in DOMAIN conflicts : ConflictRecord(conflicts[k])
  /\ \A k \in DOMAIN conclusions : conclusions[k].winner \in conclusions[k].evidence

EvidenceInv == Shape /\ EvidenceExists

\* The groups that correlation rebuilds are made of the evidence it read.
LEMMA GroupsOfEvidence ==
  ASSUME NEW run, NEW items, NEW keep \in Keeps(run, Components(items)),
         NEW id \in DOMAIN Rebuilt(run, keep)
  PROVE  Rebuilt(run, keep)[id] \subseteq items
<1> DEFINE components == DOMAIN keep
           new == FreshIds(Ungrouped(keep), run)
           name(c) == IF keep[c] = NoId THEN new[c] ELSE keep[c]
<1>1. components = Components(items)
  BY DEF Keeps
<1>2. Rebuilt(run, keep) = [i \in {name(c) : c \in components} |-> CHOOSE c \in components : name(c) = i]
  BY DEF Rebuilt
<1> HIDE DEF name
<1>3. PICK c \in components : Rebuilt(run, keep)[id] = c
  BY <1>2
<1> QED
  BY <1>1, <1>3 DEF Components, Component

\* A key of the evidence has a group, and its winner belongs to it.
LEMMA GroupOfKey ==
  ASSUME NEW properties, NEW key \in Keys(seen, properties), seen.evidence \subseteq Items
  PROVE  Group(key, seen) \subseteq seen.evidence /\ Winner(Group(key, seen)) \in Group(key, seen)
<1>1. PICK i \in seen.evidence : key = <<Property[i], ResourceOf(i, seen)>>
  BY DEF Keys
<1>2. i \in Group(key, seen) /\ Group(key, seen) \in SUBSET Items
  BY <1>1 DEF Group
<1> QED
  BY <1>2, BestItem DEF Group

\* The conflicts of a detection are records.
LEMMA DetectedRecords ==
  ASSUME NEW run, NEW k \in DOMAIN Detected(run)
  PROVE  ConflictRecord(Detected(run)[k])
<1> DEFINE keys == DisputedKeys(run)
           new == FreshIds(Undetected(run), run)
           name(key) == IF key \in DOMAIN new THEN new[key]
                        ELSE CHOOSE id \in ConflictOn(key, run) : TRUE
           winner(key) ==
             IF key \notin DOMAIN new /\ run.conflicts[name(key)].evidence = Group(key, run)
             THEN run.conflicts[name(key)].winner ELSE NoId
<1>1. Detected(run) = [id \in {name(key) : key \in keys} |->
         LET key == CHOOSE q \in keys : name(q) = id
         IN  [property |-> key[1], resource |-> key[2],
              evidence |-> Group(key, run), winner |-> winner(key)]]
  BY DEF Detected
<1> HIDE DEF name, winner, keys, new
<1>2. \A p, q, e, w : ConflictRecord([property |-> p, resource |-> q, evidence |-> e, winner |-> w])
  BY DEF ConflictRecord
<1> QED
  BY <1>1, <1>2

\* Steps of the other variables.
LEMMA QuietEvidence ==
  ASSUME EvidenceInv, UNCHANGED <<evidence, groups, conflicts, conclusions>>,
         (UNCHANGED seen) \/ seen' = Clone \/ seen' = Nothing,
         batch' \in [Requests -> SUBSET Items]
  PROVE  EvidenceInv'
BY DEF EvidenceInv, Shape, ItemsOnly, EvidenceExists, Clone, Nothing, ConflictRecord

LEMMA StoreEvidence ==
  ASSUME EvidenceInv, NEW r \in Requests, Store(r)
  PROVE  EvidenceInv'
<1>1. evidence \subseteq evidence' /\ evidence' \subseteq evidence \cup batch[r]
  BY DEF Store
<1>2. UNCHANGED <<groups, conflicts, conclusions, seen, batch>>
  BY DEF Store
<1> QED
  BY <1>1, <1>2 DEF EvidenceInv, Shape, ItemsOnly, EvidenceExists, ConflictRecord

LEMMA RemoveEvidence ==
  ASSUME EvidenceInv, NEW r \in Requests, Remove(r)
  PROVE  EvidenceInv'
<1>1. CASE UNCHANGED <<evidence, groups, conflicts, conclusions, batch, seen>>
  BY <1>1, QuietEvidence DEF EvidenceInv, Shape, ItemsOnly
<1>2. CASE Exists(r) /\ Active /\ r.on \subseteq evidence
  <2> DEFINE of(f) == {k \in DOMAIN f : f[k].evidence \cap r.on # {}}
  <2>1. /\ evidence' = evidence \ r.on
        /\ groups' = Without(groups, {g \in DOMAIN groups : groups[g] \cap r.on # {}})
        /\ conflicts' = Without(conflicts, of(conflicts))
        /\ conclusions' = Without(conclusions, of(conclusions))
        /\ batch' = [batch EXCEPT ![r] = r.on]
        /\ seen' = seen
    BY <1>2 DEF Remove
  <2>2. ItemsOnly'
    BY <1>2, <2>1 DEF EvidenceInv, Shape, ItemsOnly
  <2>3. \A g \in DOMAIN groups' : groups'[g] \subseteq evidence'
    BY <2>1 DEF EvidenceInv, EvidenceExists, Without
  <2>4. \A k \in DOMAIN conflicts' : conflicts'[k].evidence \subseteq evidence' /\ ConflictRecord(conflicts'[k])
    BY <2>1 DEF EvidenceInv, EvidenceExists, Shape, Without
  <2>5. \A k \in DOMAIN conclusions' : conclusions'[k].evidence \subseteq evidence' /\ conclusions'[k].winner \in conclusions'[k].evidence
    <3>1. \A k \in DOMAIN conclusions' :
            k \in DOMAIN conclusions /\ conclusions'[k] = conclusions[k] /\ conclusions[k].evidence \cap r.on = {}
      BY <2>1 DEF Without
    <3>2. \A k \in DOMAIN conclusions : conclusions[k].winner \in conclusions[k].evidence
      BY DEF EvidenceInv, Shape
    <3> QED
      BY <2>1, <3>1, <3>2 DEF EvidenceInv, EvidenceExists
  <2> QED
    BY <2>2, <2>3, <2>4, <2>5 DEF EvidenceInv, EvidenceExists, Shape, ConflictRecord
<1> QED
  BY <1>1, <1>2 DEF Remove

\* A replacement of conflicts, whole or cut off, that checked what it stores.
LEMMA ConflictsReplaced ==
  ASSUME EvidenceInv, NEW found, NEW done \in SUBSET DOMAIN found,
         \A k \in done : found[k].evidence \subseteq evidence /\ ConflictRecord(found[k]),
         conflicts' = Extend(Spared(conflicts), [k \in done |-> found[k]])
  PROVE  \A k \in DOMAIN conflicts' :
           conflicts'[k].evidence \subseteq evidence /\ ConflictRecord(conflicts'[k])
<1>1. \A k \in DOMAIN Spared(conflicts) : k \in DOMAIN conflicts /\ Spared(conflicts)[k] = conflicts[k]
  BY DEF Spared, Without, Empty
<1>2. \A k \in DOMAIN conflicts' : \/ k \in done /\ conflicts'[k] = found[k]
                                   \/ k \in DOMAIN Spared(conflicts) /\ conflicts'[k] = Spared(conflicts)[k]
  BY DEF Extend
<1> QED
  BY <1>1, <1>2 DEF EvidenceInv, EvidenceExists, Shape

LEMMA ReplaceEvidence ==
  ASSUME EvidenceInv, NEW r \in Requests, ReplaceConflicts(r)
  PROVE  EvidenceInv'
<1> DEFINE found == Detected(seen)
           valid == {k \in DOMAIN found : found[k].evidence \subseteq evidence}
<1>1. UNCHANGED <<evidence, groups, conclusions, seen, batch>>
  BY DEF ReplaceConflicts
<1>2. \A k \in DOMAIN found : ConflictRecord(found[k])
  BY DetectedRecords
<1>3. \/ UNCHANGED conflicts
      \/ \E done \in SUBSET valid : conflicts' = Extend(Spared(conflicts), [k \in done |-> found[k]])
  <2>1. CASE valid = DOMAIN found /\ conflicts' = Extend(Spared(conflicts), found)
    <3>1. found = [k \in DOMAIN found |-> found[k]]
      BY DEF Detected
    <3> QED
      BY <2>1, <3>1
  <2> QED
    BY <2>1 DEF ReplaceConflicts
<1> HIDE DEF found
<1>4. \A k \in DOMAIN conflicts' : conflicts'[k].evidence \subseteq evidence /\ ConflictRecord(conflicts'[k])
  BY <1>2, <1>3, ConflictsReplaced DEF EvidenceInv, EvidenceExists, Shape
<1> QED
  BY <1>1, <1>4 DEF EvidenceInv, EvidenceExists, Shape, ItemsOnly, ConflictRecord

LEMMA ResolveEvidence ==
  ASSUME EvidenceInv, NEW r \in Requests, Resolve(r)
  PROVE  EvidenceInv'
<1>1. UNCHANGED <<evidence, groups, conclusions, seen, batch>>
  BY DEF Resolve
<1>2. CASE UNCHANGED conflicts
  BY <1>1, <1>2, QuietEvidence DEF EvidenceInv, Shape, ItemsOnly
<1>3. ASSUME NEW k \in DOMAIN conflicts, NEW w, conflicts' = [conflicts EXCEPT ![k].winner = w]
      PROVE  EvidenceInv'
  <2>1. ConflictRecord(conflicts[k]) /\ conflicts[k].evidence \subseteq evidence
    BY DEF EvidenceInv, EvidenceExists, Shape
  <2>2. LET c == [conflicts[k] EXCEPT !.winner = w]
        IN  c.evidence = conflicts[k].evidence /\ ConflictRecord(c)
    BY <2>1 DEF ConflictRecord
  <2>3. \A j \in DOMAIN conflicts' :
          conflicts'[j].evidence \subseteq evidence /\ ConflictRecord(conflicts'[j])
    BY <1>3, <2>1, <2>2 DEF EvidenceInv, EvidenceExists, Shape
  <2> QED
    BY <1>1, <2>3 DEF EvidenceInv, EvidenceExists, Shape, ItemsOnly, ConflictRecord
<1> QED
  BY <1>2, <1>3 DEF Resolve

LEMMA RegroupEvidence ==
  ASSUME EvidenceInv, NEW r \in Requests, Regroup(r)
  PROVE  EvidenceInv'
<1>1. UNCHANGED <<evidence, conflicts, conclusions, seen, batch>>
  BY DEF Regroup
<1>2. CASE UNCHANGED groups
  BY <1>1, <1>2, QuietEvidence DEF EvidenceInv, Shape, ItemsOnly
<1>3. ASSUME seen.evidence \subseteq evidence,
             NEW keep \in Keeps(seen, Components(seen.evidence)), groups' = Rebuilt(seen, keep)
      PROVE  EvidenceInv'
  <2>1. \A g \in DOMAIN groups' : groups'[g] \subseteq evidence
    BY <1>3, GroupsOfEvidence
  <2> QED
    BY <1>1, <2>1 DEF EvidenceInv, EvidenceExists, Shape, ItemsOnly, ConflictRecord
<1> QED
  BY <1>2, <1>3 DEF Regroup

\* Conclusions that were checked, stored over those that are spared.
LEMMA ConclusionsStored ==
  ASSUME EvidenceInv, NEW properties, NEW done \in SUBSET Keys(seen, properties), NEW names,
         \A key \in done : Conclusion(key, seen).evidence \subseteq evidence,
         conclusions' \in Stored(done, names, Spared(conclusions))
  PROVE  \A k \in DOMAIN conclusions' :
           /\ conclusions'[k].evidence \subseteq evidence
           /\ conclusions'[k].winner \in conclusions'[k].evidence
<1>1. \A key \in done : Conclusion(key, seen).winner \in Conclusion(key, seen).evidence
  BY GroupOfKey DEF Conclusion, EvidenceInv, Shape, ItemsOnly
<1>2. \A k \in DOMAIN Spared(conclusions) : k \in DOMAIN conclusions /\ Spared(conclusions)[k] = conclusions[k]
  BY DEF Spared, Without, Empty
<1>3. PICK last \in [{names[k] : k \in done} -> done] :
        conclusions' = Extend(Spared(conclusions), [id \in {names[k] : k \in done} |-> Conclusion(last[id], seen)])
  BY DEF Stored
<1>4. \A k \in DOMAIN conclusions' :
        \/ k \in DOMAIN Spared(conclusions) /\ conclusions'[k] = Spared(conclusions)[k]
        \/ \E key \in done : conclusions'[k] = Conclusion(key, seen)
  BY <1>3 DEF Extend
<1> QED
  BY <1>1, <1>2, <1>4 DEF EvidenceInv, EvidenceExists, Shape

LEMMA ApplyEvidence ==
  ASSUME EvidenceInv, NEW r \in Requests, ApplyConclusions(r)
  PROVE  EvidenceInv'
<1> DEFINE keys == Keys(seen, engine.properties)
           names == Names(keys, seen)
           kept == Spared(conclusions)
           dropped == {KeyOf(conclusions[k]) : k \in DOMAIN conclusions \ DOMAIN kept}
           index == IF engine.full THEN Empty ELSE Without(byKey, dropped)
           valid == {key \in keys : Applicable(Conclusion(key, seen), names[key], index)}
<1>1. UNCHANGED <<evidence, groups, conflicts, seen, batch>>
  BY DEF ApplyConclusions
<1>2. \A key \in valid : Conclusion(key, seen).evidence \subseteq evidence
  BY DEF Applicable
<1>3. \/ UNCHANGED conclusions
      \/ \E done \in SUBSET valid : conclusions' \in Stored(done, names, kept)
  BY DEF ApplyConclusions
<1> HIDE DEF names
<1>4. \A k \in DOMAIN conclusions' :
        /\ conclusions'[k].evidence \subseteq evidence
        /\ conclusions'[k].winner \in conclusions'[k].evidence
  BY <1>2, <1>3, ConclusionsStored DEF EvidenceInv, EvidenceExists, Shape
<1> QED
  BY <1>1, <1>4 DEF EvidenceInv, EvidenceExists, Shape, ItemsOnly, ConflictRecord

LEMMA ResetEvidence ==
  ASSUME EvidenceInv, NEW r \in Requests, Reset(r)
  PROVE  EvidenceInv'
<1>1. UNCHANGED <<seen, batch>>
  BY DEF Reset
<1>2. CASE UNCHANGED runVars
  BY <1>1, <1>2, QuietEvidence DEF runVars, EvidenceInv, Shape, ItemsOnly
<1>3. CASE evidence' = {} /\ groups' = Empty /\ conflicts' = Empty /\ conclusions' = Empty
  BY <1>1, <1>3 DEF Empty, EvidenceInv, EvidenceExists, Shape, ItemsOnly
<1> QED
  BY <1>2, <1>3 DEF Reset

LEMMA StepEvidence ==
  ASSUME EvidenceInv, [Next]_vars
  PROVE  EvidenceInv'
<1>0. batch \in [Requests -> SUBSET Items]
  BY DEF EvidenceInv, Shape, ItemsOnly
<1>1. CASE UNCHANGED vars
  BY <1>0, <1>1, QuietEvidence DEF vars, runVars
<1>2. ASSUME NEW r \in Requests, Prepare(r)
      PROVE  EvidenceInv'
  <2>1. Prepared(r) \subseteq r.on /\ r.on \subseteq Items
    BY <1>2, FusionAssumption DEF FusionAssumption, Prepare, Begins, Prepared
  <2>2. batch' \in [Requests -> SUBSET Items]
    BY <1>0, <1>2, <2>1 DEF Prepare
  <2> QED
    BY <1>2, <2>2, QuietEvidence DEF Prepare, runVars
<1>3. ASSUME NEW r \in Requests, Mark(r) \/ Cancel(r) \/ Finalize(r) \/ Start(r) \/ Expire(r)
      PROVE  EvidenceInv'
  BY <1>0, <1>3, QuietEvidence DEF Mark, Cancel, Finalize, Start, Expire, data, runVars
<1>4. ASSUME NEW r \in Requests,
             \/ Correlate(r) \/ Expand(r) \/ Detect(r) \/ ListConflicts(r)
             \/ ReadRun(r) \/ Complete(r) \/ Fail(r)
      PROVE  EvidenceInv'
  BY <1>0, <1>4, QuietEvidence DEF Correlate, Expand, Detect, ListConflicts, ReadRun, Complete, Fail, Reads, Leaves, data, runVars
<1>5. ASSUME NEW r \in Requests, Serve(r)
      PROVE  EvidenceInv'
  BY <1>2, <1>3, <1>4, <1>5, StoreEvidence, RemoveEvidence, ReplaceEvidence, ResolveEvidence,
     RegroupEvidence, ApplyEvidence, ResetEvidence DEF Serve, Compute
<1> QED
  BY <1>1, <1>3, <1>5 DEF Next

\* Whatever is removed under a computation, no group, conflict or conclusion
\* refers to evidence the run no longer has.
THEOREM EvidenceStays == Spec => []EvidenceExists
<1>1. Init => EvidenceInv
  BY DEF Init, EvidenceInv, EvidenceExists, Shape, ItemsOnly, Empty, Nothing
<1>2. EvidenceInv /\ [Next]_vars => EvidenceInv'
  BY StepEvidence
<1>3. EvidenceInv => EvidenceExists
  BY DEF EvidenceInv
<1> QED
  BY <1>1, <1>2, <1>3, PTL DEF Spec

(***************************************************************************)
(* What is closed does not change any more.                                *)
(***************************************************************************)

CoverageTypes == coverage \in [Sources -> {"ABSENT", "PENDING"} \cup Terminal]

LEMMA StepCoverage ==
  ASSUME CoverageTypes, [Next]_vars
  PROVE  CoverageTypes'
<1>1. CASE UNCHANGED coverage
  BY <1>1 DEF CoverageTypes
<1>2. ASSUME NEW r \in Requests, Store(r) \/ Mark(r) \/ Reset(r)
      PROVE  CoverageTypes'
  BY <1>1, <1>2 DEF CoverageTypes, Store, Mark, Reset, runVars
<1>3. ASSUME NEW r \in Requests, Prepare(r) \/ Remove(r) \/ Cancel(r) \/ Finalize(r) \/ Start(r) \/ Expire(r)
      PROVE  CoverageTypes'
  BY <1>1, <1>3 DEF Prepare, Remove, Cancel, Finalize, Start, Expire, data, runVars
<1>4. ASSUME NEW r \in Requests, Compute(r)
      PROVE  CoverageTypes'
  BY <1>1, <1>4 DEF Compute, Correlate, Regroup, Expand, Detect, ReplaceConflicts, ListConflicts, Resolve,
     ReadRun, ApplyConclusions, Complete, Fail, data, runVars
<1>5. CASE UNCHANGED vars
  BY <1>1, <1>5 DEF vars, runVars
<1> QED
  BY <1>2, <1>3, <1>4, <1>5 DEF Next, Serve

Frozen == state # "ACTIVE" /\ state' = state => UNCHANGED frozenVars
ClosedSources ==
  \A s \in Sources : coverage[s] \in Terminal =>
    {i \in evidence' : Source[i] = s} \subseteq {i \in evidence : Source[i] = s}

LEMMA StepFrozen ==
  ASSUME CoverageTypes, Next
  PROVE  Frozen
<1>1. CASE UNCHANGED frozenVars
  BY <1>1 DEF Frozen
<1>2. ASSUME NEW r \in Requests, Store(r) \/ Remove(r)
      PROVE  Frozen
  <2>1. CASE Active
    BY <2>1 DEF Active, Frozen
  <2>2. CASE ~Active
    BY <1>1, <1>2, <2>2 DEF Store, Storable, Remove, frozenVars
  <2> QED
    BY <2>1, <2>2
<1>3. ASSUME NEW r \in Requests, Mark(r)
      PROVE  Frozen
  <2>1. CASE Active
    BY <2>1 DEF Active, Frozen
  <2>2. CASE ~Active
    <3>1. coverage' = [s \in Sources |-> coverage[s]]
      BY <1>3, <2>2 DEF Mark
    <3>2. coverage' = coverage
      BY <3>1 DEF CoverageTypes
    <3> QED
      BY <1>1, <1>3, <3>2 DEF Mark, frozenVars
  <2> QED
    BY <2>1, <2>2
<1>4. ASSUME NEW r \in Requests, Reset(r)
      PROVE  Frozen
  BY <1>4 DEF Reset, Frozen, Exists, runVars, frozenVars
<1>5. ASSUME NEW r \in Requests, Prepare(r) \/ Cancel(r) \/ Finalize(r) \/ Expire(r)
      PROVE  Frozen
  BY <1>1, <1>5 DEF Prepare, Cancel, Finalize, Expire, data, runVars, frozenVars
<1>6. ASSUME NEW r \in Requests, Start(r) \/ Compute(r)
      PROVE  Frozen
  <2>1. CASE Active
    BY <2>1 DEF Active, Frozen
  <2>2. CASE ~Active
    BY <1>1, <1>6, <2>2 DEF Start, Compute, Correlate, Regroup, Expand, Detect, ReplaceConflicts, ListConflicts,
       Resolve, ReadRun, ApplyConclusions, Complete, Fail, data, runVars, frozenVars
  <2> QED
    BY <2>1, <2>2
<1>7. CASE UNCHANGED vars
  BY <1>1, <1>7 DEF vars, runVars, frozenVars
<1> QED
  BY <1>2, <1>3, <1>4, <1>5, <1>6, <1>7 DEF Next, Serve

LEMMA StepClosed ==
  ASSUME Next
  PROVE  ClosedSources
<1>1. CASE evidence' \subseteq evidence
  BY <1>1 DEF ClosedSources
<1>2. ASSUME NEW r \in Requests, Store(r)
      PROVE  ClosedSources
  <2>1. CASE Storable(r)
    BY <1>2, <2>1 DEF Store, Storable, ClosedSources
  <2>2. CASE ~Storable(r)
    BY <1>1, <1>2, <2>2 DEF Store
  <2> QED
    BY <2>1, <2>2
<1>3. ASSUME NEW r \in Requests, Prepare(r) \/ Remove(r) \/ Mark(r) \/ Cancel(r) \/ Finalize(r) \/ Reset(r) \/ Start(r) \/ Expire(r)
      PROVE  ClosedSources
  BY <1>1, <1>3 DEF Prepare, Remove, Mark, Cancel, Finalize, Reset, Start, Expire, data, runVars
<1>4. ASSUME NEW r \in Requests, Compute(r)
      PROVE  ClosedSources
  BY <1>1, <1>4 DEF Compute, Correlate, Regroup, Expand, Detect, ReplaceConflicts, ListConflicts, Resolve,
     ReadRun, ApplyConclusions, Complete, Fail, data, runVars
<1>5. CASE UNCHANGED vars
  BY <1>1, <1>5 DEF vars, runVars
<1> QED
  BY <1>2, <1>3, <1>4, <1>5 DEF Next, Serve

\* A closed run keeps exactly what it had, and a closed source gains nothing.
THEOREM ClosedStaysFrozen == Spec => ClosedIsFrozen
<1>1. Init => CoverageTypes
  BY DEF Init, CoverageTypes
<1>2. CoverageTypes /\ [Next]_vars => CoverageTypes'
  BY StepCoverage
<1>3. CoverageTypes /\ [Next]_vars => [Frozen /\ ClosedSources]_vars
  BY StepFrozen, StepClosed
<1> QED
  BY <1>1, <1>2, <1>3, PTL DEF Spec, ClosedIsFrozen, ClosedRunIsFrozen, ClosedSourceGainsNothing, Frozen, ClosedSources

(***************************************************************************)
(* The variables keep their types.                                         *)
(***************************************************************************)

\* A set of no more elements than another can be numbered in it.
LEMMA Numbering ==
  ASSUME NEW S, NEW T, IsFiniteSet(S), IsFiniteSet(T), Cardinality(S) <= Cardinality(T)
  PROVE  \E f \in [S -> T] : \A x, y \in S : f[x] = f[y] => x = y
<1>1. Cardinality(S) \in Nat /\ Cardinality(T) \in Nat
  BY FS_CardinalityType
<1>2. PICK g \in Bijection(1..Cardinality(S), S) : TRUE
  BY FS_CardinalityType, Fun_ExistsBij
<1>3. PICK h \in Bijection(1..Cardinality(T), T) : TRUE
  BY FS_CardinalityType, Fun_ExistsBij
<1> DEFINE back == Inverse(g, 1..Cardinality(S), S)
<1>4. back \in [S -> 1..Cardinality(S)] /\ \A x, y \in S : back[x] = back[y] => x = y
  <2>1. back \in Bijection(S, 1..Cardinality(S))
    BY Fun_BijInverse
  <2> HIDE DEF back
  <2>2. back \in Injection(S, 1..Cardinality(S))
    BY <2>1, Fun_BijectionProperties
  <2> QED
    BY <2>2, Fun_InjectionProperties
<1>5. h \in [1..Cardinality(T) -> T] /\ \A a, b \in 1..Cardinality(T) : h[a] = h[b] => a = b
  BY Fun_BijectionProperties
<1> HIDE DEF back
<1>6. \A x \in S : back[x] \in 1..Cardinality(T)
  BY <1>1, <1>4
<1> DEFINE f == [x \in S |-> h[back[x]]]
<1>7. f \in [S -> T] /\ \A x, y \in S : f[x] = f[y] => x = y
  BY <1>4, <1>5, <1>6
<1> HIDE DEF f
<1> QED
  BY <1>7

\* Identifiers that are left are given to each element of a finite set.
LEMMA NewIds ==
  ASSUME NEW S, IsFiniteSet(S), NEW run, Left(S, run)
  PROVE  FreshIds(S, run) \in [S -> Ids]
<1> DEFINE free == Ids \ Taken(run)
<1>1. IsFiniteSet(free)
  BY FusionAssumption, FS_Subset DEF FusionAssumption
<1>2. \E f \in [S -> free] : \A x, y \in S : f[x] = f[y] => x = y
  <2> HIDE DEF free
  <2> QED
    BY <1>1, Numbering DEF Left, free
<1> QED
  BY <1>2 DEF FreshIds

ResourceIds == {Resource[i] : i \in Items} \cup Ids

\* What a computation reads of the run.
RunTypes(run) ==
  /\ run.evidence \subseteq Items
  /\ Maps(run.groups, Ids, SUBSET Items)
  /\ Maps(run.conflicts, Ids, ConflictType)
  /\ Maps(run.conclusions, Ids, ConclusionType)
  /\ Maps(run.byKey, Properties \X ResourceIds, Ids)

\* The engine's computation is a record of such properties and identifiers.
EngineRecord(e) ==
  e \in [pc : {e.pc}, properties : SUBSET Properties, full : {e.full}, todo : SUBSET Ids]

Controls ==
  /\ state \in {"ACTIVE", "FINALIZED", "CANCELLED", "NONE"}
  /\ fusion \in {"IDLE", "RUNNING", "COMPLETE", "FAILED"}
  /\ pc \in [Requests -> {"begin", "store", "schedule", "compute", "done"}]
  /\ batch \in [Requests -> SUBSET Items]
  /\ gone \subseteq Mortal
  /\ EngineRecord(engine)

StoreTypes ==
  /\ evidence \subseteq Items
  /\ Maps(groups, Ids, SUBSET Items)
  /\ Maps(conflicts, Ids, ConflictType)
  /\ Maps(conclusions, Ids, ConclusionType)
  /\ Maps(byKey, Properties \X ResourceIds, Ids)
  /\ IsFiniteSet(DOMAIN conclusions)
  /\ counted \in Nat

RunInv == CoverageTypes /\ Controls /\ RunTypes(seen) /\ StoreTypes

\* A finite set of keys: the items are finitely many.
LEMMA KeysFinite ==
  ASSUME NEW run, run.evidence \subseteq Items, NEW properties
  PROVE  IsFiniteSet(Keys(run, properties))
<1> DEFINE items == {j \in run.evidence : Property[j] \in Affected(properties)}
           key == [i \in items |-> <<Property[i], ResourceOf(i, run)>>]
<1>1. IsFiniteSet(items)
  BY FusionAssumption, FS_Subset DEF FusionAssumption
<1>2. key \in [items -> Keys(run, properties)] /\ \A k \in Keys(run, properties) : \E i \in items : key[i] = k
  BY DEF Keys
<1> HIDE DEF key, items
<1>3. key \in Surjection(items, Keys(run, properties))
  BY <1>2, Fun_IsSurj
<1> QED
  BY <1>1, <1>3, FS_Surjection

\* The keys of evidence are a property and a resource.
LEMMA KeyTypes ==
  ASSUME NEW run, RunTypes(run), NEW properties, NEW key \in Keys(run, properties)
  PROVE  /\ key \in Properties \X ResourceIds
         /\ Group(key, run) \in SUBSET Items /\ Group(key, run) # {}
<1>1. PICK i \in run.evidence : key = <<Property[i], ResourceOf(i, run)>>
  BY DEF Keys
<1>2. i \in Items /\ Property[i] \in Properties
  BY DEF RunTypes, Properties
<1>3. ResourceOf(i, run) \in ResourceIds
  <2>1. CASE \E id \in DOMAIN run.groups : i \in run.groups[id]
    <3> DEFINE id == CHOOSE id \in DOMAIN run.groups : i \in run.groups[id]
    <3>1. id \in DOMAIN run.groups /\ i \in run.groups[id]
      BY <2>1
    <3>2. id \in Ids /\ run.groups[id] \subseteq Items
      BY <3>1 DEF RunTypes, Maps
    <3>3. Logical(id, run.groups[id]) \in ResourceIds
      <4> HIDE DEF id
      <4>1. (CHOOSE j \in run.groups[id] : TRUE) \in Items
        BY <3>1, <3>2
      <4> QED
        BY <3>2, <4>1 DEF Logical, ResourceIds
    <3> QED
      BY <2>1, <3>3 DEF ResourceOf
  <2>2. CASE ~\E id \in DOMAIN run.groups : i \in run.groups[id]
    BY <1>2, <2>2 DEF ResourceOf, ResourceIds
  <2> QED
    BY <2>1, <2>2
<1>4. i \in Group(key, run) /\ Group(key, run) \subseteq run.evidence
  BY <1>1 DEF Group
<1> QED
  BY <1>1, <1>2, <1>3, <1>4 DEF RunTypes

\* The groups that correlation rebuilds.
LEMMA RebuiltTypes ==
  ASSUME RunTypes(seen), NEW keep \in Keeps(seen, Components(seen.evidence)), Left(Ungrouped(keep), seen)
  PROVE  Maps(Rebuilt(seen, keep), Ids, SUBSET Items)
<1> DEFINE components == DOMAIN keep
           new == FreshIds(Ungrouped(keep), seen)
           name(c) == IF keep[c] = NoId THEN new[c] ELSE keep[c]
<1>1. components = Components(seen.evidence) /\ keep \in [components -> DOMAIN seen.groups \cup {NoId}]
  BY DEF Keeps
<1>2. IsFiniteSet(Ungrouped(keep))
  <2> DEFINE component == [i \in seen.evidence |-> Component(i, seen.evidence)]
  <2>1. IsFiniteSet(seen.evidence)
    BY FusionAssumption, FS_Subset DEF FusionAssumption, RunTypes
  <2>2. component \in [seen.evidence -> components] /\ \A c \in components : \E i \in seen.evidence : component[i] = c
    BY <1>1 DEF Components
  <2> HIDE DEF component, components
  <2>3. component \in Surjection(seen.evidence, components)
    BY <2>2, Fun_IsSurj
  <2>4. IsFiniteSet(components)
    BY <2>1, <2>3, FS_Surjection
  <2> QED
    BY <2>4, FS_Subset DEF Ungrouped, components
<1>3. new \in [Ungrouped(keep) -> Ids]
  BY <1>2, NewIds
<1>4. DOMAIN seen.groups \subseteq Ids
  BY DEF RunTypes, Maps
<1>5. \A c \in components : name(c) \in Ids
  <2> HIDE DEF new
  <2> QED
    BY <1>1, <1>3, <1>4 DEF Ungrouped
<1>6. DOMAIN Rebuilt(seen, keep) = {name(c) : c \in components}
  BY DEF Rebuilt
<1>7. \A id \in DOMAIN Rebuilt(seen, keep) : Rebuilt(seen, keep)[id] \subseteq seen.evidence
  BY GroupsOfEvidence
<1>8. seen.evidence \subseteq Items
  BY DEF RunTypes
<1> HIDE DEF name, components
<1> QED
  BY <1>5, <1>6, <1>7, <1>8 DEF Maps

\* The conflicts that detection finds.
LEMMA DetectedTypes ==
  ASSUME RunTypes(seen), Left(Undetected(seen), seen)
  PROVE  Maps(Detected(seen), Ids, ConflictType)
<1> DEFINE keys == DisputedKeys(seen)
           new == FreshIds(Undetected(seen), seen)
           name(key) == IF key \in DOMAIN new THEN new[key]
                        ELSE CHOOSE k \in ConflictOn(key, seen) : TRUE
           winner(key) ==
             IF key \notin DOMAIN new /\ seen.conflicts[name(key)].evidence = Group(key, seen)
             THEN seen.conflicts[name(key)].winner ELSE NoId
<1>1. keys \subseteq Keys(seen, engine.properties) /\ Undetected(seen) \subseteq keys
  BY DEF DisputedKeys, Undetected
<1>2. IsFiniteSet(Undetected(seen))
  BY <1>1, KeysFinite, FS_Subset DEF RunTypes
<1>3. new \in [Undetected(seen) -> Ids]
  BY <1>2, NewIds
<1>4. ASSUME NEW key \in keys, key \notin Undetected(seen)
      PROVE  name(key) \in DOMAIN seen.conflicts
  <2>1. ConflictOn(key, seen) # {}
    BY <1>4 DEF Undetected
  <2>2. name(key) = CHOOSE k \in ConflictOn(key, seen) : TRUE
    BY <1>3, <1>4
  <2>3. name(key) \in ConflictOn(key, seen)
    BY <2>1, <2>2
  <2> QED
    BY <2>3 DEF ConflictOn
<1>5. /\ DOMAIN seen.conflicts \subseteq Ids
      /\ \A k \in DOMAIN seen.conflicts : seen.conflicts[k].winner \in Items \cup {NoId}
  BY DEF RunTypes, Maps, ConflictType
<1>6. \A key \in keys : name(key) \in Ids /\ winner(key) \in Items \cup {NoId}
  <2> TAKE key \in keys
  <2>1. CASE key \in Undetected(seen)
    <3> HIDE DEF new
    <3> QED
      BY <1>3, <2>1
  <2>2. CASE key \notin Undetected(seen)
    <3>1. name(key) \in DOMAIN seen.conflicts
      BY <1>4, <2>2
    <3> HIDE DEF name
    <3> QED
      BY <1>5, <3>1
  <2> QED
    BY <2>1, <2>2
<1>7. Detected(seen) = [id \in {name(key) : key \in keys} |->
         LET key == CHOOSE k \in keys : name(k) = id
         IN  [property |-> key[1], resource |-> key[2],
              evidence |-> Group(key, seen), winner |-> winner(key)]]
  BY DEF Detected
<1>8. \A key \in keys : /\ key \in Properties \X ResourceIds
                        /\ Group(key, seen) \subseteq Items
  BY <1>1, KeyTypes
<1> HIDE DEF name, winner, keys
<1>9. ASSUME NEW key \in keys
      PROVE  [property |-> key[1], resource |-> key[2],
              evidence |-> Group(key, seen), winner |-> winner(key)] \in ConflictType
  BY <1>6, <1>8 DEF ConflictType, ResourceIds
<1> QED
  BY <1>6, <1>7, <1>9 DEF Maps

\* The identifiers that conclusions get.
LEMMA NamesTypes ==
  ASSUME RunTypes(seen), NEW properties, NEW keys, keys = Keys(seen, properties), Left(Unknown(keys, seen), seen)
  PROVE  \A key \in keys : Names(keys, seen)[key] \in Ids
<1> DEFINE new == FreshIds(Unknown(keys, seen), seen)
<1>1. IsFiniteSet(Unknown(keys, seen))
  BY KeysFinite, FS_Subset DEF RunTypes, Unknown
<1>2. new \in [Unknown(keys, seen) -> Ids]
  BY <1>1, NewIds
<1>3. DOMAIN seen.conclusions \subseteq Ids
  BY DEF RunTypes, Maps
<1>4. ASSUME NEW key \in keys
      PROVE  Names(keys, seen)[key] \in Ids
  <2>1. Names(keys, seen)[key] = IF key \in DOMAIN seen.byKey THEN seen.byKey[key]
                                 ELSE IF key \in DOMAIN new THEN new[key]
                                 ELSE CHOOSE k \in Overlapping(key, seen) : TRUE
    BY DEF Names
  <2>2. CASE key \in DOMAIN seen.byKey
    BY <2>1, <2>2 DEF RunTypes, Maps
  <2>3. CASE key \notin DOMAIN seen.byKey /\ key \in Unknown(keys, seen)
    <3> HIDE DEF new
    <3> QED
      BY <1>2, <2>1, <2>3
  <2>4. CASE key \notin DOMAIN seen.byKey /\ key \notin Unknown(keys, seen)
    <3>1. Cardinality(Overlapping(key, seen)) = 1
      BY <2>4 DEF Unknown, Known
    <3>2. Overlapping(key, seen) # {}
      BY <3>1, FS_EmptySet
    <3>3. (CHOOSE k \in Overlapping(key, seen) : TRUE) \in DOMAIN seen.conclusions
      BY <3>2 DEF Overlapping
    <3> HIDE DEF new
    <3> QED
      BY <1>2, <1>3, <2>1, <2>4, <3>3
  <2> QED
    BY <2>2, <2>3, <2>4
<1> QED
  BY <1>4

\* What is concluded on a key.
LEMMA ConclusionTypes ==
  ASSUME RunTypes(seen), NEW properties, NEW key \in Keys(seen, properties)
  PROVE  Conclusion(key, seen) \in ConclusionType
<1>1. key \in Properties \X ResourceIds /\ Group(key, seen) \in SUBSET Items /\ Group(key, seen) # {}
  BY KeyTypes
<1>2. Winner(Group(key, seen)) \in Items
  BY <1>1, BestItem
<1>3. (IF ConflictOn(key, seen) = {} THEN NoId ELSE CHOOSE k \in ConflictOn(key, seen) : TRUE) \in Ids \cup {NoId}
  <2>1. ConflictOn(key, seen) \subseteq Ids
    BY DEF ConflictOn, RunTypes, Maps
  <2> QED
    BY <2>1
<1> QED
  BY <1>1, <1>2, <1>3 DEF Conclusion, ConclusionType, ResourceIds

(***************************************************************************)
(* The steps.                                                              *)
(***************************************************************************)

\* Edits of the engine's record.
LEMMA EngineEdits ==
  ASSUME EngineRecord(engine), NEW place
  PROVE  /\ EngineRecord([engine EXCEPT !.pc = place])
         /\ \A properties \in SUBSET Properties :
              EngineRecord([engine EXCEPT !.pc = place, !.properties = properties])
         /\ \A todo \in SUBSET Ids : EngineRecord([engine EXCEPT !.pc = place, !.todo = todo])
         /\ \A todo \in SUBSET Ids : EngineRecord([engine EXCEPT !.todo = todo])
  BY DEF EngineRecord

\* What a computation is about.
LEMMA ScopeTypes ==
  ASSUME NEW r \in Requests, batch \in [Requests -> SUBSET Items]
  PROVE  Scope(r) \in SUBSET Properties
<1>1. r.op = "recompute" => r.on \subseteq Properties
  BY FusionAssumption DEF FusionAssumption
<1>2. {Property[i] : i \in batch[r]} \subseteq Properties
  BY DEF Properties
<1> QED
  BY <1>1, <1>2 DEF Scope

\* The properties of groups.
LEMMA ExpansionTypes ==
  ASSUME evidence \subseteq Items, NEW given \in SUBSET Properties, NEW properties \in Expansions(given)
  PROVE  properties \in SUBSET Properties
<1>1. \A ids : PropertiesOf(ids) \subseteq Properties
  BY DEF PropertiesOf, Properties
<1> HIDE DEF Properties
<1> QED
  BY <1>1 DEF Expansions

LEMMA StepControls ==
  ASSUME Controls, StoreTypes, [Next]_vars
  PROVE  Controls'
<1> USE DEF Controls
<1>0. /\ evidence \subseteq Items /\ DOMAIN conflicts \subseteq Ids
      /\ \A r \in Requests : r.op \in {"add", "remove"} => r.on \subseteq Items
  BY FusionAssumption DEF FusionAssumption, StoreTypes, Maps
<1>1. CASE UNCHANGED vars
  BY <1>1 DEF vars, runVars
<1>2. ASSUME NEW r \in Requests, Prepare(r) \/ Store(r) \/ Remove(r) \/ Reset(r)
      PROVE  Controls'
  <2>1. UNCHANGED <<engine, gone>>
    BY <1>2 DEF Prepare, Store, Remove, Reset
  <2>2. state' \in {state, "NONE"} /\ fusion' \in {fusion, "IDLE"}
    BY <1>2 DEF Prepare, Store, Remove, Reset, runVars
  <2>3. pc' \in [Requests -> {"begin", "store", "schedule", "compute", "done"}]
    BY <1>2 DEF Prepare, Store, Remove, Reset, To
  <2>4. \/ UNCHANGED batch
        \/ Begins(r, "add") /\ batch' = [batch EXCEPT ![r] = Prepared(r)]
        \/ Begins(r, "remove") /\ batch' = [batch EXCEPT ![r] = r.on]
    BY <1>2 DEF Prepare, Store, Remove, Reset
  <2>5. Begins(r, "add") => Prepared(r) \in SUBSET Items
    BY <1>0 DEF Begins, Prepared
  <2>6. Begins(r, "remove") => r.on \in SUBSET Items
    BY <1>0 DEF Begins
  <2>7. batch' \in [Requests -> SUBSET Items]
    BY <2>4, <2>5, <2>6
  <2> QED
    BY <2>1, <2>2, <2>3, <2>7
<1>3. ASSUME NEW r \in Requests, Mark(r) \/ Cancel(r) \/ Finalize(r) \/ Expire(r)
      PROVE  Controls'
  <2>1. UNCHANGED <<engine, batch, fusion>>
    BY <1>3 DEF Mark, Cancel, Finalize, Expire, runVars
  <2>2. state' \in {state, "CANCELLED", "FINALIZED"} /\ gone' \subseteq Mortal
    BY <1>3 DEF Mark, Cancel, Finalize, Expire, runVars
  <2>3. pc' \in [Requests -> {"begin", "store", "schedule", "compute", "done"}]
    BY <1>3 DEF Mark, Cancel, Finalize, Expire, To
  <2> QED
    BY <2>1, <2>2, <2>3
<1>4. ASSUME NEW r \in Requests, Start(r)
      PROVE  Controls'
  <2>1. \A full : EngineRecord([pc |-> "correlate", properties |-> Scope(r), full |-> full, todo |-> {}])
    BY ScopeTypes DEF EngineRecord
  <2>2. EngineRecord(engine')
    BY <1>4, <2>1 DEF Start
  <2>3. pc' \in [Requests -> {"begin", "store", "schedule", "compute", "done"}] /\ fusion' \in {fusion, "RUNNING"}
    BY <1>4 DEF Start, To
  <2>4. UNCHANGED <<state, batch, gone>>
    BY <1>4 DEF Start
  <2> QED
    BY <2>2, <2>3, <2>4
<1>5. ASSUME NEW r \in Requests, Compute(r)
      PROVE  Controls'
  <2>1. UNCHANGED <<state, batch, gone>>
    BY <1>5 DEF Compute, Correlate, Regroup, Expand, Detect, ReplaceConflicts, ListConflicts, Resolve,
       ReadRun, ApplyConclusions, Complete, Fail, data, runVars
  <2>2. CASE (\E place : Proceed(place)) /\ UNCHANGED <<fusion, pc>>
    BY <2>1, <2>2, EngineEdits, ZenonT(40) DEF Proceed
  <2>3. CASE Correlate(r) \/ Regroup(r) \/ Detect(r) \/ ReplaceConflicts(r) \/ ReadRun(r) \/ ApplyConclusions(r)
    <3>1. UNCHANGED <<fusion, pc>>
      BY <2>3 DEF Correlate, Regroup, Detect, ReplaceConflicts, ReadRun, ApplyConclusions, runVars
    <3>2. \E place : Proceed(place)
      BY <2>3 DEF Correlate, Regroup, Detect, ReplaceConflicts, ReadRun, ApplyConclusions, Reads
    <3> QED
      BY <2>2, <3>1, <3>2
  <2>4. CASE Expand(r)
    <3>1. ASSUME NEW properties \in Expansions(engine.properties),
                 engine' = [engine EXCEPT !.pc = "detect", !.properties = properties]
          PROVE  EngineRecord(engine')
      <4>1. properties \in SUBSET Properties
        BY <1>0, ExpansionTypes DEF EngineRecord
      <4> QED
        BY <3>1, <4>1, EngineEdits
    <3>2. UNCHANGED <<fusion, pc>>
      BY <2>4 DEF Expand, runVars
    <3> QED
      BY <2>1, <2>2, <2>4, <3>1, <3>2 DEF Expand
  <2>5. CASE ListConflicts(r)
    <3>1. UNCHANGED <<fusion, pc>>
      BY <2>5 DEF ListConflicts, runVars
    <3> DEFINE todo == {k \in DOMAIN conflicts : conflicts[k].property \in Affected(engine.properties)}
    <3>2. /\ todo \in SUBSET Ids
          /\ engine' = [engine EXCEPT !.pc = "resolve", !.todo = todo] \/ Proceed("fail")
      BY <1>0, <2>5 DEF ListConflicts
    <3> HIDE DEF todo
    <3>3. EngineRecord([engine EXCEPT !.pc = "resolve", !.todo = todo]) /\ EngineRecord([engine EXCEPT !.pc = "fail"])
      BY <3>2, EngineEdits
    <3>4. EngineRecord(engine')
      BY <3>2, <3>3 DEF Proceed
    <3> QED
      BY <2>1, <3>1, <3>4
  <2>6. CASE Resolve(r)
    <3>1. UNCHANGED <<fusion, pc>>
      BY <2>6 DEF Resolve
    <3>2. \A k : engine.todo \ {k} \in SUBSET Ids
      BY DEF EngineRecord
    <3>3. EngineRecord(engine')
      BY <2>6, <3>2, EngineEdits DEF Resolve, Proceed
    <3> QED
      BY <2>1, <3>1, <3>3
  <2>7. CASE Complete(r) \/ Fail(r)
    <3>1. EngineRecord(Idle)
      BY DEF Idle, EngineRecord
    <3>2. CASE Leaves(r) /\ fusion' \in {fusion, "COMPLETE", "FAILED"}
      BY <2>1, <3>1, <3>2 DEF Leaves, To
    <3> QED
      BY <2>2, <2>7, <3>2 DEF Complete, Fail
  <2> QED
    BY <1>5, <2>3, <2>4, <2>5, <2>6, <2>7 DEF Compute
<1> QED
  BY <1>1, <1>2, <1>3, <1>4, <1>5 DEF Next, Serve

\* A computation reads what the run holds.
LEMMA StepSeen ==
  ASSUME RunTypes(seen), StoreTypes, [Next]_vars
  PROVE  RunTypes(seen)'
<1>1. seen' = seen \/ seen' = Clone \/ seen' = Nothing
  BY ZenonT(40) DEF Next, Serve, Compute, Prepare, Store, Remove, Mark, Cancel, Finalize, Reset, Start, Expire,
     Correlate, Regroup, Expand, Detect, ReplaceConflicts, ListConflicts, Resolve, ReadRun,
     ApplyConclusions, Complete, Fail, Reads, Leaves, vars
<1>2. RunTypes(Nothing)
  BY DEF RunTypes, Nothing, Maps, Empty
<1>3. RunTypes(seen')
  BY <1>1, <1>2 DEF StoreTypes, RunTypes, Clone
<1> QED
  BY <1>3 DEF RunTypes, Maps, ConflictType, ConclusionType

LEMMA QuietStoreTypes ==
  ASSUME StoreTypes, UNCHANGED <<evidence, groups, conflicts, conclusions, byKey, counted>>
  PROVE  StoreTypes'
BY DEF StoreTypes, Maps, ConflictType, ConclusionType

\* A map keeps its type when a part is taken away or others are put in.
LEMMA MapParts ==
  ASSUME NEW D, NEW R, NEW f, Maps(f, D, R)
  PROVE  /\ \A S : Maps(Without(f, S), D, R)
         /\ Maps(Spared(f), D, R)
         /\ \A g : Maps(g, D, R) => Maps(Extend(f, g), D, R)
<1>1. \A S : Maps(Without(f, S), D, R)
  BY DEF Maps, Without
<1>2. Maps(Empty, D, R)
  BY DEF Maps, Empty
<1>3. Maps(Spared(f), D, R)
  BY <1>1, <1>2 DEF Spared
<1>4. \A g : Maps(g, D, R) => Maps(Extend(f, g), D, R)
  BY DEF Maps, Extend
<1> QED
  BY <1>1, <1>3, <1>4

LEMMA StoreStoreTypes ==
  ASSUME Controls, StoreTypes, NEW r \in Requests, Store(r)
  PROVE  StoreTypes'
<1>1. UNCHANGED <<groups, conflicts, conclusions, byKey, counted>>
  BY DEF Store
<1>2. evidence' \subseteq Items
  BY DEF Store, StoreTypes, Controls
<1> QED
  BY <1>1, <1>2 DEF StoreTypes, Maps, ConflictType, ConclusionType

LEMMA RemoveStoreTypes ==
  ASSUME StoreTypes, NEW r \in Requests, Remove(r)
  PROVE  StoreTypes'
<1>1. CASE UNCHANGED <<evidence, groups, conflicts, conclusions, byKey, counted>>
  BY <1>1, QuietStoreTypes
<1>2. CASE Exists(r) /\ Active /\ r.on \subseteq evidence
  <2> DEFINE of(f) == {k \in DOMAIN f : f[k].evidence \cap r.on # {}}
             stale == {KeyOf(conclusions[k]) : k \in of(conclusions)}
             grouped == {g \in DOMAIN groups : groups[g] \cap r.on # {}}
  <2>1. /\ evidence' = evidence \ r.on
        /\ groups' = Without(groups, grouped)
        /\ conflicts' = Without(conflicts, of(conflicts))
        /\ conclusions' = Without(conclusions, of(conclusions))
        /\ byKey' = Without(byKey, stale)
        /\ counted' = Cardinality(DOMAIN conclusions \ of(conclusions))
    BY <1>2 DEF Remove
  <2> HIDE DEF of, stale, grouped
  <2>2. /\ Maps(groups', Ids, SUBSET Items)
        /\ Maps(conflicts', Ids, ConflictType)
        /\ Maps(conclusions', Ids, ConclusionType)
        /\ Maps(byKey', Properties \X ResourceIds, Ids)
    BY <2>1, MapParts DEF StoreTypes
  <2>3. IsFiniteSet(DOMAIN conclusions \ of(conclusions)) /\ counted' \in Nat
    BY <2>1, FS_Difference, FS_CardinalityType DEF StoreTypes
  <2>4. DOMAIN conclusions' = DOMAIN conclusions \ of(conclusions)
    BY <2>1 DEF Without
  <2> QED
    BY <2>1, <2>2, <2>3, <2>4 DEF StoreTypes, Maps, ConflictType, ConclusionType
<1> QED
  BY <1>1, <1>2 DEF Remove

LEMMA ResetStoreTypes ==
  ASSUME StoreTypes, NEW r \in Requests, Reset(r)
  PROVE  StoreTypes'
<1>1. CASE UNCHANGED runVars
  BY <1>1, QuietStoreTypes DEF runVars
<1>2. CASE /\ evidence' = {} /\ counted' = 0
           /\ groups' = Empty /\ conflicts' = Empty /\ conclusions' = Empty /\ byKey' = Empty
  BY <1>2, FS_EmptySet DEF StoreTypes, Maps, Empty
<1> QED
  BY <1>1, <1>2 DEF Reset

LEMMA RegroupStoreTypes ==
  ASSUME StoreTypes, RunTypes(seen), NEW r \in Requests, Regroup(r)
  PROVE  StoreTypes'
<1>1. UNCHANGED <<evidence, conflicts, conclusions, byKey, counted>>
  BY DEF Regroup
<1>2. CASE UNCHANGED groups
  BY <1>1, <1>2, QuietStoreTypes
<1>3. ASSUME NEW keep \in Keeps(seen, Components(seen.evidence)),
             Left(Ungrouped(keep), seen), groups' = Rebuilt(seen, keep)
      PROVE  StoreTypes'
  <2>1. Maps(groups', Ids, SUBSET Items)
    BY <1>3, RebuiltTypes
  <2> QED
    BY <1>1, <2>1 DEF StoreTypes, Maps, ConflictType, ConclusionType
<1> QED
  BY <1>2, <1>3 DEF Regroup

LEMMA ReplaceStoreTypes ==
  ASSUME StoreTypes, RunTypes(seen), NEW r \in Requests, ReplaceConflicts(r)
  PROVE  StoreTypes'
<1> DEFINE found == Detected(seen)
           valid == {k \in DOMAIN found : found[k].evidence \subseteq evidence}
<1>1. UNCHANGED <<evidence, groups, conclusions, byKey, counted>>
  BY DEF ReplaceConflicts
<1>2. Maps(found, Ids, ConflictType)
  BY DetectedTypes DEF ReplaceConflicts
<1>3. \/ UNCHANGED conflicts
      \/ conflicts' = Extend(Spared(conflicts), found)
      \/ \E before \in SUBSET valid : conflicts' = Extend(Spared(conflicts), [k \in before |-> found[k]])
  BY DEF ReplaceConflicts
<1> HIDE DEF found
<1>4. \A before \in SUBSET valid : Maps([k \in before |-> found[k]], Ids, ConflictType)
  BY <1>2 DEF Maps
<1>5. Maps(Spared(conflicts), Ids, ConflictType)
  BY MapParts DEF StoreTypes
<1> HIDE DEF valid
<1>6. Maps(conflicts', Ids, ConflictType)
  BY <1>2, <1>3, <1>4, <1>5, MapParts DEF StoreTypes
<1> QED
  BY <1>1, <1>6 DEF StoreTypes, Maps, ConflictType, ConclusionType

LEMMA ResolveStoreTypes ==
  ASSUME StoreTypes, NEW r \in Requests, Resolve(r)
  PROVE  StoreTypes'
<1>1. UNCHANGED <<evidence, groups, conclusions, byKey, counted>>
  BY DEF Resolve
<1>2. CASE UNCHANGED conflicts
  BY <1>1, <1>2, QuietStoreTypes
<1>3. ASSUME NEW k \in DOMAIN conflicts, conflicts[k].evidence \cap evidence # {},
             conflicts' = [conflicts EXCEPT ![k].winner = Winner(conflicts[k].evidence \cap evidence)]
      PROVE  StoreTypes'
  <2>1. conflicts[k] \in ConflictType /\ DOMAIN conflicts \subseteq Ids
    BY DEF StoreTypes, Maps
  <2> DEFINE best == Winner(conflicts[k].evidence \cap evidence)
  <2>2. best \in Items
    BY <1>3, BestItem DEF StoreTypes
  <2> HIDE DEF best
  <2>3. [conflicts[k] EXCEPT !.winner = best] \in ConflictType
    BY <2>1, <2>2 DEF ConflictType
  <2>4. Maps(conflicts', Ids, ConflictType)
    BY <1>3, <2>1, <2>3 DEF StoreTypes, Maps, best
  <2> QED
    BY <1>1, <2>4 DEF StoreTypes, Maps, ConflictType, ConclusionType
<1> QED
  BY <1>2, <1>3 DEF Resolve

\* Conclusions stored over those that are spared.
LEMMA StoredTypes ==
  ASSUME StoreTypes, RunTypes(seen), NEW properties, NEW keys, keys = Keys(seen, properties),
         NEW done \in SUBSET keys, NEW names, \A key \in keys : names[key] \in Ids,
         NEW map \in Stored(done, names, Spared(conclusions))
  PROVE  Maps(map, Ids, ConclusionType) /\ IsFiniteSet(DOMAIN map)
<1> DEFINE named == {names[k] : k \in done}
           spared == Spared(conclusions)
<1>1. PICK last \in [named -> done] :
        map = Extend(spared, [id \in named |-> Conclusion(last[id], seen)])
  BY DEF Stored
<1>2. named \subseteq Ids
  OBVIOUS
<1>3. \A key \in done : Conclusion(key, seen) \in ConclusionType
  BY ConclusionTypes
<1> HIDE DEF named, spared
<1>4. Maps([id \in named |-> Conclusion(last[id], seen)], Ids, ConclusionType)
  BY <1>2, <1>3 DEF Maps
<1>5. Maps(spared, Ids, ConclusionType)
  BY MapParts DEF spared, StoreTypes
<1>6. Maps(map, Ids, ConclusionType)
  BY <1>1, <1>4, <1>5, MapParts
<1>7. IsFiniteSet(named)
  BY <1>2, FusionAssumption, FS_Subset DEF FusionAssumption
<1>8. IsFiniteSet(DOMAIN spared)
  <2>1. DOMAIN spared \subseteq DOMAIN conclusions
    BY DEF spared, Spared, Without, Empty
  <2> QED
    BY <2>1, FS_Subset DEF StoreTypes
<1>9. DOMAIN map = DOMAIN spared \cup named
  BY <1>1 DEF Extend
<1> QED
  BY <1>6, <1>7, <1>8, <1>9, FS_Union, ZenonT(40)

LEMMA ApplyStoreTypes ==
  ASSUME StoreTypes, RunTypes(seen), NEW r \in Requests, ApplyConclusions(r)
  PROVE  StoreTypes'
<1> DEFINE keys == Keys(seen, engine.properties)
           names == Names(keys, seen)
           kept == Spared(conclusions)
           dropped == {KeyOf(conclusions[k]) : k \in DOMAIN conclusions \ DOMAIN kept}
           index == IF engine.full THEN Empty ELSE Without(byKey, dropped)
           valid == {key \in keys : Applicable(Conclusion(key, seen), names[key], index)}
           apply(done) == /\ conclusions' \in Stored(done, names, kept)
                          /\ byKey' = Extend(index, [key \in done |-> names[key]])
<1>1. UNCHANGED <<evidence, groups, conflicts>>
  BY DEF ApplyConclusions
<1>2. \A key \in keys : names[key] \in Ids
  BY NamesTypes DEF ApplyConclusions
<1>3. \/ UNCHANGED <<conclusions, byKey, counted>>
      \/ \E done \in SUBSET keys : apply(done) /\ counted' \in {counted, Cardinality(DOMAIN conclusions')}
  BY DEF ApplyConclusions
<1>4. CASE UNCHANGED <<conclusions, byKey, counted>>
  BY <1>1, <1>4, QuietStoreTypes
<1>5. ASSUME NEW done \in SUBSET keys, apply(done), counted' \in {counted, Cardinality(DOMAIN conclusions')}
      PROVE  StoreTypes'
  <2>1. Maps(index, Properties \X ResourceIds, Ids)
    <3>1. Maps(Empty, Properties \X ResourceIds, Ids)
      BY DEF Maps, Empty
    <3>2. Maps(Without(byKey, dropped), Properties \X ResourceIds, Ids)
      <4> HIDE DEF dropped
      <4> QED
        BY MapParts DEF StoreTypes
    <3> QED
      BY <3>1, <3>2
  <2>2. \A key \in keys : key \in Properties \X ResourceIds
    BY KeyTypes
  <2> HIDE DEF names, index, keys
  <2>3. Maps([key \in done |-> names[key]], Properties \X ResourceIds, Ids)
    BY <1>2, <2>2 DEF Maps
  <2>4. Maps(byKey', Properties \X ResourceIds, Ids)
    BY <1>5, <2>1, <2>3, MapParts
  <2>5. Maps(conclusions', Ids, ConclusionType) /\ IsFiniteSet(DOMAIN conclusions')
    BY <1>2, <1>5, StoredTypes DEF keys
  <2>6. counted' \in Nat
    BY <1>5, <2>5, FS_CardinalityType DEF StoreTypes
  <2> QED
    BY <1>1, <2>4, <2>5, <2>6 DEF StoreTypes, Maps, ConflictType, ConclusionType
<1> QED
  BY <1>3, <1>4, <1>5

LEMMA StepStoreTypes ==
  ASSUME Controls, StoreTypes, RunTypes(seen), [Next]_vars
  PROVE  StoreTypes'
<1>1. CASE UNCHANGED vars
  BY <1>1, QuietStoreTypes DEF vars, runVars
<1>2. ASSUME NEW r \in Requests, Prepare(r) \/ Mark(r) \/ Cancel(r) \/ Finalize(r) \/ Start(r) \/ Expire(r)
      PROVE  StoreTypes'
  BY <1>2, QuietStoreTypes DEF Prepare, Mark, Cancel, Finalize, Start, Expire, data, runVars
<1>3. ASSUME NEW r \in Requests,
             \/ Correlate(r) \/ Expand(r) \/ Detect(r) \/ ListConflicts(r)
             \/ ReadRun(r) \/ Complete(r) \/ Fail(r)
      PROVE  StoreTypes'
  BY <1>3, QuietStoreTypes DEF Correlate, Expand, Detect, ListConflicts, ReadRun, Complete, Fail, data, runVars
<1>4. ASSUME NEW r \in Requests, Serve(r)
      PROVE  StoreTypes'
  BY <1>2, <1>3, <1>4, StoreStoreTypes, RemoveStoreTypes, ReplaceStoreTypes, ResolveStoreTypes,
     RegroupStoreTypes, ApplyStoreTypes, ResetStoreTypes DEF Serve, Compute
<1> QED
  BY <1>1, <1>2, <1>4 DEF Next

LEMMA RunInit == Init => RunInv
<1> SUFFICES ASSUME Init
             PROVE  RunInv
  OBVIOUS
<1>1. CoverageTypes
  BY DEF Init, CoverageTypes
<1>2. Controls
  BY DEF Init, Controls, Idle, EngineRecord
<1>3. RunTypes(seen)
  BY DEF Init, Nothing, RunTypes, Maps, Empty
<1>4. StoreTypes
  BY FS_EmptySet DEF Init, StoreTypes, Maps, Empty
<1> QED
  BY <1>1, <1>2, <1>3, <1>4 DEF RunInv

LEMMA RunInvariant == Spec => []RunInv
<1>1. RunInv /\ [Next]_vars => RunInv'
  BY StepCoverage, StepControls, StepSeen, StepStoreTypes DEF RunInv
<1> QED
  BY RunInit, <1>1, PTL DEF Spec

\* The variables keep their types: in particular the identifiers a computation
\* hands out are identifiers, and what it stores is about items of the run.
THEOREM RunTypesHold == Spec => []TypeOK
<1>1. RunInv => TypeOK
  BY DEF RunInv, CoverageTypes, Controls, StoreTypes, EngineRecord, ResourceIds, TypeOK
<1> QED
  BY <1>1, RunInvariant, PTL

(***************************************************************************)
(* What a computation answers is of one reading of the run.                *)
(***************************************************************************)

\* The part of a map the computation is about, and its open conflicts.
About(f) == {k \in DOMAIN f : f[k].property \in Affected(engine.properties)}
Open == {k \in About(conflicts) : conflicts[k].winner = NoId}

\* f has lost a part of g at most.
PartOf(f, g) == DOMAIN f \subseteq DOMAIN g /\ \A k \in DOMAIN f : f[k] = g[k]

\* A request that is to compute has something to compute.
Scheduled == \A r \in Requests : pc[r] \in {"store", "schedule"} => batch[r] # {} /\ r.op \in {"add", "remove"}

\* A computation is about everything or about some properties.
Aimed ==
  /\ engine.pc # "idle" => (engine.full => engine.properties = {}) /\ (~engine.full => engine.properties # {})
  /\ engine.pc = "expand" => ~engine.full

Resolved ==
  /\ engine.pc = "resolve" => Open \subseteq engine.todo
  /\ engine.pc \in {"conclude", "finish"} => Open = {} /\ PartOf(conflicts, seen.conflicts)

Concluded ==
  engine.pc = "finish" => \A k \in About(conclusions) : Concludes(conclusions[k], seen, engine.properties)

SoundInv == RunInv /\ Scheduled /\ Aimed /\ Resolved /\ Concluded

\* What is deleted meanwhile does not matter.
LEMMA SoundFrame ==
  ASSUME Aimed, Resolved, Concluded, UNCHANGED <<engine, seen>>,
         PartOf(conflicts', conflicts), PartOf(conclusions', conclusions)
  PROVE  Aimed' /\ Resolved' /\ Concluded'
<1>1. Aimed'
  BY DEF Aimed
<1>2. Open' \subseteq Open
  BY DEF Open, About, PartOf
<1>3. PartOf(conflicts, seen.conflicts) => PartOf(conflicts', seen.conflicts)
  BY DEF PartOf
<1>4. Resolved'
  BY <1>2, <1>3 DEF Resolved
<1>5. \A k \in About(conclusions)' : k \in About(conclusions) /\ conclusions'[k] = conclusions[k]
  BY DEF About, PartOf
<1>6. Concluded'
  BY <1>5 DEF Concluded
<1> QED
  BY <1>1, <1>4, <1>6

LEMMA StepScheduled ==
  ASSUME RunInv, Scheduled, [Next]_vars
  PROVE  Scheduled'
<1>0. pc \in [Requests -> {"begin", "store", "schedule", "compute", "done"}] /\ batch \in [Requests -> SUBSET Items]
  BY DEF RunInv, Controls
<1>1. CASE UNCHANGED <<pc, batch>>
  BY <1>1 DEF Scheduled
<1>2. ASSUME NEW r \in Requests, NEW place, To(r, place), UNCHANGED batch, place \notin {"store", "schedule"}
      PROVE  Scheduled'
  BY <1>0, <1>2 DEF Scheduled, To
<1>3. ASSUME NEW r \in Requests, Prepare(r)
      PROVE  Scheduled'
  BY <1>0, <1>3 DEF Scheduled, Prepare, To, Begins
<1>4. ASSUME NEW r \in Requests, Store(r)
      PROVE  Scheduled'
  BY <1>0, <1>4 DEF Scheduled, Store, To
<1>5. ASSUME NEW r \in Requests, Remove(r)
      PROVE  Scheduled'
  <2>1. r.op = "remove" => r.on # {}
    BY FusionAssumption DEF FusionAssumption
  <2>2. CASE batch' = [batch EXCEPT ![r] = r.on] /\ To(r, "schedule")
    BY <1>0, <1>5, <2>1, <2>2 DEF Scheduled, Remove, To, Begins
  <2>3. CASE To(r, "done") /\ UNCHANGED batch
    BY <1>2, <2>3
  <2> QED
    BY <1>5, <2>2, <2>3 DEF Remove
<1>6. ASSUME NEW r \in Requests, Mark(r) \/ Cancel(r) \/ Finalize(r) \/ Reset(r) \/ Start(r) \/ Expire(r)
      PROVE  Scheduled'
  BY <1>1, <1>2, <1>6 DEF Mark, Cancel, Finalize, Reset, Start, Expire
<1>7. ASSUME NEW r \in Requests, Compute(r)
      PROVE  Scheduled'
  <2>1. CASE Correlate(r) \/ Regroup(r) \/ Expand(r) \/ Detect(r) \/ ListConflicts(r) \/ Resolve(r) \/ ReadRun(r)
    BY <1>1, <2>1 DEF Correlate, Regroup, Expand, Detect, ListConflicts, Resolve, ReadRun
  <2>2. CASE ReplaceConflicts(r)
    BY <1>1, <2>2 DEF ReplaceConflicts
  <2>3. CASE ApplyConclusions(r)
    BY <1>1, <2>3 DEF ApplyConclusions
  <2>4. CASE Complete(r) \/ Fail(r)
    BY <1>1, <1>2, <2>4 DEF Complete, Fail, Leaves
  <2> QED
    BY <1>7, <2>1, <2>2, <2>3, <2>4 DEF Compute
<1> QED
  BY <1>1, <1>3, <1>4, <1>5, <1>6, <1>7 DEF Next, Serve, vars

\* Ingestion and the session delete at most.
LEMMA OthersSound ==
  ASSUME SoundInv, NEW r \in Requests,
         \/ Prepare(r) \/ Store(r) \/ Remove(r) \/ Mark(r) \/ Cancel(r) \/ Finalize(r) \/ Reset(r) \/ Expire(r)
         \/ UNCHANGED vars
  PROVE  Aimed' /\ Resolved' /\ Concluded'
<1>1. UNCHANGED <<engine, seen>>
  BY DEF Prepare, Store, Remove, Mark, Cancel, Finalize, Reset, Expire, vars, runVars
<1>2. CASE UNCHANGED <<conflicts, conclusions>>
  BY <1>1, <1>2, SoundFrame DEF SoundInv, PartOf
<1>3. CASE Remove(r)
  <2>1. \A f, S : PartOf(Without(f, S), f)
    BY DEF PartOf, Without
  <2>2. CASE \E S, T : conflicts' = Without(conflicts, S) /\ conclusions' = Without(conclusions, T)
    BY <1>1, <2>1, <2>2, SoundFrame DEF SoundInv
  <2> QED
    BY <1>2, <1>3, <2>2 DEF Remove
<1>4. CASE Reset(r)
  <2>1. \A f : PartOf(Empty, f)
    BY DEF PartOf, Empty
  <2> QED
    BY <1>1, <1>2, <1>4, <2>1, SoundFrame DEF Reset, SoundInv, runVars
<1> QED
  BY <1>2, <1>3, <1>4 DEF Prepare, Store, Mark, Cancel, Finalize, Expire, vars, runVars, data

\* The computation before it resolves.
LEMMA EarlySound ==
  ASSUME SoundInv, NEW r \in Requests,
         \/ Start(r) \/ Correlate(r) \/ Regroup(r) \/ Expand(r) \/ Detect(r) \/ ReplaceConflicts(r)
         \/ Complete(r) \/ Fail(r)
  PROVE  Aimed' /\ Resolved' /\ Concluded'
<1> DEFINE Early == {"idle", "correlate", "regroup", "expand", "detect", "replace", "list", "fail"}
<1>0. EngineRecord(engine)
  BY DEF SoundInv, RunInv, Controls
<1>1. engine'.pc \in Early => Resolved' /\ Concluded'
  BY DEF Resolved, Concluded
<1>2. ASSUME NEW place \in Early \ {"idle", "expand"}, engine' = [engine EXCEPT !.pc = place], engine.pc # "idle"
      PROVE  engine'.pc \in Early /\ Aimed'
  BY <1>0, <1>2 DEF EngineRecord, Aimed, SoundInv
<1>3. CASE Start(r)
  <2>1. CASE UNCHANGED <<fusion, engine>>
    BY <1>3, <2>1, SoundFrame DEF Start, data, SoundInv, PartOf
  <2>2. CASE engine' = [pc |-> "correlate", properties |-> Scope(r), full |-> r.op = "run", todo |-> {}]
    <3>1. r.op = "run" => Scope(r) = {}
      BY DEF Scope
    <3>2. r.op # "run" => Scope(r) # {}
      <4>1. r.op = "recompute" => r.on # {}
        BY FusionAssumption DEF FusionAssumption
      <4>2. pc[r] = "schedule" => batch[r] # {} /\ r.op \in {"add", "remove"}
        BY DEF SoundInv, Scheduled
      <4>3. pc[r] = "schedule" \/ r.op = "recompute" \/ r.op = "run"
        BY <1>3 DEF Start, Begins
      <4>4. batch[r] # {} => {Property[i] : i \in batch[r]} # {}
        OBVIOUS
      <4> QED
        BY <4>1, <4>2, <4>3, <4>4 DEF Scope
    <3>3. engine'.pc = "correlate" /\ engine'.properties = Scope(r) /\ (engine'.full <=> r.op = "run")
      BY <2>2
    <3> QED
      BY <1>1, <3>1, <3>2, <3>3 DEF Aimed
  <2> QED
    BY <1>3, <2>1, <2>2 DEF Start
<1>4. CASE Correlate(r) \/ Detect(r)
  BY <1>1, <1>2, <1>4 DEF Correlate, Detect, Reads, Proceed, At
<1>5. CASE Regroup(r)
  <2>1. engine.pc = "regroup" /\ engine' \in {[engine EXCEPT !.pc = place] : place \in {"detect", "expand", "fail"}}
    BY <1>5 DEF Regroup, Proceed, At
  <2>2. engine' = [engine EXCEPT !.pc = "expand"] => ~engine.full
    BY <1>0, <1>5 DEF Regroup, Proceed, EngineRecord
  <2>3. CASE engine' = [engine EXCEPT !.pc = "expand"]
    BY <1>0, <1>1, <2>1, <2>2, <2>3 DEF EngineRecord, Aimed, SoundInv
  <2> QED
    BY <1>1, <1>2, <2>1, <2>3
<1>6. CASE Expand(r)
  <2>1. CASE Proceed("fail")
    BY <1>1, <1>2, <1>6, <2>1 DEF Expand, At, Proceed
  <2>2. ASSUME NEW properties \in Expansions(engine.properties),
               engine' = [engine EXCEPT !.pc = "detect", !.properties = properties]
        PROVE  Aimed' /\ engine'.pc = "detect"
    <3>1. engine.properties \subseteq properties
      BY DEF Expansions
    <3>2. ~engine.full /\ engine.properties # {}
      BY <1>6 DEF Expand, At, SoundInv, Aimed
    <3> QED
      BY <1>0, <2>2, <3>1, <3>2 DEF EngineRecord, Aimed
  <2> QED
    BY <1>1, <1>6, <2>1, <2>2 DEF Expand
<1>7. CASE ReplaceConflicts(r)
  <2>1. Proceed("list") \/ Proceed("fail")
    BY <1>7 DEF ReplaceConflicts
  <2>2. engine.pc = "replace"
    BY <1>7 DEF ReplaceConflicts, At
  <2> QED
    BY <1>1, <1>2, <2>1, <2>2 DEF Proceed
<1>8. CASE Complete(r) \/ Fail(r)
  <2>1. CASE engine' = Idle
    BY <1>1, <2>1 DEF Idle, Aimed
  <2>2. CASE Proceed("fail") /\ engine.pc = "finish"
    BY <1>1, <1>2, <2>2 DEF Proceed
  <2> QED
    BY <1>8, <2>1, <2>2 DEF Complete, Fail, Leaves, At
<1> QED
  BY <1>3, <1>4, <1>5, <1>6, <1>7, <1>8

\* The computation resolves what it listed, and reads the run when nothing is left.
LEMMA ResolvingSound ==
  ASSUME SoundInv, NEW r \in Requests, ListConflicts(r) \/ Resolve(r) \/ ReadRun(r)
  PROVE  Aimed' /\ Resolved' /\ Concluded'
<1>0. EngineRecord(engine) /\ evidence \subseteq Items
      /\ \A k \in DOMAIN conflicts : conflicts[k] \in ConflictType
  BY DEF SoundInv, RunInv, Controls, StoreTypes, Maps
<1>1. CASE Proceed("fail") /\ engine.pc # "idle"
  <2>1. engine'.pc = "fail" /\ engine'.properties = engine.properties /\ engine'.full = engine.full
    BY <1>0, <1>1 DEF Proceed, EngineRecord
  <2> QED
    BY <1>1, <2>1 DEF Resolved, Concluded, Aimed, SoundInv
<1>2. CASE ListConflicts(r) /\ ~Proceed("fail")
  <2> DEFINE listed == {k \in DOMAIN conflicts : conflicts[k].property \in Affected(engine.properties)}
  <2>1. engine.pc = "list" /\ engine' = [engine EXCEPT !.pc = "resolve", !.todo = listed] /\ UNCHANGED conflicts
    BY <1>2 DEF ListConflicts, At, runVars
  <2>2. listed = About(conflicts)
    BY DEF About
  <2> HIDE DEF listed
  <2>3. /\ engine'.pc = "resolve" /\ engine'.properties = engine.properties
        /\ engine'.full = engine.full /\ engine'.todo = listed
    BY <1>0, <2>1 DEF EngineRecord
  <2>4. Open' \subseteq engine'.todo
    BY <2>1, <2>2, <2>3 DEF Open, About
  <2> QED
    BY <2>1, <2>3, <2>4 DEF Resolved, Concluded, Aimed, SoundInv
<1>3. CASE Resolve(r) /\ ~Proceed("fail")
  <2>1. PICK k \in engine.todo :
          /\ k \in DOMAIN conflicts /\ conflicts[k].evidence \cap evidence # {}
          /\ conflicts' = [conflicts EXCEPT ![k].winner = Winner(conflicts[k].evidence \cap evidence)]
          /\ engine' = [engine EXCEPT !.todo = @ \ {k}]
    BY <1>3 DEF Resolve
  <2>2. engine.pc = "resolve"
    BY <1>3 DEF Resolve, At
  <2> DEFINE best == Winner(conflicts[k].evidence \cap evidence)
  <2>3. best # NoId
    <3>1. conflicts[k].evidence \cap evidence \in SUBSET Items
      BY <1>0
    <3>2. best \in Items
      BY <2>1, <3>1, BestItem
    <3> QED
      BY <3>2, FusionAssumption DEF FusionAssumption
  <2> HIDE DEF best
  <2>4. /\ DOMAIN conflicts' = DOMAIN conflicts /\ conflicts'[k].winner = best
        /\ \A j \in DOMAIN conflicts : conflicts'[j].property = conflicts[j].property
        /\ \A j \in DOMAIN conflicts \ {k} : conflicts'[j] = conflicts[j]
    BY <1>0, <2>1 DEF ConflictType, best
  <2>5. /\ engine'.pc = "resolve" /\ engine'.properties = engine.properties
        /\ engine'.full = engine.full /\ engine'.todo = engine.todo \ {k}
    BY <1>0, <2>1, <2>2 DEF EngineRecord
  <2>6. Open \subseteq engine.todo
    BY <2>2 DEF SoundInv, Resolved
  <2>7. Open' \subseteq engine'.todo
    BY <2>3, <2>4, <2>5, <2>6 DEF Open, About
  <2> QED
    BY <2>2, <2>5, <2>7 DEF Resolved, Concluded, Aimed, SoundInv
<1>4. CASE ReadRun(r) /\ ~Proceed("fail")
  <2>1. /\ engine.pc = "resolve" /\ engine.todo = {} /\ seen' = Clone
        /\ engine' = [engine EXCEPT !.pc = "conclude"] /\ UNCHANGED conflicts
    BY <1>4 DEF ReadRun, Reads, Proceed, At, runVars
  <2>2. /\ engine'.pc = "conclude" /\ engine'.properties = engine.properties /\ engine'.full = engine.full
    BY <1>0, <2>1 DEF EngineRecord
  <2>3. Open' = {}
    BY <2>1, <2>2 DEF SoundInv, Resolved, Open, About
  <2>4. PartOf(conflicts, seen.conflicts)'
    BY <2>1 DEF PartOf, Clone
  <2> QED
    BY <2>1, <2>2, <2>3, <2>4 DEF Resolved, Concluded, Aimed, SoundInv
<1> QED
  BY <1>1, <1>2, <1>3, <1>4 DEF ListConflicts, Resolve, ReadRun, At

\* What is stored for the groups, or was of no property of the computation.
LEMMA StoredConcludes ==
  ASSUME NEW keys, NEW names, NEW kept, NEW stored \in Stored(keys, names, kept), NEW k \in DOMAIN stored
  PROVE  (\E key \in keys : stored[k] = Conclusion(key, seen)) \/ (k \in DOMAIN kept /\ stored[k] = kept[k])
<1> DEFINE ids == {names[key] : key \in keys}
<1>1. PICK last \in [ids -> keys] : stored = Extend(kept, [id \in ids |-> Conclusion(last[id], seen)])
  BY DEF Stored
<1> HIDE DEF ids
<1>2. CASE k \in ids
  BY <1>1, <1>2 DEF Extend
<1>3. CASE k \notin ids
  BY <1>1, <1>3 DEF Extend
<1> QED
  BY <1>2, <1>3

LEMMA ConcludingSound ==
  ASSUME SoundInv, NEW r \in Requests, ApplyConclusions(r)
  PROVE  Aimed' /\ Resolved' /\ Concluded'
<1> DEFINE keys == Keys(seen, engine.properties)
           kept == Spared(conclusions)
<1>0. EngineRecord(engine) /\ \A k \in DOMAIN conclusions : conclusions[k].property \in Properties
  BY DEF SoundInv, RunInv, Controls, StoreTypes, Maps, ConclusionType
<1>1. UNCHANGED <<conflicts, seen>> /\ engine.pc = "conclude"
  BY DEF ApplyConclusions, At
<1>2. CASE Proceed("fail")
  <2>1. engine'.pc = "fail" /\ engine'.properties = engine.properties /\ engine'.full = engine.full
    BY <1>0, <1>2 DEF Proceed, EngineRecord
  <2> QED
    BY <1>1, <2>1 DEF Resolved, Concluded, Aimed, SoundInv
<1>3. CASE ~Proceed("fail")
  <2>1. Proceed("finish") /\ conclusions' \in Stored(keys, Names(keys, seen), kept)
    BY <1>3 DEF ApplyConclusions
  <2>2. engine'.pc = "finish" /\ engine'.properties = engine.properties /\ engine'.full = engine.full
    BY <1>0, <2>1 DEF Proceed, EngineRecord
  <2>3. Open' = {} /\ PartOf(conflicts, seen.conflicts)'
    BY <1>1, <2>2 DEF SoundInv, Resolved, Open, About, PartOf
  <2>4. ASSUME NEW k \in DOMAIN kept
        PROVE  kept[k].property \notin Affected(engine.properties)
    <3>1. ~engine.full
      BY <2>4 DEF Spared, Empty
    <3>2. engine.properties # {}
      BY <1>1, <3>1 DEF SoundInv, Aimed
    <3> QED
      BY <2>4, <3>1, <3>2 DEF Spared, Without, Affected
  <2>5. ASSUME NEW k \in DOMAIN conclusions', conclusions'[k].property \in Affected(engine.properties)
        PROVE  \E key \in keys : conclusions'[k] = Conclusion(key, seen)
    <3> HIDE DEF keys, kept
    <3> QED
      BY <2>1, <2>4, <2>5, StoredConcludes
  <2>6. Concluded'
    BY <1>1, <2>2, <2>5 DEF Concluded, About, Concludes
  <2> QED
    BY <1>1, <2>2, <2>3, <2>6 DEF Resolved, Aimed, SoundInv
<1> QED
  BY <1>2, <1>3

LEMMA StepSound ==
  ASSUME SoundInv, RunInv', [Next]_vars
  PROVE  SoundInv'
<1>1. Scheduled'
  BY StepScheduled DEF SoundInv
<1>2. CASE UNCHANGED vars
  <2>1. Aimed' /\ Resolved' /\ Concluded'
    BY <1>2, SoundFrame DEF SoundInv, PartOf, vars, runVars
  <2> QED
    BY <1>1, <2>1 DEF SoundInv
<1>3. ASSUME NEW r \in Requests, Serve(r) \/ Expire(r)
      PROVE  Aimed' /\ Resolved' /\ Concluded'
  BY <1>3, OthersSound, EarlySound, ResolvingSound, ConcludingSound DEF Serve, Compute
<1> QED
  BY <1>1, <1>2, <1>3 DEF Next, SoundInv

\* A computation calls COMPLETE what is of one reading of the run, for any items,
\* links and requests, and wherever contexts end: its conflicts are resolved, its
\* conclusions follow from the clone it read and name the conflicts on their keys.
THEOREM AnswersStaySound == Spec => []AnswersAreSound
<1>1. Init => Scheduled /\ Aimed /\ Resolved /\ Concluded
  BY DEF Init, Scheduled, Aimed, Resolved, Concluded, Idle
<1>2. SoundInv /\ RunInv' /\ [Next]_vars => SoundInv'
  BY StepSound
<1>3. SoundInv => AnswersAreSound
  <2> SUFFICES ASSUME SoundInv, engine.pc = "finish"
               PROVE  AnswersAreSound
    BY DEF AnswersAreSound
  <2>1. Open = {} /\ PartOf(conflicts, seen.conflicts)
    BY DEF SoundInv, Resolved
  <2>2. ASSUME NEW k \in DOMAIN conclusions, conclusions[k].property \in Affected(engine.properties)
        PROVE  /\ Concludes(conclusions[k], seen, engine.properties)
               /\ conclusions[k].conflict \in DOMAIN conflicts =>
                    KeyOf(conflicts[conclusions[k].conflict]) = KeyOf(conclusions[k])
    <3>1. Concludes(conclusions[k], seen, engine.properties)
      BY <2>2 DEF SoundInv, Concluded, About
    <3>2. PICK key \in Keys(seen, engine.properties) : conclusions[k] = Conclusion(key, seen)
      BY <3>1 DEF Concludes
    <3>3. key = <<key[1], key[2]>>
      BY <3>2 DEF Keys
    <3>4. KeyOf(conclusions[k]) = key
      BY <3>2, <3>3 DEF Conclusion, KeyOf
    <3>5. conclusions[k].conflict = NoId \/ KeyOf(seen.conflicts[conclusions[k].conflict]) = key
      BY <3>2 DEF Conclusion, ConflictOn
    <3>6. DOMAIN conflicts \subseteq Ids /\ NoId \notin Ids
      BY FusionAssumption DEF FusionAssumption, SoundInv, RunInv, StoreTypes, Maps
    <3> QED
      BY <2>1, <3>1, <3>4, <3>5, <3>6 DEF PartOf
  <2> QED
    BY <2>1, <2>2 DEF AnswersAreSound, Open, About
<1> QED
  BY <1>1, <1>2, <1>3, RunInvariant, PTL DEF Spec, SoundInv

(***************************************************************************)
(* Correlation: the components of the links.                               *)
(***************************************************************************)

\* C holds what is linked to it in items.
Closed(C, items) == \A k \in C, l \in items : Linked(k, l) => l \in C

LEMMA LinkedBothWays ==
  ASSUME NEW i, NEW j, Linked(i, j)
  PROVE  Linked(j, i)
<1>1. {i, j} = {j, i}
  OBVIOUS
<1> QED
  BY <1>1 DEF Linked

\* A component holds its item and what is linked to it, and nothing else.
LEMMA ComponentOf ==
  ASSUME NEW items, NEW i \in items
  PROVE  /\ i \in Component(i, items) /\ Component(i, items) \subseteq items
         /\ Closed(Component(i, items), items)
         /\ \A C \in SUBSET items : i \in C /\ Closed(C, items) => Component(i, items) \subseteq C
<1>1. Component(i, items) =
        {j \in items : \A C \in SUBSET items : i \in C /\ Closed(C, items) => j \in C}
  BY DEF Component, Closed
<1>2. ASSUME NEW k \in Component(i, items), NEW l \in items, Linked(k, l)
      PROVE  l \in Component(i, items)
  <2>1. ASSUME NEW C \in SUBSET items, i \in C, Closed(C, items)
        PROVE  l \in C
    BY <1>1, <1>2, <2>1 DEF Closed
  <2> QED
    BY <1>1, <2>1
<1>3. Closed(Component(i, items), items)
  BY <1>2 DEF Closed
<1> QED
  BY <1>1, <1>3

\* Each of its items has the same component.
LEMMA ComponentClass ==
  ASSUME NEW items, NEW i \in items, NEW j \in Component(i, items)
  PROVE  Component(j, items) = Component(i, items)
<1> DEFINE A == Component(i, items)
           B == Component(j, items)
<1>1. j \in items /\ A \in SUBSET items /\ Closed(A, items) /\ i \in A
  BY ComponentOf
<1>2. B \in SUBSET items /\ Closed(B, items) /\ j \in B
  BY <1>1, ComponentOf
<1>3. B \subseteq A
  BY <1>1, ComponentOf
<1>4. i \in B
  <2>1. SUFFICES ASSUME i \notin B
                 PROVE  FALSE
    OBVIOUS
  <2>2. Closed(A \ B, items)
    <3> HIDE DEF A, B
    <3> QED
      BY <1>1, <1>2, LinkedBothWays DEF Closed
  <2>3. A \subseteq A \ B
    BY <1>1, <2>1, <2>2, ComponentOf
  <2> QED
    BY <1>2, <2>3
<1>5. A \subseteq B
  BY <1>2, <1>4, ComponentOf
<1> QED
  BY <1>3, <1>5

\* More items make larger components, and the same one when none of them is in it.
LEMMA ComponentGrows ==
  ASSUME NEW items, NEW old \in SUBSET items, NEW i \in old
  PROVE  /\ Component(i, old) \subseteq Component(i, items)
         /\ Component(i, items) \subseteq old => Component(i, old) = Component(i, items)
<1> DEFINE A == Component(i, items)
           B == Component(i, old)
<1>1. i \in A /\ A \in SUBSET items /\ Closed(A, items)
  BY ComponentOf
<1>2. i \in B /\ B \in SUBSET old /\ Closed(B, old)
  BY ComponentOf
<1>3. B \subseteq A
  <2>1. Closed(A \cap old, old) /\ i \in A \cap old
    BY <1>1 DEF Closed
  <2>2. A \cap old \in SUBSET old
    OBVIOUS
  <2>3. B \subseteq A \cap old
    <3> HIDE DEF A
    <3> QED
      BY <2>1, <2>2, ComponentOf
  <2> QED
    BY <2>3
<1>4. ASSUME A \subseteq old
      PROVE  A \subseteq B
  <2>1. Closed(B, items)
    <3> HIDE DEF A, B
    <3> QED
      BY <1>1, <1>2, <1>3, <1>4 DEF Closed
  <2>2. B \in SUBSET items
    BY <1>2
  <2> QED
    BY <1>2, <2>1, <2>2, ComponentOf
<1> QED
  BY <1>3, <1>4

(***************************************************************************)
(* The groups of a run, and the resources they make one.                   *)
(***************************************************************************)

Grouped(run) == UNION {run.groups[g] : g \in DOMAIN run.groups}

\* The groups are the components of the items they were built from.
Partition(run) ==
  /\ \A g \in DOMAIN run.groups :
       run.groups[g] # {} /\ \A i \in run.groups[g] : run.groups[g] = Component(i, Grouped(run))
  /\ \A g, h \in DOMAIN run.groups : run.groups[g] = run.groups[h] => g = h

\* A resource is in the group it names and in that of its items.
In(x, g, run) == x = g \/ \E i \in run.groups[g] : Resource[i] = x
Near(x, y, run) == x = y \/ \E g \in DOMAIN run.groups : In(x, g, run) /\ In(y, g, run)

\* It is live unless it is the identifier of a group that is no more.
Live(x, run) == x \in Ids => x \in DOMAIN run.groups

LEMMA OneGroup ==
  ASSUME NEW run, Partition(run), NEW g \in DOMAIN run.groups, NEW h \in DOMAIN run.groups,
         NEW i \in run.groups[g], i \in run.groups[h]
  PROVE  g = h
<1>1. run.groups[g] = Component(i, Grouped(run)) /\ run.groups[h] = Component(i, Grouped(run))
  BY DEF Partition
<1> QED
  BY <1>1 DEF Partition

LEMMA GroupedResource ==
  ASSUME NEW run, Partition(run), NEW g \in DOMAIN run.groups, NEW i \in run.groups[g]
  PROVE  ResourceOf(i, run) = Logical(g, run.groups[g])
<1> DEFINE id == CHOOSE h \in DOMAIN run.groups : i \in run.groups[h]
<1>1. id \in DOMAIN run.groups /\ i \in run.groups[id]
  OBVIOUS
<1>2. id = g
  <2> HIDE DEF id
  <2> QED
    BY <1>1, OneGroup
<1>3. ResourceOf(i, run) = Logical(id, run.groups[id])
  BY DEF ResourceOf
<1> QED
  BY <1>2, <1>3

LEMMA LogicalOf ==
  ASSUME NEW members \in SUBSET Items, NEW i \in members, NEW id
  PROVE  \/ Logical(id, members) = Resource[i] /\ \A j \in members : Resource[j] = Resource[i]
         \/ Logical(id, members) = id
<1>1. CASE \E r \in {Resource[j] : j \in Items} : \A j \in members : Resource[j] = r
  <2>1. \A j \in members : Resource[j] = Resource[i]
    BY <1>1
  <2>2. (CHOOSE j \in members : TRUE) \in members
    OBVIOUS
  <2>3. Logical(id, members) = Resource[CHOOSE j \in members : TRUE]
    BY <1>1 DEF Logical
  <2> QED
    BY <2>1, <2>2, <2>3
<1>2. CASE ~\E r \in {Resource[j] : j \in Items} : \A j \in members : Resource[j] = r
  BY <1>2 DEF Logical
<1> QED
  BY <1>1, <1>2

\* An item's resource and that of its evidence are in one group, and live.
LEMMA NearItem ==
  ASSUME NEW run, RunTypes(run), Partition(run), NEW i \in Items
  PROVE  /\ Near(Resource[i], ResourceOf(i, run), run) /\ Live(ResourceOf(i, run), run)
         /\ \A g \in DOMAIN run.groups : i \in run.groups[g] => In(ResourceOf(i, run), g, run)
<1>1. Resource[i] \notin Ids
  BY FusionAssumption DEF FusionAssumption
<1>2. ASSUME NEW g \in DOMAIN run.groups, i \in run.groups[g]
      PROVE  /\ ResourceOf(i, run) \in {Resource[i], g} /\ In(Resource[i], g, run)
  <2>1. run.groups[g] \in SUBSET Items
    BY DEF RunTypes, Maps
  <2>2. ResourceOf(i, run) = Logical(g, run.groups[g])
    BY <1>2, GroupedResource
  <2> QED
    BY <1>2, <2>1, <2>2, LogicalOf DEF In
<1>3. CASE i \in Grouped(run)
  <2>1. PICK g \in DOMAIN run.groups : i \in run.groups[g]
    BY <1>3 DEF Grouped
  <2> QED
    BY <1>1, <1>2, <2>1 DEF Near, Live, In
<1>4. CASE i \notin Grouped(run)
  <2>1. ~\E g \in DOMAIN run.groups : i \in run.groups[g]
    BY <1>4 DEF Grouped
  <2>2. ResourceOf(i, run) = Resource[i]
    BY <2>1 DEF ResourceOf
  <2> QED
    BY <1>1, <2>1, <2>2 DEF Near, Live
<1> QED
  BY <1>3, <1>4

LEMMA InOne ==
  ASSUME NEW run, RunTypes(run), Partition(run), NEW x,
         NEW g \in DOMAIN run.groups, NEW h \in DOMAIN run.groups, In(x, g, run), In(x, h, run)
  PROVE  g = h
<1>1. /\ g \in Ids /\ h \in Ids
      /\ run.groups[g] \subseteq Items /\ run.groups[h] \subseteq Items
  BY DEF RunTypes, Maps
<1>2. \A i \in Items : Resource[i] \notin Ids
  BY FusionAssumption DEF FusionAssumption
<1>3. ASSUME NEW i \in run.groups[g], NEW j \in run.groups[h], Resource[i] = Resource[j]
      PROVE  g = h
  <2>1. /\ i \in Grouped(run) /\ j \in Grouped(run) /\ Linked(i, j)
        /\ run.groups[g] = Component(i, Grouped(run))
    BY <1>3 DEF Grouped, Linked, Partition
  <2>2. j \in run.groups[g]
    BY <2>1, ComponentOf DEF Closed
  <2> QED
    BY <2>2, OneGroup
<1> QED
  BY <1>1, <1>2, <1>3 DEF In

LEMMA NearTransitive ==
  ASSUME NEW run, RunTypes(run), Partition(run), NEW x, NEW y, NEW z, Near(x, y, run), Near(y, z, run)
  PROVE  Near(x, z, run)
BY InOne DEF Near

LEMMA NearSymmetric ==
  ASSUME NEW run, NEW x, NEW y, Near(x, y, run)
  PROVE  Near(y, x, run)
BY DEF Near

\* Grouped items on resources of one group are on one resource.
LEMMA SeparateResources ==
  ASSUME NEW run, RunTypes(run), Partition(run), NEW i \in Grouped(run), NEW j \in Grouped(run),
         Near(ResourceOf(i, run), ResourceOf(j, run), run)
  PROVE  ResourceOf(i, run) = ResourceOf(j, run)
<1>1. PICK g \in DOMAIN run.groups : i \in run.groups[g]
  BY DEF Grouped
<1>2. PICK h \in DOMAIN run.groups : j \in run.groups[h]
  BY DEF Grouped
<1>3. i \in Items /\ j \in Items
  BY <1>1, <1>2 DEF RunTypes, Maps
<1>4. In(ResourceOf(i, run), g, run) /\ In(ResourceOf(j, run), h, run)
  BY <1>1, <1>2, <1>3, NearItem
<1>5. CASE g = h
  BY <1>1, <1>2, <1>5, GroupedResource
<1>6. ASSUME NEW f \in DOMAIN run.groups, In(ResourceOf(i, run), f, run), In(ResourceOf(j, run), f, run)
      PROVE  g = h
  BY <1>4, <1>6, InOne
<1> QED
  BY <1>5, <1>6 DEF Near

\* The identifiers that are left are given one to each.
LEMMA FreshNames ==
  ASSUME NEW S, IsFiniteSet(S), NEW run, Left(S, run)
  PROVE  /\ FreshIds(S, run) \in [S -> Ids \ Taken(run)]
         /\ \A x, y \in S : FreshIds(S, run)[x] = FreshIds(S, run)[y] => x = y
<1> DEFINE free == Ids \ Taken(run)
<1>1. IsFiniteSet(free)
  BY FusionAssumption, FS_Subset DEF FusionAssumption
<1>2. \E f \in [S -> free] : \A x, y \in S : f[x] = f[y] => x = y
  <2> HIDE DEF free
  <2> QED
    BY <1>1, Numbering DEF Left, free
<1> QED
  BY <1>2 DEF FreshIds

\* A finite run has finitely many components.
LEMMA ComponentsFinite ==
  ASSUME NEW items \in SUBSET Items
  PROVE  IsFiniteSet(Components(items))
<1> DEFINE component == [i \in items |-> Component(i, items)]
<1>1. IsFiniteSet(items)
  BY FusionAssumption, FS_Subset DEF FusionAssumption
<1>2. component \in [items -> Components(items)] /\ \A c \in Components(items) : \E i \in items : component[i] = c
  BY DEF Components
<1> HIDE DEF component
<1>3. component \in Surjection(items, Components(items))
  BY <1>2, Fun_IsSurj
<1> QED
  BY <1>1, <1>3, FS_Surjection

\* Correlation gives each component one identifier: that of the group it keeps,
\* or one that nothing has had.
LEMMA RebuiltNames ==
  ASSUME NEW run, RunTypes(run), NEW keep \in Keeps(run, Components(run.evidence)),
         Left(Ungrouped(keep), run), NEW next, next = Rebuilt(run, keep)
  PROVE  /\ \A id \in DOMAIN next :
              /\ next[id] \in Components(run.evidence)
              /\ id \in DOMAIN run.groups => keep[next[id]] = id
              /\ id \notin DOMAIN run.groups => id \in Ids \ Taken(run)
         /\ \A c \in Components(run.evidence) :
              \E id \in DOMAIN next : next[id] = c /\ (keep[c] # NoId => id = keep[c])
         /\ \A g, h \in DOMAIN next : next[g] = next[h] => g = h
<1> DEFINE components == Components(run.evidence)
           new == FreshIds(Ungrouped(keep), run)
           name(c) == IF keep[c] = NoId THEN new[c] ELSE keep[c]
<1>1. /\ DOMAIN keep = components /\ keep \in [components -> DOMAIN run.groups \cup {NoId}]
      /\ \A c, d \in components : keep[c] = keep[d] /\ keep[c] # NoId => c = d
  BY DEF Keeps
<1>2. IsFiniteSet(Ungrouped(keep))
  <2>1. IsFiniteSet(components)
    BY ComponentsFinite DEF RunTypes
  <2> QED
    BY <1>1, <2>1, FS_Subset DEF Ungrouped
<1>3. new \in [Ungrouped(keep) -> Ids \ Taken(run)] /\ \A c, d \in Ungrouped(keep) : new[c] = new[d] => c = d
  BY <1>2, FreshNames
<1>4. DOMAIN run.groups \subseteq Taken(run) /\ NoId \notin DOMAIN run.groups
  BY FusionAssumption DEF FusionAssumption, Taken, RunTypes, Maps
<1> HIDE DEF new, components
<1>5. \A c \in components : /\ keep[c] # NoId => name(c) = keep[c] /\ keep[c] \in DOMAIN run.groups
                            /\ keep[c] = NoId => c \in Ungrouped(keep) /\ name(c) \in Ids \ Taken(run)
  BY <1>1, <1>3 DEF Ungrouped
<1>6. ASSUME NEW c \in components, NEW d \in components, name(c) = name(d)
      PROVE  c = d
  <2>1. CASE keep[c] = NoId /\ keep[d] = NoId
    BY <1>3, <1>5, <1>6, <2>1
  <2>2. CASE keep[c] # NoId /\ keep[d] # NoId
    BY <1>1, <1>5, <1>6, <2>2
  <2>3. (keep[c] = NoId <=> keep[d] = NoId)
    <3> HIDE DEF name
    <3> QED
      BY <1>4, <1>5, <1>6
  <2> QED
    BY <2>1, <2>2, <2>3
<1>7. next = [id \in {name(c) : c \in components} |-> CHOOSE c \in components : name(c) = id]
  BY <1>1 DEF Rebuilt, new
<1> HIDE DEF name
<1>8. \A id \in DOMAIN next : next[id] \in components /\ name(next[id]) = id
  BY <1>7
<1>9. \A c \in components : name(c) \in DOMAIN next /\ next[name(c)] = c
  BY <1>6, <1>7
<1>10. ASSUME NEW id \in DOMAIN next
       PROVE  /\ id \in DOMAIN run.groups => keep[next[id]] = id
              /\ id \notin DOMAIN run.groups => id \in Ids \ Taken(run)
  BY <1>4, <1>5, <1>8
<1>11. \A c \in components : \E id \in DOMAIN next : next[id] = c /\ (keep[c] # NoId => id = keep[c])
  BY <1>5, <1>9
<1>12. \A g, h \in DOMAIN next : next[g] = next[h] => g = h
  BY <1>8
<1> QED
  BY <1>8, <1>10, <1>11, <1>12 DEF components

\* What correlation makes of the groups of a run: one group of each component of
\* its evidence, and the old one where nothing came to it.
Regrouped(run, next) ==
  /\ \A id \in DOMAIN next.groups :
       /\ next.groups[id] \in Components(run.evidence)
       /\ id \in DOMAIN run.groups => next.groups[id] \cap run.groups[id] # {}
       /\ id \notin DOMAIN run.groups => id \in Ids \ Taken(run)
  /\ \A c \in Components(run.evidence) :
       \E id \in DOMAIN next.groups :
         next.groups[id] = c /\ \A g \in DOMAIN run.groups : run.groups[g] = c => id = g
  /\ \A g, h \in DOMAIN next.groups : next.groups[g] = next.groups[h] => g = h

LEMMA SomeOverlap ==
  ASSUME NEW c, NEW id, NEW run, Overlap(c, id, run) > 0
  PROVE  c \cap run.groups[id] # {}
BY FS_EmptySet DEF Overlap

LEMMA KeptIsSame ==
  ASSUME NEW run, RunTypes(run), Partition(run), Grouped(run) \subseteq run.evidence,
         NEW keep \in Keeps(run, Components(run.evidence)),
         NEW g \in DOMAIN run.groups, run.groups[g] \in Components(run.evidence)
  PROVE  keep[run.groups[g]] = g
<1> DEFINE c == run.groups[g]
           components == Components(run.evidence)
<1>1. /\ keep \in [components -> DOMAIN run.groups \cup {NoId}]
      /\ \A d \in components :
           /\ keep[d] # NoId => Overlap(d, keep[d], run) > 0
           /\ \A id \in DOMAIN run.groups :
                (Overlap(d, id, run) > 0 /\
                 (keep[d] = NoId \/ Overlap(d, id, run) > Overlap(d, keep[d], run)))
                => \E e \in components : keep[e] = id
  BY DEF Keeps
<1>2. c # {} /\ c \in components /\ IsFiniteSet(c) /\ NoId \notin DOMAIN run.groups
  <2>1. c \subseteq Items /\ IsFiniteSet(Items)
    BY FusionAssumption DEF FusionAssumption, RunTypes, Maps
  <2> QED
    BY <2>1, FusionAssumption, FS_Subset DEF FusionAssumption, RunTypes, Maps, Partition
<1>3. Overlap(c, g, run) > 0
  <2>1. Overlap(c, g, run) = Cardinality(c)
    BY DEF Overlap
  <2>2. Cardinality(c) # 0 /\ Cardinality(c) \in Nat
    BY <1>2, FS_EmptySet, FS_CardinalityType
  <2> QED
    BY <2>1, <2>2
<1>4. CASE keep[c] # NoId
  <2>1. keep[c] \in DOMAIN run.groups /\ Overlap(c, keep[c], run) > 0
    BY <1>1, <1>2, <1>4
  <2>2. PICK i \in c : i \in run.groups[keep[c]]
    BY <2>1, SomeOverlap
  <2> HIDE DEF c
  <2>3. i \in run.groups[g]
    BY <2>2 DEF c
  <2> QED
    BY <2>1, <2>2, <2>3, OneGroup DEF c
<1>5. CASE keep[c] = NoId
  <2>1. PICK d \in components : keep[d] = g
    BY <1>1, <1>2, <1>3, <1>5
  <2>2. d \cap c # {}
    BY <1>1, <1>2, <2>1, SomeOverlap
  <2>3. PICK i \in d \cap c : TRUE
    BY <2>2
  <2>4. d = c
    <3>1. PICK j \in run.evidence, k \in run.evidence :
            d = Component(j, run.evidence) /\ c = Component(k, run.evidence)
      BY <1>2 DEF Components
    <3> HIDE DEF c
    <3> QED
      BY <2>3, <3>1, ComponentClass
  <2> QED
    BY <1>2, <1>5, <2>1, <2>4
<1> QED
  BY <1>4, <1>5

LEMMA RegroupedRun ==
  ASSUME NEW run, RunTypes(run), Partition(run), Grouped(run) \subseteq run.evidence,
         NEW keep \in Keeps(run, Components(run.evidence)), Left(Ungrouped(keep), run),
         NEW next, next.groups = Rebuilt(run, keep)
  PROVE  Regrouped(run, next)
<1> DEFINE groups2 == next.groups
<1>1. /\ \A id \in DOMAIN groups2 :
           /\ groups2[id] \in Components(run.evidence)
           /\ id \in DOMAIN run.groups => keep[groups2[id]] = id
           /\ id \notin DOMAIN run.groups => id \in Ids \ Taken(run)
      /\ \A c \in Components(run.evidence) :
           \E id \in DOMAIN groups2 : groups2[id] = c /\ (keep[c] # NoId => id = keep[c])
      /\ \A g, h \in DOMAIN groups2 : groups2[g] = groups2[h] => g = h
  <2> HIDE DEF groups2
  <2> QED
    BY RebuiltNames DEF groups2
<1>2. NoId \notin DOMAIN run.groups
  BY FusionAssumption DEF FusionAssumption, RunTypes, Maps
<1>3. \A c \in Components(run.evidence) : keep[c] # NoId => Overlap(c, keep[c], run) > 0
  BY DEF Keeps
<1>4. ASSUME NEW id \in DOMAIN groups2, id \in DOMAIN run.groups
      PROVE  groups2[id] \cap run.groups[id] # {}
  <2>1. groups2[id] \in Components(run.evidence) /\ keep[groups2[id]] = id
    BY <1>1, <1>4
  <2> HIDE DEF groups2
  <2>2. Overlap(groups2[id], id, run) > 0
    BY <1>2, <1>3, <1>4, <2>1
  <2> QED
    BY <2>2, SomeOverlap
<1>5. ASSUME NEW c \in Components(run.evidence)
      PROVE  \E id \in DOMAIN groups2 :
               groups2[id] = c /\ \A g \in DOMAIN run.groups : run.groups[g] = c => id = g
  <2>1. PICK id \in DOMAIN groups2 : groups2[id] = c /\ (keep[c] # NoId => id = keep[c])
    BY <1>1
  <2>2. ASSUME NEW g \in DOMAIN run.groups, run.groups[g] = c
        PROVE  id = g
    <3>1. keep[c] = g
      BY <2>2, KeptIsSame
    <3> QED
      BY <1>2, <2>1, <3>1
  <2> QED
    BY <2>1, <2>2
<1> QED
  BY <1>1, <1>4, <1>5 DEF Regrouped

\* The new groups are a partition of the evidence, the old ones are parts of them.
LEMMA RegroupedPartition ==
  ASSUME NEW run, RunTypes(run), Partition(run), Grouped(run) \subseteq run.evidence,
         NEW next, Regrouped(run, next)
  PROVE  /\ Partition(next) /\ Grouped(next) = run.evidence
         /\ \A g \in DOMAIN run.groups : \E id \in DOMAIN next.groups : run.groups[g] \subseteq next.groups[id]
<1>1. \A i \in run.evidence : i \in Component(i, run.evidence) /\ Component(i, run.evidence) \subseteq run.evidence
  BY ComponentOf
<1>2. Grouped(next) = run.evidence
  <2>1. \A i \in run.evidence : \E id \in DOMAIN next.groups : i \in next.groups[id]
    BY <1>1 DEF Regrouped, Components
  <2>2. \A id \in DOMAIN next.groups : next.groups[id] \subseteq run.evidence
    BY <1>1 DEF Regrouped, Components
  <2> QED
    BY <2>1, <2>2 DEF Grouped
<1>3. ASSUME NEW id \in DOMAIN next.groups
      PROVE  next.groups[id] # {} /\ \A i \in next.groups[id] : next.groups[id] = Component(i, run.evidence)
  <2>1. PICK j \in run.evidence : next.groups[id] = Component(j, run.evidence)
    BY DEF Regrouped, Components
  <2> QED
    BY <1>1, <2>1, ComponentClass
<1>4. Partition(next)
  BY <1>2, <1>3 DEF Partition, Regrouped
<1>5. ASSUME NEW g \in DOMAIN run.groups
      PROVE  \E id \in DOMAIN next.groups : run.groups[g] \subseteq next.groups[id]
  <2>1. PICK i \in run.groups[g] : run.groups[g] = Component(i, Grouped(run))
    BY DEF Partition
  <2>2. i \in Grouped(run)
    BY DEF Grouped
  <2>3. Component(i, Grouped(run)) \subseteq Component(i, run.evidence)
    BY <2>2, ComponentGrows
  <2>4. Component(i, run.evidence) \in Components(run.evidence)
    BY <2>2 DEF Components
  <2> QED
    BY <2>1, <2>3, <2>4 DEF Regrouped
<1> QED
  BY <1>2, <1>4, <1>5

\* What was near stays near, but for the groups that are no more.
LEMMA RegroupedNear ==
  ASSUME NEW run, RunTypes(run), Partition(run), Grouped(run) \subseteq run.evidence,
         NEW next, RunTypes(next), Regrouped(run, next),
         NEW x, NEW y, Near(x, y, run), Live(x, next), Live(y, next)
  PROVE  Near(x, y, next)
<1>1. Partition(next)
  BY RegroupedPartition
<1>2. CASE x = y
  BY <1>2 DEF Near
<1>3. ASSUME NEW g \in DOMAIN run.groups, In(x, g, run), In(y, g, run)
      PROVE  Near(x, y, next)
  <2>1. PICK id \in DOMAIN next.groups : run.groups[g] \subseteq next.groups[id]
    BY RegroupedPartition
  <2>2. ASSUME NEW z, In(z, g, run), Live(z, next)
        PROVE  In(z, id, next)
    <3>1. CASE z = g
      <4>1. z \in DOMAIN next.groups
        BY <2>2, <3>1 DEF Live, RunTypes, Maps
      <4>2. PICK i \in run.groups[g] : i \in next.groups[g]
        BY <3>1, <4>1 DEF Regrouped
      <4>3. g = id
        BY <1>1, <2>1, <3>1, <4>1, <4>2, OneGroup
      <4> QED
        BY <3>1, <4>3 DEF In
    <3>2. CASE z # g
      BY <2>1, <2>2, <3>2 DEF In
    <3> QED
      BY <3>1, <3>2
  <2> QED
    BY <1>3, <2>2 DEF Near
<1> QED
  BY <1>2, <1>3 DEF Near

\* A group that nothing came to makes the same resource of its items.
LEMMA RegroupedResource ==
  ASSUME NEW run, RunTypes(run), Partition(run), Grouped(run) \subseteq run.evidence,
         NEW next, Regrouped(run, next),
         NEW i \in Grouped(run), Component(i, run.evidence) \subseteq Grouped(run)
  PROVE  ResourceOf(i, next) = ResourceOf(i, run)
<1>1. PICK g \in DOMAIN run.groups : i \in run.groups[g]
  BY DEF Grouped
<1>2. run.groups[g] = Component(i, run.evidence)
  <2>1. Component(i, Grouped(run)) = Component(i, run.evidence)
    BY ComponentGrows
  <2> QED
    BY <1>1, <2>1 DEF Partition
<1>3. Component(i, run.evidence) \in Components(run.evidence)
  BY DEF Components
<1>4. g \in DOMAIN next.groups /\ next.groups[g] = run.groups[g]
  BY <1>2, <1>3 DEF Regrouped
<1>5. ResourceOf(i, run) = Logical(g, run.groups[g])
  BY <1>1, GroupedResource
<1>6. ResourceOf(i, next) = Logical(g, next.groups[g])
  BY <1>1, <1>4, RegroupedPartition, GroupedResource
<1> QED
  BY <1>4, <1>5, <1>6

(***************************************************************************)
(* What is settled of a property.                                          *)
(***************************************************************************)

KeysOn(p, run) == {<<p, ResourceOf(i, run)>> : i \in {j \in run.evidence : Property[j] = p}}
OnProperty(f, p) == {k \in DOMAIN f : f[k].property = p}
Agree(f, g, p) == OnProperty(f, p) = OnProperty(g, p) /\ \A k \in OnProperty(f, p) : f[k] = g[k]

\* The conclusions on p are exactly those its evidence leads to, under its keys.
Exact(p, run) ==
  /\ \A k \in OnProperty(run.conclusions, p) : \E key \in KeysOn(p, run) : run.conclusions[k] = Conclusion(key, run)
  /\ \A key \in KeysOn(p, run) :
       /\ key \in DOMAIN run.byKey /\ run.byKey[key] \in DOMAIN run.conclusions
       /\ run.conclusions[run.byKey[key]] = Conclusion(key, run)

\* The conflicts on p are exactly those of its evidence, one of each key.
DetectedOn(p, run) ==
  /\ \A k \in OnProperty(run.conflicts, p) :
       \E key \in KeysOn(p, run) : /\ KeyOf(run.conflicts[k]) = key /\ Disputed(Group(key, run))
                                   /\ run.conflicts[k].evidence = Group(key, run)
  /\ \A key \in KeysOn(p, run) :
       Disputed(Group(key, run)) => \E k \in DOMAIN run.conflicts : ConflictOn(key, run) = {k}
SettledOn(p, run) ==
  DetectedOn(p, run) /\ \A k \in OnProperty(run.conflicts, p) : run.conflicts[k].winner # NoId

\* The evidence on p and its resources are the same in two runs.
SameItems(p, run, next) ==
  /\ {i \in run.evidence : Property[i] = p} = {i \in next.evidence : Property[i] = p}
  /\ \A i \in run.evidence : Property[i] = p => ResourceOf(i, run) = ResourceOf(i, next)

LEMMA SameKeys ==
  ASSUME NEW p, NEW run, NEW next, SameItems(p, run, next)
  PROVE  /\ SameItems(p, next, run) /\ KeysOn(p, run) = KeysOn(p, next)
         /\ \A key \in KeysOn(p, run) : key[1] = p /\ Group(key, run) = Group(key, next)
<1>1. SameItems(p, next, run)
  BY DEF SameItems
<1>2. KeysOn(p, run) = KeysOn(p, next)
  BY DEF SameItems, KeysOn
<1>3. ASSUME NEW rho
      PROVE  Group(<<p, rho>>, run) = Group(<<p, rho>>, next)
  <2>1. \A i : i \in Group(<<p, rho>>, run) <=> i \in run.evidence /\ Property[i] = p /\ ResourceOf(i, run) = rho
    BY DEF Group
  <2>2. \A i : i \in Group(<<p, rho>>, next) <=> i \in next.evidence /\ Property[i] = p /\ ResourceOf(i, next) = rho
    BY DEF Group
  <2>3. \A i : (i \in run.evidence /\ Property[i] = p) <=> (i \in next.evidence /\ Property[i] = p)
    BY DEF SameItems
  <2>4. \A i \in run.evidence : Property[i] = p => ResourceOf(i, run) = ResourceOf(i, next)
    BY DEF SameItems
  <2> QED
    BY <2>1, <2>2, <2>3, <2>4
<1>4. \A key \in KeysOn(p, run) : \E rho : key = <<p, rho>>
  BY DEF KeysOn
<1> QED
  BY <1>1, <1>2, <1>3, <1>4

\* Then a conclusion is the same when the conflicts on its key are.
LEMMA SameConclusion ==
  ASSUME NEW p, NEW run, NEW next, SameItems(p, run, next), NEW key \in KeysOn(p, run),
         ConflictOn(key, run) = ConflictOn(key, next)
  PROVE  Conclusion(key, run) = Conclusion(key, next)
<1> DEFINE of(items, on) ==
             [property |-> key[1], resource |-> key[2], evidence |-> items, winner |-> Winner(items),
              conflict |-> IF on = {} THEN NoId ELSE CHOOSE k \in on : TRUE]
<1>1. /\ Conclusion(key, run) = of(Group(key, run), ConflictOn(key, run))
      /\ Conclusion(key, next) = of(Group(key, next), ConflictOn(key, next))
  BY DEF Conclusion
<1>2. Group(key, run) = Group(key, next)
  BY SameKeys
<1> HIDE DEF of
<1> QED
  BY <1>1, <1>2

LEMMA SameConflicts ==
  ASSUME NEW p, NEW run, NEW next, Agree(run.conflicts, next.conflicts, p), NEW key, key[1] = p
  PROVE  ConflictOn(key, run) = ConflictOn(key, next)
<1>1. \A c : KeyOf(c) = key => c.property = p
  BY DEF KeyOf
<1>2. \A k : k \in ConflictOn(key, run) <=>
               k \in OnProperty(run.conflicts, p) /\ KeyOf(run.conflicts[k]) = key
  BY <1>1 DEF ConflictOn, OnProperty
<1>3. \A k : k \in ConflictOn(key, next) <=>
               k \in OnProperty(next.conflicts, p) /\ KeyOf(next.conflicts[k]) = key
  BY <1>1 DEF ConflictOn, OnProperty
<1> QED
  BY <1>2, <1>3 DEF Agree

LEMMA SameSettled ==
  ASSUME NEW p, NEW run, NEW next, SameItems(p, run, next), Agree(run.conflicts, next.conflicts, p)
  PROVE  /\ DetectedOn(p, run) => DetectedOn(p, next)
         /\ SettledOn(p, run) => SettledOn(p, next)
<1>1. /\ KeysOn(p, run) = KeysOn(p, next)
      /\ \A key \in KeysOn(p, run) : /\ Group(key, run) = Group(key, next)
                                     /\ ConflictOn(key, run) = ConflictOn(key, next)
  <2>1. /\ KeysOn(p, run) = KeysOn(p, next)
        /\ \A key \in KeysOn(p, run) : key[1] = p /\ Group(key, run) = Group(key, next)
    BY SameKeys
  <2>2. \A key \in KeysOn(p, run) : ConflictOn(key, run) = ConflictOn(key, next)
    BY <2>1, SameConflicts
  <2> QED
    BY <2>1, <2>2
<1>2. /\ OnProperty(run.conflicts, p) = OnProperty(next.conflicts, p)
      /\ \A k \in OnProperty(run.conflicts, p) : run.conflicts[k] = next.conflicts[k]
  BY DEF Agree
<1>3. ASSUME DetectedOn(p, run)
      PROVE  DetectedOn(p, next)
  <2>1. ASSUME NEW key \in KeysOn(p, run), NEW k, ConflictOn(key, next) = {k}
        PROVE  k \in DOMAIN next.conflicts
    BY <2>1 DEF ConflictOn
  <2>2. \A k \in OnProperty(next.conflicts, p) :
          \E key \in KeysOn(p, next) : /\ KeyOf(next.conflicts[k]) = key /\ Disputed(Group(key, next))
                                       /\ next.conflicts[k].evidence = Group(key, next)
    <3> TAKE k \in OnProperty(next.conflicts, p)
    <3>1. PICK key \in KeysOn(p, run) : /\ KeyOf(run.conflicts[k]) = key /\ Disputed(Group(key, run))
                                        /\ run.conflicts[k].evidence = Group(key, run)
      BY <1>2, <1>3 DEF DetectedOn
    <3>2. next.conflicts[k] = run.conflicts[k] /\ Group(key, next) = Group(key, run)
      BY <1>1, <1>2
    <3> QED
      BY <1>1, <3>1, <3>2
  <2>3. \A key \in KeysOn(p, next) :
          Disputed(Group(key, next)) => \E k \in DOMAIN next.conflicts : ConflictOn(key, next) = {k}
    <3> TAKE key \in KeysOn(p, next)
    <3>1. key \in KeysOn(p, run) /\ Group(key, next) = Group(key, run) /\ ConflictOn(key, next) = ConflictOn(key, run)
      BY <1>1
    <3>2. Disputed(Group(key, run)) => \E k \in DOMAIN run.conflicts : ConflictOn(key, run) = {k}
      BY <1>3, <3>1 DEF DetectedOn
    <3> QED
      BY <2>1, <3>1, <3>2
  <2> QED
    BY <2>2, <2>3 DEF DetectedOn
<1> QED
  BY <1>2, <1>3 DEF SettledOn

LEMMA SameExact ==
  ASSUME NEW p, NEW run, NEW next, SameItems(p, run, next), Agree(run.conclusions, next.conclusions, p),
         \A key \in KeysOn(p, run) :
           /\ ConflictOn(key, run) = ConflictOn(key, next)
           /\ key \in DOMAIN run.byKey => key \in DOMAIN next.byKey /\ next.byKey[key] = run.byKey[key],
         Exact(p, run)
  PROVE  Exact(p, next)
<1>1. /\ KeysOn(p, run) = KeysOn(p, next)
      /\ \A key \in KeysOn(p, run) : key[1] = p /\ Conclusion(key, run) = Conclusion(key, next)
  BY SameKeys, SameConclusion
<1>2. /\ OnProperty(run.conclusions, p) = OnProperty(next.conclusions, p)
      /\ \A k \in OnProperty(run.conclusions, p) : run.conclusions[k] = next.conclusions[k]
  BY DEF Agree
<1>3. \A key \in KeysOn(p, run) : Conclusion(key, run).property = p
  BY <1>1 DEF Conclusion
<1>4. ASSUME NEW key \in KeysOn(p, run)
      PROVE  /\ key \in DOMAIN next.byKey /\ next.byKey[key] \in DOMAIN next.conclusions
             /\ next.conclusions[next.byKey[key]] = Conclusion(key, next)
  <2>1. /\ key \in DOMAIN run.byKey /\ run.byKey[key] \in DOMAIN run.conclusions
        /\ run.conclusions[run.byKey[key]] = Conclusion(key, run)
    BY DEF Exact
  <2>2. run.byKey[key] \in OnProperty(run.conclusions, p)
    BY <1>3, <2>1 DEF OnProperty
  <2>3. run.byKey[key] \in DOMAIN next.conclusions
    BY <1>2, <2>2 DEF OnProperty
  <2> QED
    BY <1>1, <1>2, <2>1, <2>2, <2>3
<1> QED
  BY <1>1, <1>2, <1>4 DEF Exact

(***************************************************************************)
(* What is not settled yet: the properties of the groups that have an item *)
(* whose computation is still to be made.                                  *)
(***************************************************************************)

Together(i, k, run) == i = k \/ \E g \in DOMAIN run.groups : i \in run.groups[g] /\ k \in run.groups[g]
Unsettled(items, run) == {Property[k] : k \in {j \in Items : \E i \in items : Together(i, j, run)}}

LEMMA UnsettledParts ==
  ASSUME NEW run, NEW A, NEW B
  PROVE  /\ Unsettled(A \cup B, run) = Unsettled(A, run) \cup Unsettled(B, run)
         /\ \A i \in A \cap Items : Property[i] \in Unsettled(A, run)
BY DEF Unsettled, Together

LEMMA UnsettledGrows ==
  ASSUME NEW run, RunTypes(run), Partition(run), Grouped(run) \subseteq run.evidence,
         NEW next, Regrouped(run, next), NEW items
  PROVE  Unsettled(items, run) \subseteq Unsettled(items, next)
<1>1. ASSUME NEW i, NEW k, Together(i, k, run)
      PROVE  Together(i, k, next)
  BY <1>1, RegroupedPartition DEF Together
<1> QED
  BY <1>1 DEF Unsettled

LEMMA RegroupedElsewhere ==
  ASSUME NEW run, RunTypes(run), Partition(run), Grouped(run) \subseteq run.evidence,
         NEW next, Regrouped(run, next), NEW items, run.evidence \ Grouped(run) \subseteq items,
         NEW i \in Grouped(run), Property[i] \notin Unsettled(items, next)
  PROVE  ResourceOf(i, next) = ResourceOf(i, run)
<1>1. PICK id \in DOMAIN next.groups : next.groups[id] = Component(i, run.evidence)
  BY DEF Regrouped, Components
<1>2. i \in Items /\ i \in next.groups[id] /\ next.groups[id] \subseteq run.evidence
  BY <1>1, ComponentOf DEF RunTypes
<1>3. Component(i, run.evidence) \subseteq Grouped(run)
  <2>1. ASSUME NEW j \in next.groups[id], j \in items
        PROVE  FALSE
    BY <1>2, <2>1 DEF Unsettled, Together
  <2> QED
    BY <1>1, <1>2, <2>1
<1> QED
  BY <1>3, RegroupedResource

\* The identifiers of conclusions belong to one property and to one group each,
\* those a cut-off computation or an older grouping left behind too.
LiveKey(key, run) == Live(key[2], run)
Ties(run) ==
  /\ \A key \in DOMAIN run.byKey : run.byKey[key] \in DOMAIN run.conclusions =>
       run.conclusions[run.byKey[key]].property = key[1]
  /\ \A a, b \in DOMAIN run.byKey : run.byKey[a] = run.byKey[b] =>
       a[1] = b[1] /\ (LiveKey(a, run) /\ LiveKey(b, run) => Near(a[2], b[2], run))
  /\ \A k \in DOMAIN run.conclusions : \A i \in run.conclusions[k].evidence :
       /\ \A j \in run.conclusions[k].evidence : Near(Resource[i], Resource[j], run)
       /\ \A key \in DOMAIN run.byKey :
            run.byKey[key] = k /\ LiveKey(key, run) => Near(key[2], Resource[i], run)

\* A conflict is of some items, and resolved for the best of them if it is.
Contested(run) ==
  \A k \in DOMAIN run.conflicts : /\ run.conflicts[k].evidence # {}
                                  /\ run.conflicts[k].winner \in {NoId, Winner(run.conflicts[k].evidence)}

(***************************************************************************)
(* The computations settle.  e is the engine's computation, s the clone it *)
(* read, own its items and waiting those whose computation has not begun.  *)
(***************************************************************************)

Late == {"expand", "detect", "replace", "list", "resolve", "conclude", "finish"}

\* The items that are in no group have a computation to come.
Placed(run, e, waiting, own) ==
  /\ Grouped(run) \subseteq run.evidence /\ waiting \cup own \subseteq run.evidence
  /\ run.evidence \ Grouped(run) \subseteq waiting \cup own
  /\ e.pc \in Late => run.evidence \ Grouped(run) \subseteq waiting

\* What was read is what is there, but for items whose computation is to come.
ReadsNow(run, e, s, waiting) ==
  e.pc \in {"regroup", "replace", "conclude"} =>
    /\ Grouped(run) \subseteq s.evidence /\ s.evidence \subseteq run.evidence
    /\ run.evidence \ s.evidence \subseteq waiting
    /\ s.groups = run.groups /\ s.conflicts = run.conflicts
    /\ s.conclusions = run.conclusions /\ s.byKey = run.byKey

\* The computation is about all that its items unsettle.
AimedAt(run, e, own) ==
  /\ e.pc \in {"correlate", "regroup", "expand"} => \A i \in own : Property[i] \in Affected(e.properties)
  /\ e.pc \in Late \ {"expand"} => Unsettled(own, run) \subseteq Affected(e.properties)

\* A computation that fails is not that of an addition.
Failing(e, own) == e.pc \in {"idle", "fail"} => own = {}

Clean(run, items) ==
  \A p \in Properties \ Unsettled(items, run) : Exact(p, run) /\ SettledOn(p, run)

Stages(run, e, waiting) ==
  \A p \in Affected(e.properties) \ Unsettled(waiting, run) :
    /\ e.pc \in {"list", "resolve", "conclude", "finish"} => DetectedOn(p, run)
    /\ e.pc = "finish" => Exact(p, run)

Listed(run, e) == e.pc = "resolve" => e.todo \subseteq DOMAIN run.conflicts

Settling(run, e, s, waiting, own) ==
  /\ Partition(run) /\ Ties(run) /\ Contested(run)
  /\ Placed(run, e, waiting, own) /\ ReadsNow(run, e, s, waiting) /\ AimedAt(run, e, own)
  /\ Failing(e, own) /\ Clean(run, waiting \cup own) /\ Stages(run, e, waiting) /\ Listed(run, e)

\* A property that no waiting item unsettles is the computation's or settled.
LEMMA ElsewhereClean ==
  ASSUME NEW run, NEW e, NEW waiting, NEW own, AimedAt(run, e, own), Clean(run, waiting \cup own),
         e.pc \in Late \ {"expand"},
         NEW p \in Properties \ Unsettled(waiting, run), p \notin Affected(e.properties)
  PROVE  p \notin Unsettled(waiting \cup own, run) /\ Exact(p, run) /\ SettledOn(p, run)
<1>1. p \notin Unsettled(waiting \cup own, run)
  BY UnsettledParts DEF AimedAt
<1> QED
  BY <1>1 DEF Clean

\* Nothing is read or written, or the computation ends.
LEMMA EndedSettles ==
  ASSUME NEW run, NEW e, NEW s, NEW waiting, Settling(run, e, s, waiting, {}),
         NEW f, f.pc \in {"idle", "fail"}, NEW t
  PROVE  Settling(run, f, t, waiting, {})
<1>1. Stages(run, f, waiting) /\ Listed(run, f) /\ Failing(f, {}) /\ AimedAt(run, f, {}) /\ ReadsNow(run, f, t, waiting)
  BY DEF Stages, Listed, Failing, AimedAt, ReadsNow, Late
<1>2. Placed(run, f, waiting, {})
  BY DEF Settling, Placed, Late
<1> QED
  BY <1>1, <1>2 DEF Settling

LEMMA StartSettles ==
  ASSUME NEW run, NEW e, NEW s, NEW waiting, NEW own, Settling(run, e, s, waiting, own), e.pc = "idle",
         NEW f, f.pc = "correlate", NEW left, NEW mine, waiting = left \cup mine,
         \A i \in mine : Property[i] \in Affected(f.properties)
  PROVE  Settling(run, f, s, left, mine)
<1>1. own = {}
  BY DEF Settling, Failing
<1>2. /\ Stages(run, f, left) /\ Listed(run, f) /\ Failing(f, mine) /\ AimedAt(run, f, mine)
      /\ ReadsNow(run, f, s, left)
  BY DEF Stages, Listed, Failing, AimedAt, ReadsNow, Late
<1>3. Placed(run, f, left, mine)
  BY <1>1 DEF Settling, Placed, Late
<1>4. Clean(run, left \cup mine)
  BY <1>1 DEF Settling
<1> QED
  BY <1>2, <1>3, <1>4 DEF Settling

\* The computation reads the run, or lists the conflicts.
LEMMA ReadSettles ==
  ASSUME NEW run, NEW e, NEW s, NEW waiting, NEW own, Settling(run, e, s, waiting, own),
         NEW f, f.properties = e.properties, NEW t,
         \/ e.pc = "correlate" /\ f.pc = "regroup" /\ t = run
         \/ e.pc = "detect" /\ f.pc = "replace" /\ t = run
         \/ e.pc = "resolve" /\ f.pc = "conclude" /\ t = run
         \/ e.pc = "list" /\ f.pc = "resolve" /\ f.todo \subseteq DOMAIN run.conflicts
  PROVE  Settling(run, f, t, waiting, own)
<1>1. /\ Stages(run, f, waiting) /\ Listed(run, f)
  BY DEF Settling, Stages, Listed
<1>2. Failing(f, own) /\ AimedAt(run, f, own)
  BY DEF Settling, Failing, AimedAt, Late
<1>3. Placed(run, f, waiting, own)
  BY DEF Settling, Placed, Late
<1>4. ReadsNow(run, f, t, waiting)
  BY DEF Settling, Placed, ReadsNow
<1> QED
  BY <1>1, <1>2, <1>3, <1>4 DEF Settling

\* The computation takes in the properties of the groups it touches.
LEMMA ExpandSettles ==
  ASSUME NEW run, RunTypes(run), NEW e, NEW s, NEW waiting, NEW own, Settling(run, e, s, waiting, own),
         e.pc = "expand", e.properties # {},
         NEW f, f.pc = "detect", e.properties \subseteq f.properties,
         \A g \in DOMAIN run.groups : \A i, j \in run.groups[g] :
           Property[i] \in e.properties => Property[j] \in f.properties
  PROVE  Settling(run, f, s, waiting, own)
<1>1. Stages(run, f, waiting) /\ Listed(run, f) /\ ReadsNow(run, f, s, waiting) /\ Failing(f, own)
  BY DEF Stages, Listed, ReadsNow, Failing
<1>2. Placed(run, f, waiting, own)
  BY DEF Settling, Placed, Late
<1>3. AimedAt(run, f, own)
  <2>1. \A i \in own : Property[i] \in e.properties
    BY DEF Settling, AimedAt, Affected
  <2>2. ASSUME NEW i \in own, NEW k \in Items, Together(i, k, run)
        PROVE  Property[k] \in f.properties
    BY <2>1, <2>2 DEF Together
  <2>3. Unsettled(own, run) \subseteq f.properties
    BY <2>2 DEF Unsettled
  <2>4. f.properties \subseteq Affected(f.properties)
    BY DEF Affected
  <2> QED
    BY <2>3, <2>4 DEF AimedAt
<1> QED
  BY <1>1, <1>2, <1>3 DEF Settling

\* The computation of all its properties is complete.
LEMMA FinishedSettles ==
  ASSUME NEW run, NEW e, NEW s, NEW waiting, NEW own, Settling(run, e, s, waiting, own), e.pc = "finish",
         \A p \in Affected(e.properties) : \A k \in OnProperty(run.conflicts, p) : run.conflicts[k].winner # NoId,
         NEW f, f.pc = "idle", NEW t
  PROVE  Settling(run, f, t, waiting, {})
<1>1. Clean(run, waiting)
  <2>1. ASSUME NEW p \in Properties \ Unsettled(waiting, run)
        PROVE  Exact(p, run) /\ SettledOn(p, run)
    <3>1. CASE p \in Affected(e.properties)
      BY <3>1 DEF Settling, Stages, SettledOn
    <3>2. CASE p \notin Affected(e.properties)
      BY <3>2, ElsewhereClean DEF Settling, Late
    <3> QED
      BY <3>1, <3>2
  <2> QED
    BY <2>1 DEF Clean
<1>2. Placed(run, f, waiting, {})
  BY DEF Settling, Placed, Late
<1>3. waiting \cup {} = waiting
  OBVIOUS
<1>4. Stages(run, f, waiting) /\ Listed(run, f) /\ Failing(f, {}) /\ AimedAt(run, f, {}) /\ ReadsNow(run, f, t, waiting)
  BY DEF Stages, Listed, Failing, AimedAt, ReadsNow, Late
<1> QED
  BY <1>1, <1>2, <1>3, <1>4 DEF Settling

\* What depends on the groups alone.
LEMMA SameGroups ==
  ASSUME NEW run, NEW next, next.groups = run.groups
  PROVE  /\ Grouped(next) = Grouped(run) /\ (Partition(next) <=> Partition(run))
         /\ \A x, y : Near(x, y, next) <=> Near(x, y, run)
         /\ \A x : Live(x, next) <=> Live(x, run)
         /\ \A items : Unsettled(items, next) = Unsettled(items, run)
         /\ \A i : ResourceOf(i, next) = ResourceOf(i, run)
<1>1. Grouped(next) = Grouped(run)
  BY DEF Grouped
<1>2. Partition(next) <=> Partition(run)
  BY <1>1 DEF Partition
<1>3. \A x, y : Near(x, y, next) <=> Near(x, y, run)
  BY DEF Near, In
<1>4. \A x : Live(x, next) <=> Live(x, run)
  BY DEF Live
<1>5. \A items : Unsettled(items, next) = Unsettled(items, run)
  BY DEF Unsettled, Together
<1>6. \A i : ResourceOf(i, next) = ResourceOf(i, run)
  BY DEF ResourceOf
<1> QED
  BY <1>1, <1>2, <1>3, <1>4, <1>5, <1>6

LEMMA SameTies ==
  ASSUME NEW run, NEW next, next.groups = run.groups,
         next.conclusions = run.conclusions, next.byKey = run.byKey, Ties(run)
  PROVE  Ties(next)
BY SameGroups DEF Ties, LiveKey

LEMMA SameAnswers ==
  ASSUME NEW p, NEW run, NEW next, SameItems(p, run, next), Agree(run.conflicts, next.conflicts, p),
         next.conclusions = run.conclusions, next.byKey = run.byKey, Exact(p, run)
  PROVE  Exact(p, next)
<1>1. \A key \in KeysOn(p, run) : key[1] = p
  BY DEF KeysOn
<1>2. \A key \in KeysOn(p, run) : ConflictOn(key, run) = ConflictOn(key, next)
  BY <1>1, SameConflicts
<1>3. Agree(run.conclusions, next.conclusions, p)
  BY DEF Agree
<1> QED
  BY <1>2, <1>3, SameExact

LEMMA SameRun ==
  ASSUME NEW p, NEW run, NEW next, SameItems(p, run, next), next.conflicts = run.conflicts,
         next.conclusions = run.conclusions, next.byKey = run.byKey
  PROVE  /\ Exact(p, run) => Exact(p, next)
         /\ DetectedOn(p, run) => DetectedOn(p, next)
         /\ SettledOn(p, run) => SettledOn(p, next)
<1>1. Agree(run.conflicts, next.conflicts, p) /\ Agree(run.conclusions, next.conclusions, p)
  BY DEF Agree
<1>2. \A key : ConflictOn(key, run) = ConflictOn(key, next)
  BY DEF ConflictOn
<1> QED
  BY <1>1, <1>2, SameSettled, SameExact

\* Items are stored: their computation is to come.
LEMMA StoreSettles ==
  ASSUME NEW run, NEW e, NEW s, NEW waiting, NEW own, Settling(run, e, s, waiting, own),
         NEW next, NEW new \in SUBSET Items, next.evidence = run.evidence \cup new,
         next.groups = run.groups, next.conflicts = run.conflicts,
         next.conclusions = run.conclusions, next.byKey = run.byKey
  PROVE  Settling(next, e, s, waiting \cup new, own)
<1>1. Partition(next) /\ Ties(next) /\ Contested(next) /\ Failing(e, own) /\ Listed(next, e)
  BY SameGroups, SameTies DEF Settling, Contested, Listed
<1>2. Placed(next, e, waiting \cup new, own)
  BY SameGroups DEF Settling, Placed
<1>3. ReadsNow(next, e, s, waiting \cup new)
  BY SameGroups DEF Settling, ReadsNow
<1>4. AimedAt(next, e, own)
  BY SameGroups DEF Settling, AimedAt
<1>5. ASSUME NEW p, p \notin Unsettled(new, run)
      PROVE  SameItems(p, run, next)
  <2>1. \A i \in new : Property[i] # p
    BY <1>5, UnsettledParts
  <2> QED
    BY <2>1, SameGroups DEF SameItems
<1>6. Clean(next, (waiting \cup new) \cup own)
  <2>1. ASSUME NEW p \in Properties, p \notin Unsettled((waiting \cup new) \cup own, next)
        PROVE  Exact(p, next) /\ SettledOn(p, next)
    <3>1. p \notin Unsettled(new, run) /\ p \notin Unsettled(waiting \cup own, run)
      BY <2>1, SameGroups, UnsettledParts
    <3>2. Exact(p, run) /\ SettledOn(p, run)
      BY <3>1 DEF Settling, Clean
    <3> QED
      BY <1>5, <3>1, <3>2, SameRun
  <2> QED
    BY <2>1 DEF Clean
<1>7. Stages(next, e, waiting \cup new)
  <2>1. ASSUME NEW p \in Affected(e.properties), p \notin Unsettled(waiting \cup new, next)
        PROVE  /\ e.pc \in {"list", "resolve", "conclude", "finish"} => DetectedOn(p, next)
               /\ e.pc = "finish" => Exact(p, next)
    <3>1. p \notin Unsettled(new, run) /\ p \notin Unsettled(waiting, run)
      BY <2>1, SameGroups, UnsettledParts
    <3>2. /\ e.pc \in {"list", "resolve", "conclude", "finish"} => DetectedOn(p, run)
          /\ e.pc = "finish" => Exact(p, run)
      BY <3>1 DEF Settling, Stages
    <3> QED
      BY <1>5, <3>1, <3>2, SameRun
  <2> QED
    BY <2>1 DEF Stages
<1> QED
  BY <1>1, <1>2, <1>3, <1>4, <1>6, <1>7 DEF Settling

\* The evidence that was read is grouped anew.
LEMMA RegroupedTies ==
  ASSUME NEW run, RunTypes(run), Partition(run), Grouped(run) \subseteq run.evidence, Ties(run),
         NEW next, RunTypes(next), Regrouped(run, next),
         next.conclusions = run.conclusions, next.byKey = run.byKey
  PROVE  Ties(next)
<1>1. \A key \in DOMAIN run.byKey : LiveKey(key, next) => LiveKey(key, run)
  BY DEF LiveKey, Live, Regrouped, Taken
<1>2. \A i \in Items : Live(Resource[i], next)
  BY FusionAssumption DEF FusionAssumption, Live
<1>3. \A x, y : Near(x, y, run) /\ Live(x, next) /\ Live(y, next) => Near(x, y, next)
  BY RegroupedNear
<1>4. \A k \in DOMAIN run.conclusions : run.conclusions[k].evidence \subseteq Items
  BY DEF RunTypes, Maps, ConclusionType
<1>5. ASSUME NEW a \in DOMAIN run.byKey, NEW b \in DOMAIN run.byKey, run.byKey[a] = run.byKey[b]
      PROVE  a[1] = b[1] /\ (LiveKey(a, next) /\ LiveKey(b, next) => Near(a[2], b[2], next))
  BY <1>1, <1>3, <1>5 DEF Ties, LiveKey
<1>6. ASSUME NEW k \in DOMAIN run.conclusions, NEW i \in run.conclusions[k].evidence
      PROVE  /\ \A j \in run.conclusions[k].evidence : Near(Resource[i], Resource[j], next)
             /\ \A key \in DOMAIN run.byKey :
                  run.byKey[key] = k /\ LiveKey(key, next) => Near(key[2], Resource[i], next)
  <2>1. \A j \in run.conclusions[k].evidence : Near(Resource[i], Resource[j], next)
    BY <1>2, <1>3, <1>4 DEF Ties
  <2>2. \A key \in DOMAIN run.byKey :
          run.byKey[key] = k /\ LiveKey(key, next) => Near(key[2], Resource[i], next)
    BY <1>1, <1>2, <1>3, <1>4 DEF Ties, LiveKey
  <2> QED
    BY <2>1, <2>2
<1> QED
  BY <1>5, <1>6 DEF Ties

LEMMA RegroupSettles ==
  ASSUME NEW run, NEW e, NEW s, RunTypes(s), NEW waiting, NEW own, Settling(run, e, s, waiting, own),
         e.pc = "regroup", NEW keep \in Keeps(s, Components(s.evidence)), Left(Ungrouped(keep), s),
         NEW next, RunTypes(next), next.groups = Rebuilt(s, keep), next.evidence = run.evidence,
         next.conflicts = run.conflicts, next.conclusions = run.conclusions, next.byKey = run.byKey,
         NEW f, f.pc \in {"detect", "expand"}, f.properties = e.properties,
         f.pc = "detect" => f.properties = {}
  PROVE  Settling(next, f, s, waiting, own)
<1>1. /\ Grouped(run) \subseteq s.evidence /\ s.evidence \subseteq run.evidence
      /\ run.evidence \ s.evidence \subseteq waiting
      /\ s.groups = run.groups /\ s.conflicts = run.conflicts
      /\ s.conclusions = run.conclusions /\ s.byKey = run.byKey
  BY DEF Settling, ReadsNow
<1>2. Partition(s) /\ Grouped(s) = Grouped(run) /\ \A items : Unsettled(items, s) = Unsettled(items, run)
  BY <1>1, SameGroups DEF Settling
<1>3. Regrouped(s, next)
  BY <1>1, <1>2, RegroupedRun
<1>4. Partition(next) /\ Grouped(next) = s.evidence
  BY <1>1, <1>2, <1>3, RegroupedPartition
<1>5. Ties(next)
  <2>1. Ties(s)
    BY <1>1, SameTies DEF Settling
  <2> QED
    BY <1>1, <1>2, <1>3, <2>1, RegroupedTies
<1>6. Contested(next)
  BY DEF Settling, Contested
<1>7. Placed(next, f, waiting, own) /\ ReadsNow(next, f, s, waiting) /\ Failing(f, own) /\ Listed(next, f)
  BY <1>1, <1>4 DEF Settling, Placed, ReadsNow, Failing, Listed
<1>8. AimedAt(next, f, own)
  <2>1. f.pc = "detect" => Unsettled(own, next) \subseteq Affected(f.properties)
    BY DEF Unsettled, Affected, Properties
  <2>2. f.pc = "expand" => \A i \in own : Property[i] \in Affected(f.properties)
    BY DEF Settling, AimedAt
  <2> QED
    BY <2>1, <2>2 DEF AimedAt
<1>9. Stages(next, f, waiting)
  BY DEF Stages
<1>10. Clean(next, waiting \cup own)
  <2>1. ASSUME NEW p \in Properties, p \notin Unsettled(waiting \cup own, next)
        PROVE  Exact(p, next) /\ SettledOn(p, next)
    <3>1. p \notin Unsettled(waiting \cup own, run)
      BY <1>1, <1>2, <1>3, <2>1, UnsettledGrows
    <3>2. run.evidence \ Grouped(run) \subseteq waiting \cup own
      BY DEF Settling, Placed
    <3>3. ASSUME NEW i \in run.evidence, Property[i] = p
          PROVE  ResourceOf(i, run) = ResourceOf(i, next)
      <4>1. i \in Grouped(run)
        <5>1. CASE i \in waiting \cup own
          <6>1. i \in Items
            BY <1>4, <3>3 DEF RunTypes
          <6> QED
            BY <3>1, <3>3, <5>1, <6>1, UnsettledParts
        <5> QED
          BY <3>2, <5>1
      <4>2. ResourceOf(i, next) = ResourceOf(i, s)
        BY <1>1, <1>2, <1>3, <2>1, <3>2, <3>3, <4>1, RegroupedElsewhere
      <4> QED
        BY <1>1, <4>2, SameGroups
    <3>4. SameItems(p, run, next)
      BY <3>3 DEF SameItems
    <3>5. Exact(p, run) /\ SettledOn(p, run)
      BY <3>1 DEF Settling, Clean
    <3> QED
      BY <3>4, <3>5, SameRun
  <2> QED
    BY <2>1 DEF Clean
<1> QED
  BY <1>4, <1>5, <1>6, <1>7, <1>8, <1>9, <1>10 DEF Settling

\* A conflict is resolved for the best of its items.
LEMMA ResolveSettles ==
  ASSUME NEW run, RunTypes(run), NEW e, NEW s, NEW waiting, NEW own, Settling(run, e, s, waiting, own),
         e.pc = "resolve", NEW k \in DOMAIN run.conflicts,
         NEW next, next.evidence = run.evidence, next.groups = run.groups,
         next.conflicts = [run.conflicts EXCEPT ![k].winner = Winner(run.conflicts[k].evidence)],
         next.conclusions = run.conclusions, next.byKey = run.byKey,
         NEW f, f.pc = "resolve", f.properties = e.properties, f.todo \subseteq e.todo
  PROVE  Settling(next, f, s, waiting, own)
<1>1. \A j \in DOMAIN run.conflicts : run.conflicts[j] \in ConflictType
  BY DEF RunTypes, Maps
<1>2. /\ DOMAIN next.conflicts = DOMAIN run.conflicts
      /\ next.conflicts[k].winner = Winner(run.conflicts[k].evidence)
      /\ \A j \in DOMAIN run.conflicts :
           /\ j # k => next.conflicts[j] = run.conflicts[j]
           /\ next.conflicts[j].property = run.conflicts[j].property
           /\ next.conflicts[j].resource = run.conflicts[j].resource
           /\ next.conflicts[j].evidence = run.conflicts[j].evidence
  BY <1>1 DEF ConflictType
<1>3. run.conflicts[k].winner = Winner(run.conflicts[k].evidence) => next.conflicts[k] = run.conflicts[k]
  BY <1>1 DEF ConflictType
<1>4. Partition(next) /\ Ties(next)
  BY SameGroups, SameTies DEF Settling
<1>5. Contested(next)
  BY <1>2 DEF Settling, Contested
<1>6. /\ Placed(next, f, waiting, own) /\ ReadsNow(next, f, s, waiting) /\ AimedAt(next, f, own)
      /\ Failing(f, own) /\ Listed(next, f)
  BY <1>2, SameGroups DEF Settling, Placed, ReadsNow, AimedAt, Failing, Listed
<1>7. /\ \A p : SameItems(p, run, next) /\ OnProperty(next.conflicts, p) = OnProperty(run.conflicts, p)
      /\ \A key : ConflictOn(key, next) = ConflictOn(key, run)
  <2>1. \A p : SameItems(p, run, next)
    BY SameGroups DEF SameItems
  <2>2. \A p : OnProperty(next.conflicts, p) = OnProperty(run.conflicts, p)
    BY <1>2 DEF OnProperty
  <2>3. \A j \in DOMAIN run.conflicts : KeyOf(next.conflicts[j]) = KeyOf(run.conflicts[j])
    BY <1>2 DEF KeyOf
  <2>4. \A key : ConflictOn(key, next) = ConflictOn(key, run)
    BY <1>2, <2>3 DEF ConflictOn
  <2> QED
    BY <2>1, <2>2, <2>4
<1>8. Clean(next, waiting \cup own)
  <2>1. ASSUME NEW p \in Properties, p \notin Unsettled(waiting \cup own, next)
        PROVE  Exact(p, next) /\ SettledOn(p, next)
    <3>1. Exact(p, run) /\ SettledOn(p, run)
      BY <2>1, SameGroups DEF Settling, Clean
    <3>2. Agree(run.conflicts, next.conflicts, p)
      <4>1. CASE run.conflicts[k].property = p
        <5>1. k \in OnProperty(run.conflicts, p)
          BY <4>1 DEF OnProperty
        <5>2. run.conflicts[k].winner # NoId
          BY <3>1, <5>1 DEF SettledOn
        <5>3. next.conflicts[k] = run.conflicts[k]
          BY <1>3, <5>2 DEF Settling, Contested
        <5> QED
          BY <1>2, <1>7, <5>3 DEF Agree, OnProperty
      <4>2. CASE run.conflicts[k].property # p
        BY <1>2, <1>7, <4>2 DEF Agree, OnProperty
      <4> QED
        BY <4>1, <4>2
    <3>3. Agree(run.conclusions, next.conclusions, p)
      BY DEF Agree
    <3>4. Exact(p, next)
      BY <1>7, <3>1, <3>3, SameExact
    <3> QED
      BY <1>7, <3>1, <3>2, <3>4, SameSettled
  <2> QED
    BY <2>1 DEF Clean
<1>9. Stages(next, f, waiting)
  <2>1. ASSUME NEW p \in Affected(e.properties), p \notin Unsettled(waiting, next)
        PROVE  DetectedOn(p, next)
    <3>1. DetectedOn(p, run)
      BY <2>1, SameGroups DEF Settling, Stages
    <3>2. /\ KeysOn(p, run) = KeysOn(p, next)
          /\ \A key \in KeysOn(p, run) : Group(key, run) = Group(key, next)
      BY <1>7, SameKeys
    <3>3. \A j \in OnProperty(run.conflicts, p) :
            /\ j \in DOMAIN run.conflicts
            /\ KeyOf(next.conflicts[j]) = KeyOf(run.conflicts[j])
            /\ next.conflicts[j].evidence = run.conflicts[j].evidence
      BY <1>2 DEF OnProperty, KeyOf
    <3>4. \A j \in OnProperty(next.conflicts, p) :
            \E key \in KeysOn(p, next) : /\ KeyOf(next.conflicts[j]) = key /\ Disputed(Group(key, next))
                                         /\ next.conflicts[j].evidence = Group(key, next)
      <4> TAKE j \in OnProperty(next.conflicts, p)
      <4>1. j \in OnProperty(run.conflicts, p)
        BY <1>7
      <4>2. PICK key \in KeysOn(p, run) : /\ KeyOf(run.conflicts[j]) = key /\ Disputed(Group(key, run))
                                          /\ run.conflicts[j].evidence = Group(key, run)
        BY <3>1, <4>1 DEF DetectedOn
      <4>3. Group(key, next) = Group(key, run) /\ key \in KeysOn(p, next)
        BY <3>2
      <4> QED
        BY <3>3, <4>1, <4>2, <4>3
    <3>5. \A key \in KeysOn(p, next) :
            Disputed(Group(key, next)) => \E j \in DOMAIN next.conflicts : ConflictOn(key, next) = {j}
      <4> TAKE key \in KeysOn(p, next)
      <4>1. /\ key \in KeysOn(p, run) /\ Group(key, next) = Group(key, run)
            /\ ConflictOn(key, next) = ConflictOn(key, run)
        BY <1>7, <3>2
      <4>2. Disputed(Group(key, run)) => \E j \in DOMAIN run.conflicts : ConflictOn(key, run) = {j}
        BY <3>1, <4>1 DEF DetectedOn
      <4> QED
        BY <1>2, <4>1, <4>2
    <3> QED
      BY <3>4, <3>5 DEF DetectedOn
  <2> QED
    BY <2>1 DEF Stages
<1> QED
  BY <1>4, <1>5, <1>6, <1>8, <1>9 DEF Settling

\* What detection finds: one conflict of each disputed key, under the identifier
\* of a conflict there is, with its resolution if the items are the same.
DisputedOf(run, properties) == {key \in Keys(run, properties) : Disputed(Group(key, run))}
DetectedAs(run, properties, found) ==
  /\ \A id \in DOMAIN found :
       /\ found[id] \in ConflictType
       /\ KeyOf(found[id]) \in DisputedOf(run, properties)
       /\ found[id].evidence = Group(KeyOf(found[id]), run)
       /\ id \in DOMAIN run.conflicts => KeyOf(run.conflicts[id]) = KeyOf(found[id])
       /\ found[id].winner =
            IF id \in DOMAIN run.conflicts /\ run.conflicts[id].evidence = found[id].evidence
            THEN run.conflicts[id].winner ELSE NoId
  /\ \A key \in DisputedOf(run, properties) :
       \E id \in DOMAIN found :
         KeyOf(found[id]) = key /\ (ConflictOn(key, run) = {} \/ id \in ConflictOn(key, run))
  /\ \A g, h \in DOMAIN found : KeyOf(found[g]) = KeyOf(found[h]) => g = h

LEMMA DetectionFinds ==
  ASSUME RunTypes(seen), Left(Undetected(seen), seen)
  PROVE  DetectedAs(seen, engine.properties, Detected(seen))
<1> DEFINE keys == DisputedKeys(seen)
           new == FreshIds(Undetected(seen), seen)
           name(key) == IF key \in DOMAIN new THEN new[key]
                        ELSE CHOOSE k \in ConflictOn(key, seen) : TRUE
           winner(key) ==
             IF key \notin DOMAIN new /\ seen.conflicts[name(key)].evidence = Group(key, seen)
             THEN seen.conflicts[name(key)].winner ELSE NoId
           record(key) == [property |-> key[1], resource |-> key[2],
                           evidence |-> Group(key, seen), winner |-> winner(key)]
           found == Detected(seen)
<1>1. /\ keys = DisputedOf(seen, engine.properties) /\ keys \subseteq Keys(seen, engine.properties)
      /\ Undetected(seen) \subseteq keys
  BY DEF DisputedKeys, DisputedOf, Undetected
<1>2. IsFiniteSet(Undetected(seen))
  BY <1>1, KeysFinite, FS_Subset DEF RunTypes
<1>3. /\ new \in [Undetected(seen) -> Ids \ Taken(seen)]
      /\ \A a, b \in Undetected(seen) : new[a] = new[b] => a = b
  BY <1>2, FreshNames
<1>4. DOMAIN seen.conflicts \subseteq Taken(seen)
  BY DEF Taken
<1>5. ASSUME NEW key \in keys
      PROVE  /\ key \notin Undetected(seen) => name(key) \in ConflictOn(key, seen)
             /\ key \in Undetected(seen) => name(key) \notin DOMAIN seen.conflicts /\ ConflictOn(key, seen) = {}
  <2>1. CASE key \in Undetected(seen)
    <3> HIDE DEF new
    <3>1. name(key) = new[key] /\ new[key] \notin DOMAIN seen.conflicts
      BY <1>3, <1>4, <2>1
    <3> QED
      BY <2>1, <3>1 DEF Undetected
  <2>2. CASE key \notin Undetected(seen)
    <3>1. ConflictOn(key, seen) # {}
      BY <2>2 DEF Undetected, DisputedKeys
    <3> HIDE DEF new
    <3>2. name(key) = CHOOSE k \in ConflictOn(key, seen) : TRUE
      BY <1>3, <2>2
    <3> HIDE DEF name
    <3> QED
      BY <2>2, <3>1, <3>2
  <2> QED
    BY <2>1, <2>2
<1>6. \A key \in keys : key \notin Undetected(seen) =>
        name(key) \in DOMAIN seen.conflicts /\ KeyOf(seen.conflicts[name(key)]) = key
  <2> HIDE DEF name
  <2> QED
    BY <1>5 DEF ConflictOn
<1>7. ASSUME NEW a \in keys, NEW b \in keys, name(a) = name(b)
      PROVE  a = b
  <2>1. CASE a \in Undetected(seen) /\ b \in Undetected(seen)
    <3> HIDE DEF new
    <3> QED
      BY <1>3, <1>7, <2>1
  <2>2. CASE ~(a \in Undetected(seen) /\ b \in Undetected(seen))
    <3> HIDE DEF name
    <3> QED
      BY <1>5, <1>6, <1>7, <2>2
  <2> QED
    BY <2>1, <2>2
<1>8. ASSUME NEW key \in keys
      PROVE  winner(key) = IF name(key) \in DOMAIN seen.conflicts /\ seen.conflicts[name(key)].evidence = Group(key, seen)
                           THEN seen.conflicts[name(key)].winner ELSE NoId
  <2>1. DOMAIN new = Undetected(seen)
    BY <1>3
  <2> HIDE DEF name, new
  <2> QED
    BY <1>5, <1>6, <2>1
<1>9. found = [id \in {name(key) : key \in keys} |-> record(CHOOSE k \in keys : name(k) = id)]
  BY DEF Detected
<1>10. \A key \in keys : KeyOf(record(key)) = key /\ record(key).evidence = Group(key, seen)
                         /\ record(key).winner = winner(key)
  <2> TAKE key \in keys
  <2>1. key \in Properties \X ResourceIds
    BY <1>1, KeyTypes
  <2> HIDE DEF winner
  <2> QED
    BY <2>1 DEF KeyOf
<1> HIDE DEF name, winner, keys, record
<1>11. \A key \in keys : name(key) \in DOMAIN found /\ found[name(key)] = record(key)
  BY <1>7, <1>9
<1>12. \A id \in DOMAIN found : \E key \in keys : id = name(key) /\ found[id] = record(key)
  BY <1>9, <1>11
<1>13. \A id \in DOMAIN found : found[id] \in ConflictType
  BY DetectedTypes DEF Maps
<1> HIDE DEF found
<1>14. ASSUME NEW id \in DOMAIN found
       PROVE  /\ KeyOf(found[id]) \in keys
              /\ found[id].evidence = Group(KeyOf(found[id]), seen)
              /\ id \in DOMAIN seen.conflicts => KeyOf(seen.conflicts[id]) = KeyOf(found[id])
              /\ found[id].winner =
                   IF id \in DOMAIN seen.conflicts /\ seen.conflicts[id].evidence = found[id].evidence
                   THEN seen.conflicts[id].winner ELSE NoId
  <2>1. PICK key \in keys : id = name(key) /\ found[id] = record(key)
    BY <1>12
  <2>2. id \in DOMAIN seen.conflicts => KeyOf(seen.conflicts[id]) = key
    BY <1>5, <1>6, <2>1
  <2> QED
    BY <1>8, <1>10, <2>1, <2>2
<1>15. ASSUME NEW key \in keys
       PROVE  \E id \in DOMAIN found :
                KeyOf(found[id]) = key /\ (ConflictOn(key, seen) = {} \/ id \in ConflictOn(key, seen))
  BY <1>5, <1>10, <1>11
<1>16. \A g, h \in DOMAIN found : KeyOf(found[g]) = KeyOf(found[h]) => g = h
  BY <1>10, <1>12
<1> QED
  BY <1>1, <1>13, <1>14, <1>15, <1>16 DEF DetectedAs, found

\* The keys of a property, among those of a computation.
LEMMA KeysOfProperty ==
  ASSUME NEW run, NEW properties, NEW p \in Affected(properties)
  PROVE  KeysOn(p, run) = {key \in Keys(run, properties) : key[1] = p}
BY DEF KeysOn, Keys

\* What was read of a property is what is there.
LEMMA SeenItems ==
  ASSUME NEW run, NEW e, NEW s, NEW waiting \in SUBSET Items, ReadsNow(run, e, s, waiting),
         e.pc \in {"regroup", "replace", "conclude"}, NEW p, p \notin Unsettled(waiting, run)
  PROVE  SameItems(p, run, s)
<1>1. s.evidence \subseteq run.evidence /\ run.evidence \ s.evidence \subseteq waiting /\ s.groups = run.groups
  BY DEF ReadsNow
<1>2. \A i \in waiting : Property[i] # p
  BY UnsettledParts
<1> QED
  BY <1>1, <1>2, SameGroups DEF SameItems

\* The conflicts of the computation's properties are replaced by those detected.
Replaced(run, properties, found, next) ==
  /\ \A p \in Affected(properties) : Agree(found, next.conflicts, p)
  /\ \A p : p \notin Affected(properties) => Agree(run.conflicts, next.conflicts, p)
  /\ \A k \in DOMAIN next.conflicts :
       \/ k \in DOMAIN found /\ next.conflicts[k] = found[k]
       \/ k \in DOMAIN run.conflicts /\ next.conflicts[k] = run.conflicts[k]

LEMMA ReplacedConflicts ==
  ASSUME NEW run, NEW s, s.conflicts = run.conflicts, NEW properties,
         NEW found, DetectedAs(s, properties, found),
         NEW kept, DOMAIN kept = {k \in DOMAIN run.conflicts : run.conflicts[k].property \notin Affected(properties)},
         \A k \in DOMAIN kept : kept[k] = run.conflicts[k],
         NEW next, next.conflicts = Extend(kept, found)
  PROVE  Replaced(run, properties, found, next)
<1>1. \A k \in DOMAIN found : found[k].property \in Affected(properties)
  BY DEF DetectedAs, DisputedOf, Keys, KeyOf
<1>2. \A k \in DOMAIN found : k \in DOMAIN run.conflicts => run.conflicts[k].property = found[k].property
  BY DEF DetectedAs, KeyOf
<1>3. /\ DOMAIN next.conflicts = DOMAIN kept \cup DOMAIN found
      /\ \A k \in DOMAIN found : next.conflicts[k] = found[k] /\ k \notin DOMAIN kept
      /\ \A k \in DOMAIN kept : next.conflicts[k] = run.conflicts[k] /\ k \notin DOMAIN found
  BY <1>1, <1>2 DEF Extend
<1>4. ASSUME NEW p \in Affected(properties)
      PROVE  Agree(found, next.conflicts, p)
  BY <1>3 DEF Agree, OnProperty
<1>5. ASSUME NEW p, p \notin Affected(properties)
      PROVE  Agree(run.conflicts, next.conflicts, p)
  BY <1>1, <1>3, <1>5 DEF Agree, OnProperty
<1> QED
  BY <1>3, <1>4, <1>5 DEF Replaced

LEMMA ReplaceSettles ==
  ASSUME NEW run, RunTypes(run), NEW e, NEW s, RunTypes(s), NEW waiting \in SUBSET Items, NEW own,
         Settling(run, e, s, waiting, own), e.pc = "replace",
         NEW found, DetectedAs(s, e.properties, found),
         NEW kept,
         DOMAIN kept = {k \in DOMAIN run.conflicts : run.conflicts[k].property \notin Affected(e.properties)},
         \A k \in DOMAIN kept : kept[k] = run.conflicts[k],
         NEW next, next.evidence = run.evidence, next.groups = run.groups,
         next.conflicts = Extend(kept, found),
         next.conclusions = run.conclusions, next.byKey = run.byKey,
         NEW f, f.pc = "list", f.properties = e.properties
  PROVE  Settling(next, f, s, waiting, own)
<1>1. ReadsNow(run, e, s, waiting) /\ s.conflicts = run.conflicts
  BY DEF Settling, ReadsNow
<1>2. /\ \A p \in Affected(e.properties) : Agree(found, next.conflicts, p)
      /\ \A p : p \notin Affected(e.properties) => Agree(run.conflicts, next.conflicts, p)
      /\ \A k \in DOMAIN next.conflicts :
           \/ k \in DOMAIN found /\ next.conflicts[k] = found[k]
           \/ k \in DOMAIN run.conflicts /\ next.conflicts[k] = run.conflicts[k]
  <2>1. Replaced(run, e.properties, found, next)
    BY <1>1, ReplacedConflicts
  <2> QED
    BY <2>1 DEF Replaced
<1>3. Partition(next) /\ Ties(next)
  BY SameGroups, SameTies DEF Settling
<1>4. Contested(next)
  <2>1. ASSUME NEW k \in DOMAIN found
        PROVE  found[k].evidence # {} /\ found[k].winner \in {NoId, Winner(found[k].evidence)}
    <3>1. KeyOf(found[k]) \in Keys(s, e.properties) /\ found[k].evidence = Group(KeyOf(found[k]), s)
      BY DEF DetectedAs, DisputedOf
    <3>2. found[k].evidence # {}
      BY <3>1, KeyTypes
    <3>3. found[k].winner = IF k \in DOMAIN run.conflicts /\ run.conflicts[k].evidence = found[k].evidence
                            THEN run.conflicts[k].winner ELSE NoId
      BY <1>1 DEF DetectedAs
    <3> QED
      BY <3>2, <3>3 DEF Settling, Contested
  <2> QED
    BY <1>2, <2>1 DEF Settling, Contested
<1>5. /\ Placed(next, f, waiting, own) /\ ReadsNow(next, f, s, waiting) /\ AimedAt(next, f, own)
      /\ Failing(f, own) /\ Listed(next, f)
  BY SameGroups DEF Settling, Placed, ReadsNow, AimedAt, Failing, Listed, Late
<1>6. \A p : SameItems(p, run, next)
  BY SameGroups DEF SameItems
<1>7. \A items : Unsettled(items, next) = Unsettled(items, run)
  BY SameGroups
<1>8. ASSUME NEW p \in Affected(e.properties), p \notin Unsettled(waiting, run)
      PROVE  /\ SameItems(p, s, run) /\ SameItems(p, s, next)
             /\ KeysOn(p, s) = KeysOn(p, run) /\ KeysOn(p, s) = KeysOn(p, next)
             /\ \A key \in KeysOn(p, s) : /\ key[1] = p /\ Group(key, s) = Group(key, next)
                                          /\ Group(key, s) = Group(key, run)
  <2>1. SameItems(p, run, s)
    BY <1>1, <1>8, SeenItems
  <2>2. SameItems(p, s, next)
    BY <1>6, <2>1 DEF SameItems
  <2> QED
    BY <2>1, <2>2, SameKeys
<1>9. ASSUME NEW p \in Affected(e.properties), p \notin Unsettled(waiting, run)
      PROVE  DetectedOn(p, next)
  <2>1. /\ KeysOn(p, s) = KeysOn(p, next)
        /\ \A key \in KeysOn(p, s) : key[1] = p /\ Group(key, s) = Group(key, next)
    BY <1>8, <1>9
  <2>2. KeysOn(p, s) = {key \in Keys(s, e.properties) : key[1] = p}
    BY KeysOfProperty
  <2>3. /\ OnProperty(next.conflicts, p) = OnProperty(found, p)
        /\ \A k \in OnProperty(found, p) : next.conflicts[k] = found[k]
    BY <1>2 DEF Agree
  <2>4. ASSUME NEW k \in OnProperty(found, p)
        PROVE  /\ KeyOf(found[k]) \in KeysOn(p, next) /\ Disputed(Group(KeyOf(found[k]), next))
               /\ found[k].evidence = Group(KeyOf(found[k]), next)
    <3>1. /\ k \in DOMAIN found /\ KeyOf(found[k])[1] = p
      BY DEF OnProperty, KeyOf
    <3>2. /\ KeyOf(found[k]) \in Keys(s, e.properties) /\ Disputed(Group(KeyOf(found[k]), s))
          /\ found[k].evidence = Group(KeyOf(found[k]), s)
      BY <3>1 DEF DetectedAs, DisputedOf
    <3> QED
      BY <2>1, <2>2, <3>1, <3>2
  <2>5. ASSUME NEW key \in KeysOn(p, next), Disputed(Group(key, next))
        PROVE  \E k \in DOMAIN next.conflicts : ConflictOn(key, next) = {k}
    <3>1. key \in DisputedOf(s, e.properties) /\ key[1] = p
      BY <2>1, <2>2, <2>5 DEF DisputedOf
    <3>2. PICK k \in DOMAIN found : KeyOf(found[k]) = key
      BY <3>1 DEF DetectedAs
    <3>3. \A c : KeyOf(c) = key => c.property = p
      BY <3>1 DEF KeyOf
    <3>4. k \in ConflictOn(key, next)
      BY <2>3, <3>2, <3>3 DEF OnProperty, ConflictOn
    <3>5. ASSUME NEW j \in ConflictOn(key, next)
          PROVE  j = k
      <4>1. j \in OnProperty(next.conflicts, p) /\ KeyOf(next.conflicts[j]) = key
        BY <3>3 DEF ConflictOn, OnProperty
      <4>2. j \in DOMAIN found /\ KeyOf(found[j]) = key
        BY <2>3, <4>1 DEF OnProperty
      <4> QED
        BY <3>2, <4>2 DEF DetectedAs
    <3>6. ConflictOn(key, next) = {k}
      BY <3>4, <3>5
    <3> QED
      BY <3>4, <3>6 DEF ConflictOn
  <2>6. \A k \in OnProperty(next.conflicts, p) :
          \E key \in KeysOn(p, next) : /\ KeyOf(next.conflicts[k]) = key /\ Disputed(Group(key, next))
                                       /\ next.conflicts[k].evidence = Group(key, next)
    BY <2>3, <2>4
  <2> QED
    BY <2>5, <2>6 DEF DetectedOn
<1>10. Stages(next, f, waiting)
  BY <1>7, <1>9 DEF Stages
<1>11. ASSUME NEW p \in Affected(e.properties), p \notin Unsettled(waiting, run), SettledOn(p, run)
       PROVE  Agree(run.conflicts, found, p)
  <2>1. /\ KeysOn(p, s) = KeysOn(p, run)
        /\ \A key \in KeysOn(p, run) : key[1] = p /\ Group(key, s) = Group(key, run)
    BY <1>8, <1>11
  <2>2. KeysOn(p, s) = {key \in Keys(s, e.properties) : key[1] = p}
    BY KeysOfProperty
  <2>3. \A key : ConflictOn(key, s) = ConflictOn(key, run)
    BY <1>1 DEF ConflictOn
  <2>4. ASSUME NEW k \in OnProperty(run.conflicts, p)
        PROVE  k \in OnProperty(found, p) /\ found[k] = run.conflicts[k]
    <3>1. PICK key \in KeysOn(p, run) : /\ KeyOf(run.conflicts[k]) = key /\ Disputed(Group(key, run))
                                        /\ run.conflicts[k].evidence = Group(key, run)
      BY <1>11 DEF SettledOn, DetectedOn
    <3>2. PICK j : ConflictOn(key, run) = {j}
      BY <1>11, <3>1 DEF SettledOn, DetectedOn
    <3>3. j = k /\ k \in DOMAIN run.conflicts
      BY <3>1, <3>2 DEF ConflictOn, OnProperty
    <3>4. key \in DisputedOf(s, e.properties)
      BY <2>1, <2>2, <3>1 DEF DisputedOf
    <3>5. k \in DOMAIN found /\ KeyOf(found[k]) = key
      BY <2>3, <3>2, <3>3, <3>4 DEF DetectedAs
    <3>6. found[k].evidence = run.conflicts[k].evidence
      BY <2>1, <3>1, <3>5 DEF DetectedAs
    <3>7. found[k].winner = run.conflicts[k].winner
      BY <1>1, <3>3, <3>5, <3>6 DEF DetectedAs
    <3>8. found[k].property = run.conflicts[k].property /\ found[k].resource = run.conflicts[k].resource
      BY <3>1, <3>5 DEF KeyOf
    <3>9. found[k] \in ConflictType /\ run.conflicts[k] \in ConflictType
      BY <3>3, <3>5 DEF DetectedAs, RunTypes, Maps
    <3>10. found[k] = run.conflicts[k]
      BY <3>6, <3>7, <3>8, <3>9 DEF ConflictType
    <3> QED
      BY <3>5, <3>8, <3>10 DEF OnProperty
  <2>5. ASSUME NEW k \in OnProperty(found, p)
        PROVE  k \in OnProperty(run.conflicts, p)
    <3> DEFINE key == KeyOf(found[k])
    <3>1. k \in DOMAIN found /\ key[1] = p
      BY DEF OnProperty, KeyOf
    <3>2. key \in DisputedOf(s, e.properties)
      BY <3>1 DEF DetectedAs
    <3>3. key \in KeysOn(p, run) /\ Disputed(Group(key, run))
      <4> HIDE DEF key
      <4> QED
        BY <2>1, <2>2, <3>1, <3>2 DEF DisputedOf
    <3>4. PICK j : ConflictOn(key, run) = {j}
      BY <1>11, <3>3 DEF SettledOn, DetectedOn
    <3>5. PICK id \in DOMAIN found : KeyOf(found[id]) = key /\ (ConflictOn(key, s) = {} \/ id \in ConflictOn(key, s))
      BY <3>2 DEF DetectedAs
    <3>6. id = k
      BY <3>1, <3>5 DEF DetectedAs
    <3>7. k \in ConflictOn(key, run)
      <4> HIDE DEF key
      <4> QED
        BY <2>3, <3>4, <3>5, <3>6
    <3>8. k \in DOMAIN run.conflicts /\ KeyOf(run.conflicts[k]) = key
      <4> HIDE DEF key
      <4> QED
        BY <3>7 DEF ConflictOn
    <3> QED
      BY <3>1, <3>8 DEF OnProperty, KeyOf
  <2> QED
    BY <2>4, <2>5 DEF Agree
<1>12. Clean(next, waiting \cup own)
  <2>1. ASSUME NEW p \in Properties, p \notin Unsettled(waiting \cup own, next)
        PROVE  Exact(p, next) /\ SettledOn(p, next)
    <3>1. p \notin Unsettled(waiting, run) /\ Exact(p, run) /\ SettledOn(p, run)
      BY <1>7, <2>1, UnsettledParts DEF Settling, Clean
    <3>2. Agree(run.conflicts, next.conflicts, p)
      <4>1. CASE p \in Affected(e.properties)
        <5>1. Agree(run.conflicts, found, p) /\ Agree(found, next.conflicts, p)
          BY <1>2, <1>11, <3>1, <4>1
        <5> QED
          BY <5>1 DEF Agree
      <4>2. CASE p \notin Affected(e.properties)
        BY <1>2, <4>2
      <4> QED
        BY <4>1, <4>2
    <3>3. Exact(p, next)
      BY <1>6, <3>1, <3>2, SameAnswers
    <3> QED
      BY <1>6, <3>1, <3>2, <3>3, SameSettled
  <2> QED
    BY <2>1 DEF Clean
<1> QED
  BY <1>3, <1>4, <1>5, <1>10, <1>12 DEF Settling

\* The identifiers of conclusions: that of the key, that of a conclusion on the
\* property about some of the items, or one that nothing has had.
Named(run, keys, names) ==
  /\ \A key \in keys :
       \/ key \in DOMAIN run.byKey /\ names[key] = run.byKey[key]
       \/ key \notin DOMAIN run.byKey /\ names[key] \notin Taken(run)
       \/ key \notin DOMAIN run.byKey /\ names[key] \in Overlapping(key, run)
  /\ \A a, b \in keys : a \notin DOMAIN run.byKey /\ b \notin DOMAIN run.byKey /\ names[a] \notin Taken(run)
                        /\ names[a] = names[b] => a = b

LEMMA NamesGiven ==
  ASSUME NEW run, RunTypes(run), NEW properties, NEW keys, keys = Keys(run, properties),
         Left(Unknown(keys, run), run)
  PROVE  Named(run, keys, Names(keys, run))
<1> DEFINE new == FreshIds(Unknown(keys, run), run)
           names == Names(keys, run)
<1>1. IsFiniteSet(Unknown(keys, run))
  BY KeysFinite, FS_Subset DEF RunTypes, Unknown
<1>2. /\ new \in [Unknown(keys, run) -> Ids \ Taken(run)]
      /\ \A a, b \in Unknown(keys, run) : new[a] = new[b] => a = b
  BY <1>1, FreshNames
<1>3. \A key \in keys : names[key] = IF key \in DOMAIN run.byKey THEN run.byKey[key]
                                     ELSE IF key \in DOMAIN new THEN new[key]
                                     ELSE CHOOSE k \in Overlapping(key, run) : TRUE
  BY DEF Names
<1> HIDE DEF new, names
<1>4. ASSUME NEW key \in keys, key \notin DOMAIN run.byKey
      PROVE  /\ key \in Unknown(keys, run) => names[key] = new[key] /\ names[key] \notin Taken(run)
             /\ key \notin Unknown(keys, run) => names[key] \in Overlapping(key, run)
  <2>1. CASE key \in Unknown(keys, run)
    BY <1>2, <1>3, <1>4, <2>1
  <2>2. CASE key \notin Unknown(keys, run)
    <3>1. Cardinality(Overlapping(key, run)) = 1
      BY <1>4, <2>2 DEF Unknown, Known
    <3>2. Overlapping(key, run) # {}
      BY <3>1, FS_EmptySet
    <3>3. names[key] = CHOOSE k \in Overlapping(key, run) : TRUE
      BY <1>2, <1>3, <1>4, <2>2
    <3> QED
      BY <2>2, <3>2, <3>3
  <2> QED
    BY <2>1, <2>2
<1>5. \A key : Overlapping(key, run) \subseteq Taken(run)
  BY DEF Overlapping, Taken
<1>6. ASSUME NEW a \in keys, NEW b \in keys, a \notin DOMAIN run.byKey, b \notin DOMAIN run.byKey,
             names[a] \notin Taken(run), names[a] = names[b]
      PROVE  a = b
  <2>1. a \in Unknown(keys, run) /\ b \in Unknown(keys, run)
    BY <1>4, <1>5, <1>6
  <2> QED
    BY <1>2, <1>4, <1>6, <2>1
<1>7. \A key \in keys : key \in DOMAIN run.byKey => names[key] = run.byKey[key]
  BY <1>3
<1> QED
  BY <1>4, <1>6, <1>7 DEF Named, names

\* The items of a key are near its resource, which is live.
LEMMA KeyItems ==
  ASSUME NEW run, RunTypes(run), Partition(run), NEW properties, NEW key \in Keys(run, properties)
  PROVE  /\ LiveKey(key, run) /\ key[1] \in Affected(properties)
         /\ \A i \in Group(key, run) : i \in Items /\ Near(Resource[i], key[2], run)
<1>1. PICK j \in run.evidence : key = <<Property[j], ResourceOf(j, run)>> /\ Property[j] \in Affected(properties)
  BY DEF Keys
<1>2. j \in Items /\ Live(ResourceOf(j, run), run)
  BY NearItem DEF RunTypes
<1>3. ASSUME NEW i \in Group(key, run)
      PROVE  i \in Items /\ Near(Resource[i], key[2], run)
  <2>1. i \in run.evidence /\ key = <<Property[i], ResourceOf(i, run)>>
    BY DEF Group
  <2>2. i \in Items /\ key[2] = ResourceOf(i, run)
    BY <2>1 DEF RunTypes
  <2> QED
    BY <2>2, NearItem
<1> QED
  BY <1>1, <1>2, <1>3 DEF LiveKey

\* One identifier is of keys of one property and of one group.
LEMMA NamesApart ==
  ASSUME NEW run, RunTypes(run), Partition(run), Ties(run), NEW properties, NEW keys, keys = Keys(run, properties),
         NEW names, Named(run, keys, names)
  PROVE  /\ \A a \in keys, c \in DOMAIN run.byKey : names[a] = run.byKey[c] =>
              a[1] = c[1] /\ (LiveKey(c, run) => Near(a[2], c[2], run))
         /\ \A a, b \in keys : names[a] = names[b] => a[1] = b[1] /\ Near(a[2], b[2], run)
         /\ \A a \in keys : names[a] \in DOMAIN run.conclusions =>
              run.conclusions[names[a]].property = a[1]
<1>1. \A key \in keys : LiveKey(key, run) /\ \A i \in Group(key, run) : i \in Items /\ Near(Resource[i], key[2], run)
  BY KeyItems
<1>2. /\ \A key \in DOMAIN run.byKey : run.byKey[key] \in Taken(run)
      /\ DOMAIN run.conclusions \subseteq Taken(run)
  BY DEF Taken
<1>3. \A x, y, z : Near(x, y, run) /\ Near(y, z, run) => Near(x, z, run)
  BY NearTransitive
<1>4. \A x, y : Near(x, y, run) => Near(y, x, run)
  BY NearSymmetric
<1>5. ASSUME NEW a \in keys, NEW k \in Overlapping(a, run)
      PROVE  /\ k \in DOMAIN run.conclusions /\ run.conclusions[k].property = a[1]
             /\ \E i \in run.conclusions[k].evidence : i \in Group(a, run) /\ Near(Resource[i], a[2], run)
  BY <1>1 DEF Overlapping
<1>6. ASSUME NEW a \in keys, NEW c \in DOMAIN run.byKey, names[a] = run.byKey[c]
      PROVE  a[1] = c[1] /\ (LiveKey(c, run) => Near(a[2], c[2], run))
  <2>1. CASE a \in DOMAIN run.byKey /\ names[a] = run.byKey[a]
    BY <1>1, <1>6, <2>1 DEF Ties
  <2>2. CASE names[a] \notin Taken(run)
    BY <1>2, <1>6, <2>2
  <2>3. CASE names[a] \in Overlapping(a, run)
    <3>1. PICK i \in run.conclusions[names[a]].evidence : Near(Resource[i], a[2], run)
      BY <1>5, <2>3
    <3>2. names[a] \in DOMAIN run.conclusions /\ run.conclusions[names[a]].property = a[1]
      BY <1>5, <2>3
    <3>3. a[1] = c[1]
      BY <1>6, <3>2 DEF Ties
    <3>4. LiveKey(c, run) => Near(c[2], Resource[i], run)
      BY <1>6, <3>1, <3>2 DEF Ties
    <3> QED
      BY <1>3, <1>4, <3>1, <3>3, <3>4
  <2> QED
    BY <2>1, <2>2, <2>3 DEF Named
<1>7. ASSUME NEW a \in keys, NEW b \in keys, names[a] = names[b]
      PROVE  a[1] = b[1] /\ Near(a[2], b[2], run)
  <2>1. CASE a \in DOMAIN run.byKey
    <3>1. names[b] = run.byKey[a]
      BY <1>2, <1>7, <2>1 DEF Named
    <3> QED
      BY <1>1, <1>4, <1>6, <2>1, <3>1
  <2>2. CASE b \in DOMAIN run.byKey
    <3>1. names[a] = run.byKey[b]
      BY <1>2, <1>7, <2>2 DEF Named
    <3> QED
      BY <1>1, <1>6, <2>2, <3>1
  <2>3. CASE a \notin DOMAIN run.byKey /\ b \notin DOMAIN run.byKey
    <3>1. CASE names[a] \notin Taken(run)
      BY <1>7, <2>3, <3>1 DEF Named, Near
    <3>2. CASE names[a] \in Taken(run)
      <4>1. names[a] \in Overlapping(a, run) /\ names[b] \in Overlapping(b, run)
        BY <1>7, <2>3, <3>2 DEF Named
      <4>2. /\ names[a] \in DOMAIN run.conclusions
            /\ run.conclusions[names[a]].property = a[1] /\ run.conclusions[names[a]].property = b[1]
        BY <1>5, <1>7, <4>1
      <4>3. PICK i \in run.conclusions[names[a]].evidence : Near(Resource[i], a[2], run)
        BY <1>5, <4>1
      <4>4. PICK j \in run.conclusions[names[a]].evidence : Near(Resource[j], b[2], run)
        BY <1>5, <1>7, <4>1
      <4>5. Near(Resource[i], Resource[j], run)
        BY <4>2, <4>3, <4>4 DEF Ties
      <4> QED
        BY <1>3, <1>4, <4>2, <4>3, <4>4, <4>5
    <3> QED
      BY <3>1, <3>2
  <2> QED
    BY <2>1, <2>2, <2>3
<1>8. ASSUME NEW a \in keys, names[a] \in DOMAIN run.conclusions
      PROVE  run.conclusions[names[a]].property = a[1]
  BY <1>2, <1>5, <1>8 DEF Named, Ties
<1> QED
  BY <1>6, <1>7, <1>8

\* What the maps hold after the conclusions on all the keys are stored: the
\* conclusions on other properties and their keys stay.
Applied(run, properties, keys, names, next) ==
  /\ \A key \in keys : /\ key \in DOMAIN next.byKey /\ next.byKey[key] = names[key]
                       /\ names[key] \in DOMAIN next.conclusions
  /\ \A key \in DOMAIN next.byKey \ keys : key \in DOMAIN run.byKey /\ next.byKey[key] = run.byKey[key]
  /\ \A key \in DOMAIN run.byKey : key[1] \notin Affected(properties) =>
       key \in DOMAIN next.byKey /\ (key \notin keys => next.byKey[key] = run.byKey[key])
  /\ \A k \in DOMAIN next.conclusions :
       \/ \E b \in keys : names[b] = k /\ next.conclusions[k] = Conclusion(b, run)
       \/ /\ k \in DOMAIN run.conclusions /\ next.conclusions[k] = run.conclusions[k]
          /\ run.conclusions[k].property \notin Affected(properties) /\ \A b \in keys : names[b] # k
  /\ \A k \in DOMAIN run.conclusions : run.conclusions[k].property \notin Affected(properties) =>
       k \in DOMAIN next.conclusions

LEMMA AppliedTies ==
  ASSUME NEW run, RunTypes(run), Partition(run), Ties(run), NEW properties, NEW keys, keys = Keys(run, properties),
         NEW names, Named(run, keys, names), NEW next, Applied(run, properties, keys, names, next),
         next.groups = run.groups
  PROVE  Ties(next)
<1>1. /\ \A a \in keys, c \in DOMAIN run.byKey : names[a] = run.byKey[c] =>
           a[1] = c[1] /\ (LiveKey(c, run) => Near(a[2], c[2], run))
      /\ \A a, b \in keys : names[a] = names[b] => a[1] = b[1] /\ Near(a[2], b[2], run)
  BY NamesApart
<1>2. \A key \in keys : LiveKey(key, run) /\ \A i \in Group(key, run) : i \in Items /\ Near(Resource[i], key[2], run)
  BY KeyItems
<1>3. \A x, y, z : Near(x, y, run) /\ Near(y, z, run) => Near(x, z, run)
  BY NearTransitive
<1>4. \A x, y : Near(x, y, run) => Near(y, x, run)
  BY NearSymmetric
<1>5. /\ \A x, y : Near(x, y, next) <=> Near(x, y, run)
      /\ \A key : LiveKey(key, next) <=> LiveKey(key, run)
  BY SameGroups DEF LiveKey
<1>6. \A key \in DOMAIN next.byKey :
        \/ key \in keys /\ next.byKey[key] = names[key]
        \/ key \notin keys /\ key \in DOMAIN run.byKey /\ next.byKey[key] = run.byKey[key]
  BY DEF Applied
<1>7. \A b \in keys : Conclusion(b, run).property = b[1] /\ Conclusion(b, run).evidence = Group(b, run)
  BY DEF Conclusion
<1>8. \A k \in DOMAIN next.conclusions :
        \/ \E b \in keys : names[b] = k /\ next.conclusions[k] = Conclusion(b, run)
        \/ /\ k \in DOMAIN run.conclusions /\ next.conclusions[k] = run.conclusions[k]
           /\ \A b \in keys : names[b] # k
  BY DEF Applied
<1>9. ASSUME NEW key \in DOMAIN next.byKey, NEW k \in DOMAIN next.conclusions, next.byKey[key] = k
      PROVE  /\ next.conclusions[k].property = key[1]
             /\ \A i \in next.conclusions[k].evidence :
                  LiveKey(key, run) => Near(key[2], Resource[i], run)
  <2>1. ASSUME NEW b \in keys, names[b] = k, next.conclusions[k] = Conclusion(b, run)
        PROVE  /\ next.conclusions[k].property = key[1]
               /\ \A i \in next.conclusions[k].evidence :
                    LiveKey(key, run) => Near(key[2], Resource[i], run)
    <3>1. b[1] = key[1] /\ (LiveKey(key, run) => Near(b[2], key[2], run))
      BY <1>1, <1>6, <1>9, <2>1
    <3> QED
      BY <1>2, <1>3, <1>4, <1>7, <2>1, <3>1
  <2>2. CASE /\ k \in DOMAIN run.conclusions /\ next.conclusions[k] = run.conclusions[k]
             /\ \A b \in keys : names[b] # k
    <3>1. key \in DOMAIN run.byKey /\ run.byKey[key] = k
      BY <1>6, <1>9, <2>2
    <3> QED
      BY <2>2, <3>1 DEF Ties
  <2> QED
    BY <1>8, <2>1, <2>2
<1>10. ASSUME NEW k \in DOMAIN next.conclusions, NEW i \in next.conclusions[k].evidence,
              NEW j \in next.conclusions[k].evidence
       PROVE  Near(Resource[i], Resource[j], run)
  <2>1. ASSUME NEW b \in keys, next.conclusions[k] = Conclusion(b, run)
        PROVE  Near(Resource[i], Resource[j], run)
    <3>1. Near(Resource[i], b[2], run) /\ Near(Resource[j], b[2], run)
      BY <1>2, <1>7, <2>1
    <3> QED
      BY <1>3, <1>4, <3>1
  <2> QED
    BY <1>8, <2>1 DEF Ties
<1>11. ASSUME NEW a \in DOMAIN next.byKey, NEW b \in DOMAIN next.byKey, next.byKey[a] = next.byKey[b]
       PROVE  a[1] = b[1] /\ (LiveKey(a, run) /\ LiveKey(b, run) => Near(a[2], b[2], run))
  <2>1. CASE a \in keys /\ b \in keys
    BY <1>1, <1>6, <1>11, <2>1
  <2>2. CASE a \in keys /\ b \notin keys
    BY <1>1, <1>6, <1>11, <2>2
  <2>3. CASE a \notin keys /\ b \in keys
    <3>1. names[b] = run.byKey[a] /\ a \in DOMAIN run.byKey
      BY <1>6, <1>11, <2>3
    <3> QED
      BY <1>1, <1>4, <2>3, <3>1
  <2>4. CASE a \notin keys /\ b \notin keys
    BY <1>6, <1>11, <2>4 DEF Ties
  <2> QED
    BY <2>1, <2>2, <2>3, <2>4
<1>12. \A a, b \in DOMAIN next.byKey : next.byKey[a] = next.byKey[b] =>
         a[1] = b[1] /\ (LiveKey(a, next) /\ LiveKey(b, next) => Near(a[2], b[2], next))
  BY <1>5, <1>11
<1>13. \A key \in DOMAIN next.byKey : next.byKey[key] \in DOMAIN next.conclusions =>
         next.conclusions[next.byKey[key]].property = key[1]
  BY <1>9
<1>14. \A k \in DOMAIN next.conclusions : \A i \in next.conclusions[k].evidence :
         /\ \A j \in next.conclusions[k].evidence : Near(Resource[i], Resource[j], next)
         /\ \A key \in DOMAIN next.byKey :
              next.byKey[key] = k /\ LiveKey(key, next) => Near(key[2], Resource[i], next)
  BY <1>5, <1>9, <1>10
<1> QED
  BY <1>12, <1>13, <1>14 DEF Ties

\* The conclusions of the computation's properties are those of the evidence.
LEMMA ApplySettles ==
  ASSUME NEW run, NEW e, NEW s, RunTypes(s), NEW waiting \in SUBSET Items, NEW own,
         Settling(run, e, s, waiting, own), e.pc = "conclude",
         NEW keys, keys = Keys(s, e.properties), NEW names, Named(s, keys, names),
         NEW next, Applied(s, e.properties, keys, names, next),
         next.evidence = run.evidence, next.groups = run.groups, next.conflicts = run.conflicts,
         NEW f, f.pc = "finish", f.properties = e.properties
  PROVE  Settling(next, f, s, waiting, own)
<1>1. /\ ReadsNow(run, e, s, waiting) /\ s.groups = run.groups /\ s.conflicts = run.conflicts
      /\ s.conclusions = run.conclusions /\ s.byKey = run.byKey
      /\ s.evidence \subseteq run.evidence /\ run.evidence \ Grouped(run) \subseteq waiting
  BY DEF Settling, ReadsNow, Placed, Late
<1>2. Partition(s) /\ Ties(s) /\ Grouped(s) = Grouped(run)
  BY <1>1, SameGroups, SameTies DEF Settling
<1>3. Partition(next) /\ Contested(next)
  BY SameGroups DEF Settling, Contested
<1>4. Ties(next)
  BY <1>1, <1>2, AppliedTies
<1>5. /\ Placed(next, f, waiting, own) /\ ReadsNow(next, f, s, waiting) /\ AimedAt(next, f, own)
      /\ Failing(f, own) /\ Listed(next, f)
  BY SameGroups DEF Settling, Placed, ReadsNow, AimedAt, Failing, Listed, Late
<1>6. /\ \A p : SameItems(p, run, next)
      /\ \A items : Unsettled(items, next) = Unsettled(items, run)
      /\ \A key : ConflictOn(key, next) = ConflictOn(key, run) /\ ConflictOn(key, s) = ConflictOn(key, run)
  <2>1. \A p : SameItems(p, run, next)
    BY SameGroups DEF SameItems
  <2>2. \A key : ConflictOn(key, next) = ConflictOn(key, run) /\ ConflictOn(key, s) = ConflictOn(key, run)
    BY <1>1 DEF ConflictOn
  <2> QED
    BY <2>1, <2>2, SameGroups
<1>7. \A p : Agree(run.conflicts, next.conflicts, p)
  BY DEF Agree
<1>8. ASSUME NEW p \in Affected(e.properties), p \notin Unsettled(waiting, run)
      PROVE  Exact(p, next)
  <2>1. SameItems(p, s, next)
    <3>1. SameItems(p, run, s)
      BY <1>1, <1>8, SeenItems
    <3> QED
      BY <1>6, <3>1 DEF SameItems
  <2>2. /\ KeysOn(p, s) = KeysOn(p, next)
        /\ \A key \in KeysOn(p, s) : Conclusion(key, s) = Conclusion(key, next)
    BY <1>6, <2>1, SameKeys, SameConclusion
  <2>3. KeysOn(p, s) = {key \in keys : key[1] = p}
    BY KeysOfProperty
  <2>4. \A b \in keys : Conclusion(b, s).property = b[1]
    BY DEF Conclusion
  <2>5. \A k \in OnProperty(next.conclusions, p) : \E key \in KeysOn(p, next) : next.conclusions[k] = Conclusion(key, next)
    BY <2>2, <2>3, <2>4 DEF Applied, OnProperty
  <2>6. ASSUME NEW key \in KeysOn(p, next)
        PROVE  /\ key \in DOMAIN next.byKey /\ next.byKey[key] \in DOMAIN next.conclusions
               /\ next.conclusions[next.byKey[key]] = Conclusion(key, next)
    <3>1. key \in keys /\ key \in KeysOn(p, s) /\ key[1] = p
      BY <2>2, <2>3
    <3>2. /\ key \in DOMAIN next.byKey /\ next.byKey[key] = names[key]
          /\ names[key] \in DOMAIN next.conclusions
      BY <3>1 DEF Applied
    <3>3. PICK b \in keys : names[b] = names[key] /\ next.conclusions[names[key]] = Conclusion(b, s)
      BY <3>1, <3>2 DEF Applied
    <3>4. b[1] = key[1] /\ Near(b[2], key[2], s)
      BY <1>2, <3>1, <3>3, NamesApart
    <3>5. b \in KeysOn(p, s)
      BY <2>3, <3>1, <3>4
    <3>6. PICK i \in s.evidence : Property[i] = p /\ b = <<p, ResourceOf(i, s)>>
      BY <3>5 DEF KeysOn
    <3>7. PICK j \in s.evidence : Property[j] = p /\ key = <<p, ResourceOf(j, s)>>
      BY <3>1 DEF KeysOn
    <3>8. \A k \in s.evidence : Property[k] = p => k \in Grouped(s)
      <4>1. \A k \in waiting : Property[k] # p
        BY <1>8, UnsettledParts
      <4> QED
        BY <1>1, <1>2, <4>1
    <3>9. ResourceOf(i, s) = ResourceOf(j, s)
      <4>1. b[2] = ResourceOf(i, s) /\ key[2] = ResourceOf(j, s)
        BY <3>6, <3>7
      <4>2. Near(ResourceOf(i, s), ResourceOf(j, s), s)
        BY <3>4, <4>1
      <4>3. i \in Grouped(s) /\ j \in Grouped(s)
        BY <3>6, <3>7, <3>8
      <4> QED
        BY <1>2, <4>2, <4>3, SeparateResources
    <3>10. b = key
      BY <3>6, <3>7, <3>9
    <3> QED
      BY <2>2, <3>1, <3>2, <3>3, <3>10
  <2> QED
    BY <2>5, <2>6 DEF Exact
<1>9. ASSUME NEW p, p \notin Affected(e.properties), Exact(p, run)
      PROVE  Exact(p, next)
  <2>1. \A a \in keys : a[1] \in Affected(e.properties) /\ Conclusion(a, s).property = a[1]
    BY <1>2, KeyItems DEF Conclusion
  <2>2. ASSUME NEW k \in OnProperty(run.conclusions, p)
        PROVE  k \in OnProperty(next.conclusions, p) /\ next.conclusions[k] = run.conclusions[k]
    <3>1. k \in DOMAIN s.conclusions /\ s.conclusions[k].property = p
      BY <1>1 DEF OnProperty
    <3>2. \A a \in keys : names[a] # k
      BY <1>2, <1>9, <2>1, <3>1, NamesApart
    <3>3. k \in DOMAIN next.conclusions
      BY <1>9, <3>1 DEF Applied
    <3>4. next.conclusions[k] = s.conclusions[k]
      BY <3>2, <3>3 DEF Applied
    <3> QED
      BY <1>1, <3>1, <3>3, <3>4 DEF OnProperty
  <2>3. ASSUME NEW k \in OnProperty(next.conclusions, p)
        PROVE  k \in OnProperty(run.conclusions, p)
    <3>1. k \in DOMAIN next.conclusions /\ next.conclusions[k].property = p
      BY DEF OnProperty
    <3>2. ~\E b \in keys : next.conclusions[k] = Conclusion(b, s)
      BY <1>9, <2>1, <3>1
    <3> QED
      BY <1>1, <3>1, <3>2 DEF Applied, OnProperty
  <2>4. Agree(run.conclusions, next.conclusions, p)
    BY <2>2, <2>3 DEF Agree
  <2>5. ASSUME NEW key \in KeysOn(p, run), key \in DOMAIN run.byKey
        PROVE  key \in DOMAIN next.byKey /\ next.byKey[key] = run.byKey[key]
    <3>1. key[1] = p
      BY DEF KeysOn
    <3>2. key \notin keys
      BY <1>9, <2>1, <3>1
    <3> QED
      BY <1>1, <1>9, <2>5, <3>1, <3>2 DEF Applied
  <2> QED
    BY <1>6, <1>9, <2>4, <2>5, SameExact
<1>10. Clean(next, waiting \cup own)
  <2>1. ASSUME NEW p \in Properties, p \notin Unsettled(waiting \cup own, next)
        PROVE  Exact(p, next) /\ SettledOn(p, next)
    <3>1. p \notin Unsettled(waiting, run) /\ Exact(p, run) /\ SettledOn(p, run)
      BY <1>6, <2>1, UnsettledParts DEF Settling, Clean
    <3> QED
      BY <1>6, <1>7, <1>8, <1>9, <3>1, SameSettled
  <2> QED
    BY <2>1 DEF Clean
<1>11. Stages(next, f, waiting)
  <2>1. ASSUME NEW p \in Affected(e.properties), p \notin Unsettled(waiting, next)
        PROVE  DetectedOn(p, next) /\ Exact(p, next)
    <3>1. p \notin Unsettled(waiting, run)
      BY <1>6, <2>1
    <3>2. DetectedOn(p, run)
      BY <3>1 DEF Settling, Stages
    <3> QED
      BY <1>6, <1>7, <1>8, <3>1, <3>2, SameSettled
  <2> QED
    BY <2>1 DEF Stages
<1> QED
  BY <1>3, <1>4, <1>5, <1>10, <1>11 DEF Settling

(***************************************************************************)
(* The steps of the run settle.                                            *)
(***************************************************************************)

Adders(place) == {r \in Requests : r.op = "add" /\ pc[r] = place}
WaitingItems == UNION {batch[r] : r \in Adders("schedule")}
OwnItems == UNION {batch[r] : r \in Adders("compute")}

OneComputes ==
  /\ \A r, q \in Requests : pc[r] = "compute" /\ pc[q] = "compute" => r = q
  /\ engine.pc = "idle" => \A r \in Requests : pc[r] # "compute"

\* No computation of an addition is cut off before its end.
AdditionsLast == \A r \in gone : r.op # "add"

Converging == Active /\ Removed = {} /\ AdditionsLast
SettlingNow == Settling(Clone, engine, seen, WaitingItems, OwnItems)
SettleInv == SoundInv /\ EvidenceInv /\ OneComputes /\ (Converging => SettlingNow)

LEMMA StepOne ==
  ASSUME Controls, OneComputes, [Next]_vars
  PROVE  OneComputes'
<1>0. /\ pc \in [Requests -> {"begin", "store", "schedule", "compute", "done"}] /\ EngineRecord(engine)
  BY DEF Controls
<1>1. CASE UNCHANGED <<pc, engine>>
  BY <1>1 DEF OneComputes
<1>2. ASSUME NEW r \in Requests, NEW place, To(r, place), place # "compute", UNCHANGED engine
      PROVE  OneComputes'
  BY <1>0, <1>2 DEF OneComputes, To
<1>3. ASSUME NEW r \in Requests,
             Prepare(r) \/ Store(r) \/ Remove(r) \/ Mark(r) \/ Cancel(r) \/ Finalize(r) \/ Reset(r) \/ Expire(r)
      PROVE  OneComputes'
  BY <1>1, <1>2, <1>3 DEF Prepare, Store, Remove, Mark, Cancel, Finalize, Reset, Expire
<1>4. ASSUME NEW r \in Requests, Start(r)
      PROVE  OneComputes'
  <2>1. CASE To(r, "done") /\ UNCHANGED engine
    BY <1>2, <2>1
  <2>2. CASE To(r, "compute") /\ engine'.pc = "correlate" /\ engine.pc = "idle"
    BY <1>0, <2>2 DEF OneComputes, To
  <2> QED
    BY <1>4, <2>1, <2>2 DEF Start
<1>5. ASSUME engine'.pc # "idle", UNCHANGED pc
      PROVE  OneComputes'
  BY <1>5 DEF OneComputes
<1>6. ASSUME NEW place \in Late \cup {"regroup", "fail"}, Proceed(place)
      PROVE  engine'.pc # "idle"
  BY <1>0, <1>6 DEF Proceed, EngineRecord, Late
<1>7. ASSUME NEW r \in Requests, Correlate(r) \/ Regroup(r) \/ Detect(r) \/ ReplaceConflicts(r) \/ ReadRun(r) \/ ApplyConclusions(r)
      PROVE  OneComputes'
  <2>1. UNCHANGED pc
    BY <1>7 DEF Correlate, Regroup, Detect, ReplaceConflicts, ReadRun, ApplyConclusions
  <2>2. \E place \in Late \cup {"regroup", "fail"} : Proceed(place)
    BY <1>7 DEF Correlate, Regroup, Detect, ReplaceConflicts, ReadRun, ApplyConclusions, Reads, Late
  <2> QED
    BY <1>5, <1>6, <2>1, <2>2
<1>8. ASSUME NEW r \in Requests, Expand(r) \/ ListConflicts(r) \/ Resolve(r)
      PROVE  OneComputes'
  <2>1. engine.pc \in {"expand", "list", "resolve"} /\ UNCHANGED pc
    BY <1>8 DEF Expand, ListConflicts, Resolve, At
  <2>2. engine'.pc \in {"detect", "resolve", "fail"}
    BY <1>0, <1>8, <2>1 DEF Expand, ListConflicts, Resolve, Proceed, EngineRecord, At
  <2> QED
    BY <1>5, <2>1, <2>2
<1>9. ASSUME NEW r \in Requests, Complete(r) \/ Fail(r)
      PROVE  OneComputes'
  <2>1. CASE Proceed("fail") /\ UNCHANGED pc
    BY <1>5, <1>6, <2>1
  <2>2. CASE Leaves(r) /\ pc[r] = "compute"
    BY <1>0, <2>2 DEF OneComputes, Leaves, To
  <2> QED
    BY <1>9, <2>1, <2>2 DEF Complete, Fail, At
<1> QED
  BY <1>1, <1>3, <1>4, <1>7, <1>8, <1>9 DEF Next, Serve, Compute, vars

\* A context that has ended stays so.
LEMMA GoneStays ==
  ASSUME [Next]_vars
  PROVE  gone \subseteq gone'
BY DEF Next, Serve, Compute, Prepare, Store, Remove, Mark, Cancel, Finalize, Reset, Start, Expire, Correlate, Regroup,
   Expand, Detect, ReplaceConflicts, ListConflicts, Resolve, ReadRun, ApplyConclusions, Complete, Fail, vars

\* A run that is active and has lost nothing was so before.
LEMMA StillConverging ==
  ASSUME Controls, [Next]_vars, Converging'
  PROVE  Converging
<1>0. batch \in [Requests -> SUBSET Items]
  BY DEF Controls
<1>1. AdditionsLast
  BY GoneStays DEF Converging, AdditionsLast
<1>2. \A r \in Requests : r.op = "remove" => batch'[r] = {}
  BY DEF Converging, Removed
<1>3. CASE UNCHANGED <<state, batch>>
  BY <1>3, <1>1 DEF Converging, Active, Removed
<1>4. ASSUME NEW r \in Requests, Prepare(r)
      PROVE  Converging
  <2>1. \A q \in Requests : q.op = "remove" => batch[q] = batch'[q]
    BY <1>0, <1>4 DEF Prepare, Begins
  <2>2. state' = state
    BY <1>4 DEF Prepare, runVars
  <2> QED
    BY <1>2, <1>1, <2>1, <2>2 DEF Converging, Active, Removed
<1>5. ASSUME NEW r \in Requests, Remove(r)
      PROVE  Converging
  <2>1. CASE batch' = [batch EXCEPT ![r] = r.on]
    <3>1. batch'[r] = r.on /\ r.op = "remove"
      BY <1>0, <1>5, <2>1 DEF Remove, Begins
    <3>2. r.on # {}
      BY <3>1, FusionAssumption DEF FusionAssumption
    <3> QED
      BY <1>2, <3>1, <3>2
  <2>2. CASE UNCHANGED batch
    BY <1>3, <1>5, <2>2 DEF Remove
  <2> QED
    BY <1>5, <2>1, <2>2 DEF Remove
<1>6. ASSUME NEW r \in Requests, Store(r) \/ Mark(r) \/ Start(r) \/ Expire(r)
      PROVE  Converging
  BY <1>3, <1>6 DEF Store, Mark, Start, Expire, runVars
<1>7. ASSUME NEW r \in Requests, Cancel(r) \/ Finalize(r) \/ Reset(r)
      PROVE  Converging
  <2>1. state' = state \/ state' # "ACTIVE"
    BY <1>7 DEF Cancel, Finalize, Reset, runVars
  <2>2. UNCHANGED batch
    BY <1>7 DEF Cancel, Finalize, Reset
  <2> QED
    BY <1>3, <2>1, <2>2 DEF Converging, Active
<1>8. ASSUME NEW r \in Requests, Compute(r)
      PROVE  Converging
  BY <1>3, <1>8 DEF Compute, Correlate, Regroup, Expand, Detect, ReplaceConflicts, ListConflicts, Resolve,
     ReadRun, ApplyConclusions, Complete, Fail, runVars
<1>9. CASE UNCHANGED vars
  BY <1>3, <1>9 DEF vars, runVars
<1> QED
  BY <1>4, <1>5, <1>6, <1>7, <1>8, <1>9 DEF Next, Serve

\* Nothing that matters changes.
LEMMA QuietSettles ==
  ASSUME SettlingNow, UNCHANGED <<evidence, groups, conflicts, conclusions, byKey, engine, seen>>,
         WaitingItems' = WaitingItems, OwnItems' = OwnItems
  PROVE  SettlingNow'
<1>1. Clone' = Clone
  BY DEF Clone
<1> QED
  BY <1>1 DEF SettlingNow

\* A request goes on that is no addition to compute.
LEMMA OthersItems ==
  ASSUME Controls, NEW r \in Requests, NEW place, To(r, place), \A q \in Requests : q # r => batch'[q] = batch[q],
         r.op # "add" \/ (pc[r] \notin {"schedule", "compute"} /\ place \notin {"schedule", "compute"})
  PROVE  WaitingItems' = WaitingItems /\ OwnItems' = OwnItems
<1>1. ASSUME NEW there \in {"schedule", "compute"}, NEW q \in Requests, q.op = "add"
      PROVE  /\ pc'[q] = there <=> pc[q] = there
             /\ pc[q] = there => batch'[q] = batch[q]
  BY <1>1 DEF Controls, To
<1>2. \A q : q \in Adders("schedule")' <=> q \in Adders("schedule")
  BY <1>1 DEF Adders
<1>3. \A q : q \in Adders("compute")' <=> q \in Adders("compute")
  BY <1>1 DEF Adders
<1>4. Adders("schedule")' = Adders("schedule") /\ \A q \in Adders("schedule") : batch'[q] = batch[q]
  <2>1. \A q \in Adders("schedule") : batch'[q] = batch[q]
    BY <1>1 DEF Adders
  <2> QED
    BY <1>2, <2>1
<1>5. Adders("compute")' = Adders("compute") /\ \A q \in Adders("compute") : batch'[q] = batch[q]
  <2>1. \A q \in Adders("compute") : batch'[q] = batch[q]
    BY <1>1 DEF Adders
  <2> QED
    BY <1>3, <2>1
<1>6. {batch'[q] : q \in Adders("schedule")'} = {batch[q] : q \in Adders("schedule")}
  BY <1>4
<1>7. {batch'[q] : q \in Adders("compute")'} = {batch[q] : q \in Adders("compute")}
  BY <1>5
<1> QED
  BY <1>6, <1>7 DEF WaitingItems, OwnItems

LEMMA SameRequests ==
  ASSUME UNCHANGED <<pc, batch>>
  PROVE  WaitingItems' = WaitingItems /\ OwnItems' = OwnItems
BY DEF WaitingItems, OwnItems, Adders

\* A step of a run that is active and has lost nothing.
Steady == SettleInv /\ Converging

LEMMA SteadyFacts ==
  ASSUME Steady
  PROVE  /\ Controls /\ EngineRecord(engine) /\ Active
         /\ RunTypes(Clone) /\ RunTypes(seen)
         /\ WaitingItems \in SUBSET Items
         /\ SettlingNow
         /\ \A r \in Requests : pc[r] = "compute" /\ ~Exists(r) => OwnItems = {}
<1>1. SoundInv /\ OneComputes /\ SettlingNow /\ Active
  BY DEF Steady, SettleInv, Converging
<1>2. Controls /\ StoreTypes /\ RunTypes(seen)
  BY <1>1 DEF SoundInv, RunInv
<1>3. EngineRecord(engine) /\ gone \subseteq Mortal /\ batch \in [Requests -> SUBSET Items]
  BY <1>2 DEF Controls
<1>4. RunTypes(Clone)
  BY <1>2 DEF StoreTypes, RunTypes, Clone
<1>5. WaitingItems \in SUBSET Items
  BY <1>3 DEF WaitingItems, Adders
<1>6. ASSUME NEW r \in Requests, pc[r] = "compute", ~Exists(r)
      PROVE  OwnItems = {}
  <2>1. r.op # "add"
    BY <1>1, <1>3, <1>6 DEF Exists, Active, Steady, Converging, AdditionsLast
  <2>2. \A q \in Requests : pc[q] = "compute" => q = r
    BY <1>1, <1>6 DEF OneComputes
  <2>3. Adders("compute") = {}
    BY <2>1, <2>2 DEF Adders
  <2> QED
    BY <2>3 DEF OwnItems
<1> QED
  BY <1>1, <1>2, <1>3, <1>4, <1>5, <1>6

\* The requests that do not compute.
LEMMA OthersSettle ==
  ASSUME Steady, Converging', NEW r \in Requests,
         \/ Prepare(r) \/ Store(r) \/ Remove(r) \/ Mark(r) \/ Cancel(r) \/ Finalize(r) \/ Reset(r) \/ Expire(r)
         \/ UNCHANGED vars
  PROVE  SettlingNow'
<1>0. Controls /\ SettlingNow /\ Active /\ Active' /\ WaitingItems \in SUBSET Items
  BY SteadyFacts DEF Converging
<1> DEFINE Same == UNCHANGED <<evidence, groups, conflicts, conclusions, byKey, engine, seen>>
<1>1. ASSUME Same, UNCHANGED <<pc, batch>>
      PROVE  SettlingNow'
  BY <1>0, <1>1, SameRequests, QuietSettles
<1>2. ASSUME Same, NEW place, To(r, place), \A q \in Requests : q # r => batch'[q] = batch[q],
             r.op # "add" \/ (pc[r] \notin {"schedule", "compute"} /\ place \notin {"schedule", "compute"})
      PROVE  SettlingNow'
  BY <1>0, <1>2, OthersItems, QuietSettles
<1>3. CASE Prepare(r)
  <2>1. Same /\ pc[r] = "begin" /\ (To(r, "store") \/ To(r, "done"))
    BY <1>3 DEF Prepare, Begins, runVars
  <2>2. \A q \in Requests : q # r => batch'[q] = batch[q]
    BY <1>0, <1>3 DEF Prepare, Controls
  <2> QED
    BY <1>2, <2>1, <2>2
<1>4. CASE Remove(r)
  <2>1. CASE batch' = [batch EXCEPT ![r] = r.on]
    <3>1. r.op = "remove" /\ r.on # {}
      BY <1>4, FusionAssumption DEF FusionAssumption, Remove, Begins
    <3>2. batch'[r] = r.on
      BY <1>0, <2>1 DEF Controls
    <3>3. batch'[r] \subseteq Removed'
      BY <3>1 DEF Removed
    <3> QED
      BY <3>1, <3>2, <3>3 DEF Converging
  <2>2. CASE To(r, "done") /\ UNCHANGED <<evidence, groups, conflicts, conclusions, byKey, counted, fusion, batch>>
    <3>1. Same /\ r.op = "remove"
      BY <1>4, <2>2 DEF Remove, Begins
    <3> QED
      BY <1>2, <2>2, <3>1
  <2> QED
    BY <1>4, <2>1, <2>2 DEF Remove
<1>5. CASE Mark(r) \/ Cancel(r) \/ Finalize(r) \/ Reset(r)
  <2>1. Same
    <3>1. CASE Reset(r)
      BY <1>0, <3>1 DEF Reset, Active, runVars
    <3> QED
      BY <1>5, <3>1 DEF Mark, Cancel, Finalize, data
  <2>2. pc[r] = "begin" /\ To(r, "done") /\ UNCHANGED batch
    BY <1>5 DEF Mark, Cancel, Finalize, Reset, Begins
  <2> QED
    BY <1>2, <2>1, <2>2
<1>6. CASE Expire(r) \/ UNCHANGED vars
  BY <1>1, <1>6 DEF Expire, vars, runVars
<1>7. CASE Store(r)
  <2>1. CASE Storable(r)
    <3>1. /\ evidence' = evidence \cup batch[r] /\ To(r, "schedule") /\ pc[r] = "store"
          /\ UNCHANGED <<groups, conflicts, conclusions, byKey, engine, seen, batch>>
      BY <1>7, <2>1 DEF Store
    <3>2. batch[r] \in SUBSET Items /\ r.op = "add"
      <4>1. batch[r] # {} /\ r.op \in {"add", "remove"}
        BY <3>1 DEF Steady, SettleInv, SoundInv, Scheduled
      <4>2. r.op = "remove" => batch[r] \subseteq Removed
        BY DEF Removed
      <4> QED
        BY <1>0, <4>1, <4>2 DEF Controls, Steady, Converging
    <3>3. WaitingItems' = WaitingItems \cup batch[r]
      <4>1. \A q : q \in Adders("schedule")' <=> q \in Adders("schedule") \cup {r}
        BY <1>0, <3>1, <3>2 DEF Adders, Controls, To
      <4>2. Adders("schedule")' = Adders("schedule") \cup {r}
        BY <4>1
      <4> QED
        BY <3>1, <4>2 DEF WaitingItems
    <3>4. OwnItems' = OwnItems
      <4>1. \A q : q \in Adders("compute")' <=> q \in Adders("compute")
        BY <1>0, <3>1 DEF Adders, Controls, To
      <4>2. Adders("compute")' = Adders("compute")
        BY <4>1
      <4> QED
        BY <3>1, <4>2 DEF OwnItems
    <3>5. /\ Clone'.evidence = Clone.evidence \cup batch[r] /\ Clone'.groups = Clone.groups
          /\ Clone'.conflicts = Clone.conflicts /\ Clone'.conclusions = Clone.conclusions
          /\ Clone'.byKey = Clone.byKey
      BY <3>1 DEF Clone
    <3>6. Settling(Clone', engine, seen, WaitingItems \cup batch[r], OwnItems)
      BY <1>0, <3>2, <3>5, StoreSettles DEF SettlingNow
    <3> QED
      BY <3>1, <3>3, <3>4, <3>6 DEF SettlingNow
  <2>2. CASE ~Storable(r)
    <3>1. Same /\ pc[r] = "store" /\ To(r, "done") /\ UNCHANGED batch
      BY <1>7, <2>2 DEF Store
    <3> QED
      BY <1>2, <3>1
  <2> QED
    BY <2>1, <2>2
<1> QED
  BY <1>3, <1>4, <1>5, <1>6, <1>7

LEMMA StartsSettle ==
  ASSUME Steady, NEW r \in Requests, Start(r)
  PROVE  SettlingNow'
<1>0. /\ Controls /\ SettlingNow /\ Active /\ WaitingItems \in SUBSET Items
      /\ Settling(Clone, engine, seen, WaitingItems, OwnItems) /\ engine.pc = "idle"
  BY SteadyFacts DEF Start, SettlingNow
<1>1. /\ UNCHANGED <<evidence, groups, conflicts, conclusions, byKey, seen, batch>> /\ Clone' = Clone
      /\ pc[r] = "schedule" \/ (pc[r] = "begin" /\ r.op \in {"recompute", "run"})
  BY DEF Start, data, Clone, Begins
<1>2. CASE Exists(r)
  <2>1. /\ To(r, "compute") /\ engine'.pc = "correlate" /\ engine'.properties = Scope(r)
    BY <1>0, <1>2 DEF Start
  <2>2. \A q \in Requests : pc[q] # "compute"
    BY <1>0 DEF Steady, SettleInv, OneComputes
  <2>3. CASE r.op = "add"
    <3>1. pc[r] = "schedule" /\ batch[r] \subseteq Items
      BY <1>0, <1>1, <2>3 DEF Controls
    <3>2. \A q : q \in Adders("compute")' <=> q = r
      BY <1>0, <2>1, <2>2, <2>3 DEF Adders, Controls, To
    <3>3. \A q : q \in Adders("schedule")' <=> q \in Adders("schedule") /\ q # r
      BY <1>0, <2>1, <2>3 DEF Adders, Controls, To
    <3>4. r \in Adders("schedule")
      BY <2>3, <3>1 DEF Adders
    <3>5. OwnItems' = batch[r]
      <4>1. Adders("compute")' = {r}
        BY <3>2
      <4> QED
        BY <1>1, <4>1 DEF OwnItems
    <3>6. WaitingItems = WaitingItems' \cup batch[r]
      <4>1. Adders("schedule") = Adders("schedule")' \cup {r}
        BY <3>3, <3>4
      <4> QED
        BY <1>1, <4>1 DEF WaitingItems
    <3>7. \A i \in batch[r] : Property[i] \in Affected(engine'.properties)
      BY <2>1, <2>3, <3>1 DEF Scope, Affected, Properties
    <3>8. Settling(Clone, engine', seen, WaitingItems', batch[r])
      BY <1>0, <2>1, <3>6, <3>7, StartSettles
    <3> QED
      BY <1>1, <3>5, <3>8 DEF SettlingNow
  <2>4. CASE r.op # "add"
    <3>1. WaitingItems' = WaitingItems /\ OwnItems' = OwnItems
      BY <1>0, <1>1, <2>1, <2>4, OthersItems
    <3>2. OwnItems = {}
      BY <1>0 DEF Settling, Failing
    <3>3. WaitingItems = WaitingItems \cup {}
      OBVIOUS
    <3>4. Settling(Clone, engine', seen, WaitingItems, {})
      BY <1>0, <2>1, <3>3, StartSettles
    <3> QED
      BY <1>1, <3>1, <3>2, <3>4 DEF SettlingNow
  <2> QED
    BY <2>3, <2>4
<1>3. CASE ~Exists(r)
  <2>1. To(r, "done") /\ UNCHANGED engine
    BY <1>3 DEF Start
  <2>2. r.op # "add"
    BY <1>0, <1>3 DEF Exists, Active, Steady, Converging, AdditionsLast
  <2>3. WaitingItems' = WaitingItems /\ OwnItems' = OwnItems
    BY <1>0, <1>1, <2>1, <2>2, OthersItems
  <2> QED
    BY <1>0, <1>1, <2>1, <2>3, QuietSettles
<1> QED
  BY <1>2, <1>3

\* A computation is cut off.
LEMMA CutOffSettles ==
  ASSUME Steady, NEW r \in Requests, pc[r] = "compute", ~Exists(r), engine'.pc = "fail",
         UNCHANGED <<evidence, groups, conflicts, conclusions, byKey, pc, batch>>
  PROVE  SettlingNow'
<1>1. Settling(Clone, engine, seen, WaitingItems, {}) /\ OwnItems = {} /\ Clone' = Clone
  BY SteadyFacts DEF SettlingNow, Clone
<1>2. Settling(Clone, engine', seen', WaitingItems, {})
  BY <1>1, EndedSettles
<1> QED
  BY <1>1, <1>2, SameRequests DEF SettlingNow

LEMMA ProceedRecord ==
  ASSUME EngineRecord(engine), NEW place, Proceed(place)
  PROVE  engine'.pc = place /\ engine'.properties = engine.properties /\ engine'.full = engine.full
BY DEF EngineRecord, Proceed

\* The computation reads the run, or lists its conflicts.
LEMMA ReadsSettle ==
  ASSUME Steady, NEW r \in Requests, Correlate(r) \/ Detect(r) \/ ListConflicts(r) \/ ReadRun(r)
  PROVE  SettlingNow'
<1>0. EngineRecord(engine) /\ Active /\ Settling(Clone, engine, seen, WaitingItems, OwnItems)
  BY SteadyFacts DEF SettlingNow
<1>1. UNCHANGED <<evidence, groups, conflicts, conclusions, byKey, pc, batch>> /\ pc[r] = "compute"
  BY DEF Correlate, Detect, ListConflicts, ReadRun, At, runVars
<1>2. CASE ~Exists(r)
  <2>1. Proceed("fail")
    BY <1>2 DEF Correlate, Detect, ListConflicts, ReadRun
  <2> QED
    BY <1>0, <1>1, <1>2, <2>1, ProceedRecord, CutOffSettles
<1>3. CASE Exists(r)
  <2>1. CASE ListConflicts(r)
    <3>1. engine.pc = "list" /\ engine' = [engine EXCEPT !.pc = "resolve", !.todo =
            {k \in DOMAIN conflicts : conflicts[k].property \in Affected(engine.properties)}]
          /\ seen' = seen
      BY <1>3, <2>1 DEF ListConflicts, At
    <3>2. engine'.pc = "resolve" /\ engine'.properties = engine.properties /\ engine'.todo \subseteq DOMAIN conflicts
      BY <1>0, <3>1 DEF EngineRecord
    <3>3. engine'.todo \subseteq DOMAIN Clone.conflicts
      BY <3>2 DEF Clone
    <3>4. Settling(Clone, engine', seen', WaitingItems, OwnItems)
      BY <1>0, <3>1, <3>2, <3>3, ReadSettles
    <3>5. Clone' = Clone
      BY <1>1 DEF Clone
    <3> QED
      BY <1>1, <3>4, <3>5, SameRequests DEF SettlingNow
  <2>2. CASE Correlate(r) \/ Detect(r) \/ ReadRun(r)
    <3>1. /\ seen' = Clone
          /\ \/ engine.pc = "correlate" /\ Proceed("regroup")
             \/ engine.pc = "detect" /\ Proceed("replace")
             \/ engine.pc = "resolve" /\ Proceed("conclude")
      BY <1>0, <1>3, <2>2 DEF Correlate, Detect, ReadRun, At, Reads
    <3>2. /\ engine'.properties = engine.properties
          /\ \/ engine.pc = "correlate" /\ engine'.pc = "regroup"
             \/ engine.pc = "detect" /\ engine'.pc = "replace"
             \/ engine.pc = "resolve" /\ engine'.pc = "conclude"
      BY <1>0, <3>1, ProceedRecord
    <3>3. Settling(Clone, engine', seen', WaitingItems, OwnItems)
      BY <1>0, <3>1, <3>2, ReadSettles
    <3>4. Clone' = Clone
      BY <1>1 DEF Clone
    <3> QED
      BY <1>1, <3>3, <3>4, SameRequests DEF SettlingNow
  <2> QED
    BY <2>1, <2>2
<1> QED
  BY <1>2, <1>3

LEMMA RegroupsSettle ==
  ASSUME Steady, RunInv', NEW r \in Requests, Regroup(r)
  PROVE  SettlingNow'
<1>0. /\ EngineRecord(engine) /\ Active /\ Settling(Clone, engine, seen, WaitingItems, OwnItems) /\ RunTypes(seen)
      /\ Aimed
  BY SteadyFacts DEF SettlingNow, Steady, SettleInv, SoundInv
<1>1. /\ UNCHANGED <<evidence, conflicts, conclusions, byKey, seen, pc, batch>>
      /\ pc[r] = "compute" /\ engine.pc = "regroup"
  BY DEF Regroup, At
<1>2. seen.evidence \subseteq evidence
  <2>1. seen.evidence \subseteq Clone.evidence
    BY <1>0, <1>1 DEF Settling, ReadsNow
  <2> QED
    BY <2>1 DEF Clone
<1>3. CASE ~Exists(r)
  <2>1. Proceed("fail") /\ UNCHANGED groups
    BY <1>3 DEF Regroup
  <2> QED
    BY <1>0, <1>1, <1>3, <2>1, ProceedRecord, CutOffSettles
<1>4. CASE Exists(r)
  <2>1. /\ \E keep \in Keeps(seen, Components(seen.evidence)) : Left(Ungrouped(keep), seen) /\ groups' = Rebuilt(seen, keep)
        /\ Proceed(IF engine.full THEN "detect" ELSE "expand")
    BY <1>0, <1>2, <1>4 DEF Regroup
  <2>2. PICK keep \in Keeps(seen, Components(seen.evidence)) : Left(Ungrouped(keep), seen) /\ groups' = Rebuilt(seen, keep)
    BY <2>1
  <2>3. /\ engine'.pc \in {"detect", "expand"} /\ engine'.properties = engine.properties
        /\ engine'.pc = "detect" => engine'.properties = {}
    BY <1>0, <1>1, <2>1, ProceedRecord DEF Aimed
  <2>4. /\ Clone'.groups = Rebuilt(seen, keep) /\ Clone'.evidence = Clone.evidence
        /\ Clone'.conflicts = Clone.conflicts /\ Clone'.conclusions = Clone.conclusions /\ Clone'.byKey = Clone.byKey
    BY <1>1, <2>2 DEF Clone
  <2>5. RunTypes(Clone')
    BY DEF RunInv, StoreTypes, RunTypes, Clone
  <2>6. Settling(Clone', engine', seen, WaitingItems, OwnItems)
    BY <1>0, <1>1, <2>2, <2>3, <2>4, <2>5, RegroupSettles
  <2> QED
    BY <1>1, <2>6, SameRequests DEF SettlingNow
<1> QED
  BY <1>3, <1>4

LEMMA ExpansionsHold ==
  ASSUME \A g \in DOMAIN groups : groups[g] \subseteq evidence,
         NEW given, NEW properties \in Expansions(given)
  PROVE  /\ given \subseteq properties
         /\ \A g \in DOMAIN groups : \A i, j \in groups[g] : Property[i] \in given => Property[j] \in properties
<1> DEFINE direct == {g \in DOMAIN groups : Touched(g, given)}
<1>1. PICK S \in SUBSET DOMAIN groups : direct \subseteq S /\ properties = given \cup PropertiesOf(S)
  BY DEF Expansions
<1>2. ASSUME NEW g \in DOMAIN groups, NEW i \in groups[g], NEW j \in groups[g], Property[i] \in given
      PROVE  Property[j] \in properties
  <2>1. Property[i] \in PropertiesOf({g})
    BY DEF PropertiesOf
  <2>2. g \in S
    BY <1>1, <1>2, <2>1 DEF Touched
  <2>3. Property[j] \in PropertiesOf(S)
    BY <2>2 DEF PropertiesOf
  <2> QED
    BY <1>1, <2>3
<1> QED
  BY <1>1, <1>2

LEMMA ExpandsSettle ==
  ASSUME Steady, NEW r \in Requests, Expand(r)
  PROVE  SettlingNow'
<1>0. /\ EngineRecord(engine) /\ Active /\ Settling(Clone, engine, seen, WaitingItems, OwnItems) /\ RunTypes(Clone)
      /\ Aimed /\ EvidenceExists
  BY SteadyFacts DEF SettlingNow, Steady, SettleInv, SoundInv, EvidenceInv
<1>1. /\ UNCHANGED <<evidence, groups, conflicts, conclusions, byKey, seen, pc, batch>> /\ Clone' = Clone
      /\ pc[r] = "compute" /\ engine.pc = "expand" /\ engine.properties # {}
  BY <1>0 DEF Expand, At, runVars, Clone, Aimed
<1>2. CASE ~Exists(r)
  <2>1. Proceed("fail")
    BY <1>2 DEF Expand
  <2> QED
    BY <1>0, <1>1, <1>2, <2>1, ProceedRecord, CutOffSettles
<1>3. CASE Exists(r)
  <2>1. PICK properties \in Expansions(engine.properties) :
          engine' = [engine EXCEPT !.pc = "detect", !.properties = properties]
    BY <1>3 DEF Expand
  <2>2. engine'.pc = "detect" /\ engine'.properties = properties
    BY <1>0, <2>1 DEF EngineRecord
  <2>3. /\ engine.properties \subseteq properties
        /\ \A g \in DOMAIN groups : \A i, j \in groups[g] :
             Property[i] \in engine.properties => Property[j] \in properties
    BY <1>0, ExpansionsHold DEF EvidenceExists
  <2>4. \A g \in DOMAIN Clone.groups : \A i, j \in Clone.groups[g] :
          Property[i] \in engine.properties => Property[j] \in engine'.properties
    BY <2>2, <2>3 DEF Clone
  <2>5. Settling(Clone, engine', seen, WaitingItems, OwnItems)
    BY <1>0, <1>1, <2>2, <2>3, <2>4, ExpandSettles
  <2> QED
    BY <1>1, <2>5, SameRequests DEF SettlingNow
<1> QED
  BY <1>2, <1>3

\* The computation ends.
LEMMA LeavingItems ==
  ASSUME Steady, NEW r \in Requests, pc[r] = "compute", To(r, "done"), UNCHANGED batch
  PROVE  WaitingItems' = WaitingItems /\ OwnItems' = {}
<1>0. Controls /\ \A q \in Requests : pc[q] = "compute" => q = r
  BY SteadyFacts DEF Steady, SettleInv, OneComputes
<1>1. \A q : q \in Adders("schedule")' <=> q \in Adders("schedule")
  BY <1>0 DEF Adders, Controls, To
<1>2. \A q : q \notin Adders("compute")'
  BY <1>0 DEF Adders, Controls, To
<1>3. Adders("schedule")' = Adders("schedule") /\ Adders("compute")' = {}
  BY <1>1, <1>2
<1> QED
  BY <1>3 DEF WaitingItems, OwnItems

LEMMA EndsSettle ==
  ASSUME Steady, NEW r \in Requests, Complete(r) \/ Fail(r)
  PROVE  SettlingNow'
<1>0. EngineRecord(engine) /\ Active /\ Settling(Clone, engine, seen, WaitingItems, OwnItems) /\ Resolved
  BY SteadyFacts DEF SettlingNow, Steady, SettleInv, SoundInv
<1>1. UNCHANGED <<evidence, groups, conflicts, conclusions, byKey, batch>> /\ Clone' = Clone /\ pc[r] = "compute"
  BY DEF Complete, Fail, At, data, Clone
<1>2. ASSUME Leaves(r)
      PROVE  engine'.pc = "idle" /\ WaitingItems' = WaitingItems /\ OwnItems' = {}
  BY <1>1, <1>2, LeavingItems DEF Leaves, Idle
<1>3. CASE Fail(r)
  <2>1. Leaves(r) /\ engine.pc = "fail"
    BY <1>3 DEF Fail, At
  <2>2. OwnItems = {}
    BY <1>0, <2>1 DEF Settling, Failing
  <2>3. Settling(Clone, engine', seen', WaitingItems, {})
    BY <1>0, <1>2, <2>1, <2>2, EndedSettles
  <2> QED
    BY <1>1, <1>2, <2>1, <2>3 DEF SettlingNow
<1>4. CASE Complete(r) /\ Exists(r)
  <2>1. Leaves(r) /\ engine.pc = "finish"
    BY <1>0, <1>4 DEF Complete, At
  <2>2. \A p \in Affected(engine.properties) : \A k \in OnProperty(Clone.conflicts, p) : Clone.conflicts[k].winner # NoId
    BY <1>0, <2>1 DEF Resolved, Open, About, OnProperty, Clone
  <2>3. Settling(Clone, engine', seen', WaitingItems, {})
    BY <1>0, <1>2, <2>1, <2>2, FinishedSettles
  <2> QED
    BY <1>1, <1>2, <2>1, <2>3 DEF SettlingNow
<1>5. CASE Complete(r) /\ ~Exists(r)
  <2>1. Proceed("fail") /\ UNCHANGED pc
    BY <1>5 DEF Complete
  <2> QED
    BY <1>0, <1>1, <1>5, <2>1, ProceedRecord, CutOffSettles
<1> QED
  BY <1>3, <1>4, <1>5

LEMMA ResolvesSettle ==
  ASSUME Steady, NEW r \in Requests, Resolve(r)
  PROVE  SettlingNow'
<1>0. /\ EngineRecord(engine) /\ Active /\ Settling(Clone, engine, seen, WaitingItems, OwnItems) /\ RunTypes(Clone)
      /\ EvidenceExists
  BY SteadyFacts DEF SettlingNow, Steady, SettleInv, EvidenceInv
<1>1. /\ UNCHANGED <<evidence, groups, conclusions, byKey, seen, pc, batch>>
      /\ pc[r] = "compute" /\ engine.pc = "resolve"
  BY DEF Resolve, At
<1>2. PICK k \in engine.todo :
        IF Exists(r) /\ Active /\ k \in DOMAIN conflicts /\ conflicts[k].evidence \cap evidence # {}
        THEN /\ conflicts' = [conflicts EXCEPT ![k].winner = Winner(conflicts[k].evidence \cap evidence)]
             /\ engine' = [engine EXCEPT !.todo = @ \ {k}]
        ELSE Proceed("fail") /\ UNCHANGED conflicts
  BY DEF Resolve
<1>3. k \in DOMAIN conflicts /\ conflicts[k].evidence \cap evidence = conflicts[k].evidence /\ conflicts[k].evidence # {}
  <2>1. k \in DOMAIN Clone.conflicts /\ Clone.conflicts[k].evidence # {}
    BY <1>0, <1>1 DEF Settling, Listed, Contested
  <2>2. k \in DOMAIN conflicts /\ conflicts[k].evidence # {}
    BY <2>1 DEF Clone
  <2>3. conflicts[k].evidence \subseteq evidence
    BY <1>0, <2>2 DEF EvidenceExists
  <2> QED
    BY <2>2, <2>3
<1>4. CASE ~Exists(r)
  <2>1. Proceed("fail") /\ UNCHANGED conflicts
    BY <1>2, <1>4
  <2> QED
    BY <1>0, <1>1, <1>4, <2>1, ProceedRecord, CutOffSettles
<1>5. CASE Exists(r)
  <2>1. /\ conflicts' = [conflicts EXCEPT ![k].winner = Winner(conflicts[k].evidence)]
        /\ engine' = [engine EXCEPT !.todo = @ \ {k}]
    BY <1>0, <1>2, <1>3, <1>5
  <2>2. engine'.pc = "resolve" /\ engine'.properties = engine.properties /\ engine'.todo \subseteq engine.todo
    BY <1>0, <1>1, <2>1 DEF EngineRecord
  <2>3. /\ k \in DOMAIN Clone.conflicts
        /\ Clone'.conflicts = [Clone.conflicts EXCEPT ![k].winner = Winner(Clone.conflicts[k].evidence)]
        /\ Clone'.evidence = Clone.evidence /\ Clone'.groups = Clone.groups
        /\ Clone'.conclusions = Clone.conclusions /\ Clone'.byKey = Clone.byKey
    BY <1>1, <1>3, <2>1 DEF Clone
  <2>4. Settling(Clone', engine', seen, WaitingItems, OwnItems)
    BY <1>0, <1>1, <2>2, <2>3, ResolveSettles
  <2> QED
    BY <1>1, <2>4, SameRequests DEF SettlingNow
<1> QED
  BY <1>4, <1>5

\* What is spared is what the computation is not about.
LEMMA SparedMap ==
  ASSUME Aimed, engine.pc # "idle", NEW f, \A k \in DOMAIN f : f[k].property \in Properties
  PROVE  /\ DOMAIN Spared(f) = {k \in DOMAIN f : f[k].property \notin Affected(engine.properties)}
         /\ \A k \in DOMAIN Spared(f) : Spared(f)[k] = f[k]
<1>1. CASE engine.full
  <2>1. Affected(engine.properties) = Properties
    BY <1>1 DEF Aimed, Affected
  <2>2. Spared(f) = Empty /\ DOMAIN Empty = {}
    BY <1>1 DEF Spared, Empty
  <2> QED
    BY <2>1, <2>2
<1>2. CASE ~engine.full
  <2>1. Affected(engine.properties) = engine.properties
    BY <1>2 DEF Aimed, Affected
  <2>2. Spared(f) = Without(f, {k \in DOMAIN f : f[k].property \in engine.properties})
    BY <1>2 DEF Spared
  <2> QED
    BY <2>1, <2>2 DEF Without
<1> QED
  BY <1>1, <1>2

LEMMA ReplacesSettle ==
  ASSUME Steady, NEW r \in Requests, ReplaceConflicts(r)
  PROVE  SettlingNow'
<1> DEFINE found == Detected(seen)
           valid == {k \in DOMAIN found : found[k].evidence \subseteq evidence}
<1>0. /\ EngineRecord(engine) /\ Active /\ Settling(Clone, engine, seen, WaitingItems, OwnItems) /\ RunTypes(Clone)
      /\ RunTypes(seen) /\ WaitingItems \in SUBSET Items /\ Aimed
  BY SteadyFacts DEF SettlingNow, Steady, SettleInv, SoundInv
<1>1. /\ UNCHANGED <<evidence, groups, conclusions, byKey, seen, pc, batch>>
      /\ pc[r] = "compute" /\ engine.pc = "replace" /\ Left(Undetected(seen), seen)
  BY DEF ReplaceConflicts, At
<1>2. DetectedAs(seen, engine.properties, found)
  BY <1>0, <1>1, DetectionFinds
<1>3. IF Exists(r) /\ Active /\ valid = DOMAIN found
      THEN conflicts' = Extend(Spared(conflicts), found) /\ Proceed("list")
      ELSE /\ Proceed("fail")
           /\ IF Exists(r) /\ Active /\ ~engine.full
              THEN \E before \in SUBSET valid :
                     conflicts' = Extend(Spared(conflicts), [k \in before |-> found[k]])
              ELSE UNCHANGED conflicts
  BY DEF ReplaceConflicts
<1> HIDE DEF found
<1>4. valid = DOMAIN found
  <2>1. seen.evidence \subseteq evidence
    <3>1. seen.evidence \subseteq Clone.evidence
      BY <1>0, <1>1 DEF Settling, ReadsNow
    <3> QED
      BY <3>1 DEF Clone
  <2>2. \A k \in DOMAIN found : found[k].evidence \subseteq seen.evidence
    BY <1>2 DEF DetectedAs, Group
  <2> QED
    BY <2>1, <2>2
<1>5. CASE ~Exists(r)
  <2>1. Proceed("fail") /\ UNCHANGED conflicts
    BY <1>3, <1>5
  <2> QED
    BY <1>0, <1>1, <1>5, <2>1, ProceedRecord, CutOffSettles
<1>6. CASE Exists(r)
  <2>1. conflicts' = Extend(Spared(conflicts), found) /\ Proceed("list")
    BY <1>0, <1>3, <1>4, <1>6
  <2>2. engine'.pc = "list" /\ engine'.properties = engine.properties
    BY <1>0, <2>1, ProceedRecord
  <2>3. /\ DOMAIN Spared(conflicts) = {k \in DOMAIN Clone.conflicts : Clone.conflicts[k].property \notin Affected(engine.properties)}
        /\ \A k \in DOMAIN Spared(conflicts) : Spared(conflicts)[k] = Clone.conflicts[k]
    <3>1. \A k \in DOMAIN conflicts : conflicts[k].property \in Properties
      BY <1>0 DEF RunTypes, Clone, Maps, ConflictType
    <3>2. Clone.conflicts = conflicts
      BY DEF Clone
    <3> QED
      BY <1>0, <1>1, <3>1, <3>2, SparedMap
  <2>4. /\ Clone'.conflicts = Extend(Spared(conflicts), found)
        /\ Clone'.evidence = Clone.evidence /\ Clone'.groups = Clone.groups
        /\ Clone'.conclusions = Clone.conclusions /\ Clone'.byKey = Clone.byKey
    BY <1>1, <2>1 DEF Clone
  <2>5. Settling(Clone', engine', seen, WaitingItems, OwnItems)
    BY <1>0, <1>1, <1>2, <2>2, <2>3, <2>4, ReplaceSettles
  <2> QED
    BY <1>1, <2>5, SameRequests DEF SettlingNow
<1> QED
  BY <1>5, <1>6

\* Conclusions on all the keys, over those that are spared.
LEMMA StoredApplied ==
  ASSUME NEW run, NEW properties, NEW keys, NEW names,
         NEW kept, DOMAIN kept = {k \in DOMAIN run.conclusions : run.conclusions[k].property \notin Affected(properties)},
         \A k \in DOMAIN kept : kept[k] = run.conclusions[k],
         NEW index, DOMAIN index \subseteq DOMAIN run.byKey, \A key \in DOMAIN index : index[key] = run.byKey[key],
         \A key \in DOMAIN run.byKey : key[1] \notin Affected(properties) => key \in DOMAIN index,
         NEW last \in [{names[k] : k \in keys} -> keys], \A id \in DOMAIN last : names[last[id]] = id,
         NEW next, next.byKey = Extend(index, [key \in keys |-> names[key]]),
         next.conclusions = Extend(kept, [id \in {names[k] : k \in keys} |-> Conclusion(last[id], run)])
  PROVE  Applied(run, properties, keys, names, next)
<1>1. /\ DOMAIN next.byKey = DOMAIN index \cup keys
      /\ \A key \in keys : next.byKey[key] = names[key]
      /\ \A key \in DOMAIN index : key \notin keys => next.byKey[key] = index[key]
  BY DEF Extend
<1>2. DOMAIN next.conclusions = DOMAIN kept \cup {names[k] : k \in keys}
  BY DEF Extend
<1>3. \A k \in {names[key] : key \in keys} : last[k] \in keys /\ names[last[k]] = k /\ next.conclusions[k] = Conclusion(last[k], run)
  BY DEF Extend
<1>4. \A k \in DOMAIN kept : k \notin {names[key] : key \in keys} => next.conclusions[k] = kept[k]
  BY DEF Extend
<1>5. ASSUME NEW k \in DOMAIN next.conclusions
      PROVE  \/ \E b \in keys : names[b] = k /\ next.conclusions[k] = Conclusion(b, run)
             \/ /\ k \in DOMAIN run.conclusions /\ next.conclusions[k] = run.conclusions[k]
                /\ run.conclusions[k].property \notin Affected(properties) /\ \A b \in keys : names[b] # k
  <2>1. CASE k \in {names[key] : key \in keys}
    BY <1>3, <2>1
  <2>2. CASE k \notin {names[key] : key \in keys}
    BY <1>2, <1>4, <2>2
  <2> QED
    BY <2>1, <2>2
<1>6. \A key \in keys : key \in DOMAIN next.byKey /\ next.byKey[key] = names[key] /\ names[key] \in DOMAIN next.conclusions
  BY <1>1, <1>2
<1>7. \A key \in DOMAIN next.byKey \ keys : key \in DOMAIN run.byKey /\ next.byKey[key] = run.byKey[key]
  BY <1>1
<1>8. \A key \in DOMAIN run.byKey : key[1] \notin Affected(properties) =>
        key \in DOMAIN next.byKey /\ (key \notin keys => next.byKey[key] = run.byKey[key])
  BY <1>1
<1>9. \A k \in DOMAIN run.conclusions : run.conclusions[k].property \notin Affected(properties) => k \in DOMAIN next.conclusions
  BY <1>2
<1> QED
  BY <1>5, <1>6, <1>7, <1>8, <1>9 DEF Applied

\* A conclusion is on its key.
LEMMA ConclusionParts ==
  ASSUME NEW run, NEW properties, NEW key \in Keys(run, properties)
  PROVE  /\ KeyOf(Conclusion(key, run)) = key /\ Conclusion(key, run).evidence \subseteq run.evidence
         /\ Conclusion(key, run).conflict \in DOMAIN run.conflicts \cup {NoId}
<1>1. key = <<key[1], key[2]>>
  BY DEF Keys
<1>2. Conclusion(key, run).conflict \in DOMAIN run.conflicts \cup {NoId}
  BY DEF Conclusion, ConflictOn
<1>3. Conclusion(key, run).evidence \subseteq run.evidence
  BY DEF Conclusion, Group
<1> QED
  BY <1>1, <1>2, <1>3 DEF Conclusion, KeyOf

\* The index keeps the keys of what the computation is not about.
LEMMA SparedIndex ==
  ASSUME Aimed, engine.pc # "idle", Maps(conclusions, Ids, ConclusionType),
         Maps(byKey, Properties \X ResourceIds, Ids),
         NEW dropped, dropped = {KeyOf(conclusions[k]) : k \in DOMAIN conclusions \ DOMAIN Spared(conclusions)},
         NEW index, index = IF engine.full THEN Empty ELSE Without(byKey, dropped)
  PROVE  /\ DOMAIN index \subseteq DOMAIN byKey /\ \A key \in DOMAIN index : index[key] = byKey[key]
         /\ \A key \in DOMAIN byKey : key[1] \notin Affected(engine.properties) => key \in DOMAIN index
<1>1. \A key \in DOMAIN byKey : key[1] \in Properties
  BY DEF Maps
<1>2. CASE engine.full
  <2>1. Affected(engine.properties) = Properties
    BY <1>2 DEF Aimed, Affected
  <2>2. index = Empty /\ DOMAIN Empty = {}
    BY <1>2 DEF Empty
  <2> QED
    BY <1>1, <2>1, <2>2
<1>3. CASE ~engine.full
  <2>1. \A k \in DOMAIN conclusions : conclusions[k].property \in Properties
    BY DEF Maps, ConclusionType
  <2>2. DOMAIN Spared(conclusions) = {k \in DOMAIN conclusions : conclusions[k].property \notin Affected(engine.properties)}
    BY <2>1, SparedMap
  <2>3. \A key \in dropped : key[1] \in Affected(engine.properties)
    BY <2>2 DEF KeyOf
  <2>4. index = Without(byKey, dropped)
    BY <1>3
  <2> QED
    BY <2>3, <2>4 DEF Without
<1> QED
  BY <1>2, <1>3

LEMMA AppliesSettle ==
  ASSUME Steady, NEW r \in Requests, ApplyConclusions(r)
  PROVE  SettlingNow'
<1> DEFINE keys == Keys(seen, engine.properties)
           names == Names(keys, seen)
           kept == Spared(conclusions)
           dropped == {KeyOf(conclusions[k]) : k \in DOMAIN conclusions \ DOMAIN kept}
           index == IF engine.full THEN Empty ELSE Without(byKey, dropped)
           valid == {key \in keys : Applicable(Conclusion(key, seen), names[key], index)}
           apply(done) == /\ conclusions' \in Stored(done, names, kept)
                          /\ byKey' = Extend(index, [key \in done |-> names[key]])
<1>0. /\ EngineRecord(engine) /\ Active /\ Settling(Clone, engine, seen, WaitingItems, OwnItems)
      /\ RunTypes(seen) /\ WaitingItems \in SUBSET Items /\ Aimed /\ StoreTypes
  BY SteadyFacts DEF SettlingNow, Steady, SettleInv, SoundInv, RunInv
<1>1. /\ UNCHANGED <<evidence, groups, conflicts, seen, pc, batch>>
      /\ pc[r] = "compute" /\ engine.pc = "conclude" /\ Left(Unknown(keys, seen), seen)
  BY DEF ApplyConclusions, At
<1>2. Named(seen, keys, names)
  BY <1>0, <1>1, NamesGiven
<1>3. /\ seen.evidence \subseteq evidence /\ seen.conflicts = conflicts
      /\ seen.conclusions = conclusions /\ seen.byKey = byKey
  <2>1. /\ seen.evidence \subseteq Clone.evidence /\ seen.conflicts = Clone.conflicts
        /\ seen.conclusions = Clone.conclusions /\ seen.byKey = Clone.byKey
    BY <1>0, <1>1 DEF Settling, ReadsNow
  <2> QED
    BY <2>1 DEF Clone
<1>4. /\ DOMAIN index \subseteq DOMAIN byKey /\ \A key \in DOMAIN index : index[key] = byKey[key]
      /\ \A key \in DOMAIN byKey : key[1] \notin Affected(engine.properties) => key \in DOMAIN index
  <2> HIDE DEF kept
  <2>1. Maps(conclusions, Ids, ConclusionType) /\ Maps(byKey, Properties \X ResourceIds, Ids) /\ engine.pc # "idle"
    BY <1>0, <1>1 DEF StoreTypes
  <2>2. dropped = {KeyOf(conclusions[k]) : k \in DOMAIN conclusions \ DOMAIN Spared(conclusions)}
    BY DEF kept
  <2>3. index = IF engine.full THEN Empty ELSE Without(byKey, dropped)
    OBVIOUS
  <2> HIDE DEF dropped, index
  <2> QED
    BY <1>0, <2>1, <2>2, <2>3, SparedIndex
<1>5. /\ DOMAIN kept = {k \in DOMAIN conclusions : conclusions[k].property \notin Affected(engine.properties)}
      /\ \A k \in DOMAIN kept : kept[k] = conclusions[k]
  <2>1. \A k \in DOMAIN conclusions : conclusions[k].property \in Properties
    BY <1>0 DEF StoreTypes, Maps, ConclusionType
  <2> QED
    BY <1>0, <1>1, <2>1, SparedMap
<1>6. IF Exists(r) /\ Active /\ valid = keys
      THEN apply(keys) /\ counted' = Cardinality(DOMAIN conclusions') /\ Proceed("finish")
      ELSE /\ Proceed("fail")
           /\ UNCHANGED counted
           /\ IF Exists(r) /\ Active /\ ~engine.full
              THEN \E before \in SUBSET valid : apply(before)
              ELSE UNCHANGED <<conclusions, byKey>>
  BY DEF ApplyConclusions
<1> HIDE DEF keys, names, kept, dropped, index
<1>7. valid = keys
  <2>1. ASSUME NEW key \in keys
        PROVE  Applicable(Conclusion(key, seen), names[key], index)
    <3>1. /\ KeyOf(Conclusion(key, seen)) = key /\ Conclusion(key, seen).evidence \subseteq seen.evidence
          /\ Conclusion(key, seen).conflict \in DOMAIN seen.conflicts \cup {NoId}
      BY ConclusionParts DEF keys
    <3>2. key \in DOMAIN index => index[key] = names[key]
      BY <1>2, <1>3, <1>4 DEF Named
    <3>3. Conclusion(key, seen).evidence \subseteq evidence
      BY <1>3, <3>1
    <3>4. Conclusion(key, seen).conflict = NoId \/ Conclusion(key, seen).conflict \in DOMAIN conflicts
      BY <1>3, <3>1
    <3> QED
      BY <3>1, <3>2, <3>3, <3>4 DEF Applicable
  <2> QED
    BY <2>1
<1>8. CASE ~Exists(r)
  <2>1. Proceed("fail") /\ UNCHANGED <<conclusions, byKey>>
    BY <1>6, <1>8
  <2> QED
    BY <1>0, <1>1, <1>8, <2>1, ProceedRecord, CutOffSettles
<1>9. CASE Exists(r)
  <2>1. apply(keys) /\ Proceed("finish")
    BY <1>0, <1>6, <1>7, <1>9
  <2>2. engine'.pc = "finish" /\ engine'.properties = engine.properties
    BY <1>0, <2>1, ProceedRecord
  <2>3. PICK last \in [{names[k] : k \in keys} -> keys] :
          /\ \A id \in DOMAIN last : names[last[id]] = id
          /\ conclusions' = Extend(kept, [id \in {names[k] : k \in keys} |-> Conclusion(last[id], seen)])
    BY <2>1 DEF Stored
  <2>4. /\ Clone'.conclusions = Extend(kept, [id \in {names[k] : k \in keys} |-> Conclusion(last[id], seen)])
        /\ Clone'.byKey = Extend(index, [key \in keys |-> names[key]])
        /\ Clone'.evidence = Clone.evidence /\ Clone'.groups = Clone.groups /\ Clone'.conflicts = Clone.conflicts
    BY <1>1, <2>1, <2>3 DEF Clone
  <2>5. Applied(seen, engine.properties, keys, names, Clone')
    BY <1>3, <1>4, <1>5, <2>3, <2>4, StoredApplied
  <2>6. Settling(Clone', engine', seen, WaitingItems, OwnItems)
    BY <1>0, <1>1, <1>2, <2>2, <2>4, <2>5, ApplySettles DEF keys
  <2> QED
    BY <1>1, <2>6, SameRequests DEF SettlingNow
<1> QED
  BY <1>8, <1>9

LEMMA StepSettle ==
  ASSUME SettleInv, RunInv', [Next]_vars
  PROVE  SettleInv'
<1>1. SoundInv' /\ EvidenceInv'
  BY StepSound, StepEvidence DEF SettleInv
<1>2. Controls /\ OneComputes
  BY DEF SettleInv, SoundInv, RunInv
<1>3. OneComputes'
  BY <1>2, StepOne
<1>4. ASSUME Converging'
      PROVE  SettlingNow'
  <2>1. Steady
    BY <1>2, <1>4, StillConverging DEF Steady
  <2>2. CASE UNCHANGED vars
    <3>1. SettlingNow
      BY <2>1, SteadyFacts
    <3>2. UNCHANGED <<evidence, groups, conflicts, conclusions, byKey, engine, seen, pc, batch>>
      BY <2>2 DEF vars, runVars
    <3> QED
      BY <3>1, <3>2, SameRequests, QuietSettles
  <2>3. ASSUME NEW r \in Requests, Serve(r) \/ Expire(r)
        PROVE  SettlingNow'
    BY <1>4, <2>1, <2>3, OthersSettle, StartsSettle, ReadsSettle, RegroupsSettle, ExpandsSettle, ReplacesSettle,
       ResolvesSettle, AppliesSettle, EndsSettle DEF Serve, Compute
  <2> QED
    BY <2>2, <2>3 DEF Next
<1> QED
  BY <1>1, <1>3, <1>4 DEF SettleInv

\* In a settled run a conclusion is disputed as its items are, and its conflict is won by its winner.
LEMMA SettledAnswer ==
  ASSUME NEW run, RunTypes(run), Contested(run), NEW p, SettledOn(p, run), NEW key \in KeysOn(p, run),
         NEW c, c = Conclusion(key, run).conflict
  PROVE  /\ c # NoId <=> Disputed(Group(key, run))
         /\ c # NoId => /\ c \in DOMAIN run.conflicts /\ KeyOf(run.conflicts[c]) = key
                        /\ run.conflicts[c].winner = Winner(Group(key, run))
<1>1. c = IF ConflictOn(key, run) = {} THEN NoId ELSE CHOOSE k \in ConflictOn(key, run) : TRUE
  BY DEF Conclusion
<1>2. DOMAIN run.conflicts \subseteq Ids /\ NoId \notin Ids
  BY FusionAssumption DEF FusionAssumption, RunTypes, Maps
<1>3. key[1] = p
  BY DEF KeysOn
<1>4. CASE ConflictOn(key, run) = {}
  <2>1. ~Disputed(Group(key, run))
    BY <1>4 DEF SettledOn, DetectedOn
  <2> QED
    BY <1>1, <1>4, <2>1
<1>5. CASE ConflictOn(key, run) # {}
  <2>1. c \in ConflictOn(key, run)
    BY <1>1, <1>5
  <2>2. c \in DOMAIN run.conflicts /\ KeyOf(run.conflicts[c]) = key
    BY <2>1 DEF ConflictOn
  <2>3. c \in OnProperty(run.conflicts, p)
    BY <1>3, <2>2 DEF OnProperty, KeyOf
  <2>4. Disputed(Group(key, run)) /\ run.conflicts[c].evidence = Group(key, run) /\ run.conflicts[c].winner # NoId
    BY <2>2, <2>3 DEF SettledOn, DetectedOn
  <2>5. run.conflicts[c].winner = Winner(Group(key, run))
    BY <2>2, <2>4 DEF Contested
  <2> QED
    BY <1>2, <2>2, <2>4, <2>5
<1> QED
  BY <1>4, <1>5

HeldOf(c) == [property |-> c.property, resource |-> c.resource, evidence |-> c.evidence, winner |-> c.winner,
              disputed |-> c.conflict # NoId]
FusedOf(key, run) == [property |-> key[1], resource |-> key[2], evidence |-> Group(key, run),
                      winner |-> Winner(Group(key, run)), disputed |-> Disputed(Group(key, run))]

LEMMA SettledRecord ==
  ASSUME NEW run, RunTypes(run), Contested(run), NEW p, SettledOn(p, run), NEW key \in KeysOn(p, run)
  PROVE  HeldOf(Conclusion(key, run)) = FusedOf(key, run)
<1> DEFINE c == Conclusion(key, run)
<1>1. c.property = key[1] /\ c.resource = key[2] /\ c.evidence = Group(key, run) /\ c.winner = Winner(Group(key, run))
  BY DEF Conclusion
<1>2. c.conflict # NoId <=> Disputed(Group(key, run))
  BY SettledAnswer
<1>3. (c.conflict # NoId) \in BOOLEAN /\ Disputed(Group(key, run)) \in BOOLEAN
  BY DEF Disputed
<1>4. (c.conflict # NoId) = Disputed(Group(key, run))
  BY <1>2, <1>3
<1> HIDE DEF c
<1>5. HeldOf(c) = FusedOf(key, run)
  BY <1>1, <1>4 DEF HeldOf, FusedOf
<1> QED
  BY <1>5 DEF c

LEMMA SettleStart ==
  ASSUME Init
  PROVE  SettleInv
<1>1. SoundInv
  BY RunInit DEF Init, SoundInv, Scheduled, Aimed, Resolved, Concluded, Idle
<1>2. EvidenceInv
  BY DEF Init, EvidenceInv, EvidenceExists, Shape, ItemsOnly, Empty, Nothing
<1>3. engine.pc = "idle" /\ \A r \in Requests : pc[r] \in {"begin", "done"}
  BY DEF Init, Idle
<1>4. OneComputes
  BY <1>3 DEF OneComputes
<1>5. WaitingItems = {} /\ OwnItems = {}
  <2>1. Adders("schedule") = {} /\ Adders("compute") = {}
    BY <1>3 DEF Adders
  <2> QED
    BY <2>1 DEF WaitingItems, OwnItems
<1>6. /\ Clone.evidence = {} /\ DOMAIN Clone.groups = {} /\ DOMAIN Clone.conflicts = {}
      /\ DOMAIN Clone.conclusions = {} /\ DOMAIN Clone.byKey = {}
  BY DEF Init, Clone, Empty
<1>7. Partition(Clone) /\ Ties(Clone) /\ Contested(Clone) /\ Grouped(Clone) = {}
  BY <1>6 DEF Partition, Ties, Contested, Grouped
<1>8. /\ Placed(Clone, engine, {}, {}) /\ ReadsNow(Clone, engine, seen, {}) /\ AimedAt(Clone, engine, {})
      /\ Failing(engine, {}) /\ Stages(Clone, engine, {}) /\ Listed(Clone, engine)
  BY <1>3, <1>6, <1>7 DEF Placed, ReadsNow, AimedAt, Failing, Stages, Listed, Late
<1>9. Clean(Clone, {} \cup {})
  <2>1. \A p : KeysOn(p, Clone) = {}
    BY <1>6 DEF KeysOn
  <2>2. \A p : OnProperty(Clone.conclusions, p) = {} /\ OnProperty(Clone.conflicts, p) = {}
    BY <1>6 DEF OnProperty
  <2>3. \A p : Exact(p, Clone)
    BY <2>1, <2>2 DEF Exact
  <2>4. \A p : SettledOn(p, Clone)
    BY <2>1, <2>2 DEF SettledOn, DetectedOn
  <2> QED
    BY <2>3, <2>4 DEF Clean
<1>10. Settling(Clone, engine, seen, {}, {})
  BY <1>7, <1>8, <1>9 DEF Settling
<1> QED
  BY <1>1, <1>2, <1>4, <1>5, <1>10 DEF SettleInv, SettlingNow

\* What the invariant says of a run whose requests are all answered.
LEMMA SettledAtLast ==
  ASSUME SettleInv, Converging, AllDone
  PROVE  /\ RunTypes(Clone) /\ Contested(Clone)
         /\ \A p \in Properties : Exact(p, Clone) /\ SettledOn(p, Clone)
<1>1. RunTypes(Clone)
  BY DEF SettleInv, SoundInv, RunInv, StoreTypes, RunTypes, Clone
<1>2. WaitingItems \cup OwnItems = {}
  <2>1. Adders("schedule") = {} /\ Adders("compute") = {}
    BY DEF Adders, AllDone
  <2> QED
    BY <2>1 DEF WaitingItems, OwnItems
<1>3. Contested(Clone) /\ Clean(Clone, {})
  BY <1>2 DEF SettleInv, SettlingNow, Settling
<1>4. Unsettled({}, Clone) = {}
  BY DEF Unsettled
<1> QED
  BY <1>1, <1>3, <1>4 DEF Clean

LEMMA SettledConverged ==
  ASSUME SettleInv, Converging, AllDone
  PROVE  Held = Fused
<1>0. /\ RunTypes(Clone) /\ Contested(Clone)
      /\ \A p \in Properties : Exact(p, Clone) /\ SettledOn(p, Clone)
  BY SettledAtLast
<1>1. Clone.conclusions = conclusions /\ \A k \in DOMAIN conclusions : conclusions[k].property \in Properties
  <2>1. Clone.conclusions = conclusions
    BY DEF Clone
  <2> QED
    BY <1>0, <2>1 DEF RunTypes, Maps, ConclusionType
<1>2. Held = {HeldOf(conclusions[k]) : k \in DOMAIN conclusions}
  BY DEF Held, HeldOf
<1>3. Fused = {FusedOf(key, Clone) : key \in Keys(Clone, {})}
  BY DEF Fused, FusedOf
<1>4. ASSUME NEW p \in Properties, NEW key \in KeysOn(p, Clone)
      PROVE  /\ HeldOf(Conclusion(key, Clone)) = FusedOf(key, Clone) /\ key \in Keys(Clone, {})
  <2>1. key \in Keys(Clone, {})
    BY DEF KeysOn, Keys, Affected
  <2> QED
    BY <1>0, <2>1, SettledRecord
<1>5. ASSUME NEW k \in DOMAIN conclusions
      PROVE  HeldOf(conclusions[k]) \in Fused
  <2>1. k \in OnProperty(Clone.conclusions, conclusions[k].property)
    BY <1>1 DEF OnProperty
  <2>2. PICK key \in KeysOn(conclusions[k].property, Clone) : conclusions[k] = Conclusion(key, Clone)
    BY <1>0, <1>1, <2>1 DEF Exact
  <2> QED
    BY <1>1, <1>3, <1>4, <2>2
<1>6. ASSUME NEW key \in Keys(Clone, {})
      PROVE  FusedOf(key, Clone) \in Held
  <2>1. PICK p \in Properties : key \in KeysOn(p, Clone)
    BY DEF Keys, KeysOn, Affected
  <2>2. /\ Clone.byKey[key] \in DOMAIN Clone.conclusions
        /\ Clone.conclusions[Clone.byKey[key]] = Conclusion(key, Clone)
    BY <1>0, <2>1 DEF Exact
  <2> QED
    BY <1>1, <1>2, <1>4, <2>1, <2>2
<1> QED
  BY <1>2, <1>3, <1>5, <1>6

LEMMA SettledConflicts ==
  ASSUME SettleInv, Converging, AllDone
  PROVE  ConflictsSettled
<1>0. /\ RunTypes(Clone) /\ Contested(Clone)
      /\ \A p \in Properties : Exact(p, Clone) /\ SettledOn(p, Clone)
  BY SettledAtLast
<1>1. Clone.conclusions = conclusions /\ Clone.conflicts = conflicts
  BY DEF Clone
<1>2. /\ \A k \in DOMAIN conclusions : conclusions[k].property \in Properties
      /\ \A k \in DOMAIN conflicts : conflicts[k].property \in Properties
  BY <1>0, <1>1 DEF RunTypes, Maps, ConclusionType, ConflictType
<1>3. ASSUME NEW k \in DOMAIN conflicts
      PROVE  conflicts[k].winner # NoId
  BY <1>0, <1>1, <1>2 DEF SettledOn, OnProperty
<1>4. ASSUME NEW k \in DOMAIN conclusions, conclusions[k].conflict # NoId
      PROVE  /\ conclusions[k].conflict \in DOMAIN conflicts
             /\ KeyOf(conflicts[conclusions[k].conflict]) = KeyOf(conclusions[k])
             /\ conflicts[conclusions[k].conflict].winner = conclusions[k].winner
  <2>1. k \in OnProperty(Clone.conclusions, conclusions[k].property)
    BY <1>1 DEF OnProperty
  <2>2. PICK key \in KeysOn(conclusions[k].property, Clone) : conclusions[k] = Conclusion(key, Clone)
    BY <1>0, <1>1, <1>2, <2>1 DEF Exact
  <2>3. /\ conclusions[k].conflict \in DOMAIN Clone.conflicts
        /\ KeyOf(Clone.conflicts[conclusions[k].conflict]) = key
        /\ Clone.conflicts[conclusions[k].conflict].winner = Winner(Group(key, Clone))
    BY <1>0, <1>2, <1>4, <2>2, SettledAnswer
  <2>4. key \in Keys(Clone, {})
    BY <1>2 DEF KeysOn, Keys, Affected
  <2>5. KeyOf(conclusions[k]) = key
    BY <2>2, <2>4, ConclusionParts
  <2>6. conclusions[k].winner = Winner(Group(key, Clone))
    BY <2>2 DEF Conclusion
  <2> QED
    BY <1>1, <2>3, <2>5, <2>6
<1> QED
  BY <1>3, <1>4 DEF ConflictsSettled

\* Racing, recomputing and cut-off computations settle on what one computation
\* of everything reaches, for any items, links, policy and requests: once all are
\* answered, if nothing was removed and no addition was cut off, the run's
\* conclusions are those its evidence and groups lead to, and its conflicts are
\* resolved and won by the conclusions that name them.
THEOREM ComputationsDoSettle == Spec => [](Removed = {} /\ AdditionsLast => ComputationsSettle)
<1>1. Init => SettleInv
  BY SettleStart
<1>2. SettleInv /\ RunInv' /\ [Next]_vars => SettleInv'
  BY StepSettle
<1>3. SettleInv => (Removed = {} /\ AdditionsLast => ComputationsSettle)
  BY SettledConverged, SettledConflicts DEF ComputationsSettle, Converged, ConflictsSettled, Converging
<1> QED
  BY <1>1, <1>2, <1>3, RunInvariant, PTL DEF Spec
=============================================================================
