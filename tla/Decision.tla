------------------------------- MODULE Decision -------------------------------
(***************************************************************************)
(* What Fusion concludes about one property of one resource: the evidence   *)
(* it selects (fusion/decision) and how sure it is (fusion/confidence),     *)
(* under the default policy, while evidence arrives, is removed and grows   *)
(* old, and while the correlation of the evidence lags behind.  How the      *)
(* steps of computations interleave, and how evidence that is not yet in a   *)
(* group may be concluded under a key of its own, is FusionRun.              *)
(* Confidence is a fraction of One; the rounding of floating point numbers   *)
(* is left out.                                                             *)
(* An operator Op_Word is a plausible bug in Op; no specification uses it.  *)
(***************************************************************************)
EXTENDS Integers, Sequences, FiniteSets

CONSTANTS
  Topics,         \* properties
  Precedence,     \* by topic: its rule's sources, the most trusted first
  EvidenceOf,     \* by topic: the items there may be, in the order of their identifiers
  Window,         \* the freshness window, in steps of the clock
  Latest          \* bound on the clock

SourceTypes == {"VICI", "XFRM", "OPERATOR", "PACKET_PARSER", "FLOW_ANALYZER", "SECURITY_RULE",
                "ML_CLASSIFIER", "ML_ANOMALY", "SHAP"}
Statuses == <<"VERIFIED_GATEWAY", "OBSERVED", "DERIVED", "INFERRED", "UNKNOWN">>

\* What ingestion accepts: confidence is a percentage.
ASSUME DecisionConstants ==
  /\ Window \in Nat \ {0} /\ Latest \in Nat
  /\ \A t \in Topics :
       /\ Precedence[t] \in Seq(SourceTypes)
       /\ DOMAIN EvidenceOf[t] \subseteq Nat \ {0} /\ IsFiniteSet(DOMAIN EvidenceOf[t])
       /\ \A i \in DOMAIN EvidenceOf[t] :
            LET e == EvidenceOf[t][i]
            IN  /\ e.source \in SourceTypes /\ \E k \in 1..5 : e.status = Statuses[k]
                /\ e.confidence \in 0..100 /\ e.observed \in Int

VARIABLES
  topic,
  present,    \* the items, by number
  clock,
  concluded   \* the conclusion stored last, with the quality of its breakdown

decisionVars == <<topic, present, clock, concluded>>

Item(i) == EvidenceOf[topic][i]
Place(x, list) == IF \E k \in DOMAIN list : list[k] = x THEN CHOOSE k \in DOMAIN list : list[k] = x ELSE Len(list) + 1

\* Percentages of the default policy.
SourceTrust(source) ==
  CASE source \in {"VICI", "XFRM", "OPERATOR"} -> 100
    [] source = "PACKET_PARSER" -> 95
    [] source = "FLOW_ANALYZER" -> 90
    [] source = "SECURITY_RULE" -> 85
    [] source \in {"ML_CLASSIFIER", "ML_ANOMALY"} -> 75
    [] source = "SHAP" -> 70
StatusTrust(status) ==
  CASE status = "VERIFIED_GATEWAY" -> 100
    [] status = "OBSERVED" -> 95
    [] status = "DERIVED" -> 80
    [] status = "INFERRED" -> 70
    [] status = "UNKNOWN" -> 25

----------------------------------------------------------------------------
\* Selection: status, precedence of the source, trust, confidence, freshness, identifier.

SeenAt(i, t) == IF Item(i).observed > t THEN t ELSE Item(i).observed
Order(i, t) ==
  <<0 - Place(Item(i).status, Statuses), 0 - Place(Item(i).source, Precedence[topic]),
    SourceTrust(Item(i).source), Item(i).confidence, SeenAt(i, t), 0 - i>>
Better(i, j, t) ==
  \E k \in 1..6 : Order(i, t)[k] > Order(j, t)[k] /\ \A l \in 1..(k - 1) : Order(i, t)[l] = Order(j, t)[l]

Winner_Majority(S, t) ==
  CHOOSE i \in S : \A j \in S \ {i} :
    LET support(k) == Cardinality({l \in S : Item(l).value = Item(k).value})
    IN support(i) > support(j) \/ (support(i) = support(j) /\ Better(i, j, t))
Winner(S, t) == CHOOSE i \in S : \A j \in S \ {i} : Better(i, j, t)

----------------------------------------------------------------------------
\* Confidence.

One == 12000000
IsML(source) == source \in {"ML_CLASSIFIER", "ML_ANOMALY", "SHAP"}
Known(S) == {i \in S : Item(i).status # "UNKNOWN"}

\* The share of the known items that say what the winner says.
Agreement_OfStatus(S, w) ==
  IF Known(S) = {} THEN 0
  ELSE (12 * Cardinality({i \in Known(S) : Item(i).status = Item(w).status})) \div Cardinality(Known(S))
Agreement(S, w) ==
  IF Known(S) = {} THEN 0
  ELSE (12 * Cardinality({i \in Known(S) : Item(i).value = Item(w).value})) \div Cardinality(Known(S))

Freshness_Age(w, t) ==
  LET age == t - Item(w).observed
  IN IF age <= 0 THEN 0 ELSE IF age >= Window THEN 12 ELSE (12 * age) \div Window
Freshness(w, t) ==
  LET age == t - Item(w).observed
  IN IF age <= 0 THEN 12 ELSE IF age >= Window THEN 0 ELSE (12 * (Window - age)) \div Window

\* Of the members of the resource's correlation group; it may have no group.
CorrelationQuality(group) ==
  IF group = {} THEN 70 ELSE IF Cardinality(group) > 1 THEN 100 ELSE 85

\* What the winner's source, status, agreement, age and correlation q are worth.
Common(S, w, t, q) ==
  12 * (30 * SourceTrust(Item(w).source) + 25 * StatusTrust(Item(w).status) + 10 * q)
  + 2000 * Agreement(S, w) + 1500 * Freshness(w, t)

\* The probability of a model bounds its conclusion instead of scaling it.
Calculate_Common(S, w, t, q) ==
  IF IsML(Item(w).source) THEN 100 * Common(S, w, t, q) ELSE Common(S, w, t, q) * Item(w).confidence
Calculate(S, w, t, q) ==
  LET scaled  == Common(S, w, t, q) * Item(w).confidence
      bounded == IF Item(w).confidence * 1200 < Common(S, w, t, q) THEN Item(w).confidence * 120000 ELSE 100 * Common(S, w, t, q)
  IN IF IsML(Item(w).source) THEN bounded ELSE scaled

Band(value) ==
  CASE 4 * value < One -> "VERY_LOW"
    [] 4 * value >= One /\ 2 * value < One -> "LOW"
    [] 2 * value >= One /\ 4 * value < 3 * One -> "MEDIUM"
    [] 4 * value >= 3 * One /\ 10 * value < 9 * One -> "HIGH"
    [] 10 * value >= 9 * One -> "VERY_HIGH"

NothingConcluded == [winner |-> 0, value |-> "", confidence |-> 0, band |-> "VERY_LOW", quality |-> 70]
Conclusion(S, t, q) ==
  IF S = {} THEN NothingConcluded
  ELSE LET w == Winner(S, t)
           c == Calculate(S, w, t, q)
       IN [winner |-> w, value |-> Item(w).value, confidence |-> c, band |-> Band(c), quality |-> q]

----------------------------------------------------------------------------
DecisionInit ==
  /\ topic \in Topics /\ present = {} /\ clock = 0 /\ concluded = NothingConcluded

\* The evidence on other properties of the resource.
Companion == 0

\* A computation correlates what is stored, then concludes from a later read.
\* What was stored in between is in no group yet, and a removal in between
\* deletes the group: of the evidence read, any may be in the group, or none,
\* as always for a type of resource that the correlation does not know.
Compute(S, t) ==
  \E q \in {CorrelationQuality(group) : group \in SUBSET (S \cup {Companion})} :
    concluded' = Conclusion(S, t, q)

\* Every change of the evidence is followed by a computation.
Evidence(S) ==
  /\ present' = S /\ Compute(S, clock)
  /\ UNCHANGED <<topic, clock>>
Arrive(i) == i \notin present /\ Evidence(present \cup {i})
Withdraw(i) == i \in present /\ Evidence(present \ {i})

\* A computation of the same evidence, at once or later.
ComputeAgain ==
  /\ clock' \in {clock, clock + 1} /\ clock' <= Latest
  /\ Compute(present, clock')
  /\ UNCHANGED <<topic, present>>

DecisionNext ==
  \/ \E i \in DOMAIN EvidenceOf[topic] : Arrive(i) \/ Withdraw(i)
  \/ ComputeAgain

DecisionSpec == DecisionInit /\ [][DecisionNext]_decisionVars

----------------------------------------------------------------------------
\* Properties.

\* Types.
DecisionTypeOK ==
  /\ topic \in Topics /\ clock \in 0..Latest
  /\ present \subseteq DOMAIN EvidenceOf[topic]
  /\ concluded.winner \in present \cup {0} /\ concluded.confidence \in 0..One
  /\ concluded.quality \in {70, 85, 100}

\* A conclusion is never surer than the evidence it rests on: neither agreement
\* nor trust in a source makes more of a weak observation or of a weak probability
\* of the classifier, and old or disputed evidence makes less of it
\* (TestCalculateMLNeverBoostsProbability).
NeverSurerThanEvidence ==
  concluded.winner # 0 =>
    LET w == concluded.winner
    IN /\ concluded.confidence <= Item(w).confidence * 120000
       /\ concluded.confidence <= 100 * Common(present, w, clock, concluded.quality)

\* Evidence that does not win decides nothing: it may come and go without
\* changing which evidence the conclusion rests on.
LosersDecideNothing ==
  [][clock' = clock /\ concluded.winner # 0 =>
       /\ present' = present \ {concluded.winner} \/ concluded'.winner \in {concluded.winner} \cup (present' \ present)
       /\ concluded'.winner = concluded.winner => concluded'.value = concluded.value]_decisionVars

\* What d owes to a better correlation than c had: a tenth of the difference.
CorrelationGain(c, d) == IF d.quality > c.quality THEN 12000 * (d.quality - c.quality) ELSE 0

\* Known evidence against a conclusion that stands does not make it surer, and
\* evidence for it does not make it less sure, but for what a correlation that
\* changed meanwhile gives or takes (TestCalculateConflictReducesAgreement).
DissentNeverHelps ==
  [][\A i \in present' \ present :
       present # {} /\ concluded'.winner = concluded.winner /\ Item(i).status # "UNKNOWN" =>
         IF Item(i).value = concluded.value
         THEN concluded.confidence <= concluded'.confidence + CorrelationGain(concluded', concluded)
         ELSE concluded'.confidence <= concluded.confidence + CorrelationGain(concluded, concluded')]_decisionVars

\* Without new evidence a conclusion that stands never gets surer, but for what
\* a better correlation is worth: evidence stored while a computation runs is
\* concluded before it is in a group, and the next computation finds it in one.
AgeNeverHelps ==
  [][present' = present /\ concluded'.winner = concluded.winner =>
       concluded'.confidence <= concluded.confidence + CorrelationGain(concluded, concluded')]_decisionVars

\* Only the evidence that wins decides, and what disputes or ages it never
\* makes it surer than a better correlation does.
EvidenceDecides == LosersDecideNothing /\ DissentNeverHelps /\ AgeNeverHelps
==============================================================================
