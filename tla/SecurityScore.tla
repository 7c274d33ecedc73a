--------------------------- MODULE SecurityScore ---------------------------
(***************************************************************************)
(* The assessment of an analysis (security/assessment.go and the scoring    *)
(* half of core/security/service.go): each resource that a conclusion of    *)
(* Fusion names is assessed alone by fourteen controls, the lowest score of *)
(* a security association is the headline, and core/risk reads the headline *)
(* as a risk.  A conclusion appears, changes or disappears in one step and  *)
(* the assessment is made again from what there is then.                    *)
(*                                                                         *)
(* A value is the token algorithmToken leaves; "" is a fact nobody reported. *)
(* A number reads as 0 both when it is missing and when it is zero: that is *)
(* what scalar and parseNumber make of it.  Weights are multiplied by 12, so *)
(* that a category divides evenly among its controls.                       *)
(* An operator Op_Word is a plausible bug in Op; no specification uses it.  *)
(***************************************************************************)
EXTENDS Integers, FiniteSets
LOCAL INSTANCE Functions

CONSTANTS
  Resources,   \* what conclusions are about
  TypeOf,      \* its resource type
  ValuesOf,    \* by resource: the facts its sources report, and their values
  Profiles,    \* conclusions to start from
  MaxChanges   \* bound on conclusions that differ from the initial ones

VARIABLES
  facts,       \* by resource and fact: the value concluded
  metadata,    \* metadata.exposure and policy.metadata_protection_required
  perScope,    \* the assessment of every scope
  changes

scoreVars == <<facts, metadata, perScope, changes>>

Tokens  == {"ikeVersion", "ikeCipher", "ikeIntegrity", "auth", "group", "cipher", "integrity",
            "mode", "protocol", "state", "direction", "selectors"}
Flags   == {"consistent", "pfs", "freshExchange", "replay"}
Lengths == {"ikeKey", "ikeTag", "ikeLifetime", "key", "tag", "lifetime", "window"}
Lists   == {"ikeProposals", "childProposals"}
Facts   == Tokens \cup Flags \cup Lengths \cup Lists
Unknown(fact) == CASE fact \in Tokens \cup Flags -> "" [] fact \in Lengths -> 0 [] fact \in Lists -> {}
NoFacts == [fact \in Facts |-> Unknown(fact)]
FactsOf(known) == [fact \in Facts |-> IF fact \in DOMAIN known THEN known[fact] ELSE Unknown(fact)]

Controls == {"IKE_VERSION", "IKE_SUITE", "CHILD_SUITE", "AUTH", "IKE_POLICY", "CHILD_POLICY", "DH",
             "SA_PARAMETERS", "IKE_LIFETIME", "CHILD_LIFETIME", "REPLAY", "PFS_CONFIG", "PFS_EXCHANGE", "METADATA"}
Categories ==
  << [weight |-> 25, controls |-> {"IKE_SUITE", "CHILD_SUITE", "IKE_POLICY", "CHILD_POLICY"}],
     [weight |-> 15, controls |-> {"AUTH"}],
     [weight |-> 15, controls |-> {"IKE_VERSION", "DH"}],
     [weight |-> 10, controls |-> {"PFS_CONFIG", "PFS_EXCHANGE"}],
     [weight |-> 10, controls |-> {"REPLAY"}],
     [weight |-> 10, controls |-> {"IKE_LIFETIME", "CHILD_LIFETIME"}],
     [weight |-> 10, controls |-> {"SA_PARAMETERS"}],
     [weight |-> 5,  controls |-> {"METADATA"}] >>

IsIKE(type)   == type \in {"IKE_SA", "VICI_IKE_SA", "VICI_CONNECTION"}
IsChild(type) == type \in {"CHILD_SA", "VICI_CHILD_SA", "XFRM_STATE"}
IsSA(type)    == type \in {"IKE_SA", "VICI_IKE_SA", "CHILD_SA", "VICI_CHILD_SA", "XFRM_STATE"}

\* Every profile says of each fact that a resource reports what it is, or that
\* it is unknown; the two scopes that are no resources have names of their own.
ASSUME ScoreConstants ==
  /\ IsFiniteSet(Resources) /\ {"analysis", "metadata"} \cap Resources = {} /\ MaxChanges \in Nat
  /\ \A r \in Resources : DOMAIN ValuesOf[r] \subseteq Facts
  /\ \A p \in Profiles :
       /\ p = [r \in Resources |-> [fact \in DOMAIN ValuesOf[r] |-> p[r][fact]]]
       /\ \A r \in Resources : \A fact \in DOMAIN ValuesOf[r] : p[r][fact] \in ValuesOf[r][fact] \cup {Unknown(fact)}

----------------------------------------------------------------------------
\* The controls.

\* What most of them come to: not about this resource, not known, or decided.
Verdict(applies, known, good) ==
  IF ~applies THEN "NOT_APPLICABLE" ELSE IF ~known THEN "UNKNOWN" ELSE IF good THEN "PASS" ELSE "FAIL"

\* Kind of a cipher, and the key and tag lengths its name carries.
Cipher(token) ==
  CASE token \in {"DES", "3DES", "NULL", "ENCR0"} -> [kind |-> "WEAK", key |-> 0, tag |-> 0]
    [] token = "AESCBC"       -> [kind |-> "CBC", key |-> 0, tag |-> 0]
    [] token = "AES256"       -> [kind |-> "CBC", key |-> 256, tag |-> 0]
    [] token = "AESGCM16"     -> [kind |-> "GCM", key |-> 0, tag |-> 128]
    [] token = "AES128GCM8"   -> [kind |-> "GCM", key |-> 128, tag |-> 64]
    [] token = "AES256GCM16"  -> [kind |-> "GCM", key |-> 256, tag |-> 128]
    [] OTHER                  -> [kind |-> "", key |-> 0, tag |-> 0]

Integrity(token) ==
  Verdict(TRUE, token \in {"MD5", "SHA1", "SHA256", "SHA384", "SHA512"}, token \notin {"MD5", "SHA1"})

\* A reported length overrides the one in the name of the cipher.
AssessSuite_IntegrityOfAEAD(cipher, integrity, key, tag) ==
  LET named == Cipher(cipher)
      bits  == IF key # 0 THEN key ELSE named.key
      icv   == IF tag # 0 THEN tag ELSE named.tag
  IN IF named.kind = "" THEN "UNKNOWN"
     ELSE IF named.kind = "WEAK" THEN "FAIL"
     ELSE IF bits \notin {128, 256} THEN Verdict(TRUE, bits # 0, FALSE)
     ELSE IF named.kind = "CBC" \/ integrity # "" THEN Integrity(integrity)
     ELSE Verdict(TRUE, icv # 0, icv >= 96)
AssessSuite(cipher, integrity, key, tag) ==
  LET named == Cipher(cipher)
      bits  == IF key # 0 THEN key ELSE named.key
      icv   == IF tag # 0 THEN tag ELSE named.tag
  IN IF named.kind = "" THEN "UNKNOWN"
     ELSE IF named.kind = "WEAK" THEN "FAIL"
     ELSE IF bits \notin {128, 256} THEN Verdict(TRUE, bits # 0, FALSE)
     ELSE IF named.kind = "CBC" THEN Integrity(integrity)
     ELSE Verdict(TRUE, icv # 0, icv >= 96 /\ integrity \in {"", "AEAD", "NONE"})

AssessIKESuite(type, f) ==
  IF ~IsIKE(type) /\ f.ikeCipher = "" THEN "NOT_APPLICABLE"
  ELSE AssessSuite(f.ikeCipher, f.ikeIntegrity, f.ikeKey, f.ikeTag)

AssessChildSuite(type, f) ==
  IF type = "METADATA" \/ (IsIKE(type) /\ f.cipher = "") THEN "NOT_APPLICABLE"
  ELSE AssessSuite(f.cipher, f.integrity, f.key, f.tag)

AssessIKEVersion(type, f) ==
  Verdict(type # "METADATA" /\ (IsChild(type) => f.ikeVersion # ""),
          f.ikeVersion \in {"IKEV1", "IKEV2"}, f.ikeVersion = "IKEV2")

AssessAuthentication(type, f) ==
  Verdict(IsIKE(type) \/ f.auth # "", f.auth \in {"PSK", "PUBKEY", "EAP", "NONE", "NULL"}, f.auth \notin {"NONE", "NULL"})

GroupStatus(group) ==
  Verdict(TRUE, group \in {"DH1", "DH2", "DH5", "DH14", "DH19", "DH31"}, group \notin {"DH1", "DH2", "DH5"})
AssessDH(type, f) ==
  IF type = "METADATA" \/ (IsChild(type) /\ f.group = "") THEN "NOT_APPLICABLE" ELSE GroupStatus(f.group)

\* A set of configured proposals, each with its ciphers in order and its sets of
\* integrity algorithms, groups and PRFs.  One weak algorithm fails them all; one
\* that is missing, unclear or without a key length leaves them unknown.  The
\* first cipher decides whether the proposal needs an integrity algorithm.
Empty(p) == p.encr = <<>> /\ p.integ = {}
NeedsIntegrity(p) == p.encr # <<>> /\ Cipher(p.encr[1]).kind # "GCM"
Weak(p, ike) ==
  \/ \E c \in Range(p.encr) : Cipher(c).kind = "WEAK" \/ (Cipher(c).kind = "GCM" /\ Cipher(c).tag < 96)
  \/ NeedsIntegrity(p) /\ \E i \in p.integ : Integrity(i) = "FAIL"
  \/ \E g \in p.ke : GroupStatus(g) = "FAIL"
  \/ ike /\ p.prf \cap {"MD5", "SHA1"} # {}
Unclear(p, ike) ==
  \/ \E c \in Range(p.encr) : Cipher(c).kind = "" \/ Cipher(c).key = 0
  \/ NeedsIntegrity(p) /\ (p.integ = {} \/ \E i \in p.integ : Integrity(i) = "UNKNOWN")
  \/ \E g \in p.ke : GroupStatus(g) = "UNKNOWN"
  \/ ike /\ (p.prf = {} \/ ~p.prf \subseteq {"SHA256", "SHA384", "SHA512"})

AssessConfiguredProposals(proposals, ike) ==
  IF proposals = {} THEN "NOT_APPLICABLE"
  ELSE IF \E p \in proposals : ~Empty(p) /\ Weak(p, ike) THEN "FAIL"
  ELSE IF \E p \in proposals : Empty(p) \/ Unclear(p, ike) THEN "UNKNOWN"
  ELSE "PASS"

AssessSAParameters(type, f) ==
  Verdict(IsChild(type) \/ f.mode # "" \/ f.protocol # "",
          "" \notin {f.mode, f.protocol, f.state, f.direction, f.selectors},
          /\ f.mode \in {"TUNNEL", "TRANSPORT"} /\ f.protocol \in {"ESP", "AH"} /\ f.state = "INSTALLED"
          /\ f.consistent # "false")

AssessLifetime(applies, seconds, limit) == Verdict(applies \/ seconds # 0, seconds # 0, seconds <= limit)

AssessReplay(type, f) ==
  Verdict((IsChild(type) \/ f.replay # "") /\ f.direction # "OUT",
          f.replay # "" /\ f.window # 0, f.replay = "true")

AssessPFS(type, f) == Verdict(IsChild(type) \/ f.pfs # "", f.pfs # "", f.pfs = "true")
AssessFreshExchange(f) == Verdict(f.freshExchange # "", TRUE, f.freshExchange = "true")

AssessMetadata(type, m) ==
  IF ~m.known /\ type \notin {"", "ANALYSIS", "METADATA"} THEN "NOT_APPLICABLE"
  ELSE Verdict(TRUE, m.known, ~m.required)

Rules(type, f, m) ==
  [c \in Controls |->
     CASE c = "IKE_VERSION"    -> AssessIKEVersion(type, f)
       [] c = "IKE_SUITE"      -> AssessIKESuite(type, f)
       [] c = "CHILD_SUITE"    -> AssessChildSuite(type, f)
       [] c = "AUTH"           -> AssessAuthentication(type, f)
       [] c = "IKE_POLICY"     -> AssessConfiguredProposals(f.ikeProposals, TRUE)
       [] c = "CHILD_POLICY"   -> AssessConfiguredProposals(f.childProposals, FALSE)
       [] c = "DH"             -> AssessDH(type, f)
       [] c = "SA_PARAMETERS"  -> AssessSAParameters(type, f)
       [] c = "IKE_LIFETIME"   -> AssessLifetime(IsIKE(type), f.ikeLifetime, 86400)
       [] c = "CHILD_LIFETIME" -> AssessLifetime(IsChild(type), f.lifetime, 3600)
       [] c = "REPLAY"         -> AssessReplay(type, f)
       [] c = "PFS_CONFIG"     -> AssessPFS(type, f)
       [] c = "PFS_EXCHANGE"   -> AssessFreshExchange(f)
       [] c = "METADATA"       -> AssessMetadata(type, m)]

\* The failures that cap the score.  A proposal is searched for two spellings.
IsCriticalFailure(c, f) ==
  \/ c = "AUTH" /\ f.auth \in {"NONE", "NULL"}
  \/ c = "IKE_SUITE" /\ f.ikeCipher \in {"NULL", "ENCR0"}
  \/ c = "CHILD_SUITE" /\ f.cipher \in {"NULL", "ENCR0"}
  \/ c = "IKE_POLICY" /\ \E p \in f.ikeProposals : Range(p.encr) \cap {"ENCRNULL", "ENCR0"} # {}
  \/ c = "CHILD_POLICY" /\ \E p \in f.childProposals : Range(p.encr) \cap {"ENCRNULL", "ENCR0"} # {}

\* What the controls of a category with this status weigh together: the
\* category shares its weight among its controls that apply.
Share_Decided(k, status, value) ==
  LET applicable == {c \in k.controls : status[c] \in {"PASS", "FAIL"}}
  IN IF applicable = {}
     THEN IF value = "UNKNOWN" /\ \E c \in k.controls : status[c] # "NOT_APPLICABLE" THEN 12 * k.weight ELSE 0
     ELSE ((12 * k.weight) \div Cardinality(applicable)) * Cardinality({c \in applicable : status[c] = value})
Share(k, status, value) ==
  LET applicable == {c \in k.controls : status[c] # "NOT_APPLICABLE"}
  IN IF applicable = {} THEN 0
     ELSE ((12 * k.weight) \div Cardinality(applicable)) * Cardinality({c \in applicable : status[c] = value})

WeightOf(status, value) ==
  LET of(i) == Share(Categories[i], status, value)
  IN of(1) + of(2) + of(3) + of(4) + of(5) + of(6) + of(7) + of(8)

Assess(type, f, m) ==
  LET status == Rules(type, f, m)
  IN [type |-> type, status |-> status,
      critical |-> \E c \in Controls : status[c] = "FAIL" /\ IsCriticalFailure(c, f),
      passed |-> WeightOf(status, "PASS"), failed |-> WeightOf(status, "FAIL"),
      unknown |-> WeightOf(status, "UNKNOWN")]

----------------------------------------------------------------------------
\* Scores are fractions <<a, b>> of 100.
Leq(x, y) == x[1] * y[2] <= y[1] * x[2]

Available(a) == a.passed + a.failed > 0
Capped(a) == a.critical /\ 5 * a.passed > 2 * (a.passed + a.failed)
Score_Uncapped(a) == <<a.passed, a.passed + a.failed>>
Score(a) == IF Capped(a) THEN <<2, 5>> ELSE <<a.passed, a.passed + a.failed>>
Lower(a) == <<a.passed, a.passed + a.failed + a.unknown>>
Upper(a) == <<a.passed + a.unknown, a.passed + a.failed + a.unknown>>

Grade(score) ==
  CASE Leq(<<9, 10>>, score) -> "A"
    [] Leq(<<8, 10>>, score) /\ ~Leq(<<9, 10>>, score) -> "B"
    [] Leq(<<7, 10>>, score) /\ ~Leq(<<8, 10>>, score) -> "C"
    [] Leq(<<6, 10>>, score) /\ ~Leq(<<7, 10>>, score) -> "D"
    [] ~Leq(<<6, 10>>, score) -> "F"

\* core/risk: the level of 100 minus the score.
Level(score) ==
  CASE Leq(<<9, 10>>, score) -> "LOW"
    [] Leq(<<7, 10>>, score) /\ ~Leq(<<9, 10>>, score) -> "MODERATE"
    [] Leq(<<5, 10>>, score) /\ ~Leq(<<7, 10>>, score) -> "HIGH"
    [] ~Leq(<<5, 10>>, score) -> "CRITICAL"

\* deploymentAssessment: the scopes the headline is the lowest of.  Once an SA
\* was seen only the score of an SA will do.
Candidates_AnyScored(assessed) ==
  LET scored == {s \in DOMAIN assessed : Available(assessed[s])}
      associations == {s \in scored : IsSA(assessed[s].type)}
  IN IF associations # {} THEN associations ELSE scored
Candidates(assessed) ==
  LET scored == {s \in DOMAIN assessed : Available(assessed[s])}
  IN IF \E s \in DOMAIN assessed : IsSA(assessed[s].type)
     THEN {s \in scored : IsSA(assessed[s].type)} ELSE scored
Headlines(assessed) ==
  {s \in Candidates(assessed) : \A t \in Candidates(assessed) : Leq(Score(assessed[s]), Score(assessed[t]))}

\* The resources with a conclusion are scopes; without any the analysis is one.
\* Metadata belongs to the analysis, or else has a scope of its own.
Seen(fs) == {r \in Resources : \E fact \in DOMAIN fs[r] : fs[r][fact] # Unknown(fact)}
Unseen == [known |-> FALSE, required |-> FALSE]
Evaluated(fs, m) ==
  LET assess(scope) ==
        CASE scope \in Resources   -> Assess(TypeOf[scope], FactsOf(fs[scope]), IF TypeOf[scope] = "ANALYSIS" THEN m ELSE Unseen)
          [] scope = "analysis"    -> Assess("ANALYSIS", NoFacts, m)
          [] scope = "metadata"    -> Assess("METADATA", NoFacts, m)
      alone == Seen(fs) = {}
      apart == ~alone /\ m.known /\ \A r \in Seen(fs) : TypeOf[r] # "ANALYSIS"
  IN [scope \in Seen(fs) \cup (IF alone THEN {"analysis"} ELSE {}) \cup (IF apart THEN {"metadata"} ELSE {}) |-> assess(scope)]

ScoreInit ==
  /\ facts \in Profiles
  /\ metadata = Unseen /\ changes = 0
  /\ perScope = Evaluated(facts, metadata)

\* A conclusion about a fact of a resource appears, changes or is withdrawn.
Conclude(r, fact, value) ==
  /\ changes < MaxChanges /\ facts[r][fact] # value
  /\ changes' = changes + 1
  /\ facts' = [facts EXCEPT ![r][fact] = value]
  /\ perScope' = Evaluated(facts', metadata)
  /\ UNCHANGED metadata

ConcludeMetadata(m) ==
  /\ changes < MaxChanges /\ m # metadata
  /\ changes' = changes + 1
  /\ metadata' = m
  /\ perScope' = Evaluated(facts, metadata')
  /\ UNCHANGED facts

ScoreNext ==
  \/ \E r \in Resources : \E fact \in DOMAIN ValuesOf[r] :
       \E value \in ValuesOf[r][fact] \cup {Unknown(fact)} : Conclude(r, fact, value)
  \/ \E m \in [known : BOOLEAN, required : BOOLEAN] : ConcludeMetadata(m)

ScoreSpec == ScoreInit /\ [][ScoreNext]_scoreVars

----------------------------------------------------------------------------
\* Properties.

\* Types.
ScoreTypeOK ==
  /\ metadata \in [known : BOOLEAN, required : BOOLEAN] /\ changes \in 0..MaxChanges
  /\ \A r \in Resources : \A fact \in DOMAIN ValuesOf[r] : facts[r][fact] \in ValuesOf[r][fact] \cup {Unknown(fact)}
  /\ \A s \in DOMAIN perScope :
       /\ perScope[s].status \in [Controls -> {"PASS", "FAIL", "UNKNOWN", "NOT_APPLICABLE"}]
       /\ {perScope[s].passed, perScope[s].failed, perScope[s].unknown} \subseteq Nat

\* Deciding a control that was unknown never widens the bounds of a resource.
Settles(a, b) == \A c \in Controls : a.status[c] # "UNKNOWN" \/ b.status[c] = "NOT_APPLICABLE" => b.status[c] = a.status[c]
BoundsTighten ==
  [][\A s \in DOMAIN perScope \cap DOMAIN perScope' :
       perScope[s] # perScope'[s] /\ Settles(perScope[s], perScope'[s]) =>
         Leq(Lower(perScope[s]), Lower(perScope'[s])) /\ Leq(Upper(perScope'[s]), Upper(perScope[s]))]_scoreVars

\* One more fact about a resource takes no decision back: what failed goes on
\* failing, unless the length of a key or tag corrects the one in the cipher's
\* name, and what passed stays decided.  A state that turns out to be outbound
\* has no replay protection to assess.
Learns(r, fact) ==
  /\ facts[r][fact] = Unknown(fact) /\ UNCHANGED metadata
  /\ facts'[r] = [facts[r] EXCEPT ![fact] = facts'[r][fact]] /\ facts'[r] # facts[r]
DecisionsStand ==
  [][\A r \in Resources \cap DOMAIN perScope \cap DOMAIN perScope' :
       \A fact \in DOMAIN facts[r], c \in {c \in Controls : perScope[r].status[c] # perScope'[r].status[c]} :
         Learns(r, fact) /\ perScope[r].status[c] \in {"PASS", "FAIL"} =>
           \/ perScope[r].status[c] = "PASS" /\ perScope'[r].status[c] = "FAIL"
           \/ c \in {"IKE_SUITE", "CHILD_SUITE"} /\ fact \in {"ikeKey", "ikeTag", "key", "tag"} /\ perScope'[r].status[c] = "PASS"
           \/ c = "REPLAY" /\ fact = "direction"]_scoreVars

\* To learn more narrows the score and takes back no decision.
KnowledgeHelps == BoundsTighten /\ DecisionsStand

\* A critical failure of a security association is the deployment's: the headline
\* is at most 40, its grade F and its risk CRITICAL, whatever the others score.
CriticalIsHeadline ==
  (\E s \in DOMAIN perScope : IsSA(perScope[s].type) /\ perScope[s].critical) =>
    /\ Headlines(perScope) # {}
    /\ \A h \in Headlines(perScope) :
         LET score == Score(perScope[h]) IN Leq(score, <<2, 5>>) /\ Grade(score) = "F" /\ Level(score) = "CRITICAL"

\* Once a security association was seen, the headline is the score of one, and no
\* association scores lower: metadata or a connection never stands in for it.
HeadlineIsWorst ==
  \A h \in Headlines(perScope) : \A s \in DOMAIN perScope : IsSA(perScope[s].type) =>
    IsSA(perScope[h].type) /\ (Available(perScope[s]) => Leq(Score(perScope[h]), Score(perScope[s])))

\* The headline hides nothing that is worse than it.
HeadlineIsHonest == CriticalIsHeadline /\ HeadlineIsWorst
============================================================================
