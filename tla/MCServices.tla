------------------------------ MODULE MCServices ------------------------------
(***************************************************************************)
(* The services that share no state with one another, side by side: the    *)
(* event stream, the reports, the inference jobs, the lab, the sources, the *)
(* memory of the Fusion store, the workspace, the assessments and the score, *)
(* what Fusion decides, the configuration, the start of live captures and    *)
(* the reading of conclusions.                                               *)
(* The interleaving of two of them shows nothing that one of them alone does *)
(* not, so a behaviour is about one of them, its focus, while the others     *)
(* stay as they start.                                                       *)
(***************************************************************************)
EXTENDS EventStream, Reports, MLJob, LabRunner, Intake, FusionStore, Workspace,
        Assessments, SecurityScore, Decision, RuntimeConfig, LiveStart, ConclusionPages

VARIABLE focus

Foci == {"stream", "reports", "jobs", "lab", "intake", "store", "workspace", "assessments", "score",
         "decision", "config", "starts", "pages"}

Others ==
  /\ UNCHANGED focus
  /\ focus # "stream"      => UNCHANGED streamVars
  /\ focus # "reports"     => UNCHANGED reportVars
  /\ focus # "jobs"        => UNCHANGED jobVars
  /\ focus # "lab"         => UNCHANGED labVars
  /\ focus # "intake"      => UNCHANGED intakeVars
  /\ focus # "store"       => UNCHANGED storeVars
  /\ focus # "workspace"   => UNCHANGED workspaceVars
  /\ focus # "assessments" => UNCHANGED assessmentVars
  /\ focus # "score"       => UNCHANGED scoreVars
  /\ focus # "decision"    => UNCHANGED decisionVars
  /\ focus # "config"      => UNCHANGED configVars
  /\ focus # "starts"      => UNCHANGED liveStartVars
  /\ focus # "pages"       => UNCHANGED pageVars

\* The score starts from every profile when a behaviour is about it, and a
\* decision is about each topic.
ScoreStarts == ScoreInit /\ (focus # "score" => Seen(facts) = {})
DecisionStarts == DecisionInit /\ (focus # "decision" => topic = "mode")

ServicesInit ==
  /\ focus \in Foci
  /\ StreamInit /\ ReportInit /\ JobInit /\ LabInit /\ IntakeInit /\ StoreInit
  /\ WorkspaceInit /\ AssessmentInit /\ ScoreStarts /\ DecisionStarts /\ ConfigInit /\ LiveStartInit
  /\ PagesInit

ServicesNext ==
  \/ focus = "stream"      /\ StreamNext     /\ Others
  \/ focus = "reports"     /\ ReportNext     /\ Others
  \/ focus = "jobs"        /\ JobNext        /\ Others
  \/ focus = "lab"         /\ LabNext        /\ Others
  \/ focus = "intake"      /\ IntakeNext     /\ Others
  \/ focus = "store"       /\ StoreNext      /\ Others
  \/ focus = "workspace"   /\ WorkspaceNext  /\ Others
  \/ focus = "assessments" /\ AssessmentNext /\ Others
  \/ focus = "score"       /\ ScoreNext      /\ Others
  \/ focus = "decision"    /\ DecisionNext   /\ Others
  \/ focus = "config"      /\ ConfigNext     /\ Others
  \/ focus = "starts"      /\ LiveStartNext  /\ Others
  \/ focus = "pages"       /\ PagesNext      /\ Others

servicesVars == <<focus, streamVars, reportVars, jobVars, labVars, intakeVars, storeVars,
                  workspaceVars, assessmentVars, scoreVars, decisionVars, configVars, liveStartVars,
                  pageVars>>

\* No fair action of a service is enabled before its first step, so its fairness
\* asks nothing of the behaviours that are about another one.
ServicesSpec ==
  /\ ServicesInit /\ [][ServicesNext]_servicesVars
  /\ StreamFairness /\ ReportFairness /\ JobFairness /\ LabFairness /\ WorkspaceFairness
  /\ ConfigFairness /\ LiveStartFairness

\* The types of the service a behaviour is about.
ServicesTypeOK ==
  /\ focus \in Foci
  /\ focus = "stream"      => StreamTypeOK
  /\ focus = "reports"     => ReportTypeOK
  /\ focus = "jobs"        => JobTypeOK
  /\ focus = "lab"         => LabTypeOK
  /\ focus = "intake"      => IntakeTypeOK
  /\ focus = "store"       => StoreTypeOK
  /\ focus = "workspace"   => WorkspaceTypeOK
  /\ focus = "assessments" => AssessmentTypeOK
  /\ focus = "score"       => ScoreTypeOK
  /\ focus = "decision"    => DecisionTypeOK
  /\ focus = "config"      => ConfigTypeOK
  /\ focus = "starts"      => LiveStartTypeOK
  /\ focus = "pages"       => PagesTypeOK

\* A stream that ended is forgotten by both event services, and one that goes on
\* is served.
StreamsAreServed == HandlerReleases /\ WaitingIsTaken

\* What a service has begun comes to its end: reports, starts of jobs,
\* experiments, calls of the workspace, captures and changes of the
\* configuration.
ServicesSettle ==
  ReportSettles /\ StartReturns /\ ExperimentEnds /\ CallsReturn /\ SlotIsFreed /\ ChangesArrive

----------------------------------------------------------------------------
\* Constants.

MCCategoryOf == [conflict |-> "FUSION_CONFLICT", source |-> "SOURCE_READY", evidence |-> "none"]

\* What VICI and XFRM report of a gateway: its IKE SA, the kernel state of the
\* CHILD SA, and the configuration of the connection.  Evidence added by hand
\* may name the authentication of the SA itself, as the tests do.
MCResources == {"ike", "xfrm", "connection"}
MCTypeOf == [ike |-> "VICI_IKE_SA", xfrm |-> "XFRM_STATE", connection |-> "VICI_CONNECTION"]

Proposal(encr, integ) == [encr |-> encr, integ |-> integ, ke |-> {"DH19"}, prf |-> {"SHA256"}]
Strong   == {Proposal(<<"AES256GCM16">>, {})}
WithNull == Strong \cup {Proposal(<<"ENCR0">>, {"SHA256"})}
NoLength == {Proposal(<<"AESCBC">>, {"SHA256"})}

MCValuesOf ==
  [ ike  |-> [ikeVersion |-> {"IKEV2", "IKEV1"}, ikeCipher |-> {"AES256", "AESGCM16", "AES128GCM8", "NULL"},
              ikeIntegrity |-> {"SHA256", "MD5", "AEAD"}, ikeKey |-> {256, 192},
              group |-> {"DH19", "DH2"}, auth |-> {"PSK"}],
    xfrm |-> [cipher |-> {"AES256GCM16", "AESCBC", "NULL"}, integrity |-> {"SHA256", "AEAD"}, key |-> {256}, tag |-> {128, 64},
              replay |-> {"true", "false"}, window |-> {32}, direction |-> {"IN", "OUT"}],
    connection |-> [auth |-> {"PSK", "NONE"}, ikeProposals |-> {Strong, WithNull, NoLength},
                    pfs |-> {"true", "false"}, ikeLifetime |-> {3600, 90000}] ]

\* Nothing concluded, a well configured gateway, a weak one, and one of which
\* only the IKE SA was observed.
MCProfiles ==
  LET only(given) == [r \in MCResources |-> [fact \in DOMAIN MCValuesOf[r] |->
                       IF r \in DOMAIN given /\ fact \in DOMAIN given[r] THEN given[r][fact] ELSE Unknown(fact)]]
      ikeGood == [ikeVersion |-> "IKEV2", ikeCipher |-> "AES256", ikeIntegrity |-> "SHA256", group |-> "DH19",
                  auth |-> "PSK"]
  IN { only(<<>>), only([ike |-> ikeGood]),
       only([ ike |-> ikeGood,
              xfrm |-> [cipher |-> "AES256GCM16", replay |-> "true", window |-> 32, direction |-> "IN"],
              connection |-> [auth |-> "PSK", ikeProposals |-> Strong, pfs |-> "true", ikeLifetime |-> 3600] ]),
       only([ ike |-> [ikeVersion |-> "IKEV1", ikeCipher |-> "NULL", group |-> "DH2"],
              xfrm |-> [cipher |-> "AESCBC", key |-> 256, replay |-> "false"],
              connection |-> [auth |-> "NONE", ikeProposals |-> WithNull, ikeLifetime |-> 90000] ]) }

\* What the sources say of the mode of a CHILD SA and of the class of its traffic.
MCPrecedence == [mode  |-> <<"VICI", "XFRM", "PACKET_PARSER">>, class |-> <<"OPERATOR", "ML_CLASSIFIER">>]
Piece(from, how, sure, seen, says) ==
  [source |-> from, status |-> how, confidence |-> sure, observed |-> seen, value |-> says]
MCEvidenceOf ==
  [ mode  |-> << Piece("VICI", "VERIFIED_GATEWAY", 100, 1, "TRANSPORT"), Piece("XFRM", "VERIFIED_GATEWAY", 100, 0, "TUNNEL"),
                 Piece("PACKET_PARSER", "DERIVED", 72, 2, "TUNNEL"), Piece("PACKET_PARSER", "OBSERVED", 95, 0, "TRANSPORT"),
                 Piece("VICI", "UNKNOWN", 40, 0, "null") >>,
    class |-> << Piece("ML_CLASSIFIER", "INFERRED", 46, 0, "VIDEO"), Piece("ML_CLASSIFIER", "INFERRED", 46, 1, "VOIP"),
                 Piece("ML_ANOMALY", "INFERRED", 98, 0, "VIDEO"), Piece("OPERATOR", "OBSERVED", 60, 2, "VOIP"),
                 Piece("ML_CLASSIFIER", "UNKNOWN", 30, 1, "null") >> ]

MCSetters == <<"ml_timeout", "recomputation_timeout", "event_buffer">>
==============================================================================
