--------------------------- MODULE MCServicesProofs ---------------------------
(***************************************************************************)
(* The services side by side keep what each of them keeps alone: a         *)
(* behaviour of ServicesSpec is one of every service, in which the one in   *)
(* focus moves and the others stutter.  So what is proved of a service     *)
(* holds of the composition that the run services checks.                  *)
(***************************************************************************)
EXTENDS MCServices, JobsProofs, AssessmentsProofs, ServicesProofs

Specs ==
  /\ StreamSpec
  /\ ReportSpec
  /\ JobSpec
  /\ LabSpec
  /\ IntakeSpec
  /\ StoreSpec
  /\ WorkspaceSpec
  /\ AssessmentSpec
  /\ ScoreSpec
  /\ DecisionSpec
  /\ ConfigSpec
  /\ LiveStartSpec
  /\ PagesSpec

\* A step of the composition is a step or a stutter of each service.
LEMMA StepOfEach ==
  ASSUME [ServicesNext]_servicesVars
  PROVE  /\ [StreamNext]_streamVars
         /\ [ReportNext]_reportVars
         /\ [JobNext]_jobVars
         /\ [LabNext]_labVars
         /\ [IntakeNext]_intakeVars
         /\ [StoreNext]_storeVars
         /\ [WorkspaceNext]_workspaceVars
         /\ [AssessmentNext]_assessmentVars
         /\ [ScoreNext]_scoreVars
         /\ [DecisionNext]_decisionVars
         /\ [ConfigNext]_configVars
         /\ [LiveStartNext]_liveStartVars
         /\ [PagesNext]_pageVars
<1>1. [StreamNext]_streamVars
  BY DEF ServicesNext, Others, servicesVars
<1>2. [ReportNext]_reportVars
  BY DEF ServicesNext, Others, servicesVars
<1>3. [JobNext]_jobVars
  BY DEF ServicesNext, Others, servicesVars
<1>4. [LabNext]_labVars
  BY DEF ServicesNext, Others, servicesVars
<1>5. [IntakeNext]_intakeVars
  BY DEF ServicesNext, Others, servicesVars
<1>6. [StoreNext]_storeVars
  BY DEF ServicesNext, Others, servicesVars
<1>7. [WorkspaceNext]_workspaceVars
  BY DEF ServicesNext, Others, servicesVars
<1>8. [AssessmentNext]_assessmentVars
  BY DEF ServicesNext, Others, servicesVars
<1>9. [ScoreNext]_scoreVars
  BY DEF ServicesNext, Others, servicesVars
<1>10. [DecisionNext]_decisionVars
  BY DEF ServicesNext, Others, servicesVars
<1>11. [ConfigNext]_configVars
  BY DEF ServicesNext, Others, servicesVars
<1>12. [LiveStartNext]_liveStartVars
  BY DEF ServicesNext, Others, servicesVars
<1>13. [PagesNext]_pageVars
  BY DEF ServicesNext, Others, servicesVars
<1> QED
  BY <1>1, <1>2, <1>3, <1>4, <1>5, <1>6, <1>7, <1>8, <1>9, <1>10, <1>11, <1>12, <1>13

\* The composition implements the specification of each service, fairness included.
THEOREM ServicesImplement == ServicesSpec => Specs
<1>1. ServicesInit =>
        /\ StreamInit
        /\ ReportInit
        /\ JobInit
        /\ LabInit
        /\ IntakeInit
        /\ StoreInit
        /\ WorkspaceInit
        /\ AssessmentInit
        /\ ScoreInit
        /\ DecisionInit
        /\ ConfigInit
        /\ LiveStartInit
        /\ PagesInit
  BY DEF ServicesInit, ScoreStarts, DecisionStarts
<1>2. [ServicesNext]_servicesVars =>
        /\ [StreamNext]_streamVars
        /\ [ReportNext]_reportVars
        /\ [JobNext]_jobVars
        /\ [LabNext]_labVars
        /\ [IntakeNext]_intakeVars
        /\ [StoreNext]_storeVars
        /\ [WorkspaceNext]_workspaceVars
        /\ [AssessmentNext]_assessmentVars
        /\ [ScoreNext]_scoreVars
        /\ [DecisionNext]_decisionVars
        /\ [ConfigNext]_configVars
        /\ [LiveStartNext]_liveStartVars
        /\ [PagesNext]_pageVars
  BY StepOfEach
<1> QED
  BY <1>1, <1>2, PTL DEF ServicesSpec, Specs, StreamSpec, ReportSpec, JobSpec, LabSpec, IntakeSpec, StoreSpec, WorkspaceSpec, AssessmentSpec, ScoreSpec, DecisionSpec, ConfigSpec, LiveStartSpec, PagesSpec

FocusKept == focus \in Foci

\* Every variable of the service in focus keeps its type (and those of the others too).
THEOREM ServicesTypesHold == ServicesSpec => []ServicesTypeOK
<1>1. ServicesSpec => []FocusKept
  <2>1. ServicesInit => FocusKept
    BY DEF ServicesInit, FocusKept
  <2>2. FocusKept /\ [ServicesNext]_servicesVars => FocusKept'
    BY DEF ServicesNext, Others, servicesVars, FocusKept
  <2> QED
    BY <2>1, <2>2, PTL DEF ServicesSpec
<1>2. /\ FocusKept
      /\ StreamTypeOK
      /\ ReportTypeOK
      /\ JobTypeOK
      /\ LabTypeOK
      /\ IntakeTypeOK
      /\ StoreTypeOK
      /\ WorkspaceTypeOK
      /\ AssessmentTypeOK
      /\ ScoreTypeOK
      /\ DecisionTypeOK
      /\ ConfigTypeOK
      /\ LiveStartTypeOK
      /\ PagesTypeOK
      => ServicesTypeOK
  BY DEF FocusKept, ServicesTypeOK
<1> QED
  BY <1>1, <1>2, ServicesImplement, StreamTypes, ReportTypes, JobTypes, LabTypes, IntakeTypes, StoreTypes, WorkspaceTypesHold, AssessmentTypes, ScoreTypes, DecisionTypes, ConfigTypeIsOK, LiveStartTypes, PagesTypes, PTL DEF Specs

\* What the run of the services checks of each of them holds of all together.
Promises ==
  /\ [](StreamIsHonest /\ LabIsOrderly /\ SourcesAreExact /\ WorkspaceIsOwn /\ LatestIsCurrent /\ HeadlineIsHonest)
  /\ [](NeverSurerThanEvidence /\ ConsumersAreCurrent /\ CapturesAreWatched /\ ReadIsWhole)
  /\ ReportsKeepFaith /\ JobsAreWhole /\ StoreKeepsUpdates /\ KnowledgeHelps /\ EvidenceDecides

\* The promises of all the services hold of their composition.
THEOREM ServicesKeepPromises == ServicesSpec => Promises
BY ServicesImplement, StreamsAreHonest, LabStaysOrderly, SourcesStayExact, WorkspaceStaysOwn, LatestIsFresh, HeadlineStaysHonest,
   NeverSurer, ConsumersStayCurrent, CapturesStayWatched, ReadsAreWhole, ReportsStayTrue, JobsStayWhole, UpdatesAreKept,
   KnowledgeHelping, OnlyWinnersDecide, PTL DEF Specs, Promises
==============================================================================
