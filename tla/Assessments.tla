---------------------------- MODULE Assessments ----------------------------
(***************************************************************************)
(* The security assessments of one analysis (core/security/service.go):     *)
(* Run makes a record and evaluates it, Reevaluate evaluates one again, and *)
(* each evaluation reads the conclusions of Fusion between two sections of  *)
(* Service.mu.  LatestForAnalysis is what reports and the dashboard show.   *)
(* A result is the number of conclusions it was made from; how it is made   *)
(* is SecurityScore.                                                        *)
(* An operator Op_Word is a plausible bug in Op; no specification uses it.  *)
(***************************************************************************)
EXTENDS Naturals, FiniteSets

CONSTANTS
  Evaluations,    \* calls of Run and of Reevaluate, once each; a Run names its record
  NoRecord,
  MaxConclusions  \* bound on what Fusion concludes

ASSUME AssessmentConstants == NoRecord \notin Evaluations /\ IsFiniteSet(Evaluations) /\ MaxConclusions \in Nat

VARIABLES
  conclusions,  \* how many conclusions Fusion has
  assessment,   \* the records
  evaluation,   \* where each call is
  now           \* the last value of UpdatedAt

assessmentVars == <<conclusions, assessment, evaluation, now>>

NoAssessment == [state |-> "NONE", result |-> 0, revision |-> 0, updated |-> 0, by |-> NoRecord]
NoEvaluation == [pc |-> "none", of |-> NoRecord, names |-> FALSE, read |-> 0, overlapped |-> FALSE]

AssessmentInit ==
  /\ conclusions = 0 /\ now = 0
  /\ assessment = [e \in Evaluations |-> NoAssessment]
  /\ evaluation = [e \in Evaluations |-> NoEvaluation]

UnderWay == {e \in Evaluations : evaluation[e].pc \in {"reading", "scoring"}}

\* Call e begins to evaluate record r; the history of the calls under way
\* remembers that they overlap.
Begins(e, r, names) ==
  evaluation' = [d \in Evaluations |->
    IF d = e THEN [pc |-> "reading", of |-> r, names |-> names, read |-> 0, overlapped |-> UnderWay # {}]
    ELSE [evaluation[d] EXCEPT !.overlapped = @ \/ d \in UnderWay]]

RunAssessment(e) ==
  /\ evaluation[e].pc = "none"
  /\ assessment' = [assessment EXCEPT ![e] = [@ EXCEPT !.state = "RUNNING", !.updated = now + 1]]
  /\ now' = now + 1
  /\ Begins(e, e, FALSE)
  /\ UNCHANGED conclusions

\* A request that names the policy moves UpdatedAt before it evaluates.
Reevaluate(e, r, names) ==
  /\ evaluation[e].pc = "none" /\ assessment[r].state # "NONE"
  /\ IF names
     THEN now' = now + 1 /\ assessment' = [assessment EXCEPT ![r].updated = now + 1]
     ELSE UNCHANGED <<now, assessment>>
  /\ Begins(e, r, names)
  /\ UNCHANGED conclusions

ReadConclusions(e) ==
  /\ evaluation[e].pc = "reading"
  /\ evaluation' = [evaluation EXCEPT ![e] = [@ EXCEPT !.pc = "scoring", !.read = conclusions]]
  /\ UNCHANGED <<conclusions, assessment, now>>

\* A failure replaces the state of a record that may have been COMPLETED.
ReadFails_KeepsCompleted(e) ==
  /\ evaluation[e].pc = "reading"
  /\ evaluation' = [evaluation EXCEPT ![e].pc = "ended"]
  /\ now' = now + 1
  /\ assessment' = [assessment EXCEPT ![evaluation[e].of] =
       [@ EXCEPT !.state = IF @ = "COMPLETED" THEN @ ELSE "FAILED", !.updated = now + 1]]
  /\ UNCHANGED conclusions
ReadFails(e) ==
  /\ evaluation[e].pc = "reading"
  /\ evaluation' = [evaluation EXCEPT ![e].pc = "ended"]
  /\ now' = now + 1
  /\ assessment' = [assessment EXCEPT ![evaluation[e].of] = [@ EXCEPT !.state = "FAILED", !.updated = now + 1]]
  /\ UNCHANGED conclusions

Store(e) ==
  /\ evaluation[e].pc = "scoring"
  /\ evaluation' = [evaluation EXCEPT ![e].pc = "ended"]
  /\ now' = now + 1
  /\ assessment' = [assessment EXCEPT ![evaluation[e].of] =
       [state |-> "COMPLETED", result |-> evaluation[e].read, revision |-> @.revision + 1, updated |-> now + 1, by |-> e]]
  /\ UNCHANGED conclusions

ConcludeMore ==
  /\ conclusions < MaxConclusions
  /\ conclusions' = conclusions + 1
  /\ UNCHANGED <<assessment, evaluation, now>>

AssessmentNext ==
  \/ \E e \in Evaluations : RunAssessment(e) \/ ReadConclusions(e) \/ ReadFails(e) \/ Store(e)
  \/ \E e, r \in Evaluations, names \in BOOLEAN : Reevaluate(e, r, names)
  \/ ConcludeMore

AssessmentSpec == AssessmentInit /\ [][AssessmentNext]_assessmentVars

Completed == {r \in Evaluations : assessment[r].state = "COMPLETED"}
LatestForAnalysis == {r \in Completed : \A q \in Completed : assessment[q].updated <= assessment[r].updated}

----------------------------------------------------------------------------
\* Properties.

\* Types.
AssessmentTypeOK ==
  /\ conclusions \in 0..MaxConclusions /\ now \in Nat
  /\ assessment \in [Evaluations -> [state : {"NONE", "RUNNING", "COMPLETED", "FAILED"}, result : 0..MaxConclusions,
                                     revision : 0..Cardinality(Evaluations), updated : 0..now, by : Evaluations \cup {NoRecord}]]
  /\ evaluation \in [Evaluations -> [pc : {"none", "reading", "scoring", "ended"}, of : Evaluations \cup {NoRecord},
                                     names : BOOLEAN, read : 0..MaxConclusions, overlapped : BOOLEAN]]

\* The assessment that reports show was made from no fewer conclusions than any
\* other completed one, unless a request that named the policy is evaluating it
\* again or the evaluation that made it overlapped with another.
LatestIsCurrent ==
  \A r \in LatestForAnalysis, q \in Completed : assessment[q].result > assessment[r].result =>
    \/ \E e \in UnderWay : evaluation[e].of = r /\ evaluation[e].names
    \/ evaluation[assessment[r].by].overlapped
=============================================================================
