--------------------------- MODULE AssessmentsProofs ---------------------------
(***************************************************************************)
(* The security assessments.  That the one reports show is current, for any *)
(* number of calls of Run and Reevaluate and any number of conclusions;     *)
(* that the headline of an assessment hides nothing worse than it, and that *)
(* to learn more narrows a score and takes no decision back, for any        *)
(* resources, facts and values.                                            *)
(***************************************************************************)
EXTENDS Assessments, SecurityScore, FiniteSetTheorems, WellFoundedInduction, TLAPS

EvaluationRecords == [pc : {"none", "reading", "scoring", "ended"}, of : Evaluations \cup {NoRecord},
                      names : BOOLEAN, read : Nat, overlapped : BOOLEAN]
AStates == {"NONE", "RUNNING", "COMPLETED", "FAILED"}
AssessmentRecords == [state : AStates, result : Nat, revision : Nat, updated : Nat, by : Evaluations \cup {NoRecord}]

\* The types the argument needs; the bounds of a run of TLC are not among them.
Types ==
  /\ conclusions \in Nat /\ now \in Nat
  /\ assessment \in [Evaluations -> AssessmentRecords]
  /\ evaluation \in [Evaluations -> EvaluationRecords]

\* A call under way evaluates a record, and two under way know that they overlap.
Overlap ==
  \A e \in UnderWay :
    /\ evaluation[e].of \in Evaluations
    /\ \A d \in UnderWay : d # e => evaluation[e].overlapped

\* A completed record is the work of one call, which has ended.
Stored ==
  \A r \in Completed :
    /\ assessment[r].by \in Evaluations /\ evaluation[assessment[r].by].pc = "ended"
    /\ assessment[r].result <= conclusions /\ assessment[r].updated <= now

\* A call that is alone reads no fewer conclusions than any result shows.
ReadsFresh ==
  \A e \in UnderWay : evaluation[e].pc = "scoring" /\ ~evaluation[e].overlapped =>
    \A q \in Completed : assessment[q].result <= evaluation[e].read

\* What a call read is no more than there is.
Read == \A e \in UnderWay : evaluation[e].read <= conclusions

\* A better result is a newer one, but for the exceptions the code makes.
Excused(r) ==
  \/ \E e \in UnderWay : evaluation[e].of = r /\ evaluation[e].names
  \/ evaluation[assessment[r].by].overlapped
Newer ==
  \A r, q \in Completed : assessment[q].result > assessment[r].result =>
    assessment[q].updated > assessment[r].updated \/ Excused(r)

AInv == Types /\ Overlap /\ Stored /\ ReadsFresh /\ Read /\ Newer

LEMMA AssessmentInitInv == AssessmentInit => AInv
BY AssessmentConstants DEF AssessmentInit, AInv, Types, Overlap, Stored, ReadsFresh, Read, Newer, UnderWay, Completed,
   NoAssessment, NoEvaluation, AssessmentRecords, AStates, EvaluationRecords

\* A call begins: it overlaps with the ones under way, and they with it.
LEMMA BeginsOverlap ==
  ASSUME Types, Overlap, NEW e \in Evaluations, NEW r \in Evaluations, NEW names \in BOOLEAN,
         evaluation[e].pc = "none", Begins(e, r, names)
  PROVE  /\ UnderWay' = UnderWay \cup {e} /\ e \notin UnderWay
         /\ Overlap'
         /\ evaluation' \in [Evaluations -> EvaluationRecords]
         /\ evaluation'[e].pc = "reading" /\ evaluation'[e].of = r /\ evaluation'[e].names = names /\ evaluation'[e].read = 0
         /\ \A d \in Evaluations : d # e =>
              /\ evaluation'[d].pc = evaluation[d].pc /\ evaluation'[d].of = evaluation[d].of
              /\ evaluation'[d].names = evaluation[d].names /\ evaluation'[d].read = evaluation[d].read
              /\ evaluation[d].overlapped => evaluation'[d].overlapped
<1>1. \A d \in Evaluations : evaluation'[d] =
        IF d = e THEN [pc |-> "reading", of |-> r, names |-> names, read |-> 0, overlapped |-> UnderWay # {}]
        ELSE [evaluation[d] EXCEPT !.overlapped = @ \/ d \in UnderWay]
  BY DEF Begins
<1>2. ASSUME NEW d \in Evaluations, d # e
      PROVE  /\ evaluation'[d].pc = evaluation[d].pc /\ evaluation'[d].of = evaluation[d].of
             /\ evaluation'[d].names = evaluation[d].names /\ evaluation'[d].read = evaluation[d].read
             /\ evaluation'[d].overlapped = (evaluation[d].overlapped \/ d \in UnderWay)
             /\ evaluation'[d] \in EvaluationRecords
  <2> DEFINE o == evaluation[d].overlapped \/ d \in UnderWay
  <2>1. evaluation[d] \in EvaluationRecords
    BY DEF Types
  <2>2. evaluation'[d] = [evaluation[d] EXCEPT !.overlapped = o]
    BY <1>1, <1>2
  <2>3. o \in BOOLEAN
    OBVIOUS
  <2> HIDE DEF o
  <2>4. /\ evaluation'[d].pc = evaluation[d].pc /\ evaluation'[d].of = evaluation[d].of
        /\ evaluation'[d].names = evaluation[d].names /\ evaluation'[d].read = evaluation[d].read
        /\ evaluation'[d].overlapped = o
        /\ evaluation'[d] \in EvaluationRecords
    BY <2>1, <2>2, <2>3 DEF EvaluationRecords
  <2> QED
    BY <2>4 DEF o
<1>3. evaluation'[e] = [pc |-> "reading", of |-> r, names |-> names, read |-> 0, overlapped |-> UnderWay # {}]
  BY <1>1
<1>4. UnderWay' = UnderWay \cup {e} /\ e \notin UnderWay
  <2>1. e \notin UnderWay
    BY DEF UnderWay
  <2>2. \A d \in Evaluations : d \in UnderWay' <=> evaluation'[d].pc \in {"reading", "scoring"}
    BY DEF UnderWay
  <2>3. \A d \in Evaluations : d # e => (d \in UnderWay' <=> d \in UnderWay)
    BY <1>2, <2>2 DEF UnderWay
  <2>4. e \in UnderWay'
    BY <1>3, <2>2
  <2>5. UnderWay \subseteq Evaluations /\ UnderWay' \subseteq Evaluations
    BY DEF UnderWay
  <2> QED
    BY <2>1, <2>3, <2>4, <2>5
<1>5. Overlap'
  <2> SUFFICES ASSUME NEW a \in UnderWay', NEW d \in UnderWay', d # a
               PROVE  evaluation'[a].of \in Evaluations /\ evaluation'[a].overlapped
    <3>1. \A a \in UnderWay' : evaluation'[a].of \in Evaluations
      BY <1>2, <1>3, <1>4 DEF Overlap, UnderWay
    <3> QED
      BY <3>1 DEF Overlap
  <2>1. a \in Evaluations /\ d \in Evaluations
    BY DEF UnderWay
  <2>2. CASE a = e
    <3>1. UnderWay # {}
      BY <2>2, <1>4
    <3>2. (UnderWay # {}) = TRUE
      BY <3>1
    <3>3. evaluation'[e] = [pc |-> "reading", of |-> r, names |-> names, read |-> 0, overlapped |-> TRUE]
      BY <1>3, <3>2
    <3> QED
      BY <2>2, <3>3
  <2>3. CASE a # e
    <3>1. a \in UnderWay
      BY <2>3, <1>4
    <3> QED
      BY <2>1, <2>3, <3>1, <1>2 DEF Overlap
  <2> QED
    BY <2>2, <2>3
<1>6. evaluation'[e] \in EvaluationRecords
  <2> DEFINE o == UnderWay # {}
  <2>1. o \in BOOLEAN
    OBVIOUS
  <2>2. evaluation'[e] = [pc |-> "reading", of |-> r, names |-> names, read |-> 0, overlapped |-> o]
    BY <1>3
  <2> HIDE DEF o
  <2> QED
    BY <2>1, <2>2 DEF EvaluationRecords
<1> QED
  BY <1>1, <1>2, <1>3, <1>4, <1>5, <1>6 DEF Begins

LEMMA RunInv ==
  ASSUME AInv, NEW e \in Evaluations, RunAssessment(e)
  PROVE  AInv'
<1>1. /\ evaluation[e].pc = "none" /\ Begins(e, e, FALSE)
      /\ assessment' = [assessment EXCEPT ![e] = [@ EXCEPT !.state = "RUNNING", !.updated = now + 1]]
      /\ now' = now + 1 /\ conclusions' = conclusions
  BY DEF RunAssessment
<1>2. FALSE \in BOOLEAN
  OBVIOUS
<1>3. /\ UnderWay' = UnderWay \cup {e} /\ e \notin UnderWay /\ Overlap'
      /\ evaluation'[e].pc = "reading" /\ evaluation'[e].read = 0 /\ evaluation' \in [Evaluations -> EvaluationRecords]
      /\ \A d \in Evaluations : d # e =>
              /\ evaluation'[d].pc = evaluation[d].pc /\ evaluation'[d].of = evaluation[d].of
              /\ evaluation'[d].names = evaluation[d].names /\ evaluation'[d].read = evaluation[d].read
              /\ evaluation[d].overlapped => evaluation'[d].overlapped
  BY <1>1, <1>2, BeginsOverlap DEF AInv
<1>4. Types'
  <2>1. assessment[e] \in AssessmentRecords /\ now + 1 \in Nat
    BY DEF AInv, Types
  <2>2. [assessment[e] EXCEPT !.state = "RUNNING", !.updated = now + 1] \in AssessmentRecords
    BY <2>1 DEF AssessmentRecords, AStates
  <2> QED
    BY <1>1, <1>3, <2>1, <2>2 DEF AInv, Types
<1>5. /\ Completed' = Completed \ {e}
      /\ \A q \in Completed' : assessment'[q] = assessment[q]
  BY <1>1, <1>4 DEF Completed, AInv, Types, AssessmentRecords, AStates
<1>6. Stored' /\ \A q \in Completed' : assessment[q].by # e
  BY <1>1, <1>3, <1>4, <1>5 DEF Stored, AInv, Types, AssessmentRecords, Completed
<1>7. ReadsFresh'
  BY <1>1, <1>3, <1>5, <1>4 DEF ReadsFresh, AInv, Types, UnderWay
<1>r. Read'
  BY <1>3, <1>1 DEF AInv, Read, Types, UnderWay, EvaluationRecords
<1>8. Newer'
  <2> SUFFICES ASSUME NEW r \in Completed', NEW q \in Completed', assessment'[q].result > assessment'[r].result
               PROVE  assessment'[q].updated > assessment'[r].updated \/ Excused(r)'
    BY DEF Newer
  <2>1. r \in Completed /\ q \in Completed /\ assessment'[r] = assessment[r] /\ assessment'[q] = assessment[q]
    BY <1>5
  <2>2. assessment[q].updated > assessment[r].updated \/ Excused(r)
    BY <2>1 DEF AInv, Newer
  <2>3. Excused(r) => Excused(r)'
    BY <1>3, <1>6, <2>1 DEF Excused, AInv, Stored, UnderWay
  <2> QED
    BY <2>1, <2>2, <2>3
<1> QED
  BY <1>3, <1>4, <1>6, <1>7, <1>8, <1>r DEF AInv

LEMMA ReevaluateInv ==
  ASSUME AInv, NEW e \in Evaluations, NEW r \in Evaluations, NEW names \in BOOLEAN, Reevaluate(e, r, names)
  PROVE  AInv'
<1>1. /\ evaluation[e].pc = "none" /\ Begins(e, r, names) /\ conclusions' = conclusions
      /\ names => now' = now + 1 /\ assessment' = [assessment EXCEPT ![r].updated = now + 1]
      /\ ~names => now' = now /\ assessment' = assessment
  BY DEF Reevaluate
<1>3. /\ UnderWay' = UnderWay \cup {e} /\ e \notin UnderWay /\ Overlap'
      /\ evaluation'[e].pc = "reading" /\ evaluation'[e].of = r /\ evaluation'[e].names = names /\ evaluation'[e].read = 0
      /\ evaluation' \in [Evaluations -> EvaluationRecords]
      /\ \A d \in Evaluations : d # e =>
              /\ evaluation'[d].pc = evaluation[d].pc /\ evaluation'[d].of = evaluation[d].of
              /\ evaluation'[d].names = evaluation[d].names /\ evaluation'[d].read = evaluation[d].read
              /\ evaluation[d].overlapped => evaluation'[d].overlapped
  BY <1>1, BeginsOverlap DEF AInv
<1>4. Types'
  BY <1>1, <1>3 DEF AInv, Types, AssessmentRecords, AStates
<1>5. /\ Completed' = Completed
      /\ \A q \in Evaluations : /\ assessment'[q].result = assessment[q].result /\ assessment'[q].by = assessment[q].by
                                /\ q # r \/ ~names => assessment'[q].updated = assessment[q].updated
                                /\ assessment[q].updated <= now => assessment[q].updated <= assessment'[q].updated /\ assessment'[q].updated <= now'
  BY <1>1, <1>4 DEF Completed, AInv, Types, AssessmentRecords, AStates
<1>6. Stored' /\ \A q \in Completed' : assessment[q].by # e
  BY <1>1, <1>3, <1>5 DEF Stored, AInv, Types, Completed
<1>7. ReadsFresh'
  BY <1>1, <1>3, <1>5, <1>4 DEF ReadsFresh, AInv, Types, UnderWay, Completed
<1>r. Read'
  BY <1>3, <1>1 DEF AInv, Read, Types, UnderWay, EvaluationRecords
<1>8. Newer'
  <2> SUFFICES ASSUME NEW a \in Completed', NEW q \in Completed', assessment'[q].result > assessment'[a].result
               PROVE  assessment'[q].updated > assessment'[a].updated \/ Excused(a)'
    BY DEF Newer
  <2>1. a \in Completed /\ q \in Completed /\ assessment[q].result > assessment[a].result
    BY <1>5 DEF Completed
  <2>2. assessment[q].updated > assessment[a].updated \/ Excused(a)
    BY <2>1 DEF AInv, Newer
  <2>3. Excused(a) => Excused(a)'
    BY <1>3, <1>5, <1>6, <2>1 DEF Excused, AInv, Stored, UnderWay, Completed
  <2>4. CASE a = r /\ names
    BY <1>3, <2>4 DEF Excused
  <2>5. CASE a # r \/ ~names
    BY <1>4, <1>5, <2>1, <2>2, <2>3, <2>5 DEF Completed, AInv, Types, AssessmentRecords, Stored
  <2> QED
    BY <2>4, <2>5
<1> QED
  BY <1>3, <1>4, <1>6, <1>7, <1>8, <1>r DEF AInv

LEMMA ReadInv ==
  ASSUME AInv, NEW e \in Evaluations, ReadConclusions(e)
  PROVE  AInv'
<1>1. /\ evaluation[e].pc = "reading"
      /\ evaluation' = [evaluation EXCEPT ![e] = [@ EXCEPT !.pc = "scoring", !.read = conclusions]]
      /\ UNCHANGED <<conclusions, assessment, now>>
  BY DEF ReadConclusions
<1>2. Types'
  BY <1>1 DEF AInv, Types, EvaluationRecords
<1>3. \A d \in Evaluations :
        /\ evaluation'[d].of = evaluation[d].of /\ evaluation'[d].names = evaluation[d].names
        /\ evaluation'[d].overlapped = evaluation[d].overlapped
        /\ d # e => evaluation'[d].pc = evaluation[d].pc /\ evaluation'[d].read = evaluation[d].read
        /\ d = e => evaluation'[d].pc = "scoring" /\ evaluation'[d].read = conclusions
  BY <1>1 DEF AInv, Types, EvaluationRecords
<1>4. UnderWay' = UnderWay /\ Completed' = Completed
  BY <1>1, <1>3 DEF UnderWay, Completed
<1>5. Overlap'
  BY <1>3, <1>4 DEF AInv, Overlap, UnderWay
<1>6. Stored'
  BY <1>1, <1>3, <1>4 DEF AInv, Stored, Completed
<1>7. ReadsFresh'
  BY <1>1, <1>2, <1>3, <1>4 DEF AInv, ReadsFresh, Stored, UnderWay, Completed
<1>r. Read'
  BY <1>1, <1>3, <1>4 DEF AInv, Read, Types, UnderWay, EvaluationRecords
<1>8. Newer'
  BY <1>1, <1>3, <1>4 DEF AInv, Newer, Excused, Stored, UnderWay, Completed
<1> QED
  BY <1>2, <1>5, <1>6, <1>7, <1>8, <1>r DEF AInv

LEMMA FailInv ==
  ASSUME AInv, NEW e \in Evaluations, ReadFails(e)
  PROVE  AInv'
<1> DEFINE r == evaluation[e].of
<1>1. /\ evaluation[e].pc = "reading" /\ e \in UnderWay /\ r \in Evaluations
      /\ evaluation' = [evaluation EXCEPT ![e].pc = "ended"]
      /\ now' = now + 1 /\ conclusions' = conclusions
      /\ assessment' = [assessment EXCEPT ![r] = [@ EXCEPT !.state = "FAILED", !.updated = now + 1]]
  BY DEF ReadFails, AInv, Overlap, UnderWay
<1>2. Types'
  <2>1. assessment[r] \in AssessmentRecords /\ evaluation[e] \in EvaluationRecords /\ now + 1 \in Nat
    BY <1>1 DEF AInv, Types
  <2>2. [assessment[r] EXCEPT !.state = "FAILED", !.updated = now + 1] \in AssessmentRecords
    BY <2>1 DEF AssessmentRecords, AStates
  <2>3. [evaluation[e] EXCEPT !.pc = "ended"] \in EvaluationRecords
    BY <2>1 DEF EvaluationRecords
  <2> HIDE DEF r
  <2> QED
    BY <1>1, <2>1, <2>2, <2>3 DEF AInv, Types
<1>3. \A d \in Evaluations :
        /\ evaluation'[d].of = evaluation[d].of /\ evaluation'[d].names = evaluation[d].names
        /\ evaluation'[d].overlapped = evaluation[d].overlapped /\ evaluation'[d].read = evaluation[d].read
        /\ d # e => evaluation'[d].pc = evaluation[d].pc
        /\ d = e => evaluation'[d].pc = "ended"
  BY <1>1 DEF AInv, Types, EvaluationRecords
<1>4. UnderWay' = UnderWay \ {e}
  BY <1>3 DEF UnderWay
<1>5. Completed' = Completed \ {r} /\ \A q \in Completed' : assessment'[q] = assessment[q]
  BY <1>1, <1>2 DEF Completed, AInv, Types, AssessmentRecords, AStates
<1>6. Overlap'
  BY <1>3, <1>4 DEF AInv, Overlap, UnderWay
<1>7. Stored'
  BY <1>1, <1>3, <1>5 DEF AInv, Stored, Types, AssessmentRecords, Completed
<1>8. ReadsFresh'
  BY <1>1, <1>3, <1>4, <1>5 DEF AInv, ReadsFresh, UnderWay
<1>r. Read'
  BY <1>1, <1>3, <1>4 DEF AInv, Read, Types, UnderWay, EvaluationRecords
<1>9. Newer'
  <2> SUFFICES ASSUME NEW a \in Completed', NEW q \in Completed', assessment'[q].result > assessment'[a].result
               PROVE  assessment'[q].updated > assessment'[a].updated \/ Excused(a)'
    BY DEF Newer
  <2>1. /\ a \in Completed /\ q \in Completed /\ a # r
        /\ assessment'[a] = assessment[a] /\ assessment'[q] = assessment[q]
    BY <1>5
  <2>2. Excused(a) => Excused(a)'
    BY <1>1, <1>3, <1>4, <2>1 DEF Excused, AInv, Stored, UnderWay
  <2> QED
    BY <2>1, <2>2 DEF AInv, Newer
<1> QED
  BY <1>2, <1>6, <1>7, <1>8, <1>9, <1>r DEF AInv

LEMMA StoreInv ==
  ASSUME AInv, NEW e \in Evaluations, Store(e)
  PROVE  AInv'
<1> DEFINE r == evaluation[e].of
           new == [state |-> "COMPLETED", result |-> evaluation[e].read, revision |-> assessment[r].revision + 1,
                   updated |-> now + 1, by |-> e]
<1>1. /\ evaluation[e].pc = "scoring" /\ e \in UnderWay /\ r \in Evaluations
      /\ evaluation' = [evaluation EXCEPT ![e].pc = "ended"]
      /\ now' = now + 1 /\ conclusions' = conclusions
      /\ assessment' = [assessment EXCEPT ![r] = new]
  BY DEF Store, AInv, Overlap, UnderWay
<1>2. new \in AssessmentRecords
  BY <1>1 DEF AInv, Types, AssessmentRecords, AStates, EvaluationRecords
<1>3. Types'
  <2>1. evaluation[e] \in EvaluationRecords /\ now + 1 \in Nat
    BY DEF AInv, Types
  <2>2. [evaluation[e] EXCEPT !.pc = "ended"] \in EvaluationRecords
    BY <2>1 DEF EvaluationRecords
  <2> HIDE DEF new
  <2> QED
    BY <1>1, <1>2, <2>1, <2>2 DEF AInv, Types
<1>4. \A d \in Evaluations :
        /\ evaluation'[d].of = evaluation[d].of /\ evaluation'[d].names = evaluation[d].names
        /\ evaluation'[d].overlapped = evaluation[d].overlapped /\ evaluation'[d].read = evaluation[d].read
        /\ d # e => evaluation'[d].pc = evaluation[d].pc
        /\ d = e => evaluation'[d].pc = "ended"
  BY <1>1 DEF AInv, Types, EvaluationRecords
<1>5. UnderWay' = UnderWay \ {e}
  BY <1>4 DEF UnderWay
<1>6. /\ Completed' = Completed \cup {r} /\ \A q \in Completed' : q # r => assessment'[q] = assessment[q]
      /\ assessment'[r].result = evaluation[e].read /\ assessment'[r].updated = now + 1 /\ assessment'[r].by = e
  <2>1. \A q \in Evaluations : assessment'[q] = IF q = r THEN new ELSE assessment[q]
    BY <1>1 DEF AInv, Types
  <2> QED
    BY <1>1, <2>1 DEF Completed
<1>7. Overlap'
  BY <1>4, <1>5 DEF AInv, Overlap, UnderWay
<1>8. Stored'
  <2> SUFFICES ASSUME NEW q \in Completed'
               PROVE  /\ assessment'[q].by \in Evaluations /\ evaluation'[assessment'[q].by].pc = "ended"
                      /\ assessment'[q].result <= conclusions' /\ assessment'[q].updated <= now'
    BY DEF Stored
  <2>1. CASE q = r
    BY <1>1, <1>4, <1>6, <2>1 DEF AInv, Types, Read
  <2>2. CASE q # r
    BY <1>1, <1>4, <1>6, <2>2 DEF AInv, Stored, Types, AssessmentRecords, Completed
  <2> QED
    BY <2>1, <2>2
<1>9. ReadsFresh'
  BY <1>1, <1>4, <1>5, <1>6 DEF AInv, ReadsFresh, Overlap, UnderWay
<1>r. Read'
  BY <1>1, <1>4, <1>5 DEF AInv, Read, Types, UnderWay, EvaluationRecords
<1>10. Newer'
  <2> SUFFICES ASSUME NEW a \in Completed', NEW q \in Completed', assessment'[q].result > assessment'[a].result
               PROVE  assessment'[q].updated > assessment'[a].updated \/ Excused(a)'
    BY DEF Newer
  <2>1. CASE a = r
    <3>1. evaluation[e].overlapped
      BY <1>1, <1>3, <1>6, <2>1 DEF AInv, ReadsFresh, Types, AssessmentRecords, Completed
    <3> QED
      BY <1>1, <1>4, <1>6, <2>1, <3>1 DEF Excused
  <2>2. CASE a # r
    <3>1. a \in Completed /\ assessment'[a] = assessment[a]
      BY <1>6, <2>2
    <3>2. CASE q = r
      BY <1>6, <3>1, <3>2 DEF AInv, Stored, Types, AssessmentRecords, Completed
    <3>3. CASE q # r
      <4>1. q \in Completed /\ assessment'[q] = assessment[q]
        BY <1>6, <3>3
      <4>2. Excused(a) => Excused(a)'
        BY <1>1, <1>4, <1>5, <2>2, <3>1 DEF Excused, AInv, Stored, UnderWay
      <4> QED
        BY <3>1, <4>1, <4>2 DEF AInv, Newer
    <3> QED
      BY <3>2, <3>3
  <2> QED
    BY <2>1, <2>2
<1> QED
  BY <1>3, <1>7, <1>8, <1>9, <1>10, <1>r DEF AInv

LEMMA AssessmentStep == AInv /\ [AssessmentNext]_assessmentVars => AInv'
<1> SUFFICES ASSUME AInv, [AssessmentNext]_assessmentVars PROVE AInv'
  OBVIOUS
<1>1. ASSUME NEW e \in Evaluations, RunAssessment(e) \/ ReadConclusions(e) \/ ReadFails(e) \/ Store(e)
      PROVE  AInv'
  BY <1>1, RunInv, ReadInv, FailInv, StoreInv
<1>2. ASSUME NEW e \in Evaluations, NEW r \in Evaluations, NEW names \in BOOLEAN, Reevaluate(e, r, names)
      PROVE  AInv'
  BY <1>2, ReevaluateInv
<1>3. CASE ConcludeMore
  <2>1. conclusions' = conclusions + 1 /\ UNCHANGED <<assessment, evaluation, now>>
    BY <1>3 DEF ConcludeMore
  <2>2. UnderWay' = UnderWay /\ Completed' = Completed
    BY <2>1 DEF UnderWay, Completed
  <2>3. Types'
    BY <2>1 DEF AInv, Types
  <2>4. Overlap' /\ ReadsFresh' /\ Newer'
    BY <2>1, <2>2 DEF AInv, Overlap, ReadsFresh, Newer, Excused
  <2>5. Stored'
    BY <2>1, <2>2 DEF AInv, Stored, Types, AssessmentRecords, Completed
  <2>6. Read'
    BY <2>1, <2>2 DEF AInv, Read, Types, EvaluationRecords, UnderWay
  <2> QED
    BY <2>3, <2>4, <2>5, <2>6 DEF AInv
<1>4. CASE UNCHANGED assessmentVars
  BY <1>4 DEF assessmentVars, AInv, Types, Overlap, Stored, ReadsFresh, Read, Newer, Excused, UnderWay, Completed
<1> QED
  BY <1>1, <1>2, <1>3, <1>4 DEF AssessmentNext

\* The inductive invariant holds throughout (types, and how overlapping calls,
\* stored results and the newest record relate).
THEOREM AssessmentInvariant == AssessmentSpec => []AInv
<1> QED
  BY AssessmentInitInv, AssessmentStep, PTL DEF AssessmentSpec

\* LatestForAnalysis answers with a result made from no fewer conclusions than any
\* other completed record, but for a reevaluation that named the policy and is
\* under way, and for evaluations that overlapped.
THEOREM LatestIsFresh == AssessmentSpec => []LatestIsCurrent
<1>1. AInv => LatestIsCurrent
  <2> SUFFICES ASSUME AInv, NEW r \in LatestForAnalysis, NEW q \in Completed,
                      assessment[q].result > assessment[r].result
               PROVE  \/ \E e \in UnderWay : evaluation[e].of = r /\ evaluation[e].names
                      \/ evaluation[assessment[r].by].overlapped
    BY DEF LatestIsCurrent
  <2>1. r \in Completed /\ assessment[q].updated <= assessment[r].updated
    BY DEF LatestForAnalysis
  <2>2. assessment[q].updated \in Nat /\ assessment[r].updated \in Nat
    BY <2>1 DEF AInv, Types, AssessmentRecords, Completed
  <2>3. Excused(r)
    BY <2>1, <2>2 DEF AInv, Newer
  <2> QED
    BY <2>3 DEF Excused
<1> QED
  BY <1>1, AssessmentInvariant, PTL

\* What a run of TLC bounds: times lie in the past, results and what was read
\* are of conclusions there were, and a record has at most one revision for
\* each call that evaluated it and has ended.
Past(r) == {e \in Evaluations : evaluation[e].pc = "ended" /\ evaluation[e].of = r}
Bounded ==
  /\ conclusions <= MaxConclusions
  /\ \A e \in Evaluations : evaluation[e].read <= conclusions
  /\ \A r \in Evaluations :
       /\ assessment[r].result <= conclusions /\ assessment[r].updated <= now
       /\ assessment[r].revision <= Cardinality(Past(r))

\* Calls that have ended are finitely many, and one more is one more.
LEMMA PastGrows ==
  ASSUME NEW S \in SUBSET Evaluations, NEW T \in SUBSET Evaluations, S \subseteq T
  PROVE  /\ Cardinality(S) \in Nat /\ Cardinality(T) \in Nat /\ Cardinality(S) <= Cardinality(T)
         /\ (\E e \in T : e \notin S) => Cardinality(S) + 1 <= Cardinality(T)
<1>1. IsFiniteSet(S) /\ IsFiniteSet(T)
  BY AssessmentConstants, FS_Subset
<1>2. Cardinality(S) \in Nat /\ Cardinality(T) \in Nat /\ Cardinality(S) <= Cardinality(T)
  BY <1>1, FS_CardinalityType, FS_Subset
<1>3. ASSUME NEW e \in T, e \notin S
      PROVE  Cardinality(S) + 1 <= Cardinality(T)
  <2>1. Cardinality(S \cup {e}) = Cardinality(S) + 1
    BY <1>1, <1>3, FS_AddElement, Zenon
  <2>2. Cardinality(S \cup {e}) <= Cardinality(T)
    <3>1. S \cup {e} \subseteq T
      BY <1>3
    <3> QED
      BY <1>1, <3>1, FS_Subset
  <2> QED
    BY <2>1, <2>2
<1> QED
  BY <1>2, <1>3

\* A step that makes no new revision.
LEMMA NoRevision ==
  ASSUME Types, Types', Bounded, conclusions' \in conclusions..MaxConclusions, now' >= now,
         \A e \in Evaluations :
           /\ evaluation'[e].read <= conclusions'
           /\ evaluation[e].pc = "ended" => evaluation'[e].pc = "ended" /\ evaluation'[e].of = evaluation[e].of,
         \A r \in Evaluations :
           /\ assessment'[r].result = assessment[r].result /\ assessment'[r].revision = assessment[r].revision
           /\ assessment'[r].updated = assessment[r].updated \/ assessment'[r].updated = now'
  PROVE  Bounded'
<1>1. \A r \in Evaluations : Past(r) \in SUBSET Evaluations /\ Past(r)' \in SUBSET Evaluations /\ Past(r) \subseteq Past(r)'
  BY DEF Past
<1>2. ASSUME NEW r \in Evaluations
      PROVE  assessment'[r].revision <= Cardinality(Past(r)')
  <2>1. Cardinality(Past(r)) <= Cardinality(Past(r)') /\ Cardinality(Past(r)) \in Nat /\ Cardinality(Past(r)') \in Nat
    BY <1>1, PastGrows
  <2> QED
    BY <2>1 DEF Bounded, Types, AssessmentRecords
<1>3. conclusions' <= MaxConclusions /\ conclusions' >= conclusions
  BY AssessmentConstants DEF Types
<1>4. \A r \in Evaluations : assessment'[r].result <= conclusions' /\ assessment'[r].updated <= now'
  BY <1>3 DEF Bounded, Types, AssessmentRecords
<1> QED
  BY <1>2, <1>3, <1>4 DEF Bounded

\* What a call that begins leaves of the others.
LEMMA BeginsReads ==
  ASSUME Types, NEW e \in Evaluations, NEW r, NEW names, Begins(e, r, names), evaluation[e].pc = "none"
  PROVE  \A d \in Evaluations :
           /\ evaluation'[d].read = evaluation[d].read \/ evaluation'[d].read = 0
           /\ evaluation[d].pc = "ended" => evaluation'[d].pc = "ended" /\ evaluation'[d].of = evaluation[d].of
<1> SUFFICES ASSUME NEW d \in Evaluations
             PROVE  /\ evaluation'[d].read = evaluation[d].read \/ evaluation'[d].read = 0
                    /\ evaluation[d].pc = "ended" => evaluation'[d].pc = "ended" /\ evaluation'[d].of = evaluation[d].of
  OBVIOUS
<1>1. CASE d = e
  BY <1>1 DEF Begins
<1>2. CASE d # e
  <2> DEFINE o == evaluation[d].overlapped \/ d \in UnderWay
  <2>1. evaluation'[d] = [evaluation[d] EXCEPT !.overlapped = o]
    BY <1>2 DEF Begins
  <2> HIDE DEF o
  <2> QED
    BY <2>1 DEF Types, EvaluationRecords
<1> QED
  BY <1>1, <1>2

LEMMA BoundedStep ==
  ASSUME AInv, AInv', Bounded, [AssessmentNext]_assessmentVars
  PROVE  Bounded'
<1>0. /\ Types /\ Types' /\ conclusions \in Nat /\ now \in Nat /\ MaxConclusions \in Nat
      /\ \A e \in Evaluations : evaluation[e] \in EvaluationRecords /\ assessment[e] \in AssessmentRecords
                                /\ evaluation[e].read \in Nat /\ evaluation[e].read <= conclusions
      /\ conclusions <= MaxConclusions
  BY AssessmentConstants DEF AInv, Types, Bounded, EvaluationRecords
<1>1. ASSUME NEW e \in Evaluations, RunAssessment(e)
      PROVE  Bounded'
  <2>1. /\ \A d \in Evaluations :
             /\ evaluation'[d].read = evaluation[d].read \/ evaluation'[d].read = 0
             /\ evaluation[d].pc = "ended" => evaluation'[d].pc = "ended" /\ evaluation'[d].of = evaluation[d].of
    BY <1>0, <1>1, BeginsReads DEF RunAssessment
  <2>2. \A r \in Evaluations :
           /\ assessment'[r].result = assessment[r].result /\ assessment'[r].revision = assessment[r].revision
           /\ assessment'[r].updated = assessment[r].updated \/ assessment'[r].updated = now'
    BY <1>0, <1>1 DEF RunAssessment, Types, AssessmentRecords
  <2>3. now' >= now /\ conclusions' \in conclusions..MaxConclusions /\ conclusions' = conclusions
    BY <1>0, <1>1 DEF RunAssessment
  <2>4. \A d \in Evaluations : evaluation'[d].read <= conclusions'
    BY <1>0, <2>1, <2>3
  <2> QED
    BY <1>0, <2>1, <2>2, <2>3, <2>4, NoRevision
<1>2. ASSUME NEW e \in Evaluations, NEW r \in Evaluations, NEW names \in BOOLEAN, Reevaluate(e, r, names)
      PROVE  Bounded'
  <2>1. /\ \A d \in Evaluations :
             /\ evaluation'[d].read = evaluation[d].read \/ evaluation'[d].read = 0
             /\ evaluation[d].pc = "ended" => evaluation'[d].pc = "ended" /\ evaluation'[d].of = evaluation[d].of
    BY <1>0, <1>2, BeginsReads DEF Reevaluate
  <2>2. \A q \in Evaluations :
           /\ assessment'[q].result = assessment[q].result /\ assessment'[q].revision = assessment[q].revision
           /\ assessment'[q].updated = assessment[q].updated \/ assessment'[q].updated = now'
    BY <1>0, <1>2 DEF Reevaluate, Types, AssessmentRecords
  <2>3. now' >= now /\ conclusions' \in conclusions..MaxConclusions /\ conclusions' = conclusions
    BY <1>0, <1>2 DEF Reevaluate
  <2>4. \A d \in Evaluations : evaluation'[d].read <= conclusions'
    BY <1>0, <2>1, <2>3
  <2> QED
    BY <1>0, <2>1, <2>2, <2>3, <2>4, NoRevision
<1>3. ASSUME NEW e \in Evaluations, ReadConclusions(e) \/ ReadFails(e)
      PROVE  Bounded'
  <2>1. /\ \A d \in Evaluations :
             /\ evaluation'[d].read = evaluation[d].read \/ evaluation'[d].read = conclusions
             /\ evaluation[d].pc = "ended" => evaluation'[d].pc = "ended" /\ evaluation'[d].of = evaluation[d].of
    <3>1. CASE ReadConclusions(e)
      BY <1>0, <3>1 DEF ReadConclusions, Types, EvaluationRecords
    <3>2. CASE ReadFails(e)
      BY <1>0, <3>2 DEF ReadFails, Types, EvaluationRecords
    <3> QED
      BY <1>3, <3>1, <3>2
  <2>2. \A q \in Evaluations :
           /\ assessment'[q].result = assessment[q].result /\ assessment'[q].revision = assessment[q].revision
           /\ assessment'[q].updated = assessment[q].updated \/ assessment'[q].updated = now'
    <3>1. CASE assessment' = assessment
      BY <3>1
    <3>2. CASE assessment' = [assessment EXCEPT ![evaluation[e].of] = [@ EXCEPT !.state = "FAILED", !.updated = now + 1]] /\ now' = now + 1
      BY <1>0, <3>2 DEF Types, AssessmentRecords
    <3> QED
      BY <1>3, <3>1, <3>2 DEF ReadConclusions, ReadFails
  <2>3. now' >= now /\ conclusions' \in conclusions..MaxConclusions /\ conclusions' = conclusions
    BY <1>0, <1>3 DEF ReadConclusions, ReadFails
  <2>4. \A d \in Evaluations : evaluation'[d].read <= conclusions'
    BY <1>0, <2>1, <2>3
  <2> QED
    BY <1>0, <2>1, <2>2, <2>3, <2>4, NoRevision
<1>4. ASSUME NEW e \in Evaluations, Store(e), NEW r \in Evaluations, r = evaluation[e].of
      PROVE  Bounded'
  <2>1. /\ evaluation[e].pc = "scoring" /\ evaluation[e].of = r
        /\ evaluation' = [evaluation EXCEPT ![e].pc = "ended"]
        /\ now' = now + 1 /\ conclusions' = conclusions
        /\ assessment' = [assessment EXCEPT ![r] =
             [state |-> "COMPLETED", result |-> evaluation[e].read, revision |-> @.revision + 1, updated |-> now + 1, by |-> e]]
    BY <1>4 DEF Store
  <2>2. /\ evaluation'[e].pc = "ended" /\ evaluation'[e].of = r
        /\ \A d \in Evaluations : evaluation'[d].read = evaluation[d].read
        /\ \A d \in Evaluations \ {e} : evaluation'[d] = evaluation[d]
    BY <1>0, <2>1 DEF Types, EvaluationRecords
  <2>3. /\ assessment'[r].result = evaluation[e].read /\ assessment'[r].revision = assessment[r].revision + 1
        /\ assessment'[r].updated = now'
        /\ \A q \in Evaluations \ {r} : assessment'[q] = assessment[q]
    BY <1>0, <2>1 DEF Types
  <2>4. \A q \in Evaluations : Past(q) \subseteq Past(q)' /\ Past(q) \in SUBSET Evaluations /\ Past(q)' \in SUBSET Evaluations
    BY <2>1, <2>2 DEF Past
  <2>5. e \in Past(r)' /\ e \notin Past(r)
    BY <2>1, <2>2 DEF Past
  <2>6. Cardinality(Past(r)) \in Nat /\ Cardinality(Past(r)') \in Nat /\ Cardinality(Past(r)) + 1 <= Cardinality(Past(r)')
    BY <2>4, <2>5, PastGrows
  <2>7. \A q \in Evaluations :
           Cardinality(Past(q)) \in Nat /\ Cardinality(Past(q)') \in Nat /\ Cardinality(Past(q)) <= Cardinality(Past(q)')
    BY <2>4, PastGrows
  <2>8. \A q \in Evaluations : assessment[q].revision \in Nat /\ assessment[q].revision <= Cardinality(Past(q))
                               /\ assessment[q].result <= conclusions /\ assessment[q].updated \in Nat /\ assessment[q].updated <= now
    BY <1>0 DEF Bounded, AssessmentRecords
  <2>9. \A q \in Evaluations : assessment'[q].revision <= Cardinality(Past(q)')
    <3> TAKE q \in Evaluations
    <3>1. CASE q = r
      BY <2>1, <2>3, <2>6, <2>8, <3>1
    <3>2. CASE q # r
      <4>1. assessment'[q].revision = assessment[q].revision
        BY <2>3, <3>2
      <4> QED
        BY <2>7, <2>8, <4>1
    <3> QED
      BY <3>1, <3>2
  <2>10. \A q \in Evaluations : assessment'[q].result <= conclusions' /\ assessment'[q].updated <= now'
    BY <1>0, <2>1, <2>3, <2>8
  <2> QED
    BY <1>0, <2>1, <2>2, <2>9, <2>10 DEF Bounded
<1>7. ASSUME NEW e \in Evaluations, Store(e)
      PROVE  evaluation[e].of \in Evaluations
  BY <1>7 DEF Store, AInv, Overlap, UnderWay
<1>5. CASE ConcludeMore
  <2>1. conclusions' = conclusions + 1 /\ conclusions < MaxConclusions /\ UNCHANGED <<assessment, evaluation, now>>
    BY <1>5 DEF ConcludeMore
  <2>2. conclusions' \in conclusions..MaxConclusions /\ now' >= now /\ \A e \in Evaluations : evaluation'[e].read <= conclusions'
    BY <1>0, <2>1
  <2> QED
    BY <1>0, <2>1, <2>2, NoRevision
<1>6. CASE UNCHANGED assessmentVars
  BY <1>6 DEF assessmentVars, Bounded, Past
<1> QED
  BY <1>1, <1>2, <1>3, <1>4, <1>5, <1>6, <1>7 DEF AssessmentNext

\* Types, with the bounds of what is read, shown and counted.
THEOREM AssessmentTypes == AssessmentSpec => []AssessmentTypeOK
<1>1. AssessmentInit => Bounded
  <2>1. \A r \in Evaluations : Past(r) \in SUBSET Evaluations
    BY DEF Past
  <2>2. \A r \in Evaluations : Cardinality(Past(r)) \in Nat
    BY <2>1, PastGrows
  <2> QED
    BY <2>2, AssessmentConstants DEF AssessmentInit, Bounded, NoAssessment, NoEvaluation
<1>2. AInv /\ AInv' /\ Bounded /\ [AssessmentNext]_assessmentVars => Bounded'
  BY BoundedStep
<1>3. AInv /\ Bounded => AssessmentTypeOK
  <2> SUFFICES ASSUME AInv, Bounded PROVE AssessmentTypeOK
    OBVIOUS
  <2>1. ASSUME NEW r \in Evaluations
        PROVE  assessment[r] \in [state : {"NONE", "RUNNING", "COMPLETED", "FAILED"}, result : 0..MaxConclusions,
                                  revision : 0..Cardinality(Evaluations), updated : 0..now, by : Evaluations \cup {NoRecord}]
    <3>1. Past(r) \in SUBSET Evaluations /\ Evaluations \in SUBSET Evaluations /\ Past(r) \subseteq Evaluations
      BY DEF Past
    <3>2. Cardinality(Past(r)) \in Nat /\ Cardinality(Evaluations) \in Nat /\ Cardinality(Past(r)) <= Cardinality(Evaluations)
      BY <3>1, PastGrows
    <3>3. /\ assessment[r] \in AssessmentRecords /\ conclusions \in Nat /\ now \in Nat /\ MaxConclusions \in Nat
          /\ assessment[r].result <= conclusions /\ conclusions <= MaxConclusions /\ assessment[r].updated <= now
          /\ assessment[r].revision <= Cardinality(Past(r))
      BY AssessmentConstants DEF AInv, Types, Bounded
    <3>4. /\ assessment[r].result \in 0..MaxConclusions /\ assessment[r].updated \in 0..now
          /\ assessment[r].revision \in 0..Cardinality(Evaluations)
      BY <3>2, <3>3 DEF AssessmentRecords
    <3> QED
      BY <3>3, <3>4 DEF AssessmentRecords, AStates
  <2>2. ASSUME NEW e \in Evaluations
        PROVE  evaluation[e] \in [pc : {"none", "reading", "scoring", "ended"}, of : Evaluations \cup {NoRecord},
                                  names : BOOLEAN, read : 0..MaxConclusions, overlapped : BOOLEAN]
    <3>1. /\ evaluation[e] \in EvaluationRecords /\ evaluation[e].read <= conclusions /\ conclusions <= MaxConclusions
          /\ conclusions \in Nat /\ MaxConclusions \in Nat
      BY AssessmentConstants DEF AInv, Types, Bounded
    <3>2. evaluation[e].read \in 0..MaxConclusions
      BY <3>1 DEF EvaluationRecords
    <3> QED
      BY <3>1, <3>2 DEF EvaluationRecords
  <2> QED
    BY <2>1, <2>2, AssessmentConstants DEF AInv, Types, Bounded, AssessmentTypeOK
<1> QED
  BY <1>1, <1>2, <1>3, AssessmentInvariant, PTL DEF AssessmentSpec

----------------------------------------------------------------------------
\* Arithmetic.

LEMMA TimesMono ==
  ASSUME NEW a \in Nat, NEW b \in Nat, NEW c \in Nat, a <= b
  PROVE  a * c <= b * c /\ c * a <= c * b /\ a * c \in Nat /\ b * c \in Nat /\ a * c = c * a
BY SMT

LEMMA DivIsNat ==
  ASSUME NEW a \in Nat, NEW n \in Nat \ {0}
  PROVE  a \div n \in Nat /\ (n <= a => a \div n > 0)
BY SMT

LEMMA Distribute ==
  ASSUME NEW q \in Nat, NEW a \in Nat, NEW b \in Nat, NEW c \in Nat
  PROVE  q * (a + b + c) = q * a + q * b + q * c
BY SMT

\* A set of numbers has a smallest one.
LEMMA SmallestNumber ==
  ASSUME NEW T \in SUBSET Nat, T # {}
  PROVE  \E n \in T : \A m \in T : n <= m
<1> DEFINE R == OpToRel(<, Nat)
<1>1. IsWellFoundedOn(R, Nat)
  BY NatLessThanWellFounded
<1>2. R = {ss \in Nat \X Nat : ss[1] < ss[2]}
  BY DEF OpToRel
<1> HIDE DEF R
<1>3. \E n \in T : \A m \in T : ~(<<m, n>> \in R)
  BY <1>1, WFMin
<1>4. \A m, n \in Nat : m < n => <<m, n>> \in R
  BY <1>2
<1>5. \A m, n \in T : ~(m < n) => n <= m
  OBVIOUS
<1> QED
  BY <1>3, <1>4, <1>5

----------------------------------------------------------------------------
\* Statuses.

Verdicts == {"PASS", "FAIL", "UNKNOWN", "NOT_APPLICABLE"}

LEMMA RulesAre ==
  ASSUME NEW type, NEW f, NEW m, NEW status, status = Rules(type, f, m)
  PROVE  /\ status = [c \in Controls |-> status[c]]
         /\ status["IKE_VERSION"] = AssessIKEVersion(type, f) /\ status["IKE_SUITE"] = AssessIKESuite(type, f)
         /\ status["CHILD_SUITE"] = AssessChildSuite(type, f) /\ status["AUTH"] = AssessAuthentication(type, f)
         /\ status["DH"] = AssessDH(type, f) /\ status["SA_PARAMETERS"] = AssessSAParameters(type, f)
         /\ status["IKE_LIFETIME"] = AssessLifetime(IsIKE(type), f.ikeLifetime, 86400)
         /\ status["CHILD_LIFETIME"] = AssessLifetime(IsChild(type), f.lifetime, 3600)
         /\ status["REPLAY"] = AssessReplay(type, f) /\ status["PFS_CONFIG"] = AssessPFS(type, f)
         /\ status["PFS_EXCHANGE"] = AssessFreshExchange(f) /\ status["METADATA"] = AssessMetadata(type, m)
BY DEF Rules, Controls

LEMMA PoliciesAre ==
  ASSUME NEW type, NEW f, NEW m, NEW status, status = Rules(type, f, m)
  PROVE  /\ status["IKE_POLICY"] \in Verdicts /\ (f.ikeProposals = {} => status["IKE_POLICY"] = "NOT_APPLICABLE")
         /\ status["CHILD_POLICY"] \in Verdicts /\ (f.childProposals = {} => status["CHILD_POLICY"] = "NOT_APPLICABLE")
BY DEF Rules, Controls, AssessConfiguredProposals, Verdicts

LEMMA PoliciesStay ==
  ASSUME NEW type, NEW f, NEW g, NEW m, NEW n
  PROVE  /\ f.ikeProposals = g.ikeProposals => Rules(type, f, m)["IKE_POLICY"] = Rules(type, g, n)["IKE_POLICY"]
         /\ f.childProposals = g.childProposals => Rules(type, f, m)["CHILD_POLICY"] = Rules(type, g, n)["CHILD_POLICY"]
<1> DEFINE P(proposals) == AssessConfiguredProposals(proposals, TRUE)
           Q(proposals) == AssessConfiguredProposals(proposals, FALSE)
<1>1. /\ Rules(type, f, m)["IKE_POLICY"] = P(f.ikeProposals) /\ Rules(type, g, n)["IKE_POLICY"] = P(g.ikeProposals)
      /\ Rules(type, f, m)["CHILD_POLICY"] = Q(f.childProposals) /\ Rules(type, g, n)["CHILD_POLICY"] = Q(g.childProposals)
  BY DEF Rules, Controls
<1> HIDE DEF P, Q
<1> QED
  BY <1>1

\* The verdict on a suite, from the kind of its cipher and the lengths in use.
Judged(named, integrity, bits, icv) ==
  IF named.kind = "" THEN "UNKNOWN"
  ELSE IF named.kind = "WEAK" THEN "FAIL"
  ELSE IF bits \notin {128, 256} THEN (IF bits = 0 THEN "UNKNOWN" ELSE "FAIL")
  ELSE IF named.kind = "CBC" THEN Integrity(integrity)
  ELSE IF icv = 0 THEN "UNKNOWN"
  ELSE IF icv >= 96 /\ integrity \in {"", "AEAD", "NONE"} THEN "PASS" ELSE "FAIL"
InUse(reported, named) == IF reported # 0 THEN reported ELSE named

LEMMA SuiteIs ==
  ASSUME NEW cipher, NEW integrity, NEW key, NEW tag
  PROVE  AssessSuite(cipher, integrity, key, tag) =
           Judged(Cipher(cipher), integrity, InUse(key, Cipher(cipher).key), InUse(tag, Cipher(cipher).tag))
<1> DEFINE named == Cipher(cipher)
           bits == IF key # 0 THEN key ELSE named.key
           icv == IF tag # 0 THEN tag ELSE named.tag
           Sized == bits # 0
           Tagged == icv # 0
           Safe == icv >= 96 /\ integrity \in {"", "AEAD", "NONE"}
<1>1. AssessSuite(cipher, integrity, key, tag) =
             IF named.kind = "" THEN "UNKNOWN"
             ELSE IF named.kind = "WEAK" THEN "FAIL"
             ELSE IF bits \notin {128, 256} THEN Verdict(TRUE, Sized, FALSE)
             ELSE IF named.kind = "CBC" THEN Integrity(integrity)
             ELSE Verdict(TRUE, Tagged, Safe)
  BY DEF AssessSuite
<1>2. bits = InUse(key, Cipher(cipher).key) /\ icv = InUse(tag, Cipher(cipher).tag) /\ named = Cipher(cipher)
  BY DEF InUse
<1> HIDE DEF named, bits, icv, Sized, Tagged, Safe
<1>3. Verdict(TRUE, Sized, FALSE) = (IF ~Sized THEN "UNKNOWN" ELSE "FAIL")
  BY Zenon DEF Verdict
<1>4. Verdict(TRUE, Tagged, Safe) = (IF ~Tagged THEN "UNKNOWN" ELSE IF Safe THEN "PASS" ELSE "FAIL")
  BY Zenon DEF Verdict
<1>5. AssessSuite(cipher, integrity, key, tag) =
             IF named.kind = "" THEN "UNKNOWN"
             ELSE IF named.kind = "WEAK" THEN "FAIL"
             ELSE IF bits \notin {128, 256} THEN (IF ~Sized THEN "UNKNOWN" ELSE "FAIL")
             ELSE IF named.kind = "CBC" THEN Integrity(integrity)
             ELSE (IF ~Tagged THEN "UNKNOWN" ELSE IF Safe THEN "PASS" ELSE "FAIL")
  BY <1>1, <1>3, <1>4, Zenon
<1>6. AssessSuite(cipher, integrity, key, tag) = Judged(named, integrity, bits, icv)
  BY <1>5 DEF Sized, Tagged, Safe, Judged
<1> QED
  BY <1>2, <1>6, Zenon

LEMMA RulesTyped ==
  ASSUME NEW type, NEW f, NEW m
  PROVE  Rules(type, f, m) \in [Controls -> Verdicts]
<1> SUFFICES ASSUME NEW status, status = Rules(type, f, m) PROVE status \in [Controls -> Verdicts]
  OBVIOUS
<1>1. ASSUME NEW applies, NEW known, NEW good PROVE Verdict(applies, known, good) \in Verdicts
  BY DEF Verdict, Verdicts
<1>2. ASSUME NEW cipher, NEW integrity, NEW key, NEW tag PROVE AssessSuite(cipher, integrity, key, tag) \in Verdicts
  <2>1. Integrity(integrity) \in Verdicts
    BY <1>1, Zenon DEF Integrity
  <2> DEFINE named == Cipher(cipher)
             bits == InUse(key, named.key)
             icv == InUse(tag, named.tag)
  <2>2. AssessSuite(cipher, integrity, key, tag) = Judged(named, integrity, bits, icv)
    BY SuiteIs, ZenonT(30)
  <2> HIDE DEF named, bits, icv
  <2>3. Judged(named, integrity, bits, icv) \in Verdicts
    BY <2>1 DEF Judged, Verdicts
  <2> QED
    BY <2>2, <2>3
<1>3. "NOT_APPLICABLE" \in Verdicts
  BY DEF Verdicts
<1>4. /\ AssessIKEVersion(type, f) \in Verdicts /\ AssessIKESuite(type, f) \in Verdicts
      /\ AssessChildSuite(type, f) \in Verdicts /\ AssessAuthentication(type, f) \in Verdicts
  BY <1>1, <1>2, <1>3 DEF AssessIKEVersion, AssessIKESuite, AssessChildSuite, AssessAuthentication
<1>5. /\ AssessDH(type, f) \in Verdicts /\ AssessSAParameters(type, f) \in Verdicts
      /\ \A applies, seconds, limit : AssessLifetime(applies, seconds, limit) \in Verdicts
  <2>1. AssessDH(type, f) \in Verdicts
    BY <1>1, <1>3 DEF AssessDH, GroupStatus
  <2>2. AssessSAParameters(type, f) \in Verdicts
    BY <1>1 DEF AssessSAParameters
  <2>3. \A applies, seconds, limit : AssessLifetime(applies, seconds, limit) \in Verdicts
    BY <1>1 DEF AssessLifetime
  <2> QED
    BY <2>1, <2>2, <2>3
<1>6. /\ AssessReplay(type, f) \in Verdicts /\ AssessPFS(type, f) \in Verdicts
      /\ AssessFreshExchange(f) \in Verdicts /\ AssessMetadata(type, m) \in Verdicts
  BY <1>1, <1>3 DEF AssessReplay, AssessPFS, AssessFreshExchange, AssessMetadata
<1>7. /\ status = [c \in Controls |-> status[c]]
      /\ status["IKE_VERSION"] = AssessIKEVersion(type, f) /\ status["IKE_SUITE"] = AssessIKESuite(type, f)
      /\ status["CHILD_SUITE"] = AssessChildSuite(type, f) /\ status["AUTH"] = AssessAuthentication(type, f)
      /\ status["DH"] = AssessDH(type, f) /\ status["SA_PARAMETERS"] = AssessSAParameters(type, f)
      /\ status["IKE_LIFETIME"] = AssessLifetime(IsIKE(type), f.ikeLifetime, 86400)
      /\ status["CHILD_LIFETIME"] = AssessLifetime(IsChild(type), f.lifetime, 3600)
      /\ status["REPLAY"] = AssessReplay(type, f) /\ status["PFS_CONFIG"] = AssessPFS(type, f)
      /\ status["PFS_EXCHANGE"] = AssessFreshExchange(f) /\ status["METADATA"] = AssessMetadata(type, m)
  BY RulesAre
<1>8. /\ status["IKE_VERSION"] \in Verdicts /\ status["IKE_SUITE"] \in Verdicts /\ status["CHILD_SUITE"] \in Verdicts
      /\ status["AUTH"] \in Verdicts /\ status["DH"] \in Verdicts /\ status["SA_PARAMETERS"] \in Verdicts
      /\ status["REPLAY"] \in Verdicts /\ status["PFS_CONFIG"] \in Verdicts
      /\ status["PFS_EXCHANGE"] \in Verdicts /\ status["METADATA"] \in Verdicts
  BY ONLY <1>4, <1>5, <1>6, <1>7
<1>9. status["IKE_LIFETIME"] \in Verdicts /\ status["CHILD_LIFETIME"] \in Verdicts
  BY ONLY <1>5, <1>7
<1>10. status["IKE_POLICY"] \in Verdicts /\ status["CHILD_POLICY"] \in Verdicts
  BY PoliciesAre
<1>11. \A c \in Controls : status[c] \in Verdicts
  BY ONLY <1>8, <1>9, <1>10 DEF Controls
<1> QED
  BY ONLY <1>7, <1>11

----------------------------------------------------------------------------
\* Weights.

LEMMA ShareTyped ==
  ASSUME NEW k, k.weight \in Nat, IsFiniteSet(k.controls), NEW status, NEW value
  PROVE  Share(k, status, value) \in Nat
<1> DEFINE A == {c \in k.controls : status[c] # "NOT_APPLICABLE"}
           V == {c \in A : status[c] = value}
<1>1. IsFiniteSet(A) /\ IsFiniteSet(V)
  <2>1. A \in SUBSET k.controls /\ V \in SUBSET k.controls
    OBVIOUS
  <2> QED
    BY <2>1, FS_Subset
<1>2. Cardinality(A) \in Nat /\ Cardinality(V) \in Nat /\ (Cardinality(A) = 0 => A = {})
  BY <1>1, FS_CardinalityType, FS_EmptySet
<1>3. Share(k, status, value) = IF A = {} THEN 0 ELSE ((12 * k.weight) \div Cardinality(A)) * Cardinality(V)
  BY DEF Share
<1> HIDE DEF A, V
<1>4. CASE A # {}
  <2>1. 12 * k.weight \in Nat
    OBVIOUS
  <2>2. (12 * k.weight) \div Cardinality(A) \in Nat
    BY <1>2, <1>4, <2>1, DivIsNat
  <2> QED
    BY <1>2, <1>3, <1>4, <2>2, TimesMono
<1> QED
  BY <1>3, <1>4

\* A failure weighs something, since no category has more controls than it has weight.
LEMMA ShareFails ==
  ASSUME NEW k, k.weight \in Nat, IsFiniteSet(k.controls), Cardinality(k.controls) <= 12 * k.weight,
         NEW status, NEW c \in k.controls, status[c] = "FAIL"
  PROVE  Share(k, status, "FAIL") > 0
<1> DEFINE A == {d \in k.controls : status[d] # "NOT_APPLICABLE"}
           V == {d \in A : status[d] = "FAIL"}
           q == (12 * k.weight) \div Cardinality(A)
<1>1. A \in SUBSET k.controls /\ V \in SUBSET k.controls /\ c \in A /\ c \in V
  OBVIOUS
<1>2. Share(k, status, "FAIL") = q * Cardinality(V)
  BY <1>1 DEF Share
<1> HIDE DEF A, V
<1>3. IsFiniteSet(A) /\ IsFiniteSet(V) /\ Cardinality(A) <= Cardinality(k.controls)
  BY <1>1, FS_Subset
<1>4. Cardinality(A) \in Nat \ {0} /\ Cardinality(V) \in Nat \ {0} /\ Cardinality(k.controls) \in Nat
  <2>1. A # {} /\ V # {}
    BY <1>1
  <2> QED
    BY <1>3, <2>1, FS_CardinalityType, FS_EmptySet
<1>5. q \in Nat /\ q > 0
  <2>1. 12 * k.weight \in Nat /\ Cardinality(A) <= 12 * k.weight
    BY <1>3, <1>4
  <2> QED
    BY <1>4, <2>1, DivIsNat
<1> HIDE DEF q
<1>6. 1 <= Cardinality(V)
  BY <1>4
<1>7. q * 1 <= q * Cardinality(V) /\ q * Cardinality(V) \in Nat
  BY <1>4, <1>5, <1>6, TimesMono
<1> QED
  BY <1>2, <1>5, <1>7

\* What is decided moves from the unknown to one side or the other.
LEMMA ShareSettles ==
  ASSUME NEW k, k.weight \in Nat, IsFiniteSet(k.controls), NEW a, NEW b,
         \A c \in k.controls : a[c] \in Verdicts /\ b[c] \in Verdicts,
         \A c \in k.controls : a[c] # "UNKNOWN" \/ b[c] = "NOT_APPLICABLE" => b[c] = a[c]
  PROVE  /\ Share(k, a, "PASS") <= Share(k, b, "PASS") /\ Share(k, a, "FAIL") <= Share(k, b, "FAIL")
         /\ Share(k, a, "PASS") + Share(k, a, "FAIL") + Share(k, a, "UNKNOWN")
            = Share(k, b, "PASS") + Share(k, b, "FAIL") + Share(k, b, "UNKNOWN")
<1> DEFINE A == {c \in k.controls : a[c] # "NOT_APPLICABLE"}
           q == (12 * k.weight) \div Cardinality(A)
           V(s, value) == {c \in A : s[c] = value}
           N(s, value) == Cardinality(V(s, value))
<1>1. A = {c \in k.controls : b[c] # "NOT_APPLICABLE"}
  OBVIOUS
<1>2. \A value : /\ Share(k, a, value) = IF A = {} THEN 0 ELSE q * N(a, value)
                 /\ Share(k, b, value) = IF A = {} THEN 0 ELSE q * N(b, value)
  BY <1>1 DEF Share
<1>3. IsFiniteSet(A) /\ Cardinality(A) \in Nat /\ (A # {} => Cardinality(A) # 0)
  <2>1. A \in SUBSET k.controls
    OBVIOUS
  <2> HIDE DEF A
  <2>2. IsFiniteSet(A)
    BY <2>1, FS_Subset
  <2> QED
    BY <2>2, FS_CardinalityType, FS_EmptySet
<1>4. \A c \in A : a[c] \in {"PASS", "FAIL", "UNKNOWN"} /\ b[c] \in {"PASS", "FAIL", "UNKNOWN"}
  BY <1>1 DEF Verdicts
<1>5. \A c \in A : a[c] # "UNKNOWN" => b[c] = a[c]
  OBVIOUS
<1> HIDE DEF A
<1>6. ASSUME NEW s, \A c \in A : s[c] \in {"PASS", "FAIL", "UNKNOWN"}
      PROVE  /\ IsFiniteSet(V(s, "PASS")) /\ IsFiniteSet(V(s, "FAIL"))
             /\ N(s, "PASS") \in Nat /\ N(s, "FAIL") \in Nat /\ N(s, "UNKNOWN") \in Nat
             /\ N(s, "PASS") + N(s, "FAIL") + N(s, "UNKNOWN") = Cardinality(A)
  <2> DEFINE P == V(s, "PASS")
             F == V(s, "FAIL")
             U == V(s, "UNKNOWN")
  <2>1. P \in SUBSET A /\ F \in SUBSET A /\ U \in SUBSET A /\ P \cap F = {} /\ (P \cup F) \cap U = {} /\ A = (P \cup F) \cup U
    BY <1>6
  <2> HIDE DEF P, F, U
  <2>2. IsFiniteSet(P) /\ IsFiniteSet(F) /\ IsFiniteSet(U)
    BY <1>3, <2>1, FS_Subset
  <2>3. IsFiniteSet(P \cup F) /\ Cardinality(P \cup F) = Cardinality(P) + Cardinality(F) - Cardinality(P \cap F)
    BY <2>2, FS_Union
  <2>4. Cardinality(A) = Cardinality(P \cup F) + Cardinality(U) - Cardinality((P \cup F) \cap U)
    BY <2>1, <2>2, <2>3, FS_Union
  <2>5. Cardinality(P) \in Nat /\ Cardinality(F) \in Nat /\ Cardinality(U) \in Nat /\ Cardinality({}) = 0
    BY <2>2, FS_CardinalityType, FS_EmptySet
  <2>6. Cardinality(P \cap F) = 0 /\ Cardinality((P \cup F) \cap U) = 0
    BY <2>1, <2>5
  <2>7. Cardinality(P) + Cardinality(F) + Cardinality(U) = Cardinality(A)
    BY <2>3, <2>4, <2>5, <2>6
  <2> QED
    BY <2>2, <2>5, <2>7 DEF P, F, U
<1>7. N(a, "PASS") <= N(b, "PASS") /\ N(a, "FAIL") <= N(b, "FAIL")
  <2>1. V(a, "PASS") \in SUBSET V(b, "PASS") /\ V(a, "FAIL") \in SUBSET V(b, "FAIL")
    BY <1>5
  <2>2. IsFiniteSet(V(b, "PASS")) /\ IsFiniteSet(V(b, "FAIL"))
    BY <1>4, <1>6
  <2> HIDE DEF V
  <2> QED
    BY <2>1, <2>2, FS_Subset
<1>8. CASE A = {}
  BY <1>2, <1>8
<1>9. CASE A # {}
  <2>1. q \in Nat
    BY <1>3, <1>9, DivIsNat
  <2>2. /\ N(a, "PASS") \in Nat /\ N(a, "FAIL") \in Nat /\ N(a, "UNKNOWN") \in Nat
        /\ N(b, "PASS") \in Nat /\ N(b, "FAIL") \in Nat /\ N(b, "UNKNOWN") \in Nat
        /\ N(a, "PASS") + N(a, "FAIL") + N(a, "UNKNOWN") = N(b, "PASS") + N(b, "FAIL") + N(b, "UNKNOWN")
    BY <1>4, <1>6
  <2>3. \A value : Share(k, a, value) = q * N(a, value) /\ Share(k, b, value) = q * N(b, value)
    BY <1>2, <1>9
  <2> HIDE DEF q, N
  <2>4. q * N(a, "PASS") <= q * N(b, "PASS") /\ q * N(a, "FAIL") <= q * N(b, "FAIL")
    BY <1>7, <2>1, <2>2, TimesMono
  <2>5. /\ q * (N(a, "PASS") + N(a, "FAIL") + N(a, "UNKNOWN")) = q * N(a, "PASS") + q * N(a, "FAIL") + q * N(a, "UNKNOWN")
        /\ q * (N(b, "PASS") + N(b, "FAIL") + N(b, "UNKNOWN")) = q * N(b, "PASS") + q * N(b, "FAIL") + q * N(b, "UNKNOWN")
    BY <2>1, <2>2, Distribute
  <2> QED
    BY <2>2, <2>3, <2>4, <2>5
<1> QED
  BY <1>8, <1>9

LEMMA FourItems ==
  ASSUME NEW a, NEW b, NEW c, NEW d
  PROVE  IsFiniteSet({a, b, c, d}) /\ Cardinality({a, b, c, d}) <= 4
<1>1. IsFiniteSet({a}) /\ Cardinality({a}) = 1
  BY FS_Singleton
<1>2. ASSUME NEW S, IsFiniteSet(S), NEW x, NEW n \in Nat, Cardinality(S) <= n, NEW m \in Nat, m = n + 1
      PROVE  IsFiniteSet(S \cup {x}) /\ Cardinality(S \cup {x}) <= m
  <2>1. IsFiniteSet(S \cup {x}) /\ Cardinality(S \cup {x}) = IF x \in S THEN Cardinality(S) ELSE Cardinality(S) + 1
    BY <1>2, FS_AddElement
  <2>2. Cardinality(S) \in Nat
    BY <1>2, FS_CardinalityType
  <2>3. Cardinality(S \cup {x}) = Cardinality(S) \/ Cardinality(S \cup {x}) = Cardinality(S) + 1
    BY <2>1
  <2> QED
    BY <1>2, <2>1, <2>2, <2>3
<1>a. 1 \in Nat /\ 2 \in Nat /\ 3 \in Nat /\ 4 \in Nat /\ 2 = 1 + 1 /\ 3 = 2 + 1 /\ 4 = 3 + 1 /\ Cardinality({a}) <= 1
  BY <1>1
<1>3. IsFiniteSet({a} \cup {b}) /\ Cardinality({a} \cup {b}) <= 2
  BY <1>a, <1>1, <1>2
<1>4. IsFiniteSet(({a} \cup {b}) \cup {c}) /\ Cardinality(({a} \cup {b}) \cup {c}) <= 3
  BY <1>a, <1>2, <1>3
<1>5. IsFiniteSet((({a} \cup {b}) \cup {c}) \cup {d}) /\ Cardinality((({a} \cup {b}) \cup {c}) \cup {d}) <= 4
  BY <1>a, <1>2, <1>4
<1>6. {a, b, c, d} = (({a} \cup {b}) \cup {c}) \cup {d}
  OBVIOUS
<1> QED
  BY <1>5, <1>6

LEMMA CategoriesAre ==
  /\ \A i \in 1..8 : /\ Categories[i].weight \in Nat /\ Categories[i].controls \subseteq Controls
                     /\ IsFiniteSet(Categories[i].controls)
                     /\ Cardinality(Categories[i].controls) <= 12 * Categories[i].weight
  /\ \A c \in Controls : \E i \in 1..8 : c \in Categories[i].controls
<1>1. /\ Categories[1] = [weight |-> 25, controls |-> {"IKE_SUITE", "CHILD_SUITE", "IKE_POLICY", "CHILD_POLICY"}]
      /\ Categories[2] = [weight |-> 15, controls |-> {"AUTH"}]
      /\ Categories[3] = [weight |-> 15, controls |-> {"IKE_VERSION", "DH"}]
      /\ Categories[4] = [weight |-> 10, controls |-> {"PFS_CONFIG", "PFS_EXCHANGE"}]
      /\ Categories[5] = [weight |-> 10, controls |-> {"REPLAY"}]
      /\ Categories[6] = [weight |-> 10, controls |-> {"IKE_LIFETIME", "CHILD_LIFETIME"}]
      /\ Categories[7] = [weight |-> 10, controls |-> {"SA_PARAMETERS"}]
      /\ Categories[8] = [weight |-> 5, controls |-> {"METADATA"}]
  BY DEF Categories
<1>2. \A i \in 1..8 : i \in {1, 2, 3, 4, 5, 6, 7, 8}
  OBVIOUS
<1>3. \A i \in 1..8 : Categories[i].weight \in Nat /\ 4 <= 12 * Categories[i].weight
  BY <1>1, <1>2
<1>4a. Categories[1].controls = {"IKE_SUITE", "CHILD_SUITE", "IKE_POLICY", "CHILD_POLICY"}
  BY <1>1
<1>4b. Categories[2].controls = {"AUTH", "AUTH", "AUTH", "AUTH"}
  BY <1>1
<1>4c. Categories[3].controls = {"IKE_VERSION", "DH", "DH", "DH"}
  BY <1>1
<1>4d. Categories[4].controls = {"PFS_CONFIG", "PFS_EXCHANGE", "PFS_EXCHANGE", "PFS_EXCHANGE"}
  BY <1>1
<1>4e. Categories[5].controls = {"REPLAY", "REPLAY", "REPLAY", "REPLAY"}
  BY <1>1
<1>4f. Categories[6].controls = {"IKE_LIFETIME", "CHILD_LIFETIME", "CHILD_LIFETIME", "CHILD_LIFETIME"}
  BY <1>1
<1>4g. Categories[7].controls = {"SA_PARAMETERS", "SA_PARAMETERS", "SA_PARAMETERS", "SA_PARAMETERS"}
  BY <1>1
<1>4h. Categories[8].controls = {"METADATA", "METADATA", "METADATA", "METADATA"}
  BY <1>1
<1>5. \A i \in 1..8 : IsFiniteSet(Categories[i].controls) /\ Cardinality(Categories[i].controls) <= 4
  <2> DEFINE Small(C) == IsFiniteSet(C) /\ Cardinality(C) <= 4
  <2>1. ASSUME NEW C, NEW a, NEW b, NEW c, NEW d, C = {a, b, c, d} PROVE Small(C)
    BY <2>1, FourItems
  <2> HIDE DEF Small
  <2>2a. Small(Categories[1].controls)
    BY <1>4a, <2>1, Zenon
  <2>2b. Small(Categories[2].controls)
    BY <1>4b, <2>1, Zenon
  <2>2c. Small(Categories[3].controls)
    BY <1>4c, <2>1, Zenon
  <2>2d. Small(Categories[4].controls)
    BY <1>4d, <2>1, Zenon
  <2>2e. Small(Categories[5].controls)
    BY <1>4e, <2>1, Zenon
  <2>2f. Small(Categories[6].controls)
    BY <1>4f, <2>1, Zenon
  <2>2g. Small(Categories[7].controls)
    BY <1>4g, <2>1, Zenon
  <2>2h. Small(Categories[8].controls)
    BY <1>4h, <2>1, Zenon
  <2>3. \A i \in 1..8 : Small(Categories[i].controls)
    BY <1>2, <2>2a, <2>2b, <2>2c, <2>2d, <2>2e, <2>2f, <2>2g, <2>2h
  <2> QED
    BY <2>3 DEF Small
<1>6. \A i \in 1..8 : Cardinality(Categories[i].controls) \in Nat
  BY <1>5, FS_CardinalityType
<1>7. \A i \in 1..8 : Categories[i].controls \subseteq Controls
  BY <1>1, <1>2 DEF Controls
<1>8. \A c \in Controls : \E i \in 1..8 : c \in Categories[i].controls
  <2>1. 1 \in 1..8 /\ 2 \in 1..8 /\ 3 \in 1..8 /\ 4 \in 1..8 /\ 5 \in 1..8 /\ 6 \in 1..8 /\ 7 \in 1..8 /\ 8 \in 1..8
    OBVIOUS
  <2> QED
    BY <1>1, <2>1 DEF Controls
<1> QED
  BY <1>3, <1>5, <1>6, <1>7, <1>8

LEMMA WeightTyped ==
  ASSUME NEW status, NEW value
  PROVE  WeightOf(status, value) \in Nat /\ \A i \in 1..8 : Share(Categories[i], status, value) <= WeightOf(status, value)
<1> DEFINE of(i) == Share(Categories[i], status, value)
<1>1. \A i \in 1..8 : of(i) \in Nat
  BY CategoriesAre, ShareTyped
<1>2. WeightOf(status, value) = of(1) + of(2) + of(3) + of(4) + of(5) + of(6) + of(7) + of(8)
  BY DEF WeightOf
<1>3. \A i \in 1..8 : i \in {1, 2, 3, 4, 5, 6, 7, 8}
  OBVIOUS
<1> HIDE DEF of
<1>4. /\ of(1) \in Nat /\ of(2) \in Nat /\ of(3) \in Nat /\ of(4) \in Nat
      /\ of(5) \in Nat /\ of(6) \in Nat /\ of(7) \in Nat /\ of(8) \in Nat
  BY <1>1
<1>5. WeightOf(status, value) \in Nat /\ \A i \in 1..8 : of(i) <= WeightOf(status, value)
  BY <1>2, <1>3, <1>4
<1> QED
  BY <1>5 DEF of

LEMMA WeightFails ==
  ASSUME NEW status, NEW c \in Controls, status[c] = "FAIL"
  PROVE  WeightOf(status, "FAIL") > 0
<1>1. PICK i \in 1..8 : c \in Categories[i].controls
  BY CategoriesAre
<1>2. Share(Categories[i], status, "FAIL") > 0 /\ Share(Categories[i], status, "FAIL") \in Nat
  BY <1>1, CategoriesAre, ShareFails, ShareTyped
<1> QED
  BY <1>2, WeightTyped

LEMMA WeightSettles ==
  ASSUME NEW a \in [Controls -> Verdicts], NEW b \in [Controls -> Verdicts],
         \A c \in Controls : a[c] # "UNKNOWN" \/ b[c] = "NOT_APPLICABLE" => b[c] = a[c]
  PROVE  /\ WeightOf(a, "PASS") <= WeightOf(b, "PASS") /\ WeightOf(a, "FAIL") <= WeightOf(b, "FAIL")
         /\ WeightOf(a, "PASS") + WeightOf(a, "FAIL") + WeightOf(a, "UNKNOWN")
            = WeightOf(b, "PASS") + WeightOf(b, "FAIL") + WeightOf(b, "UNKNOWN")
<1> DEFINE of(i, s, value) == Share(Categories[i], s, value)
<1>1. ASSUME NEW i \in 1..8
      PROVE  /\ of(i, a, "PASS") <= of(i, b, "PASS") /\ of(i, a, "FAIL") <= of(i, b, "FAIL")
             /\ of(i, a, "PASS") + of(i, a, "FAIL") + of(i, a, "UNKNOWN")
                = of(i, b, "PASS") + of(i, b, "FAIL") + of(i, b, "UNKNOWN")
  BY CategoriesAre, ShareSettles
<1>2. ASSUME NEW i \in 1..8, NEW s, NEW value PROVE of(i, s, value) \in Nat
  BY CategoriesAre, ShareTyped
<1>3. ASSUME NEW s, NEW value
      PROVE  WeightOf(s, value) = of(1, s, value) + of(2, s, value) + of(3, s, value) + of(4, s, value)
                                  + of(5, s, value) + of(6, s, value) + of(7, s, value) + of(8, s, value)
  BY DEF WeightOf
<1>4. 1 \in 1..8 /\ 2 \in 1..8 /\ 3 \in 1..8 /\ 4 \in 1..8 /\ 5 \in 1..8 /\ 6 \in 1..8 /\ 7 \in 1..8 /\ 8 \in 1..8
  OBVIOUS
<1> HIDE DEF of
<1>5. ASSUME NEW i \in 1..8
      PROVE  /\ of(i, a, "PASS") \in Nat /\ of(i, a, "FAIL") \in Nat /\ of(i, a, "UNKNOWN") \in Nat
             /\ of(i, b, "PASS") \in Nat /\ of(i, b, "FAIL") \in Nat /\ of(i, b, "UNKNOWN") \in Nat
             /\ of(i, a, "PASS") <= of(i, b, "PASS") /\ of(i, a, "FAIL") <= of(i, b, "FAIL")
             /\ of(i, a, "UNKNOWN") = of(i, b, "PASS") + of(i, b, "FAIL") + of(i, b, "UNKNOWN")
                                      - of(i, a, "PASS") - of(i, a, "FAIL")
  <2>1. /\ of(i, a, "PASS") \in Nat /\ of(i, a, "FAIL") \in Nat /\ of(i, a, "UNKNOWN") \in Nat
        /\ of(i, b, "PASS") \in Nat /\ of(i, b, "FAIL") \in Nat /\ of(i, b, "UNKNOWN") \in Nat
    BY <1>2
  <2>2. /\ of(i, a, "PASS") <= of(i, b, "PASS") /\ of(i, a, "FAIL") <= of(i, b, "FAIL")
        /\ of(i, a, "PASS") + of(i, a, "FAIL") + of(i, a, "UNKNOWN")
           = of(i, b, "PASS") + of(i, b, "FAIL") + of(i, b, "UNKNOWN")
    BY <1>1
  <2> QED
    BY <2>1, <2>2
<1>6. WeightOf(a, "PASS") <= WeightOf(b, "PASS")
  BY <1>3, <1>4, <1>5
<1>7. WeightOf(a, "FAIL") <= WeightOf(b, "FAIL")
  BY <1>3, <1>4, <1>5
<1>8. WeightOf(a, "PASS") + WeightOf(a, "FAIL") + WeightOf(a, "UNKNOWN")
      = WeightOf(b, "PASS") + WeightOf(b, "FAIL") + WeightOf(b, "UNKNOWN")
  BY <1>3, <1>4, <1>5
<1> QED
  BY <1>6, <1>7, <1>8

----------------------------------------------------------------------------
\* Scores.

\* An assessment as Assess makes it.
Assessed(a) ==
  /\ a.status \in [Controls -> Verdicts] /\ a.critical \in BOOLEAN
  /\ a.passed = WeightOf(a.status, "PASS") /\ a.failed = WeightOf(a.status, "FAIL")
  /\ a.unknown = WeightOf(a.status, "UNKNOWN")
  /\ a.critical => \E c \in Controls : a.status[c] = "FAIL"

LEMMA AssessIsAssessed ==
  ASSUME NEW type, NEW f, NEW m
  PROVE  Assessed(Assess(type, f, m)) /\ Assess(type, f, m).type = type /\ Assess(type, f, m).status = Rules(type, f, m)
<1> DEFINE status == Rules(type, f, m)
           fails == \E c \in Controls : status[c] = "FAIL" /\ IsCriticalFailure(c, f)
           a == [type |-> type, status |-> status, critical |-> fails,
                 passed |-> WeightOf(status, "PASS"), failed |-> WeightOf(status, "FAIL"),
                 unknown |-> WeightOf(status, "UNKNOWN")]
<1>1. Assess(type, f, m) = a
  BY DEF Assess
<1>2. fails \in BOOLEAN /\ (fails => \E c \in Controls : status[c] = "FAIL")
  OBVIOUS
<1>3. status \in [Controls -> Verdicts]
  BY RulesTyped
<1> HIDE DEF status, fails
<1>4. Assessed(a) /\ a.type = type /\ a.status = status
  BY <1>2, <1>3 DEF Assessed
<1> QED
  BY <1>1, <1>4 DEF status

LEMMA AssessedNumbers ==
  ASSUME NEW a, Assessed(a)
  PROVE  /\ a.passed \in Nat /\ a.failed \in Nat /\ a.unknown \in Nat
         /\ a.critical => a.failed > 0 /\ Available(a)
<1>1. a.passed \in Nat /\ a.failed \in Nat /\ a.unknown \in Nat
  BY WeightTyped DEF Assessed
<1>2. a.critical => a.failed > 0
  BY WeightFails DEF Assessed
<1> QED
  BY <1>1, <1>2 DEF Available

\* A score is a fraction with a denominator above zero; the order of fractions is total.
Fraction(x) == x[1] \in Nat /\ x[2] \in Nat \ {0}

LEMMA ScoreIsFraction ==
  ASSUME NEW a, Assessed(a), Available(a)
  PROVE  Fraction(Score(a)) /\ (a.critical => Leq(Score(a), <<2, 5>>))
<1>1. a.passed \in Nat /\ a.failed \in Nat /\ a.passed + a.failed > 0
  BY AssessedNumbers DEF Available
<1>2. CASE Capped(a)
  <2>1. Score(a) = <<2, 5>>
    BY <1>2 DEF Score
  <2> QED
    BY <2>1 DEF Fraction, Leq
<1>3. CASE ~Capped(a)
  <2>1. Score(a) = <<a.passed, a.passed + a.failed>>
    BY <1>3 DEF Score
  <2>2. Fraction(Score(a))
    BY <1>1, <2>1 DEF Fraction
  <2>3. ASSUME a.critical PROVE Leq(Score(a), <<2, 5>>)
    <3>1. ~(5 * a.passed > 2 * (a.passed + a.failed))
      BY <1>3, <2>3 DEF Capped
    <3>2. a.passed * 5 <= 2 * (a.passed + a.failed)
      BY <1>1, <3>1
    <3> QED
      BY <2>1, <3>2 DEF Leq
  <2> QED
    BY <2>2, <2>3
<1> QED
  BY <1>2, <1>3

LEMMA TimesCancels ==
  ASSUME NEW a \in Nat, NEW b \in Nat, NEW d \in Nat \ {0}, a * d <= b * d
  PROVE  a <= b
<1>1. ASSUME b + 1 <= a PROVE FALSE
  <2>1. (b + 1) * d <= a * d
    BY <1>1, TimesMono
  <2>2. (b + 1) * d = b * d + d /\ b * d \in Nat
    BY SMT
  <2> QED
    BY <2>1, <2>2
<1> QED
  BY <1>1

LEMMA LeqTransitive ==
  ASSUME NEW x, Fraction(x), NEW y, Fraction(y), NEW z, Fraction(z), Leq(x, y), Leq(y, z)
  PROVE  Leq(x, z)
<1> DEFINE a == x[1]
           b == x[2]
           c == y[1]
           d == y[2]
           e == z[1]
           f == z[2]
<1>1. a \in Nat /\ b \in Nat /\ c \in Nat /\ d \in Nat \ {0} /\ e \in Nat /\ f \in Nat
  BY DEF Fraction
<1>2. a * d <= c * b /\ c * f <= e * d
  BY DEF Leq
<1> HIDE DEF a, b, c, d, e, f
<1>3. a * d \in Nat /\ c * b \in Nat /\ c * f \in Nat /\ e * d \in Nat /\ a * f \in Nat /\ e * b \in Nat
  BY <1>1, TimesMono
<1>4. (a * d) * f <= (c * b) * f /\ (c * f) * b <= (e * d) * b
  BY <1>1, <1>2, <1>3, TimesMono
<1>5. (a * d) * f = (a * f) * d /\ (c * b) * f = (c * f) * b /\ (e * d) * b = (e * b) * d
  BY <1>1, SMT
<1>6. (a * f) * d \in Nat /\ (c * f) * b \in Nat /\ (e * b) * d \in Nat
  BY <1>1, <1>3, TimesMono
<1>7. (a * f) * d <= (e * b) * d
  BY <1>4, <1>5, <1>6
<1>8. a * f <= e * b
  BY <1>1, <1>3, <1>7, TimesCancels
<1> QED
  BY <1>8 DEF Leq, a, b, e, f

LEMMA LeqTotal ==
  ASSUME NEW x, Fraction(x), NEW y, Fraction(y)
  PROVE  Leq(x, x) /\ (Leq(x, y) \/ Leq(y, x))
<1>1. x[1] * y[2] \in Nat /\ y[1] * x[2] \in Nat /\ x[1] * x[2] \in Nat
  BY TimesMono DEF Fraction
<1> QED
  BY <1>1 DEF Leq

\* Among finitely many scores there is a lowest.
LEMMA LowestScore ==
  ASSUME NEW S, IsFiniteSet(S), S # {}, NEW f, \A s \in S : Fraction(f[s])
  PROVE  \E s \in S : \A t \in S : Leq(f[s], f[t])
<1> DEFINE lower(s) == {t \in S : ~Leq(f[s], f[t])}
           N(s) == Cardinality(lower(s))
           T == {N(s) : s \in S}
<1>1. ASSUME NEW s \in S PROVE IsFiniteSet(lower(s)) /\ N(s) \in Nat
  <2>1. lower(s) \in SUBSET S
    OBVIOUS
  <2> HIDE DEF lower
  <2>2. IsFiniteSet(lower(s))
    BY <2>1, FS_Subset
  <2> QED
    BY <2>2, FS_CardinalityType
<1>2. T \in SUBSET Nat /\ T # {}
  <2> HIDE DEF N
  <2> QED
    BY <1>1
<1>3. PICK n \in T : \A m \in T : n <= m
  <2> HIDE DEF T
  <2> QED
    BY <1>2, SmallestNumber
<1>4. PICK s \in S : n = N(s)
  OBVIOUS
<1>5. \A t \in S : N(s) <= N(t)
  BY <1>3, <1>4
<1>6. ASSUME NEW t \in S, ~Leq(f[s], f[t]) PROVE FALSE
  <2>1. Leq(f[t], f[s])
    BY <1>6, LeqTotal
  <2>2. lower(t) \subseteq lower(s)
    <3> SUFFICES ASSUME NEW u \in S, ~Leq(f[t], f[u]), Leq(f[s], f[u]) PROVE FALSE
      OBVIOUS
    <3>1. Leq(f[t], f[u])
      BY <2>1, LeqTransitive
    <3> QED
      BY <3>1
  <2>3. t \in lower(s) /\ t \notin lower(t)
    BY <1>6, LeqTotal
  <2>4. N(t) <= N(s) /\ (N(s) = N(t) => lower(s) = lower(t))
    <3>1. lower(t) \in SUBSET lower(s) /\ IsFiniteSet(lower(s))
      BY <1>1, <2>2
    <3> HIDE DEF lower
    <3> QED
      BY <3>1, FS_Subset
  <2>5. N(t) \in Nat /\ N(s) \in Nat /\ N(s) <= N(t)
    BY <1>1, <1>5
  <2> HIDE DEF lower, N
  <2> QED
    BY <2>3, <2>4, <2>5
<1> QED
  BY <1>6

LEMMA GradeOfCritical ==
  ASSUME NEW x, Fraction(x), Leq(x, <<2, 5>>)
  PROVE  Grade(x) = "F" /\ Level(x) = "CRITICAL"
<1>1. x[1] \in Nat /\ x[2] \in Nat \ {0} /\ x[1] * 5 <= 2 * x[2]
  BY DEF Fraction, Leq
<1>2. /\ ~(9 * x[2] <= x[1] * 10) /\ ~(8 * x[2] <= x[1] * 10) /\ ~(7 * x[2] <= x[1] * 10)
      /\ ~(6 * x[2] <= x[1] * 10) /\ ~(5 * x[2] <= x[1] * 10)
  BY <1>1
<1>3. /\ ~Leq(<<9, 10>>, x) /\ ~Leq(<<8, 10>>, x) /\ ~Leq(<<7, 10>>, x) /\ ~Leq(<<6, 10>>, x) /\ ~Leq(<<5, 10>>, x)
  BY <1>2 DEF Leq
<1> QED
  BY <1>3 DEF Grade, Level

----------------------------------------------------------------------------
\* The assessments of an analysis.

\* Every scope is assessed, from what is known of it.
ProfilesKept ==
  /\ facts = [r \in Resources |-> [fact \in DOMAIN ValuesOf[r] |-> facts[r][fact]]]
  /\ \A r \in Resources : \A fact \in DOMAIN ValuesOf[r] : facts[r][fact] \in ValuesOf[r][fact] \cup {Unknown(fact)}
ScoreInv ==
  /\ ProfilesKept /\ metadata \in [known : BOOLEAN, required : BOOLEAN] /\ changes \in 0..MaxChanges
  /\ perScope = Evaluated(facts, metadata)

LEMMA ScoreInvariance == ScoreSpec => []ScoreInv
<1>1. ScoreInit => ScoreInv
  BY ScoreConstants DEF ScoreInit, ScoreInv, ProfilesKept, Unseen
<1>2. ScoreInv /\ [ScoreNext]_scoreVars => ScoreInv'
  <2> SUFFICES ASSUME ScoreInv, [ScoreNext]_scoreVars PROVE ScoreInv'
    OBVIOUS
  <2>1. CASE UNCHANGED scoreVars
    BY <2>1 DEF scoreVars, ScoreInv, ProfilesKept
  <2>2. ASSUME NEW r \in Resources, NEW fact \in DOMAIN ValuesOf[r],
               NEW value \in ValuesOf[r][fact] \cup {Unknown(fact)}, Conclude(r, fact, value)
        PROVE  ScoreInv'
    <3>1. changes' \in 0..MaxChanges /\ metadata' = metadata /\ perScope' = Evaluated(facts', metadata)
      BY <2>2, ScoreConstants DEF Conclude, ScoreInv
    <3>2. facts' = [facts EXCEPT ![r][fact] = value]
      BY <2>2 DEF Conclude
    <3>3. facts' = [s \in Resources |-> [g \in DOMAIN ValuesOf[s] |-> facts'[s][g]]]
      BY <3>2 DEF ScoreInv, ProfilesKept
    <3>4. \A s \in Resources : \A g \in DOMAIN ValuesOf[s] : facts'[s][g] \in ValuesOf[s][g] \cup {Unknown(g)}
      BY <3>2 DEF ScoreInv, ProfilesKept
    <3> QED
      BY <3>1, <3>3, <3>4 DEF ScoreInv, ProfilesKept
  <2>3. ASSUME NEW m \in [known : BOOLEAN, required : BOOLEAN], ConcludeMetadata(m)
        PROVE  ScoreInv'
    BY <2>3, ScoreConstants DEF ConcludeMetadata, ScoreInv, ProfilesKept
  <2> QED
    BY <2>1, <2>2, <2>3 DEF ScoreNext
<1> QED
  BY <1>1, <1>2, PTL DEF ScoreSpec

LEMMA ScopesAssessed ==
  ASSUME ScoreInv
  PROVE  /\ IsFiniteSet(DOMAIN perScope)
         /\ \A s \in DOMAIN perScope : Assessed(perScope[s])
         /\ \A r \in Resources \cap DOMAIN perScope :
              perScope[r] = Assess(TypeOf[r], FactsOf(facts[r]), IF TypeOf[r] = "ANALYSIS" THEN metadata ELSE Unseen)
<1> DEFINE Of(s) == CASE s \in Resources -> Assess(TypeOf[s], FactsOf(facts[s]), IF TypeOf[s] = "ANALYSIS" THEN metadata ELSE Unseen)
                      [] s = "analysis"   -> Assess("ANALYSIS", NoFacts, metadata)
                      [] s = "metadata"   -> Assess("METADATA", NoFacts, metadata)
           Alone == IF Seen(facts) = {} THEN {"analysis"} ELSE {}
           Apart == IF ~(Seen(facts) = {}) /\ metadata.known /\ \A r \in Seen(facts) : TypeOf[r] # "ANALYSIS"
                    THEN {"metadata"} ELSE {}
           D == Seen(facts) \cup Alone \cup Apart
<1>1. perScope = [s \in D |-> Of(s)]
  BY DEF ScoreInv, Evaluated
<1>2. Seen(facts) \in SUBSET Resources /\ Alone \in SUBSET {"analysis"} /\ Apart \in SUBSET {"metadata"}
  BY DEF Seen
<1>3. "analysis" \notin Resources /\ "metadata" \notin Resources /\ IsFiniteSet(Resources)
  BY ScoreConstants
<1> HIDE DEF Alone, Apart
<1>4. IsFiniteSet(D)
  <2>1. IsFiniteSet({"analysis"}) /\ IsFiniteSet({"metadata"})
    BY FS_Singleton
  <2>2. IsFiniteSet(Seen(facts)) /\ IsFiniteSet(Alone) /\ IsFiniteSet(Apart)
    BY <1>2, <1>3, <2>1, FS_Subset
  <2> QED
    BY <2>2, FS_Union
<1>5. \A s \in D : s \in Resources \/ s = "analysis" \/ s = "metadata"
  BY <1>2
<1>6. \A s \in Resources : Of(s) = Assess(TypeOf[s], FactsOf(facts[s]), IF TypeOf[s] = "ANALYSIS" THEN metadata ELSE Unseen)
  BY <1>3
<1>7. Of("analysis") = Assess("ANALYSIS", NoFacts, metadata) /\ Of("metadata") = Assess("METADATA", NoFacts, metadata)
  BY <1>3
<1> HIDE DEF Of, D
<1>8. \A s \in D : Assessed(Of(s))
  BY <1>5, <1>6, <1>7, AssessIsAssessed
<1>9. DOMAIN perScope = D /\ \A s \in D : perScope[s] = Of(s)
  BY <1>1
<1> QED
  BY <1>4, <1>6, <1>8, <1>9

\* The types of the score hold (Assess in security/assessment.go).
THEOREM ScoreTypes == ScoreSpec => []ScoreTypeOK
<1>1. ScoreInv => ScoreTypeOK
  <2> SUFFICES ASSUME ScoreInv PROVE ScoreTypeOK
    OBVIOUS
  <2>1. ASSUME NEW s \in DOMAIN perScope
        PROVE  /\ perScope[s].status \in [Controls -> {"PASS", "FAIL", "UNKNOWN", "NOT_APPLICABLE"}]
               /\ {perScope[s].passed, perScope[s].failed, perScope[s].unknown} \subseteq Nat
    <3>1. Assessed(perScope[s])
      BY ScopesAssessed
    <3> QED
      BY <3>1, AssessedNumbers DEF Assessed, Verdicts
  <2> QED
    BY <2>1 DEF ScoreInv, ProfilesKept, ScoreTypeOK
<1> QED
  BY <1>1, ScoreInvariance, PTL

LEMMA HeadlineHolds == ScoreInv => HeadlineIsHonest
<1> SUFFICES ASSUME ScoreInv PROVE HeadlineIsHonest
  OBVIOUS
<1> DEFINE C == Candidates(perScope)
           H == Headlines(perScope)
<1>1. \A s \in DOMAIN perScope : Assessed(perScope[s])
  BY ScopesAssessed
<1>2. H = {s \in C : \A t \in C : Leq(Score(perScope[s]), Score(perScope[t]))}
  BY DEF Headlines
<1>3. /\ C \subseteq {s \in DOMAIN perScope : Available(perScope[s])}
      /\ (\E s \in DOMAIN perScope : IsSA(perScope[s].type)) =>
           C = {s \in DOMAIN perScope : Available(perScope[s]) /\ IsSA(perScope[s].type)}
  BY DEF Candidates
<1> HIDE DEF C, H
<1>4. HeadlineIsWorst
  <2> SUFFICES ASSUME NEW h \in H, NEW s \in DOMAIN perScope, IsSA(perScope[s].type)
               PROVE  IsSA(perScope[h].type) /\ (Available(perScope[s]) => Leq(Score(perScope[h]), Score(perScope[s])))
    BY DEF HeadlineIsWorst, H
  <2>1. C = {t \in DOMAIN perScope : Available(perScope[t]) /\ IsSA(perScope[t].type)}
    BY <1>3
  <2> QED
    BY <1>2, <2>1
<1>5. CriticalIsHeadline
  <2> SUFFICES ASSUME NEW s \in DOMAIN perScope, IsSA(perScope[s].type), perScope[s].critical
               PROVE  /\ H # {}
                      /\ \A h \in H : /\ Leq(Score(perScope[h]), <<2, 5>>)
                                       /\ Grade(Score(perScope[h])) = "F" /\ Level(Score(perScope[h])) = "CRITICAL"
    BY DEF CriticalIsHeadline, H
  <2>1. s \in C
    BY <1>1, <1>3, AssessedNumbers
  <2>2. \A t \in C : Assessed(perScope[t]) /\ Fraction(Score(perScope[t]))
    BY <1>1, <1>3, ScoreIsFraction
  <2>3. IsFiniteSet(C)
    <3>1. C \in SUBSET DOMAIN perScope /\ IsFiniteSet(DOMAIN perScope)
      BY <1>3, ScopesAssessed
    <3> QED
      BY <3>1, FS_Subset
  <2>4. H # {}
    <3> DEFINE f == [t \in C |-> Score(perScope[t])]
    <3>1. \A t \in C : Fraction(f[t])
      BY <2>2
    <3>2. \A t \in C : f[t] = Score(perScope[t])
      OBVIOUS
    <3> HIDE DEF f
    <3>3. \E l \in C : \A t \in C : Leq(f[l], f[t])
      BY <2>1, <2>3, <3>1, LowestScore
    <3> QED
      BY <1>2, <3>2, <3>3
  <2>5. ASSUME NEW h \in H
        PROVE  /\ Leq(Score(perScope[h]), <<2, 5>>)
               /\ Grade(Score(perScope[h])) = "F" /\ Level(Score(perScope[h])) = "CRITICAL"
    <3>1. h \in C /\ Leq(Score(perScope[h]), Score(perScope[s]))
      BY <1>2, <2>1
    <3>2. Leq(Score(perScope[s]), <<2, 5>>) /\ Fraction(Score(perScope[s])) /\ Fraction(Score(perScope[h]))
      BY <1>1, <1>3, <2>1, <2>2, <3>1, ScoreIsFraction
    <3>3. Fraction(<<2, 5>>)
      BY DEF Fraction
    <3>4. Leq(Score(perScope[h]), <<2, 5>>)
      BY <3>1, <3>2, <3>3, LeqTransitive
    <3> QED
      BY <3>2, <3>4, GradeOfCritical
  <2> QED
    BY <2>4, <2>5
<1> QED
  BY <1>4, <1>5 DEF HeadlineIsHonest

\* The headline of an assessment hides nothing worse than it: once a security
\* association was seen it is the lowest score of one, and a critical failure of
\* an association makes it at most 40, with grade F and the risk CRITICAL,
\* whatever was concluded of how many resources (deploymentAssessment).
THEOREM HeadlineStaysHonest == ScoreSpec => []HeadlineIsHonest
<1> QED
  BY HeadlineHolds, ScoreInvariance, PTL

----------------------------------------------------------------------------
\* What one more fact changes.

LEMMA BoundsNarrow ==
  ASSUME NEW a, NEW b, Assessed(a), Assessed(b), Settles(a, b)
  PROVE  Leq(Lower(a), Lower(b)) /\ Leq(Upper(b), Upper(a))
<1>1. /\ a.passed \in Nat /\ a.failed \in Nat /\ a.unknown \in Nat
      /\ b.passed \in Nat /\ b.failed \in Nat /\ b.unknown \in Nat
  BY AssessedNumbers
<1>2. /\ a.passed <= b.passed /\ a.failed <= b.failed
      /\ a.passed + a.failed + a.unknown = b.passed + b.failed + b.unknown
  BY WeightSettles DEF Assessed, Settles
<1> DEFINE total == a.passed + a.failed + a.unknown
           x == a.passed + a.unknown
           y == b.passed + b.unknown
<1>3. total \in Nat /\ x \in Nat /\ y \in Nat /\ y <= x /\ b.passed + b.failed + b.unknown = total
  BY <1>1, <1>2
<1>4. /\ Lower(a) = <<a.passed, total>> /\ Lower(b) = <<b.passed, total>>
      /\ Upper(a) = <<x, total>> /\ Upper(b) = <<y, total>>
  BY <1>3 DEF Lower, Upper
<1> HIDE DEF total, x, y
<1>5. a.passed * total <= b.passed * total /\ y * total <= x * total
  BY <1>1, <1>2, <1>3, TimesMono
<1> QED
  BY <1>4, <1>5 DEF Leq

\* The key lengths a cipher's name carries.
KeyLengths == {0, 128, 256}
CipherKinds == {"", "WEAK", "CBC", "GCM"}
Decided == {"PASS", "FAIL"}

LEMMA CipherTyped ==
  ASSUME NEW cipher
  PROVE  /\ Cipher(cipher).key \in KeyLengths /\ Cipher(cipher).tag \in {0, 64, 128}
         /\ Cipher(cipher).kind \in CipherKinds /\ (cipher = "" => Cipher(cipher).kind = "")
<1> DEFINE named == Cipher(cipher)
<1>1. named.key \in KeyLengths /\ named.tag \in {0, 64, 128} /\ named.kind \in CipherKinds
  BY DEF Cipher, KeyLengths, CipherKinds
<1>2. Cipher("").kind = ""
  BY DEF Cipher
<1>3. cipher = "" => named.kind = ""
  BY <1>2
<1> QED
  BY <1>1, <1>3

\* What was decided of a suite stays so when an integrity algorithm or a length is learnt.
LEMMA JudgedStands ==
  ASSUME NEW named, named.kind \in CipherKinds,
         NEW integrity, NEW bits, NEW icv, Judged(named, integrity, bits, icv) \in Decided, NEW value
  PROVE  /\ named.kind # ""
         /\ integrity = "" => \/ Judged(named, value, bits, icv) = Judged(named, integrity, bits, icv)
                              \/ Judged(named, integrity, bits, icv) = "PASS" /\ Judged(named, value, bits, icv) = "FAIL"
         /\ value # 0 /\ bits \in KeyLengths => Judged(named, integrity, value, icv) \in Decided
         /\ value # 0 => Judged(named, integrity, bits, value) \in Decided
<1> DEFINE old == Judged(named, integrity, bits, icv)
<1>1. Integrity("") = "UNKNOWN"
  BY DEF Integrity, Verdict
<1>2. named.kind # ""
  BY DEF Judged, CipherKinds, Decided
<1>3. ASSUME integrity = "" PROVE Judged(named, value, bits, icv) = old \/ (old = "PASS" /\ Judged(named, value, bits, icv) = "FAIL")
  <2>1. CASE named.kind = "WEAK"
    BY <2>1 DEF Judged, CipherKinds, Decided
  <2>2. CASE named.kind \in {"CBC", "GCM"} /\ bits \notin {128, 256}
    BY <2>2 DEF Judged, CipherKinds, Decided
  <2>3. CASE named.kind = "CBC" /\ bits \in {128, 256}
    BY <1>1, <1>3, <2>3 DEF Judged, CipherKinds, Decided
  <2>4. CASE named.kind = "GCM" /\ bits \in {128, 256}
    <3>1. icv # 0
      BY <2>4 DEF Judged, CipherKinds, Decided
    <3>2. CASE icv >= 96
      BY <1>3, <2>4, <3>1, <3>2 DEF Judged, CipherKinds, Decided
    <3>3. CASE ~(icv >= 96)
      BY <1>3, <2>4, <3>1, <3>3 DEF Judged, CipherKinds, Decided
    <3> QED
      BY <3>2, <3>3
  <2> QED
    BY <1>2, <2>1, <2>2, <2>3, <2>4 DEF CipherKinds, Decided
<1>4. ASSUME bits \in KeyLengths, value # 0 PROVE Judged(named, integrity, value, icv) \in Decided
  <2>1. CASE named.kind = "WEAK"
    BY <2>1 DEF Judged, CipherKinds, Decided
  <2>2. CASE named.kind \in {"CBC", "GCM"}
    <3>1. bits \in {128, 256}
      BY <1>4, <2>2 DEF Judged, KeyLengths, CipherKinds, Decided
    <3>2. CASE value \notin {128, 256}
      BY <1>4, <2>2, <3>2 DEF Judged, CipherKinds, Decided
    <3>3. CASE value \in {128, 256}
      BY <2>2, <3>1, <3>3 DEF Judged, CipherKinds, Decided
    <3> QED
      BY <3>2, <3>3
  <2> QED
    BY <1>2, <2>1, <2>2 DEF CipherKinds
<1>5. ASSUME value # 0 PROVE Judged(named, integrity, bits, value) \in Decided
  <2>1. CASE named.kind = "WEAK"
    BY <2>1 DEF Judged, CipherKinds, Decided
  <2>2. CASE named.kind \in {"CBC", "GCM"} /\ bits \notin {128, 256}
    BY <2>2 DEF Judged, CipherKinds, Decided
  <2>3. CASE named.kind = "CBC" /\ bits \in {128, 256}
    BY <2>3 DEF Judged, CipherKinds, Decided
  <2>4. CASE named.kind = "GCM" /\ bits \in {128, 256}
    <3>1. CASE value >= 96 /\ integrity \in {"", "AEAD", "NONE"}
      BY <1>5, <2>4, <3>1 DEF Judged, CipherKinds, Decided
    <3>2. CASE ~(value >= 96 /\ integrity \in {"", "AEAD", "NONE"})
      BY <1>5, <2>4, <3>2 DEF Judged, CipherKinds, Decided
    <3> QED
      BY <3>1, <3>2
  <2> QED
    BY <1>2, <2>1, <2>2, <2>3, <2>4 DEF CipherKinds, Decided
<1> QED
  BY <1>2, <1>3, <1>4, <1>5

\* A decision kept, or a pass that turned into a failure.
StandsOrFails(old, new) == new = old \/ (old = "PASS" /\ new = "FAIL")

LEMMA IntegrityStands ==
  ASSUME NEW cipher, NEW integrity, NEW key, NEW tag, NEW value, AssessSuite(cipher, integrity, key, tag) \in Decided,
         integrity = ""
  PROVE  StandsOrFails(AssessSuite(cipher, integrity, key, tag), AssessSuite(cipher, value, key, tag))
<1> DEFINE old == AssessSuite(cipher, integrity, key, tag)
           named == Cipher(cipher)
           bits == InUse(key, named.key)
           icv == InUse(tag, named.tag)
<1>1. /\ named.key \in KeyLengths /\ named.kind \in CipherKinds /\ (cipher = "" => named.kind = "")
  BY CipherTyped, Zenon
<1>2. old = Judged(named, integrity, bits, icv) /\ AssessSuite(cipher, value, key, tag) = Judged(named, value, bits, icv)
  BY SuiteIs
<1> HIDE DEF named, bits, icv
<1>5. /\ named.kind # ""
      /\ integrity = "" => \/ Judged(named, value, bits, icv) = old
                           \/ old = "PASS" /\ Judged(named, value, bits, icv) = "FAIL"
      /\ value # 0 /\ bits \in KeyLengths => Judged(named, integrity, value, icv) \in Decided
      /\ value # 0 => Judged(named, integrity, bits, value) \in Decided
  <2>1. named.kind \in CipherKinds /\ Judged(named, integrity, bits, icv) \in Decided
    BY <1>1, <1>2
  <2>2. /\ named.kind # ""
        /\ integrity = "" => \/ Judged(named, value, bits, icv) = Judged(named, integrity, bits, icv)
                             \/ Judged(named, integrity, bits, icv) = "PASS" /\ Judged(named, value, bits, icv) = "FAIL"
        /\ value # 0 /\ bits \in KeyLengths => Judged(named, integrity, value, icv) \in Decided
        /\ value # 0 => Judged(named, integrity, bits, value) \in Decided
    BY ONLY <2>1, JudgedStands, Zenon
  <2> QED
    BY <1>2, <2>2
<1> QED
  BY <1>2, <1>5 DEF StandsOrFails

LEMMA SuiteStands ==
  ASSUME NEW cipher, NEW integrity, NEW key, NEW tag, NEW value, AssessSuite(cipher, integrity, key, tag) \in Decided
  PROVE  /\ cipher # ""
         /\ key = 0 /\ value # 0 => AssessSuite(cipher, integrity, value, tag) \in Decided
         /\ tag = 0 /\ value # 0 => AssessSuite(cipher, integrity, key, value) \in Decided
<1> DEFINE old == AssessSuite(cipher, integrity, key, tag)
           named == Cipher(cipher)
           bits == InUse(key, named.key)
           icv == InUse(tag, named.tag)
<1>1. /\ named.key \in KeyLengths /\ named.kind \in CipherKinds /\ (cipher = "" => named.kind = "")
  BY CipherTyped, Zenon
<1>2. old = Judged(named, integrity, bits, icv) /\ AssessSuite(cipher, value, key, tag) = Judged(named, value, bits, icv)
  BY SuiteIs
<1>3. /\ value # 0 => AssessSuite(cipher, integrity, value, tag) = Judged(named, integrity, value, icv)
      /\ value # 0 => AssessSuite(cipher, integrity, key, value) = Judged(named, integrity, bits, value)
  BY SuiteIs, Zenon DEF InUse
<1>4. key = 0 => bits = named.key
  BY DEF InUse
<1> HIDE DEF named, bits, icv
<1>5. /\ named.kind # ""
      /\ integrity = "" => \/ Judged(named, value, bits, icv) = old
                           \/ old = "PASS" /\ Judged(named, value, bits, icv) = "FAIL"
      /\ value # 0 /\ bits \in KeyLengths => Judged(named, integrity, value, icv) \in Decided
      /\ value # 0 => Judged(named, integrity, bits, value) \in Decided
  <2>1. named.kind \in CipherKinds /\ Judged(named, integrity, bits, icv) \in Decided
    BY <1>1, <1>2
  <2>2. /\ named.kind # ""
        /\ integrity = "" => \/ Judged(named, value, bits, icv) = Judged(named, integrity, bits, icv)
                             \/ Judged(named, integrity, bits, icv) = "PASS" /\ Judged(named, value, bits, icv) = "FAIL"
        /\ value # 0 /\ bits \in KeyLengths => Judged(named, integrity, value, icv) \in Decided
        /\ value # 0 => Judged(named, integrity, bits, value) \in Decided
    BY ONLY <2>1, JudgedStands, Zenon
  <2> QED
    BY <1>2, <2>2
<1>6. cipher # ""
  BY <1>1, <1>5
<1>7. key = 0 /\ value # 0 => AssessSuite(cipher, integrity, value, tag) \in Decided
  BY <1>1, <1>3, <1>4, <1>5
<1>8. tag = 0 /\ value # 0 => AssessSuite(cipher, integrity, key, value) \in Decided
  BY <1>3, <1>5
<1> QED
  BY <1>6, <1>7, <1>8

\* g knows of one fact more than f.
Learnt(f, g, fact) ==
  /\ fact \in Facts /\ f[fact] = Unknown(fact) /\ g[fact] # Unknown(fact)
  /\ \A x \in Facts \ {fact} : g[x] = f[x]

LEMMA UnknownIs ==
  /\ \A x \in Tokens \cup Flags : Unknown(x) = ""
  /\ \A x \in Lengths : Unknown(x) = 0
  /\ \A x \in Lists : Unknown(x) = {}
BY DEF Unknown, Tokens, Flags, Lengths, Lists

\* A fact is what it was, unless it is the one that was heard of.
Heard(old, new, none, name, fact) == new = old \/ (old = none /\ new # none /\ fact = name)

\* The facts by name.
LEMMA LearntTokens ==
  ASSUME NEW f, NEW g, NEW fact, Learnt(f, g, fact)
  PROVE  /\ Heard(f.ikeVersion, g.ikeVersion, "", "ikeVersion", fact) /\ Heard(f.auth, g.auth, "", "auth", fact)
         /\ Heard(f.group, g.group, "", "group", fact) /\ Heard(f.mode, g.mode, "", "mode", fact)
         /\ Heard(f.protocol, g.protocol, "", "protocol", fact) /\ Heard(f.state, g.state, "", "state", fact)
         /\ Heard(f.direction, g.direction, "", "direction", fact) /\ Heard(f.selectors, g.selectors, "", "selectors", fact)
         /\ Heard(f.consistent, g.consistent, "", "consistent", fact) /\ Heard(f.pfs, g.pfs, "", "pfs", fact)
         /\ Heard(f.freshExchange, g.freshExchange, "", "freshExchange", fact) /\ Heard(f.replay, g.replay, "", "replay", fact)
         /\ Heard(f.ikeCipher, g.ikeCipher, "", "ikeCipher", fact) /\ Heard(f.ikeIntegrity, g.ikeIntegrity, "", "ikeIntegrity", fact)
         /\ Heard(f.cipher, g.cipher, "", "cipher", fact) /\ Heard(f.integrity, g.integrity, "", "integrity", fact)
<1>1. \A x \in Facts : Heard(f[x], g[x], Unknown(x), x, fact)
  BY DEF Learnt, Heard
<1>2. /\ "ikeVersion" \in Facts /\ Unknown("ikeVersion") = "" /\ "auth" \in Facts /\ Unknown("auth") = ""
      /\ "group" \in Facts /\ Unknown("group") = "" /\ "mode" \in Facts /\ Unknown("mode") = ""
      /\ "protocol" \in Facts /\ Unknown("protocol") = "" /\ "state" \in Facts /\ Unknown("state") = ""
      /\ "direction" \in Facts /\ Unknown("direction") = "" /\ "selectors" \in Facts /\ Unknown("selectors") = ""
      /\ "consistent" \in Facts /\ Unknown("consistent") = "" /\ "pfs" \in Facts /\ Unknown("pfs") = ""
      /\ "freshExchange" \in Facts /\ Unknown("freshExchange") = "" /\ "replay" \in Facts /\ Unknown("replay") = ""
      /\ "ikeCipher" \in Facts /\ Unknown("ikeCipher") = "" /\ "ikeIntegrity" \in Facts /\ Unknown("ikeIntegrity") = ""
      /\ "cipher" \in Facts /\ Unknown("cipher") = "" /\ "integrity" \in Facts /\ Unknown("integrity") = ""
  BY UnknownIs DEF Facts, Tokens, Flags
<1> QED
  BY <1>1, <1>2, Zenon

LEMMA LearntLengths ==
  ASSUME NEW f, NEW g, NEW fact, Learnt(f, g, fact)
  PROVE  /\ Heard(f.ikeLifetime, g.ikeLifetime, 0, "ikeLifetime", fact) /\ Heard(f.lifetime, g.lifetime, 0, "lifetime", fact)
         /\ Heard(f.window, g.window, 0, "window", fact) /\ Heard(f.ikeKey, g.ikeKey, 0, "ikeKey", fact)
         /\ Heard(f.ikeTag, g.ikeTag, 0, "ikeTag", fact) /\ Heard(f.key, g.key, 0, "key", fact)
         /\ Heard(f.tag, g.tag, 0, "tag", fact)
<1>1. \A x \in Facts : Heard(f[x], g[x], Unknown(x), x, fact)
  BY DEF Learnt, Heard
<1>2. /\ "ikeLifetime" \in Facts /\ Unknown("ikeLifetime") = 0 /\ "lifetime" \in Facts /\ Unknown("lifetime") = 0
      /\ "window" \in Facts /\ Unknown("window") = 0 /\ "ikeKey" \in Facts /\ Unknown("ikeKey") = 0
      /\ "ikeTag" \in Facts /\ Unknown("ikeTag") = 0 /\ "key" \in Facts /\ Unknown("key") = 0
      /\ "tag" \in Facts /\ Unknown("tag") = 0
  BY UnknownIs DEF Facts, Lengths
<1> QED
  BY <1>1, <1>2, Zenon

LEMMA LearntLists ==
  ASSUME NEW f, NEW g, NEW fact, Learnt(f, g, fact)
  PROVE  /\ Heard(f.ikeProposals, g.ikeProposals, {}, "ikeProposals", fact)
         /\ Heard(f.childProposals, g.childProposals, {}, "childProposals", fact)
<1>1. \A x \in Facts : Heard(f[x], g[x], Unknown(x), x, fact)
  BY DEF Learnt, Heard
<1>2. /\ "ikeProposals" \in Facts /\ Unknown("ikeProposals") = {} /\ "childProposals" \in Facts /\ Unknown("childProposals") = {}
  BY UnknownIs DEF Facts, Lists
<1> QED
  BY <1>1, <1>2, Zenon

----------------------------------------------------------------------------
\* What a control decides when one fact more is known.
Stands(c, old, new, fact) ==
  old \in Decided /\ old # new =>
    \/ old = "PASS" /\ new = "FAIL"
    \/ c \in {"IKE_SUITE", "CHILD_SUITE"} /\ fact \in {"ikeKey", "ikeTag", "key", "tag"} /\ new = "PASS"
    \/ c = "REPLAY" /\ fact = "direction"

LEMMA VerdictStands ==
  ASSUME NEW c, NEW fact, NEW applies, NEW known, NEW good, NEW applies2, NEW known2, NEW good2,
         applies /\ known => applies2 /\ known2 /\ (good2 => good)
  PROVE  Stands(c, Verdict(applies, known, good), Verdict(applies2, known2, good2), fact)
BY Zenon DEF Stands, Verdict, Decided

LEMMA SuiteControl ==
  ASSUME NEW c \in {"IKE_SUITE", "CHILD_SUITE"}, NEW fact,
         NEW cipher, NEW integrity, NEW key, NEW tag, NEW cipher2, NEW integrity2, NEW key2, NEW tag2,
         \/ cipher2 = cipher /\ integrity2 = integrity /\ key2 = key /\ tag2 = tag
         \/ cipher = ""
         \/ cipher2 = cipher /\ integrity = "" /\ key2 = key /\ tag2 = tag
         \/ cipher2 = cipher /\ integrity2 = integrity /\ key = 0 /\ key2 # 0 /\ tag2 = tag /\ fact \in {"ikeKey", "key"}
         \/ cipher2 = cipher /\ integrity2 = integrity /\ key2 = key /\ tag = 0 /\ tag2 # 0 /\ fact \in {"ikeTag", "tag"}
  PROVE  /\ Stands(c, AssessSuite(cipher, integrity, key, tag), AssessSuite(cipher2, integrity2, key2, tag2), fact)
         /\ cipher = "" => AssessSuite(cipher, integrity, key, tag) \notin Decided
<1> DEFINE old == AssessSuite(cipher, integrity, key, tag)
           new == AssessSuite(cipher2, integrity2, key2, tag2)
<1>1. old \in Decided => cipher # ""
  BY SuiteStands
<1>2. CASE cipher2 = cipher /\ integrity2 = integrity /\ key2 = key /\ tag2 = tag
  BY <1>1, <1>2 DEF Stands
<1>3. CASE cipher = ""
  BY <1>1, <1>3 DEF Stands
<1>4. CASE cipher2 = cipher /\ integrity = "" /\ key2 = key /\ tag2 = tag
  <2>1. old \in Decided => new = old \/ (old = "PASS" /\ new = "FAIL")
    <3> SUFFICES ASSUME AssessSuite(cipher, integrity, key, tag) \in Decided
                 PROVE  new = old \/ (old = "PASS" /\ new = "FAIL")
      OBVIOUS
    <3>1. StandsOrFails(AssessSuite(cipher, integrity, key, tag), AssessSuite(cipher, integrity2, key, tag))
      BY <1>4, IntegrityStands, Zenon
    <3> QED
      BY <1>4, <3>1 DEF StandsOrFails
  <2> QED
    BY <1>1, <2>1 DEF Stands
<1>5. CASE cipher2 = cipher /\ integrity2 = integrity /\ key = 0 /\ key2 # 0 /\ tag2 = tag /\ fact \in {"ikeKey", "key"}
  <2>1. old \in Decided => new \in Decided
    BY <1>5, SuiteStands
  <2> QED
    BY <1>1, <1>5, <2>1 DEF Stands, Decided
<1>6. CASE cipher2 = cipher /\ integrity2 = integrity /\ key2 = key /\ tag = 0 /\ tag2 # 0 /\ fact \in {"ikeTag", "tag"}
  <2>1. old \in Decided => new \in Decided
    BY <1>6, SuiteStands
  <2> QED
    BY <1>1, <1>6, <2>1 DEF Stands, Decided
<1> QED
  BY <1>1, <1>2, <1>3, <1>4, <1>5, <1>6

LEMMA IKESuiteStands ==
  ASSUME NEW type, NEW f, NEW g, NEW fact, Learnt(f, g, fact)
  PROVE  Stands("IKE_SUITE", AssessIKESuite(type, f), AssessIKESuite(type, g), fact)
<1> DEFINE S(h) == AssessSuite(h.ikeCipher, h.ikeIntegrity, h.ikeKey, h.ikeTag)
           Other == ~IsIKE(type)
<1>1. /\ AssessIKESuite(type, f) = IF Other /\ f.ikeCipher = "" THEN "NOT_APPLICABLE" ELSE S(f)
      /\ AssessIKESuite(type, g) = IF Other /\ g.ikeCipher = "" THEN "NOT_APPLICABLE" ELSE S(g)
  BY DEF AssessIKESuite
<1>2. /\ Stands("IKE_SUITE", S(f), S(g), fact)
      /\ f.ikeCipher = "" => S(f) \notin Decided
  <2>1. \/ g.ikeCipher = f.ikeCipher /\ g.ikeIntegrity = f.ikeIntegrity /\ g.ikeKey = f.ikeKey /\ g.ikeTag = f.ikeTag
        \/ f.ikeCipher = ""
        \/ g.ikeCipher = f.ikeCipher /\ f.ikeIntegrity = "" /\ g.ikeKey = f.ikeKey /\ g.ikeTag = f.ikeTag
        \/ /\ g.ikeCipher = f.ikeCipher /\ g.ikeIntegrity = f.ikeIntegrity
           /\ f.ikeKey = 0 /\ g.ikeKey # 0 /\ g.ikeTag = f.ikeTag /\ fact \in {"ikeKey", "key"}
        \/ /\ g.ikeCipher = f.ikeCipher /\ g.ikeIntegrity = f.ikeIntegrity
           /\ g.ikeKey = f.ikeKey /\ f.ikeTag = 0 /\ g.ikeTag # 0 /\ fact \in {"ikeTag", "tag"}
    <3>1. /\ Heard(f.ikeCipher, g.ikeCipher, "", "ikeCipher", fact)
          /\ Heard(f.ikeIntegrity, g.ikeIntegrity, "", "ikeIntegrity", fact)
          /\ Heard(f.ikeKey, g.ikeKey, 0, "ikeKey", fact) /\ Heard(f.ikeTag, g.ikeTag, 0, "ikeTag", fact)
      BY LearntTokens, LearntLengths, Zenon
    <3> QED
      BY <3>1 DEF Heard
  <2> QED
    BY <2>1, SuiteControl, Zenon
<1>3. f.ikeCipher # "" => g.ikeCipher # ""
  <2>1. Heard(f.ikeCipher, g.ikeCipher, "", "ikeCipher", fact)
    BY LearntTokens, Zenon
  <2> QED
    BY <2>1 DEF Heard
<1> HIDE DEF S, Other
<1>4. CASE f.ikeCipher = ""
  BY <1>1, <1>2, <1>4 DEF Stands, Decided
<1>5. CASE f.ikeCipher # ""
  BY <1>1, <1>2, <1>3, <1>5
<1> QED
  BY <1>4, <1>5

LEMMA ChildSuiteStands ==
  ASSUME NEW type, NEW f, NEW g, NEW fact, Learnt(f, g, fact)
  PROVE  Stands("CHILD_SUITE", AssessChildSuite(type, f), AssessChildSuite(type, g), fact)
<1> DEFINE S(h) == AssessSuite(h.cipher, h.integrity, h.key, h.tag)
           Never == type = "METADATA"
           Other == IsIKE(type)
<1>1. /\ AssessChildSuite(type, f) = IF Never \/ (Other /\ f.cipher = "") THEN "NOT_APPLICABLE" ELSE S(f)
      /\ AssessChildSuite(type, g) = IF Never \/ (Other /\ g.cipher = "") THEN "NOT_APPLICABLE" ELSE S(g)
  BY DEF AssessChildSuite
<1>2. /\ Stands("CHILD_SUITE", S(f), S(g), fact)
      /\ f.cipher = "" => S(f) \notin Decided
  <2>1. \/ g.cipher = f.cipher /\ g.integrity = f.integrity /\ g.key = f.key /\ g.tag = f.tag
        \/ f.cipher = ""
        \/ g.cipher = f.cipher /\ f.integrity = "" /\ g.key = f.key /\ g.tag = f.tag
        \/ /\ g.cipher = f.cipher /\ g.integrity = f.integrity
           /\ f.key = 0 /\ g.key # 0 /\ g.tag = f.tag /\ fact \in {"ikeKey", "key"}
        \/ /\ g.cipher = f.cipher /\ g.integrity = f.integrity
           /\ g.key = f.key /\ f.tag = 0 /\ g.tag # 0 /\ fact \in {"ikeTag", "tag"}
    <3>1. /\ Heard(f.cipher, g.cipher, "", "cipher", fact)
          /\ Heard(f.integrity, g.integrity, "", "integrity", fact)
          /\ Heard(f.key, g.key, 0, "key", fact) /\ Heard(f.tag, g.tag, 0, "tag", fact)
      BY LearntTokens, LearntLengths, Zenon
    <3> QED
      BY <3>1 DEF Heard
  <2> QED
    BY <2>1, SuiteControl, Zenon
<1>3. f.cipher # "" => g.cipher # ""
  <2>1. Heard(f.cipher, g.cipher, "", "cipher", fact)
    BY LearntTokens, Zenon
  <2> QED
    BY <2>1 DEF Heard
<1> HIDE DEF S, Never, Other
<1>4. CASE f.cipher = ""
  BY <1>1, <1>2, <1>4 DEF Stands, Decided
<1>5. CASE f.cipher # ""
  BY <1>1, <1>2, <1>3, <1>5 DEF Stands, Decided
<1> QED
  BY <1>4, <1>5

LEMMA VersionStands ==
  ASSUME NEW type, NEW f, NEW g, NEW fact, Learnt(f, g, fact)
  PROVE  Stands("IKE_VERSION", AssessIKEVersion(type, f), AssessIKEVersion(type, g), fact)
<1>1. /\ Heard(f.ikeVersion, g.ikeVersion, "", "ikeVersion", fact)
  BY LearntTokens, Zenon
<1> DEFINE A(h) == type # "METADATA" /\ (IsChild(type) => h.ikeVersion # "")
           K(h) == h.ikeVersion \in {"IKEV1", "IKEV2"}
           G(h) == h.ikeVersion = "IKEV2"
<1>2. AssessIKEVersion(type, f) = Verdict(A(f), K(f), G(f)) /\ AssessIKEVersion(type, g) = Verdict(A(g), K(g), G(g))
  BY Zenon DEF AssessIKEVersion
<1>3. A(f) /\ K(f) => A(g) /\ K(g) /\ (G(g) => G(f))
  BY <1>1 DEF Heard
<1> HIDE DEF A, K, G
<1>4. Stands("IKE_VERSION", Verdict(A(f), K(f), G(f)), Verdict(A(g), K(g), G(g)), fact)
  BY <1>3, VerdictStands, Zenon
<1> QED
  BY <1>2, <1>4

LEMMA AuthStands ==
  ASSUME NEW type, NEW f, NEW g, NEW fact, Learnt(f, g, fact)
  PROVE  Stands("AUTH", AssessAuthentication(type, f), AssessAuthentication(type, g), fact)
<1>1. /\ Heard(f.auth, g.auth, "", "auth", fact)
  BY LearntTokens, Zenon
<1> DEFINE A(h) == IsIKE(type) \/ h.auth # ""
           K(h) == h.auth \in {"PSK", "PUBKEY", "EAP", "NONE", "NULL"}
           G(h) == h.auth \notin {"NONE", "NULL"}
<1>2. AssessAuthentication(type, f) = Verdict(A(f), K(f), G(f)) /\ AssessAuthentication(type, g) = Verdict(A(g), K(g), G(g))
  BY Zenon DEF AssessAuthentication
<1>3. A(f) /\ K(f) => A(g) /\ K(g) /\ (G(g) => G(f))
  BY <1>1 DEF Heard
<1> HIDE DEF A, K, G
<1>4. Stands("AUTH", Verdict(A(f), K(f), G(f)), Verdict(A(g), K(g), G(g)), fact)
  BY <1>3, VerdictStands, Zenon
<1> QED
  BY <1>2, <1>4

LEMMA ParametersStand ==
  ASSUME NEW type, NEW f, NEW g, NEW fact, Learnt(f, g, fact)
  PROVE  Stands("SA_PARAMETERS", AssessSAParameters(type, f), AssessSAParameters(type, g), fact)
<1>1. /\ Heard(f.mode, g.mode, "", "mode", fact)
      /\ Heard(f.protocol, g.protocol, "", "protocol", fact)
      /\ Heard(f.state, g.state, "", "state", fact)
      /\ Heard(f.direction, g.direction, "", "direction", fact)
      /\ Heard(f.selectors, g.selectors, "", "selectors", fact)
      /\ Heard(f.consistent, g.consistent, "", "consistent", fact)
  BY LearntTokens, Zenon
<1> DEFINE A(h) == IsChild(type) \/ h.mode # "" \/ h.protocol # ""
           K(h) == "" \notin {h.mode, h.protocol, h.state, h.direction, h.selectors}
           G(h) == /\ h.mode \in {"TUNNEL", "TRANSPORT"} /\ h.protocol \in {"ESP", "AH"} /\ h.state = "INSTALLED"
                   /\ h.consistent # "false"
<1>2. AssessSAParameters(type, f) = Verdict(A(f), K(f), G(f)) /\ AssessSAParameters(type, g) = Verdict(A(g), K(g), G(g))
  BY Zenon DEF AssessSAParameters
<1>3. A(f) /\ K(f) => A(g) /\ K(g) /\ (G(g) => G(f))
  BY <1>1 DEF Heard
<1> HIDE DEF A, K, G
<1>4. Stands("SA_PARAMETERS", Verdict(A(f), K(f), G(f)), Verdict(A(g), K(g), G(g)), fact)
  BY <1>3, VerdictStands, Zenon
<1> QED
  BY <1>2, <1>4

LEMMA PFSStands ==
  ASSUME NEW type, NEW f, NEW g, NEW fact, Learnt(f, g, fact)
  PROVE  Stands("PFS_CONFIG", AssessPFS(type, f), AssessPFS(type, g), fact)
<1>1. /\ Heard(f.pfs, g.pfs, "", "pfs", fact)
  BY LearntTokens, Zenon
<1> DEFINE A(h) == IsChild(type) \/ h.pfs # ""
           K(h) == h.pfs # ""
           G(h) == h.pfs = "true"
<1>2. AssessPFS(type, f) = Verdict(A(f), K(f), G(f)) /\ AssessPFS(type, g) = Verdict(A(g), K(g), G(g))
  BY Zenon DEF AssessPFS
<1>3. A(f) /\ K(f) => A(g) /\ K(g) /\ (G(g) => G(f))
  BY <1>1 DEF Heard
<1> HIDE DEF A, K, G
<1>4. Stands("PFS_CONFIG", Verdict(A(f), K(f), G(f)), Verdict(A(g), K(g), G(g)), fact)
  BY <1>3, VerdictStands, Zenon
<1> QED
  BY <1>2, <1>4

LEMMA FreshExchangeStands ==
  ASSUME NEW type, NEW f, NEW g, NEW fact, Learnt(f, g, fact)
  PROVE  Stands("PFS_EXCHANGE", AssessFreshExchange(f), AssessFreshExchange(g), fact)
<1>1. /\ Heard(f.freshExchange, g.freshExchange, "", "freshExchange", fact)
  BY LearntTokens, Zenon
<1> DEFINE A(h) == h.freshExchange # ""
           K(h) == TRUE
           G(h) == h.freshExchange = "true"
<1>2. AssessFreshExchange(f) = Verdict(A(f), K(f), G(f)) /\ AssessFreshExchange(g) = Verdict(A(g), K(g), G(g))
  BY Zenon DEF AssessFreshExchange
<1>3. A(f) /\ K(f) => A(g) /\ K(g) /\ (G(g) => G(f))
  BY <1>1 DEF Heard
<1> HIDE DEF A, K, G
<1>4. Stands("PFS_EXCHANGE", Verdict(A(f), K(f), G(f)), Verdict(A(g), K(g), G(g)), fact)
  BY <1>3, VerdictStands, Zenon
<1> QED
  BY <1>2, <1>4

LEMMA IKELifetimeStands ==
  ASSUME NEW type, NEW f, NEW g, NEW fact, Learnt(f, g, fact), NEW limit
  PROVE  Stands("IKE_LIFETIME", AssessLifetime(IsIKE(type), f.ikeLifetime, limit), AssessLifetime(IsIKE(type), g.ikeLifetime, limit), fact)
<1>1. Heard(f.ikeLifetime, g.ikeLifetime, 0, "ikeLifetime", fact)
  BY LearntLengths, Zenon
<1> DEFINE A(h) == IsIKE(type) \/ h.ikeLifetime # 0
           K(h) == h.ikeLifetime # 0
           G(h) == h.ikeLifetime <= limit
<1>2. /\ AssessLifetime(IsIKE(type), f.ikeLifetime, limit) = Verdict(A(f), K(f), G(f))
      /\ AssessLifetime(IsIKE(type), g.ikeLifetime, limit) = Verdict(A(g), K(g), G(g))
  BY Zenon DEF AssessLifetime
<1>3. A(f) /\ K(f) => A(g) /\ K(g) /\ (G(g) => G(f))
  BY <1>1 DEF Heard
<1> HIDE DEF A, K, G
<1>4. Stands("IKE_LIFETIME", Verdict(A(f), K(f), G(f)), Verdict(A(g), K(g), G(g)), fact)
  BY <1>3, VerdictStands, Zenon
<1> QED
  BY <1>2, <1>4

LEMMA ChildLifetimeStands ==
  ASSUME NEW type, NEW f, NEW g, NEW fact, Learnt(f, g, fact), NEW limit
  PROVE  Stands("CHILD_LIFETIME", AssessLifetime(IsChild(type), f.lifetime, limit), AssessLifetime(IsChild(type), g.lifetime, limit), fact)
<1>1. Heard(f.lifetime, g.lifetime, 0, "lifetime", fact)
  BY LearntLengths, Zenon
<1> DEFINE A(h) == IsChild(type) \/ h.lifetime # 0
           K(h) == h.lifetime # 0
           G(h) == h.lifetime <= limit
<1>2. /\ AssessLifetime(IsChild(type), f.lifetime, limit) = Verdict(A(f), K(f), G(f))
      /\ AssessLifetime(IsChild(type), g.lifetime, limit) = Verdict(A(g), K(g), G(g))
  BY Zenon DEF AssessLifetime
<1>3. A(f) /\ K(f) => A(g) /\ K(g) /\ (G(g) => G(f))
  BY <1>1 DEF Heard
<1> HIDE DEF A, K, G
<1>4. Stands("CHILD_LIFETIME", Verdict(A(f), K(f), G(f)), Verdict(A(g), K(g), G(g)), fact)
  BY <1>3, VerdictStands, Zenon
<1> QED
  BY <1>2, <1>4

LEMMA DHStands ==
  ASSUME NEW type, NEW f, NEW g, NEW fact, Learnt(f, g, fact)
  PROVE  Stands("DH", AssessDH(type, f), AssessDH(type, g), fact)
<1>1. Heard(f.group, g.group, "", "group", fact)
  BY LearntTokens, Zenon
<1>2. GroupStatus("") \notin Decided
  BY DEF GroupStatus, Verdict, Decided
<1>3. CASE g.group = f.group
  <2>1. AssessDH(type, g) = AssessDH(type, f)
    BY <1>3 DEF AssessDH
  <2> QED
    BY <2>1 DEF Stands
<1>4. CASE f.group = ""
  <2>1. AssessDH(type, f) \notin Decided
    BY <1>2, <1>4 DEF AssessDH, Decided
  <2> QED
    BY <2>1 DEF Stands
<1> QED
  BY <1>1, <1>3, <1>4 DEF Heard

LEMMA ReplayStands ==
  ASSUME NEW type, NEW f, NEW g, NEW fact, Learnt(f, g, fact)
  PROVE  Stands("REPLAY", AssessReplay(type, f), AssessReplay(type, g), fact)
<1>1. /\ Heard(f.replay, g.replay, "", "replay", fact) /\ Heard(f.direction, g.direction, "", "direction", fact)
      /\ Heard(f.window, g.window, 0, "window", fact)
  BY LearntTokens, LearntLengths, Zenon
<1> DEFINE A(h) == (IsChild(type) \/ h.replay # "") /\ h.direction # "OUT"
           K(h) == h.replay # "" /\ h.window # 0
           G(h) == h.replay = "true"
<1>2. AssessReplay(type, f) = Verdict(A(f), K(f), G(f)) /\ AssessReplay(type, g) = Verdict(A(g), K(g), G(g))
  BY Zenon DEF AssessReplay
<1>3. fact # "direction" /\ A(f) /\ K(f) => A(g) /\ K(g) /\ (G(g) => G(f))
  BY <1>1 DEF Heard
<1> HIDE DEF A, K, G
<1>4. CASE fact = "direction"
  BY <1>4 DEF Stands
<1>5. CASE fact # "direction"
  <2>1. Stands("REPLAY", Verdict(A(f), K(f), G(f)), Verdict(A(g), K(g), G(g)), fact)
    BY <1>3, <1>5, VerdictStands, Zenon
  <2> QED
    BY <1>2, <2>1
<1> QED
  BY <1>4, <1>5

LEMMA PolicyStands ==
  ASSUME NEW type, NEW f, NEW g, NEW m, NEW fact, Learnt(f, g, fact)
  PROVE  /\ Stands("IKE_POLICY", Rules(type, f, m)["IKE_POLICY"], Rules(type, g, m)["IKE_POLICY"], fact)
         /\ Stands("CHILD_POLICY", Rules(type, f, m)["CHILD_POLICY"], Rules(type, g, m)["CHILD_POLICY"], fact)
<1>1. /\ Heard(f.ikeProposals, g.ikeProposals, {}, "ikeProposals", fact)
      /\ Heard(f.childProposals, g.childProposals, {}, "childProposals", fact)
  BY LearntLists, Zenon
<1> DEFINE P(h) == Rules(type, h, m)["IKE_POLICY"]
           Q(h) == Rules(type, h, m)["CHILD_POLICY"]
<1>2. P(f) = P(g) \/ P(f) = "NOT_APPLICABLE"
  <2>1. f.ikeProposals = g.ikeProposals \/ f.ikeProposals = {}
    BY <1>1 DEF Heard
  <2>2. f.ikeProposals = {} => P(f) = "NOT_APPLICABLE"
    BY PoliciesAre
  <2>3. f.ikeProposals = g.ikeProposals => P(f) = P(g)
    BY PoliciesStay
  <2> QED
    BY <2>1, <2>2, <2>3
<1>3. Q(f) = Q(g) \/ Q(f) = "NOT_APPLICABLE"
  <2>1. f.childProposals = g.childProposals \/ f.childProposals = {}
    BY <1>1 DEF Heard
  <2>2. f.childProposals = {} => Q(f) = "NOT_APPLICABLE"
    BY PoliciesAre
  <2>3. f.childProposals = g.childProposals => Q(f) = Q(g)
    BY PoliciesStay
  <2> QED
    BY <2>1, <2>2, <2>3
<1> HIDE DEF P, Q
<1>4. Stands("IKE_POLICY", P(f), P(g), fact) /\ Stands("CHILD_POLICY", Q(f), Q(g), fact)
  BY <1>2, <1>3 DEF Stands, Decided
<1> QED
  BY <1>4 DEF P, Q

\* One more fact about a resource takes no decision of a control back.
LEMMA ControlsStand ==
  ASSUME NEW type, NEW f, NEW g, NEW m, NEW fact, Learnt(f, g, fact), NEW c \in Controls
  PROVE  Stands(c, Rules(type, f, m)[c], Rules(type, g, m)[c], fact)
<1> DEFINE old == Rules(type, f, m)
           new == Rules(type, g, m)
           Holds(d) == Stands(d, old[d], new[d], fact)
<1>1. /\ old["IKE_VERSION"] = AssessIKEVersion(type, f) /\ old["IKE_SUITE"] = AssessIKESuite(type, f)
      /\ old["CHILD_SUITE"] = AssessChildSuite(type, f) /\ old["AUTH"] = AssessAuthentication(type, f)
      /\ old["DH"] = AssessDH(type, f) /\ old["SA_PARAMETERS"] = AssessSAParameters(type, f)
      /\ old["IKE_LIFETIME"] = AssessLifetime(IsIKE(type), f.ikeLifetime, 86400)
      /\ old["CHILD_LIFETIME"] = AssessLifetime(IsChild(type), f.lifetime, 3600)
      /\ old["REPLAY"] = AssessReplay(type, f) /\ old["PFS_CONFIG"] = AssessPFS(type, f)
      /\ old["PFS_EXCHANGE"] = AssessFreshExchange(f) /\ old["METADATA"] = AssessMetadata(type, m)
  BY RulesAre
<1>2. /\ new["IKE_VERSION"] = AssessIKEVersion(type, g) /\ new["IKE_SUITE"] = AssessIKESuite(type, g)
      /\ new["CHILD_SUITE"] = AssessChildSuite(type, g) /\ new["AUTH"] = AssessAuthentication(type, g)
      /\ new["DH"] = AssessDH(type, g) /\ new["SA_PARAMETERS"] = AssessSAParameters(type, g)
      /\ new["IKE_LIFETIME"] = AssessLifetime(IsIKE(type), g.ikeLifetime, 86400)
      /\ new["CHILD_LIFETIME"] = AssessLifetime(IsChild(type), g.lifetime, 3600)
      /\ new["REPLAY"] = AssessReplay(type, g) /\ new["PFS_CONFIG"] = AssessPFS(type, g)
      /\ new["PFS_EXCHANGE"] = AssessFreshExchange(g) /\ new["METADATA"] = AssessMetadata(type, m)
  BY RulesAre
<1>a. Holds("IKE_POLICY") /\ Holds("CHILD_POLICY")
  BY PolicyStands, Zenon
<1> HIDE DEF old, new
<1>b. Holds("IKE_VERSION")
  BY <1>1, <1>2, VersionStands
<1>c. Holds("IKE_SUITE")
  BY <1>1, <1>2, IKESuiteStands
<1>d. Holds("CHILD_SUITE")
  BY <1>1, <1>2, ChildSuiteStands
<1>e. Holds("AUTH")
  BY <1>1, <1>2, AuthStands
<1>f. Holds("DH")
  BY <1>1, <1>2, DHStands
<1>g. Holds("SA_PARAMETERS")
  BY <1>1, <1>2, ParametersStand
<1>h. Holds("IKE_LIFETIME")
  <2> DEFINE limit == 86400
  <2>1. old["IKE_LIFETIME"] = AssessLifetime(IsIKE(type), f.ikeLifetime, limit)
    BY <1>1
  <2>2. new["IKE_LIFETIME"] = AssessLifetime(IsIKE(type), g.ikeLifetime, limit)
    BY <1>2
  <2> HIDE DEF limit
  <2> QED
    BY <2>1, <2>2, IKELifetimeStands
<1>i. Holds("CHILD_LIFETIME")
  <2> DEFINE limit == 3600
  <2>1. old["CHILD_LIFETIME"] = AssessLifetime(IsChild(type), f.lifetime, limit)
    BY <1>1
  <2>2. new["CHILD_LIFETIME"] = AssessLifetime(IsChild(type), g.lifetime, limit)
    BY <1>2
  <2> HIDE DEF limit
  <2> QED
    BY <2>1, <2>2, ChildLifetimeStands
<1>j. Holds("REPLAY")
  BY <1>1, <1>2, ReplayStands
<1>k. Holds("PFS_CONFIG")
  BY <1>1, <1>2, PFSStands
<1>l. Holds("PFS_EXCHANGE")
  BY <1>1, <1>2, FreshExchangeStands
<1>m. Holds("METADATA")
  BY <1>1, <1>2 DEF Stands
<1> HIDE DEF Holds
<1>n. \A d \in Controls : Holds(d)
  BY <1>a, <1>b, <1>c, <1>d, <1>e, <1>f, <1>g, <1>h, <1>i, <1>j, <1>k, <1>l, <1>m DEF Controls
<1> QED
  BY <1>n DEF Holds, old, new

\* Every scope is assessed as it should be.
AllAssessed ==
  /\ \A s \in DOMAIN perScope : Assessed(perScope[s])
  /\ \A r \in Resources \cap DOMAIN perScope :
       perScope[r].status = Rules(TypeOf[r], FactsOf(facts[r]), IF TypeOf[r] = "ANALYSIS" THEN metadata ELSE Unseen)

LEMMA AllAreAssessed == ScoreInv => AllAssessed
<1> SUFFICES ASSUME ScoreInv PROVE AllAssessed
  OBVIOUS
<1>1. ASSUME NEW r \in Resources \cap DOMAIN perScope
      PROVE  perScope[r].status = Rules(TypeOf[r], FactsOf(facts[r]), IF TypeOf[r] = "ANALYSIS" THEN metadata ELSE Unseen)
  <2> DEFINE m == IF TypeOf[r] = "ANALYSIS" THEN metadata ELSE Unseen
  <2>1. perScope[r] = Assess(TypeOf[r], FactsOf(facts[r]), m)
    BY ScopesAssessed
  <2> HIDE DEF m
  <2>2. Assess(TypeOf[r], FactsOf(facts[r]), m).status = Rules(TypeOf[r], FactsOf(facts[r]), m)
    BY AssessIsAssessed, ZenonT(30)
  <2> QED
    BY <2>1, <2>2 DEF m
<1> QED
  BY <1>1, ScopesAssessed DEF AllAssessed

\* A step that tells one fact more of a resource is one more fact to its controls.
LEMMA LearnsOneFact ==
  ASSUME ScoreInv, NEW r \in Resources, NEW fact \in DOMAIN facts[r], Learns(r, fact)
  PROVE  Learnt(FactsOf(facts[r]), FactsOf(facts'[r]), fact)
<1> DEFINE p == facts[r]
           q == facts'[r]
<1>1. p = [x \in DOMAIN ValuesOf[r] |-> p[x]] /\ DOMAIN p \subseteq Facts
  BY ScoreConstants DEF ScoreInv, ProfilesKept
<1>2. p[fact] = Unknown(fact) /\ q = [p EXCEPT ![fact] = q[fact]] /\ q # p
  BY DEF Learns
<1> HIDE DEF p, q
<1>3. DOMAIN q = DOMAIN p /\ \A x \in DOMAIN p \ {fact} : q[x] = p[x]
  BY <1>1, <1>2
<1>4. fact \in DOMAIN p
  BY DEF p
<1>5. q[fact] # Unknown(fact)
  <2> SUFFICES ASSUME q[fact] = p[fact] PROVE FALSE
    BY <1>2
  <2>1. p = [x \in DOMAIN p |-> p[x]] /\ q = [x \in DOMAIN p |-> q[x]]
    BY <1>1, <1>2
  <2>2. \A x \in DOMAIN p : q[x] = p[x]
    BY <1>3
  <2> QED
    BY <1>2, <2>1, <2>2
<1>6. FactsOf(p) = [x \in Facts |-> IF x \in DOMAIN p THEN p[x] ELSE Unknown(x)]
  BY DEF FactsOf
<1>7. FactsOf(q) = [x \in Facts |-> IF x \in DOMAIN p THEN q[x] ELSE Unknown(x)]
  BY <1>3 DEF FactsOf
<1>8. fact \in Facts /\ FactsOf(p)[fact] = Unknown(fact) /\ FactsOf(q)[fact] # Unknown(fact)
  BY <1>1, <1>2, <1>4, <1>5, <1>6, <1>7
<1>9. \A x \in Facts \ {fact} : FactsOf(q)[x] = FactsOf(p)[x]
  BY <1>3, <1>6, <1>7
<1>10. Learnt(FactsOf(p), FactsOf(q), fact)
  BY <1>8, <1>9 DEF Learnt
<1> QED
  BY <1>10 DEF p, q

LEMMA BoundsAreTightened ==
  ASSUME AllAssessed, AllAssessed'
  PROVE  \A s \in DOMAIN perScope \cap DOMAIN perScope' :
           perScope[s] # perScope'[s] /\ Settles(perScope[s], perScope'[s]) =>
             Leq(Lower(perScope[s]), Lower(perScope'[s])) /\ Leq(Upper(perScope'[s]), Upper(perScope[s]))
<1>1. \A s \in DOMAIN perScope : Assessed(perScope[s])
  BY DEF AllAssessed
<1>2. \A s \in DOMAIN perScope' : Assessed(perScope'[s])
  BY DEF AllAssessed
<1> QED
  BY <1>1, <1>2, BoundsNarrow

LEMMA DecisionsAreKept ==
  ASSUME ScoreInv, AllAssessed, AllAssessed'
  PROVE  \A r \in Resources \cap DOMAIN perScope \cap DOMAIN perScope' :
           \A fact \in DOMAIN facts[r], c \in {c \in Controls : perScope[r].status[c] # perScope'[r].status[c]} :
             Learns(r, fact) /\ perScope[r].status[c] \in {"PASS", "FAIL"} =>
               \/ perScope[r].status[c] = "PASS" /\ perScope'[r].status[c] = "FAIL"
               \/ c \in {"IKE_SUITE", "CHILD_SUITE"} /\ fact \in {"ikeKey", "ikeTag", "key", "tag"} /\ perScope'[r].status[c] = "PASS"
               \/ c = "REPLAY" /\ fact = "direction"
<1> SUFFICES ASSUME NEW r \in Resources, r \in DOMAIN perScope, r \in DOMAIN perScope',
                    NEW fact \in DOMAIN facts[r], Learns(r, fact), NEW c \in Controls
             PROVE  Stands(c, perScope[r].status[c], perScope'[r].status[c], fact)
  BY Zenon DEF Stands, Decided
<1> DEFINE m == IF TypeOf[r] = "ANALYSIS" THEN metadata ELSE Unseen
           f == FactsOf(facts[r])
           g == FactsOf(facts'[r])
<1>1. perScope[r].status = Rules(TypeOf[r], f, m)
  BY DEF AllAssessed
<1>2. perScope'[r].status = Rules(TypeOf[r], g, m)
  <2>1. metadata' = metadata
    BY DEF Learns
  <2>2. perScope'[r].status = Rules(TypeOf[r], g, IF TypeOf[r] = "ANALYSIS" THEN metadata' ELSE Unseen)
    BY DEF AllAssessed
  <2> QED
    BY <2>1, <2>2
<1>3. Learnt(f, g, fact)
  BY LearnsOneFact
<1> HIDE DEF m, f, g
<1>4. Stands(c, Rules(TypeOf[r], f, m)[c], Rules(TypeOf[r], g, m)[c], fact)
  BY <1>3, ControlsStand
<1> QED
  BY <1>1, <1>2, <1>4

\* To learn more about a deployment narrows its score and takes back no decision:
\* settling what was unknown keeps the bounds of a resource within the earlier
\* ones, and one more fact leaves every verdict, but for a pass that a fact
\* refutes, a length that corrects a cipher's name, and a state that turns out to
\* be outbound (Assess and the controls of security/assessment.go).
THEOREM KnowledgeHelping == ScoreSpec => KnowledgeHelps
<1>1. AllAssessed /\ AllAssessed' =>
        [\A s \in DOMAIN perScope \cap DOMAIN perScope' :
           perScope[s] # perScope'[s] /\ Settles(perScope[s], perScope'[s]) =>
             Leq(Lower(perScope[s]), Lower(perScope'[s])) /\ Leq(Upper(perScope'[s]), Upper(perScope[s]))]_scoreVars
  BY BoundsAreTightened
<1>2. ScoreInv /\ AllAssessed /\ AllAssessed' =>
        [\A r \in Resources \cap DOMAIN perScope \cap DOMAIN perScope' :
           \A fact \in DOMAIN facts[r], c \in {c \in Controls : perScope[r].status[c] # perScope'[r].status[c]} :
             Learns(r, fact) /\ perScope[r].status[c] \in {"PASS", "FAIL"} =>
               \/ perScope[r].status[c] = "PASS" /\ perScope'[r].status[c] = "FAIL"
               \/ c \in {"IKE_SUITE", "CHILD_SUITE"} /\ fact \in {"ikeKey", "ikeTag", "key", "tag"} /\ perScope'[r].status[c] = "PASS"
               \/ c = "REPLAY" /\ fact = "direction"]_scoreVars
  BY DecisionsAreKept
<1>3. ScoreSpec => BoundsTighten
  BY <1>1, ScoreInvariance, AllAreAssessed, PTL DEF BoundsTighten
<1>4. ScoreSpec => DecisionsStand
  BY <1>2, ScoreInvariance, AllAreAssessed, PTL DEF DecisionsStand
<1> QED
  BY <1>3, <1>4, PTL DEF KnowledgeHelps
==============================================================================
