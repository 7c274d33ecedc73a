------------------------------- MODULE Reports -------------------------------
(***************************************************************************)
(* Reports of one analysis (core/report/service.go) and the temporary       *)
(* artifacts that hold them (core/artifact/service.go).  Generate answers   *)
(* while a goroutine renders; clients delete reports, delete artifacts and  *)
(* start cleanups meanwhile, and the renderer has a deadline of 30 seconds. *)
(* What a report says is left out.                                          *)
(* An operator Op_Word is a plausible bug in Op; no specification uses it.  *)
(***************************************************************************)
EXTENDS Naturals, FiniteSets

CONSTANTS
  Reports,   \* identifiers of reports, and of the one artifact each may get
  NoReport

ASSUME ReportConstants == NoReport \notin Reports

VARIABLES
  report,      \* Service.records: its state, and whether ArtifactID is set
  renderer,    \* where Generate and then renderReport are with it
  late,        \* the deadline of its renderer has passed
  deleter,     \* a Delete under way: with or without an artifact in its copy, or past it
  artifact,    \* artifact.Service.records: absent, or there, referenced or not
  cleanup,     \* the artifacts a Cleanup under way has still to delete
  shown,       \* the workspace: whether the analysis is still its own; its ReportID and ReportStatus
  removed,     \* history: artifacts that were deleted without their report
  overtaken    \* history: reports whose Delete had copied no artifact when the renderer finished

reportVars == <<report, renderer, late, deleter, artifact, cleanup, shown, removed, overtaken>>

States == {"NONE", "GENERATING", "READY", "FAILED", "DELETED"}

ReportInit ==
  /\ report = [r \in Reports |-> [state |-> "NONE", artifact |-> FALSE]]
  /\ renderer = [r \in Reports |-> "none"] /\ deleter = [r \in Reports |-> "none"]
  /\ artifact = [r \in Reports |-> "absent"]
  /\ shown = [current |-> TRUE, report |-> NoReport, status |-> "NONE"]
  /\ late = {} /\ cleanup = {} /\ removed = {} /\ overtaken = {}

----------------------------------------------------------------------------
\* bindWorkspace: nothing happens once the workspace is about another analysis.
Bound(r, status) ==
  IF ~shown.current THEN shown
  ELSE IF status = "DELETED" /\ shown.report = r
       THEN [shown EXCEPT !.report = NoReport, !.status = "NONE"]
       ELSE [shown EXCEPT !.report = r, !.status = status]

\* Generate: the record, then the workspace (outside the mutex), then the goroutine.
Generate(r) ==
  /\ renderer[r] = "none"
  /\ report' = [report EXCEPT ![r].state = "GENERATING"]
  /\ renderer' = [renderer EXCEPT ![r] = "binding"]
  /\ UNCHANGED <<late, deleter, artifact, cleanup, shown, removed, overtaken>>

BindGenerating(r) ==
  /\ renderer[r] = "binding"
  /\ renderer' = [renderer EXCEPT ![r] = "rendering"]
  /\ shown' = Bound(r, "GENERATING")
  /\ UNCHANGED <<report, late, deleter, artifact, cleanup, removed, overtaken>>

\* The renderer's deadline: from then on every call it makes fails.
Expire(r) ==
  /\ renderer[r] \in {"rendering", "created", "referenced", "discarding"} /\ r \notin late
  /\ late' = late \cup {r}
  /\ UNCHANGED <<report, renderer, deleter, artifact, cleanup, shown, removed, overtaken>>

\* fusion.List or artifacts.Create fails: the record is FAILED whatever it was.
RenderFails_Silent(r) ==
  /\ renderer[r] = "rendering"
  /\ renderer' = [renderer EXCEPT ![r] = "done"]
  /\ report' = [report EXCEPT ![r].state = "FAILED"]
  /\ UNCHANGED <<late, deleter, artifact, cleanup, shown, removed, overtaken>>
RenderFails_Forgets(r) ==
  /\ renderer[r] = "rendering"
  /\ renderer' = [renderer EXCEPT ![r] = "done"]
  /\ UNCHANGED <<report, late, deleter, artifact, cleanup, shown, removed, overtaken>>
RenderFails(r) ==
  /\ renderer[r] = "rendering"
  /\ renderer' = [renderer EXCEPT ![r] = "done"]
  /\ report' = [report EXCEPT ![r].state = "FAILED"]
  /\ shown' = Bound(r, "FAILED")
  /\ UNCHANGED <<late, deleter, artifact, cleanup, removed, overtaken>>

CreateArtifact(r) ==
  /\ renderer[r] = "rendering" /\ r \notin late
  /\ renderer' = [renderer EXCEPT ![r] = "created"]
  /\ artifact' = [artifact EXCEPT ![r] = "unreferenced"]
  /\ UNCHANGED <<report, late, deleter, cleanup, shown, removed, overtaken>>

\* SetReferenced, whose error is ignored.
SetReferenced(r) ==
  /\ renderer[r] = "created"
  /\ renderer' = [renderer EXCEPT ![r] = "referenced"]
  /\ artifact' = IF r \in late \/ artifact[r] = "absent" THEN artifact ELSE [artifact EXCEPT ![r] = "referenced"]
  /\ UNCHANGED <<report, late, deleter, cleanup, shown, removed, overtaken>>

\* The renderer's last section, under the mutex.
Finish_Unchecked(r) ==
  /\ renderer[r] = "referenced"
  /\ renderer' = [renderer EXCEPT ![r] = "done"]
  /\ report' = [report EXCEPT ![r] = [state |-> "READY", artifact |-> TRUE]]
  /\ shown' = Bound(r, "READY")
  /\ overtaken' = IF deleter[r] = "without" THEN overtaken \cup {r} ELSE overtaken
  /\ UNCHANGED <<late, deleter, artifact, cleanup, removed>>
Finish(r) ==
  /\ renderer[r] = "referenced"
  /\ IF report[r].state = "DELETED"
     THEN renderer' = [renderer EXCEPT ![r] = "discarding"] /\ UNCHANGED <<report, shown, overtaken>>
     ELSE /\ renderer' = [renderer EXCEPT ![r] = "done"]
          /\ report' = [report EXCEPT ![r] = [state |-> "READY", artifact |-> TRUE]]
          /\ shown' = Bound(r, "READY")
          /\ overtaken' = IF deleter[r] = "without" THEN overtaken \cup {r} ELSE overtaken
  /\ UNCHANGED <<late, deleter, artifact, cleanup, removed>>

\* artifact.Service.Delete: the record goes first; the removal of its file may
\* fail after that, so that Delete answers with an error.
DropArtifact(r) ==
  /\ artifact[r] # "absent"
  /\ artifact' = [artifact EXCEPT ![r] = "absent"]

DiscardArtifact_Forgets(r) ==
  /\ renderer[r] = "discarding"
  /\ renderer' = [renderer EXCEPT ![r] = "done"]
  /\ UNCHANGED <<report, late, deleter, artifact, cleanup, shown, removed, overtaken>>
DiscardArtifact(r) ==
  /\ renderer[r] = "discarding"
  /\ renderer' = [renderer EXCEPT ![r] = "done"]
  /\ IF r \in late \/ artifact[r] = "absent" THEN UNCHANGED artifact ELSE DropArtifact(r)
  /\ UNCHANGED <<report, late, deleter, cleanup, shown, removed, overtaken>>

----------------------------------------------------------------------------
\* Delete: a copy of the record, then its artifact, then the record.  A client
\* knows a report once it is bound.
DeleteReport(r) ==
  /\ report[r].state # "NONE" /\ renderer[r] # "binding" /\ deleter[r] = "none"
  /\ deleter' = [deleter EXCEPT ![r] = IF report[r].artifact THEN "with" ELSE "without"]
  /\ UNCHANGED <<report, renderer, late, artifact, cleanup, shown, removed, overtaken>>

\* An error ends the Delete: the artifact is gone already, or its file stays.
DeleteItsArtifact(r) ==
  /\ deleter[r] = "with"
  /\ \/ DropArtifact(r) /\ deleter' = [deleter EXCEPT ![r] = "past"] /\ UNCHANGED removed
     \/ DropArtifact(r) /\ deleter' = [deleter EXCEPT ![r] = "none"] /\ removed' = removed \cup {r}
     \/ artifact[r] = "absent" /\ deleter' = [deleter EXCEPT ![r] = "none"] /\ UNCHANGED <<artifact, removed>>
  /\ UNCHANGED <<report, renderer, late, cleanup, shown, overtaken>>

MarkDeleted_Skipped(r) ==
  /\ deleter[r] \in {"without", "past"}
  /\ deleter' = [deleter EXCEPT ![r] = "none"]
  /\ shown' = Bound(r, "DELETED")
  /\ UNCHANGED <<report, renderer, late, artifact, cleanup, removed, overtaken>>
MarkDeleted(r) ==
  /\ deleter[r] \in {"without", "past"}
  /\ deleter' = [deleter EXCEPT ![r] = "none"]
  /\ report' = [report EXCEPT ![r].state = "DELETED"]
  /\ shown' = Bound(r, "DELETED")
  /\ UNCHANGED <<renderer, late, artifact, cleanup, removed, overtaken>>

----------------------------------------------------------------------------
\* The artifact service's own clients.

DeleteArtifact(r) ==
  /\ DropArtifact(r) /\ removed' = removed \cup {r}
  /\ UNCHANGED <<report, renderer, late, deleter, cleanup, shown, overtaken>>

\* Cleanup lists what expires before a time the client chose, then deletes one
\* after the other and gives up at the first error.
StartCleanup(all) ==
  /\ cleanup = {}
  /\ cleanup' = {r \in Reports : artifact[r] = "unreferenced" \/ (all /\ artifact[r] = "referenced")}
  /\ cleanup' # {}
  /\ UNCHANGED <<report, renderer, late, deleter, artifact, shown, removed, overtaken>>

CleanOne(r) ==
  /\ r \in cleanup
  /\ \/ DropArtifact(r) /\ removed' = removed \cup {r} /\ cleanup' \in {cleanup \ {r}, {}}
     \/ artifact[r] = "absent" /\ cleanup' = {} /\ UNCHANGED <<artifact, removed>>
  /\ UNCHANGED <<report, renderer, late, deleter, shown, overtaken>>

\* The workspace is reset.
LeaveWorkspace ==
  /\ shown.current
  /\ shown' = [current |-> FALSE, report |-> NoReport, status |-> "NONE"]
  /\ UNCHANGED <<report, renderer, late, deleter, artifact, cleanup, removed, overtaken>>

Render(r) ==
  BindGenerating(r) \/ RenderFails(r) \/ CreateArtifact(r) \/ SetReferenced(r) \/ Finish(r) \/ DiscardArtifact(r)

ReportNext ==
  \/ \E r \in Reports : \/ Generate(r) \/ Render(r) \/ Expire(r)
                        \/ DeleteReport(r) \/ DeleteItsArtifact(r) \/ MarkDeleted(r)
                        \/ DeleteArtifact(r) \/ CleanOne(r)
  \/ \E all \in BOOLEAN : StartCleanup(all)
  \/ LeaveWorkspace

\* Of the renderers, one or the other goes on.
ReportFairness == WF_reportVars(\E r \in Reports : Render(r))
ReportSpec == ReportInit /\ [][ReportNext]_reportVars /\ ReportFairness

----------------------------------------------------------------------------
\* Properties.

\* Types.
ReportTypeOK ==
  /\ report \in [Reports -> [state : States, artifact : BOOLEAN]]
  /\ renderer \in [Reports -> {"none", "binding", "rendering", "created", "referenced", "discarding", "done"}]
  /\ deleter \in [Reports -> {"none", "with", "without", "past"}]
  /\ artifact \in [Reports -> {"absent", "unreferenced", "referenced"}]
  /\ {late, cleanup, removed, overtaken} \subseteq SUBSET Reports
  /\ shown \in [current : BOOLEAN, report : Reports \cup {NoReport}, status : States]

\* An artifact is held by a READY report or by the renderer that made it.  One
\* that nobody holds was left by a Delete the renderer overtook, or by a
\* renderer that found its report deleted when its deadline had passed.
ArtifactsAreHeld ==
  \A r \in Reports : artifact[r] # "absent" =>
    \/ report[r].state = "READY"
    \/ renderer[r] \in {"created", "referenced", "discarding"}
    \/ r \in overtaken \/ r \in late

\* A READY report can be opened, unless its artifact was deleted by itself (or its
\* own Delete failed half-way), or a Delete of the report is under way.
ReadyIsOpenable ==
  \A r \in Reports : report[r].state = "READY" /\ artifact[r] = "absent" => r \in removed \/ deleter[r] = "past"

\* The workspace shows the state its report is in, whoever wrote it last.
WorkspaceShowsState ==
  shown.report # NoReport => shown.status = report[shown.report].state

\* A deleted report is never generating or ready again (it may become FAILED).
DeletedStaysUnreadable ==
  [][\A r \in Reports : report[r].state = "DELETED" => report'[r].state \in {"DELETED", "FAILED"}]_reportVars

\* What is said of a report is true, though the renderer, Delete and a change of
\* the workspace race.
ReportsKeepFaith == [](ArtifactsAreHeld /\ ReadyIsOpenable /\ WorkspaceShowsState) /\ DeletedStaysUnreadable

\* A report does not stay GENERATING for ever.
ReportSettles == \A r \in Reports : report[r].state = "GENERATING" ~> report[r].state # "GENERATING"
==============================================================================
