------------------------- MODULE ProductionLifecycle -------------------------
(***************************************************************************)
(* ProductionLifecycle.run, run after run: the stages before publication,  *)
(* the release stage, what is written after the commit, and what a failure *)
(* at any point leaves behind: the preserved candidate, the recorded       *)
(* attempt, the removal of the private directory.                          *)
(*                                                                         *)
(* publish_release_bundle is one step with the outcomes ReleaseBundle has; *)
(* the verdict of the reconciliation is the one ReleaseReconciliation      *)
(* allows.  A process may stop at any step.                                *)
(***************************************************************************)
EXTENDS Naturals, FiniteSets

CONSTANTS
    Contents,   \* candidates and what production serves, as bytes
    None        \* nothing, or an absent key or file

ASSUME LifecycleAssumption == None \notin Contents

VARIABLES
    live,       \* the production key
    late,       \* bytes that unresolved writes may still put there
    derived,    \* whose qualification the AI cache and scheduler history hold
    pc,         \* stage of the running attempt
    publish,    \* whether it publishes or is a dry run
    files,      \* the private directory
    phases,     \* ReleaseProgress._history
    error,      \* the exception being handled
    slo,        \* outcomes recorded for this attempt
    recovery,   \* the private copy the last ambiguous attempt left
    report,     \* how the last attempt ended
    settled,    \* ghost: the attempt began when no earlier write could still land
    judged,     \* ghost: what the promotion guard compared, and its verdict
    before,     \* ghost: live when publication read it
    committed   \* ghost: publication has returned

ghosts == <<settled, judged, before, committed>>
runVars == <<pc, publish, files, phases, error, slo, ghosts>>
keys == <<live, late, derived>>
vars == <<keys, runVars, recovery, report>>
-----------------------------------------------------------------------------
Bytes == Contents \union {None}
NoFiles == [candidate |-> None, baseline |-> None, captured |-> FALSE, guard |-> "none"]
Files == [candidate : Bytes, baseline : Bytes, captured : BOOLEAN,
          guard : {"none", "passed", "blocked"}]

Phases == {"prepared", "qualified", "promoted", "published", "verified"}
Stages == {"idle", "prepare", "load", "generate", "load_state", "download", "qualify",
           "source_quality", "client_contract", "baseline", "guard", "matrix", "publication",
           "release_report", "derived_state", "proof", "lifecycle_report", "observability",
           "accounting", "failing", "failed", "cleanup"}

\* stage: where it was raised; unknown: a CommitUnknownError; rejected: a
\* QualificationStageRejected; copy: its recovery_status.
Recoveries == {"none", "committed", "preserved", "preservation_failed"}
Errors == [stage : Stages, unknown : BOOLEAN, rejected : BOOLEAN, copy : Recoveries]
NoError == [stage |-> "idle", unknown |-> FALSE, rejected |-> FALSE, copy |-> "none"]
Outcomes == {"passed", "qualification_rejected", "promotion_blocked", "failed"}
Copies == [candidate : Bytes, previous : Bytes, known : BOOLEAN]
NoCopy == [candidate |-> None, previous |-> None, known |-> FALSE]
Judgements == [verdict : {"none", "passed", "blocked"}, baseline : Bytes]
NotJudged == [verdict |-> "none", baseline |-> None]
Reports == [status : {"none", "passed", "failed", "stopped"}, unknown : BOOLEAN,
            candidate : Bytes, copy : Recoveries]
Report(status, unknown, candidate, copy) ==
    [status |-> status, unknown |-> unknown, candidate |-> candidate, copy |-> copy]

TypeOK ==
    /\ live \in Bytes /\ late \subseteq Contents /\ derived \in Bytes
    /\ pc \in Stages /\ publish \in BOOLEAN /\ files \in Files
    /\ phases \subseteq Phases
    /\ error \in Errors /\ (error # NoError <=> pc \in {"failing", "failed"})
    /\ slo \subseteq Outcomes
    /\ recovery \in Copies
    /\ report \in Reports
    /\ settled \in BOOLEAN /\ judged \in Judgements /\ before \in Bytes /\ committed \in BOOLEAN

\* An empty namespace, a directory without rests.
Init ==
    /\ live \in Bytes /\ late = {} /\ derived = None
    /\ pc = "idle" /\ publish = FALSE /\ files = NoFiles /\ phases = {} /\ error = NoError
    /\ slo = {} /\ recovery = NoCopy
    /\ report = Report("none", FALSE, None, "none")
    /\ settled = TRUE /\ judged = NotJudged /\ before = None /\ committed = FALSE
-----------------------------------------------------------------------------
(* Steps.                                                                  *)

Raise(unknown, rejected) ==
    /\ pc' = "failing"
    /\ error' = [stage |-> pc, unknown |-> unknown, rejected |-> rejected, copy |-> "none"]

Goto(stage) == pc' = stage /\ UNCHANGED error

\* A stage that writes nothing the model keeps.
PlainStage(here, next) ==
    /\ pc = here
    /\ Goto(next) \/ Raise(FALSE, FALSE)
    /\ UNCHANGED <<keys, publish, files, phases, slo, recovery, report, ghosts>>

\* ReleaseProgress._expected_next.
NextPhase ==
    CASE phases = {} -> "prepared"
      [] phases = {"prepared"} -> "qualified"
      [] phases = {"prepared", "qualified"} -> "promoted"
      [] "promoted" \in phases /\ "published" \notin phases /\ publish -> "published"
      [] OTHER -> "verified"

\* ReleaseProgress.advance refuses any phase but the expected one.
Advance(entered) ==
    /\ entered = NextPhase
    /\ phases' = phases \union {entered}

Start ==
    /\ pc = "idle" /\ settled' = (late = {})
    /\ pc' = "prepare" /\ publish' \in BOOLEAN
    /\ phases' = {} /\ slo' = {} /\ judged' = NotJudged /\ before' = None /\ committed' = FALSE
    /\ UNCHANGED <<keys, files, error, recovery, report>>

\* Mutant of PrepareDirs: what a stopped run left is not cleared.
PrepareDirsKeeping ==
    /\ pc = "prepare"
    /\ Goto("load") \/ Raise(FALSE, FALSE)
    /\ UNCHANGED <<keys, publish, files, phases, slo, recovery, report, ghosts>>

\* It can fail before and after the directories are cleared.
PrepareDirs ==
    /\ pc = "prepare"
    /\ \/ Goto("load") /\ files' = NoFiles
       \/ Raise(FALSE, FALSE) /\ files' \in {files, NoFiles}
    /\ UNCHANGED <<keys, publish, phases, slo, recovery, report, ghosts>>

\* The declarations and the publication gate.
LoadProject == PlainStage("load", "generate")

Generate ==
    /\ pc = "generate"
    /\ \/ Goto("load_state") /\ Advance("prepared")
       \/ Raise(FALSE, FALSE) /\ UNCHANGED phases
    /\ UNCHANGED <<keys, publish, files, slo, recovery, report, ghosts>>

LoadDerivedState == PlainStage("load_state", "download")
DownloadMihomo == PlainStage("download", "qualify")

Qualify ==
    /\ pc = "qualify"
    /\ \/ /\ Goto("source_quality") /\ Advance("qualified")
          /\ \E c \in Contents : files' = [files EXCEPT !.candidate = c]
       \/ /\ \E rejected \in BOOLEAN : Raise(FALSE, rejected)
          /\ UNCHANGED <<files, phases>>
    /\ UNCHANGED <<keys, publish, slo, recovery, report, ghosts>>

SourceQuality == PlainStage("source_quality", "client_contract")
ClientContract == PlainStage("client_contract", IF publish THEN "baseline" ELSE "matrix")
-----------------------------------------------------------------------------
(* run_release_candidate_stage.                                            *)

\* Mutant of FetchBaseline: a read that fails counts as an absent baseline.
FetchBaselineOrNone ==
    /\ pc = "baseline"
    /\ \/ Goto("guard") /\ \E b \in {live, None} : files' = [files EXCEPT !.baseline = b]
       \/ Raise(FALSE, FALSE) /\ UNCHANGED files
    /\ UNCHANGED <<keys, publish, phases, slo, recovery, report, ghosts>>

\* The read may fail, and the report may not be written after it.
FetchBaseline ==
    /\ pc = "baseline"
    /\ \/ Goto("guard") /\ files' = [files EXCEPT !.baseline = live]
       \/ Raise(FALSE, FALSE) /\ files' \in {files, [files EXCEPT !.baseline = live]}
    /\ UNCHANGED <<keys, publish, phases, slo, recovery, report, ghosts>>

\* The report is on disk before a blocked candidate raises.
Guard ==
    /\ pc = "guard"
    /\ \/ \E verdict \in {"passed", "blocked"} :
             /\ judged' = [verdict |-> verdict, baseline |-> files.baseline]
             /\ files' = [files EXCEPT !.guard = verdict]
             /\ IF verdict = "passed" THEN Goto("matrix") ELSE Raise(FALSE, FALSE)
       \/ Raise(FALSE, FALSE) /\ UNCHANGED <<files, judged>>
    /\ UNCHANGED <<keys, publish, phases, slo, recovery, report, settled, before, committed>>

ValidateMatrix == PlainStage("matrix", IF publish THEN "publication" ELSE "release_report")

\* capture_baseline.
Captured == [files EXCEPT !.baseline = live, !.captured = TRUE]

\* What an attempt that ends in the middle may leave in production, and what
\* its last write may still put there: its candidate, or by compensation the
\* bytes of before.
Attempted == {live, files.candidate}
Pending == {late} \union {late \union {c} : c \in Attempted \ {None}}

\* publish_production_release: it returns; or it ends before the baseline is
\* captured, when no step has touched the production key; or in the capture,
\* which writes the marker last; or after it.
Publish ==
    /\ pc = "publication"
    /\ \/ /\ Goto("release_report")
          /\ files' = Captured /\ before' = live /\ committed' = TRUE
          /\ live' = files.candidate /\ UNCHANGED late
       \/ /\ \E unknown \in BOOLEAN : Raise(unknown, FALSE)
          /\ UNCHANGED <<files, live, late, before, committed>>
       \/ /\ Raise(FALSE, FALSE)
          /\ files' = [files EXCEPT !.baseline = live] /\ before' = live
          /\ UNCHANGED <<live, late, committed>>
       \/ /\ \E unknown \in BOOLEAN :
                Raise(unknown, FALSE) /\ late' \in (IF unknown THEN Pending ELSE {late})
          /\ files' = Captured /\ before' = live /\ live' \in Attempted
          /\ UNCHANGED committed
    /\ UNCHANGED <<derived, publish, phases, slo, recovery, report, settled, judged>>

\* The release report and the summary, which a publishing run writes after
\* the commit and still inside the release stage; then the phases.
FinishReleaseStage ==
    /\ pc = "release_report"
    /\ \/ /\ Goto("derived_state")
          /\ NextPhase = "promoted"
          /\ phases' = phases \union (IF publish THEN {"promoted", "published"} ELSE {"promoted"})
       \/ publish /\ Raise(FALSE, FALSE) /\ UNCHANGED phases
    /\ UNCHANGED <<keys, publish, files, slo, recovery, report, ghosts>>
-----------------------------------------------------------------------------
(* After the commit.                                                       *)

\* Mutant of PersistDerivedState: a dry run persists too.
PersistDerivedStateAlways ==
    /\ pc = "derived_state"
    /\ derived' \in {derived, files.candidate}
    /\ Goto("proof") \/ Raise(FALSE, FALSE)
    /\ UNCHANGED <<live, late, publish, files, phases, slo, recovery, report, ghosts>>

\* Best effort, except for the local reports of what was persisted.
PersistDerivedState ==
    /\ pc = "derived_state"
    /\ IF publish
       THEN /\ derived' \in {derived, files.candidate}
            /\ Goto("proof") \/ Raise(FALSE, FALSE)
       ELSE Goto("proof") /\ UNCHANGED derived
    /\ UNCHANGED <<live, late, publish, files, phases, slo, recovery, report, ghosts>>

\* _post_commit_proof and _post_commit_manifest: warnings, or the end of a dry
\* run.
RenderEvidence ==
    /\ pc = "proof"
    /\ \/ Goto("lifecycle_report") /\ Advance("verified")
       \/ Goto("lifecycle_report") /\ UNCHANGED phases
       \/ ~publish /\ Raise(FALSE, FALSE) /\ UNCHANGED phases
    /\ UNCHANGED <<keys, publish, files, slo, recovery, report, ghosts>>

WriteLifecycleObservability == PlainStage("lifecycle_report", "observability")

\* publish_post_release_observability: the local reports may fail it before
\* the attempt is recorded, nothing after that.
PublishObservability ==
    /\ pc = "observability"
    /\ \/ Goto("accounting") /\ slo' \in {slo, IF publish THEN slo \union {"passed"} ELSE slo}
       \/ publish /\ Raise(FALSE, FALSE) /\ UNCHANGED slo
    /\ UNCHANGED <<keys, publish, files, phases, recovery, report, ghosts>>

\* The result, with the source accounting read back from the reports.
Return ==
    /\ pc = "accounting"
    /\ \/ Goto("cleanup") /\ report' = Report("passed", FALSE, files.candidate, "none")
       \/ Raise(FALSE, FALSE) /\ UNCHANGED report
    /\ UNCHANGED <<keys, publish, files, phases, slo, recovery, ghosts>>
-----------------------------------------------------------------------------
(* The exception handler.                                                  *)

\* What the reconciliation may find: a commit only when it is one.  A read
\* that lags finds anything but that.
Verdicts ==
    {"inconclusive"} \union
    (IF live = files.candidate /\ (settled => late \subseteq {files.candidate})
     THEN {"committed"} ELSE {})

\* Mutant of Preserve: bytes seen unchanged are taken for a failed commit.
PreserveUnlessUnchanged ==
    /\ pc = "failing" /\ pc' = "failed"
    /\ \/ /\ ~error.unknown /\ UNCHANGED <<error, recovery>>
       \/ /\ error.unknown
          /\ error' = [error EXCEPT !.copy = "committed"] /\ UNCHANGED recovery
    /\ UNCHANGED <<keys, publish, files, phases, slo, report, ghosts>>

\* Mutant of Preserve: the fetched baseline is kept without its marker.
PreserveFetched ==
    /\ pc = "failing" /\ pc' = "failed"
    /\ \/ /\ ~error.unknown /\ UNCHANGED <<error, recovery>>
       \/ /\ error.unknown
          /\ error' = [error EXCEPT !.copy = "preserved"]
          /\ recovery' = [candidate |-> files.candidate, previous |-> files.baseline,
                          known |-> files.captured]
    /\ UNCHANGED <<keys, publish, files, phases, slo, report, ghosts>>

\* _preserve_ambiguous_release: only a proven commit releases the copy, and
\* only captured bytes are kept as those of before.
Preserve ==
    /\ pc = "failing" /\ pc' = "failed"
    /\ \/ /\ ~error.unknown /\ UNCHANGED <<error, recovery>>
       \/ /\ error.unknown
          /\ \/ /\ files.captured /\ "committed" \in Verdicts
                /\ error' = [error EXCEPT !.copy = "committed"] /\ UNCHANGED recovery
             \/ /\ "inconclusive" \in Verdicts
                /\ error' = [error EXCEPT !.copy = "preserved"]
                /\ recovery' = [candidate |-> files.candidate,
                                previous |-> IF files.captured THEN files.baseline ELSE None,
                                known |-> files.captured]
             \/ /\ error' = [error EXCEPT !.copy = "preservation_failed"]
                /\ UNCHANGED recovery
    /\ UNCHANGED <<keys, publish, files, phases, slo, report, ghosts>>

\* record_failure_observability.
Outcome ==
    IF error.rejected THEN "qualification_rejected"
    ELSE IF files.guard = "blocked" THEN "promotion_blocked" ELSE "failed"

\* Best effort, and only once the project is known; then the exception leaves.
RecordFailure ==
    /\ pc = "failed" /\ pc' = "cleanup"
    /\ slo' \in {slo, IF publish /\ error.stage # "prepare" THEN slo \union {Outcome} ELSE slo}
    /\ report' = Report("failed", error.unknown, files.candidate, error.copy)
    /\ error' = NoError
    /\ UNCHANGED <<keys, publish, files, phases, recovery, ghosts>>

Cleanup ==
    /\ pc = "cleanup" /\ Goto("idle") /\ files' = NoFiles
    /\ UNCHANGED <<keys, publish, phases, slo, recovery, report, ghosts>>

\* The execution ends between two steps, or in publication at any of its writes.
Stop(stage) ==
    /\ pc' = stage /\ error' = NoError
    /\ IF pc = "publication" THEN live' \in Attempted /\ late' \in Pending
       ELSE UNCHANGED <<live, late>>
    /\ report' = Report("stopped", FALSE, None, "none")
    /\ UNCHANGED <<derived, publish, files, phases, slo, recovery, ghosts>>

\* A KeyboardInterrupt passes the handler by, not the removal of the directory.
Interrupt == pc \notin {"idle", "cleanup"} /\ Stop("cleanup")

\* The process stops; the directory stays.
Crash == pc # "idle" /\ Stop("idle")

\* An unresolved write of the production key lands, or never will.
Resolve ==
    /\ \E c \in late : late' = late \ {c} /\ live' \in {live, c}
    /\ UNCHANGED <<derived, runVars, recovery, report>>

Next ==
    \/ Start \/ PrepareDirs \/ LoadProject \/ Generate \/ LoadDerivedState \/ DownloadMihomo
    \/ Qualify \/ SourceQuality \/ ClientContract
    \/ FetchBaseline \/ Guard \/ ValidateMatrix \/ Publish \/ FinishReleaseStage
    \/ PersistDerivedState \/ RenderEvidence \/ WriteLifecycleObservability
    \/ PublishObservability \/ Return
    \/ Preserve \/ RecordFailure \/ Cleanup \/ Interrupt \/ Crash \/ Resolve

Spec == Init /\ [][Next]_vars
-----------------------------------------------------------------------------
(* Properties.                                                             *)

\* An attempt that ended not knowing whether it committed never discards the
\* only private copy of a candidate that production serves or may come to
\* serve, unless it says so; what it discards is live, and stays so unless it
\* began over an unresolved write (_preserve_ambiguous_release).
UnsettledCandidateIsKept ==
    pc = "idle" /\ report.status = "failed" /\ report.unknown =>
        /\ report.copy \in {"committed", "preserved", "preservation_failed"}
        /\ report.copy = "committed" /\ settled => live = report.candidate
        /\ report.copy = "preserved" /\ report.candidate \in {live} \union late =>
              recovery.candidate = report.candidate

\* The copy of an ambiguous attempt holds exactly the bytes publication read
\* before it, not those the guard fetched earlier or a stopped run left; it
\* holds none when publication did not get that far.
PreservedPreviousIsExact ==
    pc = "failed" /\ error.copy = "preserved" => recovery.previous = before

\* What is published was let through by the guard of the same run, which
\* compared it with the very bytes that it replaces, if the run began over no
\* unresolved write (the baseline is not compared again).
PromotedAgainstLive ==
    committed /\ settled => judged = [verdict |-> "passed", baseline |-> before]

\* A run claims the phase published only when publication returned, and then
\* its candidate is live until the end of the run, if it began over no
\* unresolved write.
PublishedPhaseIsTrue ==
    pc # "idle" /\ "published" \in phases =>
        committed /\ (settled => live = files.candidate)

\* The cache and the history of production come from published runs only.
DerivedStateFollowsRelease ==
    [][derived' # derived => committed /\ derived' = files.candidate]_vars

\* The recorded outcome of an attempt is about that attempt: it passed if it
\* committed, and it was blocked if its own guard blocked it
\* (record_failure_observability reads the report from the private directory).
OutcomeIsOfThisAttempt ==
    /\ "passed" \in slo => committed
    /\ "promotion_blocked" \in slo => judged.verdict = "blocked"
    /\ "qualification_rejected" \in slo => judged = NotJudged /\ ~committed

\* What the documentation says: after the commit, a failure is reported as
\* degraded observability and not as a failed publication
\* (docs/publishing.md:137).
PostCommitFailureIsDegradation ==
    pc = "idle" /\ report.status = "failed" => ~committed
=============================================================================
