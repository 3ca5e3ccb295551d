--------------------------- MODULE ProductionProofs ---------------------------
(***************************************************************************)
(* Proofs about ProductionLifecycle, for any set of contents: what a run   *)
(* publishes, keeps and records belongs to that run; and about             *)
(* ProductionObservability, for any bounds: the ring and the failure       *)
(* streak tell what happened.                                              *)
(***************************************************************************)
EXTENDS MCProduction, FiniteSetTheorems, TLAPS

Early == {"prepare", "load", "generate", "load_state", "download", "qualify", "source_quality",
          "client_contract", "baseline", "guard"}
BeforeCommit == Early \union {"matrix", "publication"}
AfterCommit == {"release_report", "derived_state", "proof", "lifecycle_report", "observability",
                "accounting"}
Handling == {"failing", "failed"}

\* The private directory is that of the present attempt.
Own == /\ pc \notin {"idle", "prepare", "cleanup"}
       /\ pc \in Handling => error.stage # "prepare"

\* A candidate has been qualified.
Qualified == pc \in AfterCommit \union {"source_quality", "client_contract", "baseline", "guard",
                                        "matrix", "publication"}

FilesInv ==
    /\ Qualified => files.candidate \in Contents
    /\ Own => /\ files.captured => files.baseline = before
              /\ files.guard = "blocked" => judged.verdict = "blocked"

ProgressInv ==
    /\ pc \in BeforeCommit => before = None /\ ~committed /\ slo = {}
    /\ pc \in Early => judged = NotJudged
    /\ pc \in BeforeCommit \ {"prepare"} => ~files.captured
    /\ pc \in {"baseline", "guard", "publication"} => publish
    /\ pc \in AfterCommit /\ publish => committed
    /\ "published" \in phases => committed

ErrorInv ==
    /\ pc \in Handling => /\ error.stage # "idle"
                          /\ error.rejected => judged = NotJudged /\ ~committed
                          /\ error.unknown => /\ error.stage # "prepare"
                                              /\ files.candidate \in Contents
    /\ pc = "failing" => /\ error.copy = "none"
                         /\ error.unknown => files.captured \/ before = None
    /\ pc = "failed" =>
          /\ error.unknown => error.copy \in {"committed", "preserved", "preservation_failed"}
          /\ error.copy = "preserved" => /\ recovery.candidate = files.candidate
                                         /\ recovery.previous = before

ReportInv ==
    pc \in {"idle", "cleanup"} /\ report.status = "failed" /\ report.unknown =>
        /\ report.copy \in {"committed", "preserved", "preservation_failed"}
        /\ report.copy = "preserved" => recovery.candidate = report.candidate

\* What the attempts that began over no unresolved write may rely on.
SettledInv == settled =>
    /\ pc \in BeforeCommit => late = {}
    /\ committed /\ pc # "idle" => late = {} /\ live = files.candidate
    /\ pc = "guard" => files.baseline = live
    /\ pc \in {"matrix", "publication"} /\ publish =>
          judged = [verdict |-> "passed", baseline |-> live]
    /\ committed => judged = [verdict |-> "passed", baseline |-> before]
    /\ pc = "failed" /\ error.copy = "committed" =>
          live = files.candidate /\ late \subseteq {files.candidate}
    /\ pc \in {"idle", "cleanup"} /\ report.status = "failed" /\ report.copy = "committed" =>
          live = report.candidate /\ late \subseteq {report.candidate}

\* TypeOK in two parts.
ErrorTyped == error \in Errors /\ (error # NoError <=> pc \in {"failing", "failed"})
StateTyped ==
    /\ live \in Bytes /\ late \subseteq Contents /\ derived \in Bytes
    /\ pc \in Stages /\ publish \in BOOLEAN /\ files \in Files
    /\ phases \subseteq Phases
    /\ slo \subseteq Outcomes
    /\ recovery \in Copies
    /\ report \in Reports
    /\ settled \in BOOLEAN /\ judged \in Judgements /\ before \in Bytes /\ committed \in BOOLEAN

LInv == TypeOK /\ FilesInv /\ ProgressInv /\ ErrorInv /\ ReportInv /\ SettledInv
        /\ OutcomeIsOfThisAttempt

\* The records that the steps build have their types.
LEMMA Constructed ==
    /\ NoFiles \in Files /\ NoError \in Errors
    /\ \A stage \in Stages, unknown \in BOOLEAN, rejected \in BOOLEAN :
          [stage |-> stage, unknown |-> unknown, rejected |-> rejected, copy |-> "none"] \in Errors
<1>1. NoFiles \in Files
  BY DEF NoFiles, Files, Bytes
<1>2. NoError \in Errors
  BY DEF NoError, Errors, Stages, Recoveries
<1>3. ASSUME NEW stage \in Stages, NEW unknown \in BOOLEAN, NEW rejected \in BOOLEAN
      PROVE  [stage |-> stage, unknown |-> unknown, rejected |-> rejected,
              copy |-> "none"] \in Errors
  BY DEF Errors, Recoveries
<1> QED
  BY <1>1, <1>2, <1>3

\* So has every report.
LEMMA Reported ==
    \A status \in {"none", "passed", "failed", "stopped"}, unknown \in BOOLEAN,
       candidate \in Bytes, copy \in Recoveries :
          Report(status, unknown, candidate, copy) \in Reports
BY DEF Report, Reports

\* Raising leaves a typed exception under way, and only going on to a handler
\* may do that.
LEMMA Raised ==
    ASSUME TypeOK, pc # "idle", NEW unknown \in BOOLEAN, NEW rejected \in BOOLEAN,
           Raise(unknown, rejected)
    PROVE  pc' = "failing" /\ ErrorTyped'
<1>1. error' \in Errors /\ pc' = "failing"
  BY Constructed DEF Raise, TypeOK
<1>2. error' # NoError
  BY DEF Raise, NoError
<1> QED
  BY <1>1, <1>2 DEF ErrorTyped

\* Going on raises nothing.
LEMMA WentOn ==
    ASSUME TypeOK, pc \notin Handling, NEW stage, stage \notin Handling, Goto(stage)
    PROVE  ErrorTyped'
BY DEF Goto, TypeOK, ErrorTyped, Handling

\* One lemma per action: it preserves the invariant.  The stages that change
\* nothing but pc are taken together, and so are the two ways to stop.
LEMMA StartSafe ==
    ASSUME LInv, Start
    PROVE  LInv'
<1> USE LifecycleAssumption
<1>1. TypeOK'
  <2>1. ErrorTyped'
    BY Constructed DEF LInv, ErrorTyped, TypeOK, Start
  <2>2. StateTyped'
    <3>1. settled' \in BOOLEAN
      BY Zenon DEF Start
    <3>2. judged' \in Judgements
      BY DEF Start, NotJudged, Judgements, Bytes
    <3> QED
      BY <3>1, <3>2 DEF StateTyped, LInv, TypeOK, Start, Stages, Bytes, keys
  <2> QED
    BY <2>1, <2>2 DEF TypeOK, ErrorTyped, StateTyped
<1>2. FilesInv'
  BY DEF LInv, FilesInv, Start, AfterCommit, Own, Qualified
<1>3. ProgressInv'
  BY DEF LInv, ProgressInv, Start, AfterCommit
<1>4. ErrorInv'
  BY DEF LInv, ErrorInv, Start, Handling
<1>5. ReportInv'
  BY DEF LInv, ReportInv, Start
<1>6. SettledInv'
  BY DEF LInv, SettledInv, Start, keys
<1>7. OutcomeIsOfThisAttempt'
  BY DEF LInv, OutcomeIsOfThisAttempt, Start
<1> QED
  BY <1>1, <1>2, <1>3, <1>4, <1>5, <1>6, <1>7 DEF LInv

LEMMA PrepareDirsSafe ==
    ASSUME LInv, PrepareDirs
    PROVE  LInv'
<1> USE LifecycleAssumption
<1>1. TypeOK'
  <2>1. ErrorTyped'
    BY Raised, WentOn DEF LInv, PrepareDirs, Handling
  <2>2. StateTyped'
    BY Constructed DEF StateTyped, LInv, PrepareDirs, Goto, Raise, keys, ghosts, TypeOK,
       Stages
  <2> QED
    BY <2>1, <2>2 DEF TypeOK, ErrorTyped, StateTyped
<1>2. FilesInv'
  BY DEF LInv, FilesInv, PrepareDirs, Goto, Raise, NoFiles, AfterCommit, Handling, Own,
     Qualified
<1>3. ProgressInv'
  BY DEF LInv, ProgressInv, PrepareDirs, Goto, Raise, ghosts, NoFiles, Early, BeforeCommit,
     AfterCommit
<1>4. ErrorInv'
  BY DEF LInv, ErrorInv, PrepareDirs, Goto, Raise, Handling
<1>5. ReportInv'
  BY DEF LInv, ReportInv, PrepareDirs, Goto, Raise
<1>6. SettledInv'
  BY DEF LInv, ProgressInv, SettledInv, PrepareDirs, Goto, Raise, keys, ghosts, Early,
     BeforeCommit
<1>7. OutcomeIsOfThisAttempt'
  BY DEF LInv, OutcomeIsOfThisAttempt, PrepareDirs, ghosts
<1> QED
  BY <1>1, <1>2, <1>3, <1>4, <1>5, <1>6, <1>7 DEF LInv

LEMMA PlainStagesSafe ==
    ASSUME LInv, LoadProject \/ LoadDerivedState \/ DownloadMihomo \/ SourceQuality
           \/ ClientContract \/ ValidateMatrix \/ WriteLifecycleObservability
    PROVE  LInv'
<1> USE LifecycleAssumption
<1>1. TypeOK'
  <2>1. ErrorTyped'
    BY Raised, WentOn DEF LInv, LoadProject, LoadDerivedState, DownloadMihomo,
       SourceQuality, ClientContract, ValidateMatrix, WriteLifecycleObservability,
       PlainStage, Handling
  <2>2. StateTyped'
    BY Constructed DEF StateTyped, LInv, LoadProject, LoadDerivedState, DownloadMihomo,
       SourceQuality, ClientContract, ValidateMatrix, WriteLifecycleObservability,
       PlainStage, Goto, Raise, keys, ghosts, TypeOK, Stages
  <2> QED
    BY <2>1, <2>2 DEF TypeOK, ErrorTyped, StateTyped
<1>2. FilesInv'
  BY DEF LInv, FilesInv, LoadProject, LoadDerivedState, DownloadMihomo, SourceQuality,
     ClientContract, ValidateMatrix, WriteLifecycleObservability, PlainStage, Goto, Raise,
     ghosts, AfterCommit, Handling, Own, Qualified
<1>3. ProgressInv'
  <2>1. CASE LoadProject
    BY <2>1 DEF LInv, ProgressInv, LoadProject, PlainStage, Goto, Raise, ghosts, Early,
       BeforeCommit, AfterCommit
  <2>2. CASE LoadDerivedState
    BY <2>2 DEF LInv, ProgressInv, LoadDerivedState, PlainStage, Goto, Raise, ghosts, Early,
       BeforeCommit, AfterCommit
  <2>3. CASE DownloadMihomo
    BY <2>3 DEF LInv, ProgressInv, DownloadMihomo, PlainStage, Goto, Raise, ghosts, Early,
       BeforeCommit, AfterCommit
  <2>4. CASE SourceQuality
    BY <2>4 DEF LInv, ProgressInv, SourceQuality, PlainStage, Goto, Raise, ghosts, Early,
       BeforeCommit, AfterCommit
  <2>5. CASE ClientContract
    BY <2>5 DEF LInv, ProgressInv, ClientContract, PlainStage, Goto, Raise, ghosts, Early,
       BeforeCommit, AfterCommit
  <2>6. CASE ValidateMatrix
    BY <2>6 DEF LInv, ProgressInv, ValidateMatrix, PlainStage, Goto, Raise, ghosts, Early,
       BeforeCommit, AfterCommit
  <2>7. CASE WriteLifecycleObservability
    BY <2>7 DEF LInv, ProgressInv, WriteLifecycleObservability, PlainStage, Goto, Raise,
       ghosts, Early, BeforeCommit, AfterCommit
  <2> QED
    BY <2>1, <2>2, <2>3, <2>4, <2>5, <2>6, <2>7
<1>4. ErrorInv'
  BY DEF LInv, ErrorInv, LoadProject, LoadDerivedState, DownloadMihomo, SourceQuality,
     ClientContract, ValidateMatrix, WriteLifecycleObservability, PlainStage, Goto, Raise,
     Handling
<1>5. ReportInv'
  BY DEF LInv, ReportInv, LoadProject, LoadDerivedState, DownloadMihomo, SourceQuality,
     ClientContract, ValidateMatrix, WriteLifecycleObservability, PlainStage, Goto, Raise
<1>6. SettledInv'
  BY DEF LInv, SettledInv, LoadProject, LoadDerivedState, DownloadMihomo, SourceQuality,
     ClientContract, ValidateMatrix, WriteLifecycleObservability, PlainStage, Goto, Raise,
     keys, ghosts, Early, BeforeCommit
<1>7. OutcomeIsOfThisAttempt'
  BY DEF LInv, OutcomeIsOfThisAttempt, LoadProject, LoadDerivedState, DownloadMihomo,
     SourceQuality, ClientContract, ValidateMatrix, WriteLifecycleObservability, PlainStage,
     Raise, ghosts
<1> QED
  BY <1>1, <1>2, <1>3, <1>4, <1>5, <1>6, <1>7 DEF LInv

LEMMA GenerateSafe ==
    ASSUME LInv, Generate
    PROVE  LInv'
<1> USE LifecycleAssumption
<1>1. TypeOK'
  <2>1. ErrorTyped'
    BY Raised, WentOn DEF LInv, Generate, Advance, NextPhase, Handling
  <2>2. StateTyped'
    BY Constructed DEF StateTyped, LInv, Generate, Goto, Raise, Advance, keys, ghosts,
       TypeOK, Phases, Stages
  <2> QED
    BY <2>1, <2>2 DEF TypeOK, ErrorTyped, StateTyped
<1>2. FilesInv'
  BY DEF LInv, FilesInv, Generate, Goto, Raise, ghosts, AfterCommit, Handling, Own,
     Qualified
<1>3. ProgressInv'
  BY DEF LInv, ProgressInv, Generate, Goto, Raise, Advance, ghosts, Early, BeforeCommit,
     AfterCommit
<1>4. ErrorInv'
  BY DEF LInv, ErrorInv, Generate, Goto, Raise, Handling
<1>5. ReportInv'
  BY DEF LInv, ReportInv, Generate, Goto, Raise
<1>6. SettledInv'
  BY DEF LInv, SettledInv, Generate, Goto, Raise, keys, ghosts, Early, BeforeCommit
<1>7. OutcomeIsOfThisAttempt'
  BY DEF LInv, OutcomeIsOfThisAttempt, Generate, ghosts
<1> QED
  BY <1>1, <1>2, <1>3, <1>4, <1>5, <1>6, <1>7 DEF LInv

LEMMA QualifySafe ==
    ASSUME LInv, Qualify
    PROVE  LInv'
<1> USE LifecycleAssumption
<1>1. TypeOK'
  <2>1. ErrorTyped'
    BY Raised, WentOn DEF LInv, Qualify, Advance, NextPhase, Handling
  <2>2. StateTyped'
    BY Constructed DEF StateTyped, LInv, Qualify, Goto, Raise, Advance, keys, ghosts,
       TypeOK, Bytes, Files, Phases, Stages
  <2> QED
    BY <2>1, <2>2 DEF TypeOK, ErrorTyped, StateTyped
<1>2. FilesInv'
  BY DEF LInv, FilesInv, Qualify, Raise, ghosts, TypeOK, Files, AfterCommit, Handling, Own,
     Qualified
<1>3. ProgressInv'
  BY DEF LInv, ProgressInv, Qualify, Goto, Raise, Advance, ghosts, TypeOK, Files, Early,
     BeforeCommit, AfterCommit
<1>4. ErrorInv'
  BY DEF LInv, ProgressInv, ErrorInv, Qualify, Goto, Raise, ghosts, Early, BeforeCommit,
     Handling
<1>5. ReportInv'
  BY DEF LInv, ReportInv, Qualify, Goto, Raise
<1>6. SettledInv'
  BY DEF LInv, ProgressInv, SettledInv, Qualify, Goto, Raise, keys, ghosts, Early,
     BeforeCommit
<1>7. OutcomeIsOfThisAttempt'
  BY DEF LInv, OutcomeIsOfThisAttempt, Qualify, ghosts
<1> QED
  BY <1>1, <1>2, <1>3, <1>4, <1>5, <1>6, <1>7 DEF LInv

LEMMA FetchBaselineSafe ==
    ASSUME LInv, FetchBaseline
    PROVE  LInv'
<1> USE LifecycleAssumption
<1>1. TypeOK'
  <2>1. ErrorTyped'
    BY Raised, WentOn DEF LInv, FetchBaseline, Handling
  <2>2. StateTyped'
    BY Constructed DEF StateTyped, LInv, FetchBaseline, Goto, Raise, keys, ghosts, TypeOK,
       Files, Stages
  <2> QED
    BY <2>1, <2>2 DEF TypeOK, ErrorTyped, StateTyped
<1>2. FilesInv'
  BY DEF LInv, FilesInv, ProgressInv, FetchBaseline, ghosts, TypeOK, Files, Early,
     BeforeCommit, Handling, Own, Qualified
<1>3. ProgressInv'
  BY DEF LInv, ProgressInv, FetchBaseline, Goto, Raise, ghosts, TypeOK, Files, Early,
     BeforeCommit, AfterCommit
<1>4. ErrorInv'
  BY DEF LInv, ErrorInv, FetchBaseline, Goto, Raise, Handling
<1>5. ReportInv'
  BY DEF LInv, ReportInv, FetchBaseline, Goto, Raise
<1>6. SettledInv'
  BY DEF LInv, SettledInv, FetchBaseline, Goto, Raise, keys, ghosts, TypeOK, Files, Early,
     BeforeCommit
<1>7. OutcomeIsOfThisAttempt'
  BY DEF LInv, OutcomeIsOfThisAttempt, FetchBaseline, ghosts
<1> QED
  BY <1>1, <1>2, <1>3, <1>4, <1>5, <1>6, <1>7 DEF LInv

LEMMA GuardSafe ==
    ASSUME LInv, Guard
    PROVE  LInv'
<1> USE LifecycleAssumption
<1>1. TypeOK'
  <2>1. ErrorTyped'
    BY Raised, WentOn DEF LInv, Guard, Handling
  <2>2. StateTyped'
    BY Constructed DEF StateTyped, LInv, Guard, Goto, Raise, keys, TypeOK, Files, Stages,
       Judgements
  <2> QED
    BY <2>1, <2>2 DEF TypeOK, ErrorTyped, StateTyped
<1>2. FilesInv'
  BY DEF LInv, FilesInv, Guard, Raise, TypeOK, Files, Handling, Own, Qualified
<1>3. ProgressInv'
  BY DEF LInv, ProgressInv, Guard, Goto, Raise, TypeOK, Files, Early, BeforeCommit,
     AfterCommit
<1>4. ErrorInv'
  BY DEF LInv, ErrorInv, Guard, Goto, Raise, Handling
<1>5. ReportInv'
  BY DEF LInv, ReportInv, Guard, Goto, Raise
<1>6. SettledInv'
  BY DEF LInv, ProgressInv, SettledInv, Guard, Goto, Raise, keys, Early, BeforeCommit
<1>7. OutcomeIsOfThisAttempt'
  BY DEF LInv, ProgressInv, OutcomeIsOfThisAttempt, Guard, Early, BeforeCommit
<1> QED
  BY <1>1, <1>2, <1>3, <1>4, <1>5, <1>6, <1>7 DEF LInv

LEMMA PublishSafe ==
    ASSUME LInv, Publish
    PROVE  LInv'
<1> USE LifecycleAssumption
<1>1. TypeOK'
  <2>1. ErrorTyped'
    BY Raised, WentOn DEF LInv, Publish, Handling
  <2>2. live' \in Bytes /\ late' \subseteq Contents
    BY ZenonT(60) DEF Publish, Attempted, Pending, LInv, TypeOK, Files, Bytes
  <2>3. files' \in Files
    BY DEF Publish, Captured, LInv, TypeOK, Files
  <2>4. pc' \in Stages
    BY DEF Publish, Goto, Raise, Stages
  <2>5. before' \in Bytes /\ committed' \in BOOLEAN
    BY DEF Publish, LInv, TypeOK
  <2>6. StateTyped'
    BY <2>2, <2>3, <2>4, <2>5 DEF StateTyped, LInv, TypeOK, Publish
  <2> QED
    BY <2>1, <2>6 DEF TypeOK, ErrorTyped, StateTyped
<1>2. FilesInv'
  BY DEF LInv, FilesInv, Publish, Captured, TypeOK, Files, Errors, Handling, Own, Qualified
<1>3. ProgressInv'
  BY DEF LInv, ProgressInv, Publish, Goto, Raise, Early, BeforeCommit, AfterCommit
<1>4. ErrorInv'
  <2>1. pc = "publication" /\ files.candidate \in Contents /\ ~committed /\ before = None
    BY DEF LInv, FilesInv, ProgressInv, Qualified, BeforeCommit, Publish
  <2>2. /\ pc' # "failed"
        /\ pc' = "failing" => /\ error'.stage = "publication" /\ ~error'.rejected
                              /\ error'.copy = "none" /\ error'.unknown \in BOOLEAN
    <3>1. ASSUME NEW unknown \in BOOLEAN, Raise(unknown, FALSE)
          PROVE  /\ pc' = "failing" /\ error'.stage = "publication" /\ ~error'.rejected
                 /\ error'.copy = "none" /\ error'.unknown \in BOOLEAN
      BY <2>1, <3>1 DEF Raise
    <3>2. pc' = "release_report" \/ \E unknown \in BOOLEAN : Raise(unknown, FALSE)
      BY DEF Publish, Goto
    <3> QED
      BY <3>1, <3>2
  <2>3. files'.candidate = files.candidate
    BY DEF Publish, Captured, LInv, TypeOK, Files
  <2>4. pc' = "failing" => files'.captured \/ before' = None \/ ~error'.unknown
    <3>1. \/ pc' = "release_report" \/ before' = None
          \/ Raise(FALSE, FALSE) \/ files' = Captured
      BY <2>1 DEF Publish, Goto
    <3>2. files' = Captured => files'.captured
      BY DEF Captured, LInv, TypeOK, Files
    <3>3. Raise(FALSE, FALSE) => ~error'.unknown
      BY DEF Raise
    <3> QED
      BY <3>1, <3>2, <3>3
  <2> QED
    BY <2>1, <2>2, <2>3, <2>4 DEF ErrorInv, Handling
<1>5. ReportInv'
  BY DEF LInv, ReportInv, Publish, Goto, Raise
<1>6. SettledInv'
  BY DEF LInv, ProgressInv, SettledInv, Publish, Goto, Raise, Captured, TypeOK, Files,
     Phases, Early, BeforeCommit
<1>7. OutcomeIsOfThisAttempt'
  BY DEF LInv, ProgressInv, OutcomeIsOfThisAttempt, Publish, BeforeCommit
<1> QED
  BY <1>1, <1>2, <1>3, <1>4, <1>5, <1>6, <1>7 DEF LInv

LEMMA FinishReleaseStageSafe ==
    ASSUME LInv, FinishReleaseStage
    PROVE  LInv'
<1> USE LifecycleAssumption
<1>1. TypeOK'
  <2>1. ErrorTyped'
    BY Raised, WentOn DEF LInv, FinishReleaseStage, NextPhase, Handling
  <2>2. StateTyped'
    BY Constructed DEF StateTyped, LInv, FinishReleaseStage, Goto, Raise, keys, ghosts,
       TypeOK, Phases, Stages
  <2> QED
    BY <2>1, <2>2 DEF TypeOK, ErrorTyped, StateTyped
<1>2. FilesInv'
  BY DEF LInv, FilesInv, FinishReleaseStage, ghosts, AfterCommit, Handling, Own, Qualified
<1>3. ProgressInv'
  BY DEF LInv, ProgressInv, FinishReleaseStage, Goto, Raise, ghosts, Early, BeforeCommit,
     AfterCommit
<1>4. ErrorInv'
  BY DEF LInv, ErrorInv, FinishReleaseStage, Goto, Raise, Handling
<1>5. ReportInv'
  BY DEF LInv, ReportInv, FinishReleaseStage, Goto, Raise
<1>6. SettledInv'
  BY DEF LInv, SettledInv, FinishReleaseStage, Goto, Raise, keys, ghosts, Early,
     BeforeCommit
<1>7. OutcomeIsOfThisAttempt'
  BY DEF LInv, OutcomeIsOfThisAttempt, FinishReleaseStage, ghosts
<1> QED
  BY <1>1, <1>2, <1>3, <1>4, <1>5, <1>6, <1>7 DEF LInv

LEMMA PersistDerivedStateSafe ==
    ASSUME LInv, PersistDerivedState
    PROVE  LInv'
<1> USE LifecycleAssumption
<1>1. TypeOK'
  <2>1. ErrorTyped'
    BY Raised, WentOn DEF LInv, PersistDerivedState, Handling
  <2>2. StateTyped'
    BY Constructed DEF StateTyped, LInv, PersistDerivedState, Goto, Raise, ghosts, TypeOK,
       Files, Stages
  <2> QED
    BY <2>1, <2>2 DEF TypeOK, ErrorTyped, StateTyped
<1>2. FilesInv'
  BY DEF LInv, FilesInv, PersistDerivedState, ghosts, AfterCommit, Handling, Own, Qualified
<1>3. ProgressInv'
  BY DEF LInv, ProgressInv, PersistDerivedState, Goto, Raise, ghosts, Early, BeforeCommit,
     AfterCommit
<1>4. ErrorInv'
  BY DEF LInv, ErrorInv, PersistDerivedState, Goto, Raise, Handling
<1>5. ReportInv'
  BY DEF LInv, ReportInv, PersistDerivedState, Goto, Raise
<1>6. SettledInv'
  BY DEF LInv, SettledInv, PersistDerivedState, Goto, Raise, ghosts, Early, BeforeCommit
<1>7. OutcomeIsOfThisAttempt'
  BY DEF LInv, OutcomeIsOfThisAttempt, PersistDerivedState, ghosts
<1> QED
  BY <1>1, <1>2, <1>3, <1>4, <1>5, <1>6, <1>7 DEF LInv

LEMMA RenderEvidenceSafe ==
    ASSUME LInv, RenderEvidence
    PROVE  LInv'
<1> USE LifecycleAssumption
<1>1. TypeOK'
  <2>1. ErrorTyped'
    BY Raised, WentOn DEF LInv, RenderEvidence, Advance, NextPhase, Handling
  <2>2. StateTyped'
    BY Constructed DEF StateTyped, LInv, RenderEvidence, Goto, Raise, Advance, keys, ghosts,
       TypeOK, Phases, Stages
  <2> QED
    BY <2>1, <2>2 DEF TypeOK, ErrorTyped, StateTyped
<1>2. FilesInv'
  BY DEF LInv, FilesInv, RenderEvidence, ghosts, AfterCommit, Handling, Own, Qualified
<1>3. ProgressInv'
  BY DEF LInv, ProgressInv, RenderEvidence, Goto, Raise, Advance, ghosts, Early,
     BeforeCommit, AfterCommit
<1>4. ErrorInv'
  BY DEF LInv, ErrorInv, RenderEvidence, Goto, Raise, Handling
<1>5. ReportInv'
  BY DEF LInv, ReportInv, RenderEvidence, Goto, Raise
<1>6. SettledInv'
  BY DEF LInv, SettledInv, RenderEvidence, Goto, Raise, keys, ghosts, Early, BeforeCommit
<1>7. OutcomeIsOfThisAttempt'
  BY DEF LInv, OutcomeIsOfThisAttempt, RenderEvidence, ghosts
<1> QED
  BY <1>1, <1>2, <1>3, <1>4, <1>5, <1>6, <1>7 DEF LInv

LEMMA PublishObservabilitySafe ==
    ASSUME LInv, PublishObservability
    PROVE  LInv'
<1> USE LifecycleAssumption
<1>1. TypeOK'
  <2>1. ErrorTyped'
    BY Raised, WentOn DEF LInv, PublishObservability, Handling
  <2>2. slo' \subseteq Outcomes
    BY DEF PublishObservability, LInv, TypeOK, Outcomes
  <2>3. StateTyped'
    BY <2>2 DEF StateTyped, LInv, TypeOK, PublishObservability, Goto, Raise, Stages, keys,
       ghosts
  <2> QED
    BY <2>1, <2>3 DEF TypeOK, ErrorTyped, StateTyped
<1>2. FilesInv'
  BY DEF LInv, FilesInv, PublishObservability, ghosts, AfterCommit, Handling, Own, Qualified
<1>3. ProgressInv'
  BY DEF LInv, ProgressInv, PublishObservability, Goto, Raise, ghosts, Early, BeforeCommit,
     AfterCommit
<1>4. ErrorInv'
  BY DEF LInv, ErrorInv, PublishObservability, Goto, Raise, Handling
<1>5. ReportInv'
  BY DEF LInv, ReportInv, PublishObservability, Goto, Raise
<1>6. SettledInv'
  BY DEF LInv, SettledInv, PublishObservability, Goto, Raise, keys, ghosts, Early,
     BeforeCommit
<1>7. OutcomeIsOfThisAttempt'
  BY DEF LInv, ProgressInv, OutcomeIsOfThisAttempt, PublishObservability, ghosts,
     AfterCommit
<1> QED
  BY <1>1, <1>2, <1>3, <1>4, <1>5, <1>6, <1>7 DEF LInv

LEMMA ReturnSafe ==
    ASSUME LInv, Return
    PROVE  LInv'
<1> USE LifecycleAssumption
<1>1. TypeOK'
  <2>1. ErrorTyped'
    BY Raised, WentOn DEF LInv, Return, Report, Handling
  <2>2. report' \in Reports
    BY Reported DEF Return, LInv, TypeOK, Files, Bytes, Recoveries
  <2>3. StateTyped'
    BY <2>2 DEF StateTyped, LInv, TypeOK, Return, Goto, Raise, Stages, keys, ghosts
  <2> QED
    BY <2>1, <2>3 DEF TypeOK, ErrorTyped, StateTyped
<1>2. FilesInv'
  BY DEF LInv, FilesInv, Return, ghosts, AfterCommit, Handling, Own, Qualified
<1>3. ProgressInv'
  BY DEF LInv, ProgressInv, Return, Goto, Raise, ghosts, Early, BeforeCommit, AfterCommit
<1>4. ErrorInv'
  BY DEF LInv, ErrorInv, Return, Goto, Raise, Report, Handling
<1>5. ReportInv'
  BY DEF LInv, ReportInv, Return, Raise, Report
<1>6. SettledInv'
  BY DEF LInv, SettledInv, Return, Goto, Raise, Report, keys, ghosts, Early, BeforeCommit
<1>7. OutcomeIsOfThisAttempt'
  BY DEF LInv, OutcomeIsOfThisAttempt, Return, ghosts
<1> QED
  BY <1>1, <1>2, <1>3, <1>4, <1>5, <1>6, <1>7 DEF LInv

LEMMA PreserveSafe ==
    ASSUME LInv, Preserve
    PROVE  LInv'
<1> USE LifecycleAssumption
<1>1. TypeOK'
  <2>1. ErrorTyped'
    BY Constructed DEF LInv, ErrorTyped, TypeOK, Preserve, NoError, Errors, Recoveries
  <2>2. StateTyped'
    BY Constructed DEF StateTyped, LInv, ErrorInv, Preserve, keys, ghosts, TypeOK, Files,
       Stages, Copies
  <2> QED
    BY <2>1, <2>2 DEF TypeOK, ErrorTyped, StateTyped
<1>2. FilesInv'
  BY DEF LInv, FilesInv, Preserve, ghosts, TypeOK, Errors, AfterCommit, Handling, Own,
     Qualified
<1>3. ProgressInv'
  BY DEF LInv, ProgressInv, Preserve, ghosts, Early, BeforeCommit, AfterCommit
<1>4. ErrorInv'
  BY DEF LInv, FilesInv, ErrorInv, Preserve, ghosts, TypeOK, Errors, Handling, Own
<1>5. ReportInv'
  BY DEF LInv, ReportInv, Preserve
<1>6. SettledInv'
  BY DEF LInv, ErrorInv, SettledInv, Preserve, Verdicts, keys, ghosts, TypeOK, Errors,
     Early, BeforeCommit
<1>7. OutcomeIsOfThisAttempt'
  BY DEF LInv, OutcomeIsOfThisAttempt, Preserve, ghosts
<1> QED
  BY <1>1, <1>2, <1>3, <1>4, <1>5, <1>6, <1>7 DEF LInv

LEMMA RecordFailureSafe ==
    ASSUME LInv, RecordFailure
    PROVE  LInv'
<1> USE LifecycleAssumption
<1>1. TypeOK'
  <2>1. ErrorTyped'
    BY Constructed DEF LInv, ErrorTyped, RecordFailure
  <2>2. report' \in Reports
    BY Reported DEF RecordFailure, LInv, TypeOK, Files, Errors
  <2>3. slo' \subseteq Outcomes
    BY DEF RecordFailure, Outcome, LInv, TypeOK, Outcomes
  <2>4. StateTyped'
    BY <2>2, <2>3 DEF StateTyped, LInv, TypeOK, RecordFailure, Stages, keys, ghosts
  <2> QED
    BY <2>1, <2>4 DEF TypeOK, ErrorTyped, StateTyped
<1>2. FilesInv'
  BY DEF LInv, FilesInv, RecordFailure, AfterCommit, Own, Qualified
<1>3. ProgressInv'
  BY DEF LInv, ProgressInv, RecordFailure, ghosts, Early, BeforeCommit, AfterCommit
<1>4. ErrorInv'
  BY DEF LInv, ErrorInv, RecordFailure, Handling
<1>5. ReportInv'
  BY DEF LInv, ErrorInv, ReportInv, RecordFailure, Report
<1>6. SettledInv'
  BY DEF LInv, SettledInv, RecordFailure, Report, keys, ghosts, Early, BeforeCommit
<1>7. OutcomeIsOfThisAttempt'
  BY DEF LInv, FilesInv, ErrorInv, OutcomeIsOfThisAttempt, RecordFailure, Outcome, ghosts,
     Handling, Own
<1> QED
  BY <1>1, <1>2, <1>3, <1>4, <1>5, <1>6, <1>7 DEF LInv

LEMMA CleanupSafe ==
    ASSUME LInv, Cleanup
    PROVE  LInv'
<1> USE LifecycleAssumption
<1>1. TypeOK'
  <2>1. ErrorTyped'
    BY Constructed DEF LInv, ErrorTyped, TypeOK, Cleanup, Goto
  <2>2. StateTyped'
    BY Constructed DEF StateTyped, LInv, Cleanup, Goto, keys, ghosts, TypeOK, Stages
  <2> QED
    BY <2>1, <2>2 DEF TypeOK, ErrorTyped, StateTyped
<1>2. FilesInv'
  BY DEF LInv, FilesInv, Cleanup, Goto, AfterCommit, Own, Qualified
<1>3. ProgressInv'
  BY DEF LInv, ProgressInv, Cleanup, Goto, ghosts, Early, BeforeCommit, AfterCommit
<1>4. ErrorInv'
  BY DEF LInv, ErrorInv, Cleanup, Goto, Handling
<1>5. ReportInv'
  BY DEF LInv, ReportInv, Cleanup
<1>6. SettledInv'
  BY DEF LInv, SettledInv, Cleanup, Goto, keys, ghosts, Early, BeforeCommit
<1>7. OutcomeIsOfThisAttempt'
  BY DEF LInv, OutcomeIsOfThisAttempt, Cleanup, ghosts
<1> QED
  BY <1>1, <1>2, <1>3, <1>4, <1>5, <1>6, <1>7 DEF LInv

LEMMA StopSafe ==
    ASSUME LInv, pc # "idle", NEW stage \in {"idle", "cleanup"}, Stop(stage)
    PROVE  LInv'
<1> USE LifecycleAssumption
<1>1. TypeOK'
  <2>1. ErrorTyped'
    BY Constructed DEF LInv, ErrorTyped, Stop
  <2>2. live' \in Bytes /\ late' \subseteq Contents
    BY DEF Stop, Attempted, Pending, LInv, TypeOK, Files, Bytes
  <2>3. report' \in Reports
    BY Reported DEF Stop, Bytes, Recoveries
  <2>4. StateTyped'
    BY <2>2, <2>3 DEF StateTyped, LInv, TypeOK, Stop, Stages, ghosts
  <2> QED
    BY <2>1, <2>4 DEF TypeOK, ErrorTyped, StateTyped
<1>2. FilesInv'
  BY DEF LInv, FilesInv, Stop, AfterCommit, Own, Qualified
<1>3. ProgressInv'
  BY DEF LInv, ProgressInv, Stop, ghosts, Early, BeforeCommit, AfterCommit
<1>4. ErrorInv'
  BY DEF LInv, ErrorInv, Stop, Handling
<1>5. ReportInv'
  BY DEF LInv, ReportInv, Stop, Report
<1>6. SettledInv'
  <2>1. CASE pc = "publication"
    BY <2>1 DEF LInv, ProgressInv, SettledInv, Stop, Report, ghosts, Early, BeforeCommit
  <2>2. CASE pc # "publication"
    BY <2>2 DEF LInv, SettledInv, Stop, Report, ghosts, Early, BeforeCommit
  <2> QED
    BY <2>1, <2>2
<1>7. OutcomeIsOfThisAttempt'
  BY DEF LInv, OutcomeIsOfThisAttempt, Stop, ghosts
<1> QED
  BY <1>1, <1>2, <1>3, <1>4, <1>5, <1>6, <1>7 DEF LInv

LEMMA ResolveSafe ==
    ASSUME LInv, Resolve
    PROVE  LInv'
<1> USE LifecycleAssumption
<1>1. TypeOK'
  <2>1. ErrorTyped'
    BY Constructed DEF LInv, ErrorTyped, TypeOK, Resolve, runVars
  <2>2. StateTyped'
    BY Constructed DEF StateTyped, LInv, Resolve, runVars, ghosts, TypeOK, Bytes
  <2> QED
    BY <2>1, <2>2 DEF TypeOK, ErrorTyped, StateTyped
<1>2. FilesInv'
  BY DEF LInv, FilesInv, Resolve, runVars, ghosts, Own, Qualified
<1>3. ProgressInv'
  BY DEF LInv, ProgressInv, Resolve, runVars, ghosts
<1>4. ErrorInv'
  BY DEF LInv, ErrorInv, Resolve, runVars, ghosts
<1>5. ReportInv'
  BY DEF LInv, ReportInv, Resolve, runVars
<1>6. SettledInv'
  BY DEF LInv, SettledInv, Resolve, runVars, ghosts, Early, BeforeCommit
<1>7. OutcomeIsOfThisAttempt'
  BY DEF LInv, OutcomeIsOfThisAttempt, Resolve, runVars, ghosts
<1> QED
  BY <1>1, <1>2, <1>3, <1>4, <1>5, <1>6, <1>7 DEF LInv

\* The invariant holds at first.
LEMMA InitSafe == ASSUME Init PROVE LInv
<1> USE LifecycleAssumption
<1>1. ErrorTyped
  BY Constructed DEF Init, ErrorTyped
<1>2. report \in Reports
  BY Reported DEF Init, Bytes, Recoveries
<1>3. judged \in Judgements /\ recovery \in Copies
  BY DEF Init, NotJudged, Judgements, NoCopy, Copies, Bytes
<1>4. StateTyped
  BY Constructed, <1>2, <1>3 DEF Init, StateTyped, Bytes, Stages
<1>5. ReportInv /\ SettledInv
  BY DEF Init, Report, ReportInv, SettledInv, BeforeCommit, Early
<1> QED
  BY <1>1, <1>4, <1>5 DEF Init, LInv, TypeOK, ErrorTyped, StateTyped, FilesInv, ProgressInv,
     ErrorInv,
     OutcomeIsOfThisAttempt, Early, BeforeCommit, AfterCommit, Handling, Own, Qualified

\* Every step preserves it.
LEMMA NextSafe == ASSUME LInv, [Next]_vars PROVE LInv'
<1>1. CASE Interrupt \/ Crash
  BY <1>1, StopSafe DEF Interrupt, Crash
<1>2. CASE UNCHANGED vars
  BY <1>2 DEF vars, keys, runVars, ghosts, LInv, TypeOK, FilesInv, ProgressInv, ErrorInv,
     ReportInv,
     SettledInv, OutcomeIsOfThisAttempt, Own, Qualified
<1> QED
  BY <1>1, <1>2, StartSafe, PrepareDirsSafe, PlainStagesSafe, GenerateSafe, QualifySafe,
     FetchBaselineSafe, GuardSafe, PublishSafe, FinishReleaseStageSafe, PersistDerivedStateSafe,
     RenderEvidenceSafe, PublishObservabilitySafe, ReturnSafe, PreserveSafe, RecordFailureSafe,
     CleanupSafe, ResolveSafe DEF Next

\* The inductive invariant: what the stages of a run may rely on, whatever
\* failed, stopped or landed late before them (ProductionLifecycle.run).
THEOREM LifecycleInvariant == Spec => []LInv
BY InitSafe, NextSafe, PTL DEF Spec

\* Type correctness of the lifecycle.
THEOREM LifecycleTypes == Spec => []TypeOK
<1>1. LInv => TypeOK
  BY DEF LInv
<1> QED
  BY <1>1, LifecycleInvariant, PTL

\* The recorded outcome of an attempt is its own (record_failure_observability).
THEOREM OutcomesAreOwn == Spec => []OutcomeIsOfThisAttempt
<1>1. LInv => OutcomeIsOfThisAttempt
  BY DEF LInv
<1> QED
  BY <1>1, LifecycleInvariant, PTL

\* An ambiguous attempt leaves a copy of its candidate unless the commit was
\* proven, or says that it could not (_preserve_ambiguous_release).
THEOREM UnsettledCandidates == Spec => []UnsettledCandidateIsKept
<1>1. LInv => UnsettledCandidateIsKept
  BY DEF LInv, ReportInv, SettledInv, UnsettledCandidateIsKept
<1> QED
  BY <1>1, LifecycleInvariant, PTL

\* The copy holds the bytes that publication read before the attempt
\* (capture_baseline).
THEOREM PreservedBytes == Spec => []PreservedPreviousIsExact
<1>1. LInv => PreservedPreviousIsExact
  BY DEF LInv, ErrorInv, PreservedPreviousIsExact
<1> QED
  BY <1>1, LifecycleInvariant, PTL

\* Nothing is published that the guard of the same run did not compare with
\* what it replaces (run_release_candidate_stage).
THEOREM Promotions == Spec => []PromotedAgainstLive
<1>1. LInv => PromotedAgainstLive
  BY DEF LInv, SettledInv, PromotedAgainstLive
<1> QED
  BY <1>1, LifecycleInvariant, PTL

\* The published phase is entered only after publication returned
\* (ReleaseProgress.advance).
THEOREM PublishedPhases == Spec => []PublishedPhaseIsTrue
<1>1. LInv => PublishedPhaseIsTrue
  BY DEF LInv, ProgressInv, SettledInv, PublishedPhaseIsTrue
<1> QED
  BY <1>1, LifecycleInvariant, PTL

\* The cache and the history change only to those of a committed candidate
\* (_persist_derived_state).
THEOREM DerivedStates == Spec => DerivedStateFollowsRelease
<1>1. ASSUME LInv, [Next]_vars
      PROVE  [derived' # derived => committed /\ derived' = files.candidate]_vars
  <2>1. CASE PersistDerivedState
    BY <1>1, <2>1 DEF PersistDerivedState, LInv, ProgressInv, AfterCommit
  <2>2. CASE UNCHANGED vars
    BY <2>2
  <2>3. ASSUME ~PersistDerivedState, Next
        PROVE  derived' = derived
    BY <2>3 DEF Next, keys, runVars, Start, PrepareDirs, LoadProject, Generate,
       LoadDerivedState,
       DownloadMihomo, Qualify, SourceQuality, ClientContract, FetchBaseline, Guard, ValidateMatrix,
       Publish, FinishReleaseStage, RenderEvidence, WriteLifecycleObservability, PlainStage,
       PublishObservability, Return, Preserve, RecordFailure, Cleanup, Interrupt, Crash,
       Stop, Resolve
  <2> QED
    BY <1>1, <2>1, <2>2, <2>3
<1> QED
  BY <1>1, LifecycleInvariant, PTL DEF Spec, DerivedStateFollowsRelease
-----------------------------------------------------------------------------
(* What the attempts leave in the histories (ProductionObservability).      *)

Attempts == Observability!Attempts
Shas == Published \union {Generated, Nothing}
Rejections == {Nothing, "transient", "policy_rejection"}
Truths == [tries : Nat, rejected : Rejections, sha : Shas]

TracesTyped ==
    /\ tries \in Nat /\ raised \in [rejected : Rejections]
    /\ traces \in [sha : Shas, summary : {Nothing} \union Nat, guard : {"none", "passed", "blocked"}]

\* A summary exists once qualification passed, of an attempt that raised no
\* rejection and whose identity is the qualified candidate's.
TracesInv ==
    /\ TracesTyped
    /\ opc \in {"idle", "generated", "browsed"} => traces.summary = Nothing
    /\ opc \notin {"failing", "failed"} => raised = Observability!NoError
    /\ traces.summary # Nothing =>
          traces.summary = tries /\ raised = Observability!NoError /\ traces.sha \in Published

\* An entry of the ring tells of an attempt.
Told(entry, attempt) ==
    /\ entry.sha = attempt.sha /\ entry.category = attempt.rejected
    /\ entry.recovered => attempt.tries = 2 /\ attempt.rejected = Nothing /\ attempt.sha # Generated

Follows(entries, attempts) ==
    /\ Len(entries) = IF Len(attempts) < SloWindow THEN Len(attempts) ELSE SloWindow
    /\ \A i \in 1..Len(entries) : Told(entries[i], attempts[Len(attempts) - Len(entries) + i])

RingInv ==
    /\ truth \in Seq(Truths)
    /\ IF ring \in {Nothing, Broken} THEN truth = <<>>
       ELSE ring \in Seq(Attempts) /\ Follows(ring, truth)

LEMMA WindowKeepsLatest ==
    ASSUME NEW A, NEW entries \in Seq(A), NEW n \in Nat \ {0}
    PROVE  LET kept == Observability!Window(entries, n)
               dropped == Len(entries) - Len(kept)
           IN  /\ kept \in Seq(A)
               /\ Len(kept) = IF Len(entries) > n THEN n ELSE Len(entries)
               /\ \A i \in 1..Len(kept) : kept[i] = entries[dropped + i]
<1>1. CASE Len(entries) > n
  <2> DEFINE first == Len(entries) - n + 1
             kept == SubSeq(entries, first, Len(entries))
  <2>1. Observability!Window(entries, n) = kept
    BY <1>1 DEF Observability!Window, Observability!Latest
  <2>2. first \in 1..Len(entries) /\ Len(entries) \in Nat
    BY <1>1
  <2>3. /\ kept \in Seq(A) /\ Len(kept) = n
        /\ \A i \in 1..n : kept[i] = entries[first + i - 1]
    BY <2>2
  <2> HIDE DEF kept
  <2> QED
    BY <1>1, <2>1, <2>2, <2>3
<1>2. CASE ~(Len(entries) > n)
  BY <1>2 DEF Observability!Window
<1> QED
  BY <1>1, <1>2

LEMMA RingGrows ==
    ASSUME NEW entries \in Seq(Attempts), NEW attempts \in Seq(Truths), Follows(entries, attempts),
           NEW entry \in Attempts, NEW attempt \in Truths, Told(entry, attempt)
    PROVE  /\ Observability!AppendSloAttempt(entries, entry) \in Seq(Attempts)
           /\ Follows(Observability!AppendSloAttempt(entries, entry), Append(attempts, attempt))
<1> DEFINE longer == Append(entries, entry)
           kept == Observability!Window(longer, SloWindow)
           all == Append(attempts, attempt)
<1>1. /\ longer \in Seq(Attempts) /\ Len(longer) = Len(entries) + 1
      /\ \A i \in 1..Len(entries) : longer[i] = entries[i]
      /\ longer[Len(entries) + 1] = entry
  OBVIOUS
<1>2. /\ all \in Seq(Truths) /\ Len(all) = Len(attempts) + 1
      /\ \A i \in 1..Len(attempts) : all[i] = attempts[i]
      /\ all[Len(attempts) + 1] = attempt
  OBVIOUS
<1>3. SloWindow \in Nat \ {0} /\ Len(entries) \in Nat /\ Len(attempts) \in Nat
  BY SloAssumption
<1>4. /\ kept \in Seq(Attempts)
      /\ Len(kept) = IF Len(longer) > SloWindow THEN SloWindow ELSE Len(longer)
      /\ \A i \in 1..Len(kept) : kept[i] = longer[Len(longer) - Len(kept) + i]
  BY <1>1, <1>3, WindowKeepsLatest
<1> HIDE DEF longer, kept, all
<1>5. Len(kept) = IF Len(all) < SloWindow THEN Len(all) ELSE SloWindow
  BY <1>1, <1>2, <1>3, <1>4 DEF Follows
<1>6. /\ Len(kept) \in Nat /\ Len(kept) <= Len(longer)
      /\ Len(longer) = Len(entries) + 1 /\ Len(all) = Len(attempts) + 1
      /\ Len(entries) <= Len(attempts)
  BY <1>1, <1>2, <1>3, <1>4 DEF Follows
<1>7. ASSUME NEW i \in 1..Len(kept)
      PROVE  Told(kept[i], all[Len(all) - Len(kept) + i])
  <2> DEFINE j == Len(longer) - Len(kept) + i
             k == Len(all) - Len(kept) + i
  <2>1. kept[i] = longer[j]
    BY <1>4
  <2>2. /\ k = Len(attempts) - Len(entries) + j
        /\ j \in 1..Len(entries) + 1 /\ k \in 1..Len(attempts) + 1
    BY <1>3, <1>6
  <2> HIDE DEF j, k
  <2>3. CASE j = Len(entries) + 1
    <3>1. k = Len(attempts) + 1
      BY <1>3, <2>2, <2>3
    <3>2. kept[i] = entry /\ all[k] = attempt
      BY <1>1, <1>2, <2>1, <2>3, <3>1
    <3> QED
      BY <3>2 DEF k
  <2>4. CASE j # Len(entries) + 1
    <3>1. j \in 1..Len(entries) /\ k \in 1..Len(attempts)
      BY <1>3, <1>6, <2>2, <2>4
    <3>2. Told(entries[j], attempts[Len(attempts) - Len(entries) + j])
      BY <3>1 DEF Follows
    <3>3. kept[i] = entries[j] /\ all[k] = attempts[Len(attempts) - Len(entries) + j]
      BY <1>1, <1>2, <2>1, <2>2, <3>1
    <3> QED
      BY <3>2, <3>3 DEF k
  <2> QED
    BY <2>3, <2>4
<1> QED
  BY <1>4, <1>5, <1>7 DEF Follows, Observability!AppendSloAttempt, longer, kept, all

LEMMA RingIsRead ==
    ASSUME RingInv
    PROVE  /\ Observability!ParseSlo(ring) \in Seq(Attempts) /\ truth \in Seq(Truths)
           /\ Follows(Observability!ParseSlo(ring), truth)
<1>1. CASE ring \in {Nothing, Broken}
  BY <1>1, SloAssumption DEF RingInv, Follows, Observability!ParseSlo
<1>2. CASE ring \notin {Nothing, Broken}
  <2>1. ring \in Seq(Attempts) /\ Follows(ring, truth) /\ truth \in Seq(Truths)
    BY <1>2 DEF RingInv
  <2>2. ~(Len(ring) > SloWindow)
    BY <2>1, SloAssumption DEF Follows
  <2>3. Observability!ParseSlo(ring) = ring
    BY <1>2, <2>2 DEF Observability!ParseSlo, Observability!Window
  <2> QED
    BY <2>1, <2>3
<1> QED
  BY <1>1, <1>2

LEMMA LesserOfTwo ==
    ASSUME NEW a \in Nat, NEW b \in Nat
    PROVE  Observability!Min({a, b}) = IF b < a THEN b ELSE a
  BY DEF Observability!Min

LEMMA TracesSteps ==
    ASSUME TracesInv, Observability!Next
    PROVE  TracesInv'
<1> USE DEF TracesInv, TracesTyped
<1>1. CASE Observability!Generate
  BY <1>1 DEF Observability!Generate, Observability!NoFiles, Shas
<1>2. CASE Observability!TransientBrowsing
  BY <1>2 DEF Observability!TransientBrowsing, Rejections
<1>3. CASE Observability!RejectBrowsing
  BY <1>3 DEF Observability!RejectBrowsing, Rejections
<1>4. CASE Observability!QualifyBrowsing
  BY <1>4 DEF Observability!QualifyBrowsing
<1>5. ASSUME NEW c \in Published, Observability!FinishQualification(c)
      PROVE  TracesInv'
  BY <1>5 DEF Observability!FinishQualification, Shas
<1>6. ASSUME NEW verdict \in {"none", "passed", "blocked"}, Observability!Guard(verdict)
      PROVE  TracesInv'
  BY <1>6 DEF Observability!Guard
<1>7. CASE Observability!Release \/ Observability!StageFails
  BY <1>7 DEF Observability!Release, Observability!StageFails
<1>8. ASSUME NEW write \in Observability!Writes,
             \/ Observability!PersistProductionMetrics(write)
             \/ Observability!PublishSchedulerObservation(write)
             \/ Observability!RecordPassed(write)
             \/ Observability!RecordFailure(write)
      PROVE  TracesInv'
  BY <1>8 DEF Observability!PersistProductionMetrics, Observability!PublishSchedulerObservation,
     Observability!RecordPassed, Observability!RecordFailure
<1>9. CASE Observability!Clean
  BY <1>9 DEF Observability!Clean, Observability!NoFiles, Observability!NoError, Shas, Rejections
<1>10. CASE \/ \E write \in Observability!Writes : Observability!PersistFailureDiagnostic(write)
            \/ Observability!Return
  BY <1>9, <1>10 DEF Observability!PersistFailureDiagnostic, Observability!Return
<1> QED
  BY <1>1, <1>2, <1>3, <1>4, <1>5, <1>6, <1>7, <1>8, <1>10 DEF Observability!Next

LEMMA RecordingStep ==
    ASSUME TracesInv, RingInv, NEW outcome \in Outcomes, NEW write \in Observability!Writes,
           Observability!RecordOperationalSlo(outcome, write)
    PROVE  RingInv'
<1> DEFINE entry == [outcome |-> outcome, category |-> raised.rejected, sha |-> traces.sha,
                     retried |-> traces.summary = 2 \/ raised.rejected = "transient",
                     recovered |-> traces.summary = 2,
                     checked |-> traces.guard \in {"passed", "blocked"},
                     blocked |-> traces.guard = "blocked"]
           attempt == [tries |-> tries, rejected |-> raised.rejected, sha |-> traces.sha]
           read == Observability!ParseSlo(ring)
<1>1. \/ ring' = ring /\ truth' = truth
      \/ ring' = Observability!AppendSloAttempt(read, entry) /\ truth' = Append(truth, attempt)
  BY DEF Observability!RecordOperationalSlo, Observability!FailureCategory,
     Observability!RetryAttempted, Observability!QualificationRetryState,
     Observability!PromotionState, Observability!CandidateIdentity
<1>2. entry \in Attempts /\ attempt \in Truths
  BY DEF TracesInv, TracesTyped, Attempts, Observability!Attempts, Truths, Shas, Rejections,
     Observability!Outcomes, Outcomes, Observability!Categories
<1>3. Told(entry, attempt)
  <2>1. ASSUME traces.summary = 2
        PROVE  tries = 2 /\ raised.rejected = Nothing /\ traces.sha # Generated
    BY <2>1, SloAssumption DEF TracesInv, Observability!NoError
  <2>2. /\ entry.sha = attempt.sha /\ entry.category = attempt.rejected
        /\ attempt.tries = tries /\ attempt.rejected = raised.rejected /\ attempt.sha = traces.sha
    OBVIOUS
  <2>3. entry.recovered <=> traces.summary = 2
    OBVIOUS
  <2> QED
    BY <2>1, <2>2, <2>3, Zenon DEF Told
<1>4. read \in Seq(Attempts) /\ Follows(read, truth) /\ truth \in Seq(Truths)
  BY RingIsRead
<1> HIDE DEF entry, attempt, read
<1>5. CASE ring' = ring /\ truth' = truth
  BY <1>5 DEF RingInv
<1>6. CASE ring' = Observability!AppendSloAttempt(read, entry) /\ truth' = Append(truth, attempt)
  <2>1. ring' \in Seq(Attempts) /\ Follows(ring', truth')
    BY <1>2, <1>3, <1>4, <1>6, RingGrows
  <2>2. truth' \in Seq(Truths)
    BY <1>2, <1>4, <1>6
  <2>3. ring' \notin {Nothing, Broken}
    BY <2>1, SloAssumption DEF Attempts
  <2> QED
    BY <2>1, <2>2, <2>3 DEF RingInv
<1> QED
  BY <1>1, <1>5, <1>6

LEMMA RingSteps ==
    ASSUME TracesInv, RingInv, Observability!Next
    PROVE  RingInv'
<1>1. ASSUME NEW write \in Observability!Writes, Observability!RecordPassed(write)
      PROVE  RingInv'
  <2>1. Observability!RecordOperationalSlo("passed", write)
    BY <1>1 DEF Observability!RecordPassed
  <2> QED
    BY <2>1, RecordingStep DEF Outcomes
<1>2. ASSUME NEW write \in Observability!Writes, Observability!RecordFailure(write)
      PROVE  RingInv'
  <2>1. Observability!RecordOperationalSlo(Observability!FailureOutcome, write)
    BY <1>2 DEF Observability!RecordFailure
  <2>2. Observability!FailureOutcome \in Outcomes
    BY DEF Observability!FailureOutcome, Outcomes
  <2> QED
    BY <2>1, <2>2, RecordingStep
<1>3. CASE UNCHANGED <<ring, truth>>
  BY <1>3 DEF RingInv
<1>4. \/ UNCHANGED <<ring, truth>>
      \/ \E write \in Observability!Writes :
            Observability!RecordPassed(write) \/ Observability!RecordFailure(write)
  BY DEF Observability!Next, Observability!docs, Observability!Generate,
     Observability!TransientBrowsing, Observability!RejectBrowsing, Observability!QualifyBrowsing,
     Observability!FinishQualification, Observability!Guard, Observability!Release,
     Observability!StageFails, Observability!PersistProductionMetrics,
     Observability!PublishSchedulerObservation, Observability!PersistFailureDiagnostic,
     Observability!Return
<1> QED
  BY <1>1, <1>2, <1>3, <1>4

LEMMA RingInvariant == ProductionSpec => [](TracesInv /\ RingInv)
<1>1. ProductionInit => TracesInv /\ RingInv
  <2> SUFFICES ASSUME Observability!Init PROVE TracesInv /\ RingInv
    BY DEF ProductionInit
  <2>1. TracesInv
    BY DEF Observability!Init, TracesInv, TracesTyped, Observability!NoFiles, Observability!NoError,
       Shas, Rejections
  <2>2. truth = <<>> /\ ring \in {Nothing, Broken}
    BY DEF Observability!Init
  <2> QED
    BY <2>1, <2>2 DEF RingInv
<1>2. TracesInv /\ RingInv /\ [Runs \/ Records]_<<side, vars, histories>> => (TracesInv /\ RingInv)'
  <2> SUFFICES ASSUME TracesInv, RingInv, [Runs \/ Records]_<<side, vars, histories>>
               PROVE  TracesInv' /\ RingInv'
    OBVIOUS
  <2>1. CASE Records
    BY <2>1, TracesSteps, RingSteps DEF Records
  <2>2. CASE UNCHANGED histories
    BY <2>2 DEF histories, TracesInv, TracesTyped, RingInv
  <2> QED
    BY <2>1, <2>2 DEF Runs
<1> QED
  BY <1>1, <1>2, PTL DEF ProductionSpec

\* The ring holds the latest attempts that reached it, in order and as they
\* went, whatever writes were skipped, lost or reported wrongly, and wherever an
\* attempt failed (append_slo_attempt, production_failure_metrics.py).
THEOREM RingAlwaysTrue == ProductionSpec => []RingIsTrue
<1>1. TracesInv /\ RingInv => RingIsTrue
  <2> SUFFICES ASSUME RingInv PROVE RingIsTrue
    OBVIOUS
  <2> DEFINE read == Observability!ParseSlo(ring)
  <2>1. read \in Seq(Attempts) /\ Follows(read, truth) /\ truth \in Seq(Truths)
    BY RingIsRead
  <2> HIDE DEF read
  <2>2. Len(read) = Observability!Min({SloWindow, Len(truth)})
    BY <2>1, SloAssumption, LesserOfTwo DEF Follows
  <2>3. DOMAIN read = 1..Len(read)
    BY <2>1
  <2> QED
    BY <2>1, <2>2, <2>3 DEF RingIsTrue, Observability!RingIsTrue, Observability!Ring, read, Follows, Told
<1> QED
  BY <1>1, RingInvariant, PTL
-----------------------------------------------------------------------------
(* The failure streak of the metrics document.                              *)

Documents == Observability!Documents
Entries == [sha : Shas, epoch : Nat, attempts : Nat, recovered : BOOLEAN]
Taken == {"success", "failure"}

Kept(doc) == doc \in Documents /\ Len(doc.runs) <= MaxRuns /\ Len(doc.failures) <= MaxFailures
Newest(doc) == doc.runs[Len(doc.runs)].epoch
AtMost(a, b) == IF b < a THEN b ELSE a

\* Nothing is dated ahead of the clock, and no failure of the attempt under way is kept.
Dated(doc, now, under_way) ==
    /\ \A i \in 1..Len(doc.runs) : doc.runs[i].epoch <= now /\ doc.runs[i].epoch <= Newest(doc)
    /\ \A i \in 1..Len(doc.failures) : /\ doc.failures[i] <= now
                                       /\ under_way => doc.failures[i] < now

\* The latest success taken is the m-th event, or there is none and m is 0.
LastSuccess(taken, m) ==
    /\ m \in 0..Len(taken)
    /\ m # 0 => taken[m] = "success"
    /\ \A i \in (m + 1)..Len(taken) : taken[i] = "failure"

\* The failures no older than the newest run are the n latest ones.
Trailing(doc, n) ==
    /\ n \in 0..Len(doc.failures)
    /\ \A i \in 1..Len(doc.failures) :
          i > Len(doc.failures) - n <=> (doc.runs # <<>> => doc.failures[i] >= Newest(doc))

Accounts(doc, taken) ==
    \E m \in 0..Len(taken) : /\ LastSuccess(taken, m)
                             /\ m = 0 <=> doc.runs = <<>>
                             /\ Trailing(doc, AtMost(Len(taken) - m, MaxFailures))

StreakInv ==
    /\ clock \in Nat /\ events \in Seq(Taken)
    /\ LET doc == Observability!ParseMetrics(metrics)
       IN  Kept(doc) /\ Dated(doc, clock, opc # "idle") /\ Accounts(doc, events)

LEMMA LastOfKeepsLatest ==
    ASSUME NEW A, NEW entries \in Seq(A), NEW n \in Nat \ {0}
    PROVE  LET kept == Observability!LastOf(entries, n)
               dropped == Len(entries) - Len(kept)
           IN  /\ kept \in Seq(A)
               /\ Len(kept) = IF Len(entries) > n THEN n ELSE Len(entries)
               /\ \A i \in 1..Len(kept) : kept[i] = entries[dropped + i]
<1>1. CASE Len(entries) > n
  <2> DEFINE first == Len(entries) - n + 1
             kept == SubSeq(entries, first, Len(entries))
  <2>1. Observability!LastOf(entries, n) = kept
    BY <1>1 DEF Observability!LastOf
  <2>2. first \in 1..Len(entries) /\ Len(entries) \in Nat
    BY <1>1
  <2>3. /\ kept \in Seq(A) /\ Len(kept) = n
        /\ \A i \in 1..n : kept[i] = entries[first + i - 1]
    BY <2>2
  <2> HIDE DEF kept
  <2> QED
    BY <1>1, <2>1, <2>2, <2>3
<1>2. CASE ~(Len(entries) > n)
  BY <1>2 DEF Observability!LastOf
<1> QED
  BY <1>1, <1>2

\* Reading back a document that was written changes nothing.
LEMMA DocumentIsRead ==
    ASSUME NEW doc, Kept(doc)
    PROVE  Observability!ParseMetrics(doc) = doc
<1>1. doc \notin {NoMetrics, BrokenMetrics}
  BY SloAssumption DEF Kept, Documents
<1>2. doc = [runs |-> doc.runs, failures |-> doc.failures]
  BY DEF Kept, Documents, Observability!Documents
<1>3. Observability!LastOf(doc.runs, MaxRuns) = doc.runs
  <2>1. doc.runs \in Seq(Entries)
    BY DEF Kept, Documents, Observability!Documents, Entries, Shas
  <2> QED
    BY <2>1, MetricsAssumption DEF Kept, Observability!LastOf
<1>4. Observability!LastOf(doc.failures, MaxFailures) = doc.failures
  <2>1. doc.failures \in Seq(Nat)
    BY DEF Kept, Documents, Observability!Documents
  <2> QED
    BY <2>1, MetricsAssumption DEF Kept, Observability!LastOf
<1> QED
  BY <1>1, <1>2, <1>3, <1>4 DEF Observability!ParseMetrics

LEMMA DocumentParts ==
    /\ \A doc \in Documents : /\ doc.runs \in Seq(Entries) /\ Len(doc.runs) \in Nat
                              /\ doc.failures \in Seq(Nat) /\ Len(doc.failures) \in Nat
    /\ \A runs \in Seq(Entries), failures \in Seq(Nat) :
          [runs |-> runs, failures |-> failures] \in Documents
<1>1. Documents = [runs : Seq(Entries), failures : Seq(Nat)]
  BY DEF Documents, Observability!Documents, Entries, Shas
<1>2. ASSUME NEW doc \in Documents
      PROVE  /\ doc.runs \in Seq(Entries) /\ Len(doc.runs) \in Nat
             /\ doc.failures \in Seq(Nat) /\ Len(doc.failures) \in Nat
  <2>1. doc.runs \in Seq(Entries) /\ doc.failures \in Seq(Nat)
    BY <1>1, Zenon
  <2> QED
    BY <2>1
<1>3. ASSUME NEW runs \in Seq(Entries), NEW failures \in Seq(Nat)
      PROVE  [runs |-> runs, failures |-> failures] \in Documents
  BY <1>1
<1> QED
  BY <1>2, <1>3

LEMMA NothingKept ==
    ASSUME NEW now \in Nat
    PROVE  LET doc == Observability!EmptyMetrics
           IN  Kept(doc) /\ Dated(doc, now, FALSE) /\ Accounts(doc, <<>>)
<1> DEFINE doc == Observability!EmptyMetrics
<1>1. doc.runs = <<>> /\ doc.failures = <<>> /\ doc = [runs |-> <<>>, failures |-> <<>>]
  BY DEF Observability!EmptyMetrics
<1>2. doc \in Documents
  <2>1. <<>> \in Seq(Entries) /\ <<>> \in Seq(Nat)
    OBVIOUS
  <2> QED
    BY <1>1, <2>1, DocumentParts
<1> HIDE DEF doc
<1>3. Kept(doc) /\ Dated(doc, now, FALSE)
  BY <1>1, <1>2, MetricsAssumption DEF Kept, Dated
<1>4. AtMost(Len(<<>>) - 0, MaxFailures) = 0
  BY MetricsAssumption DEF AtMost
<1>5. LastSuccess(<<>>, 0) /\ Trailing(doc, 0)
  BY <1>1 DEF LastSuccess, Trailing
<1>6. Accounts(doc, <<>>)
  <2>1. 0 \in 0..Len(<<>>) /\ 0 = 0 /\ doc.runs = <<>>
    BY <1>1
  <2> QED
    BY <1>4, <1>5, <2>1 DEF Accounts
<1> QED
  BY <1>3, <1>6 DEF doc

\* A success dated now is newer than every failure kept.
LEMMA SuccessKept ==
    ASSUME NEW doc, Kept(doc), NEW now \in Nat, Dated(doc, now, TRUE),
           NEW taken \in Seq(Taken), NEW run \in Entries, run.epoch = now
    PROVE  LET next == Observability!AppendMetricsRun(doc, run)
           IN  Kept(next) /\ Dated(next, now, TRUE) /\ Accounts(next, Append(taken, "success"))
<1> DEFINE old == doc.runs
           again == old # <<>> /\ old[Len(old)].sha = run.sha
           base == IF again THEN Observability!Front(old) ELSE old
           runs == Observability!LastOf(Append(base, run), MaxRuns)
           next == Observability!AppendMetricsRun(doc, run)
           after == Append(taken, "success")
<1>1. old \in Seq(Entries) /\ Len(old) \in Nat /\ doc.failures \in Seq(Nat) /\ Len(doc.failures) \in Nat
  BY DocumentParts DEF Kept
<1>2. base \in Seq(Entries) /\ Len(base) \in Nat /\ \A i \in 1..Len(base) : base[i].epoch <= now
  <2>1. \A i \in 1..Len(old) : old[i].epoch <= now
    BY DEF Dated
  <2>2. CASE again
    <3>1. Len(old) # 0
      BY <1>1, <2>2
    <3>2. base = SubSeq(old, 1, Len(old) - 1)
      BY <2>2 DEF Observability!Front
    <3> HIDE DEF base
    <3>3. base \in Seq(Entries) /\ Len(base) = Len(old) - 1 /\ \A i \in 1..Len(base) : base[i] = old[i]
      BY <1>1, <3>1, <3>2
    <3>4. \A i \in 1..Len(base) : i \in 1..Len(old)
      BY <1>1, <3>1, <3>3
    <3> QED
      BY <1>1, <2>1, <3>1, <3>3, <3>4, SMTT(30)
  <2>3. CASE ~again
    BY <1>1, <2>1, <2>3
  <2> QED
    BY <2>2, <2>3
<1> HIDE DEF base
<1> DEFINE longer == Append(base, run)
<1>3. /\ longer \in Seq(Entries) /\ Len(longer) = Len(base) + 1 /\ longer[Len(longer)] = run
      /\ \A i \in 1..Len(longer) : longer[i].epoch <= now
  <2>1. /\ longer \in Seq(Entries) /\ Len(longer) = Len(base) + 1 /\ longer[Len(base) + 1] = run
        /\ \A i \in 1..Len(base) : longer[i] = base[i]
    BY <1>2
  <2> HIDE DEF longer
  <2>2. \A i \in 1..Len(longer) : i \in 1..Len(base) \/ i = Len(base) + 1
    BY <1>2, <2>1
  <2> QED
    BY <1>2, <2>1, <2>2
<1>4. /\ runs \in Seq(Entries) /\ Len(runs) \in 1..MaxRuns /\ runs[Len(runs)] = run
      /\ \A i \in 1..Len(runs) : runs[i].epoch <= now
  <2> HIDE DEF longer
  <2>1. /\ runs \in Seq(Entries)
        /\ Len(runs) = IF Len(longer) > MaxRuns THEN MaxRuns ELSE Len(longer)
        /\ \A i \in 1..Len(runs) : runs[i] = longer[Len(longer) - Len(runs) + i]
    <3>1. MaxRuns \in Nat \ {0}
      BY MetricsAssumption
    <3> QED
      BY <1>3, <3>1, LastOfKeepsLatest DEF longer
  <2> HIDE DEF runs
  <2>2. Len(runs) \in 1..MaxRuns /\ Len(runs) \in 1..Len(longer) /\ Len(longer) \in Nat
    BY <1>2, <1>3, <2>1, MetricsAssumption
  <2>3. Len(longer) - Len(runs) + Len(runs) = Len(longer) /\ Len(runs) \in 1..Len(runs)
    BY <2>2
  <2>4. \A i \in 1..Len(runs) : Len(longer) - Len(runs) + i \in 1..Len(longer)
    BY <2>2
  <2> QED
    BY <1>3, <2>1, <2>2, <2>3, <2>4
<1> HIDE DEF longer, runs
<1>5. next = [runs |-> runs, failures |-> doc.failures]
  <2>1. next = [doc EXCEPT !.runs = runs]
    BY DEF Observability!AppendMetricsRun, runs, longer, base
  <2>2. doc = [runs |-> doc.runs, failures |-> doc.failures]
    BY DEF Kept, Documents, Observability!Documents
  <2> QED
    BY <2>1, <2>2
<1> HIDE DEF next
<1>6. next.runs = runs /\ next.failures = doc.failures
  BY <1>5
<1>7. Kept(next)
  <2>1. next \in Documents
    BY <1>1, <1>4, <1>5, DocumentParts
  <2> QED
    BY <1>4, <1>6, <2>1, MetricsAssumption DEF Kept
<1>8. Newest(next) = now
  BY <1>4, <1>6 DEF Newest
<1>9. Dated(next, now, TRUE)
  BY <1>4, <1>6, <1>8 DEF Dated
<1>10. Accounts(next, after)
  <2>1. after \in Seq(Taken) /\ Len(after) = Len(taken) + 1 /\ after[Len(after)] = "success" /\ Len(taken) \in Nat
    BY DEF Taken
  <2> HIDE DEF after
  <2>2. LastSuccess(after, Len(after)) /\ Len(after) \in 0..Len(after) /\ Len(after) # 0
    BY <2>1 DEF LastSuccess
  <2>3. runs # <<>>
    BY <1>4
  <2>4. AtMost(Len(after) - Len(after), MaxFailures) = 0
    BY <2>1, MetricsAssumption DEF AtMost
  <2>5. Trailing(next, 0)
    <3>1. \A i \in 1..Len(doc.failures) : ~(doc.failures[i] >= now) /\ ~(i > Len(doc.failures) - 0)
      <4>1. \A i \in 1..Len(doc.failures) : doc.failures[i] < now /\ doc.failures[i] \in Nat
        BY <1>1 DEF Dated
      <4> QED
        BY <1>1, <4>1
    <3> QED
      BY <1>1, <1>6, <1>8, <2>3, <3>1 DEF Trailing
  <2> QED
    BY <1>6, <2>2, <2>3, <2>4, <2>5 DEF Accounts
<1> QED
  BY <1>7, <1>9, <1>10 DEF next, after

\* A failure dated now is no older than the newest run.
LEMMA FailureKept ==
    ASSUME NEW doc, Kept(doc), NEW now \in Nat, NEW under_way, Dated(doc, now, under_way),
           NEW taken \in Seq(Taken), Accounts(doc, taken)
    PROVE  LET next == Observability!AppendFailureMetric(doc, now)
           IN  Kept(next) /\ Dated(next, now, FALSE) /\ Accounts(next, Append(taken, "failure"))
<1> DEFINE old == doc.failures
           longer == Append(old, now)
           failures == Observability!LastOf(longer, MaxFailures)
           next == Observability!AppendFailureMetric(doc, now)
           after == Append(taken, "failure")
<1>1. /\ doc.runs \in Seq(Entries) /\ Len(doc.runs) \in Nat
      /\ old \in Seq(Nat) /\ Len(old) \in Nat /\ Len(old) <= MaxFailures
      /\ MaxFailures \in Nat \ {0}
  BY DocumentParts, MetricsAssumption DEF Kept
<1>2. /\ longer \in Seq(Nat) /\ Len(longer) = Len(old) + 1 /\ longer[Len(old) + 1] = now
      /\ \A i \in 1..Len(old) : longer[i] = old[i]
  BY <1>1
<1>3. /\ failures \in Seq(Nat)
      /\ Len(failures) = IF Len(longer) > MaxFailures THEN MaxFailures ELSE Len(longer)
      /\ \A i \in 1..Len(failures) : failures[i] = longer[Len(longer) - Len(failures) + i]
  <2> HIDE DEF longer
  <2> QED
    BY <1>1, <1>2, LastOfKeepsLatest
<1> HIDE DEF longer, failures
<1>4. next = [runs |-> doc.runs, failures |-> failures]
  <2>1. next = [doc EXCEPT !.failures = failures]
    BY DEF Observability!AppendFailureMetric, failures, longer
  <2>2. doc = [runs |-> doc.runs, failures |-> doc.failures]
    BY DEF Kept, Documents, Observability!Documents
  <2> QED
    BY <2>1, <2>2
<1> HIDE DEF next
<1>5. next.runs = doc.runs /\ next.failures = failures /\ Newest(next) = Newest(doc)
  BY <1>4 DEF Newest
<1> DEFINE lost == Len(longer) - Len(failures)
<1>6. /\ lost \in {0, 1} /\ Len(failures) = Len(old) + 1 - lost /\ Len(failures) \in Nat
      /\ Len(failures) # 0 /\ Len(failures) <= MaxFailures
      /\ lost = 1 => Len(failures) = MaxFailures
      /\ \A i \in 1..Len(failures) : failures[i] = longer[lost + i]
  <2>1. \A i \in 1..Len(failures) : failures[i] = longer[lost + i]
    BY <1>3
  <2>2. Len(failures) \in Nat /\ Len(longer) \in Nat
    BY <1>1, <1>2, <1>3
  <2>3. /\ lost \in {0, 1} /\ Len(failures) = Len(old) + 1 - lost
        /\ Len(failures) # 0 /\ Len(failures) <= MaxFailures
        /\ lost = 1 => Len(failures) = MaxFailures
    BY <1>1, <1>2, <1>3
  <2> QED
    BY <2>1, <2>2, <2>3
<1> HIDE DEF lost
<1>7. ASSUME NEW i \in 1..Len(failures)
      PROVE  \/ i = Len(failures) /\ failures[i] = now
             \/ i # Len(failures) /\ i + lost \in 1..Len(old) /\ failures[i] = old[i + lost]
  <2>1. failures[i] = longer[lost + i] /\ i \in Nat /\ i >= 1 /\ i <= Len(failures)
    BY <1>6
  <2>2. i = Len(failures) => lost + i = Len(old) + 1
    BY <1>1, <1>6
  <2>3. i # Len(failures) => i + lost \in 1..Len(old) /\ lost + i = i + lost
    BY <1>1, <1>6, <2>1
  <2> QED
    BY <1>2, <2>1, <2>2, <2>3
<1>8. Kept(next)
  <2>1. next \in Documents
    BY <1>1, <1>3, <1>4, DocumentParts
  <2> QED
    BY <1>5, <1>6, <2>1 DEF Kept
<1>9. Dated(next, now, FALSE)
  <2>1. \A i \in 1..Len(failures) : failures[i] <= now
    <3>1. \A i \in 1..Len(old) : old[i] <= now
      BY DEF Dated
    <3> QED
      BY <1>7, <3>1
  <2> QED
    BY <1>5, <2>1 DEF Dated
<1>10. PICK m \in 0..Len(taken) : /\ LastSuccess(taken, m)
                                  /\ m = 0 <=> doc.runs = <<>>
                                  /\ Trailing(doc, AtMost(Len(taken) - m, MaxFailures))
  BY DEF Accounts
<1>11. after \in Seq(Taken) /\ Len(after) = Len(taken) + 1 /\ Len(taken) \in Nat
       /\ (\A i \in 1..Len(taken) : after[i] = taken[i]) /\ after[Len(taken) + 1] = "failure"
  BY DEF Taken
<1> HIDE DEF after
<1>12. LastSuccess(after, m) /\ m \in 0..Len(after)
  <2>1. m \in 0..Len(after) /\ m \in Nat
    BY <1>11
  <2>2. m # 0 => after[m] = "success"
    BY <1>10, <1>11 DEF LastSuccess
  <2>3. ASSUME NEW i \in (m + 1)..Len(after) PROVE after[i] = "failure"
    <3>1. CASE i = Len(taken) + 1
      BY <1>11, <3>1
    <3>2. CASE i # Len(taken) + 1
      <4>1. i \in (m + 1)..Len(taken) /\ i \in 1..Len(taken)
        BY <1>11, <2>1, <3>2
      <4> QED
        BY <1>10, <1>11, <4>1 DEF LastSuccess
    <3> QED
      BY <3>1, <3>2
  <2> QED
    BY <2>1, <2>2, <2>3 DEF LastSuccess
<1> DEFINE n == AtMost(Len(taken) - m, MaxFailures)
           more == AtMost(Len(after) - m, MaxFailures)
<1>13. /\ n \in 0..Len(old) /\ more \in Nat /\ more <= MaxFailures
       /\ \/ more = n + 1
          \/ more = n /\ n = MaxFailures
  <2>1. n \in 0..Len(old)
    BY <1>10 DEF Trailing
  <2> QED
    BY <1>1, <1>11, <2>1 DEF AtMost
<1>14. \A i \in 1..Len(old) : i > Len(old) - n <=> (doc.runs # <<>> => old[i] >= Newest(doc))
  BY <1>10 DEF Trailing
<1> HIDE DEF n, more
<1>15. doc.runs # <<>> => now >= Newest(doc)
  <2> SUFFICES ASSUME doc.runs # <<>> PROVE now >= Newest(doc)
    OBVIOUS
  <2>1. Len(doc.runs) \in 1..Len(doc.runs)
    BY <1>1
  <2> QED
    BY <2>1 DEF Dated, Newest
<1>16. Trailing(next, more)
  <2>1. more \in 0..Len(failures)
    BY <1>1, <1>6, <1>13
  <2>2. ASSUME NEW i \in 1..Len(failures)
        PROVE  i > Len(failures) - more <=> (doc.runs # <<>> => failures[i] >= Newest(doc))
    <3>1. CASE i = Len(failures) /\ failures[i] = now
      <4>1. more > 0
        BY <1>1, <1>13
      <4>2. i > Len(failures) - more
        BY <1>6, <2>1, <3>1, <4>1
      <4> QED
        BY <1>15, <3>1, <4>2
    <3>2. CASE i # Len(failures) /\ i + lost \in 1..Len(old) /\ failures[i] = old[i + lost]
      <4>1. i + lost > Len(old) - n <=> (doc.runs # <<>> => failures[i] >= Newest(doc))
        BY <1>14, <3>2
      <4>2. i + lost > Len(old) - n <=> i > Len(failures) - more
        <5>1. i \in Nat /\ i >= 1 /\ n \in Nat /\ n <= Len(old)
          BY <1>1, <1>6, <1>13
        <5>2. CASE lost = 0
          <6>1. more = n + 1
            BY <1>1, <1>6, <1>13, <5>2
          <6> QED
            BY <1>1, <1>6, <1>13, <5>1, <5>2, <6>1
        <5>3. CASE lost = 1
          BY <1>1, <1>6, <1>13, <5>1, <5>3, SMTT(30)
        <5> QED
          BY <1>6, <5>2, <5>3
      <4> QED
        BY <4>1, <4>2
    <3> QED
      BY <1>7, <3>1, <3>2
  <2> QED
    BY <1>5, <2>1, <2>2 DEF Trailing
<1>17. Accounts(next, after)
  BY <1>5, <1>10, <1>12, <1>16 DEF Accounts, more
<1> QED
  BY <1>8, <1>9, <1>17 DEF next, after

-----------------------------------------------------------------------------
(* The events in the order of time.                                         *)

Dates == [epoch : Nat, failed : BOOLEAN]
Weight(event) == 2 * event.epoch + (IF event.failed THEN 1 ELSE 0)

LEMMA BeforeIsLighter ==
    ASSUME NEW a \in Dates, NEW b \in Dates
    PROVE  /\ Weight(a) \in Nat /\ Weight(b) \in Nat
           /\ Observability!EventBefore(a, b) <=> Weight(a) < Weight(b)
<1>1. a.epoch \in Nat /\ b.epoch \in Nat /\ a.failed \in BOOLEAN /\ b.failed \in BOOLEAN
  BY DEF Dates
<1>2. CASE a.failed /\ b.failed
  BY <1>1, <1>2 DEF Weight, Observability!EventBefore
<1>3. CASE a.failed /\ ~b.failed
  BY <1>1, <1>3 DEF Weight, Observability!EventBefore
<1>4. CASE ~a.failed /\ b.failed
  BY <1>1, <1>4 DEF Weight, Observability!EventBefore
<1>5. CASE ~a.failed /\ ~b.failed
  BY <1>1, <1>5 DEF Weight, Observability!EventBefore
<1> QED
  BY <1>2, <1>3, <1>4, <1>5

\* A stable sort gives every place of the result to exactly one event.
LEMMA PlacesAreFilled ==
    ASSUME NEW all \in Seq(Dates)
    PROVE  /\ \A i \in 1..Len(all) : Cardinality(Observability!UpTo(all, i)) \in 1..Len(all)
           /\ \A i, j \in 1..Len(all) :
                 Cardinality(Observability!UpTo(all, i)) = Cardinality(Observability!UpTo(all, j)) => i = j
           /\ \A k \in 1..Len(all) :
                 \E i \in 1..Len(all) : Cardinality(Observability!UpTo(all, i)) = k
<1> DEFINE n == Len(all)
           upto(i) == Observability!UpTo(all, i)
           w(i) == Weight(all[i])
           rank == [i \in 1..n |-> Cardinality(upto(i))]
<1>1. n \in Nat /\ \A i \in 1..n : i \in Nat /\ all[i] \in Dates
  OBVIOUS
<1>2. \A i \in 1..n : w(i) \in Nat
  BY <1>1, BeforeIsLighter
<1>20. IsFiniteSet(1..n) /\ Cardinality(1..n) = n
  <2> HIDE DEF upto, w, rank, n
  <2>1. n \in Int /\ 1 \in Int /\ n >= 0
    BY <1>1
  <2> QED
    BY <2>1, FS_Interval
<1>3. ASSUME NEW i \in 1..n
      PROVE  upto(i) = {j \in 1..n : w(j) < w(i) \/ (w(j) = w(i) /\ j <= i)}
  <2>1. DOMAIN all = 1..n
    OBVIOUS
  <2>2. ASSUME NEW j \in 1..n
        PROVE  \/ Observability!EventBefore(all[j], all[i])
               \/ j <= i /\ ~Observability!EventBefore(all[i], all[j])
               <=> w(j) < w(i) \/ (w(j) = w(i) /\ j <= i)
    <3>1. /\ Observability!EventBefore(all[j], all[i]) <=> w(j) < w(i)
          /\ Observability!EventBefore(all[i], all[j]) <=> w(i) < w(j)
          /\ w(i) \in Nat /\ w(j) \in Nat
      BY <1>1, BeforeIsLighter
    <3> HIDE DEF w
    <3> QED
      BY <3>1
  <2> QED
    BY <2>1, <2>2 DEF Observability!UpTo
<1> HIDE DEF upto, w
<1>4. ASSUME NEW i \in 1..n
      PROVE  IsFiniteSet(upto(i)) /\ Cardinality(upto(i)) \in 1..n
  <2>2. upto(i) \subseteq 1..n /\ i \in upto(i)
    BY <1>1, <1>2, <1>3
  <2>3. IsFiniteSet(upto(i)) /\ Cardinality(upto(i)) <= n
    BY <1>20, <2>2, FS_Subset
  <2>4. Cardinality(upto(i)) \in Nat /\ Cardinality(upto(i)) # 0
    BY <2>2, <2>3, FS_CardinalityType, FS_EmptySet
  <2> QED
    BY <1>1, <2>3, <2>4
<1>5. ASSUME NEW i \in 1..n, NEW j \in 1..n, w(i) < w(j) \/ (w(i) = w(j) /\ i < j)
      PROVE  Cardinality(upto(i)) < Cardinality(upto(j))
  <2>1. w(i) \in Nat /\ w(j) \in Nat /\ i \in Nat /\ j \in Nat
    BY <1>1, <1>2
  <2>2. j \in upto(j) /\ j \notin upto(i)
    BY <1>3, <1>5, <2>1
  <2>3. ASSUME NEW k \in upto(i) PROVE k \in upto(j)
    <3>1. k \in 1..n /\ k \in Nat /\ w(k) \in Nat /\ (w(k) < w(i) \/ (w(k) = w(i) /\ k <= i))
      BY <1>1, <1>2, <1>3
    <3>2. w(k) < w(j) \/ (w(k) = w(j) /\ k <= j)
      BY <1>5, <2>1, <3>1
    <3> QED
      BY <1>3, <3>1, <3>2
  <2>4. Cardinality(upto(i)) <= Cardinality(upto(j)) /\ Cardinality(upto(i)) # Cardinality(upto(j))
    BY <1>4, <2>2, <2>3, FS_Subset
  <2> QED
    BY <1>4, <2>4
<1>6. ASSUME NEW i \in 1..n, NEW j \in 1..n, Cardinality(upto(i)) = Cardinality(upto(j))
      PROVE  i = j
  <2> SUFFICES ASSUME i # j PROVE FALSE
    OBVIOUS
  <2>1. \/ w(i) < w(j) \/ (w(i) = w(j) /\ i < j)
        \/ w(j) < w(i) \/ (w(j) = w(i) /\ j < i)
    BY <1>1, <1>2
  <2>2. Cardinality(upto(i)) < Cardinality(upto(j)) \/ Cardinality(upto(j)) < Cardinality(upto(i))
    BY <1>5, <2>1
  <2>3. Cardinality(upto(i)) \in Nat
    BY <1>1, <1>4
  <2> QED
    BY <1>6, <2>2, <2>3
<1>7. rank \in Injection(1..n, 1..n)
  <2>1. rank \in [1..n -> 1..n]
    BY <1>4
  <2>2. \A i, j \in 1..n : rank[i] = rank[j] => i = j
    BY <1>6
  <2> QED
    BY <2>1, <2>2 DEF Injection, IsInjective
<1>8. rank \in Surjection(1..n, 1..n)
  <2> HIDE DEF rank
  <2> QED
    BY <1>7, <1>20, FS_Injection
<1>9. ASSUME NEW k \in 1..n PROVE \E i \in 1..n : Cardinality(upto(i)) = k
  <2>1. \E i \in 1..n : rank[i] = k
    BY <1>8 DEF Surjection
  <2> QED
    BY <2>1
<1> QED
  BY <1>4, <1>6, <1>9 DEF upto

\* R successes, the last of them the newest, and F failures, n of them no older.
Listed(all, R, F, n) ==
    /\ all \in Seq(Dates) /\ Len(all) = R + F /\ n \in 0..F
    /\ \A i \in 1..R : all[i].failed = FALSE /\ all[i].epoch <= all[R].epoch
    /\ \A i \in 1..F : /\ all[R + i].failed = TRUE
                       /\ i > F - n <=> (R # 0 => all[R + i].epoch >= all[R].epoch)

\* Sorted, those n failures come last.
LEMMA LatestAreCounted ==
    ASSUME NEW R \in Nat, NEW F \in Nat, NEW n, NEW all, Listed(all, R, F, n)
    PROVE  Observability!FailureStreak(Observability!InOrder(all)) = n
<1>20. /\ all \in Seq(Dates) /\ Len(all) = R + F /\ n \in 0..F
       /\ \A i \in 1..R : all[i].failed = FALSE /\ all[i].epoch <= all[R].epoch
       /\ \A i \in 1..F : /\ all[R + i].failed = TRUE
                          /\ i > F - n <=> (R # 0 => all[R + i].epoch >= all[R].epoch)
  BY DEF Listed
<1> USE <1>20
<1> DEFINE sorted == Observability!InOrder(all)
           place == [k \in DOMAIN all |->
                       CHOOSE i \in DOMAIN all : Cardinality(Observability!UpTo(all, i)) = k]
           last == R + F - n
           upto(i) == Observability!UpTo(all, i)
           good == {0} \union {k \in DOMAIN sorted : ~sorted[k].failed}
<1>19. sorted = [k \in DOMAIN all |-> all[place[k]]]
  <2> DEFINE chosen(k) == CHOOSE i \in DOMAIN all : Cardinality(Observability!UpTo(all, i)) = k
  <2>1. sorted = [k \in DOMAIN all |-> all[chosen(k)]]
    BY DEF Observability!InOrder, Observability!Cardinality, Cardinality
  <2>2. \A k \in DOMAIN all : place[k] = chosen(k)
    OBVIOUS
  <2> HIDE DEF sorted, place, chosen
  <2> QED
    BY <2>1, <2>2
<1> HIDE DEF sorted
<1>1. /\ DOMAIN all = 1..(R + F) /\ R + F \in Nat /\ \A i \in 1..(R + F) : all[i].epoch \in Nat
      /\ DOMAIN sorted = 1..(R + F) /\ \A i \in 1..(R + F) : all[i] \in Dates
  <2>1. DOMAIN all = 1..(R + F) /\ \A i \in 1..(R + F) : all[i] \in Dates
    OBVIOUS
  <2>2. \A event \in Dates : event.epoch \in Nat
    BY DEF Dates
  <2> QED
    BY <1>19, <2>1, <2>2
<1>2. last \in Nat /\ R <= last /\ last <= R + F /\ n = R + F - last /\ F - n = last - R /\ n \in Nat
  OBVIOUS
<1>3. \A i \in 1..(R + F) : Cardinality(upto(i)) \in 1..(R + F)
  BY PlacesAreFilled
<1>4. \A i, j \in 1..(R + F) : Cardinality(upto(i)) = Cardinality(upto(j)) => i = j
  BY PlacesAreFilled
<1>5. \A k \in 1..(R + F) : \E i \in 1..(R + F) : Cardinality(upto(i)) = k
  BY PlacesAreFilled
<1>6. \A i \in 1..(R + F) : upto(i) = {j \in 1..(R + F) : \/ Observability!EventBefore(all[j], all[i])
                                                         \/ (j <= i /\ ~Observability!EventBefore(all[i], all[j]))}
  BY <1>1 DEF Observability!UpTo
<1>17. \A k \in 1..(R + F) : sorted[k] = all[place[k]]
  BY <1>1, <1>19
<1>18. \A k \in 1..(R + F) : place[k] = CHOOSE i \in DOMAIN all : Cardinality(upto(i)) = k
  BY <1>1
<1> HIDE DEF place, last, upto, good
<1>7. ASSUME NEW k \in 1..(R + F)
      PROVE  place[k] \in 1..(R + F) /\ Cardinality(upto(place[k])) = k
  <2>1. place[k] = CHOOSE i \in DOMAIN all : Cardinality(upto(i)) = k
    BY <1>18
  <2>2. \E i \in DOMAIN all : Cardinality(upto(i)) = k
    BY <1>1, <1>5
  <2> QED
    BY <1>1, <2>1, <2>2
<1>8. ASSUME NEW j \in (R + 1)..(R + F)
      PROVE  all[j].failed = TRUE /\ (j > last <=> (R # 0 => all[j].epoch >= all[R].epoch))
  <2>1. j - R \in 1..F /\ R + (j - R) = j /\ (j - R > F - n <=> j > last)
    BY <1>2
  <2> QED
    BY <2>1
<1>9. ASSUME NEW i \in 1..R
      PROVE  upto(i) \subseteq 1..last
  <2>1. i \in 1..(R + F) /\ R \in 1..(R + F)
    OBVIOUS
  <2>2. ASSUME NEW j \in upto(i), ~(j <= last) PROVE FALSE
    <3>1. /\ j \in 1..(R + F)
          /\ \/ Observability!EventBefore(all[j], all[i])
             \/ ~Observability!EventBefore(all[i], all[j])
      BY <1>6, <2>1
    <3>2. j \in (R + 1)..(R + F) /\ j > last /\ R # 0
      BY <1>2, <2>2, <3>1
    <3>3. all[j].failed = TRUE /\ all[j].epoch >= all[R].epoch
      BY <1>8, <3>2
    <3>4. all[i].failed = FALSE /\ all[i].epoch <= all[R].epoch
      OBVIOUS
    <3>5. all[i].epoch \in Nat /\ all[j].epoch \in Nat /\ all[R].epoch \in Nat
      BY <1>1, <2>1, <3>1
    <3> QED
      BY <3>1, <3>3, <3>4, <3>5 DEF Observability!EventBefore
  <2>3. ASSUME NEW j \in upto(i) PROVE j \in 1..last
    <3>1. j \in 1..(R + F) /\ j <= last
      BY <1>6, <2>1, <2>2
    <3> QED
      BY <1>2, <3>1
  <2> QED
    BY <2>3
<1>10. IsFiniteSet(1..last) /\ Cardinality(1..last) = last
  <2>1. last \in Int /\ 1 \in Int /\ last >= 0
    BY <1>2
  <2>2. IsFiniteSet(1..last) /\ Cardinality(1..last) = IF 1 > last THEN 0 ELSE last - 1 + 1
    BY <2>1, FS_Interval
  <2> QED
    BY <2>1, <2>2
\* After that place only failures.
<1>11. ASSUME NEW k \in 1..(R + F), k > last
       PROVE  sorted[k].failed = TRUE
  <2>1. PICK i \in 1..(R + F) : i = place[k] /\ Cardinality(upto(i)) = k
    BY <1>7
  <2>2. ASSUME i \in 1..R PROVE FALSE
    <3>1. Cardinality(upto(i)) <= Cardinality(1..last)
      BY <1>9, <1>10, <2>2, FS_Subset
    <3> QED
      BY <1>2, <1>10, <1>11, <2>1, <3>1
  <2>3. i \in (R + 1)..(R + F)
    BY <2>2
  <2>4. sorted[k] = all[i]
    BY <1>17, <2>1
  <2> QED
    BY <1>8, <2>3, <2>4
\* At that place the newest success, if there is one.
<1>12. ASSUME last # 0
       PROVE  last \in 1..(R + F) /\ sorted[last].failed = FALSE
  <2>1. R # 0
    <3> SUFFICES ASSUME R = 0 PROVE FALSE
      OBVIOUS
    <3>1. last \in (R + 1)..(R + F) /\ ~(last > last)
      BY <1>2, <1>12
    <3> QED
      BY <1>8, <3>1
  <2>2. R \in 1..R /\ R \in 1..(R + F) /\ last \in 1..(R + F)
    BY <1>2, <1>12, <2>1
  <2>3. ASSUME NEW j \in 1..last PROVE j \in upto(R)
    <3>1. j \in 1..(R + F)
      BY <1>2
    <3>2. /\ all[R].failed = FALSE /\ all[R].epoch \in Nat /\ all[j].epoch \in Nat
      BY <1>1, <2>2, <3>1
    <3>3. CASE j <= R
      <4>1. all[j].failed = FALSE /\ all[j].epoch <= all[R].epoch
        BY <3>3
      <4>2. ~Observability!EventBefore(all[R], all[j])
        BY <3>2, <4>1 DEF Observability!EventBefore
      <4> QED
        BY <1>6, <2>2, <3>1, <3>3, <4>2
    <3>4. CASE ~(j <= R)
      <4>1. j \in (R + 1)..(R + F) /\ ~(j > last)
        BY <1>2, <3>1, <3>4
      <4>2. all[j].failed = TRUE /\ ~(all[j].epoch >= all[R].epoch)
        BY <1>8, <4>1
      <4>3. Observability!EventBefore(all[j], all[R])
        BY <3>2, <4>2 DEF Observability!EventBefore
      <4> QED
        BY <1>6, <2>2, <3>1, <4>3
    <3> QED
      BY <3>3, <3>4
  <2>4. upto(R) = 1..last
    BY <1>9, <2>2, <2>3
  <2>5. place[last] = R
    BY <1>4, <1>7, <1>10, <2>2, <2>4
  <2>6. sorted[last] = all[R] /\ all[R].failed = FALSE
    BY <1>17, <2>2, <2>5
  <2> QED
    BY <2>2, <2>6
<1>13. last \in good /\ \A k \in good : k \in Nat /\ last >= k
  <2>1. last \in good
    BY <1>1, <1>12 DEF good
  <2>2. ASSUME NEW k \in good PROVE k \in Nat /\ last >= k
    <3>1. CASE k = 0
      BY <1>2, <3>1
    <3>2. CASE k # 0
      <4>1. k \in 1..(R + F) /\ ~sorted[k].failed
        BY <1>1, <3>2 DEF good
      <4>2. ~(k > last)
        BY <1>11, <4>1
      <4> QED
        BY <1>2, <4>1, <4>2
    <3> QED
      BY <3>1, <3>2
  <2> QED
    BY <2>1, <2>2
<1>14. Observability!Max(good) = last
  <2> DEFINE greatest == CHOOSE x \in good : \A y \in good : x >= y
  <2>1. greatest \in good /\ \A y \in good : greatest >= y
    BY <1>13
  <2>2. Observability!Max(good) = greatest
    BY DEF Observability!Max
  <2> HIDE DEF greatest
  <2>3. greatest \in Nat /\ greatest >= last /\ last >= greatest
    BY <1>13, <2>1
  <2> QED
    BY <1>2, <2>2, <2>3
<1>15. Len(sorted) = R + F
  <2>1. sorted \in Seq(Dates)
    <3>1. \A k \in 1..(R + F) : sorted[k] \in Dates
      BY <1>1, <1>7, <1>17
    <3>2. sorted \in [1..(R + F) -> Dates]
      BY <1>1, <1>19, <3>1
    <3> QED
      BY <1>1, <3>2
  <2> QED
    BY <1>1, <2>1
<1>16. Observability!FailureStreak(sorted) = Len(sorted) - last
  BY <1>14 DEF Observability!FailureStreak, good
<1> QED
  BY <1>2, <1>15, <1>16 DEF sorted

\* The streak counts the failures no older than the newest run.
LEMMA StreakCounted ==
    ASSUME NEW doc, Kept(doc), NEW now \in Nat, NEW under_way, Dated(doc, now, under_way),
           NEW n, Trailing(doc, n)
    PROVE  Observability!FailureStreak(Observability!Events(doc)) = n
<1> DEFINE all == Observability!Recorded(doc)
<1>1. PICK R \in Nat, F \in Nat : /\ R = Len(doc.runs) /\ F = Len(doc.failures)
                                  /\ DOMAIN doc.runs = 1..R /\ DOMAIN doc.failures = 1..F
                                  /\ \A i \in 1..R : doc.runs[i].epoch \in Nat
                                  /\ \A i \in 1..F : doc.failures[i] \in Nat
                                  /\ R = 0 <=> doc.runs = <<>>
  <2>1. /\ doc.runs \in Seq(Entries) /\ Len(doc.runs) \in Nat
        /\ doc.failures \in Seq(Nat) /\ Len(doc.failures) \in Nat
    BY DocumentParts DEF Kept
  <2>2. \A entry \in Entries : entry.epoch \in Nat
    BY DEF Entries
  <2>3. \A i \in 1..Len(doc.runs) : doc.runs[i].epoch \in Nat
    BY <2>1, <2>2
  <2>4. DOMAIN doc.runs = 1..Len(doc.runs) /\ DOMAIN doc.failures = 1..Len(doc.failures)
        /\ (\A i \in 1..Len(doc.failures) : doc.failures[i] \in Nat)
        /\ (Len(doc.runs) = 0 <=> doc.runs = <<>>)
    BY <2>1
  <2> QED
    BY <2>1, <2>3, <2>4
<1> DEFINE ran == [i \in 1..R |-> [epoch |-> doc.runs[i].epoch, failed |-> FALSE]]
           lost == [i \in 1..F |-> [epoch |-> doc.failures[i], failed |-> TRUE]]
<1>2. ran \in Seq(Dates) /\ Len(ran) = R /\ lost \in Seq(Dates) /\ Len(lost) = F
  <2>1. ran \in [1..R -> Dates] /\ lost \in [1..F -> Dates]
    BY <1>1 DEF Dates
  <2> HIDE DEF ran, lost
  <2> QED
    BY <2>1
<1>3. /\ \A i \in 1..R : ran[i].epoch = doc.runs[i].epoch /\ ran[i].failed = FALSE
      /\ \A i \in 1..F : lost[i].epoch = doc.failures[i] /\ lost[i].failed = TRUE
  OBVIOUS
<1>4. all = ran \o lost
  BY <1>1 DEF Observability!Recorded
<1> HIDE DEF all, ran, lost
<1>5. /\ all \in Seq(Dates) /\ Len(all) = R + F /\ DOMAIN all = 1..(R + F)
      /\ \A i \in 1..R : all[i] = ran[i]
      /\ \A i \in 1..F : all[R + i] = lost[i]
  <2>1. Len(ran \o lost) = R + F /\ ran \o lost \in Seq(Dates)
    BY <1>2
  <2>2. /\ \A i \in 1..Len(ran) : (ran \o lost)[i] = ran[i]
        /\ \A i \in 1..Len(lost) : (ran \o lost)[Len(ran) + i] = lost[i]
    BY <1>2
  <2>3. DOMAIN all = 1..Len(all)
    BY <1>4, <2>1
  <2> QED
    BY <1>2, <1>4, <2>1, <2>2, <2>3
<1>6. n \in 0..F
  BY <1>1 DEF Trailing
<1>7. \A i \in 1..R : all[i].failed = FALSE /\ all[i].epoch <= all[R].epoch
  <2> SUFFICES ASSUME NEW i \in 1..R PROVE all[i].failed = FALSE /\ all[i].epoch <= all[R].epoch
    OBVIOUS
  <2>1. R \in 1..R
    OBVIOUS
  <2>2. doc.runs[i].epoch <= doc.runs[R].epoch
    BY <1>1 DEF Dated, Newest
  <2> QED
    BY <1>3, <1>5, <2>1, <2>2
<1>8. \A i \in 1..F : /\ all[R + i].failed = TRUE
                      /\ i > F - n <=> (R # 0 => all[R + i].epoch >= all[R].epoch)
  <2> SUFFICES ASSUME NEW i \in 1..F
               PROVE  /\ all[R + i].failed = TRUE
                      /\ i > F - n <=> (R # 0 => all[R + i].epoch >= all[R].epoch)
    OBVIOUS
  <2>1. i > F - n <=> (R # 0 => doc.failures[i] >= doc.runs[R].epoch)
    BY <1>1 DEF Trailing, Newest
  <2>2. R # 0 => all[R].epoch = doc.runs[R].epoch
    <3>1. R # 0 => R \in 1..R
      OBVIOUS
    <3> QED
      BY <1>3, <1>5, <3>1
  <2>3. all[R + i].epoch = doc.failures[i] /\ all[R + i].failed = TRUE
    BY <1>3, <1>5
  <2> QED
    BY <2>1, <2>2, <2>3
<1>9. Observability!Events(doc) = Observability!InOrder(all)
  BY DEF Observability!Events, all
<1>10. Listed(all, R, F, n)
  BY <1>5, <1>6, <1>7, <1>8 DEF Listed
<1> QED
  BY <1>9, <1>10, LatestAreCounted

-----------------------------------------------------------------------------
(* The steps of an attempt.                                                 *)

Doc == Observability!ParseMetrics(metrics)

LEMMA AttemptGoesOn ==
    ASSUME NEW doc, NEW now \in Nat
    PROVE  /\ Dated(doc, now, TRUE) => Dated(doc, now, FALSE)
           /\ Kept(doc) /\ Dated(doc, now, FALSE) => Dated(doc, now + 1, TRUE)
<1>1. Dated(doc, now, TRUE) => Dated(doc, now, FALSE)
  BY DEF Dated
<1>2. ASSUME Kept(doc), Dated(doc, now, FALSE) PROVE Dated(doc, now + 1, TRUE)
  <2>1. /\ \A i \in 1..Len(doc.runs) : doc.runs[i] \in Entries
        /\ \A i \in 1..Len(doc.failures) : doc.failures[i] \in Nat
    BY <1>2, DocumentParts DEF Kept
  <2>2. \A entry \in Entries : entry.epoch \in Nat
    BY DEF Entries
  <2> QED
    BY <1>2, <2>1, <2>2 DEF Dated
<1> QED
  BY <1>1, <1>2

LEMMA RunRecorded ==
    ASSUME TracesInv, StreakInv, NEW write, Observability!PersistProductionMetrics(write)
    PROVE  StreakInv'
<1> DEFINE run == [sha |-> traces.sha, epoch |-> clock, attempts |-> tries, recovered |-> tries = 2]
<1>1. /\ opc # "idle" /\ opc' # "idle" /\ clock' = clock
      /\ \/ metrics' = metrics /\ events' = events
         \/ metrics' = Observability!AppendMetricsRun(Doc, run) /\ events' = Append(events, "success")
  BY DEF Observability!PersistProductionMetrics, Doc
<1>2. clock \in Nat /\ events \in Seq(Taken) /\ Kept(Doc) /\ Dated(Doc, clock, TRUE) /\ Accounts(Doc, events)
  BY <1>1 DEF StreakInv, Doc
<1>3. run \in Entries /\ run.epoch = clock
  BY <1>2 DEF TracesInv, TracesTyped, Entries
<1> HIDE DEF run
<1>4. CASE metrics' = metrics /\ events' = events
  BY <1>1, <1>2, <1>4 DEF StreakInv, Doc
<1>5. CASE metrics' = Observability!AppendMetricsRun(Doc, run) /\ events' = Append(events, "success")
  <2>1. Kept(metrics') /\ Dated(metrics', clock, TRUE) /\ Accounts(metrics', events')
    BY <1>2, <1>3, <1>5, SuccessKept
  <2>2. Doc' = metrics'
    BY <2>1, DocumentIsRead DEF Doc
  <2>3. events' \in Seq(Taken)
    BY <1>2, <1>5 DEF Taken
  <2> QED
    BY <1>1, <1>2, <2>1, <2>2, <2>3 DEF StreakInv, Doc
<1> QED
  BY <1>1, <1>4, <1>5

LEMMA FailureRecorded ==
    ASSUME StreakInv, NEW write, Observability!PersistFailureDiagnostic(write)
    PROVE  StreakInv'
<1>1. /\ opc # "idle" /\ opc' = "idle" /\ clock' = clock
      /\ \/ metrics' = metrics /\ events' = events
         \/ metrics' = Observability!AppendFailureMetric(Doc, clock) /\ events' = Append(events, "failure")
  BY DEF Observability!PersistFailureDiagnostic, Observability!Clean, Doc
<1>2. clock \in Nat /\ events \in Seq(Taken) /\ Kept(Doc) /\ Dated(Doc, clock, TRUE) /\ Accounts(Doc, events)
  BY <1>1 DEF StreakInv, Doc
<1>3. CASE metrics' = metrics /\ events' = events
  <2>1. Dated(Doc, clock, FALSE)
    BY <1>2, AttemptGoesOn
  <2> QED
    BY <1>1, <1>2, <1>3, <2>1 DEF StreakInv, Doc
<1>4. CASE metrics' = Observability!AppendFailureMetric(Doc, clock) /\ events' = Append(events, "failure")
  <2>1. Kept(metrics') /\ Dated(metrics', clock, FALSE) /\ Accounts(metrics', events')
    BY <1>2, <1>4, FailureKept
  <2>2. Doc' = metrics'
    BY <2>1, DocumentIsRead DEF Doc
  <2>3. events' \in Seq(Taken)
    BY <1>2, <1>4 DEF Taken
  <2> QED
    BY <1>1, <1>2, <2>1, <2>2, <2>3 DEF StreakInv, Doc
<1> QED
  BY <1>1, <1>3, <1>4

LEMMA StreakSteps ==
    ASSUME TracesInv, StreakInv, Observability!Next
    PROVE  StreakInv'
<1>1. CASE Observability!Generate
  <2>1. opc = "idle" /\ opc' # "idle" /\ clock' = clock + 1 /\ metrics' = metrics /\ events' = events
    BY <1>1 DEF Observability!Generate, Observability!docs
  <2>2. clock \in Nat /\ events \in Seq(Taken) /\ Kept(Doc) /\ Dated(Doc, clock, FALSE) /\ Accounts(Doc, events)
    BY <2>1 DEF StreakInv, Doc
  <2>3. Dated(Doc, clock + 1, TRUE)
    BY <2>2, AttemptGoesOn
  <2>4. Doc' = Doc /\ clock' \in Nat /\ events' \in Seq(Taken) /\ Kept(Doc) /\ Accounts(Doc, events')
    BY <2>1, <2>2 DEF Doc
  <2>5. Dated(Doc', clock', opc' # "idle")
    BY <2>1, <2>3, <2>4 DEF Dated
  <2> QED
    BY <2>4, <2>5 DEF StreakInv, Doc
<1>2. ASSUME NEW write, Observability!PersistProductionMetrics(write) PROVE StreakInv'
  BY <1>2, RunRecorded
<1>3. ASSUME NEW write, Observability!PersistFailureDiagnostic(write) PROVE StreakInv'
  BY <1>3, FailureRecorded
<1>4. CASE Observability!Return
  <2>1. opc # "idle" /\ opc' = "idle" /\ clock' = clock /\ metrics' = metrics /\ events' = events
    BY <1>4 DEF Observability!Return, Observability!Clean, Observability!docs
  <2>2. clock \in Nat /\ events \in Seq(Taken) /\ Kept(Doc) /\ Dated(Doc, clock, TRUE) /\ Accounts(Doc, events)
    BY <2>1 DEF StreakInv, Doc
  <2>3. Dated(Doc, clock, FALSE)
    BY <2>2, AttemptGoesOn
  <2> QED
    BY <2>1, <2>2, <2>3 DEF StreakInv, Doc
<1>5. CASE opc # "idle" /\ opc' # "idle" /\ UNCHANGED <<clock, metrics, events>>
  BY <1>5 DEF StreakInv
<1>6. \/ Observability!Generate \/ Observability!Return
      \/ \E write \in Observability!Writes : \/ Observability!PersistProductionMetrics(write)
                                             \/ Observability!PersistFailureDiagnostic(write)
      \/ opc # "idle" /\ opc' # "idle" /\ UNCHANGED <<clock, metrics, events>>
  BY DEF Observability!Next, Observability!docs, Observability!TransientBrowsing,
     Observability!RejectBrowsing, Observability!QualifyBrowsing,
     Observability!FinishQualification, Observability!Guard, Observability!Release,
     Observability!StageFails, Observability!PublishSchedulerObservation,
     Observability!RecordPassed, Observability!RecordFailure
<1> QED
  BY <1>1, <1>2, <1>3, <1>4, <1>5, <1>6

LEMMA StreakInvariant == ProductionSpec => []StreakInv
<1>1. ProductionInit => StreakInv
  <2> SUFFICES ASSUME Observability!Init PROVE StreakInv
    BY DEF ProductionInit
  <2>1. clock = 0 /\ opc = "idle" /\ events = <<>> /\ Doc = Observability!EmptyMetrics
    BY DEF Observability!Init, Observability!ParseMetrics, Doc
  <2>2. Kept(Doc) /\ Dated(Doc, clock, FALSE) /\ Accounts(Doc, events)
    BY <2>1, NothingKept
  <2>3. events \in Seq(Taken) /\ clock \in Nat
    BY <2>1
  <2>4. Dated(Doc, clock, opc # "idle")
    BY <2>1, <2>2 DEF Dated
  <2> QED
    BY <2>2, <2>3, <2>4 DEF StreakInv, Doc
<1>2. (TracesInv /\ RingInv) /\ StreakInv /\ [Runs \/ Records]_<<side, vars, histories>> => StreakInv'
  <2> SUFFICES ASSUME TracesInv, StreakInv, [Runs \/ Records]_<<side, vars, histories>>
               PROVE  StreakInv'
    OBVIOUS
  <2>1. CASE Records
    BY <2>1, StreakSteps DEF Records
  <2>2. CASE UNCHANGED histories
    BY <2>2 DEF histories, StreakInv
  <2> QED
    BY <2>1, <2>2 DEF Runs
<1> QED
  BY <1>1, <1>2, RingInvariant, PTL DEF ProductionSpec

\* The failure streak read from two bounded lists that drop, replace and skip
\* entries counts the failures taken since the last success taken, up to the
\* length of the list of failures (append_metrics_run, append_failure_metric,
\* _failure_summary).
THEOREM StreakAlwaysTrue == ProductionSpec => []StreakIsTrue
<1>1. StreakInv => StreakIsTrue
  <2> SUFFICES ASSUME StreakInv PROVE StreakIsTrue
    OBVIOUS
  <2> DEFINE successes == {0} \union {i \in DOMAIN events : events[i] = "success"}
  <2>1. clock \in Nat /\ events \in Seq(Taken) /\ Kept(Doc) /\ Dated(Doc, clock, opc # "idle")
        /\ Accounts(Doc, events)
    BY DEF StreakInv, Doc
  <2>2. PICK m \in 0..Len(events) :
          /\ LastSuccess(events, m)
          /\ Trailing(Doc, AtMost(Len(events) - m, MaxFailures))
    BY <2>1 DEF Accounts
  <2>3. Len(events) \in Nat /\ DOMAIN events = 1..Len(events) /\ m \in Nat /\ m <= Len(events)
    BY <2>1
  <2>4. m \in successes /\ \A i \in successes : i \in Nat /\ m >= i
    <3>1. m \in successes
      BY <2>2, <2>3 DEF LastSuccess
    <3>2. ASSUME NEW i \in successes PROVE i \in Nat /\ m >= i
      <4>1. CASE i = 0
        BY <2>3, <4>1
      <4>2. CASE i # 0
        <5>1. i \in 1..Len(events) /\ events[i] = "success"
          BY <2>3, <4>2
        <5>2. i \notin (m + 1)..Len(events)
          BY <2>2, <5>1 DEF LastSuccess
        <5> QED
          BY <2>3, <5>1, <5>2
      <4> QED
        BY <4>1, <4>2
    <3> QED
      BY <3>1, <3>2
  <2> HIDE DEF successes
  <2>5. Observability!Max(successes) = m
    <3> DEFINE greatest == CHOOSE x \in successes : \A y \in successes : x >= y
    <3>1. greatest \in successes /\ \A y \in successes : greatest >= y
      BY <2>4
    <3>2. Observability!Max(successes) = greatest
      BY DEF Observability!Max
    <3> HIDE DEF greatest
    <3>3. greatest \in Nat /\ greatest >= m /\ m >= greatest
      BY <2>4, <3>1
    <3> QED
      BY <2>3, <3>2, <3>3
  <2>6. Observability!FailureStreak(Observability!Events(Doc)) = AtMost(Len(events) - m, MaxFailures)
    <3> DEFINE under_way == opc # "idle"
    <3> HIDE DEF under_way
    <3>1. Dated(Doc, clock, under_way)
      BY <2>1 DEF under_way
    <3> QED
      BY <2>1, <2>2, <3>1, StreakCounted
  <2>7. Observability!Min({Len(events) - m, MaxFailures}) = AtMost(Len(events) - m, MaxFailures)
    <3>1. Len(events) - m \in Nat /\ MaxFailures \in Nat
      BY <2>3, MetricsAssumption
    <3> QED
      BY <3>1, LesserOfTwo DEF AtMost
  <2>8. Observability!MetricsSummary(Doc).streak = Observability!FailureStreak(Observability!Events(Doc))
    BY DEF Observability!MetricsSummary
  <2> QED
    BY <2>5, <2>6, <2>7, <2>8 DEF StreakIsTrue, Observability!StreakIsTrue, successes, Doc
<1> QED
  BY <1>1, StreakInvariant, PTL
=============================================================================
