----------------------- MODULE ProductionObservability -----------------------
(***************************************************************************)
(* What production attempts leave in the operational SLO ring, the metrics *)
(* document and the scheduler evidence (production_observability.py,       *)
(* production_failure_metrics.py, run_production_release.py), attempt      *)
(* after attempt.  Every write is best effort: it may be skipped, or land  *)
(* and be reported as failed.  The private directory starts empty; the     *)
(* files of it that are read back are fields of "files".                   *)
(***************************************************************************)
EXTENDS OperationalSlo, ProductionMetrics

CONSTANTS
    Contents,   \* published candidates, as bytes
    Generated,  \* the candidate before qualification
    Horizon     \* attempts explored

VARIABLES
    slo,        \* the operational-slo key
    metrics,    \* the production-metrics key
    evidence,   \* the scheduler-evidence key
    clock,      \* attempts begun: the epoch of what they write
    pc,
    tries,      \* browsing attempts of this run
    files,      \* config.yaml or generated.yaml, pipeline summary, guard report
    error,      \* the exception being handled, by its typed rejection
    truth,      \* ghost: what happened in each attempt the ring has taken
    events      \* ghost: the successes and failures the metrics have taken

docs == <<slo, metrics, evidence>>
vars == <<docs, clock, pc, tries, files, error, truth, events>>
-----------------------------------------------------------------------------
Writes == {"published", "unknown", "unavailable"}
Landed(write) == write # "unavailable"
NoFiles == [sha |-> Nothing, summary |-> Nothing, guard |-> "none"]
NoError == [rejected |-> Nothing]

Attempts == [outcome : Outcomes, category : Categories \union {Nothing},
             sha : Contents \union {Generated, Nothing},
             retried : BOOLEAN, recovered : BOOLEAN, checked : BOOLEAN, blocked : BOOLEAN]

Documents == [runs : Seq([sha : Contents \union {Generated, Nothing}, epoch : Nat,
                          attempts : Nat, recovered : BOOLEAN]),
              failures : Seq(Nat)]

Init ==
    /\ \/ slo = Nothing /\ metrics = NoMetrics
       \/ slo = Broken /\ metrics = BrokenMetrics
    /\ evidence = Nothing
    /\ clock = 0 /\ pc = "idle" /\ tries = 0 /\ files = NoFiles /\ error = NoError
    /\ truth = <<>> /\ events = <<>>

Generate ==
    /\ pc = "idle" /\ clock < Horizon
    /\ clock' = clock + 1
    /\ files' = [NoFiles EXCEPT !.sha = Generated]
    /\ pc' = "generated"
    /\ UNCHANGED <<docs, tries, error, truth, events>>

\* A whole probe that failed for a transient reason is tried once more.
TransientBrowsing ==
    /\ pc = "generated"
    /\ tries' = tries + 1
    /\ IF tries' = 2 THEN pc' = "failing" /\ error' = [rejected |-> "transient"]
                     ELSE UNCHANGED <<pc, error>>
    /\ UNCHANGED <<docs, clock, files, truth, events>>

RejectBrowsing ==
    /\ pc = "generated"
    /\ tries' = tries + 1 /\ pc' = "failing" /\ error' = [rejected |-> "policy_rejection"]
    /\ UNCHANGED <<docs, clock, files, truth, events>>

QualifyBrowsing ==
    /\ pc = "generated"
    /\ tries' = tries + 1 /\ pc' = "browsed"
    /\ UNCHANGED <<docs, clock, files, error, truth, events>>

\* The summary of the pipeline, its browsing attempts included, is written
\* only when every stage passed.
FinishQualification(c) ==
    /\ pc = "browsed"
    /\ files' = [files EXCEPT !.sha = c, !.summary = tries] /\ pc' = "qualified"
    /\ UNCHANGED <<docs, clock, tries, error, truth, events>>

Guard(verdict) ==
    /\ pc = "qualified"
    /\ files' = [files EXCEPT !.guard = verdict]
    /\ pc' = IF verdict = "blocked" THEN "failing" ELSE "guarded"
    /\ UNCHANGED <<docs, clock, tries, error, truth, events>>

Release ==
    /\ pc = "guarded" /\ pc' = "committed"
    /\ UNCHANGED <<docs, clock, tries, files, error, truth, events>>

\* Any other stage may fail, the local reports after the commit included.
StageFails ==
    /\ pc \in {"generated", "browsed", "qualified", "guarded", "committed", "recorded"}
    /\ pc' = "failing"
    /\ UNCHANGED <<docs, clock, tries, files, error, truth, events>>

PersistProductionMetrics(write) ==
    /\ pc = "committed"
    /\ LET run == [sha |-> files.sha, epoch |-> clock, attempts |-> tries, recovered |-> tries = 2]
       IN  metrics' = IF Landed(write) THEN AppendMetricsRun(ParseMetrics(metrics), run) ELSE metrics
    /\ events' = IF Landed(write) THEN Append(events, "success") ELSE events
    /\ pc' = IF write = "published" THEN "measured" ELSE "observed"
    /\ UNCHANGED <<slo, evidence, clock, tries, files, error, truth>>

PublishSchedulerObservation(write) ==
    /\ pc = "measured"
    /\ evidence' = IF Landed(write) THEN CompileSchedulerEvidence(ParseMetrics(metrics)) ELSE evidence
    /\ pc' = "observed"
    /\ UNCHANGED <<slo, metrics, clock, tries, files, error, truth, events>>

QualificationRetryState == [retried |-> files.summary = 2, recovered |-> files.summary = 2]
PromotionState == [checked |-> files.guard \in {"passed", "blocked"}, blocked |-> files.guard = "blocked"]
CandidateIdentity == files.sha

RecordOperationalSlo(outcome, write) ==
    LET attempt == [outcome   |-> outcome, category |-> FailureCategory(error), sha |-> CandidateIdentity,
                    retried   |-> QualificationRetryState.retried \/ RetryAttempted(error),
                    recovered |-> QualificationRetryState.recovered,
                    checked   |-> PromotionState.checked, blocked |-> PromotionState.blocked]
        stored == Landed(write) /\ ValidAttempt(attempt)
    IN  /\ slo' = IF stored THEN AppendSloAttempt(ParseSlo(slo), attempt) ELSE slo
        /\ truth' = IF stored THEN Append(truth, [tries |-> tries, rejected |-> error.rejected, sha |-> files.sha])
                    ELSE truth

RecordPassed(write) ==
    /\ pc = "observed"
    /\ RecordOperationalSlo("passed", write)
    /\ pc' = "recorded"
    /\ UNCHANGED <<metrics, evidence, clock, tries, files, error, events>>

\* The guard's report decides only when no typed rejection is in the chain.
FailureOutcome ==
    IF FailureCategory(error) # Nothing THEN "qualification_rejected"
    ELSE IF PromotionState.checked /\ PromotionState.blocked THEN "promotion_blocked"
    ELSE "failed"

RecordFailure(write) ==
    /\ pc = "failing"
    /\ RecordOperationalSlo(FailureOutcome, write)
    /\ pc' = "failed"
    /\ UNCHANGED <<metrics, evidence, clock, tries, files, error, events>>

Clean == pc' = "idle" /\ tries' = 0 /\ files' = NoFiles /\ error' = NoError

\* The command records what run() raised, and a result its own audit refuses.
PersistFailureDiagnostic(write) ==
    /\ pc \in {"failed", "recorded"}
    /\ metrics' = IF Landed(write) THEN AppendFailureMetric(ParseMetrics(metrics), clock) ELSE metrics
    /\ events' = IF Landed(write) THEN Append(events, "failure") ELSE events
    /\ Clean
    /\ UNCHANGED <<slo, evidence, clock, truth>>

Return ==
    /\ pc = "recorded" /\ Clean
    /\ UNCHANGED <<docs, clock, truth, events>>

Next ==
    \/ Generate
    \/ TransientBrowsing
    \/ RejectBrowsing
    \/ QualifyBrowsing
    \/ \E c \in Contents : FinishQualification(c)
    \/ \E verdict \in {"none", "passed", "blocked"} : Guard(verdict)
    \/ Release
    \/ StageFails
    \/ \E write \in Writes : PersistProductionMetrics(write)
    \/ \E write \in Writes \ {"unknown"} :   \* nobody acts on what these report
            \/ PublishSchedulerObservation(write)
            \/ RecordPassed(write)
            \/ RecordFailure(write)
            \/ PersistFailureDiagnostic(write)
    \/ Return

Spec == Init /\ [][Next]_vars
-----------------------------------------------------------------------------
(* Properties.                                                             *)

Ring == ParseSlo(slo)

\* The ring holds the latest attempts that reached it, oldest first, and no
\* other: overflow drops the oldest, an unreadable ring starts again. Each is
\* told as it went, and a recovery is only claimed of an attempt that ran
\* browsing twice and got through qualification.
RingIsTrue ==
    /\ Len(Ring) = Min({SloWindow, Len(truth)})
    /\ \A i \in DOMAIN Ring :
          LET t == truth[Len(truth) - Len(Ring) + i]
          IN  /\ Ring[i].sha = t.sha /\ Ring[i].category = t.rejected
              /\ Ring[i].recovered => t.tries = 2 /\ t.rejected = Nothing /\ t.sha # Generated

\* The failure streak is the run of failures since the last success, although
\* successes and failures are kept, bounded and replaced in lists of their own.
StreakIsTrue ==
    LET since == Len(events) - Max({0} \union {i \in DOMAIN events : events[i] = "success"})
    IN  MetricsSummary(ParseMetrics(metrics)).streak = Min({since, MaxFailures})
=============================================================================
