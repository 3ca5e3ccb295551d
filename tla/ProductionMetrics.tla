-------------------------- MODULE ProductionMetrics --------------------------
(***************************************************************************)
(* The longitudinal metrics document (production_metrics.py): successful   *)
(* runs and failures in two bounded lists, and what the summary and the    *)
(* scheduler evidence (scheduler_evidence.py) derive from them.  A run     *)
(* keeps the fields later reads distinguish; its aggregates are reports.   *)
(***************************************************************************)
EXTENDS Integers, Sequences, FiniteSets, SequencesExt

CONSTANTS
    MaxRuns,       \* _MAX_RUNS
    MaxFailures,   \* _MAX_FAILURES
    TrendWindow,   \* _FAILURE_TREND_WINDOW, _RECENT_EVENT_WINDOW
    EvidenceRuns,  \* _MIN_EVIDENCE_RUNS
    NoMetrics,     \* an absent metrics key
    BrokenMetrics  \* a document with a run or failure that does not parse

-----------------------------------------------------------------------------
EmptyMetrics == [runs |-> <<>>, failures |-> <<>>]
LastOf(seq, n) == IF Len(seq) > n THEN SubSeq(seq, Len(seq) - n + 1, Len(seq)) ELSE seq

ParseMetrics(document) ==
    IF document \in {NoMetrics, BrokenMetrics} THEN EmptyMetrics
    ELSE [runs |-> LastOf(document.runs, MaxRuns), failures |-> LastOf(document.failures, MaxFailures)]

\* A run of the candidate the newest run had replaces it.
AppendMetricsRun(state, run) ==
    LET old == state.runs
        again == old # <<>> /\ old[Len(old)].sha = run.sha
    IN  [state EXCEPT !.runs = LastOf(Append(IF again THEN Front(old) ELSE old, run), MaxRuns)]

AppendFailureClearing(state, failure) == [state EXCEPT !.failures = <<failure>>]
AppendFailureMetric(state, failure) ==
    [state EXCEPT !.failures = LastOf(Append(@, failure), MaxFailures)]

\* Both lists in the order of time, a success first when they tie.
EventBefore(a, b) == a.epoch < b.epoch \/ (a.epoch = b.epoch /\ ~a.failed /\ b.failed)
Recorded(state) ==
    [i \in DOMAIN state.runs |-> [epoch |-> state.runs[i].epoch, failed |-> FALSE]]
    \o [i \in DOMAIN state.failures |-> [epoch |-> state.failures[i], failed |-> TRUE]]

\* The places a stable sort puts no later than place i.
UpTo(all, i) == {j \in DOMAIN all : \/ EventBefore(all[j], all[i])
                                    \/ j <= i /\ ~EventBefore(all[i], all[j])}
InOrder(all) ==
    [k \in DOMAIN all |-> all[CHOOSE i \in DOMAIN all : Cardinality(UpTo(all, i)) = k]]
Events(state) == InOrder(Recorded(state))

FailureStreak(events) ==
    Len(events) - Max({0} \union {i \in DOMAIN events : ~events[i].failed})

\* Failures among the latest events, out of how many.
FailureTrend(events) ==
    LET recent == LastOf(events, TrendWindow)
    IN  <<Cardinality({i \in DOMAIN recent : recent[i].failed}), Len(recent)>>

RetryRuns(runs) == Cardinality({i \in DOMAIN runs : runs[i].attempts > 1})
RetryRecoveries(runs) == Cardinality({i \in DOMAIN runs : runs[i].recovered})

MetricsSummary(state) ==
    [runs |-> Len(state.runs), failureRuns |-> Len(state.failures),
     rate |-> FailureTrend(Events(state)), streak |-> FailureStreak(Events(state)),
     retryRuns |-> RetryRuns(state.runs), recoveries |-> RetryRecoveries(state.runs)]

CompileSchedulerEvidence(state) ==
    [ready |-> Len(state.runs) >= EvidenceRuns, samples |-> Len(state.runs),
     rate |-> FailureTrend(Events(state)), streak |-> FailureStreak(Events(state)),
     retryRuns |-> RetryRuns(state.runs), recoveries |-> RetryRecoveries(state.runs)]
=============================================================================
