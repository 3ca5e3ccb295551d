-------------------------- MODULE SchedulerHistory --------------------------
(***************************************************************************)
(* The anonymous browsing history (scheduler_history.py) from one          *)
(* production run to the next: loaded before qualification, used to demote *)
(* nodes inside today's stable set, updated from what the run observed,    *)
(* and stored only after the release is committed.                         *)
(*                                                                         *)
(* Time is the age of a record, in units of the gap between two runs.  A   *)
(* success average is a number of 1/Scale; the code's Scale is 1,000,000.  *)
(* Fingerprints are one-to-one with runtime names, so a record is that of  *)
(* a name.  The cohort latency only reaches reports and is left out.       *)
(***************************************************************************)
EXTENDS Integers, FiniteSets

CONSTANTS
    Names,          \* runtime names of browsing nodes
    NoRecord,       \* a name the history does not hold
    NoDocument,     \* an absent key or file
    Malformed,      \* a document with a record that does not parse
    Scale,          \* the success average of a node that never failed
    MinSuccess,     \* _MIN_SUCCESS_EMA
    RecoverSuccess, \* _RECOVER_SUCCESS_EMA
    MinRuns,        \* _MIN_HISTORY_RUNS
    DemoteAfter,    \* _DEMOTE_AFTER_FAILURES
    PolicyMaxAge,   \* HistorySchedulerPolicy.max_age_seconds: what preference reads
    MaxAge,         \* _MAX_AGE_SECONDS: what an update keeps
    MaxRecords,     \* _MAX_RECORDS
    Gaps            \* how long after the last run the next one may start

ASSUME HistoryAssumption ==
    /\ Scale \in Nat \ {0} /\ MinSuccess \in 0 .. Scale /\ RecoverSuccess \in MinSuccess .. Scale
    /\ MinRuns \in Nat \ {0} /\ DemoteAfter \in Nat \ {0}
    /\ MaxAge \in Nat /\ PolicyMaxAge \in 0 .. MaxAge /\ MaxRecords \in Nat \ {0}
    /\ Gaps \subseteq Nat

VARIABLES
    store,      \* the newest scheduler-state document in KV
    history,    \* what this run loaded
    keyed,      \* the fingerprint key was written: the history may be used
    next,       \* scheduler-history-next.json
    result,     \* what the last browsing probe of this run says of each name
    preferred,  \* the stable names the history does not demote
    attempt,    \* browsing attempts of this run
    pc,
    failedRuns, \* ghost: stored runs in a row that a name failed, up to DemoteAfter
    calm        \* ghost: names stable and stored in every run since a while

vars == <<store, history, keyed, next, result, preferred, attempt, pc, failedRuns, calm>>
-----------------------------------------------------------------------------
Smaller(a, b) == IF a < b THEN a ELSE b

Results == {"absent", "failed", "reserve", "stable"}

\* The fields of a node record, and one that only a property reads: rested,
\* the stable runs in a row that it sat out demoted, up to 2.
Records == [runs : 1 .. MinRuns, ema : 0 .. Scale, failures : 0 .. DemoteAfter,
            age : 0 .. MaxAge + 1, favoured : BOOLEAN, rested : 0 .. 2]
EmptyHistory == [n \in Names |-> NoRecord]
Known(h) == {n \in Names : h[n] # NoRecord}

\* One malformed record discards the whole document: it reads as no history.
Parse(document) == IF document \in {Malformed, NoDocument} THEN EmptyHistory ELSE document

\* Documents of versions 1 and 2 say nothing of past preference.
LegacyRecord == [runs |-> MinRuns, ema |-> Scale, failures |-> 0, age |-> 0,
                 favoured |-> TRUE, rested |-> 0]

Older(document, gap) ==
    IF document \in {Malformed, NoDocument} THEN document
    ELSE [n \in Names |-> IF document[n] = NoRecord THEN NoRecord
                          ELSE [document[n] EXCEPT !.age = Smaller(@ + gap, MaxAge + 1)]]
-----------------------------------------------------------------------------
(* Preference inside the stable set.                                       *)

Fresh(r) == r.age <= PolicyMaxAge
Mature(r) == r.runs >= MinRuns

HistoryPrefersWithoutHysteresis(r) ==
    r.failures < DemoteAfter /\ (r.failures > 0 \/ r.ema >= MinSuccess)

HistoryPrefersSpotless(r) ==
    IF r.favoured
    THEN /\ r.failures < DemoteAfter
         /\ r.failures > 0 \/ r.ema >= MinSuccess
    ELSE r.failures = 0 /\ r.ema = Scale

HistoryPrefers(r) ==
    IF r.favoured
    THEN /\ r.failures < DemoteAfter
         /\ r.failures > 0 \/ r.ema >= MinSuccess
    ELSE r.failures = 0 /\ r.ema >= RecoverSuccess

PreferredStableNames(stable, h) ==
    {n \in stable : h[n] = NoRecord \/ ~Fresh(h[n]) \/ ~Mature(h[n]) \/ HistoryPrefers(h[n])}
-----------------------------------------------------------------------------
(* Updating the aggregates from one probe.                                 *)

\* A run weighs 0, 2/3 or 1, and three tenths of the average after it.
Thirds(res) == CASE res = "stable" -> 3 [] res = "reserve" -> 2 [] OTHER -> 0
Rounded(a, b) == (2 * a + b) \div (2 * b)
FirstAverage(res) == Rounded(Thirds(res) * Scale, 3)
NextAverage(ema, res) == Rounded(21 * ema + 3 * Scale * Thirds(res), 30)

\* The thresholds leave room for hysteresis, as the code's .80 and .90 do: one
\* stable run after a demotion, or after a reserve run of a demoted node, does
\* not reach RecoverSuccess.
ASSUME HysteresisAssumption ==
    LET After(ema, res) == NextAverage(ema, res)
        NotYetBack == After(RecoverSuccess - 1, "stable")
    IN  /\ RecoverSuccess > 0
        /\ After(After(Scale, "failed"), "stable") < RecoverSuccess
        /\ After(MinSuccess, "stable") < RecoverSuccess
        /\ After(After(NotYetBack, "reserve"), "stable") < RecoverSuccess

Failures(old, res) ==
    IF res # "failed" THEN 0 ELSE IF old = NoRecord THEN 1 ELSE Smaller(old.failures + 1, DemoteAfter)

Favoured(old, n, res, pref) ==
    IF res = "stable" THEN n \in pref ELSE old = NoRecord \/ old.favoured

Rested(old, n, res, pref) ==
    IF res # "stable" \/ n \in pref THEN 0
    ELSE IF old = NoRecord THEN 1 ELSE Smaller(old.rested + 1, 2)

Observed(old, n, res, pref) ==
    [runs     |-> IF old = NoRecord THEN 1 ELSE Smaller(old.runs + 1, MinRuns),
     ema      |-> IF old = NoRecord THEN FirstAverage(res) ELSE NextAverage(old.ema, res),
     failures |-> Failures(old, res),
     age      |-> 0,
     favoured |-> Favoured(old, n, res, pref),
     rested   |-> Rested(old, n, res, pref)]

Kept(h) == [n \in Names |-> IF h[n] # NoRecord /\ h[n].age <= MaxAge THEN h[n] ELSE NoRecord]

Merged(h, res, pref) ==
    [n \in Names |-> IF res[n] = "absent" THEN Kept(h)[n] ELSE Observed(Kept(h)[n], n, res[n], pref)]

\* Beyond MaxRecords the most recent stay; among equals those already held
\* come first, and the order of fingerprints decides between the rest.
Ahead(a, b, h, merged) ==
    \/ merged[a].age < merged[b].age
    \/ merged[a].age = merged[b].age /\ Kept(h)[a] # NoRecord /\ Kept(h)[b] = NoRecord

UpdateHistory(h, res, pref) ==
    LET merged == Merged(h, res, pref)
        Newest(K) == \A a \in Known(merged) \ K, b \in K : ~Ahead(a, b, h, merged)
        Survivors == {K \in SUBSET Known(merged) :
                        Cardinality(K) = Smaller(MaxRecords, Cardinality(Known(merged))) /\ Newest(K)}
    IN  {[n \in Names |-> IF n \in K THEN merged[n] ELSE NoRecord] : K \in Survivors}
-----------------------------------------------------------------------------
Stable(res) == {n \in Names : res[n] = "stable"}
NoResult == [n \in Names |-> "absent"]

Init ==
    /\ store \in {NoDocument, Malformed, [n \in Names |-> LegacyRecord]}
    /\ history = EmptyHistory /\ keyed = FALSE /\ next = NoDocument
    /\ result = NoResult /\ preferred = {} /\ attempt = 0 /\ pc = "idle"
    /\ failedRuns = [n \in Names |-> 0] /\ calm = {}

\* A read that fails leaves an empty key file: this run goes without history.
LoadSchedulerHistory(gap, readable) ==
    /\ pc = "idle"
    /\ store' = Older(store, gap)
    /\ history' = IF readable THEN Parse(store') ELSE EmptyHistory
    /\ keyed' = readable
    /\ next' = NoDocument /\ result' = NoResult /\ preferred' = {} /\ attempt' = 1
    /\ failedRuns' = [n \in Names |-> IF n \in Known(Kept(Parse(store'))) THEN failedRuns[n] ELSE 0]
    /\ calm' = {n \in calm : readable /\ n \in Known(Kept(Parse(store')))}
    /\ pc' = "loaded"

\* The next history is on disk before the candidate is rewritten.
Probe(res) ==
    /\ pc = "loaded"
    /\ result' = res
    /\ preferred' = IF keyed THEN PreferredStableNames(Stable(res), history) ELSE Stable(res)
    /\ IF keyed THEN next' \in UpdateHistory(history, res, preferred')
                ELSE UNCHANGED next
    /\ pc' = "probed"
    /\ UNCHANGED <<store, history, keyed, attempt, failedRuns, calm>>

RetryFromNext ==
    /\ pc = "probed" /\ attempt = 1
    /\ \A n \in Names : result[n] \in {"absent", "failed"}
    /\ attempt' = 2 /\ pc' = "loaded"
    /\ history' = Parse(next)
    /\ UNCHANGED <<store, keyed, next, result, preferred, failedRuns, calm>>

\* The rewrite found nothing to keep and the probe was transient: the whole
\* stage again, from the same history, over the file the first attempt left.
Retry ==
    /\ pc = "probed" /\ attempt = 1
    /\ \A n \in Names : result[n] \in {"absent", "failed"}
    /\ attempt' = 2 /\ pc' = "loaded"
    /\ UNCHANGED <<store, history, keyed, next, result, preferred, failedRuns, calm>>

\* A run's own files and results end with it.
EndRun ==
    /\ pc' = "idle" /\ history' = EmptyHistory /\ keyed' = FALSE /\ next' = NoDocument
    /\ result' = NoResult /\ preferred' = {} /\ attempt' = 0

\* A rejected run stores nothing.
Reject ==
    /\ pc \in {"loaded", "probed"}
    /\ EndRun /\ calm' = {}
    /\ UNCHANGED <<store, failedRuns>>

Commit ==
    /\ pc = "probed" /\ Stable(result) \union {n \in Names : result[n] = "reserve"} # {}
    /\ pc' = "committed"
    /\ UNCHANGED <<store, history, keyed, next, result, preferred, attempt, failedRuns, calm>>

\* stored: the write reached KV, whatever the publisher was told.
PersistSchedulerHistory(stored) ==
    /\ pc = "committed"
    /\ LET landed == stored /\ next # NoDocument
       IN  /\ store' = IF landed THEN next ELSE store
           /\ failedRuns' =
                [n \in Names |->
                   IF ~landed THEN failedRuns[n]
                   ELSE IF next[n] = NoRecord THEN 0
                   ELSE CASE result[n] = "absent" -> failedRuns[n]
                          [] result[n] = "failed" -> Smaller(failedRuns[n] + 1, DemoteAfter)
                          [] OTHER -> 0]
           /\ calm' = IF landed THEN {n \in Stable(result) : next[n] # NoRecord} ELSE {}
    /\ EndRun

Next ==
    \/ \E gap \in Gaps, readable \in BOOLEAN : LoadSchedulerHistory(gap, readable)
    \/ \E res \in [Names -> Results] : Probe(res)
    \/ Retry
    \/ Reject
    \/ Commit
    \/ \E stored \in BOOLEAN : PersistSchedulerHistory(stored)

Spec == Init /\ [][Next]_vars
FairSpec == Spec /\ WF_vars(Next)
-----------------------------------------------------------------------------
(* Properties.                                                             *)

\* Hysteresis: a demoted node whose record is still believed comes back only
\* after two runs in a row in which it was stable and sat out.
ReturnIsEarned ==
    pc = "probed" /\ keyed =>
        \A n \in preferred : history[n] # NoRecord /\ Fresh(history[n]) /\ Mature(history[n]) /\ ~history[n].favoured
                              => history[n].rested = 2

\* The failures that demote are production runs in a row, each stored once:
\* neither a retried probe nor a run that was rejected adds to them.
FailuresAreRuns ==
    pc = "idle" /\ store \notin {NoDocument, Malformed} =>
        \A n \in Known(store) : store[n].age <= MaxAge => store[n].failures = failedRuns[n]

\* A node that is stable from some run on, in runs that are all stored, does
\* not stay demoted for ever.
StableNodeReturns == \A n \in Names : <>[](n \in calm) => []<>(n \in preferred)
=============================================================================
