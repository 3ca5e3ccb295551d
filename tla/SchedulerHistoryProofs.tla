------------------------ MODULE SchedulerHistoryProofs ------------------------
(***************************************************************************)
(* Proofs about SchedulerHistory, for any names, thresholds and gaps: the  *)
(* failures a record counts are those of stored runs in a row, whatever    *)
(* was retried, rejected, unreadable, too old or evicted.                  *)
(***************************************************************************)
EXTENDS SchedulerHistory, TLAPS

\* What of a record the count depends on.
Shaped(h) ==
    \A n \in Names : h[n] # NoRecord =>
        /\ {"age", "failures"} \subseteq DOMAIN h[n]
        /\ h[n].age \in Nat /\ h[n].failures \in Nat

Counts(h, failed) ==
    \A n \in Names : h[n] # NoRecord /\ h[n].age <= MaxAge => h[n].failures = failed[n]

\* A name without a record that is still kept begins at zero.
ZeroBeyond(h, failed) == \A n \in Names : Kept(h)[n] = NoRecord => failed[n] = 0

\* What is in KV is counted right between runs and while one is under way.
StoreInv ==
    /\ \A n \in Names : failedRuns[n] \in Nat
    /\ Shaped(Parse(store)) /\ Counts(Parse(store), failedRuns)

\* A run that may use the history has it from KV, and its own document is one
\* update of it, however many attempts the probe took.
RunInv ==
    /\ pc \in {"idle", "loaded", "probed", "committed"}
    /\ pc # "idle" =>
         /\ keyed \in BOOLEAN
         /\ keyed => history = Parse(store) /\ ZeroBeyond(history, failedRuns)
         /\ ~keyed => next = NoDocument
    /\ pc \in {"probed", "committed"} /\ next # NoDocument =>
         \A n \in Names : next[n] \in {NoRecord, Merged(history, result, preferred)[n]}

HistoryInv == StoreInv /\ RunInv

---------------------------------------------------------------------------
(* Documents.                                                                *)

\* An update takes records as merged or drops them.
LEMMA UpdateKeepsOrDrops ==
    ASSUME NEW h, NEW res, NEW pref, NEW u \in UpdateHistory(h, res, pref), NEW n \in Names
    PROVE  u[n] \in {NoRecord, Merged(h, res, pref)[n]}
BY DEF UpdateHistory

\* Nothing but the age of a record changes between two runs, and it grows.
LEMMA OlderRecords ==
    ASSUME HistoryAssumption, NEW document, NEW gap \in Nat, Shaped(Parse(document)),
           NEW n \in Names, Parse(Older(document, gap))[n] # NoRecord
    PROVE  /\ Parse(document)[n] # NoRecord
           /\ {"age", "failures"} \subseteq DOMAIN Parse(Older(document, gap))[n]
           /\ Parse(Older(document, gap))[n].age \in Nat
           /\ Parse(Older(document, gap))[n].failures = Parse(document)[n].failures
           /\ Parse(Older(document, gap))[n].age <= MaxAge => Parse(document)[n].age <= MaxAge
<1> DEFINE older == Older(document, gap)
<1>1. document \notin {Malformed, NoDocument} /\ older \notin {Malformed, NoDocument}
    BY DEF Parse, Older, EmptyHistory
<1>2. Parse(document) = document /\ Parse(older) = older
    BY <1>1 DEF Parse
<1>3. document[n] # NoRecord /\ older[n] = [document[n] EXCEPT !.age = Smaller(@ + gap, MaxAge + 1)]
    BY <1>1, <1>2 DEF Older
<1>4. {"age", "failures"} \subseteq DOMAIN document[n] /\ document[n].age \in Nat
    BY <1>2, <1>3 DEF Shaped
<1>5. /\ DOMAIN older[n] = DOMAIN document[n] /\ older[n].failures = document[n].failures
      /\ older[n].age = Smaller(document[n].age + gap, MaxAge + 1)
    BY <1>3, <1>4
<1> QED
    BY <1>2, <1>3, <1>4, <1>5 DEF Smaller, HistoryAssumption

\* What a run observed is counted on top of what it kept.
LEMMA MergedRecords ==
    ASSUME HistoryAssumption, NEW h, Shaped(h), NEW failed, Counts(h, failed), ZeroBeyond(h, failed),
           NEW res, NEW pref, NEW n \in Names, failed[n] \in Nat, Merged(h, res, pref)[n] # NoRecord
    PROVE  LET new == Merged(h, res, pref)[n]
           IN  /\ {"age", "failures"} \subseteq DOMAIN new /\ new.age \in Nat /\ new.failures \in Nat
               /\ new.failures = CASE res[n] = "absent" -> failed[n]
                                   [] res[n] = "failed" -> Smaller(failed[n] + 1, DemoteAfter)
                                   [] OTHER -> 0
<1> DEFINE old == Kept(h)[n]
<1>1. old # NoRecord => old = h[n] /\ old.failures = failed[n] /\ old.age \in Nat
                        /\ {"age", "failures"} \subseteq DOMAIN old
    BY DEF Kept, Shaped, Counts
<1>2. old = NoRecord => failed[n] = 0
    BY DEF ZeroBeyond
<1>3. CASE res[n] = "absent"
    BY <1>1, <1>3 DEF Merged
<1>4. CASE res[n] # "absent"
    <2> DEFINE new == Observed(old, n, res[n], pref)
    <2>1. Merged(h, res, pref)[n] = new
        BY <1>4 DEF Merged
    <2>2. {"age", "failures"} \subseteq DOMAIN new /\ new.age = 0 /\ new.failures = Failures(old, res[n])
        BY DEF Observed
    <2>3. Failures(old, res[n]) = IF res[n] = "failed" THEN Smaller(failed[n] + 1, DemoteAfter) ELSE 0
        BY <1>1, <1>2 DEF Failures, Smaller, HistoryAssumption
    <2>4. Failures(old, res[n]) \in Nat
        BY <2>3 DEF Smaller, HistoryAssumption
    <2> QED
        BY <1>4, <2>1, <2>2, <2>3, <2>4
<1> QED
    BY <1>3, <1>4

---------------------------------------------------------------------------
(* Steps.                                                                    *)

LEMMA LoadSafe ==
    ASSUME HistoryAssumption, HistoryInv, NEW gap \in Gaps, NEW readable \in BOOLEAN,
           LoadSchedulerHistory(gap, readable)
    PROVE  HistoryInv'
<1> DEFINE aged == Parse(store')
<1>1. /\ store' = Older(store, gap) /\ gap \in Nat
      /\ \A n \in Names : failedRuns'[n] = IF Kept(aged)[n] # NoRecord THEN failedRuns[n] ELSE 0
    BY DEF LoadSchedulerHistory, Known, HistoryAssumption
<1>2. \A n \in Names : failedRuns'[n] \in Nat
    BY <1>1 DEF HistoryInv, StoreInv
<1>3. Shaped(aged)
    BY <1>1, OlderRecords DEF HistoryInv, StoreInv, Shaped
<1>4. Counts(aged, failedRuns')
    <2> SUFFICES ASSUME NEW n \in Names, aged[n] # NoRecord, aged[n].age <= MaxAge
                 PROVE  aged[n].failures = failedRuns'[n]
        BY DEF Counts
    <2>1. Kept(aged)[n] = aged[n]
        BY DEF Kept
    <2> QED
        BY <1>1, <2>1, OlderRecords DEF HistoryInv, StoreInv, Counts
<1>5. ZeroBeyond(aged, failedRuns')
    BY <1>1 DEF ZeroBeyond
<1>6. pc' = "loaded" /\ keyed' = readable /\ next' = NoDocument /\ (readable => history' = aged)
    BY DEF LoadSchedulerHistory
<1> QED
    BY <1>2, <1>3, <1>4, <1>5, <1>6 DEF HistoryInv, StoreInv, RunInv

LEMMA ProbeSafe ==
    ASSUME HistoryInv, NEW res, Probe(res)
    PROVE  HistoryInv'
<1>1. UNCHANGED <<store, history, keyed, failedRuns>> /\ result' = res /\ pc = "loaded" /\ pc' = "probed"
    BY DEF Probe
<1>2. IF keyed THEN next' \in UpdateHistory(history, res, preferred') ELSE next' = next
    BY DEF Probe
<1>3. keyed => \A n \in Names : next'[n] \in {NoRecord, Merged(history, res, preferred')[n]}
    BY <1>2, UpdateKeepsOrDrops
<1> QED
    BY <1>1, <1>2, <1>3 DEF HistoryInv, StoreInv, RunInv, Merged

LEMMA PersistSafe ==
    ASSUME HistoryAssumption, HistoryInv, NEW stored \in BOOLEAN, PersistSchedulerHistory(stored)
    PROVE  HistoryInv'
<1>1. pc = "committed" /\ pc' = "idle"
    BY DEF PersistSchedulerHistory, EndRun
<1>2. CASE ~(stored /\ next # NoDocument)
    <2>1. store' = store /\ \A n \in Names : failedRuns'[n] = failedRuns[n]
        BY <1>2 DEF PersistSchedulerHistory
    <2> QED
        BY <1>1, <2>1 DEF HistoryInv, StoreInv, RunInv, Counts
<1>3. CASE stored /\ next # NoDocument
    <2>1. store' = next
        BY <1>3 DEF PersistSchedulerHistory
    <2>2. \A n \in Names :
            failedRuns'[n] = IF next[n] = NoRecord THEN 0
                             ELSE CASE result[n] = "absent" -> failedRuns[n]
                                    [] result[n] = "failed" -> Smaller(failedRuns[n] + 1, DemoteAfter)
                                    [] OTHER -> 0
        BY <1>3 DEF PersistSchedulerHistory
    <2>3. /\ Shaped(history) /\ Counts(history, failedRuns) /\ ZeroBeyond(history, failedRuns)
          /\ \A n \in Names : failedRuns[n] \in Nat
        BY <1>1, <1>3 DEF HistoryInv, StoreInv, RunInv
    <2>4. \A n \in Names : next[n] \in {NoRecord, Merged(history, result, preferred)[n]}
        BY <1>1, <1>3 DEF HistoryInv, RunInv
    <2>5. ASSUME NEW n \in Names, next[n] # NoRecord
          PROVE  /\ {"age", "failures"} \subseteq DOMAIN next[n] /\ next[n].age \in Nat /\ next[n].failures \in Nat
                 /\ next[n].failures = failedRuns'[n]
        BY <2>2, <2>3, <2>4, <2>5, MergedRecords
    <2>6. \A n \in Names : failedRuns'[n] \in Nat
        BY <2>2, <2>5
    <2>7. Shaped(Parse(next)) /\ Counts(Parse(next), failedRuns')
        BY <2>5 DEF Parse, EmptyHistory, Shaped, Counts
    <2> QED
        BY <1>1, <2>1, <2>6, <2>7 DEF HistoryInv, StoreInv, RunInv
<1> QED
    BY <1>2, <1>3

\* The count is right at the start, and every step of a run keeps it right.
THEOREM HistoryInvariant == Spec => []HistoryInv
<1>1. Init => HistoryInv
    <2> SUFFICES ASSUME Init PROVE HistoryInv
        OBVIOUS
    <2>1. \A n \in Names : failedRuns[n] = 0
        BY DEF Init
    <2>2. Shaped(Parse(store)) /\ Counts(Parse(store), failedRuns)
        BY <2>1 DEF Init, Parse, EmptyHistory, LegacyRecord, Shaped, Counts
    <2> QED
        BY <2>1, <2>2 DEF Init, HistoryInv, StoreInv, RunInv
<1>2. HistoryInv /\ [Next]_vars => HistoryInv'
    <2> SUFFICES ASSUME HistoryInv, [Next]_vars PROVE HistoryInv'
        OBVIOUS
    <2>1. ASSUME NEW gap \in Gaps, NEW readable \in BOOLEAN, LoadSchedulerHistory(gap, readable) PROVE HistoryInv'
        BY <2>1, LoadSafe, HistoryAssumption
    <2>2. ASSUME NEW res \in [Names -> Results], Probe(res) PROVE HistoryInv'
        BY <2>2, ProbeSafe
    <2>3. CASE Retry
        BY <2>3 DEF Retry, HistoryInv, StoreInv, RunInv, Counts
    <2>4. CASE Reject
        BY <2>4 DEF Reject, EndRun, HistoryInv, StoreInv, RunInv, Counts
    <2>5. CASE Commit
        BY <2>5 DEF Commit, HistoryInv, StoreInv, RunInv, Counts
    <2>6. ASSUME NEW stored \in BOOLEAN, PersistSchedulerHistory(stored) PROVE HistoryInv'
        BY <2>6, PersistSafe, HistoryAssumption
    <2>7. CASE UNCHANGED vars
        BY <2>7 DEF vars, HistoryInv, StoreInv, RunInv, Counts
    <2> QED
        BY <2>1, <2>2, <2>3, <2>4, <2>5, <2>6, <2>7 DEF Next
<1> QED
    BY <1>1, <1>2, PTL DEF Spec

\* scheduler_history.py: a demotion rests on failures of stored production
\* runs in a row, each counted once, for any thresholds, ages and capacity.
THEOREM FailuresCounted == Spec => []FailuresAreRuns
<1>1. HistoryInv => FailuresAreRuns
    BY DEF HistoryInv, StoreInv, Parse, Counts, FailuresAreRuns, Known
<1> QED
    BY <1>1, HistoryInvariant, PTL

---------------------------------------------------------------------------
(* Hysteresis: what the average of a demoted node can be.                    *)

\* The highest average of a node that a stable run left demoted, and what a
\* reserve run leaves of it.
Ceiling == NextAverage(RecoverSuccess - 1, "stable")
AfterReserve == NextAverage(Ceiling, "reserve")

\* A favoured record rested in no run.  The average of one that is not says
\* how many stable runs it has behind it.
Plausible(r) ==
    /\ r.failures > 0 => r.ema <= NextAverage(Scale, "failed")
    /\ r.favoured => r.rested = 0
    /\ ~r.favoured =>
         /\ r.ema <= Ceiling
         /\ r.rested = 0 => r.ema <= AfterReserve
         /\ r.rested = 1 => r.ema < RecoverSuccess
         /\ r.rested > 0 => r.failures = 0

AllPlausible(h) == \A n \in Names : h[n] # NoRecord => h[n] \in Records /\ Plausible(h[n])

\* The preference of an attempt that used the history is that of its document.
PreferenceInv ==
    /\ AllPlausible(Parse(store))
    /\ pc \in {"probed", "committed"} /\ keyed =>
         preferred = PreferredStableNames(Stable(result), history)

\* An average of a whole number of parts, with the weight of the run.
LEMMA Averages ==
    ASSUME HistoryAssumption, NEW ema \in 0 .. Scale
    PROVE  /\ NextAverage(ema, "stable") = (42 * ema + 18 * Scale + 30) \div 60
           /\ NextAverage(ema, "reserve") = (42 * ema + 12 * Scale + 30) \div 60
           /\ NextAverage(ema, "failed") = (42 * ema + 30) \div 60
<1>1. Thirds("stable") = 3 /\ Thirds("reserve") = 2 /\ Thirds("failed") = 0
    BY DEF Thirds
<1> QED
    BY <1>1 DEF NextAverage, Rounded, HistoryAssumption

\* A better past never makes a worse average, a better run neither, and an
\* average stays one.
LEMMA AveragesGrow ==
    ASSUME HistoryAssumption, NEW a \in 0 .. Scale, NEW b \in 0 .. Scale, a <= b,
           NEW res \in {"failed", "reserve", "stable"}
    PROVE  /\ NextAverage(a, res) <= NextAverage(b, res)
           /\ NextAverage(a, res) \in 0 .. Scale
           /\ NextAverage(a, "failed") <= NextAverage(a, "reserve")
<1> USE HistoryAssumption DEF HistoryAssumption
<1>1. NextAverage(a, "failed") \in 0 .. Scale /\ NextAverage(a, "failed") <= NextAverage(a, "reserve")
    BY Averages
<1>2. CASE res = "stable"
    BY <1>1, <1>2, Averages
<1>3. CASE res = "reserve"
    BY <1>1, <1>3, Averages
<1>4. CASE res = "failed"
    BY <1>1, <1>4, Averages
<1> QED
    BY <1>2, <1>3, <1>4

LEMMA CeilingsAreAverages ==
    ASSUME HistoryAssumption, HysteresisAssumption
    PROVE  /\ RecoverSuccess - 1 \in 0 .. Scale /\ Ceiling \in 0 .. Scale /\ AfterReserve \in 0 .. Scale
           /\ NextAverage(AfterReserve, "stable") < RecoverSuccess
           /\ AfterReserve < RecoverSuccess /\ AfterReserve <= Ceiling
<1>1. RecoverSuccess - 1 \in 0 .. Scale /\ RecoverSuccess \in 0 .. Scale
    BY DEF HistoryAssumption, HysteresisAssumption
<1>2. Ceiling \in 0 .. Scale
    BY <1>1, AveragesGrow DEF Ceiling
<1>3. AfterReserve \in 0 .. Scale
    BY <1>2, AveragesGrow DEF AfterReserve
<1>4. NextAverage(AfterReserve, "stable") < RecoverSuccess
    BY DEF Ceiling, AfterReserve, HysteresisAssumption
<1>5. AfterReserve <= NextAverage(AfterReserve, "stable")
    BY <1>3, Averages DEF HistoryAssumption
<1>6. NextAverage(AfterReserve, "stable") \in Int
    BY <1>3, AveragesGrow
<1>7. RecoverSuccess - 1 <= Ceiling
    BY <1>1, Averages DEF Ceiling, HistoryAssumption
<1> QED
    BY <1>1, <1>2, <1>3, <1>4, <1>5, <1>6, <1>7

\* A record of fields of their types is one of Records.
LEMMA RecordFields ==
    ASSUME NEW runs \in 1 .. MinRuns, NEW ema \in 0 .. Scale, NEW failures \in 0 .. DemoteAfter,
           NEW age \in 0 .. MaxAge + 1, NEW favoured \in BOOLEAN, NEW rested \in 0 .. 2
    PROVE  [runs |-> runs, ema |-> ema, failures |-> failures,
            age |-> age, favoured |-> favoured, rested |-> rested] \in Records
BY DEF Records

\* What a run observes of a node: a record of the document's shape.
LEMMA ObservedIsRecord ==
    ASSUME HistoryAssumption, NEW old, old # NoRecord => old \in Records,
           NEW n, NEW pref, NEW res \in {"failed", "reserve", "stable"}
    PROVE  Observed(old, n, res, pref) \in Records
<1> USE HistoryAssumption DEF HistoryAssumption
<1>1. CASE old = NoRecord
    <2>1. FirstAverage(res) \in 0 .. Scale
        <3>1. CASE res = "stable"
            BY <3>1 DEF FirstAverage, Thirds, Rounded
        <3>2. CASE res = "reserve"
            BY <3>2 DEF FirstAverage, Thirds, Rounded
        <3>3. CASE res = "failed"
            BY <3>3 DEF FirstAverage, Thirds, Rounded
        <3> QED
            BY <3>1, <3>2, <3>3
    <2>2. Failures(old, res) \in 0 .. DemoteAfter
        BY <1>1 DEF Failures
    <2>3. Favoured(old, n, res, pref) \in BOOLEAN /\ Rested(old, n, res, pref) \in 0 .. 2
        <3>1. Rested(old, n, res, pref) \in 0 .. 2
            BY <1>1 DEF Rested
        <3>2. Favoured(old, n, res, pref) \in BOOLEAN
            <4>1. CASE res = "stable"
                BY <4>1 DEF Favoured
            <4>2. CASE res # "stable"
                BY <1>1, <4>2 DEF Favoured
            <4> QED
                BY <4>1, <4>2
        <3> QED
            BY <3>1, <3>2
    <2>4. Observed(old, n, res, pref) =
            [runs |-> 1, ema |-> FirstAverage(res), failures |-> Failures(old, res), age |-> 0,
             favoured |-> Favoured(old, n, res, pref), rested |-> Rested(old, n, res, pref)]
        BY <1>1 DEF Observed
    <2>5. 1 \in 1 .. MinRuns /\ 0 \in 0 .. MaxAge + 1
        OBVIOUS
    <2>6. [runs |-> 1, ema |-> FirstAverage(res), failures |-> Failures(old, res), age |-> 0,
           favoured |-> Favoured(old, n, res, pref), rested |-> Rested(old, n, res, pref)] \in Records
        BY ONLY <2>1, <2>2, <2>3, <2>5, RecordFields
    <2> QED
        BY ONLY <2>4, <2>6
<1>2. CASE old # NoRecord
    <2>1. /\ old.runs \in 1 .. MinRuns /\ old.ema \in 0 .. Scale /\ old.failures \in 0 .. DemoteAfter
          /\ old.favoured \in BOOLEAN /\ old.rested \in 0 .. 2
        BY <1>2 DEF Records
    <2>2. NextAverage(old.ema, res) \in 0 .. Scale
        BY <2>1, AveragesGrow
    <2>3. Failures(old, res) \in 0 .. DemoteAfter
        BY <1>2, <2>1 DEF Failures, Smaller
    <2>4. Favoured(old, n, res, pref) \in BOOLEAN
        <3>1. CASE res = "stable"
            BY <3>1 DEF Favoured
        <3>2. CASE res # "stable"
            BY <1>2, <2>1, <3>2, Zenon DEF Favoured
        <3> QED
            BY <3>1, <3>2
    <2>5. Rested(old, n, res, pref) \in 0 .. 2
        BY <1>2, <2>1 DEF Rested, Smaller
    <2>6. Smaller(old.runs + 1, MinRuns) \in 1 .. MinRuns
        BY <2>1 DEF Smaller
    <2>7. Observed(old, n, res, pref) =
            [runs |-> Smaller(old.runs + 1, MinRuns), ema |-> NextAverage(old.ema, res),
             failures |-> Failures(old, res), age |-> 0,
             favoured |-> Favoured(old, n, res, pref), rested |-> Rested(old, n, res, pref)]
        BY <1>2 DEF Observed
    <2>8. 0 \in 0 .. MaxAge + 1
        OBVIOUS
    <2>9. [runs |-> Smaller(old.runs + 1, MinRuns), ema |-> NextAverage(old.ema, res),
           failures |-> Failures(old, res), age |-> 0,
           favoured |-> Favoured(old, n, res, pref), rested |-> Rested(old, n, res, pref)] \in Records
        BY ONLY <2>2, <2>3, <2>4, <2>5, <2>6, <2>8, RecordFields
    <2> QED
        BY ONLY <2>7, <2>9
<1> QED
    BY <1>1, <1>2

\* A record whose node a stable run leaves demoted: its average was low, or
\* it had failed and is therefore low.
LEMMA DemotedIsLow ==
    ASSUME HistoryAssumption, HysteresisAssumption,
           NEW old \in Records, Plausible(old), ~HistoryPrefers(old)
    PROVE  /\ NextAverage(old.ema, "stable") <= Ceiling
           /\ old.rested = 0 => NextAverage(old.ema, "stable") < RecoverSuccess
<1> USE HistoryAssumption DEF HistoryAssumption
<1>1. /\ old.ema \in 0 .. Scale /\ old.failures \in Nat /\ old.favoured \in BOOLEAN /\ old.rested \in 0 .. 2
    BY DEF Records
<1>2. Ceiling \in 0 .. Scale /\ RecoverSuccess - 1 \in 0 .. Scale /\ NextAverage(old.ema, "stable") \in 0 .. Scale
    BY <1>1, CeilingsAreAverages, AveragesGrow
<1>3. old.ema < RecoverSuccess => NextAverage(old.ema, "stable") <= Ceiling
    BY <1>1, <1>2, AveragesGrow DEF Ceiling
<1>4. CASE ~old.favoured
    <2>1. old.ema < RecoverSuccess
        BY <1>1, <1>4, CeilingsAreAverages DEF HistoryPrefers, Plausible
    <2>2. old.rested = 0 => NextAverage(old.ema, "stable") <= NextAverage(AfterReserve, "stable")
        BY <1>1, <1>4, CeilingsAreAverages, AveragesGrow DEF Plausible
    <2>3. NextAverage(AfterReserve, "stable") \in Int
        BY CeilingsAreAverages, AveragesGrow
    <2> QED
        BY <1>2, <1>3, <2>1, <2>2, <2>3, CeilingsAreAverages
<1>5. CASE old.favoured
    <2>1. old.failures > 0 \/ old.ema < MinSuccess
        BY <1>1, <1>5 DEF HistoryPrefers
    <2>2. CASE old.failures > 0
        <3> DEFINE top == NextAverage(Scale, "failed")
        <3>1. top \in 0 .. Scale /\ old.ema <= top
            BY <2>2, AveragesGrow DEF Plausible
        <3>2. NextAverage(top, "stable") \in 0 .. Scale /\ NextAverage(top, "stable") < RecoverSuccess
              /\ NextAverage(old.ema, "stable") <= NextAverage(top, "stable")
            BY <1>1, <3>1, AveragesGrow DEF HysteresisAssumption
        <3>3. top < RecoverSuccess
            BY <3>1, <3>2, Averages
        <3> QED
            BY <1>1, <1>2, <1>3, <3>1, <3>2, <3>3
    <2>3. CASE old.ema < MinSuccess
        <3>1. /\ NextAverage(MinSuccess, "stable") < RecoverSuccess /\ NextAverage(MinSuccess, "stable") \in 0 .. Scale
              /\ NextAverage(old.ema, "stable") <= NextAverage(MinSuccess, "stable")
            BY <1>1, <2>3, AveragesGrow DEF HysteresisAssumption
        <3> QED
            BY <1>1, <1>2, <1>3, <2>3, <3>1
    <2> QED
        BY <2>1, <2>2, <2>3
<1> QED
    BY <1>4, <1>5, <1>1

\* An observation keeps what the averages of demoted nodes say, if the run
\* leaves out only nodes that their record demotes.
LEMMA ObservedIsPlausible ==
    ASSUME HistoryAssumption, HysteresisAssumption,
           NEW old, old # NoRecord => old \in Records /\ Plausible(old),
           NEW n, NEW pref, NEW res \in {"failed", "reserve", "stable"},
           res = "stable" /\ n \notin pref => old # NoRecord /\ ~HistoryPrefers(old)
    PROVE  Plausible(Observed(old, n, res, pref))
<1> DEFINE new == Observed(old, n, res, pref)
<1>1. /\ new.ema = IF old = NoRecord THEN FirstAverage(res) ELSE NextAverage(old.ema, res)
      /\ new.failures = Failures(old, res)
      /\ new.favoured = Favoured(old, n, res, pref)
      /\ new.rested = Rested(old, n, res, pref)
    BY DEF Observed
<1>2. old # NoRecord =>
        /\ old.ema \in 0 .. Scale /\ old.failures \in 0 .. DemoteAfter
        /\ old.favoured \in BOOLEAN /\ old.rested \in 0 .. 2
    BY DEF Records
<1>3. /\ Ceiling \in 0 .. Scale /\ AfterReserve \in 0 .. Scale /\ RecoverSuccess - 1 \in 0 .. Scale
      /\ NextAverage(Scale, "failed") \in 0 .. Scale /\ Scale \in 0 .. Scale
    BY CeilingsAreAverages, AveragesGrow DEF HistoryAssumption
<1>4. CASE res = "stable" /\ n \in pref
    <2>1. new.favoured /\ new.rested = 0 /\ new.failures = 0
        BY <1>1, <1>4 DEF Favoured, Rested, Failures
    <2> QED
        BY <2>1 DEF Plausible
<1>5. CASE res = "stable" /\ n \notin pref
    <2>1. /\ ~new.favoured /\ new.rested = Smaller(old.rested + 1, 2) /\ new.failures = 0
          /\ new.ema = NextAverage(old.ema, "stable") /\ old # NoRecord
        BY <1>1, <1>5 DEF Favoured, Rested, Failures
    <2>2. new.ema <= Ceiling /\ (old.rested = 0 => new.ema < RecoverSuccess)
        BY <1>5, <2>1, DemotedIsLow
    <2>3. new.rested \in 1 .. 2 /\ (new.rested = 1 => old.rested = 0)
        BY <1>2, <2>1 DEF Smaller
    <2> QED
        BY <2>1, <2>2, <2>3 DEF Plausible
<1>6. CASE res = "failed"
    <2>1. new.rested = 0
        BY <1>1, <1>6 DEF Rested
    <2>2. CASE old = NoRecord
        <3>1. new.favoured
            BY <1>1, <1>6, <2>2 DEF Favoured
        <3>2. new.ema = 0
            BY <1>1, <1>6, <2>2 DEF FirstAverage, Thirds, Rounded, HistoryAssumption
        <3> QED
            BY <1>3, <2>1, <3>1, <3>2 DEF Plausible
    <2>3. CASE old # NoRecord
        <3>1. new.ema = NextAverage(old.ema, "failed") /\ new.ema <= NextAverage(Scale, "failed")
              /\ new.ema \in 0 .. Scale
            BY <1>1, <1>2, <1>3, <1>6, <2>3, AveragesGrow
        <3>2. ~new.favoured => ~old.favoured
            BY <1>1, <1>6, <2>3 DEF Favoured
        <3>3. ASSUME ~new.favoured
              PROVE  new.ema <= AfterReserve /\ new.ema <= Ceiling
            <4>1. old.ema <= Ceiling
                BY <2>3, <3>2, <3>3 DEF Plausible
            <4>2. NextAverage(Ceiling, "failed") \in 0 .. Scale
                  /\ NextAverage(Ceiling, "failed") <= AfterReserve
                  /\ new.ema <= NextAverage(Ceiling, "failed")
                BY <1>2, <1>3, <2>3, <3>1, <4>1, AveragesGrow DEF AfterReserve
            <4>3. new.ema <= old.ema
                BY <1>2, <2>3, <3>1, Averages DEF HistoryAssumption
            <4> QED
                BY <1>2, <1>3, <2>3, <3>1, <4>1, <4>2, <4>3
        <3> QED
            BY <2>1, <3>1, <3>3 DEF Plausible
    <2> QED
        BY <2>2, <2>3
<1>7. CASE res = "reserve"
    <2>1. new.rested = 0 /\ new.failures = 0
        BY <1>1, <1>7 DEF Rested, Failures
    <2>2. ASSUME ~new.favoured
          PROVE  new.ema <= AfterReserve /\ new.ema <= Ceiling
        <3>1. old # NoRecord /\ ~old.favoured /\ new.ema = NextAverage(old.ema, "reserve")
            BY <1>1, <1>7, <2>2 DEF Favoured
        <3>2. old.ema <= Ceiling
            BY <3>1 DEF Plausible
        <3>3. new.ema <= AfterReserve
            BY <1>2, <1>3, <3>1, <3>2, AveragesGrow DEF AfterReserve
        <3>4. AfterReserve <= Ceiling
            BY CeilingsAreAverages
        <3>5. new.ema \in 0 .. Scale
            BY <1>2, <3>1, AveragesGrow
        <3> QED
            BY <1>3, <3>3, <3>4, <3>5
    <2> QED
        BY <2>1, <2>2 DEF Plausible
<1> QED
    BY <1>4, <1>5, <1>6, <1>7

---------------------------------------------------------------------------
(* Steps.                                                                    *)

\* What the history demotes inside a stable set has a record that is kept.
LEMMA LeftOutIsDemoted ==
    ASSUME HistoryAssumption, NEW h, NEW stable, NEW n \in stable, stable \subseteq Names,
           h[n] # NoRecord => h[n] \in Records,
           n \notin PreferredStableNames(stable, h)
    PROVE  /\ h[n] # NoRecord /\ Kept(h)[n] = h[n]
           /\ ~HistoryPrefers(h[n])
BY DEF PreferredStableNames, Fresh, Kept, Records, HistoryAssumption

\* One update of a plausible history with the preference it gave is plausible.
LEMMA MergedIsPlausible ==
    ASSUME HistoryAssumption, HysteresisAssumption, NEW h, AllPlausible(h),
           NEW res \in [Names -> Results], NEW n \in Names,
           Merged(h, res, PreferredStableNames(Stable(res), h))[n] # NoRecord
    PROVE  LET new == Merged(h, res, PreferredStableNames(Stable(res), h))[n]
           IN  new \in Records /\ Plausible(new)
<1> DEFINE pref == PreferredStableNames(Stable(res), h)
           old == Kept(h)[n]
<1>1. old # NoRecord => old \in Records /\ Plausible(old)
    BY DEF Kept, AllPlausible
<1>2. CASE res[n] = "absent"
    BY <1>1, <1>2 DEF Merged
<1>3. CASE res[n] # "absent"
    <2>1. res[n] \in {"failed", "reserve", "stable"}
        BY <1>3 DEF Results
    <2>2. ASSUME res[n] = "stable", n \notin pref
          PROVE  old # NoRecord /\ ~HistoryPrefers(old)
        <3>1. n \in Stable(res) /\ Stable(res) \subseteq Names
            BY <2>2 DEF Stable
        <3> QED
            BY <2>2, <3>1, LeftOutIsDemoted DEF AllPlausible
    <2>3. Observed(old, n, res[n], pref) \in Records
        BY <1>1, <2>1, ObservedIsRecord
    <2>4. Plausible(Observed(old, n, res[n], pref))
        BY <1>1, <2>1, <2>2, ObservedIsPlausible
    <2>5. Merged(h, res, pref)[n] = Observed(old, n, res[n], pref)
        BY <1>3 DEF Merged
    <2> QED
        BY <2>3, <2>4, <2>5
<1> QED
    BY <1>2, <1>3

\* Time makes no average more or less plausible.
LEMMA OlderIsPlausible ==
    ASSUME HistoryAssumption, NEW document, AllPlausible(Parse(document)), NEW gap \in Nat
    PROVE  AllPlausible(Parse(Older(document, gap)))
<1> SUFFICES ASSUME NEW n \in Names, Parse(Older(document, gap))[n] # NoRecord
             PROVE  /\ Parse(Older(document, gap))[n] \in Records
                    /\ Plausible(Parse(Older(document, gap))[n])
    BY DEF AllPlausible
<1> DEFINE older == Older(document, gap)
           r == document[n]
<1>1. document \notin {Malformed, NoDocument} /\ older \notin {Malformed, NoDocument}
    BY DEF Parse, Older, EmptyHistory
<1>2. Parse(document) = document /\ Parse(older) = older
    BY <1>1 DEF Parse
<1>3. r # NoRecord /\ older[n] = [r EXCEPT !.age = Smaller(@ + gap, MaxAge + 1)]
    BY <1>1, <1>2 DEF Older
<1>4. r \in Records /\ Plausible(r)
    BY <1>2, <1>3 DEF AllPlausible
<1>5. Smaller(r.age + gap, MaxAge + 1) \in 0 .. MaxAge + 1
    BY <1>4 DEF Records, Smaller, HistoryAssumption
<1>6. older[n] \in Records
    BY <1>3, <1>4, <1>5 DEF Records
<1>7. /\ older[n].ema = r.ema /\ older[n].failures = r.failures
      /\ older[n].favoured = r.favoured /\ older[n].rested = r.rested
    BY <1>3, <1>4 DEF Records
<1> QED
    BY <1>2, <1>4, <1>6, <1>7 DEF Plausible

\* Beside what the counts need: the results of a probe are results.
EarnedInv ==
    /\ HistoryInv /\ PreferenceInv
    /\ result \in [Names -> Results]

LEMMA EarnedStep ==
    ASSUME HistoryAssumption, HysteresisAssumption, EarnedInv, HistoryInv', [Next]_vars
    PROVE  EarnedInv'
<1>1. ASSUME NEW gap \in Gaps, NEW readable \in BOOLEAN, LoadSchedulerHistory(gap, readable)
      PROVE  EarnedInv'
    <2>1. store' = Older(store, gap) /\ gap \in Nat /\ pc' = "loaded" /\ result' = NoResult
        BY <1>1 DEF LoadSchedulerHistory, HistoryAssumption
    <2>2. AllPlausible(Parse(store'))
        BY <2>1, OlderIsPlausible DEF EarnedInv, PreferenceInv
    <2> QED
        BY <2>1, <2>2 DEF EarnedInv, PreferenceInv, NoResult, Results
<1>2. ASSUME NEW res \in [Names -> Results], Probe(res)
      PROVE  EarnedInv'
    <2>1. /\ store' = store /\ result' = res /\ keyed' = keyed /\ history' = history
          /\ preferred' = IF keyed THEN PreferredStableNames(Stable(res), history) ELSE Stable(res)
        BY <1>2 DEF Probe
    <2> QED
        BY <2>1 DEF EarnedInv, PreferenceInv
<1>3. CASE Retry
    BY <1>3 DEF Retry, EarnedInv, PreferenceInv
<1>4. CASE Reject
    BY <1>4 DEF Reject, EndRun, EarnedInv, PreferenceInv, NoResult, Results
<1>5. CASE Commit
    BY <1>5 DEF Commit, EarnedInv, PreferenceInv
<1>6. ASSUME NEW stored \in BOOLEAN, PersistSchedulerHistory(stored)
      PROVE  EarnedInv'
    <2>1. pc = "committed" /\ pc' = "idle" /\ result' = NoResult
          /\ store' = IF stored /\ next # NoDocument THEN next ELSE store
        BY <1>6 DEF PersistSchedulerHistory, EndRun
    <2>2. CASE ~(stored /\ next # NoDocument)
        BY <2>1, <2>2 DEF EarnedInv, PreferenceInv, NoResult, Results
    <2>3. CASE stored /\ next # NoDocument
        <3>1. keyed /\ history = Parse(store) /\ preferred = PreferredStableNames(Stable(result), history)
            BY <2>1, <2>3 DEF EarnedInv, PreferenceInv, HistoryInv, RunInv
        <3>2. \A n \in Names : next[n] \in {NoRecord, Merged(history, result, preferred)[n]}
            BY <2>1, <2>3 DEF EarnedInv, HistoryInv, RunInv
        <3>3. AllPlausible(history) /\ result \in [Names -> Results]
            BY <3>1 DEF EarnedInv, PreferenceInv
        <3>4. AllPlausible(next)
            BY <3>1, <3>2, <3>3, MergedIsPlausible DEF AllPlausible
        <3>5. AllPlausible(Parse(next))
            BY <3>4 DEF Parse, EmptyHistory, AllPlausible
        <3> QED
            BY <2>1, <2>3, <3>5 DEF EarnedInv, PreferenceInv, NoResult, Results
    <2> QED
        BY <2>2, <2>3
<1>7. CASE UNCHANGED vars
    BY <1>7 DEF vars, EarnedInv, PreferenceInv
<1> QED
    BY <1>1, <1>2, <1>3, <1>4, <1>5, <1>6, <1>7 DEF Next

\* What the next run of a demoted node may find: its average stays below what
\* the stable runs behind it could have earned.
THEOREM EarnedInvariant == Spec => []EarnedInv
<1>1. Init => PreferenceInv /\ result \in [Names -> Results]
    <2> SUFFICES ASSUME Init PROVE PreferenceInv /\ result \in [Names -> Results]
        OBVIOUS
    <2>1. pc = "idle" /\ result \in [Names -> Results]
        BY DEF Init, NoResult, Results
    <2>2. LegacyRecord \in Records /\ Plausible(LegacyRecord)
        <3>1. /\ MinRuns \in 1 .. MinRuns /\ Scale \in 0 .. Scale /\ 0 \in 0 .. DemoteAfter
              /\ 0 \in 0 .. MaxAge + 1 /\ 0 \in 0 .. 2 /\ TRUE \in BOOLEAN
            BY HistoryAssumption DEF HistoryAssumption
        <3>2. LegacyRecord \in Records
            BY ONLY <3>1, RecordFields DEF LegacyRecord
        <3>3. LegacyRecord.failures = 0 /\ LegacyRecord.favoured = TRUE /\ LegacyRecord.rested = 0
            BY DEF LegacyRecord
        <3> QED
            BY <3>2, <3>3 DEF Plausible
    <2>3. AllPlausible(Parse(store))
        BY <2>2 DEF Init, Parse, EmptyHistory, AllPlausible
    <2> QED
        BY <2>1, <2>3 DEF PreferenceInv
<1>2. HistoryInv /\ PreferenceInv /\ result \in [Names -> Results] => EarnedInv
    BY DEF EarnedInv
<1>3. EarnedInv /\ HistoryInv' /\ [Next]_vars => EarnedInv'
    BY EarnedStep, HistoryAssumption, HysteresisAssumption
<1> QED
    BY <1>1, <1>2, <1>3, HistoryInvariant, PTL DEF Spec

\* scheduler_history.py: a demoted node is preferred again only after two
\* stable runs in a row that it sat out, for any thresholds with that room.
THEOREM ReturnsAreEarned == Spec => []ReturnIsEarned
<1>1. EarnedInv => ReturnIsEarned
    <2> SUFFICES ASSUME EarnedInv, pc = "probed", keyed, NEW n \in preferred, history[n] # NoRecord,
                        Fresh(history[n]), Mature(history[n]), ~history[n].favoured
                 PROVE  history[n].rested = 2
        BY DEF ReturnIsEarned
    <2> DEFINE r == history[n]
    <2>1. history = Parse(store) /\ preferred = PreferredStableNames(Stable(result), history)
        BY DEF EarnedInv, HistoryInv, RunInv, PreferenceInv
    <2>2. n \in Names /\ HistoryPrefers(r)
        BY <2>1 DEF PreferredStableNames, Stable
    <2>3. r \in Records /\ Plausible(r)
        BY <2>1, <2>2 DEF EarnedInv, PreferenceInv, AllPlausible
    <2>4. r.failures = 0 /\ r.ema >= RecoverSuccess
        BY <2>2 DEF HistoryPrefers
    <2>5. r.ema \in 0 .. Scale /\ r.rested \in 0 .. 2 /\ AfterReserve \in 0 .. Scale
        BY <2>3, CeilingsAreAverages, HistoryAssumption, HysteresisAssumption DEF Records
    <2> QED
        BY <2>3, <2>4, <2>5, CeilingsAreAverages, HistoryAssumption, HysteresisAssumption
        DEF Plausible, HistoryAssumption
<1> QED
    BY <1>1, EarnedInvariant, PTL
=============================================================================
