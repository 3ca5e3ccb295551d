----------------------- MODULE ReleaseReconciliation -----------------------
(***************************************************************************)
(* reconcile_release_bundle of release_reconciliation.py: after an attempt *)
(* ended commit-unknown, four keys are read one after the other, without   *)
(* any lock, and the outcome is classified.  Late writes may land between  *)
(* the reads, and a read may be served from a path that still shows the    *)
(* value of before the attempt, unless the operator asserts dated          *)
(* evidence.  The next attempt makes the question moot.  A "committed"     *)
(* verdict makes the lifecycle discard the only private copy of the        *)
(* candidate.                                                              *)
(***************************************************************************)
EXTENDS ReleaseBundle

VARIABLES
    snapshot,   \* the four keys as they were when the last attempt started
    reading,    \* next key to read, "idle" or "classify"
    view,       \* what the reader has collected so far
    fresh,      \* the operator asserts dated evidence (fresh_read_evidence)
    question,   \* the attempt being reconciled: its candidate and baseline
    verdict     \* the last classification, or None

readerVars == <<snapshot, reading, view, fresh, question, verdict>>
reconciliationVars == <<vars, readerVars>>
-----------------------------------------------------------------------------
Keys == [production |-> production, current |-> current,
         previous |-> previous, transaction |-> intent]

NoView == [production |-> None, current |-> None,
           previous |-> None, transaction |-> None]

NoQuestion == [candidate |-> None, previous |-> None]

Order == [production |-> "current", current |-> "previous",
          previous |-> "transaction", transaction |-> "classify"]

Verdict(status, changed) == [status |-> status, changed |-> changed]

-----------------------------------------------------------------------------
(* The classification, from the parsed view.                               *)

\* Mutant of Blocking: an intent of this candidate never blocks.
BlockingOnOtherTarget(v, candidate, baseline) ==
    LET txn == ParseTransaction(v.transaction)
    IN  txn # None /\ txn.to # IdOf(candidate)

\* A visible intent of another switch, or of this one with anything of it not
\* visible yet, leaves no room for a conclusion.
Blocking(v, candidate, baseline) ==
    LET txn == ParseTransaction(v.transaction)
    IN  /\ txn # None
        /\ \/ txn.to # IdOf(candidate) \/ txn.from # IdOf(baseline)
           \/ v.production # candidate
           \/ ParsePointer(v.current) # IdOf(candidate)
           \/ ParsePointer(v.previous) # IdOf(baseline)

CandidateLive(v, candidate) ==
    v.production = candidate /\ ParsePointer(v.current) = IdOf(candidate)

LiveVerdict(v, candidate, baseline) ==
    IF baseline = candidate
    THEN Verdict("committed", "no")
    ELSE IF ParsePointer(v.previous) = IdOf(baseline)
         THEN Verdict("committed", "yes")
         ELSE Verdict("unknown", "yes")

BaselineLive(v, candidate, baseline) ==
    v.production = baseline /\ ParsePointer(v.current) # IdOf(candidate)

Classify(v, candidate, baseline, dated) ==
    IF Blocking(v, candidate, baseline)
    THEN Verdict("unknown", "unknown")
    ELSE IF CandidateLive(v, candidate)
         THEN LiveVerdict(v, candidate, baseline)
         ELSE IF BaselineLive(v, candidate, baseline)
              THEN IF dated THEN Verdict("not_committed", "no")
                            ELSE Verdict("indeterminate", "unknown")
              ELSE Verdict("unknown", "unknown")
-----------------------------------------------------------------------------
ReconciliationInit ==
    /\ Init
    /\ snapshot = Keys
    /\ reading = "idle" /\ view = NoView /\ fresh = FALSE
    /\ question = NoQuestion
    /\ verdict = None

\* The next attempt; whatever was being asked about the last one is moot.
NextAttempt ==
    /\ \E c \in Contents : Begin(c)
    /\ snapshot' = Keys
    /\ reading' = "idle" /\ view' = NoView /\ fresh' = FALSE
    /\ question' = NoQuestion /\ verdict' = None

PublisherStep ==
    /\ Attempt \/ ReadFailure \/ Crash \/ Settle
    /\ UNCHANGED readerVars

\* The lifecycle, or later an operator, asks about an ambiguous attempt.
Ask(dated) ==
    /\ reading = "idle" /\ pc = "idle" /\ report.status = "unknown"
    /\ reading' = "production" /\ view' = NoView /\ fresh' = dated
    /\ question' = [candidate |-> report.candidate, previous |-> base]
    /\ verdict' = None
    /\ UNCHANGED <<vars, snapshot>>

\* The operator, later, has the identities only: both releases are read back
\* from their immutable objects, and verified.
AskByIds(dated) ==
    LET from == IdOf(base)
    IN  /\ Ask(dated)
        /\ Staged(IdOf(report.candidate))
        /\ from # None => Staged(from)

ReadKey ==
    /\ reading \in DOMAIN Order
    /\ \E value \in {Keys[reading]} \union (IF fresh THEN {} ELSE {snapshot[reading]}) :
          view' = [view EXCEPT ![reading] = value]
    /\ reading' = Order[reading]
    /\ UNCHANGED <<vars, snapshot, fresh, question, verdict>>

\* A failed read: reason "read_failed".
ReadFails ==
    /\ reading \in DOMAIN Order
    /\ reading' = "idle" /\ view' = NoView
    /\ verdict' = Verdict("unknown", "unknown")
    /\ Refused /\ UNCHANGED <<pc, job, report, base>>
    /\ UNCHANGED <<snapshot, fresh, question>>

Conclude ==
    /\ reading = "classify"
    /\ reading' = "idle" /\ view' = NoView
    /\ verdict' = Classify(view, question.candidate, question.previous, fresh)
    /\ UNCHANGED <<vars, snapshot, fresh, question>>

ReconciliationNext ==
    \/ NextAttempt \/ PublisherStep
    \/ \E dated \in BOOLEAN : Ask(dated) \/ AskByIds(dated)
    \/ ReadKey \/ ReadFails \/ Conclude

ReconciliationSpec == ReconciliationInit /\ [][ReconciliationNext]_reconciliationVars
-----------------------------------------------------------------------------
Concluded(status) == verdict # None /\ verdict.status = status

\* A conclusion may be acted on. "committed": the candidate is live with its
\* pointers, no late write can take it away, and an intent still pending can be
\* retired by any later candidate, so the private copy the lifecycle discards is
\* never needed again. "not_committed", which needs dated evidence: the bytes of
\* before the attempt are live and no late write can replace them.
ConclusionsAreFinal ==
    /\ Concluded("committed") =>
           /\ CandidateLive(Keys, question.candidate)
           /\ \A w \in inflight : w.key = "production" => w.value = question.candidate
           /\ Intent # None => CommittedState(Intent)
    /\ Concluded("not_committed") =>
           /\ production = question.previous
           /\ \A w \in inflight : w.key = "production" => w.value = question.previous
=============================================================================
