--------------------------- MODULE OperationalSlo ---------------------------
(***************************************************************************)
(* The bounded ring of production outcomes (operational_slo.py): what one  *)
(* attempt may hold, how a stored ring is read and extended.               *)
(* Durations and byte counts only reach the printed summary: left out.     *)
(***************************************************************************)
EXTENDS Integers, Sequences, FiniteSets, SequencesExt

CONSTANTS
    SloWindow,          \* _MAX_ATTEMPTS
    Nothing,            \* an absent key, field or file
    Broken              \* a document with an entry that does not parse

-----------------------------------------------------------------------------
Outcomes == {"passed", "qualification_rejected", "promotion_blocked", "failed"}
Categories == {"transient", "policy_rejection"}

\* What _clean_attempt refuses: a recovery without a retry, a block without a check.
ValidAttempt(a) == (a.recovered => a.retried) /\ (a.blocked => a.checked)

Latest(seq, n) == SubSeq(seq, Len(seq) - n + 1, Len(seq))
Window(seq, n) == IF Len(seq) > n THEN Latest(seq, n) ELSE seq

ParseSlo(document) == IF document \in {Nothing, Broken} THEN <<>> ELSE Window(document, SloWindow)

WindowOldest(seq, n) == IF Len(seq) > n THEN SubSeq(seq, 1, n) ELSE seq
AppendSloAttemptKeepingOldest(ring, a) == WindowOldest(Append(ring, a), SloWindow)
AppendSloAttempt(ring, a) == Window(Append(ring, a), SloWindow)

\* The first typed rejection in the chain of causes, else none.
FailureCategory(error) == error.rejected
\* Whether the last rejection could have been retried, not whether one was.
RetryAttempted(error) == error.rejected = "transient"
=============================================================================
