------------------------- MODULE ReleaseTransaction -------------------------
(***************************************************************************)
(* The private release intent of release_transaction.py: the record kept   *)
(* in the transaction key while a release is being switched, the parser    *)
(* that reads it back, its monotonic phases, and the classifier of the     *)
(* identities an observer sees.  Everything here is pure; ReleaseBundle    *)
(* and ReleaseReconciliation build on it.                                  *)
(***************************************************************************)
EXTENDS Naturals

CONSTANTS
    ReleaseIds,     \* identities of immutable releases (SHA-256 of their bytes)
    None,           \* a missing key, and Python's None
    Empty           \* the one-newline value written to clear a pointer or intent

Phases == {"prepare", "commit", "verify", "finalize"}

\* The phase name of the version-1 document, kept readable by the parser.
LegacyPhase == "prepared"

PhaseIndex ==
    [p \in Phases |-> CASE p = "prepare" -> 0
                        [] p = "commit" -> 1
                        [] p = "verify" -> 2
                        [] p = "finalize" -> 3]

OptionalId == ReleaseIds \union {None}

\* A document as it lies in the key, before the parser has judged it.
Documents ==
    [from : OptionalId, to : OptionalId, previous : OptionalId,
     phase : Phases \union {LegacyPhase}]

\* The endpoint rules parse_release_transaction enforces after the shape checks.
WellFormed(doc) ==
    /\ doc.to # None
    /\ doc.from # doc.to
    /\ doc.from = None => doc.previous = None

\* A missing key, a cleared key, an identity and a document are four
\* different things.
ASSUME SentinelsAssumption ==
    /\ None # Empty
    /\ {None, Empty} \intersect ReleaseIds = {}
    /\ {None, Empty} \intersect Documents = {}

StoredDocuments == {doc \in Documents : WellFormed(doc)}
Transactions == {doc \in StoredDocuments : doc.phase \in Phases}

\* What the parser makes of a value it does not refuse: no intent for a
\* missing or cleared key, and the version-1 phase under its current name.
ParseTransaction(value) ==
    IF value \in {None, Empty} THEN None
    ELSE IF value.phase = LegacyPhase
         THEN [value EXCEPT !.phase = "prepare"]
         ELSE value

NewTransaction(from, to, previous) ==
    [from |-> from, to |-> to, previous |-> previous, phase |-> "prepare"]

\* advance_release_transaction; callers never ask it to go back.
Advance(txn, phase) == [txn EXCEPT !.phase = phase]

PhaseReached(txn, phase) == PhaseIndex[txn.phase] >= PhaseIndex[phase]

ReferencedReleaseIds(txn) == {txn.from, txn.to, txn.previous} \ {None}

\* parse_release_pointer: a missing and a cleared pointer both name nothing.
ParsePointer(value) == IF value = Empty THEN None ELSE value

InspectSettled(production, current, previous) ==
    IF production = None /\ current = None /\ previous = None
    THEN "first_release"
    ELSE IF production # None /\ production = current /\ previous # current
         THEN "healthy"
         ELSE "inconsistent"

InspectPending(production, current, previous, txn) ==
    IF production = txn.to
    THEN IF /\ current \in {None, txn.from, txn.to}
            /\ previous \in {txn.previous, txn.from}
         THEN "recoverable_interrupted_commit"
         ELSE "inconsistent"
    ELSE IF production = txn.from THEN "ambiguous" ELSE "inconsistent"

\* inspect_release_state, from the identities an audit has read.
InspectReleaseState(production, current, previous, txn) ==
    IF txn = None
    THEN InspectSettled(production, current, previous)
    ELSE InspectPending(production, current, previous, txn)
=============================================================================
