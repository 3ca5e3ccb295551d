--------------------------- MODULE ReleaseBundle ---------------------------
(***************************************************************************)
(* publish_release_bundle of release_bundle.py: one publisher switches the *)
(* client-visible production key between immutable releases, keeping two   *)
(* pointers and a durable intent beside it in a key-value store that       *)
(* offers no multi-key transaction.                                        *)
(*                                                                         *)
(* The publish and rollback workflows share one concurrency group, so at   *)
(* most one attempt runs at a time; every attempt may stop between any two *)
(* steps.  Each write ends in one of the three outcomes VerifiedWrite      *)
(* derives from the HTTP answer and the read-backs: confirmed, definitely  *)
(* refused, or unresolved.  An unresolved write is "in flight": it may     *)
(* land later or never.                                                    *)
(***************************************************************************)
EXTENDS ReleaseTransaction

CONSTANTS
    Contents,       \* complete production configurations, as bytes
    ReleaseIdOf,    \* release_id_for: the identity of each content
    Settled,        \* TRUE: an attempt starts only once no write is in flight
    MaxFaults       \* bound on failed reads and writes and on crashes

\* release_id_for is SHA-256: two contents never share an identity.
ASSUME ContentsAssumption ==
    /\ ReleaseIdOf \in [Contents -> ReleaseIds]
    /\ \A c, d \in Contents : ReleaseIdOf[c] = ReleaseIdOf[d] => c = d
    /\ {None, Empty} \intersect Contents = {}

ASSUME BoundsAssumption == Settled \in BOOLEAN /\ MaxFaults \in Nat

VARIABLES
    production,     \* value of the key clients download, or None
    current,        \* raw value of the current pointer
    previous,       \* raw value of the previous pointer
    intent,         \* raw value of the transaction key
    config,         \* immutable bytes stored under each identity, or None
    manifest,       \* content whose manifest is stored under each identity
    inflight,       \* unresolved writes that may still land
    pc,             \* next step of the running attempt, "idle" between attempts
    job,            \* local variables of the running attempt
    report,         \* how the last attempt ended
    base,           \* ghost: production when the last attempt started
    faults          \* how many faults have happened

store == <<production, current, previous, intent, config, manifest>>
vars == <<store, inflight, pc, job, report, base, faults>>
-----------------------------------------------------------------------------
OptionalContent == Contents \union {None}
Pointers == OptionalId \union {Empty}

IdOf(content) == IF content = None THEN None ELSE ReleaseIdOf[content]
PointerValue(id) == IF id = None THEN Empty ELSE id
Intent == ParseTransaction(intent)

\* Both immutable objects of a release are present and agree with its identity.
Staged(id) ==
    /\ config[id] # None
    /\ ReleaseIdOf[config[id]] = id
    /\ manifest[id] = config[id]

Jobs == [candidate : OptionalContent, txn : Transactions \union {None},
         production : OptionalContent, current : OptionalId,
         previous : OptionalId, errors : SUBSET {"production", "current"}]

NoJob == [candidate |-> None, txn |-> None, production |-> None,
          current |-> None, previous |-> None, errors |-> {}]

Write(key, value) == [key |-> key, value |-> value]

Writes ==
    {Write("production", c) : c \in Contents}
    \union {Write("current", p) : p \in ReleaseIds \union {Empty}}
    \union {Write("previous", p) : p \in ReleaseIds \union {Empty}}
    \union {Write("transaction", t) : t \in Transactions \union {Empty}}
    \union {Write("config", c) : c \in Contents}
    \union {Write("manifest", c) : c \in Contents}

Reading == {"read_intent", "retire_check", "stage_config", "stage_manifest",
            "read_production", "read_current", "read_previous", "reconcile",
            "stage_old_config", "stage_old_manifest", "check"}

Writing == {"retire", "align_current", "intent", "first_pointer", "activate",
            "undo_first_pointer", "commit", "previous", "current", "verify",
            "finalize", "clear", "repair_previous", "repair_current",
            "undo_production", "undo_current", "undo_previous", "abort"}

Reports == [status : {"none", "published", "unchanged", "failed", "incomplete",
                      "unknown", "crashed"},
            changed : {"yes", "no", "unknown", "unsaid"},
            candidate : OptionalContent]

TypeOK ==
    /\ production \in OptionalContent
    /\ current \in Pointers /\ previous \in Pointers
    /\ intent \in StoredDocuments \union {None, Empty}
    /\ config \in [ReleaseIds -> OptionalContent]
    /\ manifest \in [ReleaseIds -> OptionalContent]
    /\ inflight \in SUBSET Writes
    /\ pc \in {"idle"} \union Reading \union Writing
    /\ job \in Jobs
    /\ report \in Reports
    /\ base \in OptionalContent
    /\ faults \in 0 .. MaxFaults
-----------------------------------------------------------------------------
Nothing == [id \in ReleaseIds |-> None]

Holding(contents) ==
    [id \in ReleaseIds |-> IF \E c \in contents : ReleaseIdOf[c] = id
                          THEN CHOOSE c \in contents : ReleaseIdOf[c] = id
                          ELSE None]

\* A namespace that is empty, or whose production key predates releases.
InitUnversioned ==
    /\ production \in OptionalContent
    /\ current = None /\ previous = None /\ intent = None
    /\ config = Nothing /\ manifest = Nothing

\* A version-1 program stopped around its activation and left its intent.
InitLegacyIntent ==
    \E from, to \in Contents :
        /\ from # to
        /\ production \in {from, to}
        /\ current = ReleaseIdOf[from] /\ previous = None
        /\ intent = [from |-> ReleaseIdOf[from], to |-> ReleaseIdOf[to],
                     previous |-> None, phase |-> LegacyPhase]
        /\ config = Holding({from, to}) /\ manifest = Holding({from, to})

Init ==
    /\ InitUnversioned \/ InitLegacyIntent
    /\ inflight = {}
    /\ pc = "idle"
    /\ job = NoJob
    /\ report = [status |-> "none", changed |-> "unsaid", candidate |-> None]
    /\ base = production
    /\ faults = 0

(* The effect of one write on the store.                                   *)
Put(key, value) ==
    /\ production' = IF key = "production" THEN value ELSE production
    /\ current' = IF key = "current" THEN value ELSE current
    /\ previous' = IF key = "previous" THEN value ELSE previous
    /\ intent' = IF key = "transaction" THEN value ELSE intent
    /\ config' = IF key = "config"
                 THEN [config EXCEPT ![ReleaseIdOf[value]] = value] ELSE config
    /\ manifest' = IF key = "manifest"
                   THEN [manifest EXCEPT ![ReleaseIdOf[value]] = value]
                   ELSE manifest

Fault == faults < MaxFaults /\ faults' = faults + 1

Continue(step, locals) ==
    /\ pc' = step /\ job' = locals /\ UNCHANGED <<report, base>>

End(status, changed) ==
    /\ pc' = "idle" /\ job' = NoJob /\ UNCHANGED base
    /\ report' = [status |-> status, changed |-> changed,
                  candidate |-> job.candidate]

\* A local step, or a read, that changes no key.
Local == UNCHANGED <<store, inflight, faults>>

Holds(key, value) ==
    \/ key = "production" /\ production = value
    \/ key = "current" /\ current = value
    \/ key = "previous" /\ previous = value
    \/ key = "transaction" /\ intent = value

\* _publish_verified returned: the exact bytes were read back.  When the key
\* held them already, that proves nothing about this write, which may linger.
Confirmed(key, value) ==
    /\ Put(key, value)
    /\ \/ UNCHANGED <<inflight, faults>>
       \/ /\ Holds(key, value) /\ Fault
          /\ inflight' = inflight \union {Write(key, value)}

\* _publish_verified raised PublicationError: the write was not applied.
Refused == Fault /\ UNCHANGED <<store, inflight>>

\* _publish_verified raised CommitUnknownError, and the attempt stops there.
Unresolved(key, value, changed) ==
    /\ Fault /\ UNCHANGED store
    /\ inflight' = inflight \union {Write(key, value)}
    /\ End("unknown", changed)
-----------------------------------------------------------------------------
(* Opening an attempt: retire a proven intent, or refuse another target.   *)
Begin(c) ==
    /\ pc = "idle"
    /\ Settled => inflight = {}
    /\ pc' = "read_intent" /\ job' = [NoJob EXCEPT !.candidate = c]
    /\ base' = production
    /\ Local /\ UNCHANGED report

ReadIntent ==
    /\ pc = "read_intent" /\ Local
    /\ LET step == IF Intent = None THEN "stage_config"
                   ELSE IF Intent.to = IdOf(job.candidate)
                        THEN "stage_config" ELSE "retire_check"
       IN  Continue(step, [job EXCEPT !.txn = Intent])

\* Mutant of CommittedState: the live bytes alone are taken for a commit.
CommittedWithoutPointers(txn) ==
    /\ production # None /\ IdOf(production) = txn.to
    /\ Staged(txn.to)

\* Everything the foreign intent promised is in the store.
CommittedState(txn) ==
    /\ production # None /\ IdOf(production) = txn.to
    /\ ParsePointer(current) = txn.to /\ ParsePointer(previous) = txn.from
    /\ Staged(txn.to)
    /\ txn.from # None => Staged(txn.from)

RetireCheck ==
    /\ pc = "retire_check" /\ Local
    /\ IF CommittedState(job.txn)
       THEN Continue("retire", job)
       ELSE End("failed", "unsaid")

Retire ==
    /\ pc = "retire"
    /\ \/ /\ Confirmed("transaction", Empty)
          /\ Continue("stage_config", [job EXCEPT !.txn = None])
       \/ Refused /\ End("failed", "unsaid")
       \/ Unresolved("transaction", Empty, "no")

(* _ensure_immutable_release, for the candidate and for its predecessor.   *)
\* Mutant of Stage: an unresolved write counts as staged.
StageOptimistically(at, key, stored, content, step, locals) ==
    /\ pc = at
    /\ \/ stored[IdOf(content)] = content /\ Local /\ Continue(step, locals)
       \/ /\ stored[IdOf(content)] = None
          /\ \/ Confirmed(key, content) /\ Continue(step, locals)
             \/ /\ Fault /\ UNCHANGED store /\ Continue(step, locals)
                /\ inflight' = inflight \union {Write(key, content)}
       \/ stored[IdOf(content)] # content /\ Refused /\ End("failed", "unsaid")

Stage(at, key, stored, content, step, locals) ==
    /\ pc = at
    /\ \/ stored[IdOf(content)] = content /\ Local /\ Continue(step, locals)
       \/ /\ stored[IdOf(content)] = None
          /\ \/ Confirmed(key, content) /\ Continue(step, locals)
             \/ Unresolved(key, content, "no")
       \/ stored[IdOf(content)] # content /\ Refused /\ End("failed", "unsaid")

StageConfig ==
    Stage("stage_config", "config", config, job.candidate, "stage_manifest", job)

StageManifest ==
    Stage("stage_manifest", "manifest", manifest, job.candidate,
          "read_production", job)

ReadProduction ==
    /\ pc = "read_production" /\ Local
    /\ Continue("read_current", [job EXCEPT !.production = production])

ReadCurrent ==
    /\ pc = "read_current" /\ Local
    /\ Continue("read_previous", [job EXCEPT !.current = ParsePointer(current)])

ReadPrevious ==
    /\ pc = "read_previous" /\ Local
    /\ Continue("reconcile", [job EXCEPT !.previous = ParsePointer(previous)])
-----------------------------------------------------------------------------
(* _recover_transaction: an intent for the same candidate is resumed only  *)
(* when its activation is visible and nothing contradicts it.              *)
Pending == IF job.txn # None THEN job.txn ELSE Intent

Activated(txn) == job.production # None /\ IdOf(job.production) = txn.to

\* Mutant of Resumable: a predecessor already moved to previous is a contradiction.
ResumableBeforePrevious(txn) ==
    /\ Activated(txn)
    /\ job.current \in {None, txn.from, txn.to}
    /\ job.previous = txn.previous
    /\ txn.from # None => Staged(txn.from)

Resumable(txn) ==
    /\ Activated(txn)
    /\ job.current \in {None, txn.from, txn.to}
    /\ job.previous \in {txn.previous, txn.from}
    /\ txn.from # None => Staged(txn.from)

Recover ==
    /\ pc = "reconcile" /\ Pending # None /\ Local
    /\ IF Pending.to # IdOf(job.candidate)
       THEN End("failed", "unsaid")
       ELSE IF ~Activated(Pending)
            THEN End("unknown", "unknown")
            ELSE IF Resumable(Pending)
                 THEN Continue("repair_previous", [job EXCEPT !.txn = Pending])
                 ELSE End("failed", "unsaid")

\* A recovery step that writes nothing when the store already agrees; its
\* refusal is not compensated.
Repair(at, key, id, seen, step) ==
    /\ pc = at
    /\ IF seen = id
       THEN Local /\ Continue(step, job)
       ELSE \/ Confirmed(key, PointerValue(id)) /\ Continue(step, job)
            \/ Refused /\ End("failed", "unsaid")
            \/ Unresolved(key, PointerValue(id), "yes")

RepairPrevious ==
    Repair("repair_previous", "previous", job.txn.from, job.previous, "repair_current")

RepairCurrent ==
    Repair("repair_current", "current", job.txn.to, job.current, "verify")
-----------------------------------------------------------------------------
(* Without an intent, the candidate is refused, already live, a first      *)
(* release or an update.                                                   *)
Consistent ==
    IF job.production = None
    THEN job.current = None /\ job.previous = None
    ELSE job.current \in {None, IdOf(job.production)}

Decide ==
    /\ pc = "reconcile" /\ Pending = None /\ Local
    /\ IF ~Consistent
       THEN End("failed", "unsaid")
       ELSE IF job.production = job.candidate
            THEN IF job.current = IdOf(job.candidate)
                 THEN End("unchanged", "no")
                 ELSE Continue("align_current", job)
            ELSE IF job.production = None
                 THEN Continue("intent", [job EXCEPT !.txn =
                          NewTransaction(None, IdOf(job.candidate), None)])
                 ELSE Continue("stage_old_config", job)

AlignCurrent ==
    LET id == IdOf(job.candidate)
    IN  /\ pc = "align_current"
        /\ \/ Confirmed("current", id) /\ End("unchanged", "no")
           \/ Refused /\ End("failed", "unsaid")
           \/ Unresolved("current", id, "no")

StageOldConfig ==
    Stage("stage_old_config", "config", config, job.production,
          "stage_old_manifest", job)

StageOldManifest ==
    Stage("stage_old_manifest", "manifest", manifest, job.production, "intent",
          [job EXCEPT !.txn = NewTransaction(IdOf(job.production),
                                             IdOf(job.candidate), job.previous)])
-----------------------------------------------------------------------------
(* The switch itself.                                                      *)
WriteIntent ==
    /\ pc = "intent"
    /\ \/ /\ Confirmed("transaction", job.txn)
          /\ Continue(IF job.txn.from = None THEN "first_pointer" ELSE "activate", job)
       \/ Refused /\ End("failed", "unsaid")
       \/ Unresolved("transaction", job.txn, "no")

\* _activate_first_release points at the release before activating it; a
\* refusal here leaves the intent behind.
FirstPointer ==
    /\ pc = "first_pointer"
    /\ \/ Confirmed("current", job.txn.to) /\ Continue("activate", job)
       \/ Refused /\ End("failed", "unsaid")
       \/ Unresolved("current", job.txn.to, "no")

\* Mutant of Activate: an unresolved activation is reported as no change.
ActivateDenyingChange ==
    /\ pc = "activate"
    /\ \/ Confirmed("production", job.candidate) /\ Continue("commit", job)
       \/ /\ Refused
          /\ Continue(IF job.txn.from = None THEN "undo_first_pointer"
                                             ELSE "undo_production", job)
       \/ Unresolved("production", job.candidate, "no")

Activate ==
    /\ pc = "activate"
    /\ \/ Confirmed("production", job.candidate) /\ Continue("commit", job)
       \/ /\ Refused
          /\ Continue(IF job.txn.from = None THEN "undo_first_pointer"
                                             ELSE "undo_production", job)
       \/ Unresolved("production", job.candidate, "unknown")

\* Mutant of AdvanceIntent: recovery replays phases that are durable already.
AdvanceAgain(at, phase, step) ==
    LET txn == Advance(job.txn, phase)
    IN  /\ pc = at
        /\ \/ Confirmed("transaction", txn) /\ Continue(step, [job EXCEPT !.txn = txn])
           \/ Refused /\ End("failed", "unsaid")
           \/ Unresolved("transaction", txn, "yes")

\* Write the intent under a later phase; a phase already durable is kept.
AdvanceIntent(at, phase, step) ==
    /\ pc = at
    /\ IF PhaseReached(job.txn, phase)
       THEN Local /\ Continue(step, job)
       ELSE LET txn == Advance(job.txn, phase)
            IN  \/ /\ Confirmed("transaction", txn)
                   /\ Continue(step, [job EXCEPT !.txn = txn])
                \/ Refused /\ End("failed", "unsaid")
                \/ Unresolved("transaction", txn, "yes")

CommitPhase ==
    AdvanceIntent("commit", "commit",
                  IF job.txn.from = None THEN "verify" ELSE "previous")

\* A refused pointer write starts the compensation.
SwitchPointer(at, key, id, step) ==
    /\ pc = at
    /\ \/ Confirmed(key, id) /\ Continue(step, job)
       \/ Refused /\ Continue("undo_production", job)
       \/ Unresolved(key, id, "yes")

SwitchPrevious == SwitchPointer("previous", "previous", job.txn.from, "current")
SwitchCurrent == SwitchPointer("current", "current", job.txn.to, "verify")

VerifyPhase == AdvanceIntent("verify", "verify", "check")

Check ==
    /\ pc = "check" /\ Local
    /\ IF /\ production = job.candidate
          /\ ParsePointer(previous) = job.txn.from
          /\ ParsePointer(current) = job.txn.to
       THEN Continue("finalize", job)
       ELSE End("unknown", "unknown")

FinalizePhase == AdvanceIntent("finalize", "finalize", "clear")

\* Mutant of Clear: a refused clearing write is swallowed.
ClearIgnoringRefusal ==
    /\ pc = "clear"
    /\ \/ Confirmed("transaction", Empty) /\ End("published", "yes")
       \/ Refused /\ End("published", "yes")
       \/ Unresolved("transaction", Empty, "yes")

Clear ==
    /\ pc = "clear"
    /\ \/ Confirmed("transaction", Empty) /\ End("published", "yes")
       \/ Refused /\ End("failed", "unsaid")
       \/ Unresolved("transaction", Empty, "yes")
-----------------------------------------------------------------------------
(* Compensation.  _restore_after_failed_commit goes on to the pointers     *)
(* after a refused restore, and gives up on the first unresolved one.      *)
UndoFirstPointer ==
    /\ pc = "undo_first_pointer"
    /\ \/ Confirmed("current", PointerValue(job.current)) /\ Continue("abort", job)
       \/ Refused /\ End("incomplete", "unsaid")
       \/ Unresolved("current", PointerValue(job.current), "no")

Undo(at, key, value, step, changed) ==
    /\ pc = at
    /\ \/ Confirmed(key, value) /\ Continue(step, job)
       \/ /\ Refused
          /\ Continue(step, [job EXCEPT !.errors = @ \union {key}])
       \/ Unresolved(key, value, changed)

ChangedAfterUndo == IF "production" \in job.errors THEN "unknown" ELSE "no"

UndoProduction ==
    Undo("undo_production", "production", job.production, "undo_current", "unknown")

UndoCurrent ==
    Undo("undo_current", "current", job.txn.from, "undo_previous", ChangedAfterUndo)

\* Mutant of UndoPrevious: the errors collected before it are forgotten.
UndoPreviousForgettingErrors ==
    LET value == PointerValue(job.previous)
    IN  /\ pc = "undo_previous"
        /\ \/ Confirmed("previous", value) /\ Continue("abort", job)
           \/ Refused /\ End("incomplete", "unsaid")
           \/ Unresolved("previous", value, ChangedAfterUndo)

UndoPrevious ==
    LET value == PointerValue(job.previous)
    IN  /\ pc = "undo_previous"
        /\ \/ /\ Confirmed("previous", value)
              /\ IF job.errors = {} THEN Continue("abort", job)
                                    ELSE End("incomplete", "unsaid")
           \/ Refused /\ End("incomplete", "unsaid")
           \/ Unresolved("previous", value, ChangedAfterUndo)

\* Everything was put back: only now is the intent withdrawn.
Abort ==
    /\ pc = "abort"
    /\ \/ Confirmed("transaction", Empty) /\ End("failed", "unsaid")
       \/ Refused /\ End("failed", "unsaid")
       \/ Unresolved("transaction", Empty, "unknown")
-----------------------------------------------------------------------------
(* The environment.                                                        *)
ReadFailure ==
    pc \in Reading /\ Refused /\ End("failed", "unsaid")

\* The runner stops between two steps; stopping inside a write is the
\* unresolved outcome of that write.
Crash ==
    pc # "idle" /\ Refused /\ End("crashed", "unsaid")

Land(w) ==
    /\ w \in inflight
    /\ Put(w.key, w.value)
    /\ inflight' = inflight \ {w}
    /\ UNCHANGED <<pc, job, report, base, faults>>

Lose(w) ==
    /\ w \in inflight
    /\ inflight' = inflight \ {w}
    /\ UNCHANGED <<store, pc, job, report, base, faults>>

Attempt ==
    \/ ReadIntent \/ RetireCheck \/ Retire
    \/ StageConfig \/ StageManifest
    \/ ReadProduction \/ ReadCurrent \/ ReadPrevious
    \/ Recover \/ RepairPrevious \/ RepairCurrent
    \/ Decide \/ AlignCurrent \/ StageOldConfig \/ StageOldManifest
    \/ WriteIntent \/ FirstPointer \/ Activate \/ CommitPhase
    \/ SwitchPrevious \/ SwitchCurrent
    \/ VerifyPhase \/ Check \/ FinalizePhase \/ Clear
    \/ UndoFirstPointer \/ UndoProduction \/ UndoCurrent \/ UndoPrevious \/ Abort

Settle == \E w \in inflight : Land(w) \/ Lose(w)

Next ==
    \/ \E c \in Contents : Begin(c)
    \/ Attempt
    \/ ReadFailure
    \/ Crash
    \/ Settle

Spec == Init /\ [][Next]_vars

\* A running attempt goes on, in-flight writes are resolved one way or the
\* other, and every candidate kept for recovery is tried again and again.
Fairness ==
    /\ WF_vars(Attempt)
    /\ WF_vars(Settle)
    /\ \A c \in Contents : SF_vars(Begin(c))

FairSpec == Spec /\ Fairness
-----------------------------------------------------------------------------
(* What a correct publisher owes.                                          *)

\* read_previous_release: what a rollback would be given, refused while an
\* intent is pending or when the release cannot be verified.
RollbackTarget ==
    LET id == ParsePointer(previous)
    IN  IF Intent = None /\ id # None /\ Staged(id) THEN id ELSE None

\* What a pending intent promises to move, phases apart; a missing switch, like
\* every missing value, is none of them.
Switches == [from : OptionalId, to : ReleaseIds, saved : OptionalId]

ASSUME SwitchesAssumption == None \notin Switches

\* The switch a pending intent stands for.
PendingSwitch ==
    IF Intent = None
    THEN None
    ELSE [from |-> Intent.from, to |-> Intent.to, saved |-> Intent.previous]

\* Seen through the live identity and the rollback target, the publisher is
\* the two-slot register clients and operators are promised.
Register ==
    INSTANCE ReleaseRegister
        WITH live <- IdOf(production),
             rollback <- RollbackTarget,
             switch <- PendingSwitch

ImplementsRegister == Register!Spec

\* Every release a reader or an operator can be sent to (the two pointers, the
\* three identities of a pending intent, and the writes of those still in
\* flight) has both immutable objects: rollback and recovery never meet a
\* missing release (_ensure_immutable_release before any reference is written),
\* and no plan of the retention, however old, deletes one of them.
NamedBy(w) ==
    CASE w.key \in {"current", "previous"} -> {w.value} \ {Empty}
      [] w.key = "transaction" /\ w.value # Empty -> ReferencedReleaseIds(w.value)
      [] OTHER -> {}

References ==
    ({ParsePointer(current), ParsePointer(previous)} \ {None})
    \union (IF Intent = None THEN {} ELSE ReferencedReleaseIds(Intent))
    \union UNION {NamedBy(w) : w \in inflight}

ReferencesAreStaged == \A id \in References : Staged(id)

\* The live bytes are always recoverable from an immutable object, except the
\* one configuration that was live before releases were introduced.
LiveIsAccountedFor ==
    \/ production = None
    \/ Staged(IdOf(production))
    \/ Intent = None /\ ParsePointer(current) = None

\* The audit also wants the objects the pointers name.
AuditReleaseState ==
    LET status == InspectReleaseState(IdOf(production), ParsePointer(current),
                                      ParsePointer(previous), Intent)
    IN  IF /\ status = "healthy"
           /\ \E id \in {ParsePointer(current), ParsePointer(previous)} \ {None} : ~Staged(id)
        THEN "inconsistent"
        ELSE status

\* Once an attempt is over and nothing is in flight, the audit explains what it
\* finds: a namespace that is healthy or has no release yet, the untouched
\* pre-release one, or an intent that says how far its switch had come.
QuiescentIsHealthy ==
    pc = "idle" /\ inflight = {} =>
        \/ AuditReleaseState \in
              IF Intent = None THEN {"first_release", "healthy"}
                               ELSE {"recoverable_interrupted_commit", "ambiguous"}
        \/ ParsePointer(current) = None /\ ParsePointer(previous) = None

\* A write that may still change what clients download.
ProductionInFlight ==
    \E w \in inflight : w.key = "production" /\ w.value # production

\* What CommitUnknownError and the success result say about production_changed
\* is true of the store when the attempt ends, and stays true whatever becomes
\* of the writes it left in flight (attempts that start with none in flight).
ReportIsTruthful ==
    pc = "idle" =>
        /\ report.changed = "no" => production = base /\ ~ProductionInFlight
        /\ report.changed = "yes" =>
               production = report.candidate /\ ~ProductionInFlight

\* An attempt that ends "published" leaves exactly the switch it set out to
\* make: the candidate live, both pointers moved, no intent and no late write
\* (attempts that start with none in flight).
PublishedIsComplete ==
    pc = "idle" /\ report.status = "published" =>
        /\ production = report.candidate
        /\ ParsePointer(current) = IdOf(production)
        /\ ParsePointer(previous) # IdOf(production)
        /\ Intent = None /\ inflight = {}

\* docs/production-maturity.md:26: "A failed transaction must either leave the
\* previous client-visible production bytes intact or report incomplete
\* compensation explicitly."  Stated of attempts that had previous bytes, end in
\* a definite failure and leave nothing in flight; incomplete compensation and
\* unknown outcomes are reported under other names.
FailureRestoresOrReports ==
    pc = "idle" /\ inflight = {} /\ report.status = "failed" /\ base # None
        => production = base

\* While an intent stays pending its identities are fixed and its phase never
\* goes back, through every crash, recovery and compensation.
IntentIsMonotonic ==
    [][Intent # None /\ Intent' # None =>
          /\ Intent' = [Intent EXCEPT !.phase = Intent'.phase]
          /\ PhaseReached(Intent', Intent.phase)]_vars

\* An interrupted release whose activation is visible and undisturbed is
\* eventually finished by retrying the same candidate.
InterruptedReleaseIsFinished ==
    (Intent # None /\ IdOf(production) = Intent.to /\ inflight = {} /\ pc = "idle")
        ~> (Intent = None)
=============================================================================
