--------------------------- MODULE ReleaseSettled ---------------------------
(***************************************************************************)
(* The invariant of the publisher when attempts start with no write in     *)
(* flight, behind QuiescentIsHealthy, ReportIsTruthful, PublishedIsComplete,*)
(* IntentIsMonotonic and ImplementsRegister; proved in                     *)
(* ReleaseBundleProofs.                                                    *)
(*                                                                         *)
(* The argument: an attempt that is under way has the keys to itself.  The *)
(* only writes in flight are repetitions of values that are there already, *)
(* left by the compensation, so each step knows what the keys hold.  When  *)
(* an attempt ends, at most one write may still change anything, and       *)
(* whatever becomes of it the keys tell how far the switch had come.       *)
(***************************************************************************)
EXTENDS ReleaseBundleInvariant

Live == IdOf(production)
Current == ParsePointer(current)
Previous == ParsePointer(previous)

\* A namespace without an intent: no release named yet, or a complete one live.
Ready ==
    \/ Current = None /\ Previous = None
    \/ Live # None /\ Current = Live /\ Previous # Current

\* A switch in progress: each key holds what it held before or what it is to
\* hold, and the rollback target the switch saved is not the release it leaves.
Switching ==
    /\ Live \in {Intent.from, Intent.to}
    /\ Current \in {None, Intent.from, Intent.to}
    /\ Previous \in {Intent.previous, Intent.from}
    /\ Intent.from # None => Intent.previous # Intent.from

Shape == IF Intent = None THEN Ready ELSE Switching

\* The intent may be withdrawn: its switch is complete, or entirely undone.
Closable ==
    \/ Live = Intent.to /\ Current = Intent.to /\ Previous = Intent.from
    \/ Live = Intent.from /\ Current = Intent.from /\ Previous = Intent.previous

\* The intent may be opened.
Openable(txn) == txn = NewTransaction(Live, txn.to, Previous) /\ txn.to # Live

-----------------------------------------------------------------------------
(* Writes in flight.                                                       *)
Repeats(w) == Holds(w.key, w.value)

\* What an unresolved write of an attempt that ended may still do.
LateProduction(w) ==
    /\ w.key = "production" /\ Intent # None
    /\ IdOf(w.value) \in {Intent.from, Intent.to}
    /\ report.changed \notin {"yes", "no"}

LateCurrent(w) ==
    /\ w.key = "current"
    /\ IF Intent = None
       THEN Live # None /\ Current = None /\ Previous = None /\ w.value = Live
       ELSE w.value \in {PointerValue(Intent.from), Intent.to}

LatePrevious(w) ==
    /\ w.key = "previous" /\ Intent # None
    /\ w.value \in {PointerValue(Intent.from), PointerValue(Intent.previous)}

LateTransaction(w) ==
    /\ w.key = "transaction"
    /\ IF w.value = Empty THEN Intent # None /\ Closable
       ELSE IF Intent = None THEN Openable(w.value)
       ELSE w.value = Advance(Intent, w.value.phase) /\ PhaseReached(w.value, Intent.phase)

Late(w) ==
    \/ w.key \in {"config", "manifest"}
    \/ LateProduction(w) \/ LateCurrent(w) \/ LatePrevious(w) \/ LateTransaction(w)

\* Steps after a compensating write that may have repeated what was there.
Repeatable ==
    [undo_current |-> {"production"}, undo_previous |-> {"production", "current"},
     abort |-> {"production", "current", "previous"}]

InflightInv ==
    /\ \A v, w \in inflight : v.key = w.key => v = w
    /\ \A v, w \in inflight : ~Repeats(v) /\ ~Repeats(w) => v = w
    /\ pc = "idle" => \A w \in inflight : Repeats(w) \/ Late(w)
    /\ pc # "idle" =>
         \A w \in inflight :
             /\ Repeats(w)
             /\ pc \in DOMAIN Repeatable /\ w.key \in Repeatable[pc]

-----------------------------------------------------------------------------
(* The running attempt, step by step.                                      *)

\* Steps before a switch, and those at which it has learnt which intent there is.
Informed == {"stage_config", "stage_manifest", "read_production", "read_current",
             "read_previous", "reconcile", "align_current", "stage_old_config",
             "stage_old_manifest"}
Before == Informed \union {"read_intent", "retire_check", "retire", "intent"}

BeforeInv ==
    /\ pc \in Before => production = base /\ Shape
    /\ pc \in {"retire_check", "retire"} =>
           Intent # None /\ job.txn = Intent /\ Intent.to # IdOf(job.candidate)
    /\ pc = "retire" => Live = Intent.to /\ Current = Intent.to /\ Previous = Intent.from
    /\ pc \in Informed =>
           job.txn = Intent /\ (Intent # None => Intent.to = IdOf(job.candidate))
    /\ pc \in Informed \ {"stage_config", "stage_manifest", "read_production"} =>
           job.production = production
    /\ pc \in {"read_previous", "reconcile", "stage_old_config", "stage_old_manifest", "intent"}
           => job.current = Current
    /\ pc \in {"reconcile", "stage_old_config", "stage_old_manifest", "intent"}
           => job.previous = Previous
    /\ pc \in {"align_current", "stage_old_config", "stage_old_manifest", "intent"} => Intent = None
    /\ pc = "align_current" => production = job.candidate /\ Current = None /\ Previous = None
    /\ pc \in {"stage_old_config", "stage_old_manifest"} => production # job.candidate
    /\ pc = "intent" =>
           /\ job.production = production
           /\ job.txn = NewTransaction(Live, IdOf(job.candidate), Previous)
           /\ Live # IdOf(job.candidate)

\* Steps at which an intent stands for this very attempt.
Advancing == {"commit", "previous", "current", "verify", "check", "finalize", "clear",
              "repair_previous", "repair_current"}
Undoing == {"undo_production", "undo_current", "undo_previous"}
Switch == Advancing \union Undoing
              \union {"first_pointer", "activate", "undo_first_pointer", "abort"}

\* Steps of a switch this attempt opened: what it would restore is what was there.
Opened == Undoing \union {"first_pointer", "activate", "undo_first_pointer", "commit",
                          "previous", "current"}

SwitchInv ==
    /\ pc \in Switch =>
           Intent # None /\ job.txn = Intent /\ Intent.to = IdOf(job.candidate) /\ Switching
    /\ pc \in Opened =>
           job.production = base /\ IdOf(base) = Intent.from /\ job.previous = Intent.previous
    /\ pc \in Opened /\ Intent.from = None => job.current = None
    /\ pc = "first_pointer" =>
           production = base /\ Intent.from = None /\ Current = None
    /\ pc = "activate" => production = base /\ Previous = Intent.previous
    /\ pc = "undo_first_pointer" => production = base /\ Intent.from = None /\ Current = Intent.to
    /\ pc \in Advancing => production = job.candidate
    /\ pc \in {"activate", "commit"} =>
           IF Intent.from = None THEN Current = Intent.to ELSE Current # Intent.to
    /\ pc = "commit" => Previous = Intent.previous
    /\ pc = "previous" => Intent.from # None /\ Previous = Intent.previous /\ Current # Intent.to
    /\ pc = "current" => Intent.from # None /\ Previous = Intent.from /\ Current # Intent.to
    /\ pc \in {"verify", "check", "finalize", "clear"} =>
           Current = Intent.to /\ Previous = Intent.from
    /\ pc = "repair_previous" => job.previous = Previous
    /\ pc \in {"repair_previous", "repair_current"} => job.current = Current
    /\ pc = "repair_current" => Previous = Intent.from

UndoInv ==
    /\ pc \in Undoing =>
           /\ Intent.from # None /\ Current # Intent.to
           /\ production \in {base, job.candidate}
    /\ pc \notin {"undo_current", "undo_previous"} => job.errors = {}
    /\ pc = "undo_current" => "current" \notin job.errors
    /\ pc \in {"undo_current", "undo_previous"} /\ "production" \notin job.errors => production = base
    /\ pc = "undo_previous" /\ "current" \notin job.errors => Current = Intent.from
    /\ pc = "abort" =>
           production = base /\ Live = Intent.from /\ Current = Intent.from
           /\ Previous = Intent.previous

-----------------------------------------------------------------------------
(* Between attempts.                                                       *)
IdleInv ==
    pc = "idle" =>
        /\ Shape
        /\ report.changed = "no" => production = base
        /\ report.changed = "yes" => production = report.candidate
        /\ report.status = "published" =>
             /\ production = report.candidate /\ production # None
             /\ Intent = None /\ Current = Live /\ Previous # Live /\ inflight = {}

SettledInv == InflightInv /\ BeforeInv /\ SwitchInv /\ UndoInv /\ IdleInv
=============================================================================
