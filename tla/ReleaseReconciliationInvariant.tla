-------------------- MODULE ReleaseReconciliationInvariant --------------------
(***************************************************************************)
(* The inductive invariant behind ConclusionsAreFinal, for attempts that   *)
(* start with nothing in flight (Settled); proved in                       *)
(* ReleaseOperationsProofs.                                                *)
(*                                                                         *)
(* The argument: a switch moves the previous pointer before the current    *)
(* one and undoes nothing once the current one has moved, so production    *)
(* and the current pointer found at the candidate at one instant stay      *)
(* there.  The reader never sees that instant: it reads the keys one after *)
(* the other, any of them perhaps as before the attempt; but what the keys *)
(* held then says which of the readings can be stale.                      *)
(***************************************************************************)
EXTENDS ReleaseReconciliation, ReleaseSettled

\* Once the current pointer names the target of an update, everything before it
\* in the order of the switch is in place.
PointersInOrder ==
    Intent # None /\ Intent.from # None /\ Current = Intent.to
        => Live = Intent.to /\ Previous = Intent.from

\* Nor can a write still in flight put them out of order.
LatePointersInOrder ==
    pc = "idle" /\ Intent # None =>
        \A w \in inflight : ~Repeats(w) =>
            /\ w.key = "production" /\ Intent.from # None => Current # Intent.to
            /\ w.key = "previous" => Current # Intent.to
            /\ w.key = "current" /\ w.value = Intent.to /\ Intent.from # None
                   => Live = Intent.to /\ Previous = Intent.from
            /\ w.key = "current" /\ w.value # Intent.to => {Live, Current} # {Intent.to}

\* An attempt whose outcome is unknown leaves an intent of its own, or failed to
\* retire one that was complete.
Asked == pc = "idle" /\ report.status = "unknown"
Candidate == report.candidate

IntentIsOurs ==
    Asked =>
        /\ Candidate \in Contents
        /\ Intent # None /\ Intent.to # IdOf(Candidate) =>
               /\ Live = Intent.to
               /\ \A w \in inflight : ~Repeats(w) => w = Write("transaction", Empty)
        /\ \A w \in inflight : w.key = "transaction" /\ w.value # Empty
               => w.value.to = IdOf(Candidate)

-----------------------------------------------------------------------------
(* What the keys held when the attempt started.                            *)
Found == ParsePointer(snapshot.current)

\* A candidate that was live already stays so, and its pointer too; one that
\* was not, while the current pointer named it, is never made live.
SinceStart(candidate) ==
    /\ base = candidate =>
           /\ production = candidate
           /\ \A w \in inflight : w.key = "production" => w.value = candidate
           /\ Found = IdOf(candidate) =>
                  /\ Current = IdOf(candidate)
                  /\ \A w \in inflight : w.key = "current" => w.value = IdOf(candidate)
    /\ base # candidate /\ Found = IdOf(candidate) =>
           /\ production # candidate
           /\ \A w \in inflight : w.key # "production"

\* Steps before the attempt has taken the store for one it can switch.
Undecided == (Before \ {"align_current", "stage_old_config", "stage_old_manifest", "intent"})

SnapshotInv ==
    /\ snapshot.production = base
    /\ pc # "idle" =>
           /\ SinceStart(job.candidate)
           /\ base # job.candidate /\ Found = IdOf(job.candidate)
                  => pc \in Undecided /\ Current = IdOf(job.candidate)
    /\ Asked => SinceStart(Candidate)

-----------------------------------------------------------------------------
(* The reader.                                                             *)

\* The candidate is live with its pointer: for good, as LiveIsFinal derives.
Done == production = Candidate /\ Current = IdOf(Candidate)

\* It was seen live, and has been put back since.
PutBack ==
    /\ base # Candidate /\ Found # IdOf(Candidate)
    /\ Intent # None /\ Current # IdOf(Candidate)
    /\ \A w \in inflight : Repeats(w)

\* The bytes of before were seen live, and have been replaced since.
Replaced == Intent # None /\ \A w \in inflight : Repeats(w)

\* The bytes of before are live, and no late write changes that.
Untaken ==
    /\ production = base
    /\ \A w \in inflight : w.key = "production" => w.value = base

ReaderInv ==
    /\ reading \in {"idle", "classify"} \union DOMAIN Order
    /\ fresh \in BOOLEAN /\ DOMAIN view = DOMAIN Order
    /\ reading # "idle" \/ verdict # None =>
           Asked /\ question = [candidate |-> Candidate, previous |-> base]
    /\ reading = "current" /\ view.production = Candidate => production = Candidate \/ PutBack
    /\ reading \in {"previous", "transaction", "classify"} /\ CandidateLive(view, Candidate) => Done
    /\ reading \in {"current", "previous", "transaction"} /\ fresh /\ view.production = base
           => production = base \/ Replaced
    /\ /\ reading = "classify" /\ fresh /\ view.production = base
       /\ ParseTransaction(view.transaction) = None \/ base = Candidate
       => Untaken
    /\ Concluded("committed") => Done
    /\ Concluded("not_committed") => Untaken

ReconciliationInv ==
    /\ IInv /\ SettledInv
    /\ PointersInOrder /\ LatePointersInOrder /\ IntentIsOurs
    /\ SnapshotInv /\ ReaderInv
=============================================================================
