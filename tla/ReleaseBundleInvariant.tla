----------------------- MODULE ReleaseBundleInvariant -----------------------
(***************************************************************************)
(* The inductive invariant behind ReferencesAreStaged and LiveIsAccounted- *)
(* For, proved for the publisher on its own in ReleaseBundleProofs.        *)
(*                                                                         *)
(* The argument: nothing in the publisher deletes an immutable object, so  *)
(* the set Held of fully staged releases only grows.  StoreInv says that   *)
(* everything the store or a late write names is held; JobInv says which   *)
(* releases the running attempt is about to name, and that they are held   *)
(* by then.                                                                *)
(***************************************************************************)
EXTENDS ReleaseBundle

Held == {id \in ReleaseIds : Staged(id)}

\* An object is stored under the identity of its own bytes.
Addressed(objects) ==
    \A id \in ReleaseIds : objects[id] # None => ReleaseIdOf[objects[id]] = id

StoreTypeOK ==
    /\ production \in OptionalContent
    /\ current \in Pointers /\ previous \in Pointers
    /\ intent \in StoredDocuments \union {None, Empty}
    /\ config \in [ReleaseIds -> OptionalContent]
    /\ manifest \in [ReleaseIds -> OptionalContent]
    /\ inflight \in SUBSET Writes
    /\ faults \in 0 .. MaxFaults

StoreInv ==
    /\ StoreTypeOK
    /\ Addressed(config) /\ Addressed(manifest)
    /\ References \subseteq Held

\* Steps taken once the candidate is staged.
Staging == {"idle", "read_intent", "retire_check", "retire", "stage_config",
            "stage_manifest"}
AfterStaging == (Reading \union Writing) \ Staging

\* Steps that read or write the transaction of the attempt.
TxnSteps == {"retire_check", "retire", "intent", "first_pointer", "activate",
             "undo_first_pointer", "commit", "previous", "current", "verify",
             "check", "finalize", "clear", "repair_previous", "repair_current",
             "undo_production", "undo_current", "undo_previous", "abort"}

\* Steps of a switch this attempt opened itself.
FreshSteps == {"intent", "first_pointer", "activate", "undo_first_pointer",
               "commit", "previous", "current", "undo_production",
               "undo_current", "undo_previous"}

\* Steps that presuppose a predecessor.
UpdateSteps == {"stage_old_config", "stage_old_manifest", "previous", "current",
                "undo_production", "undo_current", "undo_previous"}

AttemptTypeOK ==
    /\ pc \in {"idle"} \union Reading \union Writing
    /\ job \in Jobs
    /\ report \in Reports
    /\ base \in OptionalContent

JobInv ==
    /\ AttemptTypeOK
    /\ pc # "idle" => job.candidate \in Contents
    /\ job.txn # None => ReferencedReleaseIds(job.txn) \subseteq Held
    /\ {job.current, job.previous} \ {None} \subseteq Held
    /\ pc = "stage_manifest" => config[IdOf(job.candidate)] = job.candidate
    /\ pc \in AfterStaging => IdOf(job.candidate) \in Held
    /\ pc \in UpdateSteps => job.production \in Contents
    /\ pc = "stage_old_manifest" => config[IdOf(job.production)] = job.production
    /\ pc \in TxnSteps => job.txn \in Transactions
    /\ pc \in FreshSteps => job.txn.from = IdOf(job.production)
    /\ pc = "align_current" => job.production = job.candidate
    /\ pc \in {"stage_old_config", "stage_old_manifest"}
           => job.production # job.candidate

\* The live bytes are held, or this is still the namespace of before the first
\* release: nothing names a release, no late write will, and the running
\* attempt has not come to writing its intent.
Early == Staging \union {"read_production", "read_current", "read_previous",
            "reconcile", "align_current", "stage_old_config", "stage_old_manifest"}

LiveHeld == production # None => IdOf(production) \in Held

PreRelease ==
    /\ Intent = None /\ ParsePointer(current) = None
    /\ \A w \in inflight : w.key \in {"config", "manifest"}
    /\ pc \in Early /\ job.txn = None
    /\ pc \in Early \ (Staging \union {"read_production"})
           => job.production = production

LiveInv ==
    /\ LiveHeld \/ PreRelease
    /\ \A w \in inflight : w.key = "production" => IdOf(w.value) \in Held

\* Every reference is staged and the live bytes are accounted for, in the form
\* each step of the publisher preserves.
IInv == StoreInv /\ JobInv /\ LiveInv
=============================================================================
