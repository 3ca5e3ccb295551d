--------------------- MODULE ReleaseRetentionInvariant ---------------------
(***************************************************************************)
(* The inductive invariant behind the safety of applying a retention plan, *)
(* for attempts and applications that start with nothing in flight         *)
(* (Settled); proved in ReleaseOperationsProofs.                           *)
(*                                                                         *)
(* The argument: while a plan is applied, and while one of its deletions   *)
(* may still take effect, nobody writes the store, so that what the plan   *)
(* found unprotected stays unprotected and in the journal; only what has   *)
(* lost both objects is forgotten.                                         *)
(***************************************************************************)
EXTENDS ReleaseRetention, ReleaseBundleInvariant

\* Releases the application, or a late deletion, may still take objects from.
Victims == doomed \union ({victim} \ {None}) \union {d.id : d \in deleting}

RetentionTypeOK ==
    /\ journal \in [ReleaseIds -> Nat \union {None}]
    /\ clock \in Nat
    /\ owed \in OptionalId
    /\ rpc \in {"idle", "recheck", "config", "manifest", "journal"}
    /\ doomed \in SUBSET ReleaseIds /\ expired \in SUBSET ReleaseIds
    /\ victim \in OptionalId
    /\ deleting \in SUBSET [key : {"config", "manifest"}, id : ReleaseIds]

\* No two of an attempt, an application and a late deletion overlap, and an
\* attempt that owes a record is over.
Exclusive ==
    /\ pc = "idle" => job = NoJob
    /\ rpc # "idle" \/ deleting # {} => pc = "idle" /\ owed = None /\ inflight = {}
    /\ deleting # {} => rpc = "idle"
    /\ owed # None => pc = "idle" /\ owed \in Held

\* The application deletes what is recorded and unprotected, one release at a
\* time, configuration first.
ApplicationInv ==
    /\ Victims \subseteq Journaled \ Protected
    /\ doomed \subseteq expired /\ expired \subseteq Journaled
    /\ \A id \in expired \ doomed : config[id] = None /\ manifest[id] = None
    /\ rpc = "idle" => doomed = {} /\ expired = {} /\ victim = None
    /\ rpc = "recheck" => victim = None
    /\ rpc \in {"config", "manifest"} => victim \in doomed
    /\ rpc = "manifest" => config[victim] = None
    /\ rpc = "journal" => doomed = {} /\ victim = None

\* A manifest without its configuration is the trace of a deletion.
JournalInv ==
    /\ \A id \in ReleaseIds : manifest[id] # None /\ config[id] = None => id \in Journaled
    /\ \A w \in inflight : w.key = "manifest" => config[ReleaseIdOf[w.value]] # None
    /\ LiveHeld \/ IdOf(production) \notin Journaled

\* What PartialDeletionIsRemembered, and the staging of every reference, need.
RetentionInv == IInv /\ RetentionTypeOK /\ Exclusive /\ ApplicationInv /\ JournalInv
=============================================================================
