---------------------------- MODULE MCOperations ----------------------------
(* TLC instance of what happens around a release: applying a retention plan, *)
(* reconciling an attempt whose outcome is unknown, attempts that start with *)
(* writes of earlier ones still in flight, and one verified write seen up    *)
(* close. A behaviour is a behaviour of the one chosen at its start.         *)
EXTENDS ReleaseRetention, ReleaseReconciliation, VerifiedWrite, TLC

CONSTANTS c1, c2, c3, i1, i2, i3,
          RetentionFaults       \* faults while a plan is applied: fewer than MaxFaults

VARIABLE lane

ThreeContents == {c1, c2, c3}
ThreeIds == {i1, i2, i3}
ThreeIdOf == c1 :> i1 @@ c2 :> i2 @@ c3 :> i3

Late == INSTANCE ReleaseBundle WITH Settled <- FALSE

\* What the chosen operation does not use has one value.
OperationsInit ==
  /\ lane \in {"retention", "reconciliation", "late", "write"}
  /\ IF lane = "late"
     THEN /\ Late!Init /\ production # c3 /\ References \subseteq {i1, i2}
          /\ journal = [id \in ReleaseIds |-> None] /\ clock = 0 /\ owed = None /\ reviewed = None
          /\ rpc = "idle" /\ doomed = {} /\ victim = None /\ expired = {} /\ deleting = {}
     ELSE RetentionInit
  /\ WriteInit
  /\ reading = "idle" /\ view = NoView /\ fresh = FALSE /\ question = NoQuestion /\ verdict = None
  /\ \/ lane \in {"retention", "late"} /\ snapshot = NoView /\ remote = Wanted
     \/ lane = "reconciliation" /\ snapshot = Keys /\ remote = Wanted
     \/ lane = "write" /\ snapshot = NoView /\ production = None

Retain == lane = "retention" /\ RetentionNext /\ faults' <= RetentionFaults /\ UNCHANGED <<lane, readerVars, writeVars>>
Reconcile == lane = "reconciliation" /\ ReconciliationNext /\ UNCHANGED <<lane, retentionVars, writeVars>>
\* Two of the contents are enough for it.
Publish == lane = "late" /\ Late!Next /\ job'.candidate # c3 /\ UNCHANGED <<lane, retentionVars, readerVars, writeVars>>
WriteVerified == lane = "write" /\ WriteNext /\ UNCHANGED <<lane, allVars, readerVars>>

OperationsNext == Retain \/ Reconcile \/ Publish \/ WriteVerified
OperationsSpec == OperationsInit /\ [][OperationsNext]_<<lane, allVars, readerVars, writeVars>>
=============================================================================
