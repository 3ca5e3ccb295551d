-------------------------- MODULE ReleaseRetention --------------------------
(***************************************************************************)
(* Deleting immutable releases nothing refers to any more: the best-effort *)
(* journal of published releases (release_journal.py), the read-only plan  *)
(* an operator reviews, and its application (production_application.py),   *)
(* composed with the publisher of ReleaseBundle.                           *)
(*                                                                         *)
(* Publishing, rolling back and applying a plan are workflows of the same  *)
(* concurrency group, so they never overlap; planning only reads and may   *)
(* happen at any time, long before the plan is applied.                    *)
(***************************************************************************)
EXTENDS ReleaseBundle, FiniteSets

CONSTANTS
    Window,         \* retention window, in ticks of the clock
    MaxRecords,     \* _MAX_RECORDS, the capacity of the journal
    MaxClock        \* bound on the clock

ASSUME RetentionAssumption ==
    Window \in Nat /\ MaxRecords \in Nat /\ MaxClock \in Nat

VARIABLES
    journal,    \* first time each release was recorded, or None
    clock,
    owed,       \* release whose publication is not journaled yet, or None
    reviewed,   \* the plan an operator has reviewed, or None
    rpc,        \* next step of the running application
    doomed,     \* releases it has still to delete
    victim,     \* the one being deleted
    expired,    \* all the releases of its plan
    deleting    \* unresolved deletions that may still take effect

retentionVars == <<journal, clock, owed, reviewed, rpc, doomed, victim,
                   expired, deleting>>
allVars == <<vars, retentionVars>>
-----------------------------------------------------------------------------
Journaled == {id \in ReleaseIds : journal[id] # None}

RetentionInit ==
    /\ Init
    /\ journal = [id \in ReleaseIds |-> None]
    /\ clock = 0 /\ owed = None /\ reviewed = None
    /\ rpc = "idle" /\ doomed = {} /\ victim = None /\ expired = {}
    /\ deleting = {}

Tick ==
    /\ clock < MaxClock /\ clock' = clock + 1
    /\ UNCHANGED <<vars, journal, owed, reviewed, rpc, doomed, victim,
                   expired, deleting>>
-----------------------------------------------------------------------------
(* The publisher: an attempt that ends well owes the journal a record.     *)
Publisher ==
    /\ rpc = "idle" /\ owed = None
    /\ (pc = "idle" /\ Settled) => deleting = {}
    /\ \/ \E c \in Contents : Begin(c)
       \/ Attempt \/ ReadFailure \/ Crash
    /\ owed' = IF pc # "idle" /\ pc' = "idle"
                  /\ report'.status \in {"published", "unchanged"}
               THEN IdOf(job.candidate) ELSE None
    /\ UNCHANGED <<journal, clock, reviewed, rpc, doomed, victim, expired, deleting>>

LateWrite ==
    /\ \E w \in inflight : Land(w) \/ Lose(w)
    /\ UNCHANGED retentionVars

\* record_release_observation keeps the first time a release was seen and
\* refuses a new record at capacity; the release stays published either way.
RecordRelease ==
    /\ owed # None /\ owed' = None
    /\ \/ /\ owed \in Journaled \/ Cardinality(Journaled) < MaxRecords
          /\ journal' = [journal EXCEPT ![owed] = IF @ = None THEN clock ELSE @]
          /\ UNCHANGED vars
       \/ /\ owed \notin Journaled /\ Cardinality(Journaled) >= MaxRecords
          /\ UNCHANGED <<journal, vars>>
       \/ /\ Refused
          /\ UNCHANGED <<journal, pc, job, report, base>>
    /\ UNCHANGED <<clock, reviewed, rpc, doomed, victim, expired, deleting>>
-----------------------------------------------------------------------------
(* plan_release_retention.                                                 *)
\* Mutant of Protected: the previous pointer, the rollback target, is left out.
ProtectedWithoutPrevious ==
    ({ParsePointer(current), IdOf(production)} \ {None})
    \union (IF Intent = None THEN {} ELSE ReferencedReleaseIds(Intent))

Protected ==
    ({ParsePointer(current), ParsePointer(previous), IdOf(production)} \ {None})
    \union (IF Intent = None THEN {} ELSE ReferencedReleaseIds(Intent))

Candidates ==
    {id \in Journaled \ Protected : journal[id] < clock - Window}

FreshPlan == [protected |-> Protected, candidates |-> Candidates]

Plan ==
    /\ Candidates # {}
    /\ reviewed' = FreshPlan
    /\ UNCHANGED <<vars, journal, clock, owed, rpc, doomed, victim, expired, deleting>>

\* plan_release_inventory, over one listing of the namespace.
PlanReleaseInventory(observed, complete) ==
    [unrecorded             |-> observed \ Journaled,
     unrecorded_unprotected |-> (observed \ Journaled) \ Protected,
     incomplete             |-> observed \ complete,
     unlisted               |-> Journaled \ observed]

\* audit_production_release_inventory.
AuditInventory ==
    PlanReleaseInventory({id \in ReleaseIds : config[id] # None \/ manifest[id] # None},
                         {id \in ReleaseIds : config[id] # None /\ manifest[id] # None})

(* apply_production_release_retention.                                     *)
Revalidate ==
    /\ rpc = "idle" /\ pc = "idle" /\ owed = None /\ reviewed # None
    /\ Settled => inflight = {} /\ deleting = {}
    /\ IF FreshPlan = reviewed
       THEN /\ rpc' = "recheck"
            /\ doomed' = Candidates /\ expired' = Candidates
       ELSE UNCHANGED <<rpc, doomed, expired>>
    /\ reviewed' = None
    /\ UNCHANGED <<vars, journal, clock, owed, victim, deleting>>

Stop == rpc' = "idle" /\ doomed' = {} /\ expired' = {} /\ victim' = None

\* The intent is read again before each deletion.
Recheck ==
    /\ rpc = "recheck" /\ doomed # {}
    /\ \E id \in doomed :
          IF Intent # None /\ id \in ReferencedReleaseIds(Intent)
          THEN Stop
          ELSE rpc' = "config" /\ victim' = id /\ UNCHANGED <<doomed, expired>>
    /\ UNCHANGED <<vars, journal, clock, owed, reviewed, deleting>>

\* Mutant of DeleteFails: a failed deletion is swallowed.
DeleteFailureIgnored(key) ==
    /\ Refused /\ UNCHANGED <<pc, job, report, base>>
    /\ rpc' = "journal" /\ UNCHANGED <<doomed, victim, expired, deleting>>

\* A refused or unresolved DELETE stops the application; nothing is read back.
DeleteFails(key) ==
    /\ Refused /\ UNCHANGED <<pc, job, report, base>>
    /\ Stop
    /\ deleting' \in {deleting, deleting \union {[key |-> key, id |-> victim]}}

DeleteConfig ==
    /\ rpc = "config"
    /\ \/ /\ config' = [config EXCEPT ![victim] = None]
          /\ rpc' = "manifest"
          /\ UNCHANGED <<production, current, previous, intent, manifest, inflight,
                         pc, job, report, base, faults, doomed, victim, expired,
                         deleting>>
       \/ DeleteFails("config")
    /\ UNCHANGED <<journal, clock, owed, reviewed>>

DeleteManifest ==
    /\ rpc = "manifest"
    /\ \/ /\ manifest' = [manifest EXCEPT ![victim] = None]
          /\ doomed' = doomed \ {victim} /\ victim' = None
          /\ rpc' = IF doomed = {victim} THEN "journal" ELSE "recheck"
          /\ UNCHANGED <<production, current, previous, intent, config, inflight,
                         pc, job, report, base, faults, expired, deleting>>
       \/ DeleteFails("manifest")
    /\ UNCHANGED <<journal, clock, owed, reviewed>>

\* Only a complete application forgets its releases.
ForgetReleases ==
    /\ rpc = "journal" /\ Stop
    /\ \/ /\ journal' = [id \in ReleaseIds |->
                            IF id \in expired THEN None ELSE journal[id]]
          /\ UNCHANGED vars
       \/ Refused /\ UNCHANGED <<journal, pc, job, report, base>>
    /\ UNCHANGED <<clock, owed, reviewed, deleting>>

StopApplying ==
    /\ rpc # "idle" /\ Stop
    /\ Refused /\ UNCHANGED <<pc, job, report, base>>
    /\ UNCHANGED <<journal, clock, owed, reviewed, deleting>>

LateDelete ==
    \E d \in deleting :
        /\ deleting' = deleting \ {d}
        /\ \/ UNCHANGED <<config, manifest>>
           \/ d.key = "config" /\ config' = [config EXCEPT ![d.id] = None]
              /\ UNCHANGED manifest
           \/ d.key = "manifest" /\ manifest' = [manifest EXCEPT ![d.id] = None]
              /\ UNCHANGED config
        /\ UNCHANGED <<production, current, previous, intent, inflight, pc, job,
                       report, base, faults, journal, clock, owed, reviewed, rpc,
                       doomed, victim, expired>>

RetentionNext ==
    \/ Tick \/ Publisher \/ LateWrite \/ RecordRelease
    \/ Plan \/ Revalidate \/ Recheck \/ DeleteConfig \/ DeleteManifest
    \/ ForgetReleases \/ StopApplying \/ LateDelete

RetentionSpec == RetentionInit /\ [][RetentionNext]_allVars
-----------------------------------------------------------------------------
\* A release the application left half deleted, or still may delete, is still
\* in the journal, so that the next plan proposes it again: what the inventory
\* calls unrecorded and incomplete is a staging that never wrote its manifest,
\* and nothing recorded is both incomplete and protected.
PartialDeletionIsRemembered ==
    LET inventory == AuditInventory
    IN  /\ \A id \in inventory.incomplete \cap inventory.unrecorded : config[id] # None
        /\ inventory.incomplete \cap Journaled \cap Protected = {}

=============================================================================
