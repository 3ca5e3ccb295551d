------------------------ MODULE ReleaseBundleProofs ------------------------
(***************************************************************************)
(* Proofs about ReleaseBundle, for any contents and any number of faults.  *)
(* With and without the assumption that attempts are settled: types, and   *)
(* the availability of every release anything refers to. When every        *)
(* attempt starts with no write in flight: what the reports say, what an   *)
(* audit finds between attempts, how an intent moves, and that the         *)
(* publisher implements ReleaseRegister. There each action has one lemma:  *)
(* it preserves SettledInv, and it is a Move, one of the five ways in      *)
(* which a step may change what ReleaseRegister and IntentIsMonotonic see. *)
(***************************************************************************)
EXTENDS ReleaseSettled, TLAPS

\* The same set of writes as Writes, key by key.
Admissible(key, value) ==
    \/ key \in {"production", "config", "manifest"} /\ value \in Contents
    \/ key \in {"current", "previous"} /\ value \in ReleaseIds \union {Empty}
    \/ key = "transaction" /\ value \in Transactions \union {Empty}

LEMMA WriteIsAdmissible ==
    \A w \in Writes : w = Write(w.key, w.value) /\ Admissible(w.key, w.value)
  BY DEF Writes, Write, Admissible

LEMMA AdmissibleIsWrite ==
    ASSUME NEW key, NEW value, Admissible(key, value)
    PROVE  Write(key, value) \in Writes
  BY DEF Writes, Write, Admissible

LEMMA IdOfContent ==
    \A c \in Contents : IdOf(c) \in ReleaseIds /\ IdOf(c) = ReleaseIdOf[c]
                        /\ IdOf(c) # None /\ IdOf(c) # Empty
  BY ContentsAssumption, SentinelsAssumption DEF IdOf

LEMMA ParsedIntent ==
    ASSUME intent \in StoredDocuments \union {None, Empty}
    PROVE  /\ Intent \in Transactions \union {None}
           /\ intent \in {None, Empty} => Intent = None
           /\ intent \in StoredDocuments => Intent # None
           /\ intent \in Transactions => Intent = intent
  BY SentinelsAssumption
  DEF Intent, ParseTransaction, StoredDocuments, Transactions, Documents,
      WellFormed, Phases, LegacyPhase

\* Storing an object under its own identity keeps every release that was held.
LEMMA PutKeepsHeld ==
    ASSUME StoreTypeOK, Addressed(config), Addressed(manifest),
           NEW key, NEW value, Admissible(key, value), Put(key, value)
    PROVE  /\ Addressed(config)' /\ Addressed(manifest)'
           /\ config' \in [ReleaseIds -> OptionalContent]
           /\ manifest' \in [ReleaseIds -> OptionalContent]
           /\ Held \subseteq Held'
           /\ \A id \in ReleaseIds :
                 /\ config[id] # None => config'[id] = config[id]
                 /\ manifest[id] # None => manifest'[id] = manifest[id]
  BY ContentsAssumption
  DEF StoreTypeOK, Addressed, Admissible, Put, Held, Staged, OptionalContent

\* Which references a write can add to those the store had already.
LEMMA PutReferences ==
    ASSUME StoreTypeOK, NEW key, NEW value, Admissible(key, value),
           Put(key, value), inflight' \subseteq inflight \union {Write(key, value)}
    PROVE  References' \subseteq References \union NamedBy(Write(key, value))
<1> DEFINE w == Write(key, value)
<1>1. ({ParsePointer(current), ParsePointer(previous)} \ {None})'
        \subseteq ({ParsePointer(current), ParsePointer(previous)} \ {None})
                    \union NamedBy(w)
  BY SentinelsAssumption
  DEF Put, Admissible, ParsePointer, NamedBy, Write
<1>2. (IF Intent = None THEN {} ELSE ReferencedReleaseIds(Intent))'
        \subseteq (IF Intent = None THEN {} ELSE ReferencedReleaseIds(Intent))
                    \union NamedBy(w)
  <2>1. CASE key = "transaction" /\ value # Empty
    <3>1. intent' = value /\ value \in Transactions
      BY <2>1 DEF Put, Admissible
    <3>2. Intent' = value
      BY <3>1, SentinelsAssumption
      DEF Intent, ParseTransaction, Transactions, StoredDocuments, Documents,
          Phases, LegacyPhase
    <3>3. NamedBy(w) = ReferencedReleaseIds(value)
      BY <2>1 DEF NamedBy, Write
    <3> QED BY <3>2, <3>3
  <2>2. CASE key = "transaction" /\ value = Empty
    BY <2>2 DEF Put, Intent, ParseTransaction
  <2>3. CASE key # "transaction"
    BY <2>3 DEF Put, Intent, ParseTransaction
  <2> QED BY <2>1, <2>2, <2>3
<1>3. UNION {NamedBy(v) : v \in inflight'}
        \subseteq (UNION {NamedBy(v) : v \in inflight}) \union NamedBy(w)
  OBVIOUS
<1> QED BY <1>1, <1>2, <1>3 DEF References

\* The three outcomes of a write keep the store invariant, provided what the
\* write names is held already.
LEMMA ConfirmedKeepsStore ==
    ASSUME StoreInv, NEW key, NEW value, Admissible(key, value),
           NamedBy(Write(key, value)) \subseteq Held, Confirmed(key, value)
    PROVE  StoreInv' /\ Held \subseteq Held'
<1>1. Put(key, value) /\ inflight' \subseteq inflight \union {Write(key, value)}
  BY DEF Confirmed
<1>2. /\ Addressed(config)' /\ Addressed(manifest)'
      /\ config' \in [ReleaseIds -> OptionalContent]
      /\ manifest' \in [ReleaseIds -> OptionalContent]
      /\ Held \subseteq Held'
  BY <1>1, PutKeepsHeld DEF StoreInv
<1>3. References' \subseteq References \union NamedBy(Write(key, value))
  BY <1>1, PutReferences DEF StoreInv
<1>4. Write(key, value) \in Writes
  BY AdmissibleIsWrite
<1>5. /\ production' \in OptionalContent
      /\ current' \in Pointers /\ previous' \in Pointers
      /\ intent' \in StoredDocuments \union {None, Empty}
  BY <1>1 DEF Put, Admissible, StoreInv, StoreTypeOK, OptionalContent, Pointers,
      OptionalId, Transactions
<1>6. faults' \in 0 .. MaxFaults /\ inflight' \in SUBSET Writes
  BY <1>4, BoundsAssumption DEF Confirmed, Fault, StoreInv, StoreTypeOK
<1> QED BY <1>2, <1>3, <1>5, <1>6 DEF StoreInv, StoreTypeOK

LEMMA UnchangedStoreKeepsHeld ==
    ASSUME UNCHANGED store
    PROVE  Held' = Held
  BY DEF store, Held, Staged

LEMMA UnresolvedKeepsStore ==
    ASSUME StoreInv, NEW key, NEW value, NEW changed, Admissible(key, value),
           NamedBy(Write(key, value)) \subseteq Held,
           Unresolved(key, value, changed)
    PROVE  StoreInv' /\ Held' = Held
<1>1. UNCHANGED store /\ Fault
      /\ inflight' = inflight \union {Write(key, value)}
  BY DEF Unresolved
<1>2. Held' = Held
  BY <1>1, UnchangedStoreKeepsHeld
<1>3. References' \subseteq References \union NamedBy(Write(key, value))
  BY <1>1 DEF References, store, Intent
<1>4. Write(key, value) \in Writes
  BY AdmissibleIsWrite
<1> QED BY <1>1, <1>2, <1>3, <1>4, BoundsAssumption
        DEF StoreInv, StoreTypeOK, store, Fault, Addressed

LEMMA RefusedKeepsStore ==
    ASSUME StoreInv, Refused
    PROVE  StoreInv' /\ Held' = Held
  BY UnchangedStoreKeepsHeld, BoundsAssumption
  DEF Refused, Fault, StoreInv, StoreTypeOK, store, Addressed, References, Intent

LEMMA LocalKeepsStore ==
    ASSUME StoreInv, Local
    PROVE  StoreInv' /\ Held' = Held
  BY UnchangedStoreKeepsHeld
  DEF Local, StoreInv, StoreTypeOK, store, Addressed, References, Intent

LEMMA SettleKeepsStore ==
    ASSUME StoreInv, Settle
    PROVE  StoreInv' /\ Held \subseteq Held'
<1> PICK w \in inflight : Land(w) \/ Lose(w)
  BY DEF Settle
<1>1. w \in Writes /\ w = Write(w.key, w.value) /\ Admissible(w.key, w.value)
  BY WriteIsAdmissible DEF StoreInv, StoreTypeOK
<1>2. NamedBy(w) \subseteq Held
  BY DEF StoreInv, References
<1>3. CASE Land(w)
  <2>1. /\ Addressed(config)' /\ Addressed(manifest)'
        /\ config' \in [ReleaseIds -> OptionalContent]
        /\ manifest' \in [ReleaseIds -> OptionalContent]
        /\ Held \subseteq Held'
    BY <1>1, <1>3, PutKeepsHeld DEF StoreInv, Land
  <2>2. References' \subseteq References \union NamedBy(w)
    BY <1>1, <1>3, PutReferences DEF StoreInv, Land
  <2>3. /\ production' \in OptionalContent
        /\ current' \in Pointers /\ previous' \in Pointers
        /\ intent' \in StoredDocuments \union {None, Empty}
    BY <1>1, <1>3 DEF Land, Put, Admissible, StoreInv, StoreTypeOK,
       OptionalContent, Pointers, OptionalId, Transactions
  <2> QED BY <1>2, <1>3, <2>1, <2>2, <2>3 DEF Land, StoreInv, StoreTypeOK
<1>4. CASE Lose(w)
  <2>1. UNCHANGED store /\ inflight' \subseteq inflight /\ faults' = faults
    BY <1>4 DEF Lose
  <2>2. Held' = Held
    BY <2>1, UnchangedStoreKeepsHeld
  <2>3. References' \subseteq References
    BY <2>1 DEF References, store, Intent
  <2> QED BY <2>1, <2>2, <2>3 DEF StoreInv, StoreTypeOK, store, Addressed
<1> QED BY <1>3, <1>4
-----------------------------------------------------------------------------
\* Whatever way an attempt ends, it leaves no local state behind.
LEMMA EndKeepsJob ==
    ASSUME JobInv, NEW status, NEW changed, End(status, changed),
           status \in {"none", "published", "unchanged", "failed", "incomplete",
                       "unknown", "crashed"},
           changed \in {"yes", "no", "unknown", "unsaid"}
    PROVE  JobInv'
<1>1. NoJob \in Jobs
  BY DEF NoJob, Jobs, OptionalContent, OptionalId
<1>2. pc' = "idle" /\ job' = NoJob /\ report' \in Reports /\ base' = base
  BY DEF End, Reports, JobInv, AttemptTypeOK, Jobs
<1> QED
  BY <1>1, <1>2
  DEF JobInv, AttemptTypeOK, NoJob, Staging, AfterStaging, Reading, Writing,
      TxnSteps, FreshSteps, UpdateSteps

\* What JobInv says of the transaction at a step that uses it.
LEMMA TxnFacts ==
    ASSUME JobInv, pc \in TxnSteps
    PROVE  /\ job.txn \in Transactions
           /\ job.txn # None /\ job.txn # Empty
           /\ job.txn.to \in ReleaseIds /\ job.txn.to \in Held
           /\ job.txn.from \in OptionalId /\ job.txn.previous \in OptionalId
           /\ job.txn.from # None => job.txn.from \in Held
           /\ job.txn.previous # None => job.txn.previous \in Held
<1>1. job.txn \in Transactions
  BY DEF JobInv
<1>2. job.txn \in Documents /\ job.txn.to # None
  BY <1>1 DEF Transactions, StoredDocuments, WellFormed
<1>3. job.txn # None /\ job.txn # Empty
  BY <1>2, SentinelsAssumption
<1>4. ReferencedReleaseIds(job.txn) \subseteq Held
  BY <1>3 DEF JobInv
<1> QED
  BY <1>1, <1>2, <1>3, <1>4 DEF Documents, OptionalId, ReferencedReleaseIds

\* A pointer write names the release it points at, and a cleared one nothing.
LEMMA PointerWrite ==
    ASSUME NEW key \in {"current", "previous"}, NEW id \in OptionalId,
           id # None => id \in Held
    PROVE  /\ Admissible(key, PointerValue(id))
           /\ NamedBy(Write(key, PointerValue(id))) \subseteq Held
           /\ id # None => PointerValue(id) = id
  BY SentinelsAssumption DEF Admissible, PointerValue, NamedBy, Write, OptionalId

LEMMA ClearingWrite ==
    /\ Admissible("transaction", Empty)
    /\ NamedBy(Write("transaction", Empty)) = {}
  BY DEF Admissible, NamedBy, Write

\* Contents and immutable objects name no release.
LEMMA ContentWrite ==
    ASSUME NEW key \in {"production", "config", "manifest"}, NEW c \in Contents
    PROVE  Admissible(key, c) /\ NamedBy(Write(key, c)) = {}
  BY DEF Admissible, NamedBy, Write

LEMMA IntentWrite ==
    ASSUME NEW txn \in Transactions, ReferencedReleaseIds(txn) \subseteq Held
    PROVE  /\ Admissible("transaction", txn)
           /\ NamedBy(Write("transaction", txn)) \subseteq Held
<1>1. NamedBy(Write("transaction", txn)) \subseteq ReferencedReleaseIds(txn)
  BY DEF NamedBy, Write
<1> QED BY <1>1 DEF Admissible

LEMMA AdvancedIntent ==
    ASSUME NEW txn \in Transactions, NEW phase \in Phases
    PROVE  /\ Advance(txn, phase) \in Transactions
           /\ ReferencedReleaseIds(Advance(txn, phase)) = ReferencedReleaseIds(txn)
           /\ Advance(txn, phase).from = txn.from
           /\ Advance(txn, phase).to = txn.to
  BY DEF Advance, Transactions, StoredDocuments, Documents, WellFormed, Phases,
     ReferencedReleaseIds
-----------------------------------------------------------------------------
(* Each step of the attempt keeps both halves of the invariant.            *)
Safe == StoreInv /\ JobInv

LEMMA LocalEnd ==
    ASSUME Safe, Local, NEW status, NEW changed, End(status, changed),
           status \in {"unchanged", "failed", "unknown"},
           changed \in {"no", "unknown", "unsaid"}
    PROVE  Safe'
  BY LocalKeepsStore, EndKeepsJob DEF Safe

LEMMA RefusedEnd ==
    ASSUME Safe, Refused, NEW status, End(status, "unsaid"),
           status \in {"failed", "incomplete", "crashed"}
    PROVE  Safe'
  BY RefusedKeepsStore, EndKeepsJob DEF Safe

LEMMA UnresolvedEnd ==
    ASSUME Safe, NEW key, NEW value, NEW changed, Unresolved(key, value, changed),
           Admissible(key, value), NamedBy(Write(key, value)) \subseteq Held,
           changed \in {"yes", "no", "unknown"}
    PROVE  Safe'
<1>1. End("unknown", changed)
  BY DEF Unresolved
<1> QED BY <1>1, UnresolvedKeepsStore, EndKeepsJob DEF Safe

LEMMA ConfirmedEnd ==
    ASSUME Safe, NEW key, NEW value, Confirmed(key, value),
           Admissible(key, value), NamedBy(Write(key, value)) \subseteq Held,
           NEW status, NEW changed, End(status, changed),
           status \in {"published", "unchanged", "failed", "incomplete"},
           changed \in {"yes", "no", "unsaid"}
    PROVE  Safe'
  BY ConfirmedKeepsStore, EndKeepsJob DEF Safe

LEMMA BeginSafe ==
    ASSUME Safe, NEW c \in Contents, Begin(c) PROVE Safe'
<1>1. StoreInv' /\ Held' = Held
  BY LocalKeepsStore DEF Begin, Safe
<1>2. JobInv'
  BY <1>1
  DEF Begin, Safe, StoreInv, StoreTypeOK, NoJob, OptionalContent, OptionalId,
      JobInv, AttemptTypeOK, Jobs, Staging, AfterStaging, Reading, Writing,
      TxnSteps, FreshSteps, UpdateSteps
<1> QED BY <1>1, <1>2 DEF Safe

LEMMA ReadIntentSafe == ASSUME Safe, ReadIntent PROVE Safe'
<1>1. StoreInv' /\ Held' = Held
  BY LocalKeepsStore DEF ReadIntent, Safe
<1>2. Intent \in Transactions \union {None}
  BY ParsedIntent DEF Safe, StoreInv, StoreTypeOK
<1>3. Intent # None => ReferencedReleaseIds(Intent) \subseteq Held
  BY DEF Safe, StoreInv, References
<1>4. JobInv'
  BY <1>1, <1>2, <1>3 DEF ReadIntent, Safe, JobInv, AttemptTypeOK, Jobs, Continue, Staging, AfterStaging, Reading, Writing,
      TxnSteps, FreshSteps, UpdateSteps
<1> QED BY <1>1, <1>4 DEF Safe

LEMMA RetireCheckSafe == ASSUME Safe, RetireCheck PROVE Safe'
<1>1. CASE Continue("retire", job)
  <2>1. StoreInv' /\ Held' = Held
    BY LocalKeepsStore DEF RetireCheck, Safe
  <2>2. JobInv'
    BY <1>1, <2>1 DEF RetireCheck, Safe, JobInv, AttemptTypeOK, Jobs, Continue, Staging, AfterStaging, Reading, Writing,
      TxnSteps, FreshSteps, UpdateSteps
  <2> QED BY <2>1, <2>2 DEF Safe
<1>2. CASE End("failed", "unsaid")
  BY <1>2, LocalEnd DEF RetireCheck
<1> QED BY <1>1, <1>2 DEF RetireCheck

LEMMA RetireSafe == ASSUME Safe, Retire PROVE Safe'
<1>1. CASE /\ Confirmed("transaction", Empty)
           /\ Continue("stage_config", [job EXCEPT !.txn = None])
  <2>1. StoreInv' /\ Held \subseteq Held'
    BY <1>1, ClearingWrite, ConfirmedKeepsStore DEF Safe
  <2>2. JobInv'
    BY <1>1, <2>1 DEF Retire, Safe, JobInv, AttemptTypeOK, Jobs, Continue, Staging, AfterStaging, Reading, Writing,
      TxnSteps, FreshSteps, UpdateSteps
  <2> QED BY <2>1, <2>2 DEF Safe
<1>2. CASE Refused /\ End("failed", "unsaid")
  BY <1>2, RefusedEnd
<1>3. CASE Unresolved("transaction", Empty, "no")
  BY <1>3, ClearingWrite, UnresolvedEnd
<1> QED BY <1>1, <1>2, <1>3 DEF Retire

\* The object a staging step leaves behind, when the attempt goes on.
LEMMA StagedObject ==
    ASSUME Safe, NEW key \in {"config", "manifest"}, NEW at, NEW step, NEW locals,
           NEW content \in Contents,
           Stage(at, key, IF key = "config" THEN config ELSE manifest, content,
                 step, locals)
    PROVE  \/ Safe'
           \/ /\ StoreInv' /\ Held \subseteq Held' /\ Continue(step, locals)
              /\ (IF key = "config" THEN config ELSE manifest)'[IdOf(content)] = content
              /\ \A id \in ReleaseIds : config[id] # None => config'[id] = config[id]
<1> DEFINE stored == IF key = "config" THEN config ELSE manifest
<1>0. IdOf(content) \in ReleaseIds /\ IdOf(content) = ReleaseIdOf[content]
  BY IdOfContent
<1>1. Admissible(key, content) /\ NamedBy(Write(key, content)) = {}
  BY ContentWrite
<1>2. CASE stored[IdOf(content)] = content /\ Local /\ Continue(step, locals)
  <2>1. StoreInv' /\ Held' = Held
    BY <1>2, LocalKeepsStore DEF Safe
  <2>2. config' = config /\ manifest' = manifest
    BY <1>2 DEF Local, store
  <2> QED BY <1>2, <2>1, <2>2
<1>3. CASE Confirmed(key, content) /\ Continue(step, locals)
  <2>1. StoreInv' /\ Held \subseteq Held'
    BY <1>1, <1>3, ConfirmedKeepsStore DEF Safe
  <2>2. Put(key, content)
    BY <1>3 DEF Confirmed
  <2>3. \A id \in ReleaseIds : config[id] # None => config'[id] = config[id]
    BY <1>1, <2>2, PutKeepsHeld DEF Safe, StoreInv
  <2>4. stored'[IdOf(content)] = content
    BY <1>0, <2>2 DEF Put, Safe, StoreInv, StoreTypeOK
  <2> QED BY <1>3, <2>1, <2>3, <2>4
<1>4. CASE Unresolved(key, content, "no")
  BY <1>1, <1>4, UnresolvedEnd
<1>5. CASE Refused /\ End("failed", "unsaid")
  BY <1>5, RefusedEnd
<1> QED BY <1>2, <1>3, <1>4, <1>5 DEF Stage

LEMMA StageConfigSafe == ASSUME Safe, StageConfig PROVE Safe'
<1>1. job.candidate \in Contents /\ pc = "stage_config"
  BY DEF Safe, JobInv, StageConfig, Stage
<1>2. CASE /\ StoreInv' /\ Held \subseteq Held' /\ Continue("stage_manifest", job)
           /\ config'[IdOf(job.candidate)] = job.candidate
  <2>1. JobInv'
    BY <1>1, <1>2, IdOfContent DEF Safe, IdOf, JobInv, AttemptTypeOK, Jobs, Continue, Staging, AfterStaging, Reading, Writing,
      TxnSteps, FreshSteps, UpdateSteps
  <2> QED BY <1>2, <2>1 DEF Safe
<1> QED BY <1>1, <1>2, StagedObject DEF StageConfig

\* Both objects together make the release a held one.
LEMMA BothObjects ==
    ASSUME StoreInv', NEW c \in Contents,
           config'[IdOf(c)] = c, manifest'[IdOf(c)] = c
    PROVE  IdOf(c) \in Held'
  BY IdOfContent, ContentsAssumption DEF Held, Staged

LEMMA StageManifestSafe == ASSUME Safe, StageManifest PROVE Safe'
<1>1. job.candidate \in Contents /\ pc = "stage_manifest"
      /\ config[IdOf(job.candidate)] = job.candidate
  BY DEF Safe, JobInv, StageManifest, Stage
<1>2. CASE /\ StoreInv' /\ Held \subseteq Held' /\ Continue("read_production", job)
           /\ manifest'[IdOf(job.candidate)] = job.candidate
           /\ \A id \in ReleaseIds : config[id] # None => config'[id] = config[id]
  <2>1. config'[IdOf(job.candidate)] = job.candidate
    BY <1>1, <1>2, IdOfContent, ContentsAssumption
  <2>2. IdOf(job.candidate) \in Held'
    BY <1>1, <1>2, <2>1, BothObjects
  <2>3. JobInv'
    BY <1>1, <1>2, <2>2, IdOfContent DEF Safe, IdOf, JobInv, AttemptTypeOK, Jobs, Continue, Staging, AfterStaging, Reading, Writing,
      TxnSteps, FreshSteps, UpdateSteps
  <2> QED BY <1>2, <2>3 DEF Safe
<1> QED BY <1>1, <1>2, StagedObject DEF StageManifest

LEMMA ReadKeysSafe ==
    ASSUME Safe, ReadProduction \/ ReadCurrent \/ ReadPrevious PROVE Safe'
<1>1. StoreInv' /\ Held' = Held
  BY LocalKeepsStore DEF ReadProduction, ReadCurrent, ReadPrevious, Safe
<1>2. /\ production \in OptionalContent
      /\ ParsePointer(current) \in OptionalId
      /\ ParsePointer(previous) \in OptionalId
  BY DEF Safe, StoreInv, StoreTypeOK, ParsePointer, Pointers, OptionalId
<1>3. {ParsePointer(current), ParsePointer(previous)} \ {None} \subseteq Held
  BY DEF Safe, StoreInv, References
<1>4. JobInv'
  BY <1>1, <1>2, <1>3
  DEF ReadProduction, ReadCurrent, ReadPrevious, Safe, JobInv, AttemptTypeOK, Jobs, Continue, Staging, AfterStaging, Reading, Writing,
      TxnSteps, FreshSteps, UpdateSteps
<1> QED BY <1>1, <1>4 DEF Safe

LEMMA RecoverSafe == ASSUME Safe, Recover PROVE Safe'
<1>1. CASE Continue("repair_previous", [job EXCEPT !.txn = Pending])
  <2>1. StoreInv' /\ Held' = Held
    BY LocalKeepsStore DEF Recover, Safe
  <2>2. Intent \in Transactions \union {None}
        /\ (Intent # None => ReferencedReleaseIds(Intent) \subseteq Held)
    BY ParsedIntent DEF Safe, StoreInv, StoreTypeOK, References
  <2>3. Pending \in Transactions /\ ReferencedReleaseIds(Pending) \subseteq Held
    BY <2>2 DEF Recover, Pending, Safe, JobInv, AttemptTypeOK, Jobs
  <2>4. JobInv'
    BY <1>1, <2>1, <2>3 DEF Recover, Safe, JobInv, AttemptTypeOK, Jobs, Continue, Staging, AfterStaging, Reading, Writing,
      TxnSteps, FreshSteps, UpdateSteps
  <2> QED BY <2>1, <2>4 DEF Safe
<1>2. CASE End("failed", "unsaid") \/ End("unknown", "unknown")
  BY <1>2, LocalEnd DEF Recover
<1> QED BY <1>1, <1>2 DEF Recover

LEMMA RepairPreviousSafe == ASSUME Safe, RepairPrevious PROVE Safe'
<1> DEFINE value == PointerValue(job.txn.from)
<1>1. pc = "repair_previous" /\ pc \in TxnSteps
  BY DEF RepairPrevious, Repair, TxnSteps
<1>2. Admissible("previous", value) /\ NamedBy(Write("previous", value)) \subseteq Held
  BY <1>1, TxnFacts, PointerWrite DEF Safe
<1>3. CASE Continue("repair_current", job) /\ (Local \/ Confirmed("previous", value))
  <2>1. StoreInv' /\ Held \subseteq Held'
    BY <1>2, <1>3, LocalKeepsStore, ConfirmedKeepsStore DEF Safe
  <2>2. JobInv'
    BY <1>1, <1>3, <2>1 DEF Safe, JobInv, AttemptTypeOK, Jobs, Continue, Staging, AfterStaging, Reading, Writing,
      TxnSteps, FreshSteps, UpdateSteps
  <2> QED BY <2>1, <2>2 DEF Safe
<1>4. CASE Refused /\ End("failed", "unsaid")
  BY <1>4, RefusedEnd
<1>5. CASE Unresolved("previous", value, "yes")
  BY <1>2, <1>5, UnresolvedEnd
<1> QED BY <1>3, <1>4, <1>5 DEF RepairPrevious, Repair

LEMMA RepairCurrentSafe == ASSUME Safe, RepairCurrent PROVE Safe'
<1> DEFINE value == PointerValue(job.txn.to)
<1>1. pc = "repair_current" /\ pc \in TxnSteps
  BY DEF RepairCurrent, Repair, TxnSteps
<1>2. Admissible("current", value) /\ NamedBy(Write("current", value)) \subseteq Held
  BY <1>1, TxnFacts, PointerWrite DEF Safe, OptionalId
<1>3. CASE Continue("verify", job) /\ (Local \/ Confirmed("current", value))
  <2>1. StoreInv' /\ Held \subseteq Held'
    BY <1>2, <1>3, LocalKeepsStore, ConfirmedKeepsStore DEF Safe
  <2>2. JobInv'
    BY <1>1, <1>3, <2>1 DEF Safe, JobInv, AttemptTypeOK, Jobs, Continue, Staging, AfterStaging, Reading, Writing,
      TxnSteps, FreshSteps, UpdateSteps
  <2> QED BY <2>1, <2>2 DEF Safe
<1>4. CASE Refused /\ End("failed", "unsaid")
  BY <1>4, RefusedEnd
<1>5. CASE Unresolved("current", value, "yes")
  BY <1>2, <1>5, UnresolvedEnd
<1> QED BY <1>3, <1>4, <1>5 DEF RepairCurrent, Repair

\* A new transaction between held releases.
LEMMA FreshTransaction ==
    ASSUME NEW from \in OptionalId, NEW to \in ReleaseIds, NEW prev \in OptionalId,
           from # to, from = None => prev = None,
           {from, to, prev} \ {None} \subseteq Held
    PROVE  /\ NewTransaction(from, to, prev) \in Transactions
           /\ ReferencedReleaseIds(NewTransaction(from, to, prev)) \subseteq Held
           /\ NewTransaction(from, to, prev).from = from
  BY SentinelsAssumption
  DEF NewTransaction, Transactions, StoredDocuments, Documents, WellFormed,
      Phases, ReferencedReleaseIds, OptionalId

LEMMA DecideSafe == ASSUME Safe, Decide PROVE Safe'
<1>1. StoreInv' /\ Held' = Held
  BY LocalKeepsStore DEF Decide, Safe
<1>2. pc = "reconcile" /\ job.candidate \in Contents
      /\ IdOf(job.candidate) \in Held /\ IdOf(job.candidate) \in ReleaseIds
      /\ IdOf(job.candidate) # None
  BY IdOfContent
  DEF Decide, Safe, JobInv, AfterStaging, Reading, Writing, Staging
<1>3. CASE End("failed", "unsaid") \/ End("unchanged", "no")
  BY <1>3, LocalEnd DEF Decide
<1>4. CASE Continue("align_current", job) /\ job.production = job.candidate
  <2>1. JobInv'
    BY <1>1, <1>2, <1>4 DEF Safe, JobInv, AttemptTypeOK, Jobs, Continue, Staging, AfterStaging, Reading, Writing,
      TxnSteps, FreshSteps, UpdateSteps
  <2> QED BY <1>1, <2>1 DEF Safe
<1>5. CASE /\ job.production = None
           /\ Continue("intent", [job EXCEPT !.txn =
                  NewTransaction(None, IdOf(job.candidate), None)])
  <2>1. LET txn == NewTransaction(None, IdOf(job.candidate), None)
        IN  txn \in Transactions /\ ReferencedReleaseIds(txn) \subseteq Held
            /\ txn.from = None
    BY <1>2, FreshTransaction DEF OptionalId
  <2>2. JobInv'
    BY <1>1, <1>2, <1>5, <2>1 DEF Safe, IdOf, JobInv, AttemptTypeOK, Jobs, Continue, Staging, AfterStaging, Reading, Writing,
      TxnSteps, FreshSteps, UpdateSteps
  <2> QED BY <1>1, <2>2 DEF Safe
<1>6. CASE /\ Continue("stage_old_config", job)
           /\ job.production \notin {None, job.candidate}
  <2>1. JobInv'
    BY <1>1, <1>2, <1>6 DEF Safe, OptionalContent, JobInv, AttemptTypeOK, Jobs, Continue, Staging, AfterStaging, Reading, Writing,
      TxnSteps, FreshSteps, UpdateSteps
  <2> QED BY <1>1, <2>1 DEF Safe
<1> QED BY <1>3, <1>4, <1>5, <1>6 DEF Decide

LEMMA AlignCurrentSafe == ASSUME Safe, AlignCurrent PROVE Safe'
<1> DEFINE id == IdOf(job.candidate)
<1>1. id \in ReleaseIds /\ id \in Held /\ id # None
  BY IdOfContent
  DEF AlignCurrent, Safe, JobInv, AfterStaging, Reading, Writing, Staging
<1>2. Admissible("current", id) /\ NamedBy(Write("current", id)) \subseteq Held
  BY <1>1, PointerWrite DEF OptionalId
<1> QED BY <1>2, RefusedEnd, ConfirmedEnd, UnresolvedEnd DEF AlignCurrent

LEMMA StageOldConfigSafe == ASSUME Safe, StageOldConfig PROVE Safe'
<1>1. job.production \in Contents /\ pc = "stage_old_config"
  BY DEF Safe, JobInv, StageOldConfig, Stage, UpdateSteps
<1>2. CASE /\ StoreInv' /\ Held \subseteq Held' /\ Continue("stage_old_manifest", job)
           /\ config'[IdOf(job.production)] = job.production
  <2>1. JobInv'
    BY <1>1, <1>2, IdOfContent DEF Safe, IdOf, JobInv, AttemptTypeOK, Jobs, Continue, Staging, AfterStaging, Reading, Writing,
      TxnSteps, FreshSteps, UpdateSteps
  <2> QED BY <1>2, <2>1 DEF Safe
<1> QED BY <1>1, <1>2, StagedObject DEF StageOldConfig

LEMMA StageOldManifestSafe == ASSUME Safe, StageOldManifest PROVE Safe'
<1> DEFINE txn == NewTransaction(IdOf(job.production), IdOf(job.candidate), job.previous)
           locals == [job EXCEPT !.txn = txn]
<1>1. /\ pc = "stage_old_manifest"
      /\ job.candidate \in Contents /\ job.production \in Contents
      /\ job.production # job.candidate /\ job.previous \in OptionalId
      /\ config[IdOf(job.production)] = job.production
      /\ IdOf(job.candidate) \in Held
      /\ job.previous # None => job.previous \in Held
  BY DEF Safe, JobInv, AttemptTypeOK, Jobs, StageOldManifest, Stage, UpdateSteps,
     AfterStaging, Reading, Writing, Staging
<1>2. /\ IdOf(job.production) \in ReleaseIds /\ IdOf(job.candidate) \in ReleaseIds
      /\ IdOf(job.production) # None
      /\ IdOf(job.production) # IdOf(job.candidate)
  BY <1>1, IdOfContent, ContentsAssumption
<1>3. CASE /\ StoreInv' /\ Held \subseteq Held' /\ Continue("intent", locals)
           /\ manifest'[IdOf(job.production)] = job.production
           /\ \A id \in ReleaseIds : config[id] # None => config'[id] = config[id]
  <2>1. config'[IdOf(job.production)] = job.production
    BY <1>1, <1>2, <1>3, ContentsAssumption
  <2>2. IdOf(job.production) \in Held'
    BY <1>1, <1>3, <2>1, BothObjects
  <2>3. {IdOf(job.production), IdOf(job.candidate), job.previous} \ {None} \subseteq Held'
    BY <1>1, <1>3, <2>2
  <2>4. txn \in Transactions /\ txn.from = IdOf(job.production)
        /\ ReferencedReleaseIds(txn)
               = {IdOf(job.production), IdOf(job.candidate), job.previous} \ {None}
    BY <1>1, <1>2, SentinelsAssumption
    DEF NewTransaction, Transactions, StoredDocuments, Documents, WellFormed,
        Phases, ReferencedReleaseIds, OptionalId
  <2>5. locals \in Jobs /\ locals.txn = txn /\ locals.production = job.production
        /\ locals.candidate = job.candidate /\ locals.current = job.current
        /\ locals.previous = job.previous
    BY <2>4 DEF Safe, JobInv, AttemptTypeOK, Jobs
  <2> HIDE DEF txn, locals
  <2>6. pc' = "intent" /\ job' = locals /\ report' = report /\ base' = base
    BY <1>3 DEF Continue
  <2>7. JobInv'
    BY <1>1, <1>3, <2>3, <2>4, <2>5, <2>6 DEF Safe, IdOf, JobInv, AttemptTypeOK,
       Staging, AfterStaging, Reading, Writing, TxnSteps, FreshSteps, UpdateSteps
  <2> QED BY <1>3, <2>7 DEF Safe
<1> QED BY <1>1, <1>3, StagedObject DEF StageOldManifest

\* From one step of a switch to the next: the identities stay the same, and a
\* step that presupposes a predecessor is entered only when there is one.
LEMMA NextSwitchStep ==
    ASSUME Safe, StoreInv', Held \subseteq Held', pc \in TxnSteps \ Staging,
           NEW step \in TxnSteps \ Staging, NEW locals \in Jobs,
           Continue(step, locals),
           locals.txn \in Transactions, locals.txn.from = job.txn.from,
           ReferencedReleaseIds(locals.txn) = ReferencedReleaseIds(job.txn),
           locals.candidate = job.candidate, locals.production = job.production,
           locals.current = job.current, locals.previous = job.previous,
           step \in FreshSteps => pc \in FreshSteps,
           step \in UpdateSteps => job.txn.from # None
    PROVE  Safe'
<1>1. pc' = step /\ job' = locals /\ report' = report /\ base' = base
  BY DEF Continue
<1>2. pc \in AfterStaging /\ step \in AfterStaging
  BY DEF TxnSteps, Staging, AfterStaging, Reading, Writing
<1>3. step \in UpdateSteps => job.production \in Contents
  BY DEF UpdateSteps, FreshSteps, TxnSteps, Safe, JobInv, AttemptTypeOK, Jobs,
     IdOf, OptionalContent
<1>4. ReferencedReleaseIds(job.txn) \subseteq Held
  BY TxnFacts DEF Safe, JobInv
<1>5. JobInv'
  BY <1>1, <1>2, <1>3, <1>4
  DEF Safe, JobInv, AttemptTypeOK, AfterStaging, Staging, Reading, Writing, IdOf,
      TxnSteps, FreshSteps, UpdateSteps
<1> QED BY <1>5 DEF Safe

LEMMA SameJob ==
    ASSUME Safe, pc \in TxnSteps
    PROVE  /\ job \in Jobs /\ job.txn \in Transactions
           /\ pc \in UpdateSteps /\ pc \in FreshSteps => job.txn.from # None
  BY IdOfContent DEF Safe, JobInv, AttemptTypeOK

LEMMA WriteIntentSafe == ASSUME Safe, WriteIntent PROVE Safe'
<1>1. pc = "intent" /\ pc \in TxnSteps \ Staging /\ pc \in FreshSteps
  BY DEF WriteIntent, TxnSteps, FreshSteps, Staging
<1>2. Admissible("transaction", job.txn)
      /\ NamedBy(Write("transaction", job.txn)) \subseteq Held
  BY <1>1, TxnFacts, IntentWrite DEF Safe, JobInv
<1>3. CASE /\ Confirmed("transaction", job.txn)
           /\ Continue(IF job.txn.from = None THEN "first_pointer" ELSE "activate", job)
  <2>1. StoreInv' /\ Held \subseteq Held'
    BY <1>2, <1>3, ConfirmedKeepsStore DEF Safe
  <2>2. {"first_pointer", "activate"} \subseteq (TxnSteps \ Staging) \ UpdateSteps
    BY DEF TxnSteps, Staging, UpdateSteps
  <2> QED BY <1>1, <1>3, <2>1, <2>2, SameJob, NextSwitchStep
<1>4. CASE Refused /\ End("failed", "unsaid")
  BY <1>4, RefusedEnd
<1>5. CASE Unresolved("transaction", job.txn, "no")
  BY <1>2, <1>5, UnresolvedEnd
<1> QED BY <1>3, <1>4, <1>5 DEF WriteIntent

LEMMA FirstPointerSafe == ASSUME Safe, FirstPointer PROVE Safe'
<1>1. pc = "first_pointer" /\ pc \in TxnSteps \ Staging /\ pc \in FreshSteps
  BY DEF FirstPointer, TxnSteps, FreshSteps, Staging
<1>2. Admissible("current", job.txn.to)
      /\ NamedBy(Write("current", job.txn.to)) \subseteq Held
  BY <1>1, TxnFacts, PointerWrite, SentinelsAssumption DEF Safe, OptionalId
<1>3. CASE Confirmed("current", job.txn.to) /\ Continue("activate", job)
  <2>1. StoreInv' /\ Held \subseteq Held'
    BY <1>2, <1>3, ConfirmedKeepsStore DEF Safe
  <2>2. "activate" \in (TxnSteps \ Staging) \ UpdateSteps
    BY DEF TxnSteps, Staging, UpdateSteps
  <2> QED BY <1>1, <1>3, <2>1, <2>2, SameJob, NextSwitchStep
<1>4. CASE Refused /\ End("failed", "unsaid")
  BY <1>4, RefusedEnd
<1>5. CASE Unresolved("current", job.txn.to, "no")
  BY <1>2, <1>5, UnresolvedEnd
<1> QED BY <1>3, <1>4, <1>5 DEF FirstPointer

LEMMA ActivateSafe == ASSUME Safe, Activate PROVE Safe'
<1>1. pc = "activate" /\ pc \in TxnSteps \ Staging /\ pc \in FreshSteps
  BY DEF Activate, TxnSteps, FreshSteps, Staging
<1>2. Admissible("production", job.candidate)
      /\ NamedBy(Write("production", job.candidate)) = {}
  BY <1>1, ContentWrite DEF Safe, JobInv
<1>3. CASE Confirmed("production", job.candidate) /\ Continue("commit", job)
  <2>1. StoreInv' /\ Held \subseteq Held'
    BY <1>2, <1>3, ConfirmedKeepsStore DEF Safe
  <2>2. "commit" \in (TxnSteps \ Staging) \ UpdateSteps
    BY DEF TxnSteps, Staging, UpdateSteps
  <2> QED BY <1>1, <1>3, <2>1, <2>2, SameJob, NextSwitchStep
<1>4. CASE /\ Refused
           /\ Continue(IF job.txn.from = None THEN "undo_first_pointer"
                                              ELSE "undo_production", job)
  <2>1. StoreInv' /\ Held' = Held
    BY <1>4, RefusedKeepsStore DEF Safe
  <2>2. /\ {"undo_first_pointer", "undo_production"} \subseteq TxnSteps \ Staging
        /\ "undo_first_pointer" \notin UpdateSteps
    BY DEF TxnSteps, Staging, UpdateSteps
  <2> QED BY <1>1, <1>4, <2>1, <2>2, SameJob, NextSwitchStep
<1>5. CASE Unresolved("production", job.candidate, "unknown")
  BY <1>2, <1>5, UnresolvedEnd
<1> QED BY <1>3, <1>4, <1>5 DEF Activate

LEMMA AdvanceIntentSafe ==
    ASSUME Safe, NEW at \in TxnSteps \ Staging, NEW step \in TxnSteps \ Staging,
           NEW phase \in Phases, AdvanceIntent(at, phase, step),
           step \in FreshSteps => at \in FreshSteps,
           step \in UpdateSteps => job.txn.from # None
    PROVE  Safe'
<1> DEFINE txn == Advance(job.txn, phase)
           locals == [job EXCEPT !.txn = txn]
<1>1. pc = at /\ pc \in TxnSteps
  BY DEF AdvanceIntent
<1>2. job \in Jobs /\ job.txn \in Transactions
      /\ ReferencedReleaseIds(job.txn) \subseteq Held
  BY <1>1, SameJob, TxnFacts DEF Safe, JobInv
<1>3. /\ txn \in Transactions /\ txn.from = job.txn.from
      /\ ReferencedReleaseIds(txn) = ReferencedReleaseIds(job.txn)
  BY <1>2, AdvancedIntent
<1>4. Admissible("transaction", txn) /\ NamedBy(Write("transaction", txn)) \subseteq Held
  BY <1>2, <1>3, IntentWrite
<1> HIDE DEF txn
<1>5. /\ locals \in Jobs /\ locals.txn = txn /\ locals.candidate = job.candidate
      /\ locals.production = job.production /\ locals.current = job.current
      /\ locals.previous = job.previous
  BY <1>2, <1>3 DEF Jobs
<1> HIDE DEF locals
<1>6. CASE Local /\ Continue(step, job)
  <2>1. StoreInv' /\ Held' = Held
    BY <1>6, LocalKeepsStore DEF Safe
  <2> QED BY <1>1, <1>2, <1>6, <2>1, NextSwitchStep
<1>7. CASE Confirmed("transaction", txn) /\ Continue(step, locals)
  <2>1. StoreInv' /\ Held \subseteq Held'
    BY <1>4, <1>7, ConfirmedKeepsStore DEF Safe
  <2> QED BY <1>1, <1>2, <1>3, <1>5, <1>7, <2>1, NextSwitchStep
<1>8. CASE Refused /\ End("failed", "unsaid")
  BY <1>8, RefusedEnd
<1>9. CASE Unresolved("transaction", txn, "yes")
  BY <1>4, <1>9, UnresolvedEnd
<1> QED BY <1>6, <1>7, <1>8, <1>9 DEF AdvanceIntent, txn, locals

LEMMA PhaseStepsSafe ==
    ASSUME Safe, CommitPhase \/ VerifyPhase \/ FinalizePhase PROVE Safe'
<1>1. /\ {"commit", "verify", "finalize"} \subseteq Phases
      /\ {"commit", "previous", "verify", "check", "finalize", "clear"}
             \subseteq TxnSteps \ Staging
      /\ "commit" \in FreshSteps
      /\ {"verify", "check", "clear"} \intersect (FreshSteps \union UpdateSteps) = {}
  BY DEF Phases, TxnSteps, Staging, FreshSteps, UpdateSteps
<1>2. CASE CommitPhase
  BY <1>1, <1>2, AdvanceIntentSafe DEF CommitPhase
<1>3. CASE VerifyPhase
  BY <1>1, <1>3, AdvanceIntentSafe DEF VerifyPhase
<1>4. CASE FinalizePhase
  BY <1>1, <1>4, AdvanceIntentSafe DEF FinalizePhase
<1> QED BY <1>2, <1>3, <1>4

LEMMA SwitchPointerSafe ==
    ASSUME Safe, NEW at \in {"previous", "current"}, NEW key \in {"previous", "current"},
           NEW id \in OptionalId, id # None => id \in Held, id # None,
           NEW step \in {"current", "verify"}, SwitchPointer(at, key, id, step)
    PROVE  Safe'
<1>1. /\ pc = at /\ at \in TxnSteps \ Staging /\ at \in FreshSteps /\ at \in UpdateSteps
      /\ {step, "undo_production"} \subseteq TxnSteps \ Staging
  BY DEF SwitchPointer, TxnSteps, Staging, FreshSteps, UpdateSteps
<1>2. Admissible(key, id) /\ NamedBy(Write(key, id)) \subseteq Held
  BY PointerWrite
<1>3. CASE Confirmed(key, id) /\ Continue(step, job)
  <2>1. StoreInv' /\ Held \subseteq Held'
    BY <1>2, <1>3, ConfirmedKeepsStore DEF Safe
  <2> QED BY <1>1, <1>3, <2>1, SameJob, NextSwitchStep
<1>4. CASE Refused /\ Continue("undo_production", job)
  <2>1. StoreInv' /\ Held' = Held
    BY <1>4, RefusedKeepsStore DEF Safe
  <2> QED BY <1>1, <1>4, <2>1, SameJob, NextSwitchStep
<1>5. CASE Unresolved(key, id, "yes")
  BY <1>2, <1>5, UnresolvedEnd
<1> QED BY <1>3, <1>4, <1>5 DEF SwitchPointer

LEMMA SwitchesSafe == ASSUME Safe, SwitchPrevious \/ SwitchCurrent PROVE Safe'
<1>1. pc \in TxnSteps /\ pc \in FreshSteps /\ pc \in UpdateSteps
  BY DEF SwitchPrevious, SwitchCurrent, SwitchPointer, TxnSteps, FreshSteps, UpdateSteps
<1>2. /\ job.txn.from \in OptionalId /\ job.txn.from # None /\ job.txn.from \in Held
      /\ job.txn.to \in OptionalId /\ job.txn.to # None /\ job.txn.to \in Held
  BY <1>1, TxnFacts, SameJob, SentinelsAssumption DEF Safe, OptionalId
<1> QED BY <1>2, SwitchPointerSafe DEF SwitchPrevious, SwitchCurrent

LEMMA CheckSafe == ASSUME Safe, Check PROVE Safe'
<1>1. CASE Continue("finalize", job)
  <2>1. /\ pc \in TxnSteps \ Staging /\ "finalize" \in TxnSteps \ Staging
        /\ "finalize" \notin FreshSteps \union UpdateSteps
    BY DEF Check, TxnSteps, Staging, FreshSteps, UpdateSteps
  <2>2. StoreInv' /\ Held' = Held
    BY LocalKeepsStore DEF Check, Safe
  <2> QED BY <1>1, <2>1, <2>2, SameJob, NextSwitchStep
<1>2. CASE End("unknown", "unknown")
  BY <1>2, LocalEnd DEF Check
<1> QED BY <1>1, <1>2 DEF Check

\* The two steps that withdraw the intent, after success and after compensation.
LEMMA ClearingSafe == ASSUME Safe, Clear \/ Abort PROVE Safe'
  BY ClearingWrite, RefusedEnd, ConfirmedEnd, UnresolvedEnd DEF Clear, Abort

LEMMA UndoFirstPointerSafe == ASSUME Safe, UndoFirstPointer PROVE Safe'
<1> DEFINE value == PointerValue(job.current)
<1>1. /\ pc \in TxnSteps \ Staging /\ "abort" \in TxnSteps \ Staging
      /\ "abort" \notin FreshSteps \union UpdateSteps
  BY DEF UndoFirstPointer, TxnSteps, Staging, FreshSteps, UpdateSteps
<1>2. Admissible("current", value) /\ NamedBy(Write("current", value)) \subseteq Held
  BY PointerWrite DEF Safe, JobInv, AttemptTypeOK, Jobs
<1>3. CASE Confirmed("current", value) /\ Continue("abort", job)
  <2>1. StoreInv' /\ Held \subseteq Held'
    BY <1>2, <1>3, ConfirmedKeepsStore DEF Safe
  <2> QED BY <1>1, <1>3, <2>1, SameJob, NextSwitchStep
<1>4. CASE Refused /\ End("incomplete", "unsaid")
  BY <1>4, RefusedEnd
<1>5. CASE Unresolved("current", value, "no")
  BY <1>2, <1>5, UnresolvedEnd
<1> QED BY <1>3, <1>4, <1>5 DEF UndoFirstPointer

LEMMA UndoSafe ==
    ASSUME Safe, NEW at \in {"undo_production", "undo_current"},
           NEW key \in {"production", "current"}, NEW value,
           Admissible(key, value), NamedBy(Write(key, value)) \subseteq Held,
           NEW step \in {"undo_current", "undo_previous"},
           NEW changed \in {"yes", "no", "unknown"},
           Undo(at, key, value, step, changed)
    PROVE  Safe'
<1> DEFINE locals == [job EXCEPT !.errors = @ \union {key}]
<1>1. /\ pc = at /\ at \in TxnSteps \ Staging /\ at \in FreshSteps /\ at \in UpdateSteps
      /\ step \in TxnSteps \ Staging
  BY DEF Undo, TxnSteps, Staging, FreshSteps, UpdateSteps
<1>2. /\ locals \in Jobs /\ locals.txn = job.txn /\ locals.candidate = job.candidate
      /\ locals.production = job.production /\ locals.current = job.current
      /\ locals.previous = job.previous
  BY <1>1, SameJob DEF Jobs
<1> HIDE DEF locals
<1>3. CASE Confirmed(key, value) /\ Continue(step, job)
  <2>1. StoreInv' /\ Held \subseteq Held'
    BY <1>3, ConfirmedKeepsStore DEF Safe
  <2> QED BY <1>1, <1>3, <2>1, SameJob, NextSwitchStep
<1>4. CASE Refused /\ Continue(step, locals)
  <2>1. StoreInv' /\ Held' = Held
    BY <1>4, RefusedKeepsStore DEF Safe
  <2> QED BY <1>1, <1>2, <1>4, <2>1, SameJob, NextSwitchStep
<1>5. CASE Unresolved(key, value, changed)
  BY <1>5, UnresolvedEnd
<1> QED BY <1>3, <1>4, <1>5 DEF Undo, locals

LEMMA UndoesSafe ==
    ASSUME Safe, UndoProduction \/ UndoCurrent \/ UndoPrevious PROVE Safe'
<1>1. pc \in TxnSteps \ Staging /\ pc \in FreshSteps /\ pc \in UpdateSteps
  BY DEF UndoProduction, UndoCurrent, UndoPrevious, Undo, TxnSteps, Staging,
     FreshSteps, UpdateSteps
<1>2. ChangedAfterUndo \in {"yes", "no", "unknown"}
  BY DEF ChangedAfterUndo
<1>3. CASE UndoProduction
  <2>1. Admissible("production", job.production)
        /\ NamedBy(Write("production", job.production)) = {}
    BY <1>1, ContentWrite DEF Safe, JobInv
  <2> QED BY <1>3, <2>1, UndoSafe DEF UndoProduction
<1>4. CASE UndoCurrent
  <2>1. job.txn.from \in OptionalId /\ job.txn.from # None /\ job.txn.from \in Held
    BY <1>1, TxnFacts, SameJob DEF Safe
  <2>2. Admissible("current", job.txn.from)
        /\ NamedBy(Write("current", job.txn.from)) \subseteq Held
    BY <2>1, PointerWrite
  <2> QED BY <1>2, <1>4, <2>2, UndoSafe DEF UndoCurrent
<1>5. CASE UndoPrevious
  <2> DEFINE value == PointerValue(job.previous)
  <2>1. Admissible("previous", value) /\ NamedBy(Write("previous", value)) \subseteq Held
    BY PointerWrite DEF Safe, JobInv, AttemptTypeOK, Jobs
  <2>2. CASE Confirmed("previous", value) /\ Continue("abort", job)
    <3>1. StoreInv' /\ Held \subseteq Held'
      BY <2>1, <2>2, ConfirmedKeepsStore DEF Safe
    <3>2. "abort" \in (TxnSteps \ Staging) \ (FreshSteps \union UpdateSteps)
      BY DEF TxnSteps, Staging, FreshSteps, UpdateSteps
    <3> QED BY <1>1, <2>2, <3>1, <3>2, SameJob, NextSwitchStep
  <2>3. CASE Confirmed("previous", value) /\ End("incomplete", "unsaid")
    BY <2>1, <2>3, ConfirmedEnd
  <2>4. CASE Refused /\ End("incomplete", "unsaid")
    BY <2>4, RefusedEnd
  <2>5. CASE Unresolved("previous", value, ChangedAfterUndo)
    BY <1>2, <2>1, <2>5, UnresolvedEnd
  <2> QED BY <1>5, <2>2, <2>3, <2>4, <2>5 DEF UndoPrevious
<1> QED BY <1>3, <1>4, <1>5

LEMMA StopSafe == ASSUME Safe, ReadFailure \/ Crash PROVE Safe'
  BY RefusedEnd DEF ReadFailure, Crash

\* A late write changes the store behind the attempt, which keeps its locals.
LEMMA SettleSafe == ASSUME Safe, Settle PROVE Safe'
<1>1. StoreInv' /\ Held \subseteq Held'
  BY SettleKeepsStore DEF Safe
<1>2. UNCHANGED <<pc, job, report, base>>
  BY DEF Settle, Land, Lose
<1>3. \A id \in ReleaseIds : config[id] # None => config'[id] = config[id]
  <2> PICK w \in inflight : Land(w) \/ Lose(w)
    BY DEF Settle
  <2>1. w = Write(w.key, w.value) /\ Admissible(w.key, w.value)
    BY WriteIsAdmissible DEF Safe, StoreInv, StoreTypeOK
  <2>2. CASE Land(w)
    BY <2>1, <2>2, PutKeepsHeld DEF Safe, StoreInv, Land
  <2>3. CASE Lose(w)
    BY <2>3 DEF Lose, store
  <2> QED BY <2>2, <2>3
<1>4. /\ pc = "stage_manifest" => config'[IdOf(job.candidate)] = job.candidate
      /\ pc = "stage_old_manifest" => config'[IdOf(job.production)] = job.production
  BY <1>3, IdOfContent, ContentsAssumption DEF Safe, JobInv, UpdateSteps
<1>5. JobInv'
  BY <1>1, <1>2, <1>4 DEF Safe, JobInv, AttemptTypeOK, IdOf
<1> QED BY <1>1, <1>5 DEF Safe

LEMMA StutterSafe == ASSUME Safe, UNCHANGED vars PROVE Safe'
<1>1. StoreInv' /\ Held' = Held
  BY LocalKeepsStore DEF Local, vars, Safe
<1>2. UNCHANGED <<config, pc, job, report, base>>
  BY DEF vars, store
<1> QED BY <1>1, <1>2 DEF Safe, JobInv, AttemptTypeOK, IdOf

LEMMA NextSafe == ASSUME Safe, [Next]_vars PROVE Safe'
<1>1. CASE \E c \in Contents : Begin(c)
  BY <1>1, BeginSafe
<1>2. CASE Attempt
  BY <1>2, ReadIntentSafe, RetireCheckSafe, RetireSafe, StageConfigSafe,
     StageManifestSafe, ReadKeysSafe, RecoverSafe, RepairPreviousSafe,
     RepairCurrentSafe, DecideSafe, AlignCurrentSafe, StageOldConfigSafe,
     StageOldManifestSafe, WriteIntentSafe, FirstPointerSafe, ActivateSafe,
     PhaseStepsSafe, SwitchesSafe, CheckSafe, ClearingSafe, UndoFirstPointerSafe,
     UndoesSafe DEF Attempt
<1>3. CASE ReadFailure \/ Crash
  BY <1>3, StopSafe
<1>4. CASE Settle
  BY <1>4, SettleSafe
<1>5. CASE UNCHANGED vars
  BY <1>5, StutterSafe
<1> QED BY <1>1, <1>2, <1>3, <1>4, <1>5 DEF Next
-----------------------------------------------------------------------------
(* The initial states.                                                     *)
LEMMA HoldingStages ==
    ASSUME NEW S \in SUBSET Contents
    PROVE  /\ Holding(S) \in [ReleaseIds -> OptionalContent]
           /\ Addressed(Holding(S))
           /\ \A c \in S : Holding(S)[ReleaseIdOf[c]] = c
<1>1. \A id \in ReleaseIds :
         IF \E c \in S : ReleaseIdOf[c] = id
         THEN Holding(S)[id] \in S /\ ReleaseIdOf[Holding(S)[id]] = id
         ELSE Holding(S)[id] = None
  BY DEF Holding
<1>2. Holding(S) \in [ReleaseIds -> OptionalContent]
  BY <1>1 DEF Holding, OptionalContent
<1>3. Addressed(Holding(S))
  BY <1>1 DEF Addressed
<1>4. ASSUME NEW c \in S PROVE Holding(S)[ReleaseIdOf[c]] = c
  BY <1>1, ContentsAssumption
<1> QED BY <1>2, <1>3, <1>4

LEMMA InitSafe == ASSUME Init PROVE Safe /\ LiveInv
<1>1. JobInv
  <2>1. NoJob \in Jobs
    BY DEF NoJob, Jobs, OptionalContent, OptionalId
  <2>2. report \in Reports
    BY DEF Init, Reports, OptionalContent
  <2>3. base \in OptionalContent
    BY DEF Init, InitUnversioned, InitLegacyIntent, OptionalContent
  <2> QED BY <2>1, <2>2, <2>3 DEF Init, JobInv, AttemptTypeOK, NoJob, Staging,
             AfterStaging, Reading, Writing, TxnSteps, FreshSteps, UpdateSteps
<1>2. faults \in 0 .. MaxFaults /\ inflight = {} /\ inflight \in SUBSET Writes
  BY BoundsAssumption DEF Init
<1>3. CASE InitUnversioned
  <2>1. Nothing \in [ReleaseIds -> OptionalContent] /\ Addressed(Nothing)
    BY DEF Nothing, OptionalContent, Addressed
  <2>2. References = {}
    BY <1>2, <1>3, SentinelsAssumption
    DEF References, InitUnversioned, Intent, ParseTransaction, ParsePointer
  <2>3. StoreInv
    BY <1>2, <1>3, <2>1, <2>2 DEF StoreInv, StoreTypeOK, InitUnversioned, Pointers,
       OptionalId
  <2>4. PreRelease
    BY <1>2, <1>3, SentinelsAssumption DEF PreRelease, InitUnversioned, Init, NoJob,
       Intent, ParseTransaction, ParsePointer, Early, Staging
  <2> QED BY <1>1, <1>2, <2>3, <2>4 DEF Safe, LiveInv
<1>4. CASE InitLegacyIntent
  <2> PICK from \in Contents, to \in Contents :
        /\ from # to
        /\ production \in {from, to}
        /\ current = ReleaseIdOf[from] /\ previous = None
        /\ intent = [from |-> ReleaseIdOf[from], to |-> ReleaseIdOf[to],
                     previous |-> None, phase |-> LegacyPhase]
        /\ config = Holding({from, to}) /\ manifest = Holding({from, to})
    BY <1>4 DEF InitLegacyIntent
  <2>1. /\ ReleaseIdOf[from] \in ReleaseIds /\ ReleaseIdOf[to] \in ReleaseIds
        /\ ReleaseIdOf[from] # ReleaseIdOf[to] /\ from # None /\ to # None
        /\ None \notin ReleaseIds
    BY ContentsAssumption, SentinelsAssumption
  <2>2. /\ config \in [ReleaseIds -> OptionalContent] /\ Addressed(config)
        /\ manifest \in [ReleaseIds -> OptionalContent] /\ Addressed(manifest)
        /\ \A c \in {from, to} : config[ReleaseIdOf[c]] = c /\ manifest[ReleaseIdOf[c]] = c
    BY HoldingStages
  <2>3. {ReleaseIdOf[from], ReleaseIdOf[to]} \subseteq Held
    BY <2>1, <2>2 DEF Held, Staged
  <2>4. intent \in StoredDocuments
    BY <2>1 DEF StoredDocuments, Documents, WellFormed, OptionalId
  <2>5. Intent # None /\ ReferencedReleaseIds(Intent) \subseteq {ReleaseIdOf[from], ReleaseIdOf[to]}
    <3>1. intent \notin {None, Empty} /\ intent.phase = LegacyPhase
      BY <2>4, SentinelsAssumption DEF StoredDocuments
    <3>2. Intent = [intent EXCEPT !.phase = "prepare"]
      BY <3>1 DEF Intent, ParseTransaction
    <3>3. Intent.from = ReleaseIdOf[from] /\ Intent.to = ReleaseIdOf[to]
          /\ Intent.previous = None
      BY <3>2
    <3> QED BY <2>4, <3>3, ParsedIntent DEF ReferencedReleaseIds
  <2>6. References \subseteq {ReleaseIdOf[from], ReleaseIdOf[to]}
    BY <1>2, <2>1, <2>5, SentinelsAssumption DEF References, ParsePointer
  <2>7. StoreInv
    BY <1>2, <2>1, <2>2, <2>3, <2>4, <2>6 DEF StoreInv, StoreTypeOK, Pointers,
       OptionalId, OptionalContent
  <2>8. LiveHeld
    BY <2>1, <2>3 DEF LiveHeld, IdOf
  <2> QED BY <1>1, <1>2, <2>7, <2>8 DEF Safe, LiveInv
<1> QED BY <1>3, <1>4 DEF Init
-----------------------------------------------------------------------------
(* The live bytes.  A step is calm when it loses no held release and makes *)
(* nothing live, now or later, that is not held.                           *)
Calm ==
    /\ Held \subseteq Held'
    /\ production' = production \/ IdOf(production') \in Held'
    /\ \A w \in inflight' :
          w \in inflight \/ w.key # "production" \/ IdOf(w.value) \in Held'

LEMMA SameStoreCalm ==
    ASSUME UNCHANGED store, inflight' \subseteq inflight
    PROVE  Calm
  BY UnchangedStoreKeepsHeld DEF Calm, store

LEMMA WriteCalm ==
    ASSUME Safe, NEW key, NEW value,
           key \in {"config", "manifest"} => value \in Contents,
           key = "production" => IdOf(value) \in Held,
           \/ Confirmed(key, value)
           \/ UNCHANGED store /\ inflight' = inflight \union {Write(key, value)}
    PROVE  Calm
<1>1. CASE UNCHANGED store /\ inflight' = inflight \union {Write(key, value)}
  BY <1>1, UnchangedStoreKeepsHeld DEF Calm, store, Write
<1>2. CASE Confirmed(key, value)
  <2>1. Put(key, value) /\ inflight' \subseteq inflight \union {Write(key, value)}
    BY <1>2 DEF Confirmed
  <2>2. Held \subseteq Held'
    <3>1. CASE key \in {"config", "manifest"}
      BY <2>1, <3>1, PutKeepsHeld, ContentWrite DEF Safe, StoreInv
    <3>2. CASE key \notin {"config", "manifest"}
      BY <2>1, <3>2 DEF Put, Held, Staged
    <3> QED BY <3>1, <3>2
  <2>3. production' = production \/ (key = "production" /\ production' = value)
    BY <2>1 DEF Put
  <2> QED BY <2>1, <2>2, <2>3 DEF Calm, Write
<1> QED BY <1>1, <1>2

LEMMA StageCalm ==
    ASSUME Safe, NEW at, NEW key \in {"config", "manifest"}, NEW stored,
           NEW content \in Contents, NEW step, NEW locals,
           Stage(at, key, stored, content, step, locals)
    PROVE  Calm
  BY SameStoreCalm, WriteCalm DEF Stage, Local, Refused, Unresolved

LEMMA AttemptCalm == ASSUME Safe, Attempt PROVE Calm
<1>1. CASE \/ ReadIntent \/ RetireCheck \/ ReadProduction \/ ReadCurrent
           \/ ReadPrevious \/ Recover \/ Decide \/ Check
  BY <1>1, SameStoreCalm
  DEF ReadIntent, RetireCheck, ReadProduction, ReadCurrent, ReadPrevious, Recover,
      Decide, Check, Local
<1>2. CASE StageConfig \/ StageManifest \/ StageOldConfig \/ StageOldManifest
  <2>1. StageConfig \/ StageManifest => job.candidate \in Contents
    BY DEF Safe, JobInv, StageConfig, StageManifest, Stage
  <2>2. StageOldConfig \/ StageOldManifest => job.production \in Contents
    BY DEF Safe, JobInv, StageOldConfig, StageOldManifest, Stage, UpdateSteps
  <2> QED BY <1>2, <2>1, <2>2, StageCalm
          DEF StageConfig, StageManifest, StageOldConfig, StageOldManifest
<1>3. CASE Retire \/ WriteIntent \/ Clear \/ Abort
  BY <1>3, SameStoreCalm, WriteCalm DEF Retire, WriteIntent, Clear, Abort, Refused, Unresolved
<1>4. CASE CommitPhase \/ VerifyPhase \/ FinalizePhase
  <2>1. PICK at, phase, step : AdvanceIntent(at, phase, step)
    BY <1>4 DEF CommitPhase, VerifyPhase, FinalizePhase
  <2> QED BY <2>1, SameStoreCalm, WriteCalm
          DEF AdvanceIntent, Local, Refused, Unresolved
<1>5. CASE RepairPrevious \/ RepairCurrent
  BY <1>5, SameStoreCalm, WriteCalm
  DEF RepairPrevious, RepairCurrent, Repair, Local, Refused, Unresolved
<1>6. CASE \/ AlignCurrent \/ FirstPointer \/ SwitchPrevious \/ SwitchCurrent
           \/ UndoFirstPointer \/ UndoCurrent \/ UndoPrevious
  BY <1>6, SameStoreCalm, WriteCalm
  DEF AlignCurrent, FirstPointer, SwitchPrevious, SwitchCurrent, SwitchPointer,
      UndoFirstPointer, UndoCurrent, UndoPrevious, Undo, Refused, Unresolved
<1>7. CASE Activate
  <2>1. IdOf(job.candidate) \in Held
    BY <1>7 DEF Activate, Safe, JobInv, AfterStaging, Reading, Writing, Staging
  <2> QED BY <1>7, <2>1, SameStoreCalm, WriteCalm DEF Activate, Refused, Unresolved
<1>8. CASE UndoProduction
  <2>1. pc \in TxnSteps /\ pc \in FreshSteps /\ pc \in UpdateSteps
    BY <1>8 DEF UndoProduction, Undo, TxnSteps, FreshSteps, UpdateSteps
  <2>2. IdOf(job.production) \in Held
    BY <2>1, TxnFacts, SameJob DEF Safe, JobInv
  <2> QED BY <1>8, <2>2, SameStoreCalm, WriteCalm
          DEF UndoProduction, Undo, Refused, Unresolved
<1> QED BY <1>1, <1>2, <1>3, <1>4, <1>5, <1>6, <1>7, <1>8 DEF Attempt

\* A late write of production was vouched for when it was issued.
LEMMA NextCalm == ASSUME Safe, LiveInv, [Next]_vars PROVE Calm
<1>1. CASE \/ \E c \in Contents : Begin(c)
           \/ ReadFailure \/ Crash \/ UNCHANGED vars
  BY <1>1, SameStoreCalm DEF Begin, ReadFailure, Crash, Local, Refused, vars
<1>2. CASE Attempt
  BY <1>2, AttemptCalm
<1>3. CASE Settle
  <2> PICK w \in inflight : Land(w) \/ Lose(w)
    BY <1>3 DEF Settle
  <2>1. Held \subseteq Held'
    BY <1>3, SettleKeepsStore DEF Safe
  <2>2. production' = production \/ (w.key = "production" /\ production' = w.value)
    BY DEF Land, Lose, Put, store
  <2>3. inflight' \subseteq inflight
    BY DEF Land, Lose
  <2> QED BY <2>1, <2>2, <2>3 DEF Calm, LiveInv
<1> QED BY <1>1, <1>2, <1>3 DEF Next

LEMMA CalmKeepsLiveHeld ==
    ASSUME Calm, LiveHeld PROVE LiveHeld'
  BY DEF Calm, LiveHeld, IdOf

LEMMA CalmKeepsLateWrites ==
    ASSUME Calm, \A w \in inflight : w.key = "production" => IdOf(w.value) \in Held
    PROVE  (\A w \in inflight : w.key = "production" => IdOf(w.value) \in Held)'
  BY DEF Calm, IdOf

\* Before the first release nothing but immutable objects is written, and the
\* step that writes the first intent finds the live bytes held.
Untouched == production' = production /\ current' = current /\ intent' = intent

LEMMA StagePreRelease ==
    ASSUME PreRelease, NEW at, NEW key \in {"config", "manifest"}, NEW stored,
           NEW content, NEW step, NEW locals, Stage(at, key, stored, content, step, locals)
    PROVE  /\ Untouched
           /\ (\A w \in inflight : w.key \in {"config", "manifest"})'
           /\ Continue(step, locals) \/ (pc' = "idle" /\ job' = NoJob)
<1>1. CASE Confirmed(key, content) /\ Continue(step, locals)
  BY <1>1 DEF PreRelease, Untouched, Confirmed, Put, Write
<1>2. CASE Unresolved(key, content, "no")
  BY <1>2 DEF PreRelease, Untouched, Unresolved, End, Write, store
<1>3. CASE Local /\ Continue(step, locals)
  BY <1>3 DEF PreRelease, Untouched, Local, store
<1>4. CASE Refused /\ End("failed", "unsaid")
  BY <1>4 DEF PreRelease, Untouched, Refused, End, store
<1> QED BY <1>1, <1>2, <1>3, <1>4 DEF Stage

LEMMA UntouchedPreRelease ==
    ASSUME PreRelease, Untouched,
           (\A w \in inflight : w.key \in {"config", "manifest"})',
           pc' \in Early, job'.txn = None,
           pc' \in Early \ (Staging \union {"read_production"})
               => job'.production = production
    PROVE  PreRelease'
  BY DEF PreRelease, Untouched, Intent

LEMMA PreReleaseStep ==
    ASSUME Safe, Safe', PreRelease, [Next]_vars PROVE LiveHeld' \/ PreRelease'
<1> USE DEF Early, Staging
<1>0. /\ pc \notin TxnSteps
      /\ NoJob.txn = None /\ Pending = None
      /\ \A w \in inflight : w.key \in {"config", "manifest"}
  BY SentinelsAssumption
  DEF PreRelease, Safe, JobInv, Transactions, StoredDocuments, NoJob, Pending
<1>1. CASE \/ \E c \in Contents : Begin(c)
           \/ ReadFailure \/ Crash \/ UNCHANGED vars
  <2>1. Untouched /\ inflight' = inflight
    BY <1>1 DEF Begin, ReadFailure, Crash, Local, Refused, vars, store, Untouched
  <2>2. CASE \E c \in Contents : Begin(c)
    BY <1>0, <2>1, <2>2, UntouchedPreRelease DEF Begin, NoJob
  <2>3. CASE ReadFailure \/ Crash
    BY <1>0, <2>1, <2>3, UntouchedPreRelease DEF ReadFailure, Crash, End
  <2>4. CASE UNCHANGED vars
    BY <1>0, <2>1, <2>4, UntouchedPreRelease DEF vars, PreRelease
  <2> QED BY <1>1, <2>2, <2>3, <2>4
<1>2. CASE Settle
  <2> PICK w \in inflight : Land(w) \/ Lose(w)
    BY <1>2 DEF Settle
  <2>1. Untouched /\ inflight' \subseteq inflight /\ pc' = pc /\ job' = job
    BY <1>0 DEF Land, Lose, Put, store, Untouched
  <2> QED BY <1>0, <2>1, UntouchedPreRelease DEF PreRelease
<1>3. CASE Attempt
  <2>1. CASE ReadIntent
    <3>1. Untouched /\ inflight' = inflight
      BY <2>1 DEF ReadIntent, Local, store, Untouched
    <3>2. pc' = "stage_config" /\ job'.txn = None
      BY <2>1 DEF ReadIntent, Continue, PreRelease, Safe, JobInv, AttemptTypeOK, Jobs
    <3> QED BY <1>0, <3>1, <3>2, UntouchedPreRelease
  <2>2. CASE StageConfig \/ StageManifest
    <3>1. /\ Untouched /\ (\A w \in inflight : w.key \in {"config", "manifest"})'
          /\ \/ pc' \in {"stage_manifest", "read_production"} /\ job' = job
             \/ pc' = "idle" /\ job' = NoJob
      BY <2>2, StagePreRelease DEF StageConfig, StageManifest, Continue
    <3> QED BY <1>0, <3>1, UntouchedPreRelease DEF PreRelease
  <2>3. CASE ReadProduction \/ ReadCurrent \/ ReadPrevious
    <3>1. Untouched /\ inflight' = inflight
      BY <2>3 DEF ReadProduction, ReadCurrent, ReadPrevious, Local, store, Untouched
    <3>2. /\ pc' \in {"read_current", "read_previous", "reconcile"}
          /\ job'.txn = None /\ job'.production = production
      BY <2>3 DEF ReadProduction, ReadCurrent, ReadPrevious, Continue, PreRelease,
         Safe, JobInv, AttemptTypeOK, Jobs
    <3> QED BY <1>0, <3>1, <3>2, UntouchedPreRelease
  <2>4. CASE Decide
    <3>1. Untouched /\ inflight' = inflight
      BY <2>4 DEF Decide, Local, store, Untouched
    <3>2. job.production = production
      BY <2>4 DEF Decide, PreRelease
    <3>3. CASE job.production = None
      BY <3>1, <3>2, <3>3 DEF LiveHeld, Untouched
    <3>4. CASE pc' = "idle" /\ job' = NoJob
      BY <1>0, <3>1, <3>4, UntouchedPreRelease
    <3>5. CASE pc' \in {"align_current", "stage_old_config"} /\ job' = job
      BY <1>0, <3>1, <3>2, <3>5, UntouchedPreRelease DEF PreRelease
    <3> QED BY <2>4, <3>3, <3>4, <3>5 DEF Decide, End, Continue
  <2>5. CASE AlignCurrent
    <3>1. IdOf(production) \in Held
      BY <2>5 DEF AlignCurrent, PreRelease, Safe, JobInv, AfterStaging, Reading, Writing
    <3> QED BY <3>1, <1>3, AttemptCalm, CalmKeepsLiveHeld DEF LiveHeld
  <2>6. CASE StageOldConfig
    <3>1. /\ Untouched /\ (\A w \in inflight : w.key \in {"config", "manifest"})'
          /\ \/ pc' = "stage_old_manifest" /\ job' = job
             \/ pc' = "idle" /\ job' = NoJob
      BY <2>6, StagePreRelease DEF StageOldConfig, Continue
    <3>2. job.production = production
      BY <2>6 DEF StageOldConfig, Stage, PreRelease
    <3> QED BY <1>0, <3>1, <3>2, UntouchedPreRelease DEF PreRelease
  <2>7. CASE StageOldManifest
    <3> DEFINE txn == NewTransaction(IdOf(job.production), IdOf(job.candidate), job.previous)
    <3>1. /\ Untouched /\ (\A w \in inflight : w.key \in {"config", "manifest"})'
          /\ \/ pc' = "intent" /\ job' = [job EXCEPT !.txn = txn]
             \/ pc' = "idle" /\ job' = NoJob
      BY <2>7, StagePreRelease DEF StageOldManifest, Continue
    <3>2. pc = "stage_old_manifest" /\ job.production = production
          /\ job.production \in Contents
      BY <2>7 DEF StageOldManifest, Stage, PreRelease, Safe, JobInv, UpdateSteps
    <3>3. CASE pc' = "intent" /\ job' = [job EXCEPT !.txn = txn]
      <4>1. job'.txn.from = IdOf(job.production)
        <5>1. job' = [job EXCEPT !.txn = txn] /\ job \in Jobs
          BY <3>3 DEF Safe, JobInv, AttemptTypeOK
        <5>2. job'.txn = txn
          BY <5>1 DEF Jobs
        <5> QED BY <5>2 DEF NewTransaction
      <4>2. job'.txn \in Transactions /\ job'.txn # None
            /\ ReferencedReleaseIds(job'.txn) \subseteq Held'
        BY <3>3, SentinelsAssumption
        DEF Safe, JobInv, TxnSteps, Transactions, StoredDocuments
      <4>3. IdOf(production) \in Held'
        BY <3>2, <4>1, <4>2, IdOfContent DEF ReferencedReleaseIds
      <4> QED BY <3>1, <4>3 DEF LiveHeld, Untouched, IdOf
    <3>4. CASE pc' = "idle" /\ job' = NoJob
      BY <1>0, <3>1, <3>4, UntouchedPreRelease
    <3> QED BY <3>1, <3>3, <3>4
  <2>8. CASE Recover
    BY <1>0, <2>8 DEF Recover
  <2>9. \/ ReadIntent \/ StageConfig \/ StageManifest \/ ReadProduction
        \/ ReadCurrent \/ ReadPrevious \/ Recover \/ Decide \/ AlignCurrent
        \/ StageOldConfig \/ StageOldManifest
    BY <1>0, <1>3
    DEF Attempt, TxnSteps, RetireCheck, Retire, RepairPrevious, RepairCurrent, Repair,
        WriteIntent, FirstPointer, Activate, CommitPhase, VerifyPhase, FinalizePhase,
        AdvanceIntent, SwitchPrevious, SwitchCurrent, SwitchPointer, Check, Clear,
        UndoFirstPointer, UndoProduction, UndoCurrent, Undo, UndoPrevious, Abort
  <2> QED BY <2>1, <2>2, <2>3, <2>4, <2>5, <2>6, <2>7, <2>8, <2>9
<1> QED BY <1>1, <1>2, <1>3 DEF Next
-----------------------------------------------------------------------------
LEMMA Inductive == ASSUME IInv, [Next]_vars PROVE IInv'
<1>1. Safe /\ LiveInv
  BY DEF IInv, Safe
<1>2. Safe'
  BY <1>1, NextSafe
<1>3. Calm
  BY <1>1, NextCalm
<1>4. LiveHeld' \/ PreRelease'
  BY <1>1, <1>2, <1>3, CalmKeepsLiveHeld, PreReleaseStep DEF LiveInv
<1>5. LiveInv'
  BY <1>1, <1>3, <1>4, CalmKeepsLateWrites DEF LiveInv
<1> QED BY <1>2, <1>5 DEF IInv, Safe

\* IInv holds in every reachable state of publish_release_bundle, whatever the
\* contents, the faults and the fate of unresolved writes.
THEOREM InvariantHolds == Spec => []IInv
<1>1. Init => IInv
  BY InitSafe DEF IInv, Safe
<1>2. IInv /\ [Next]_vars => IInv'
  BY Inductive
<1> QED BY <1>1, <1>2, PTL DEF Spec

\* Every variable keeps its type: only well-formed intents and identities are
\* ever stored, and an attempt never carries the locals of another one.
THEOREM TypeCorrect == Spec => []TypeOK
<1>1. IInv => TypeOK
  BY DEF IInv, StoreInv, StoreTypeOK, JobInv, AttemptTypeOK, TypeOK
<1> QED BY <1>1, InvariantHolds, PTL

\* Neither pointer, nor the intent, nor a write still in flight ever names a
\* release whose configuration or manifest is missing: what
\* _ensure_immutable_release establishes before each reference is written
\* survives every crash, refusal, compensation and late write.
THEOREM ReferencesAlwaysStaged == Spec => []ReferencesAreStaged
<1>1. IInv => ReferencesAreStaged
  BY DEF IInv, StoreInv, ReferencesAreStaged, Held
<1> QED BY <1>1, InvariantHolds, PTL

\* Once releases are in use, the bytes clients download are always those of a
\* complete immutable release, so the live configuration can be recovered.
THEOREM LiveAlwaysAccountedFor == Spec => []LiveIsAccountedFor
<1>1. IInv => LiveIsAccountedFor
  BY DEF IInv, LiveInv, LiveHeld, PreRelease, LiveIsAccountedFor, Held
<1> QED BY <1>1, InvariantHolds, PTL

-----------------------------------------------------------------------------
(* When every attempt starts with no write in flight.                      *)

Kept == Live' = Live /\ Intent' = Intent /\ (Intent = None => Previous' = Previous)

Advanced ==
    /\ Intent # None /\ Intent' # None /\ Live' = Live
    /\ Intent' = Advance(Intent, Intent'.phase) /\ PhaseReached(Intent', Intent.phase)

OpenedNow == Intent = None /\ Live' = Live /\ Intent' # None /\ Openable(Intent')

Switched ==
    /\ Intent # None /\ Intent' = Intent
    /\ {Live, Live'} \subseteq {Intent.from, Intent.to}

ClosedNow ==
    /\ Intent # None /\ Intent' = None /\ Closable
    /\ Live' = Live /\ Previous' = Previous

Move == Kept \/ Advanced \/ OpenedNow \/ Switched \/ ClosedNow

\* The hypothesis and the conclusion of the lemma of each action.
Sound == IInv /\ SettledInv
Stepped == SettledInv' /\ Move
-----------------------------------------------------------------------------
(* The keys.                                                               *)
LEMMA IdOfInjective ==
    ASSUME NEW c \in OptionalContent, NEW d \in OptionalContent, IdOf(c) = IdOf(d)
    PROVE  c = d
  BY ContentsAssumption, SentinelsAssumption DEF IdOf, OptionalContent

LEMMA KeyTypes ==
    ASSUME IInv
    PROVE  /\ production \in OptionalContent
           /\ Live \in OptionalId /\ Current \in OptionalId /\ Previous \in OptionalId
           /\ Live = None <=> production = None
           /\ Intent \in Transactions \union {None}
           /\ job \in Jobs /\ base \in OptionalContent
<1>1. StoreTypeOK /\ AttemptTypeOK
  BY DEF IInv, StoreInv, JobInv
<1>2. Intent \in Transactions \union {None}
  BY <1>1, ParsedIntent DEF StoreTypeOK
<1>3. Live \in OptionalId /\ (Live = None <=> production = None)
  BY <1>1, IdOfContent DEF StoreTypeOK, Live, IdOf, OptionalContent, OptionalId
<1>4. Current \in OptionalId /\ Previous \in OptionalId
  BY <1>1 DEF StoreTypeOK, Current, Previous, ParsePointer, Pointers, OptionalId
<1> QED BY <1>1, <1>2, <1>3, <1>4 DEF StoreTypeOK, AttemptTypeOK

LEMMA TransactionFields ==
    ASSUME NEW txn \in Transactions
    PROVE  /\ txn # None /\ txn # Empty
           /\ txn.to \in ReleaseIds /\ txn.to # None /\ txn.to # Empty
           /\ txn.from \in OptionalId /\ txn.previous \in OptionalId
           /\ txn.from # txn.to /\ txn.from # Empty
           /\ txn.from = None => txn.previous = None
           /\ txn.phase \in Phases
<1>1. txn \in Documents /\ WellFormed(txn) /\ txn.phase \in Phases
  BY DEF Transactions, StoredDocuments
<1> QED BY <1>1, SentinelsAssumption DEF Documents, WellFormed, OptionalId

LEMMA IntentFields ==
    ASSUME IInv, Intent # None
    PROVE  /\ Intent \in Transactions /\ Intent # Empty
           /\ Intent.to \in ReleaseIds /\ Intent.to # None /\ Intent.to # Empty
           /\ Intent.from \in OptionalId /\ Intent.previous \in OptionalId
           /\ Intent.from # Intent.to /\ Intent.from # Empty
           /\ Intent.from = None => Intent.previous = None
           /\ Intent.phase \in Phases
  BY KeyTypes, TransactionFields

\* What a write does to the keys as the publisher reads them.
LEMMA PutEffect ==
    ASSUME IInv, NEW key, NEW value, Admissible(key, value), Put(key, value)
    PROVE  /\ key # "production" => production' = production /\ Live' = Live
           /\ key = "production" => production' = value /\ Live' = IdOf(value)
           /\ key # "current" => Current' = Current
           /\ key = "current" => Current' = ParsePointer(value)
           /\ key # "previous" => Previous' = Previous
           /\ key = "previous" => Previous' = ParsePointer(value)
           /\ key # "transaction" => Intent' = Intent
           /\ key = "transaction" => Intent' = (IF value = Empty THEN None ELSE value)
<1>1. key # "transaction" => Intent' = Intent
  BY DEF Put, Intent
<1>2. CASE key = "transaction" /\ value \in Transactions
  <2>1. intent' = value /\ value.phase # LegacyPhase /\ value # None /\ value # Empty
    BY <1>2, SentinelsAssumption
    DEF Put, Transactions, StoredDocuments, Phases, LegacyPhase
  <2>2. Intent' = value
    BY <2>1 DEF Intent, ParseTransaction
  <2> QED BY <1>1, <1>2, <2>1, <2>2 DEF Put, Live, Current, Previous
<1>3. CASE key = "transaction" /\ value = Empty
  BY <1>3 DEF Put, Intent, ParseTransaction, Live, Current, Previous
<1>4. CASE key # "transaction"
  BY <1>1, <1>4 DEF Put, Live, Current, Previous
<1> QED BY <1>2, <1>3, <1>4 DEF Admissible

LEMMA PutRepeats ==
    ASSUME NEW key, NEW value, Put(key, value), NEW w, w.key # key, Repeats(w)
    PROVE  Repeats(w)'
  BY DEF Put, Repeats, Holds

LEMMA SameKeys ==
    ASSUME UNCHANGED store
    PROVE  /\ production' = production /\ Live' = Live /\ Current' = Current
           /\ Previous' = Previous /\ Intent' = Intent
           /\ \A w : Repeats(w)' = Repeats(w)
  BY DEF store, Live, Current, Previous, Intent, Repeats, Holds
-----------------------------------------------------------------------------
(* The frame of a step: what the invariant asks of writes in flight, of an *)
(* attempt that ends and of one that goes on.                              *)
LEMMA BusyShape ==
    ASSUME Sound, pc # "idle"
    PROVE  Shape /\ (pc \in Before \/ pc \in Switch)
<1>1. pc \in Reading \union Writing
  BY DEF Sound, IInv, JobInv, AttemptTypeOK
<1>2. pc \in Before \/ pc \in Switch
  BY <1>1 DEF Reading, Writing, Before, Informed, Switch, Advancing, Undoing
<1>3. pc \in Before => Shape
  BY DEF Sound, SettledInv, BeforeInv
<1>4. pc \in Switch => Shape
  BY DEF Sound, SettledInv, SwitchInv, Shape
<1> QED BY <1>2, <1>3, <1>4

LEMMA NothingInFlight ==
    ASSUME Sound, pc \notin {"idle", "undo_current", "undo_previous", "abort"}
    PROVE  inflight = {}
  BY DEF Sound, SettledInv, InflightInv, Repeatable

LEMMA IdleStep ==
    ASSUME pc' = "idle", job' = NoJob
    PROVE  BeforeInv' /\ SwitchInv' /\ UndoInv'
  BY DEF BeforeInv, Before, Informed, SwitchInv, Switch, Opened, Advancing, Undoing,
     UndoInv, NoJob

LEMMA QuietStep ==
    ASSUME inflight' = {}, pc' # "idle"
    PROVE  InflightInv' /\ IdleInv'
  BY DEF InflightInv, IdleInv

LEMMA StepBefore ==
    ASSUME pc' \in Before, inflight' = {}, job'.errors = {}, BeforeInv'
    PROVE  SettledInv'
<1>1. pc' # "idle" /\ pc' \notin Switch /\ pc' \notin {"undo_current", "undo_previous"}
  BY DEF Before, Informed, Switch, Advancing, Undoing
<1>2. SwitchInv'
  BY <1>1 DEF SwitchInv, Switch, Opened, Advancing, Undoing
<1>3. UndoInv'
  BY <1>1 DEF UndoInv, Undoing, Switch
<1> QED BY <1>1, <1>2, <1>3, QuietStep DEF SettledInv

LEMMA StepWithin ==
    ASSUME pc' \in Switch, InflightInv', SwitchInv', UndoInv'
    PROVE  SettledInv'
<1>1. pc' # "idle" /\ pc' \notin Before
  BY DEF Before, Informed, Switch, Advancing, Undoing
<1>2. BeforeInv'
  BY <1>1 DEF BeforeInv, Before, Informed
<1>3. IdleInv'
  BY <1>1 DEF IdleInv
<1> QED BY <1>2, <1>3 DEF SettledInv

\* Nothing changed, except that a write in flight may have been resolved.
LEMMA SameState ==
    ASSUME SettledInv, UNCHANGED <<store, pc, job, report, base>>, inflight' \subseteq inflight
    PROVE  Stepped
<1>1. /\ production' = production /\ Live' = Live /\ Current' = Current
      /\ Previous' = Previous /\ Intent' = Intent
      /\ \A w : Repeats(w)' = Repeats(w)
  BY SameKeys
<1>2. Shape' = Shape /\ Switching' = Switching /\ Closable' = Closable
  BY <1>1 DEF Shape, Ready, Switching, Closable
<1>3. \A w \in inflight' : Late(w)' = Late(w)
  BY <1>1, <1>2 DEF Late, LateProduction, LateCurrent, LatePrevious, LateTransaction, Openable
<1>4. InflightInv'
  BY <1>1, <1>3 DEF SettledInv, InflightInv
<1>5. BeforeInv'
  BY <1>1, <1>2 DEF SettledInv, BeforeInv
<1>6. SwitchInv'
  BY <1>1, <1>2 DEF SettledInv, SwitchInv
<1>7. UndoInv'
  BY <1>1 DEF SettledInv, UndoInv
<1>8. IdleInv'
  BY <1>1, <1>2 DEF SettledInv, IdleInv
<1> QED BY <1>1, <1>4, <1>5, <1>6, <1>7, <1>8 DEF Stepped, SettledInv, Move, Kept

\* An attempt that ends without a write leaves what there was.
LEMMA EndsQuietly ==
    ASSUME Sound, pc # "idle", Local \/ Refused, NEW status, NEW changed, End(status, changed),
           status # "published", changed # "yes", changed = "no" => production = base
    PROVE  Stepped
<1>1. /\ UNCHANGED store /\ inflight' = inflight /\ base' = base
      /\ pc' = "idle" /\ job' = NoJob
      /\ report'.status = status /\ report'.changed = changed
  BY DEF Local, Refused, End
<1>2. /\ production' = production /\ Live' = Live /\ Current' = Current
      /\ Previous' = Previous /\ Intent' = Intent
      /\ \A w : Repeats(w)' = Repeats(w)
  BY <1>1, SameKeys
<1>3. Shape'
  BY <1>2, BusyShape DEF Shape, Ready, Switching
<1>4. IdleInv'
  BY <1>1, <1>2, <1>3 DEF IdleInv
<1>5. InflightInv'
  BY <1>1, <1>2 DEF Sound, SettledInv, InflightInv
<1> QED BY <1>1, <1>2, <1>4, <1>5, IdleStep DEF Stepped, SettledInv, Move, Kept

\* An attempt that ends with a write in flight: the late write must be one the
\* keys can bear, and the report must be right whatever becomes of it.
LEMMA EndsUnresolved ==
    ASSUME Sound, pc # "idle", NEW key, NEW value, NEW changed,
           Unresolved(key, value, changed),
           \A w \in inflight : w.key # key,
           Repeats(Write(key, value)) \/ Late(Write(key, value))',
           changed = "no" => production = base,
           changed = "yes" => production = job.candidate
    PROVE  Stepped
<1> DEFINE new == Write(key, value)
<1>1. /\ UNCHANGED store /\ inflight' = inflight \union {new} /\ base' = base
      /\ pc' = "idle" /\ job' = NoJob
      /\ report'.status = "unknown" /\ report'.changed = changed
      /\ report'.candidate = job.candidate
  BY DEF Unresolved, End
<1>2. /\ production' = production /\ Live' = Live /\ Current' = Current
      /\ Previous' = Previous /\ Intent' = Intent
      /\ \A w : Repeats(w)' = Repeats(w)
  BY <1>1, SameKeys
<1>3. Shape'
  BY <1>2, BusyShape DEF Shape, Ready, Switching
<1>4. IdleInv'
  BY <1>1, <1>2, <1>3 DEF IdleInv
<1>5. InflightInv'
  <2>1. \A w \in inflight : Repeats(w)
    BY DEF Sound, SettledInv, InflightInv
  <2>2. new.key = key
    BY DEF Write
  <2>3. \A v, w \in inflight' : v.key = w.key => v = w
    BY <1>1, <2>2 DEF Sound, SettledInv, InflightInv
  <2>4. \A v, w \in inflight' : ~Repeats(v)' /\ ~Repeats(w)' => v = w
    BY <1>1, <1>2, <2>1
  <2>5. \A w \in inflight' : Repeats(w)' \/ Late(w)'
    BY <1>1, <1>2, <2>1
  <2> QED BY <1>1, <2>3, <2>4, <2>5 DEF InflightInv
<1> QED BY <1>1, <1>2, <1>4, <1>5, IdleStep DEF Stepped, SettledInv, Move, Kept

LEMMA NewValue ==
    ASSUME NEW key, NEW value, Confirmed(key, value), ~Holds(key, value)
    PROVE  Put(key, value) /\ inflight' = inflight
  BY DEF Confirmed

LEMMA NewTxn ==
    ASSUME IInv, NEW txn, job' = [job EXCEPT !.txn = txn]
    PROVE  /\ job'.txn = txn /\ job'.candidate = job.candidate
           /\ job'.production = job.production /\ job'.current = job.current
           /\ job'.previous = job.previous /\ job'.errors = job.errors
  BY KeyTypes DEF Jobs
-----------------------------------------------------------------------------
(* Before the switch.                                                      *)
LEMMA BeginStep ==
    ASSUME Settled, Sound, NEW c \in Contents, Begin(c) PROVE Stepped
<1>1. /\ pc = "idle" /\ inflight = {} /\ pc' = "read_intent" /\ base' = production
      /\ UNCHANGED store /\ inflight' = inflight /\ job' = [NoJob EXCEPT !.candidate = c]
  BY DEF Begin, Local
<1>2. /\ production' = production /\ Live' = Live /\ Current' = Current
      /\ Previous' = Previous /\ Intent' = Intent
  BY <1>1, SameKeys
<1>3. Shape'
  BY <1>1, <1>2 DEF Sound, SettledInv, IdleInv, Shape, Ready, Switching
<1>4. BeforeInv'
  BY <1>1, <1>2, <1>3 DEF BeforeInv, Informed
<1>5. job'.errors = {}
  BY <1>1 DEF NoJob
<1> QED BY <1>1, <1>2, <1>4, <1>5, StepBefore DEF Stepped, Move, Kept, Before

LEMMA ReadIntentStep == ASSUME Sound, ReadIntent PROVE Stepped
<1>1. /\ pc = "read_intent" /\ UNCHANGED store /\ inflight' = inflight
      /\ base' = base /\ job' = [job EXCEPT !.txn = Intent]
      /\ pc' = IF Intent # None /\ Intent.to # IdOf(job.candidate)
               THEN "retire_check" ELSE "stage_config"
  BY DEF ReadIntent, Local, Continue
<1>2. /\ production' = production /\ Live' = Live /\ Current' = Current
      /\ Previous' = Previous /\ Intent' = Intent
  BY <1>1, SameKeys
<1>3. production = base /\ Shape /\ job.errors = {}
  BY <1>1 DEF Sound, SettledInv, BeforeInv, Before, UndoInv
<1>4. job'.txn = Intent /\ job'.candidate = job.candidate /\ job'.errors = {}
  BY <1>1, <1>3, NewTxn DEF Sound
<1>5. BeforeInv'
  BY <1>1, <1>2, <1>3, <1>4 DEF BeforeInv, Before, Informed, Shape, Ready, Switching
<1> QED BY <1>1, <1>2, <1>4, <1>5, StepBefore, NothingInFlight
        DEF Stepped, Move, Kept, Before, Informed

LEMMA RetireCheckStep == ASSUME Sound, RetireCheck PROVE Stepped
<1>1. CASE End("failed", "unsaid")
  BY <1>1, EndsQuietly DEF RetireCheck
<1>2. CASE CommittedState(job.txn) /\ Continue("retire", job)
  <2>1. /\ pc = "retire_check" /\ UNCHANGED store /\ inflight' = inflight
        /\ base' = base /\ job' = job /\ pc' = "retire"
    BY <1>2 DEF RetireCheck, Local, Continue
  <2>2. /\ production' = production /\ Live' = Live /\ Current' = Current
        /\ Previous' = Previous /\ Intent' = Intent
    BY <2>1, SameKeys
  <2>3. /\ production = base /\ Shape /\ job.errors = {}
        /\ Intent # None /\ job.txn = Intent /\ Intent.to # IdOf(job.candidate)
    BY <2>1 DEF Sound, SettledInv, BeforeInv, Before, UndoInv
  <2>4. Live = Intent.to /\ Current = Intent.to /\ Previous = Intent.from
    BY <1>2, <2>3 DEF CommittedState, Live, Current, Previous
  <2>5. BeforeInv'
    BY <2>1, <2>2, <2>3, <2>4 DEF BeforeInv, Before, Informed, Shape, Ready, Switching
  <2> QED BY <2>1, <2>2, <2>3, <2>5, StepBefore, NothingInFlight
          DEF Stepped, Move, Kept, Before
<1> QED BY <1>1, <1>2 DEF RetireCheck

LEMMA RetireStep == ASSUME Sound, Retire PROVE Stepped
<1>1. pc = "retire" /\ inflight = {}
  BY NothingInFlight DEF Retire
<1>2. /\ production = base /\ job.errors = {} /\ Intent # None /\ Closable
      /\ Live = Intent.to /\ Current = Intent.to /\ Previous = Intent.from
  BY <1>1 DEF Sound, SettledInv, BeforeInv, Before, UndoInv, Closable
<1>3. CASE /\ Confirmed("transaction", Empty)
           /\ Continue("stage_config", [job EXCEPT !.txn = None])
  <2>1. ~Holds("transaction", Empty)
    BY <1>2 DEF Holds, Intent, ParseTransaction
  <2>2. Put("transaction", Empty) /\ inflight' = {}
    BY <1>1, <1>3, <2>1, NewValue
  <2>3. /\ production' = production /\ Live' = Live /\ Current' = Current
        /\ Previous' = Previous /\ Intent' = None
    BY <2>2, ClearingWrite, PutEffect DEF Sound
  <2>4. pc' = "stage_config" /\ base' = base /\ job'.txn = None /\ job'.errors = {}
    BY <1>2, <1>3, NewTxn DEF Continue, Sound
  <2>5. Shape'
    BY <1>2, <2>3, IntentFields DEF Sound, Shape, Ready
  <2>6. BeforeInv'
    BY <1>2, <2>3, <2>4, <2>5 DEF BeforeInv, Informed
  <2> QED BY <1>2, <2>2, <2>3, <2>4, <2>6, StepBefore
          DEF Stepped, Move, ClosedNow, Before, Informed
<1>4. CASE Refused /\ End("failed", "unsaid")
  BY <1>1, <1>4, EndsQuietly
<1>5. CASE Unresolved("transaction", Empty, "no")
  <2>1. Closable' /\ Intent' # None
    BY <1>2, <1>5, SameKeys DEF Unresolved, Closable
  <2>2. Late(Write("transaction", Empty))'
    BY <2>1 DEF Late, LateTransaction, Write
  <2> QED BY <1>1, <1>2, <1>5, <2>2, EndsUnresolved
<1> QED BY <1>3, <1>4, <1>5 DEF Retire

\* Storing immutable objects changes none of the keys.
LEMMA StageStep ==
    ASSUME Sound, NEW at, NEW key \in {"config", "manifest"}, NEW stored,
           NEW content \in Contents, NEW step, NEW locals,
           at \in Before, Stage(at, key, stored, content, step, locals)
    PROVE  \/ Stepped
           \/ /\ Continue(step, locals) /\ inflight' = {} /\ Kept
              /\ production' = production /\ Current' = Current
              /\ Previous' = Previous /\ Shape'
<1>1. /\ pc = at /\ pc # "idle" /\ inflight = {} /\ Shape
      /\ production = base
  <2>1. pc = at
    BY DEF Stage
  <2>2. pc \notin {"idle", "undo_current", "undo_previous", "abort"}
    BY <2>1 DEF Before, Informed
  <2> QED BY <2>1, <2>2, NothingInFlight DEF Sound, SettledInv, BeforeInv
<1>2. CASE Local /\ Continue(step, locals)
  BY <1>1, <1>2, SameKeys DEF Local, Kept, Shape, Ready, Switching
<1>3. CASE Confirmed(key, content) /\ Continue(step, locals)
  <2>1. Put(key, content) /\ inflight' = {}
    BY <1>1, <1>3, NewValue DEF Holds
  <2>2. /\ production' = production /\ Live' = Live /\ Current' = Current
        /\ Previous' = Previous /\ Intent' = Intent
    BY <2>1, ContentWrite, PutEffect DEF Sound
  <2> QED BY <1>1, <1>3, <2>1, <2>2 DEF Kept, Shape, Ready, Switching
<1>4. CASE Unresolved(key, content, "no")
  <2>1. Late(Write(key, content))'
    BY DEF Late, Write
  <2> QED BY <1>1, <1>4, <2>1, EndsUnresolved
<1>5. CASE Refused /\ End("failed", "unsaid")
  BY <1>1, <1>5, EndsQuietly
<1> QED BY <1>2, <1>3, <1>4, <1>5 DEF Stage

LEMMA StageCandidateStep == ASSUME Sound, StageConfig \/ StageManifest PROVE Stepped
<1>1. /\ pc \in {"stage_config", "stage_manifest"}
      /\ job.candidate \in Contents /\ job.errors = {}
      /\ production = base /\ job.txn = Intent
      /\ Intent # None => Intent.to = IdOf(job.candidate)
  BY DEF StageConfig, StageManifest, Stage, Sound, IInv, JobInv, SettledInv, BeforeInv,
     Before, Informed, UndoInv
<1>2. \/ Stepped
      \/ /\ Continue("stage_manifest", job) \/ Continue("read_production", job)
         /\ inflight' = {} /\ Kept
         /\ production' = production /\ Current' = Current
         /\ Previous' = Previous /\ Shape'
  <2>1. CASE StageConfig
    BY <1>1, <2>1, StageStep DEF StageConfig, Before, Informed
  <2>2. CASE StageManifest
    BY <1>1, <2>2, StageStep DEF StageManifest, Before, Informed
  <2> QED BY <2>1, <2>2
<1>3. CASE /\ Continue("stage_manifest", job) \/ Continue("read_production", job)
           /\ inflight' = {} /\ Kept
           /\ production' = production /\ Current' = Current
           /\ Previous' = Previous /\ Shape'
  <2>1. BeforeInv'
    BY <1>1, <1>3 DEF BeforeInv, Before, Informed, Continue, Kept
  <2> QED BY <1>1, <1>3, <2>1, StepBefore DEF Stepped, Move, Before, Informed, Continue
<1> QED BY <1>2, <1>3

LEMMA ReadKeysStep ==
    ASSUME Sound, ReadProduction \/ ReadCurrent \/ ReadPrevious PROVE Stepped
<1>1. /\ pc \in {"read_production", "read_current", "read_previous"}
      /\ UNCHANGED store /\ inflight' = inflight /\ base' = base
  BY DEF ReadProduction, ReadCurrent, ReadPrevious, Local, Continue
<1>2. /\ production' = production /\ Live' = Live /\ Current' = Current
      /\ Previous' = Previous /\ Intent' = Intent
  BY <1>1, SameKeys
<1>3. /\ production = base /\ Shape /\ job.errors = {} /\ job.txn = Intent
      /\ Intent # None => Intent.to = IdOf(job.candidate)
      /\ pc # "read_production" => job.production = production
      /\ pc = "read_previous" => job.current = Current
  BY <1>1 DEF Sound, SettledInv, BeforeInv, Before, Informed, UndoInv
<1>4. /\ job'.txn = job.txn /\ job'.candidate = job.candidate /\ job'.errors = {}
      /\ \/ /\ pc = "read_production" /\ pc' = "read_current"
            /\ job'.production = production
         \/ /\ pc = "read_current" /\ pc' = "read_previous"
            /\ job'.production = job.production /\ job'.current = Current
         \/ /\ pc = "read_previous" /\ pc' = "reconcile"
            /\ job'.production = job.production /\ job'.current = job.current
            /\ job'.previous = Previous
  BY <1>3, KeyTypes
  DEF ReadProduction, ReadCurrent, ReadPrevious, Continue, Jobs, Sound, Current, Previous
<1>5. BeforeInv'
  BY <1>1, <1>2, <1>3, <1>4 DEF BeforeInv, Before, Informed, Shape, Ready, Switching
<1> QED BY <1>1, <1>2, <1>4, <1>5, StepBefore, NothingInFlight
        DEF Stepped, Move, Kept, Before, Informed

LEMMA RecoverStep == ASSUME Sound, Recover PROVE Stepped
<1>1. /\ pc = "reconcile" /\ Local /\ production = base
      /\ job.txn = Intent /\ Pending = Intent /\ Intent # None
      /\ job.production = production /\ job.current = Current /\ job.previous = Previous
      /\ Shape /\ job.errors = {}
  BY DEF Recover, Pending, Sound, SettledInv, BeforeInv, Before, Informed, UndoInv
<1>2. CASE \/ End("failed", "unsaid")
           \/ End("unknown", "unknown")
  BY <1>1, <1>2, EndsQuietly
<1>3. CASE /\ Intent.to = IdOf(job.candidate) /\ Activated(Intent)
           /\ Continue("repair_previous", [job EXCEPT !.txn = Intent])
  <2>1. /\ UNCHANGED store /\ inflight' = {} /\ base' = base /\ pc' = "repair_previous"
    BY <1>1, <1>3, NothingInFlight DEF Local, Continue
  <2>2. /\ production' = production /\ Live' = Live /\ Current' = Current
        /\ Previous' = Previous /\ Intent' = Intent
    BY <2>1, SameKeys
  <2>3. /\ job'.txn = Intent /\ job'.candidate = job.candidate /\ job'.errors = {}
        /\ job'.current = Current /\ job'.previous = Previous
    BY <1>1, <1>3, NewTxn DEF Continue, Sound
  <2>4. production = job.candidate
    BY <1>1, <1>3, KeyTypes, IdOfInjective DEF Activated, Sound, Jobs
  <2>5. Switching'
    BY <1>1, <2>2 DEF Shape, Switching
  <2>6. SwitchInv'
    BY <1>1, <1>3, <2>1, <2>2, <2>3, <2>4, <2>5
    DEF SwitchInv, Switch, Opened, Advancing, Undoing
  <2>7. UndoInv'
    BY <2>1, <2>3 DEF UndoInv, Undoing
  <2> QED BY <2>1, <2>2, <2>6, <2>7, QuietStep, StepWithin
          DEF Stepped, Move, Kept, Switch, Advancing
<1> QED BY <1>1, <1>2, <1>3 DEF Recover

LEMMA DecideStep == ASSUME Sound, Decide PROVE Stepped
<1>1. /\ pc = "reconcile" /\ Local /\ production = base
      /\ job.txn = Intent /\ Intent = None
      /\ job.production = production /\ job.current = Current /\ job.previous = Previous
      /\ Ready /\ job.errors = {} /\ job.candidate \in Contents
  BY DEF Decide, Pending, Sound, IInv, JobInv, SettledInv, BeforeInv, Before, Informed,
     UndoInv, Shape
<1>2. CASE \/ End("failed", "unsaid")
           \/ End("unchanged", "no")
  BY <1>1, <1>2, EndsQuietly
<1>3. CASE ~(End("failed", "unsaid") \/ End("unchanged", "no"))
  <2>1. UNCHANGED store /\ inflight' = {} /\ base' = base
    BY <1>1, <1>3, NothingInFlight DEF Decide, Local, Continue
  <2>2. /\ production' = production /\ Live' = Live /\ Current' = Current
        /\ Previous' = Previous /\ Intent' = Intent
    BY <2>1, SameKeys
  <2>3. Shape'
    BY <1>1, <2>2 DEF Shape, Ready
  <2>4. \/ /\ pc' = "align_current" /\ job' = job
           /\ production = job.candidate /\ Current = None /\ Previous = None
        \/ /\ pc' = "stage_old_config" /\ job' = job /\ production # job.candidate
        \/ /\ pc' = "intent" /\ production = None /\ Previous = None
           /\ job' = [job EXCEPT !.txn = NewTransaction(None, IdOf(job.candidate), None)]
    <3>1. Consistent
      BY <1>3 DEF Decide
    <3>2. Live = IdOf(production) /\ (production = None => Live = None)
      BY DEF Live, IdOf
    <3> QED BY <1>1, <1>3, <3>1, <3>2 DEF Decide, Consistent, Continue, Ready
  <2>5. CASE pc' # "intent"
    <3>1. BeforeInv'
      BY <1>1, <2>1, <2>2, <2>3, <2>4, <2>5 DEF BeforeInv, Before, Informed
    <3> QED BY <1>1, <2>1, <2>2, <2>4, <2>5, <3>1, StepBefore
            DEF Stepped, Move, Kept, Before, Informed
  <2>6. CASE pc' = "intent"
    <3>1. /\ job'.txn = NewTransaction(None, IdOf(job.candidate), None)
          /\ job'.candidate = job.candidate /\ job'.errors = {}
          /\ job'.production = production /\ job'.current = Current
          /\ job'.previous = Previous
      BY <1>1, <2>4, <2>6, NewTxn DEF Sound
    <3>2. Live = None /\ IdOf(job.candidate) # None
      BY <1>1, <2>4, <2>6, IdOfContent DEF Live, IdOf
    <3>3. BeforeInv'
      BY <1>1, <2>1, <2>2, <2>3, <2>4, <2>6, <3>1, <3>2 DEF BeforeInv, Before, Informed
    <3> QED BY <2>1, <2>2, <2>6, <3>1, <3>3, StepBefore DEF Stepped, Move, Kept, Before
  <2> QED BY <2>5, <2>6
<1> QED BY <1>2, <1>3

LEMMA AlignCurrentStep == ASSUME Sound, AlignCurrent PROVE Stepped
<1>0. PICK id : id = IdOf(job.candidate)
  OBVIOUS
<1>1. /\ pc = "align_current" /\ inflight = {} /\ production = base
      /\ Intent = None /\ production = job.candidate /\ Current = None /\ Previous = None
      /\ job.candidate \in Contents
  BY NothingInFlight
  DEF AlignCurrent, Sound, IInv, JobInv, SettledInv, BeforeInv, Before, Informed
<1>2. id \in ReleaseIds /\ id # None /\ id # Empty /\ Live = id
  BY <1>0, <1>1, IdOfContent DEF Live
<1>3. CASE Confirmed("current", id) /\ End("unchanged", "no")
  <2>1. ~Holds("current", id)
    BY <1>1, <1>2 DEF Holds, Current, ParsePointer
  <2>2. Put("current", id) /\ inflight' = {}
    BY <1>1, <1>3, <2>1, NewValue
  <2>3. Admissible("current", id)
    BY <1>2 DEF Admissible
  <2>4. /\ production' = production /\ Live' = Live /\ Current' = id
        /\ Previous' = Previous /\ Intent' = Intent
    BY <1>2, <2>2, <2>3, PutEffect DEF Sound, ParsePointer
  <2>5. /\ pc' = "idle" /\ job' = NoJob /\ base' = base
        /\ report'.status = "unchanged" /\ report'.changed = "no"
    BY <1>3 DEF End
  <2>6. IdleInv'
    BY <1>1, <1>2, <2>4, <2>5 DEF IdleInv, Shape, Ready
  <2>7. InflightInv'
    BY <2>2 DEF InflightInv
  <2> QED BY <1>1, <2>4, <2>5, <2>6, <2>7, IdleStep DEF Stepped, SettledInv, Move, Kept
<1>4. CASE Refused /\ End("failed", "unsaid")
  BY <1>1, <1>4, EndsQuietly
<1>5. CASE Unresolved("current", id, "no")
  <2>1. /\ Intent' = None /\ Live' = id /\ Current' = None /\ Previous' = None
    BY <1>1, <1>2, <1>5, SameKeys DEF Unresolved
  <2>2. Late(Write("current", id))'
    BY <1>2, <2>1 DEF Late, LateCurrent, Write
  <2> QED BY <1>1, <1>5, <2>2, EndsUnresolved
<1> QED BY <1>0, <1>3, <1>4, <1>5 DEF AlignCurrent

LEMMA StageOldStep == ASSUME Sound, StageOldConfig \/ StageOldManifest PROVE Stepped
<1> DEFINE txn == NewTransaction(IdOf(job.production), IdOf(job.candidate), job.previous)
<1>1. /\ pc \in {"stage_old_config", "stage_old_manifest"}
      /\ job.candidate \in Contents /\ job.production \in Contents /\ job.errors = {}
      /\ production = base /\ job.txn = Intent /\ Intent = None
      /\ job.production = production /\ job.current = Current /\ job.previous = Previous
      /\ production # job.candidate
  BY DEF StageOldConfig, StageOldManifest, Stage, Sound, IInv, JobInv, UpdateSteps,
     SettledInv, BeforeInv, Before, Informed, UndoInv
<1>2. \/ Stepped
      \/ /\ \/ Continue("stage_old_manifest", job)
            \/ Continue("intent", [job EXCEPT !.txn = txn])
         /\ inflight' = {} /\ Kept
         /\ production' = production /\ Current' = Current
         /\ Previous' = Previous /\ Shape'
  <2>1. CASE StageOldConfig
    BY <1>1, <2>1, StageStep DEF StageOldConfig, Before, Informed
  <2>2. CASE StageOldManifest
    BY <1>1, <2>2, StageStep DEF StageOldManifest, Before, Informed
  <2> QED BY <2>1, <2>2
<1>3. CASE /\ Continue("stage_old_manifest", job)
           /\ inflight' = {} /\ Kept
           /\ production' = production /\ Current' = Current
           /\ Previous' = Previous /\ Shape'
  <2>1. BeforeInv'
    BY <1>1, <1>3 DEF BeforeInv, Before, Informed, Continue, Kept
  <2> QED BY <1>1, <1>3, <2>1, StepBefore DEF Stepped, Move, Before, Informed, Continue
<1>4. CASE /\ Continue("intent", [job EXCEPT !.txn = txn])
           /\ inflight' = {} /\ Kept
           /\ production' = production /\ Current' = Current
           /\ Previous' = Previous /\ Shape'
  <2>1. /\ job'.txn = NewTransaction(Live, IdOf(job.candidate), Previous)
        /\ job'.candidate = job.candidate /\ job'.errors = {}
        /\ job'.production = production /\ job'.current = Current
        /\ job'.previous = Previous /\ pc' = "intent" /\ base' = base
    BY <1>1, <1>4, NewTxn DEF Sound, Continue, Live
  <2>2. Live # IdOf(job.candidate)
    BY <1>1, IdOfInjective DEF Live, OptionalContent
  <2>3. BeforeInv'
    BY <1>1, <1>4, <2>1, <2>2 DEF BeforeInv, Before, Informed, Kept
  <2> QED BY <1>4, <2>1, <2>3, StepBefore DEF Stepped, Move, Before
<1> QED BY <1>2, <1>3, <1>4
-----------------------------------------------------------------------------
(* The switch.                                                             *)
LEMMA SwitchFacts ==
    ASSUME Sound, pc \in Switch
    PROVE  /\ Intent # None /\ job.txn = Intent /\ Intent.to = IdOf(job.candidate)
           /\ Switching /\ job.candidate \in Contents
           /\ pc # "idle"
           /\ pc \notin {"undo_current", "undo_previous", "abort"} => inflight = {}
           /\ pc \notin {"undo_current", "undo_previous"} => job.errors = {}
<1>1. pc # "idle"
  BY DEF Switch, Advancing, Undoing
<1> QED
  BY <1>1, NothingInFlight
  DEF Sound, SettledInv, SwitchInv, UndoInv, IInv, JobInv

\* EndsUnresolved, with the lateness of the write judged from the state before.
LEMMA EndsLate ==
    ASSUME Sound, pc # "idle", NEW key, NEW value, NEW changed,
           Unresolved(key, value, changed),
           \A w \in inflight : w.key # key,
           \/ Repeats(Write(key, value))
           \/ key # "production" /\ Late(Write(key, value))
           \/ /\ key = "production" /\ Intent # None /\ changed = "unknown"
              /\ IdOf(value) \in {Intent.from, Intent.to},
           changed = "no" => production = base,
           changed = "yes" => production = job.candidate
    PROVE  Stepped
<1> DEFINE w == Write(key, value)
<1>1. /\ Live' = Live /\ Current' = Current /\ Previous' = Previous /\ Intent' = Intent
      /\ report'.changed = changed
  BY SameKeys DEF Unresolved, End
<1>2. w.key = key /\ w.value = value
  BY DEF Write
<1>3. Closable' = Closable
  BY <1>1 DEF Closable
<1>4. key # "production" /\ Late(w) => Late(w)'
  BY <1>1, <1>2, <1>3
  DEF Late, LateProduction, LateCurrent, LatePrevious, LateTransaction, Openable
<1>5. CASE /\ key = "production" /\ Intent # None /\ changed = "unknown"
           /\ IdOf(value) \in {Intent.from, Intent.to}
  <2>1. Late(w)'
    BY <1>1, <1>2, <1>5 DEF Late, LateProduction, IdOf
  <2> QED BY <2>1, EndsUnresolved
<1> QED BY <1>4, <1>5, EndsUnresolved

LEMMA WriteIntentStep == ASSUME Sound, WriteIntent PROVE Stepped
<1>0. PICK txn : txn = job.txn
  OBVIOUS
<1>1. /\ pc = "intent" /\ inflight = {} /\ production = base /\ Shape
      /\ Intent = None /\ job.errors = {} /\ job.candidate \in Contents
      /\ job.production = production /\ job.current = Current /\ job.previous = Previous
      /\ txn = NewTransaction(Live, IdOf(job.candidate), Previous)
      /\ Live # IdOf(job.candidate)
      /\ txn \in Transactions
  BY <1>0, NothingInFlight
  DEF WriteIntent, Sound, IInv, JobInv, TxnSteps, SettledInv, BeforeInv, Before,
      Informed, UndoInv
<1>2. /\ txn.from = Live /\ txn.to = IdOf(job.candidate) /\ txn.previous = Previous
      /\ Openable(txn) /\ Admissible("transaction", txn) /\ txn # Empty
  BY <1>1, TransactionFields DEF NewTransaction, Openable, Admissible
<1>3. CASE /\ Confirmed("transaction", txn)
           /\ Continue(IF txn.from = None THEN "first_pointer" ELSE "activate", job)
  <2>1. ~Holds("transaction", txn)
    <3>1. intent = txn => Intent = txn
      BY <1>1, ParsedIntent DEF Transactions, Sound, IInv, StoreInv, StoreTypeOK
    <3> QED BY <1>1, <3>1, TransactionFields DEF Holds
  <2>2. Put("transaction", txn) /\ inflight' = {}
    BY <1>1, <1>3, <2>1, NewValue
  <2>3. /\ production' = production /\ Live' = Live /\ Current' = Current
        /\ Previous' = Previous /\ Intent' = txn
    BY <1>2, <2>2, PutEffect DEF Sound
  <2>4. /\ base' = base /\ job' = job
        /\ pc' = IF txn.from = None THEN "first_pointer" ELSE "activate"
    BY <1>3 DEF Continue
  <2>5. Ready /\ txn # None
    BY <1>1, TransactionFields DEF Shape
  <2>6. Switching'
    BY <1>2, <2>3, <2>5 DEF Switching, Ready
  <2>7. Live = None => Current = None
    BY <2>5 DEF Ready
  <2>8. Current # txn.to
    BY <1>1, <1>2, <2>5, TransactionFields DEF Ready
  <2>9. SwitchInv'
    BY <1>0, <1>1, <1>2, <2>3, <2>4, <2>5, <2>6, <2>7, <2>8
    DEF SwitchInv, Switch, Opened, Advancing, Undoing, Live
  <2>10. UndoInv'
    BY <1>1, <2>4 DEF UndoInv, Undoing
  <2>11. OpenedNow
    BY <1>1, <1>2, <2>3, <2>5 DEF OpenedNow
  <2> QED BY <2>2, <2>4, <2>9, <2>10, <2>11, QuietStep, StepWithin DEF Stepped, Move, Switch
<1>4. CASE Refused /\ End("failed", "unsaid")
  BY <1>1, <1>4, EndsQuietly
<1>5. CASE Unresolved("transaction", txn, "no")
  <2>1. Late(Write("transaction", txn))
    BY <1>1, <1>2 DEF Late, LateTransaction, Write
  <2> QED BY <1>1, <1>5, <2>1, EndsLate
<1> QED BY <1>0, <1>3, <1>4, <1>5 DEF WriteIntent

LEMMA FirstPointerStep == ASSUME Sound, FirstPointer PROVE Stepped
<1>0. PICK id : id = job.txn.to
  OBVIOUS
<1>1. /\ pc = "first_pointer" /\ pc \in Switch /\ pc \in Opened
  BY DEF FirstPointer, Switch, Opened
<1>2. /\ inflight = {} /\ production = base /\ job.errors = {}
      /\ Intent # None /\ id = Intent.to /\ Intent.from = None /\ Current = None
      /\ job.txn = Intent /\ Intent.to = IdOf(job.candidate) /\ Switching
      /\ job.production = base /\ IdOf(base) = Intent.from
      /\ job.previous = Intent.previous /\ job.current = None
  BY <1>0, <1>1, SwitchFacts DEF Sound, SettledInv, SwitchInv
<1>3. id \in ReleaseIds /\ id # None /\ id # Empty /\ Intent.previous = None
  BY <1>2, IntentFields DEF Sound
<1>4. CASE Confirmed("current", id) /\ Continue("activate", job)
  <2>1. ~Holds("current", id)
    BY <1>2, <1>3 DEF Holds, Current, ParsePointer
  <2>2. Put("current", id) /\ inflight' = {}
    BY <1>2, <1>4, <2>1, NewValue
  <2>3. Admissible("current", id)
    BY <1>3 DEF Admissible
  <2>4. /\ production' = production /\ Live' = Live /\ Current' = id
        /\ Previous' = Previous /\ Intent' = Intent
    BY <1>3, <2>2, <2>3, PutEffect DEF Sound, ParsePointer
  <2>5. base' = base /\ job' = job /\ pc' = "activate"
    BY <1>4 DEF Continue
  <2>6. Switching' /\ Previous = Intent.previous
    BY <1>2, <1>3, <2>4 DEF Switching
  <2>7. SwitchInv'
    BY <1>2, <2>4, <2>5, <2>6 DEF SwitchInv, Switch, Opened, Advancing, Undoing
  <2>8. UndoInv'
    BY <1>2, <2>5 DEF UndoInv, Undoing
  <2> QED BY <1>2, <2>2, <2>4, <2>5, <2>7, <2>8, QuietStep, StepWithin
          DEF Stepped, Move, Kept, Switch
<1>5. CASE Refused /\ End("failed", "unsaid")
  BY <1>1, <1>5, EndsQuietly
<1>6. CASE Unresolved("current", id, "no")
  <2>1. Late(Write("current", id))
    BY <1>2 DEF Late, LateCurrent, Write
  <2> QED BY <1>1, <1>2, <1>6, <2>1, EndsLate
<1> QED BY <1>0, <1>4, <1>5, <1>6 DEF FirstPointer

LEMMA ActivateStep == ASSUME Sound, Activate PROVE Stepped
<1>0. PICK c : c = job.candidate
  OBVIOUS
<1>1. /\ pc = "activate" /\ pc \in Switch /\ pc \in Opened
  BY DEF Activate, Switch, Opened
<1>2. /\ inflight = {} /\ production = base /\ job.errors = {} /\ c \in Contents
      /\ Intent # None /\ job.txn = Intent /\ Intent.to = IdOf(c) /\ Switching
      /\ job.production = base /\ IdOf(base) = Intent.from
      /\ Previous = Intent.previous /\ job.previous = Intent.previous
      /\ Intent.from = None => job.current = None
      /\ IF Intent.from = None THEN Current = Intent.to ELSE Current # Intent.to
  BY <1>0, <1>1, SwitchFacts DEF Sound, SettledInv, SwitchInv
<1>3. Intent.from # Intent.to /\ Live = Intent.from
  BY <1>2, IntentFields DEF Sound, Live
<1>4. CASE Confirmed("production", c) /\ Continue("commit", job)
  <2>1. ~Holds("production", c)
    BY <1>2, <1>3 DEF Holds, Live
  <2>2. Put("production", c) /\ inflight' = {}
    BY <1>2, <1>4, <2>1, NewValue
  <2>3. Admissible("production", c)
    BY <1>2 DEF Admissible
  <2>4. /\ production' = c /\ Live' = Intent.to /\ Current' = Current
        /\ Previous' = Previous /\ Intent' = Intent
    BY <1>2, <2>2, <2>3, PutEffect DEF Sound
  <2>5. base' = base /\ job' = job /\ pc' = "commit"
    BY <1>4 DEF Continue
  <2>6. Switching'
    BY <1>2, <2>4 DEF Switching
  <2>7. SwitchInv'
    BY <1>0, <1>2, <2>4, <2>5, <2>6 DEF SwitchInv, Switch, Opened, Advancing, Undoing
  <2>8. UndoInv'
    BY <1>2, <2>5 DEF UndoInv, Undoing
  <2> QED BY <1>2, <1>3, <2>2, <2>4, <2>5, <2>7, <2>8, QuietStep, StepWithin
          DEF Stepped, Move, Switched, Switch, Advancing
<1>5. CASE /\ Refused
           /\ Continue(IF Intent.from = None THEN "undo_first_pointer"
                                             ELSE "undo_production", job)
  <2>1. /\ UNCHANGED store /\ inflight' = {} /\ base' = base /\ job' = job
        /\ pc' = IF Intent.from = None THEN "undo_first_pointer" ELSE "undo_production"
    BY <1>2, <1>5 DEF Refused, Continue
  <2>2. /\ production' = production /\ Live' = Live /\ Current' = Current
        /\ Previous' = Previous /\ Intent' = Intent
    BY <2>1, SameKeys
  <2>3. Switching'
    BY <1>2, <2>2 DEF Switching
  <2>4. SwitchInv'
    BY <1>0, <1>2, <2>1, <2>2, <2>3 DEF SwitchInv, Switch, Opened, Advancing, Undoing
  <2>5. UndoInv'
    BY <1>2, <2>1, <2>2 DEF UndoInv, Undoing
  <2> QED BY <2>1, <2>2, <2>4, <2>5, QuietStep, StepWithin
          DEF Stepped, Move, Kept, Switch, Undoing
<1>6. CASE Unresolved("production", c, "unknown")
  BY <1>1, <1>2, <1>6, EndsLate
<1> QED BY <1>0, <1>2, <1>4, <1>5, <1>6 DEF Activate

\* Recovery joins the switch where the pointers are moved.
LEMMA RepairPreviousStep == ASSUME Sound, RepairPrevious PROVE Stepped
<1>0. PICK value : value = PointerValue(job.txn.from)
  OBVIOUS
<1>1. /\ pc = "repair_previous" /\ pc \in Switch /\ pc \in Advancing /\ pc \notin Opened
  BY DEF RepairPrevious, Repair, Switch, Opened, Advancing, Undoing
<1>2. /\ inflight = {} /\ job.errors = {} /\ production = job.candidate
      /\ Intent # None /\ job.txn = Intent /\ Intent.to = IdOf(job.candidate) /\ Switching
      /\ job.previous = Previous /\ job.current = Current
      /\ value = PointerValue(Intent.from)
  BY <1>0, <1>1, SwitchFacts DEF Sound, SettledInv, SwitchInv
<1>3. /\ Admissible("previous", value) /\ ParsePointer(value) = Intent.from
  BY <1>2, IntentFields, SentinelsAssumption
  DEF Sound, PointerValue, ParsePointer, Admissible, OptionalId
<1>4. CASE /\ Previous = Intent.from /\ Local /\ Continue("repair_current", job)
  <2>1. /\ UNCHANGED store /\ inflight' = {} /\ base' = base /\ job' = job
        /\ pc' = "repair_current"
    BY <1>2, <1>4 DEF Local, Continue
  <2>2. /\ production' = production /\ Live' = Live /\ Current' = Current
        /\ Previous' = Previous /\ Intent' = Intent
    BY <2>1, SameKeys
  <2>3. Switching'
    BY <1>2, <2>2 DEF Switching
  <2>4. SwitchInv'
    BY <1>2, <1>4, <2>1, <2>2, <2>3 DEF SwitchInv, Switch, Opened, Advancing, Undoing
  <2>5. UndoInv'
    BY <1>2, <2>1 DEF UndoInv, Undoing
  <2> QED BY <2>1, <2>2, <2>4, <2>5, QuietStep, StepWithin
          DEF Stepped, Move, Kept, Switch, Advancing
<1>5. CASE /\ Previous # Intent.from
           /\ Confirmed("previous", value) /\ Continue("repair_current", job)
  <2>1. ~Holds("previous", value)
    BY <1>3, <1>5 DEF Holds, Previous
  <2>2. Put("previous", value) /\ inflight' = {}
    BY <1>2, <1>5, <2>1, NewValue
  <2>3. /\ production' = production /\ Live' = Live /\ Current' = Current
        /\ Previous' = Intent.from /\ Intent' = Intent
    BY <1>3, <2>2, PutEffect DEF Sound
  <2>4. base' = base /\ job' = job /\ pc' = "repair_current"
    BY <1>5 DEF Continue
  <2>5. Switching'
    BY <1>2, <2>3 DEF Switching
  <2>6. SwitchInv'
    BY <1>2, <2>3, <2>4, <2>5 DEF SwitchInv, Switch, Opened, Advancing, Undoing
  <2>7. UndoInv'
    BY <1>2, <2>4 DEF UndoInv, Undoing
  <2> QED BY <1>2, <2>2, <2>3, <2>4, <2>6, <2>7, QuietStep, StepWithin
          DEF Stepped, Move, Kept, Switch, Advancing
<1>6. CASE Refused /\ End("failed", "unsaid")
  BY <1>1, <1>6, EndsQuietly
<1>7. CASE Unresolved("previous", value, "yes")
  <2>1. Late(Write("previous", value))
    BY <1>2 DEF Late, LatePrevious, Write
  <2> QED BY <1>1, <1>2, <1>7, <2>1, EndsLate
<1> QED BY <1>0, <1>2, <1>4, <1>5, <1>6, <1>7 DEF RepairPrevious, Repair

LEMMA RepairCurrentStep == ASSUME Sound, RepairCurrent PROVE Stepped
<1>0. PICK value : value = PointerValue(job.txn.to)
  OBVIOUS
<1>1. /\ pc = "repair_current" /\ pc \in Switch /\ pc \in Advancing /\ pc \notin Opened
  BY DEF RepairCurrent, Repair, Switch, Opened, Advancing, Undoing
<1>2. /\ inflight = {} /\ job.errors = {} /\ production = job.candidate
      /\ Intent # None /\ job.txn = Intent /\ Intent.to = IdOf(job.candidate) /\ Switching
      /\ job.current = Current /\ Previous = Intent.from
      /\ value = PointerValue(Intent.to)
  BY <1>0, <1>1, SwitchFacts DEF Sound, SettledInv, SwitchInv
<1>3. /\ Admissible("current", value) /\ ParsePointer(value) = Intent.to /\ value = Intent.to
  BY <1>2, IntentFields DEF Sound, PointerValue, ParsePointer, Admissible
<1>4. CASE /\ Current = Intent.to /\ Local /\ Continue("verify", job)
  <2>1. /\ UNCHANGED store /\ inflight' = {} /\ base' = base /\ job' = job
        /\ pc' = "verify"
    BY <1>2, <1>4 DEF Local, Continue
  <2>2. /\ production' = production /\ Live' = Live /\ Current' = Current
        /\ Previous' = Previous /\ Intent' = Intent
    BY <2>1, SameKeys
  <2>3. Switching'
    BY <1>2, <2>2 DEF Switching
  <2>4. SwitchInv'
    BY <1>2, <1>4, <2>1, <2>2, <2>3 DEF SwitchInv, Switch, Opened, Advancing, Undoing
  <2>5. UndoInv'
    BY <1>2, <2>1 DEF UndoInv, Undoing
  <2> QED BY <2>1, <2>2, <2>4, <2>5, QuietStep, StepWithin
          DEF Stepped, Move, Kept, Switch, Advancing
<1>5. CASE /\ Current # Intent.to
           /\ Confirmed("current", value) /\ Continue("verify", job)
  <2>1. ~Holds("current", value)
    BY <1>3, <1>5 DEF Holds, Current
  <2>2. Put("current", value) /\ inflight' = {}
    BY <1>2, <1>5, <2>1, NewValue
  <2>3. /\ production' = production /\ Live' = Live /\ Current' = Intent.to
        /\ Previous' = Previous /\ Intent' = Intent
    BY <1>3, <2>2, PutEffect DEF Sound
  <2>4. base' = base /\ job' = job /\ pc' = "verify"
    BY <1>5 DEF Continue
  <2>5. Switching'
    BY <1>2, <2>3 DEF Switching
  <2>6. SwitchInv'
    BY <1>2, <2>3, <2>4, <2>5 DEF SwitchInv, Switch, Opened, Advancing, Undoing
  <2>7. UndoInv'
    BY <1>2, <2>4 DEF UndoInv, Undoing
  <2> QED BY <1>2, <2>2, <2>3, <2>4, <2>6, <2>7, QuietStep, StepWithin
          DEF Stepped, Move, Kept, Switch, Advancing
<1>6. CASE Refused /\ End("failed", "unsaid")
  BY <1>1, <1>6, EndsQuietly
<1>7. CASE Unresolved("current", value, "yes")
  <2>1. Late(Write("current", value))
    BY <1>2, <1>3 DEF Late, LateCurrent, Write
  <2> QED BY <1>1, <1>2, <1>7, <2>1, EndsLate
<1> QED BY <1>0, <1>2, <1>4, <1>5, <1>6, <1>7 DEF RepairCurrent, Repair

\* The three writes of a later phase.
LEMMA AdvanceStep ==
    ASSUME Sound, NEW at \in {"commit", "verify", "finalize"}, NEW phase \in Phases,
           NEW step, AdvanceIntent(at, phase, step)
    PROVE  \/ Stepped
           \/ /\ pc' = step /\ inflight' = {} /\ base' = base /\ Move
              /\ production' = production /\ Live' = Live /\ Current' = Current
              /\ Previous' = Previous /\ Intent' # None
              /\ Intent'.from = Intent.from /\ Intent'.to = Intent.to
              /\ Intent'.previous = Intent.previous
              /\ job'.txn = Intent' /\ job'.candidate = job.candidate
              /\ job'.production = job.production /\ job'.current = job.current
              /\ job'.previous = job.previous /\ job'.errors = job.errors
<1>0. PICK txn : txn = Advance(job.txn, phase)
  OBVIOUS
<1>1. /\ pc = at /\ pc \in Switch /\ pc \in Advancing
  BY DEF AdvanceIntent, Switch, Advancing
<1>2. /\ inflight = {} /\ production = job.candidate
      /\ Intent # None /\ job.txn = Intent
  BY <1>1, SwitchFacts DEF Sound, SettledInv, SwitchInv
<1>3. /\ txn = Advance(Intent, phase) /\ txn \in Transactions /\ txn # Empty /\ txn # None
      /\ txn.from = Intent.from /\ txn.to = Intent.to /\ txn.previous = Intent.previous
      /\ txn.phase = phase
  <2>1. Intent \in Transactions
    BY <1>2, KeyTypes DEF Sound
  <2>2. txn = [Intent EXCEPT !.phase = phase]
    BY <1>0, <1>2 DEF Advance
  <2>3. txn \in Transactions
    BY <2>1, <2>2 DEF Transactions, StoredDocuments, Documents, WellFormed
  <2> QED BY <1>0, <1>2, <2>1, <2>2, <2>3, TransactionFields
          DEF Transactions, StoredDocuments, Documents
<1>4. CASE PhaseReached(job.txn, phase) /\ Local /\ Continue(step, job)
  BY <1>2, <1>4, SameKeys DEF Local, Continue, Move, Kept
<1>5. CASE /\ ~PhaseReached(job.txn, phase)
           /\ Confirmed("transaction", txn) /\ Continue(step, [job EXCEPT !.txn = txn])
  <2>1. PhaseReached(txn, Intent.phase) /\ txn # Intent
    <3>1. Intent.phase \in Phases
      BY <1>2, IntentFields DEF Sound
    <3>2. PhaseIndex[Intent.phase] \in Nat /\ PhaseIndex[phase] \in Nat
      BY <3>1 DEF PhaseIndex, Phases
    <3>3. ~(PhaseIndex[Intent.phase] >= PhaseIndex[phase])
      BY <1>2, <1>5 DEF PhaseReached
    <3> QED BY <1>3, <3>2, <3>3 DEF PhaseReached
  <2>2. ~Holds("transaction", txn)
    <3>1. intent = txn => Intent = txn
      BY <1>3, ParsedIntent DEF Transactions, Sound, IInv, StoreInv, StoreTypeOK
    <3> QED BY <2>1, <3>1 DEF Holds
  <2>3. Put("transaction", txn) /\ inflight' = {}
    BY <1>2, <1>5, <2>2, NewValue
  <2>4. /\ production' = production /\ Live' = Live /\ Current' = Current
        /\ Previous' = Previous /\ Intent' = txn
    BY <1>3, <2>3, PutEffect DEF Sound, Admissible
  <2>5. Advanced
    BY <1>2, <1>3, <2>1, <2>4 DEF Advanced
  <2> QED BY <1>3, <1>5, <2>3, <2>4, <2>5, NewTxn DEF Continue, Move, Sound
<1>6. CASE Refused /\ End("failed", "unsaid")
  BY <1>1, <1>6, EndsQuietly, SwitchFacts
<1>7. CASE ~PhaseReached(job.txn, phase) /\ Unresolved("transaction", txn, "yes")
  <2>1. PhaseReached(txn, Intent.phase)
    <3>1. Intent.phase \in Phases
      BY <1>2, IntentFields DEF Sound
    <3>2. PhaseIndex[Intent.phase] \in Nat /\ PhaseIndex[phase] \in Nat
      BY <3>1 DEF PhaseIndex, Phases
    <3>3. ~(PhaseIndex[Intent.phase] >= PhaseIndex[phase])
      BY <1>2, <1>7 DEF PhaseReached
    <3> QED BY <1>3, <3>2, <3>3 DEF PhaseReached
  <2>2. Late(Write("transaction", txn))
    BY <1>2, <1>3, <2>1 DEF Late, LateTransaction, Write
  <2> QED BY <1>1, <1>2, <1>7, <2>2, EndsLate, SwitchFacts
<1> QED BY <1>0, <1>4, <1>5, <1>6, <1>7 DEF AdvanceIntent

LEMMA PhaseStep == ASSUME Sound, CommitPhase \/ VerifyPhase \/ FinalizePhase PROVE Stepped
<1>1. pc \in {"commit", "verify", "finalize"} /\ pc \in Switch /\ pc \in Advancing
  BY DEF CommitPhase, VerifyPhase, FinalizePhase, AdvanceIntent, Switch, Advancing
<1>2. /\ production = job.candidate /\ job.errors = {}
      /\ Intent # None /\ job.txn = Intent /\ Intent.to = IdOf(job.candidate) /\ Switching
      /\ Intent.from = None => Intent.previous = None
  BY <1>1, SwitchFacts, IntentFields DEF Sound, SettledInv, SwitchInv
<1>3. pc = "commit" =>
         /\ job.production = base /\ IdOf(base) = Intent.from
         /\ job.previous = Intent.previous /\ Previous = Intent.previous
         /\ Intent.from = None => job.current = None
         /\ IF Intent.from = None THEN Current = Intent.to ELSE Current # Intent.to
  BY <1>1 DEF Sound, SettledInv, SwitchInv, Opened
<1>4. pc # "commit" => Current = Intent.to /\ Previous = Intent.from
  BY <1>1 DEF Sound, SettledInv, SwitchInv
<1>5. \/ Stepped
      \/ /\ inflight' = {} /\ base' = base /\ Move
         /\ \/ /\ pc = "commit"
               /\ pc' = IF Intent.from = None THEN "verify" ELSE "previous"
            \/ pc = "verify" /\ pc' = "check"
            \/ pc = "finalize" /\ pc' = "clear"
         /\ production' = production /\ Live' = Live /\ Current' = Current
         /\ Previous' = Previous /\ Intent' # None
         /\ Intent'.from = Intent.from /\ Intent'.to = Intent.to
         /\ Intent'.previous = Intent.previous
         /\ job'.txn = Intent' /\ job'.candidate = job.candidate
         /\ job'.production = job.production /\ job'.current = job.current
         /\ job'.previous = job.previous /\ job'.errors = job.errors
  <2>0. {"commit", "verify", "finalize"} \subseteq Phases
    BY DEF Phases
  <2>1. CASE CommitPhase
    <3>1. AdvanceIntent("commit", "commit", IF Intent.from = None THEN "verify" ELSE "previous")
      BY <1>2, <2>1 DEF CommitPhase
    <3>2. pc = "commit"
      BY <3>1 DEF AdvanceIntent
    <3> QED BY <2>0, <3>1, <3>2, AdvanceStep
  <2>2. CASE VerifyPhase
    <3>1. pc = "verify"
      BY <2>2 DEF VerifyPhase, AdvanceIntent
    <3> QED BY <2>0, <2>2, <3>1, AdvanceStep DEF VerifyPhase
  <2>3. CASE FinalizePhase
    <3>1. pc = "finalize"
      BY <2>3 DEF FinalizePhase, AdvanceIntent
    <3> QED BY <2>0, <2>3, <3>1, AdvanceStep DEF FinalizePhase
  <2> QED BY <2>1, <2>2, <2>3
<1>6. CASE /\ inflight' = {} /\ base' = base /\ Move
           /\ \/ /\ pc = "commit"
                 /\ pc' = IF Intent.from = None THEN "verify" ELSE "previous"
              \/ pc = "verify" /\ pc' = "check"
              \/ pc = "finalize" /\ pc' = "clear"
           /\ production' = production /\ Live' = Live /\ Current' = Current
           /\ Previous' = Previous /\ Intent' # None
           /\ Intent'.from = Intent.from /\ Intent'.to = Intent.to
           /\ Intent'.previous = Intent.previous
           /\ job'.txn = Intent' /\ job'.candidate = job.candidate
           /\ job'.production = job.production /\ job'.current = job.current
           /\ job'.previous = job.previous /\ job'.errors = job.errors
  <2>1. Switching'
    BY <1>2, <1>6 DEF Switching
  <2>2. SwitchInv'
    BY <1>2, <1>3, <1>4, <1>6, <2>1 DEF SwitchInv, Switch, Opened, Advancing, Undoing
  <2>3. UndoInv'
    BY <1>2, <1>6 DEF UndoInv, Undoing
  <2> QED BY <1>6, <2>2, <2>3, QuietStep, StepWithin DEF Stepped, Switch, Advancing
<1> QED BY <1>5, <1>6

LEMMA SwitchPointerStep == ASSUME Sound, SwitchPrevious \/ SwitchCurrent PROVE Stepped
<1>1. pc \in {"previous", "current"} /\ pc \in Switch /\ pc \in Opened /\ pc \in Advancing
  BY DEF SwitchPrevious, SwitchCurrent, SwitchPointer, Switch, Opened, Advancing
<1>2. /\ inflight = {} /\ job.errors = {} /\ production = job.candidate
      /\ Intent # None /\ job.txn = Intent /\ Intent.to = IdOf(job.candidate) /\ Switching
      /\ job.production = base /\ IdOf(base) = Intent.from
      /\ job.previous = Intent.previous
      /\ Intent.from # None /\ Current # Intent.to
      /\ pc = "previous" => Previous = Intent.previous
      /\ pc = "current" => Previous = Intent.from
  BY <1>1, SwitchFacts DEF Sound, SettledInv, SwitchInv
<1>3. PICK key, id, step :
         /\ SwitchPointer(pc, key, id, step)
         /\ \/ pc = "previous" /\ key = "previous" /\ id = Intent.from /\ step = "current"
            \/ pc = "current" /\ key = "current" /\ id = Intent.to /\ step = "verify"
  <2>1. CASE SwitchPrevious
    <3>1. pc = "previous"
      BY <2>1 DEF SwitchPrevious, SwitchPointer
    <3> QED BY <1>2, <2>1, <3>1 DEF SwitchPrevious
  <2>2. CASE SwitchCurrent
    <3>1. pc = "current"
      BY <2>2 DEF SwitchCurrent, SwitchPointer
    <3> QED BY <1>2, <2>2, <3>1 DEF SwitchCurrent
  <2> QED BY <2>1, <2>2
<1>4. id \in ReleaseIds /\ id # Empty /\ id # None /\ Admissible(key, id) /\ ParsePointer(id) = id
  BY <1>2, <1>3, IntentFields DEF Sound, OptionalId, Admissible, ParsePointer
<1>5. CASE Confirmed(key, id) /\ Continue(step, job)
  <2>1. ~Holds(key, id)
    BY <1>2, <1>3, <1>4 DEF Holds, Current, Previous, Switching
  <2>2. Put(key, id) /\ inflight' = {}
    BY <1>2, <1>5, <2>1, NewValue
  <2>3. /\ production' = production /\ Live' = Live /\ Intent' = Intent
        /\ pc = "previous" => Previous' = Intent.from /\ Current' = Current
        /\ pc = "current" => Previous' = Previous /\ Current' = Intent.to
    BY <1>3, <1>4, <2>2, PutEffect DEF Sound
  <2>4. base' = base /\ job' = job /\ pc' = step
    BY <1>5 DEF Continue
  <2>5. Switching'
    BY <1>2, <1>3, <2>3 DEF Switching
  <2>6. SwitchInv'
    BY <1>2, <1>3, <2>3, <2>4, <2>5 DEF SwitchInv, Switch, Opened, Advancing, Undoing
  <2>7. UndoInv'
    BY <1>2, <1>3, <2>4 DEF UndoInv, Undoing
  <2> QED BY <1>2, <1>3, <2>2, <2>3, <2>4, <2>6, <2>7, QuietStep, StepWithin
          DEF Stepped, Move, Kept, Switch, Advancing
<1>6. CASE Refused /\ Continue("undo_production", job)
  <2>1. /\ UNCHANGED store /\ inflight' = {} /\ base' = base /\ job' = job
        /\ pc' = "undo_production"
    BY <1>2, <1>6 DEF Refused, Continue
  <2>2. /\ production' = production /\ Live' = Live /\ Current' = Current
        /\ Previous' = Previous /\ Intent' = Intent
    BY <2>1, SameKeys
  <2>3. Switching'
    BY <1>2, <2>2 DEF Switching
  <2>4. SwitchInv'
    BY <1>2, <2>1, <2>2, <2>3 DEF SwitchInv, Switch, Opened, Advancing, Undoing
  <2>5. UndoInv'
    BY <1>2, <2>1, <2>2 DEF UndoInv, Undoing
  <2> QED BY <2>1, <2>2, <2>4, <2>5, QuietStep, StepWithin
          DEF Stepped, Move, Kept, Switch, Undoing
<1>7. CASE Unresolved(key, id, "yes")
  <2>1. Late(Write(key, id))
    BY <1>2, <1>3 DEF Late, LateCurrent, LatePrevious, Write, PointerValue
  <2>2. key # "production" /\ pc # "idle"
    BY <1>3
  <2> QED BY <1>2, <1>7, <2>1, <2>2, EndsLate
<1> QED BY <1>3, <1>5, <1>6, <1>7 DEF SwitchPointer

LEMMA CheckStep == ASSUME Sound, Check PROVE Stepped
<1>1. pc = "check" /\ pc \in Switch /\ pc \in Advancing /\ Local
  BY DEF Check, Switch, Advancing
<1>2. CASE End("unknown", "unknown")
  BY <1>1, <1>2, EndsQuietly
<1>3. CASE Continue("finalize", job)
  <2>1. /\ inflight = {} /\ job.errors = {} /\ production = job.candidate
        /\ Intent # None /\ job.txn = Intent /\ Intent.to = IdOf(job.candidate) /\ Switching
        /\ Current = Intent.to /\ Previous = Intent.from
    BY <1>1, SwitchFacts DEF Sound, SettledInv, SwitchInv
  <2>2. /\ UNCHANGED store /\ inflight' = {} /\ base' = base /\ job' = job
        /\ pc' = "finalize"
    BY <1>1, <1>3, <2>1 DEF Local, Continue
  <2>3. /\ production' = production /\ Live' = Live /\ Current' = Current
        /\ Previous' = Previous /\ Intent' = Intent
    BY <2>2, SameKeys
  <2>4. Switching'
    BY <2>1, <2>3 DEF Switching
  <2>5. SwitchInv'
    BY <2>1, <2>2, <2>3, <2>4 DEF SwitchInv, Switch, Opened, Advancing, Undoing
  <2>6. UndoInv'
    BY <2>1, <2>2 DEF UndoInv, Undoing
  <2> QED BY <2>2, <2>3, <2>5, <2>6, QuietStep, StepWithin
          DEF Stepped, Move, Kept, Switch, Advancing
<1> QED BY <1>2, <1>3 DEF Check

\* Withdrawing an intent whose switch is complete, or entirely undone.
LEMMA WithdrawnIsReady ==
    ASSUME Sound, Intent # None, Switching, Closable,
           Live' = Live, Current' = Current, Previous' = Previous, Intent' = None
    PROVE  /\ Shape'
           /\ Live = Intent.to =>
                 Live' # None /\ Current' = Live' /\ Previous' # Live'
  BY IntentFields DEF Sound, Switching, Closable, Shape, Ready

LEMMA ClearStep == ASSUME Sound, Clear PROVE Stepped
<1>1. pc = "clear" /\ pc \in Switch /\ pc \in Advancing /\ pc # "idle"
  BY DEF Clear, Switch, Advancing
<1>2. /\ inflight = {} /\ production = job.candidate /\ job.candidate \in Contents
      /\ Intent # None /\ Intent.to = IdOf(job.candidate) /\ Switching
      /\ Current = Intent.to /\ Previous = Intent.from /\ Live = Intent.to /\ Closable
  BY <1>1, SwitchFacts DEF Sound, SettledInv, SwitchInv, Closable, Live
<1>3. CASE Confirmed("transaction", Empty) /\ End("published", "yes")
  <2>1. ~Holds("transaction", Empty)
    BY <1>2 DEF Holds, Intent, ParseTransaction
  <2>2. Put("transaction", Empty) /\ inflight' = {}
    BY <1>2, <1>3, <2>1, NewValue
  <2>3. /\ production' = production /\ Live' = Live /\ Current' = Current
        /\ Previous' = Previous /\ Intent' = None
    BY <2>2, ClearingWrite, PutEffect DEF Sound
  <2>4. /\ pc' = "idle" /\ job' = NoJob /\ report'.status = "published"
        /\ report'.changed = "yes" /\ report'.candidate = job.candidate
    BY <1>3 DEF End
  <2>5. production # None
    BY <1>2, ContentsAssumption
  <2>6. IdleInv'
    BY <1>2, <2>2, <2>3, <2>4, <2>5, WithdrawnIsReady DEF IdleInv
  <2>7. InflightInv'
    BY <2>2 DEF InflightInv
  <2>8. ClosedNow
    BY <1>2, <2>3 DEF ClosedNow
  <2> QED BY <2>4, <2>6, <2>7, <2>8, IdleStep DEF Stepped, SettledInv, Move
<1>4. CASE Refused /\ End("failed", "unsaid")
  BY <1>1, <1>4, EndsQuietly
<1>5. CASE Unresolved("transaction", Empty, "yes")
  <2>1. Late(Write("transaction", Empty))
    BY <1>2 DEF Late, LateTransaction, Write
  <2> QED BY <1>1, <1>2, <1>5, <2>1, EndsLate
<1> QED BY <1>3, <1>4, <1>5 DEF Clear
-----------------------------------------------------------------------------
(* The compensation.  A restoring write may repeat what its key holds, and *)
(* such a repetition is all that can be in flight while the attempt runs.  *)
LEMMA RestoredInFlight ==
    ASSUME Sound, pc # "idle", NEW key, NEW value, Confirmed(key, value),
           \A w \in inflight : w.key # key
    PROVE  /\ \A w \in inflight' : Repeats(w)' /\ (w \in inflight \/ w.key = key)
           /\ \A v, w \in inflight' : v.key = w.key => v = w
<1> DEFINE new == Write(key, value)
<1>1. /\ Put(key, value) /\ new.key = key /\ new.value = value
      /\ \A w \in inflight' : w \in inflight \/ (w = new /\ Holds(key, value))
  BY DEF Confirmed, Write
<1>2. Holds(key, value) => Repeats(new)'
  BY <1>1 DEF Holds, Repeats, Put
<1>3. \A w \in inflight : Repeats(w)' /\ w.key # key
  <2>1. \A w \in inflight : Repeats(w)
    BY DEF Sound, SettledInv, InflightInv
  <2> QED BY <1>1, <2>1, PutRepeats
<1> QED BY <1>1, <1>2, <1>3 DEF Sound, SettledInv, InflightInv

LEMMA UndoFirstPointerStep == ASSUME Sound, UndoFirstPointer PROVE Stepped
<1>1. /\ pc = "undo_first_pointer" /\ pc \in Switch /\ pc \in Opened
      /\ pc \notin Advancing /\ pc \notin Undoing
  BY DEF UndoFirstPointer, Switch, Opened, Advancing, Undoing
<1>2. /\ inflight = {} /\ production = base /\ job.errors = {}
      /\ Intent # None /\ Intent.from = None /\ Current = Intent.to
      /\ job.txn = Intent /\ Intent.to = IdOf(job.candidate) /\ Switching
      /\ IdOf(base) = Intent.from /\ job.current = None
  BY <1>1, SwitchFacts DEF Sound, SettledInv, SwitchInv
<1>3. /\ PointerValue(job.current) = Empty /\ Intent.previous = None
      /\ Intent.to # None
  BY <1>2, IntentFields DEF PointerValue, Sound
<1>4. CASE Confirmed("current", Empty) /\ Continue("abort", job)
  <2>1. ~Holds("current", Empty)
    BY <1>2, <1>3 DEF Holds, Current, ParsePointer
  <2>2. Put("current", Empty) /\ inflight' = {}
    BY <1>2, <1>4, <2>1, NewValue
  <2>3. /\ production' = production /\ Live' = Live /\ Current' = None
        /\ Previous' = Previous /\ Intent' = Intent
    BY <2>2, PutEffect DEF Sound, Admissible, ParsePointer
  <2>4. base' = base /\ job' = job /\ pc' = "abort"
    BY <1>4 DEF Continue
  <2>5. Switching'
    BY <1>2, <2>3 DEF Switching
  <2>6. SwitchInv'
    BY <1>2, <2>3, <2>4, <2>5 DEF SwitchInv, Switch, Opened, Advancing, Undoing
  <2>7. Live = Intent.from /\ Previous = Intent.previous
    BY <1>2, <1>3 DEF Live, Switching
  <2>8. UndoInv'
    BY <1>2, <2>3, <2>4, <2>7 DEF UndoInv, Undoing
  <2> QED BY <1>2, <2>2, <2>3, <2>4, <2>6, <2>8, QuietStep, StepWithin
          DEF Stepped, Move, Kept, Switch
<1>5. CASE Refused /\ End("incomplete", "unsaid")
  BY <1>1, <1>5, EndsQuietly
<1>6. CASE Unresolved("current", Empty, "no")
  <2>1. Late(Write("current", Empty))
    BY <1>2 DEF Late, LateCurrent, Write, PointerValue
  <2> QED BY <1>1, <1>2, <1>6, <2>1, EndsLate
<1> QED BY <1>3, <1>4, <1>5, <1>6 DEF UndoFirstPointer

\* What every step of the compensation of an update knows.
LEMMA UndoingFacts ==
    ASSUME Sound, pc \in Undoing
    PROVE  /\ pc # "idle" /\ pc \in Switch /\ pc \in Opened /\ pc \notin Advancing
           /\ Intent # None /\ job.txn = Intent /\ Intent.to = IdOf(job.candidate)
           /\ Switching /\ Intent.from # None /\ Current # Intent.to
           /\ job.production = base /\ IdOf(base) = Intent.from
           /\ job.previous = Intent.previous
           /\ production \in {base, job.candidate} /\ job.candidate \in Contents
           /\ base \in Contents /\ job \in Jobs
<1>1. pc # "idle" /\ pc \in Switch /\ pc \in Opened /\ pc \notin Advancing
  BY DEF Undoing, Switch, Opened, Advancing
<1>2. /\ Intent # None /\ job.txn = Intent /\ Intent.to = IdOf(job.candidate)
      /\ Switching /\ job.candidate \in Contents
  BY <1>1, SwitchFacts
<1>3. /\ job.production = base /\ IdOf(base) = Intent.from
      /\ job.previous = Intent.previous
      /\ Intent.from # None /\ Current # Intent.to
      /\ production \in {base, job.candidate}
  BY <1>1 DEF Sound, SettledInv, SwitchInv, UndoInv
<1>4. base \in Contents
  BY <1>3, KeyTypes DEF Sound, IdOf, OptionalContent
<1> QED BY <1>1, <1>2, <1>3, <1>4, KeyTypes DEF Sound

LEMMA UndoProductionStep == ASSUME Sound, UndoProduction PROVE Stepped
<1>0. PICK c : c = base
  OBVIOUS
<1>1. pc = "undo_production" /\ pc \in Undoing
  BY DEF UndoProduction, Undo, Undoing
<1>2. inflight = {} /\ job.errors = {}
  BY <1>1, UndoingFacts, SwitchFacts
<1>3. CASE Confirmed("production", c) /\ Continue("undo_current", job)
  <2>1. Admissible("production", c)
    BY <1>0, <1>1, UndoingFacts DEF Admissible
  <2>2. Put("production", c)
    BY <1>3 DEF Confirmed
  <2>3. /\ production' = base /\ Live' = Intent.from /\ Current' = Current
        /\ Previous' = Previous /\ Intent' = Intent
    BY <1>0, <1>1, <2>1, <2>2, PutEffect, UndoingFacts DEF Sound
  <2>4. base' = base /\ job' = job /\ pc' = "undo_current"
    BY <1>3 DEF Continue
  <2>5. Switching'
    BY <1>1, <2>3, UndoingFacts DEF Switching
  <2>6. SwitchInv'
    BY <1>1, <1>2, <2>3, <2>4, <2>5, UndoingFacts
    DEF SwitchInv, Switch, Opened, Advancing, Undoing
  <2>7. UndoInv'
    BY <1>1, <1>2, <2>3, <2>4, UndoingFacts DEF UndoInv, Undoing
  <2>8. InflightInv'
    BY <1>1, <1>2, <1>3, <2>4, RestoredInFlight, UndoingFacts DEF InflightInv, Repeatable
  <2>9. Switched
    BY <1>1, <2>3, UndoingFacts DEF Switched, Switching
  <2> QED BY <2>4, <2>6, <2>7, <2>8, <2>9, StepWithin DEF Stepped, Move, Switch, Undoing
<1>4. CASE /\ Refused
           /\ Continue("undo_current", [job EXCEPT !.errors = @ \union {"production"}])
  <2>1. /\ UNCHANGED store /\ inflight' = {} /\ base' = base /\ pc' = "undo_current"
    BY <1>2, <1>4 DEF Refused, Continue
  <2>2. /\ production' = production /\ Live' = Live /\ Current' = Current
        /\ Previous' = Previous /\ Intent' = Intent
    BY <2>1, SameKeys
  <2>3. /\ job'.txn = job.txn /\ job'.candidate = job.candidate
        /\ job'.production = job.production /\ job'.current = job.current
        /\ job'.previous = job.previous /\ job'.errors = {"production"}
    BY <1>1, <1>2, <1>4, UndoingFacts DEF Continue, Jobs
  <2>4. Switching'
    BY <1>1, <2>2, UndoingFacts DEF Switching
  <2>5. SwitchInv'
    BY <1>1, <2>1, <2>2, <2>3, <2>4, UndoingFacts
    DEF SwitchInv, Switch, Opened, Advancing, Undoing
  <2>6. UndoInv'
    BY <1>1, <2>1, <2>2, <2>3, UndoingFacts DEF UndoInv, Undoing
  <2> QED BY <2>1, <2>2, <2>5, <2>6, QuietStep, StepWithin
          DEF Stepped, Move, Kept, Switch, Undoing
<1>5. CASE Unresolved("production", c, "unknown")
  BY <1>0, <1>1, <1>2, <1>5, EndsLate, UndoingFacts
<1>6. job.production = c
  BY <1>0, <1>1, UndoingFacts
<1> QED BY <1>3, <1>4, <1>5, <1>6 DEF UndoProduction, Undo

LEMMA UndoCurrentStep == ASSUME Sound, UndoCurrent PROVE Stepped
<1>0. PICK id : id = Intent.from
  OBVIOUS
<1>1. pc = "undo_current" /\ pc \in Undoing
  BY DEF UndoCurrent, Undo, Undoing
<1>2. /\ "current" \notin job.errors
      /\ "production" \notin job.errors => production = base
      /\ \A w \in inflight : Repeats(w) /\ w.key = "production"
      /\ \A v, w \in inflight : v.key = w.key => v = w
  BY <1>1 DEF Sound, SettledInv, UndoInv, InflightInv, Repeatable
<1>3. /\ id \in ReleaseIds /\ id # None /\ id # Empty
      /\ Admissible("current", id) /\ ParsePointer(id) = id
  BY <1>0, <1>1, UndoingFacts, IntentFields
  DEF Sound, OptionalId, Admissible, ParsePointer
<1>4. CASE Confirmed("current", id) /\ Continue("undo_previous", job)
  <2>1. Put("current", id)
    BY <1>4 DEF Confirmed
  <2>2. /\ production' = production /\ Live' = Live /\ Current' = Intent.from
        /\ Previous' = Previous /\ Intent' = Intent
    BY <1>0, <1>3, <2>1, PutEffect DEF Sound
  <2>3. base' = base /\ job' = job /\ pc' = "undo_previous"
    BY <1>4 DEF Continue
  <2>4. Switching'
    BY <1>1, <2>2, UndoingFacts DEF Switching
  <2>5. SwitchInv'
    BY <1>1, <2>2, <2>3, <2>4, UndoingFacts
    DEF SwitchInv, Switch, Opened, Advancing, Undoing
  <2>6. Intent.from # Intent.to
    BY <1>1, UndoingFacts, IntentFields DEF Sound
  <2>7. UndoInv'
    BY <1>1, <1>2, <2>2, <2>3, <2>6, UndoingFacts DEF UndoInv, Undoing
  <2>8. InflightInv'
    <3>1. \A w \in inflight' : Repeats(w)' /\ w.key \in {"production", "current"}
      BY <1>1, <1>2, <1>4, RestoredInFlight
    <3>2. \A v, w \in inflight' : v.key = w.key => v = w
      BY <1>1, <1>2, <1>4, RestoredInFlight
    <3> QED BY <2>3, <3>1, <3>2 DEF InflightInv, Repeatable
  <2> QED BY <2>2, <2>3, <2>5, <2>7, <2>8, <1>1, StepWithin, UndoingFacts
          DEF Stepped, Move, Kept, Switch, Undoing
<1>5. CASE /\ Refused
           /\ Continue("undo_previous", [job EXCEPT !.errors = @ \union {"current"}])
  <2>1. /\ UNCHANGED store /\ inflight' = inflight /\ base' = base
        /\ pc' = "undo_previous"
    BY <1>5 DEF Refused, Continue
  <2>2. /\ production' = production /\ Live' = Live /\ Current' = Current
        /\ Previous' = Previous /\ Intent' = Intent
        /\ \A w : Repeats(w)' = Repeats(w)
    BY <2>1, SameKeys
  <2>3. /\ job'.txn = job.txn /\ job'.candidate = job.candidate
        /\ job'.production = job.production /\ job'.current = job.current
        /\ job'.previous = job.previous /\ job'.errors = job.errors \union {"current"}
    BY <1>1, <1>5, UndoingFacts DEF Continue, Jobs
  <2>4. Switching'
    BY <1>1, <2>2, UndoingFacts DEF Switching
  <2>5. SwitchInv'
    BY <1>1, <2>1, <2>2, <2>3, <2>4, UndoingFacts
    DEF SwitchInv, Switch, Opened, Advancing, Undoing
  <2>6. UndoInv'
    BY <1>1, <1>2, <2>1, <2>2, <2>3, UndoingFacts DEF UndoInv, Undoing
  <2>7. InflightInv'
    BY <1>2, <2>1, <2>2 DEF InflightInv, Repeatable
  <2> QED BY <2>1, <2>2, <2>5, <2>6, <2>7, StepWithin
          DEF Stepped, Move, Kept, Switch, Undoing
<1>6. CASE Unresolved("current", id, ChangedAfterUndo)
  <2>1. Late(Write("current", id))
    BY <1>0, <1>1, UndoingFacts DEF Late, LateCurrent, Write, PointerValue
  <2>2. ChangedAfterUndo # "yes" /\ (ChangedAfterUndo = "no" => production = base)
    BY <1>2 DEF ChangedAfterUndo
  <2> QED BY <1>1, <1>2, <1>6, <2>1, <2>2, EndsLate
<1>7. job.txn.from = id
  BY <1>0, <1>1, UndoingFacts
<1> QED BY <1>4, <1>5, <1>6, <1>7 DEF UndoCurrent, Undo

LEMMA UndoPreviousStep == ASSUME Sound, UndoPrevious PROVE Stepped
<1>0. PICK value : value = PointerValue(Intent.previous)
  OBVIOUS
<1>1. pc = "undo_previous" /\ pc \in Undoing
  BY DEF UndoPrevious, Undoing
<1>2. /\ "production" \notin job.errors => production = base
      /\ "current" \notin job.errors => Current = Intent.from
      /\ \A w \in inflight : Repeats(w) /\ w.key \in {"production", "current"}
      /\ \A v, w \in inflight : v.key = w.key => v = w
  BY <1>1 DEF Sound, SettledInv, UndoInv, InflightInv, Repeatable
<1>3. Admissible("previous", value) /\ ParsePointer(value) = Intent.previous
  BY <1>0, <1>1, UndoingFacts, IntentFields, SentinelsAssumption
  DEF Sound, PointerValue, ParsePointer, Admissible, OptionalId
<1>4. Confirmed("previous", value) =>
         /\ production' = production /\ Live' = Live /\ Current' = Current
         /\ Previous' = Intent.previous /\ Intent' = Intent /\ Switching'
         /\ \A w \in inflight' : Repeats(w)' /\ w.key \in {"production", "current", "previous"}
         /\ \A v, w \in inflight' : v.key = w.key => v = w
  <2> SUFFICES ASSUME Confirmed("previous", value) PROVE <1>4!2
    OBVIOUS
  <2>1. Put("previous", value)
    BY DEF Confirmed
  <2>2. /\ production' = production /\ Live' = Live /\ Current' = Current
        /\ Previous' = Intent.previous /\ Intent' = Intent
    BY <1>3, <2>1, PutEffect DEF Sound
  <2>3. Switching'
    BY <1>1, <2>2, UndoingFacts DEF Switching
  <2>4. /\ \A w \in inflight' : Repeats(w)' /\ w.key \in {"production", "current", "previous"}
        /\ \A v, w \in inflight' : v.key = w.key => v = w
    BY <1>1, <1>2, RestoredInFlight
  <2> QED BY <2>2, <2>3, <2>4
<1>5. CASE Confirmed("previous", value) /\ job.errors = {} /\ Continue("abort", job)
  <2>1. base' = base /\ job' = job /\ pc' = "abort"
    BY <1>5 DEF Continue
  <2>2. SwitchInv'
    BY <1>1, <1>4, <1>5, <2>1, UndoingFacts DEF SwitchInv, Switch, Opened, Advancing, Undoing
  <2>3. UndoInv'
    BY <1>1, <1>2, <1>4, <1>5, <2>1, UndoingFacts DEF UndoInv, Undoing, Live
  <2>4. InflightInv'
    BY <1>4, <1>5, <2>1 DEF InflightInv, Repeatable
  <2> QED BY <1>1, <1>4, <1>5, <2>1, <2>2, <2>3, <2>4, StepWithin, UndoingFacts
          DEF Stepped, Move, Kept, Switch
<1>6. CASE Confirmed("previous", value) /\ End("incomplete", "unsaid")
  <2>1. /\ pc' = "idle" /\ job' = NoJob /\ report'.changed = "unsaid"
        /\ report'.status = "incomplete"
    BY <1>6 DEF End
  <2>2. Shape'
    BY <1>1, <1>4, <1>6, UndoingFacts DEF Shape
  <2>3. IdleInv'
    BY <2>1, <2>2 DEF IdleInv
  <2>4. InflightInv'
    BY <1>4, <1>6, <2>1 DEF InflightInv
  <2> QED BY <1>1, <1>4, <1>6, <2>1, <2>3, <2>4, IdleStep, UndoingFacts
          DEF Stepped, SettledInv, Move, Kept
<1>7. CASE Refused /\ End("incomplete", "unsaid")
  BY <1>1, <1>7, EndsQuietly
<1>8. CASE Unresolved("previous", value, ChangedAfterUndo)
  <2>1. Late(Write("previous", value))
    BY <1>0, <1>1, UndoingFacts DEF Late, LatePrevious, Write
  <2>2. ChangedAfterUndo # "yes" /\ (ChangedAfterUndo = "no" => production = base)
    BY <1>2 DEF ChangedAfterUndo
  <2> QED BY <1>1, <1>2, <1>8, <2>1, <2>2, EndsLate
<1>9. PointerValue(job.previous) = value
  BY <1>0, <1>1, UndoingFacts
<1> QED BY <1>5, <1>6, <1>7, <1>8, <1>9 DEF UndoPrevious

LEMMA AbortStep == ASSUME Sound, Abort PROVE Stepped
<1>1. pc = "abort" /\ pc \in Switch /\ pc # "idle"
  BY DEF Abort, Switch
<1>2. /\ Intent # None /\ Switching /\ production = base
      /\ Live = Intent.from /\ Current = Intent.from /\ Previous = Intent.previous
      /\ Closable
      /\ \A w \in inflight : Repeats(w) /\ w.key \in {"production", "current", "previous"}
      /\ \A v, w \in inflight : v.key = w.key => v = w
  BY <1>1, SwitchFacts DEF Sound, SettledInv, UndoInv, InflightInv, Repeatable, Closable
<1>3. CASE Confirmed("transaction", Empty) /\ End("failed", "unsaid")
  <2>1. ~Holds("transaction", Empty)
    BY <1>2 DEF Holds, Intent, ParseTransaction
  <2>2. Put("transaction", Empty) /\ inflight' = inflight
    BY <1>2, <1>3, <2>1, NewValue
  <2>3. /\ production' = production /\ Live' = Live /\ Current' = Current
        /\ Previous' = Previous /\ Intent' = None
    BY <2>2, ClearingWrite, PutEffect DEF Sound
  <2>4. /\ pc' = "idle" /\ job' = NoJob /\ report'.status = "failed"
        /\ report'.changed = "unsaid"
    BY <1>3 DEF End
  <2>5. IdleInv'
    BY <1>2, <2>3, <2>4, WithdrawnIsReady DEF IdleInv
  <2>6. \A w \in inflight' : Repeats(w)'
    BY <1>2, <2>2, PutRepeats
  <2>7. InflightInv'
    BY <1>2, <2>2, <2>4, <2>6 DEF InflightInv
  <2>8. ClosedNow
    BY <1>2, <2>3 DEF ClosedNow
  <2> QED BY <2>4, <2>5, <2>7, <2>8, IdleStep DEF Stepped, SettledInv, Move
<1>4. CASE Refused /\ End("failed", "unsaid")
  BY <1>1, <1>4, EndsQuietly
<1>5. CASE Unresolved("transaction", Empty, "unknown")
  <2>1. Late(Write("transaction", Empty))
    BY <1>2 DEF Late, LateTransaction, Write
  <2> QED BY <1>1, <1>2, <1>5, <2>1, EndsLate
<1> QED BY <1>3, <1>4, <1>5 DEF Abort
-----------------------------------------------------------------------------
(* The environment, and all steps together.                                *)
LEMMA StopStep == ASSUME Sound, ReadFailure \/ Crash PROVE Stepped
<1>1. pc # "idle"
  BY DEF ReadFailure, Crash, Reading
<1> QED BY <1>1, EndsQuietly DEF ReadFailure, Crash

\* While an attempt runs, a write that lands repeats what is there already.
\* Between attempts it is one the keys can bear, and the only one.
LEMMA LandStep == ASSUME Sound, NEW w \in inflight, Land(w) PROVE Stepped
<1>0. PICK key, value : key = w.key /\ value = w.value
  OBVIOUS
<1>1. /\ w = Write(key, value) /\ Admissible(key, value) /\ Put(key, value)
      /\ inflight' = inflight \ {w} /\ UNCHANGED <<pc, job, report, base>>
  BY <1>0, WriteIsAdmissible DEF Land, Sound, IInv, StoreInv, StoreTypeOK
<1>2. /\ key # "production" => production' = production /\ Live' = Live
      /\ key = "production" => production' = value /\ Live' = IdOf(value)
      /\ key # "current" => Current' = Current
      /\ key = "current" => Current' = ParsePointer(value)
      /\ key # "previous" => Previous' = Previous
      /\ key = "previous" => Previous' = ParsePointer(value)
      /\ key # "transaction" => Intent' = Intent
      /\ key = "transaction" => Intent' = (IF value = Empty THEN None ELSE value)
  BY <1>1, PutEffect DEF Sound
<1>3. CASE Repeats(w)
  <2>1. key \notin {"config", "manifest"}
    BY <1>0, <1>3 DEF Repeats, Holds
  <2>2. UNCHANGED store
    BY <1>0, <1>1, <1>3, <2>1 DEF Repeats, Holds, Put, store
  <2> QED BY <1>1, <2>2, SameState DEF Sound
<1>4. CASE ~Repeats(w)
  <2>1. pc = "idle" /\ Late(w) /\ Shape /\ inflight # {}
        /\ report.status # "published"
    BY <1>4 DEF Sound, SettledInv, InflightInv, IdleInv
  <2>2. \A v \in inflight' : Repeats(v)'
    <3>1. \A v \in inflight' : Repeats(v) /\ v.key # w.key
      BY <1>1, <1>4 DEF Sound, SettledInv, InflightInv
    <3> QED BY <1>0, <1>1, <3>1, PutRepeats
  <2>3. InflightInv'
    BY <1>1, <2>1, <2>2 DEF Sound, SettledInv, InflightInv
  <2>4. Shape' /\ Move /\ (production' = production \/ report.changed \notin {"yes", "no"})
    <3>1. CASE key \in {"config", "manifest"}
      BY <1>2, <2>1, <3>1 DEF Shape, Ready, Switching, Move, Kept
    <3>2. CASE key = "production"
      <4>1. LateProduction(w)
        BY <1>0, <2>1, <3>2 DEF Late, LateCurrent, LatePrevious, LateTransaction
      <4> QED BY <1>0, <1>2, <2>1, <3>2, <4>1
              DEF LateProduction, Shape, Switching, Move, Switched
    <3>3. CASE key = "current"
      <4>1. LateCurrent(w)
        BY <1>0, <2>1, <3>3 DEF Late, LateProduction, LatePrevious, LateTransaction
      <4>2. CASE Intent = None
        <5>1. /\ Live # None /\ Previous = None /\ value = Live /\ value # Empty
          BY <1>0, <4>1, <4>2, KeyTypes, SentinelsAssumption
          DEF LateCurrent, Sound, OptionalId
        <5> QED BY <1>2, <3>3, <4>2, <5>1 DEF Shape, Ready, ParsePointer, Move, Kept
      <4>3. CASE Intent # None
        <5>1. Current' \in {None, Intent.from, Intent.to}
          BY <1>0, <1>2, <3>3, <4>1, <4>3, IntentFields
          DEF LateCurrent, Sound, PointerValue, ParsePointer
        <5> QED BY <1>2, <2>1, <3>3, <4>3, <5>1 DEF Shape, Switching, Move, Kept
      <4> QED BY <4>2, <4>3
    <3>4. CASE key = "previous"
      <4>1. LatePrevious(w)
        BY <1>0, <2>1, <3>4 DEF Late, LateProduction, LateCurrent, LateTransaction
      <4>2. Previous' \in {Intent.from, Intent.previous}
        BY <1>0, <1>2, <3>4, <4>1, IntentFields, SentinelsAssumption
        DEF LatePrevious, Sound, PointerValue, ParsePointer, OptionalId
      <4> QED BY <1>2, <2>1, <3>4, <4>1, <4>2 DEF LatePrevious, Shape, Switching, Move, Kept
    <3>5. CASE key = "transaction"
      <4>1. LateTransaction(w)
        BY <1>0, <2>1, <3>5 DEF Late, LateProduction, LateCurrent, LatePrevious
      <4>2. CASE value = Empty
        <5>1. Intent # None /\ Closable /\ Intent' = None
          BY <1>0, <1>2, <3>5, <4>1, <4>2 DEF LateTransaction
        <5>2. Shape'
          BY <1>2, <2>1, <3>5, <5>1, WithdrawnIsReady DEF Shape
        <5> QED BY <1>2, <3>5, <5>1, <5>2 DEF Move, ClosedNow
      <4>3. CASE value # Empty
        <5>1. value \in Transactions /\ Intent' = value /\ value # None
          BY <1>1, <1>2, <3>5, <4>3, TransactionFields DEF Admissible
        <5>2. CASE Intent = None
          <6>1. Openable(value) /\ Ready
            BY <1>0, <2>1, <4>1, <4>3, <5>2 DEF LateTransaction, Shape
          <6>2. value.from = Live /\ value.previous = Previous
            BY <6>1 DEF Openable, NewTransaction
          <6>3. Switching'
            BY <1>2, <3>5, <5>1, <6>1, <6>2 DEF Switching, Ready
          <6> QED BY <1>2, <3>5, <5>1, <5>2, <6>1, <6>3 DEF Shape, Move, OpenedNow
        <5>3. CASE Intent # None
          <6>1. value = Advance(Intent, value.phase) /\ PhaseReached(value, Intent.phase)
            BY <1>0, <4>1, <4>3, <5>3 DEF LateTransaction
          <6>2. /\ value.from = Intent.from /\ value.to = Intent.to
                /\ value.previous = Intent.previous
            BY <5>3, <6>1, KeyTypes
            DEF Advance, Sound, Transactions, StoredDocuments, Documents
          <6>3. Switching'
            BY <1>2, <2>1, <3>5, <5>1, <5>3, <6>2 DEF Switching, Shape
          <6> QED BY <1>2, <3>5, <5>1, <5>3, <6>1, <6>3 DEF Shape, Move, Advanced
        <5> QED BY <5>2, <5>3
      <4> QED BY <1>2, <3>5, <4>2, <4>3
    <3> QED BY <1>1, <3>1, <3>2, <3>3, <3>4, <3>5 DEF Admissible
  <2>5. IdleInv'
    BY <1>1, <2>1, <2>4 DEF IdleInv, Sound, SettledInv
  <2>6. BeforeInv' /\ SwitchInv' /\ UndoInv'
    <3>1. pc' = "idle" /\ job'.errors = {}
      BY <1>1, <2>1 DEF Sound, SettledInv, UndoInv
    <3> QED BY <3>1 DEF BeforeInv, Before, Informed, SwitchInv, Switch, Opened,
            Advancing, Undoing, UndoInv
  <2> QED BY <2>3, <2>4, <2>5, <2>6 DEF Stepped, SettledInv
<1> QED BY <1>3, <1>4

LEMMA SettleStep == ASSUME Sound, Settle PROVE Stepped
<1> PICK w \in inflight : Land(w) \/ Lose(w)
  BY DEF Settle
<1>1. CASE Land(w)
  BY <1>1, LandStep
<1>2. CASE Lose(w)
  BY <1>2, SameState DEF Lose, Sound
<1> QED BY <1>1, <1>2

LEMMA NextStep == ASSUME Settled, Sound, [Next]_vars PROVE Stepped
<1>1. CASE \E c \in Contents : Begin(c)
  BY <1>1, BeginStep
<1>2. CASE Attempt
  BY <1>2, ReadIntentStep, RetireCheckStep, RetireStep, StageCandidateStep,
     ReadKeysStep, RecoverStep, RepairPreviousStep, RepairCurrentStep, DecideStep,
     AlignCurrentStep, StageOldStep, WriteIntentStep, FirstPointerStep, ActivateStep,
     PhaseStep, SwitchPointerStep, CheckStep, ClearStep, UndoFirstPointerStep,
     UndoProductionStep, UndoCurrentStep, UndoPreviousStep, AbortStep
  DEF Attempt
<1>3. CASE ReadFailure \/ Crash
  BY <1>3, StopStep
<1>4. CASE Settle
  BY <1>4, SettleStep
<1>5. CASE UNCHANGED vars
  <2>1. UNCHANGED <<store, pc, job, report, base>> /\ inflight' = inflight
    BY <1>5 DEF vars
  <2> QED BY <2>1, SameState DEF Sound
<1> QED BY <1>1, <1>2, <1>3, <1>4, <1>5 DEF Next

LEMMA InitSettled == Init => SettledInv
<1> SUFFICES ASSUME Init PROVE SettledInv
  OBVIOUS
<1>1. pc = "idle" /\ inflight = {} /\ job = NoJob
      /\ report.changed = "unsaid" /\ report.status = "none"
  BY DEF Init
<1>2. Shape
  <2>1. CASE InitUnversioned
    BY <2>1, SentinelsAssumption
    DEF InitUnversioned, Shape, Ready, Current, Previous, Intent, ParsePointer, ParseTransaction
  <2>2. CASE InitLegacyIntent
    <3>1. PICK from, to \in Contents :
             /\ from # to /\ production \in {from, to}
             /\ current = ReleaseIdOf[from] /\ previous = None
             /\ intent = [from |-> ReleaseIdOf[from], to |-> ReleaseIdOf[to],
                          previous |-> None, phase |-> LegacyPhase]
      BY <2>2 DEF InitLegacyIntent
    <3>2. /\ IdOf(from) = ReleaseIdOf[from] /\ IdOf(to) = ReleaseIdOf[to]
          /\ IdOf(from) \in ReleaseIds /\ IdOf(from) # None /\ IdOf(from) # Empty
          /\ IdOf(to) \in ReleaseIds
      BY <3>1, IdOfContent
    <3>3. intent \in Documents
      BY <3>1, <3>2 DEF Documents, OptionalId, LegacyPhase
    <3>4. /\ Intent = [intent EXCEPT !.phase = "prepare"] /\ Intent # None
      <4>1. Intent = [intent EXCEPT !.phase = "prepare"]
        BY <3>1, <3>3, SentinelsAssumption DEF Intent, ParseTransaction
      <4>2. Intent \in Documents
        BY <3>3, <4>1 DEF Documents, Phases
      <4> QED BY <4>1, <4>2, SentinelsAssumption
    <3>5. Intent.from = IdOf(from) /\ Intent.to = IdOf(to) /\ Intent.previous = None
      BY <3>1, <3>2, <3>4
    <3>6. Live \in {IdOf(from), IdOf(to)} /\ Current = IdOf(from) /\ Previous = None
      BY <3>1, <3>2, SentinelsAssumption DEF Live, Current, Previous, ParsePointer
    <3> QED BY <3>2, <3>4, <3>5, <3>6 DEF Shape, Switching
  <2> QED BY <2>1, <2>2 DEF Init
<1>3. InflightInv /\ IdleInv
  BY <1>1, <1>2 DEF InflightInv, IdleInv
<1>4. BeforeInv /\ SwitchInv /\ UndoInv
  BY <1>1 DEF BeforeInv, Before, Informed, SwitchInv, Switch, Opened, Advancing,
     Undoing, UndoInv, NoJob
<1> QED BY <1>3, <1>4 DEF SettledInv
-----------------------------------------------------------------------------
(* The register.  Only the live identity, the previous pointer and the     *)
(* intent matter to it: what the pointer names is staged already.          *)
LEMMA TargetIsPrevious ==
    ASSUME IInv
    PROVE  RollbackTarget = IF Intent = None THEN Previous ELSE None
<1>1. Previous # None => Staged(Previous)
  BY DEF IInv, StoreInv, References, Held, Previous
<1> QED BY <1>1 DEF RollbackTarget, Previous

LEMMA SwitchIsOpen ==
    ASSUME IInv, Intent # None
    PROVE  /\ PendingSwitch = [from |-> Intent.from, to |-> Intent.to,
                               saved |-> Intent.previous]
           /\ PendingSwitch \in Switches /\ PendingSwitch # None
  BY IntentFields, SwitchesAssumption DEF PendingSwitch, Switches

LEMMA RegisterInit ==
    ASSUME IInv, Init PROVE Register!Init
<1>1. IdOf(production) \in ReleaseIds \union {None}
  BY KeyTypes DEF Live, OptionalId
<1>2. CASE InitUnversioned
  BY <1>1, <1>2, TargetIsPrevious, SentinelsAssumption
  DEF Register!Init, InitUnversioned, PendingSwitch, Intent, ParseTransaction, Previous,
      ParsePointer
<1>3. CASE InitLegacyIntent
  <2>1. PICK from, to \in Contents :
           /\ production \in {from, to}
           /\ intent = [from |-> ReleaseIdOf[from], to |-> ReleaseIdOf[to],
                        previous |-> None, phase |-> LegacyPhase]
    BY <1>3 DEF InitLegacyIntent
  <2>2. /\ IdOf(from) = ReleaseIdOf[from] /\ IdOf(to) = ReleaseIdOf[to]
        /\ IdOf(from) \in ReleaseIds /\ IdOf(to) \in ReleaseIds
    BY <2>1, IdOfContent
  <2>3. intent \in Documents
    BY <2>1, <2>2 DEF Documents, OptionalId, LegacyPhase
  <2>4. Intent = [intent EXCEPT !.phase = "prepare"]
    BY <2>1, <2>3, SentinelsAssumption DEF Intent, ParseTransaction
  <2>5. /\ Intent.from = IdOf(from) /\ Intent.to = IdOf(to) /\ Intent.previous = None
        /\ Intent # None
    <3>1. Intent \in Documents
      BY <2>3, <2>4 DEF Documents, Phases
    <3> QED BY <2>1, <2>2, <2>4, <3>1, SentinelsAssumption
  <2>6. IdOf(from) # IdOf(to)
    BY <2>5, IntentFields
  <2>7. /\ PendingSwitch = [from |-> IdOf(from), to |-> IdOf(to), saved |-> None]
        /\ RollbackTarget = None
    BY <2>5, SwitchIsOpen, TargetIsPrevious
  <2>8. IdOf(production) \in {IdOf(from), IdOf(to)}
    BY <2>1
  <2> QED BY <1>1, <2>2, <2>6, <2>7, <2>8 DEF Register!Init
<1> QED BY <1>2, <1>3 DEF Init

\* The register's variables, in terms of the keys.
RegisterView ==
    /\ RollbackTarget = IF Intent = None THEN Previous ELSE None
    /\ Intent = None => PendingSwitch = None
    /\ Intent # None =>
          /\ Intent \in Transactions /\ Intent.to \in ReleaseIds
          /\ PendingSwitch = [from |-> Intent.from, to |-> Intent.to,
                              saved |-> Intent.previous]
          /\ PendingSwitch # None

LEMMA ViewHolds == IInv => RegisterView
  BY TargetIsPrevious, SwitchIsOpen, IntentFields DEF RegisterView, PendingSwitch

LEMMA RegisterStep ==
    ASSUME IInv, IInv', Move
    PROVE  Register!Next \/ UNCHANGED <<IdOf(production), RollbackTarget, PendingSwitch>>
<1>0. RegisterView /\ RegisterView'
  <2>1. IInv' => RegisterView'
    BY ViewHolds, PTL
  <2> QED BY <2>1, ViewHolds
<1>1. /\ RollbackTarget = IF Intent = None THEN Previous ELSE None
      /\ RollbackTarget' = IF Intent' = None THEN Previous' ELSE None
  BY <1>0 DEF RegisterView
<1>2. /\ Intent = None => PendingSwitch = None
      /\ Intent' = None => PendingSwitch' = None
  BY <1>0 DEF RegisterView
<1>3. Intent # None =>
         /\ Intent \in Transactions
         /\ PendingSwitch = [from |-> Intent.from, to |-> Intent.to,
                             saved |-> Intent.previous]
         /\ PendingSwitch # None
  BY <1>0 DEF RegisterView
<1>4. Intent' # None =>
         /\ PendingSwitch' = [from |-> Intent'.from, to |-> Intent'.to,
                              saved |-> Intent'.previous]
         /\ Intent'.to \in ReleaseIds /\ Intent' \in Transactions
  BY <1>0 DEF RegisterView
<1>5. Live = IdOf(production) /\ Live' = IdOf(production)'
  BY DEF Live
<1>6. CASE Kept
  BY <1>1, <1>2, <1>3, <1>4, <1>5, <1>6 DEF Kept
<1>7. CASE Advanced
  <2>1. /\ Intent' # None /\ Intent'.from = Intent.from /\ Intent'.to = Intent.to
        /\ Intent'.previous = Intent.previous
    <3>1. PICK p : p = Intent'.phase
      OBVIOUS
    <3>2. Intent' = [Intent EXCEPT !.phase = p] /\ Intent \in Transactions
      BY <1>3, <1>7, <3>1 DEF Advanced, Advance
    <3>3. Intent \in Documents
      BY <3>2 DEF Transactions, StoredDocuments
    <3>4. /\ Intent'.from = Intent.from /\ Intent'.to = Intent.to
          /\ Intent'.previous = Intent.previous
      BY <3>2, <3>3 DEF Documents
    <3> QED BY <1>7, <3>4 DEF Advanced
  <2> QED BY <1>1, <1>3, <1>4, <1>5, <1>7, <2>1 DEF Advanced
<1>8. CASE OpenedNow
  <2>1. /\ Intent'.from = Live /\ Intent'.previous = Previous /\ Intent'.to # Live
    BY <1>8 DEF OpenedNow, Openable, NewTransaction
  <2>2. Register!Open(Intent'.to)
    BY <1>1, <1>2, <1>4, <1>5, <1>8, <2>1 DEF OpenedNow, Register!Open
  <2>3. Intent'.to \in ReleaseIds
    BY <1>4, <1>8 DEF OpenedNow
  <2> QED BY <2>2, <2>3 DEF Register!Next
<1>9. CASE Switched
  <2>1. PendingSwitch' = PendingSwitch /\ RollbackTarget' = RollbackTarget
    BY <1>1, <1>3, <1>4, <1>9 DEF Switched
  <2>2. CASE Live = Live'
    BY <1>5, <2>1, <2>2
  <2>3. CASE Live = Intent.from /\ Live' = Intent.to
    <3>1. Register!TakeEffect
      BY <1>3, <1>5, <1>9, <2>1, <2>3 DEF Switched, Register!TakeEffect
    <3> QED BY <3>1 DEF Register!Next
  <2>4. CASE Live = Intent.to /\ Live' = Intent.from
    <3>1. Register!Revert
      BY <1>3, <1>5, <1>9, <2>1, <2>4 DEF Switched, Register!Revert
    <3> QED BY <3>1 DEF Register!Next
  <2> QED BY <1>9, <2>2, <2>3, <2>4 DEF Switched
<1>10. CASE ClosedNow
  <2>1. CASE Live = Intent.to /\ Previous = Intent.from
    <3>1. Register!Commit
      BY <1>1, <1>2, <1>3, <1>5, <1>10, <2>1 DEF ClosedNow, Register!Commit
    <3> QED BY <3>1 DEF Register!Next
  <2>2. CASE Live = Intent.from /\ Previous = Intent.previous
    <3>1. Register!Abandon
      BY <1>1, <1>2, <1>3, <1>5, <1>10, <2>2 DEF ClosedNow, Register!Abandon
    <3> QED BY <3>1 DEF Register!Next
  <2> QED BY <1>10, <2>1, <2>2 DEF ClosedNow, Closable
<1> QED BY <1>6, <1>7, <1>8, <1>9, <1>10 DEF Move
-----------------------------------------------------------------------------
\* When every attempt of publish_release_bundle starts with no write in flight,
\* SettledInv holds in every reachable state.
THEOREM SettledInvariantHolds == Settled => (Spec => [](IInv /\ SettledInv))
<1> SUFFICES ASSUME Settled PROVE Spec => [](IInv /\ SettledInv)
  OBVIOUS
<1>1. Init => IInv /\ SettledInv
  BY InitSafe, InitSettled DEF IInv, Safe
<1>2. IInv /\ SettledInv /\ [Next]_vars => IInv' /\ SettledInv'
  BY Inductive, NextStep DEF Sound, Stepped
<1> QED BY <1>1, <1>2, PTL DEF Spec

\* Whatever an attempt reports about the client-visible bytes is true of the key
\* when it ends and stays true whatever becomes of the writes it left behind.
THEOREM ReportsAreTruthful == Settled => (Spec => []ReportIsTruthful)
<1> SUFFICES ASSUME Settled PROVE Spec => []ReportIsTruthful
  OBVIOUS
<1>1. IInv /\ SettledInv => ReportIsTruthful
  BY DEF SettledInv, InflightInv, IdleInv, ReportIsTruthful, ProductionInFlight, Repeats,
     Holds, Late, LateProduction, LateCurrent, LatePrevious, LateTransaction
<1> QED BY <1>1, SettledInvariantHolds, PTL

\* A success is the whole switch: candidate live, both pointers moved, the
\* intent withdrawn and nothing left to land.
THEOREM SuccessIsComplete == Settled => (Spec => []PublishedIsComplete)
<1> SUFFICES ASSUME Settled PROVE Spec => []PublishedIsComplete
  OBVIOUS
<1>1. IInv /\ SettledInv => PublishedIsComplete
  BY DEF SettledInv, IdleInv, PublishedIsComplete, Live, Current, Previous
<1> QED BY <1>1, SettledInvariantHolds, PTL

\* Between attempts, once nothing is in flight, inspect_release_state explains
\* what it finds, through every crash, refusal, compensation and recovery.
THEOREM QuiescenceIsHealthy == Settled => (Spec => []QuiescentIsHealthy)
<1> SUFFICES ASSUME Settled PROVE Spec => []QuiescentIsHealthy
  OBVIOUS
<1>1. ASSUME IInv, SettledInv, pc = "idle", inflight = {}
      PROVE  \/ AuditReleaseState \in
                   IF Intent = None THEN {"first_release", "healthy"}
                                    ELSE {"recoverable_interrupted_commit", "ambiguous"}
             \/ ParsePointer(current) = None /\ ParsePointer(previous) = None
  <2>1. Shape
    BY <1>1 DEF SettledInv, IdleInv
  <2>2. {Current, Previous} \ {None} \subseteq Held
    BY <1>1 DEF IInv, StoreInv, References, Current, Previous
  <2>3. CASE Intent = None
    BY <2>1, <2>2, <2>3
    DEF Shape, Ready, AuditReleaseState, InspectReleaseState, InspectSettled, Held,
        Live, Current, Previous
  <2>4. CASE Intent # None
    <3>1. InspectPending(Live, Current, Previous, Intent)
             \in {"recoverable_interrupted_commit", "ambiguous"}
      BY <2>1, <2>4 DEF Shape, Switching, InspectPending
    <3> QED BY <2>4, <3>1
            DEF AuditReleaseState, InspectReleaseState, Live, Current, Previous
  <2> QED BY <2>3, <2>4
<1>2. IInv /\ SettledInv => QuiescentIsHealthy
  BY <1>1 DEF QuiescentIsHealthy
<1> QED BY <1>2, SettledInvariantHolds, PTL

\* A pending intent keeps its identities, and its phase never goes back.
THEOREM IntentsAreMonotonic == Settled => (Spec => IntentIsMonotonic)
<1> SUFFICES ASSUME Settled PROVE Spec => IntentIsMonotonic
  OBVIOUS
<1>1. IInv /\ SettledInv /\ [Next]_vars =>
         [Intent # None /\ Intent' # None =>
            /\ Intent' = [Intent EXCEPT !.phase = Intent'.phase]
            /\ PhaseReached(Intent', Intent.phase)]_vars
  <2> SUFFICES ASSUME IInv, SettledInv, [Next]_vars, Intent # None, Intent' # None
               PROVE  /\ Intent' = [Intent EXCEPT !.phase = Intent'.phase]
                      /\ PhaseReached(Intent', Intent.phase)
    OBVIOUS
  <2>1. Move
    BY NextStep DEF Sound, Stepped
  <2>2. CASE Intent' = Intent
    <3>1. Intent \in Documents /\ Intent.phase \in Phases
      BY IntentFields DEF Transactions, StoredDocuments
    <3>2. Intent = [Intent EXCEPT !.phase = Intent.phase]
      BY <3>1 DEF Documents
    <3>3. PhaseIndex[Intent.phase] \in Nat
      BY <3>1 DEF PhaseIndex, Phases
    <3> QED BY <2>2, <3>2, <3>3 DEF PhaseReached
  <2>3. CASE Advanced
    BY <2>3 DEF Advanced, Advance
  <2> QED BY <2>1, <2>2, <2>3 DEF Move, Kept, OpenedNow, Switched, ClosedNow
<1> QED BY <1>1, SettledInvariantHolds, PTL DEF Spec, IntentIsMonotonic

\* The publisher implements the two-slot register: the rollback target is always
\* the release that was live immediately before, and none while a switch is open.
THEOREM PublisherIsRegister == Settled => (Spec => ImplementsRegister)
<1> SUFFICES ASSUME Settled PROVE Spec => ImplementsRegister
  OBVIOUS
<1>1. Init => Register!Init
  BY InitSafe, RegisterInit DEF IInv, Safe
<1>2. IInv /\ SettledInv /\ [Next]_vars /\ IInv' =>
         Register!Next \/ UNCHANGED <<IdOf(production), RollbackTarget, PendingSwitch>>
  BY NextStep, RegisterStep DEF Sound, Stepped
<1>3. Spec => []IInv
  BY InvariantHolds
<1>4. Spec => [](IInv /\ SettledInv)
  BY SettledInvariantHolds
<1> QED BY <1>1, <1>2, <1>3, <1>4, PTL
        DEF Spec, ImplementsRegister, Register!Spec, Register!registerVars
=============================================================================
