---------------------- MODULE ReleaseOperationsProofs ----------------------
(***************************************************************************)
(* Proofs about what happens around the switch of a release: the verified  *)
(* write every step of it relies on, the application of a retention plan   *)
(* between attempts, and the reconciliation of an attempt whose outcome is *)
(* unknown.                                                                *)
(***************************************************************************)
EXTENDS ReleaseRetentionInvariant, ReleaseReconciliationInvariant, ReleaseBundleProofs,
        VerifiedWrite

-----------------------------------------------------------------------------
(* A write made by VerifiedWrite keeps the contract ReleaseBundle relies   *)
(* on, for any values, and any error statuses the service may answer.      *)

\* A PUT that is still running has not changed the key, and one whose answer
\* was taken for an error never will.
WriteInv ==
  /\ before \in Values /\ remote \in {before, Wanted} /\ running \in BOOLEAN
  /\ wpc \in {"request", "answer", "read_back", "done"}
  /\ raised \in {"none", "error", "unknown"}
  /\ IF wpc = "done" THEN wrote \in {"confirmed", "refused", "unresolved"} ELSE wrote = "open"
  /\ running => remote = before
  /\ wpc = "request" => ~running /\ remote = before
  /\ raised = "error" => ~running /\ remote = before /\ wpc \notin {"request", "answer"}

\* _request_json: what is raised as a definite error proves that nothing ran.
LEMMA ErrorsAreProofs ==
  ASSUME NEW answer \in Answers, RequestOutcome(answer) = "error"
  PROVE  NothingRan(answer)
BY WriteAssumption DEF Answers, RequestOutcome, NothingRan, OutcomeIsAmbiguous, AmbiguousHttpStatuses

LEMMA WriteStarted == WriteInit => WriteInv
BY WriteAssumption DEF WriteInit, WriteInv

LEMMA WriteKept == WriteInv /\ [WriteNext]_writeVars => WriteInv'
<1> SUFFICES ASSUME WriteInv, [WriteNext]_writeVars PROVE WriteInv'
  OBVIOUS
<1> USE DEF WriteInv
<1>1. CASE FailBeforeSending
  BY <1>1 DEF FailBeforeSending
<1>2. CASE Send
  BY <1>2 DEF Send
<1>3. CASE Apply
  BY <1>3 DEF Apply
<1>4. CASE Vanish
  BY <1>4 DEF Vanish
<1>5. ASSUME NEW answer \in Answers, Answer(answer) PROVE WriteInv'
  <2>1. RequestOutcome(answer) \in {"none", "error", "unknown"}
    BY DEF RequestOutcome
  <2>2. RequestOutcome(answer) = "error" => running /\ ~running'
    BY <1>5, ErrorsAreProofs DEF Answer
  <2>3. running' \in BOOLEAN /\ (running' => running)
    BY <1>5 DEF Answer
  <2> QED BY <1>5, <2>1, <2>2, <2>3 DEF Answer
<1>6. CASE ReadBack
  BY <1>6 DEF ReadBack, Finish
<1>7. CASE ReadBackFails
  BY <1>7 DEF ReadBackFails
<1>8. CASE GiveUp
  BY <1>8 DEF GiveUp, Finish
<1>9. CASE UNCHANGED writeVars
  BY <1>9 DEF writeVars
<1> QED BY <1>1, <1>2, <1>3, <1>4, <1>5, <1>6, <1>7, <1>8, <1>9 DEF WriteNext

ContractStep == [Contract!Next]_(Contract!outcomeVars)

\* Until there is an outcome every step is invisible; the one that gives it,
\* and whatever the PUT still does, are steps of the contract.
LEMMA StepKeepsContract ==
  ASSUME WriteInv, [WriteNext]_writeVars
  PROVE  ContractStep
<1> USE DEF WriteInv, ContractStep, Contract!outcomeVars, Contract!Next
<1>1. CASE FailBeforeSending
  BY <1>1 DEF FailBeforeSending
<1>2. CASE Send
  BY <1>2 DEF Send
<1>3. CASE Apply
  BY <1>3 DEF Apply, Contract!Land
<1>4. CASE Vanish
  BY <1>4 DEF Vanish, Contract!Lose
<1>5. ASSUME NEW answer \in Answers, Answer(answer) PROVE ContractStep
  BY <1>5 DEF Answer
<1>6. CASE ReadBack
  BY <1>6 DEF ReadBack, Finish, Contract!Confirm
<1>7. CASE ReadBackFails
  BY <1>7 DEF ReadBackFails
<1>8. CASE GiveUp
  BY <1>8 DEF GiveUp, Finish, Contract!Refuse, Contract!Unresolve
<1>9. CASE UNCHANGED writeVars
  BY <1>9 DEF writeVars
<1> QED BY <1>1, <1>2, <1>3, <1>4, <1>5, <1>6, <1>7, <1>8, <1>9 DEF WriteNext

\* release_bundle.py _publish_verified: what it returns or raises means what
\* the transaction takes it to mean, whatever Cloudflare answers and whenever
\* the PUT runs.
THEOREM WriteKeepsContract == WriteSpec => ImplementsContract
<1>1. WriteInit => WriteInv
  BY WriteStarted
<1>2. WriteInv /\ [WriteNext]_writeVars => WriteInv'
  BY WriteKept
<1>3. WriteInit => Contract!Init
  BY DEF WriteInit, Contract!Init
<1>4. WriteInv /\ [WriteNext]_writeVars => [Contract!Next]_(Contract!outcomeVars)
  BY StepKeepsContract DEF ContractStep
<1> QED BY <1>1, <1>2, <1>3, <1>4, PTL DEF WriteSpec, ImplementsContract, Contract!Spec
-----------------------------------------------------------------------------
(* Retention.  First what a deletion leaves alone.                         *)

\* Between attempts the references are protected.
LEMMA QuietReferences ==
    ASSUME inflight = {}
    PROVE  References \subseteq Protected
  BY DEF References, Protected

\* At most the two objects of one release go, and nothing else changes.
Erases(id) ==
    /\ config' = config \/ config' = [config EXCEPT ![id] = None]
    /\ manifest' = manifest \/ manifest' = [manifest EXCEPT ![id] = None]
    /\ UNCHANGED <<production, current, previous, intent, inflight, pc, job, report, base>>
    /\ faults' \in 0 .. MaxFaults

LEMMA ErasedObjects ==
    ASSUME StoreTypeOK, NEW id \in ReleaseIds, Erases(id)
    PROVE  /\ config' \in [ReleaseIds -> OptionalContent]
           /\ manifest' \in [ReleaseIds -> OptionalContent]
           /\ \A i \in ReleaseIds \ {id} : config'[i] = config[i] /\ manifest'[i] = manifest[i]
           /\ config'[id] \in {config[id], None} /\ manifest'[id] \in {manifest[id], None}
           /\ Held \ {id} \subseteq Held'
           /\ Protected' = Protected
<1>1. /\ config' \in [ReleaseIds -> OptionalContent]
      /\ manifest' \in [ReleaseIds -> OptionalContent]
      /\ \A i \in ReleaseIds \ {id} : config'[i] = config[i] /\ manifest'[i] = manifest[i]
      /\ config'[id] \in {config[id], None} /\ manifest'[id] \in {manifest[id], None}
  BY DEF Erases, StoreTypeOK, OptionalContent
<1>2. Held \ {id} \subseteq Held'
  BY <1>1 DEF Held, Staged
<1>3. Protected' = Protected
  BY DEF Erases, Protected, Intent
<1> QED BY <1>1, <1>2, <1>3

\* Losing an unprotected release between attempts keeps the invariant of the
\* publisher.
LEMMA ErasureKeepsIInv ==
    ASSUME IInv, pc = "idle", job = NoJob, inflight = {},
           NEW id \in ReleaseIds, id \notin Protected, Erases(id)
    PROVE  IInv'
<1>1. StoreTypeOK /\ Addressed(config) /\ Addressed(manifest) /\ References \subseteq Held
  BY DEF IInv, StoreInv
<1>2. Addressed(config)' /\ Addressed(manifest)'
  BY <1>1, ErasedObjects DEF Addressed
<1>3. StoreTypeOK'
  BY <1>1, ErasedObjects DEF StoreTypeOK, Erases
<1>4. References' = References /\ References \subseteq Held \ {id}
  BY <1>1, QuietReferences DEF References, Erases, Intent
<1>5. StoreInv'
  BY <1>1, <1>2, <1>3, <1>4, ErasedObjects DEF StoreInv
<1>6. JobInv'
  BY DEF IInv, JobInv, AttemptTypeOK, Erases, NoJob, Staging, AfterStaging,
     TxnSteps, FreshSteps, UpdateSteps, Reading, Writing
<1>7. LiveHeld => LiveHeld'
  <2> SUFFICES ASSUME LiveHeld, production # None PROVE IdOf(production) \in Held'
    BY DEF LiveHeld, Erases, IdOf
  <2>1. IdOf(production) # None /\ IdOf(production) \in Held
    BY <1>1, IdOfContent DEF StoreTypeOK, OptionalContent, LiveHeld
  <2>2. IdOf(production) \in Protected
    BY <2>1 DEF Protected
  <2> QED BY <1>1, <2>1, <2>2, ErasedObjects
<1>8. PreRelease => PreRelease'
  BY DEF PreRelease, Erases, Intent
<1>9. LiveInv'
  BY <1>7, <1>8 DEF IInv, LiveInv, Erases
<1> QED BY <1>5, <1>6, <1>9 DEF IInv

\* Between attempts a refused write of the journal, or a step of the publisher
\* that takes no key, costs a fault and nothing else.
LEMMA FaultKeepsIInv ==
    ASSUME IInv, Refused, UNCHANGED <<pc, job, report, base>>
    PROVE  /\ IInv' /\ UNCHANGED <<store, inflight>> /\ Held' = Held
           /\ Protected' = Protected /\ LiveHeld' = LiveHeld
           /\ faults' \in 0 .. MaxFaults
<1>1. StoreInv' /\ Held' = Held /\ UNCHANGED <<store, inflight>>
  BY RefusedKeepsStore DEF IInv, Refused
<1>2. Protected' = Protected /\ LiveHeld' = LiveHeld
  BY <1>1 DEF store, Protected, Intent, LiveHeld
<1>3. JobInv'
  BY <1>1 DEF IInv, JobInv, AttemptTypeOK, store
<1>4. LiveInv'
  BY <1>1, <1>2 DEF IInv, LiveInv, PreRelease, store, Intent
<1>5. faults' \in 0 .. MaxFaults
  BY <1>1 DEF StoreInv, StoreTypeOK
<1> QED BY <1>1, <1>2, <1>3, <1>4, <1>5 DEF IInv

LEMMA StutterKeepsIInv ==
    ASSUME IInv, UNCHANGED vars
    PROVE  /\ IInv' /\ Held' = Held /\ Protected' = Protected /\ LiveHeld' = LiveHeld
<1>1. IInv'
  BY Inductive
<1> QED BY <1>1 DEF vars, store, Held, Staged, Protected, Intent, LiveHeld
-----------------------------------------------------------------------------
(* The publisher between applications.                                     *)

\* However an attempt ends it takes its local state with it, and one that ends
\* well had its candidate staged.
LEMMA AttemptEnds ==
    ASSUME Safe, pc # "idle", Attempt \/ ReadFailure \/ Crash, pc' = "idle"
    PROVE  /\ job' = NoJob
           /\ report'.status \in {"published", "unchanged"} =>
                  /\ job.candidate \in Contents /\ IdOf(job.candidate) \in Held
<1>1. job' = NoJob
  BY DEF ReadFailure, Crash, End, Continue, Attempt, ReadIntent, RetireCheck, Retire,
     StageConfig, StageManifest, ReadProduction, ReadCurrent, ReadPrevious, Recover,
     RepairPrevious, RepairCurrent, Repair, Decide, AlignCurrent, StageOldConfig,
     StageOldManifest, Stage, WriteIntent, FirstPointer, Activate, CommitPhase,
     VerifyPhase, FinalizePhase, AdvanceIntent, SwitchPrevious, SwitchCurrent,
     SwitchPointer, Check, Clear, UndoFirstPointer, UndoProduction, UndoCurrent, Undo,
     UndoPrevious, Abort, Unresolved
<1>2. ASSUME report'.status \in {"published", "unchanged"}
      PROVE  pc \in {"reconcile", "align_current", "clear"}
  BY <1>2 DEF ReadFailure, Crash, End, Continue, Attempt, ReadIntent, RetireCheck, Retire,
     StageConfig, StageManifest, ReadProduction, ReadCurrent, ReadPrevious, Recover,
     RepairPrevious, RepairCurrent, Repair, Decide, AlignCurrent, StageOldConfig,
     StageOldManifest, Stage, WriteIntent, FirstPointer, Activate, CommitPhase,
     VerifyPhase, FinalizePhase, AdvanceIntent, SwitchPrevious, SwitchCurrent,
     SwitchPointer, Check, Clear, UndoFirstPointer, UndoProduction, UndoCurrent, Undo,
     UndoPrevious, Abort, Unresolved
<1> QED BY <1>1, <1>2 DEF Safe, JobInv, AfterStaging, Reading, Writing, Staging

\* A manifest without its configuration that is not recorded, now or once a
\* late write lands.
Traces ==
    /\ \A id \in ReleaseIds : manifest[id] # None /\ config[id] = None => id \in Journaled
    /\ \A w \in inflight : w.key = "manifest" => config[ReleaseIdOf[w.value]] # None

\* A write leaves no new one, if a manifest is written after its configuration.
LEMMA WriteKeepsTraces ==
    ASSUME StoreInv, Traces, journal' = journal, NEW key, NEW value,
           Admissible(key, value),
           key = "manifest" => config[ReleaseIdOf[value]] # None,
           \/ Put(key, value) \/ UNCHANGED store,
           inflight' \subseteq inflight \union {Write(key, value)}
    PROVE  Traces'
<1>1. \A id \in ReleaseIds : config[id] # None => config'[id] # None
  <2>1. CASE Put(key, value)
    BY <2>1, PutKeepsHeld DEF StoreInv
  <2>2. CASE UNCHANGED store
    BY <2>2 DEF store
  <2> QED BY <2>1, <2>2
<1>2. \A w \in inflight' : w.key = "manifest" =>
          /\ ReleaseIdOf[w.value] \in ReleaseIds /\ config[ReleaseIdOf[w.value]] # None
  <2> SUFFICES ASSUME NEW w \in inflight', w.key = "manifest"
               PROVE  ReleaseIdOf[w.value] \in ReleaseIds /\ config[ReleaseIdOf[w.value]] # None
    OBVIOUS
  <2>1. CASE w \in inflight
    <3>1. Admissible(w.key, w.value)
      BY <2>1, WriteIsAdmissible DEF StoreInv, StoreTypeOK
    <3> QED BY <2>1, <3>1, ContentsAssumption DEF Admissible, Traces
  <2>2. CASE w = Write(key, value)
    BY <2>2, ContentsAssumption DEF Write, Admissible
  <2> QED BY <2>1, <2>2
<1>3. ASSUME NEW id \in ReleaseIds, manifest'[id] # None, config'[id] = None
      PROVE  id \in Journaled
  <2>1. CASE manifest'[id] = manifest[id]
    BY <1>1, <1>3, <2>1 DEF Traces
  <2>2. CASE key = "manifest" /\ Put(key, value) /\ id = ReleaseIdOf[value]
    BY <1>1, <1>3, <2>2
  <2> QED BY <2>1, <2>2 DEF Put, store, StoreInv, StoreTypeOK
<1> QED BY <1>1, <1>2, <1>3 DEF Traces, Journaled

LEMMA SameStoreKeepsTraces ==
    ASSUME Traces, UNCHANGED <<store, journal>>, inflight' \subseteq inflight
    PROVE  Traces'
  BY DEF Traces, store, Journaled

LEMMA StageKeepsTraces ==
    ASSUME StoreInv, Traces, journal' = journal, NEW at, NEW key \in {"config", "manifest"},
           NEW stored, NEW content \in Contents, NEW step, NEW locals,
           Stage(at, key, stored, content, step, locals),
           key = "manifest" => config[IdOf(content)] = content
    PROVE  Traces'
<1>1. Admissible(key, content) /\ (key = "manifest" => config[ReleaseIdOf[content]] # None)
  BY ContentWrite, IdOfContent, ContentsAssumption
<1>2. \/ Confirmed(key, content) \/ Unresolved(key, content, "no")
      \/ UNCHANGED <<store, inflight>>
  BY DEF Stage, Local, Refused
<1>3. CASE Confirmed(key, content) \/ Unresolved(key, content, "no")
  BY <1>1, <1>3, WriteKeepsTraces DEF Confirmed, Unresolved
<1>4. CASE UNCHANGED <<store, inflight>>
  BY <1>4, SameStoreKeepsTraces
<1> QED BY <1>2, <1>3, <1>4

\* Every other step of the publisher writes something else than a manifest.
LEMMA NextKeepsTraces ==
    ASSUME Safe, Safe', Traces, journal' = journal, [Next]_vars
    PROVE  Traces'
<1>1. CASE StageConfig
  BY <1>1, StageKeepsTraces DEF StageConfig, Stage, Safe, JobInv
<1>2. CASE StageManifest
  BY <1>2, StageKeepsTraces DEF StageManifest, Stage, Safe, JobInv
<1>3. CASE StageOldConfig
  BY <1>3, StageKeepsTraces DEF StageOldConfig, Stage, Safe, JobInv, UpdateSteps
<1>4. CASE StageOldManifest
  BY <1>4, StageKeepsTraces DEF StageOldManifest, Stage, Safe, JobInv, UpdateSteps
<1>5. CASE Settle
  <2> PICK w \in inflight : Land(w) \/ Lose(w)
    BY <1>5 DEF Settle
  <2>1. Admissible(w.key, w.value)
    BY WriteIsAdmissible DEF Safe, StoreInv, StoreTypeOK
  <2>2. w.key = "manifest" => config[ReleaseIdOf[w.value]] # None
    BY DEF Traces
  <2> QED BY <2>1, <2>2, WriteKeepsTraces DEF Land, Lose, Safe
<1>6. CASE /\ [Next]_vars
           /\ ~(StageConfig \/ StageManifest \/ StageOldConfig \/ StageOldManifest \/ Settle)
  <2> DEFINE NoObject == /\ manifest' = manifest /\ config' = config
                         /\ \A w \in inflight' : w \in inflight \/ w.key # "manifest"
  <2> USE DEF Put, Confirmed, Refused, Unresolved, Local, store, Write
  <2>1. CASE \/ UNCHANGED vars \/ \E c \in Contents : Begin(c)
             \/ ReadIntent \/ RetireCheck \/ ReadProduction \/ ReadCurrent \/ ReadPrevious
             \/ Recover \/ Decide \/ Check \/ ReadFailure \/ Crash
    <3>1. NoObject
      BY <2>1 DEF vars, Begin, ReadIntent, RetireCheck, ReadProduction, ReadCurrent,
         ReadPrevious, Recover, Decide, Check, ReadFailure, Crash
    <3> QED BY <3>1 DEF Traces, Journaled
  <2>2. CASE Retire \/ Clear \/ Abort \/ WriteIntent \/ FirstPointer \/ AlignCurrent
    <3>1. NoObject
      BY <2>2 DEF Retire, Clear, Abort, WriteIntent, FirstPointer, AlignCurrent
    <3> QED BY <3>1 DEF Traces, Journaled
  <2>3. CASE RepairPrevious \/ RepairCurrent \/ CommitPhase \/ VerifyPhase \/ FinalizePhase
    <3>1. NoObject
      BY <2>3 DEF RepairPrevious, RepairCurrent, Repair, CommitPhase, VerifyPhase,
         FinalizePhase, AdvanceIntent
    <3> QED BY <3>1 DEF Traces, Journaled
  <2>4. CASE \/ Activate \/ SwitchPrevious \/ SwitchCurrent
             \/ UndoFirstPointer \/ UndoProduction \/ UndoCurrent \/ UndoPrevious
    <3>1. NoObject
      BY <2>4 DEF Activate, SwitchPrevious, SwitchCurrent, SwitchPointer, UndoFirstPointer,
         UndoProduction, UndoCurrent, Undo, UndoPrevious
    <3> QED BY <3>1 DEF Traces, Journaled
  <2> QED BY <1>6, <2>1, <2>2, <2>3, <2>4 DEF Next, Attempt
<1> QED BY <1>1, <1>2, <1>3, <1>4, <1>5, <1>6
-----------------------------------------------------------------------------
(* Each step of the composition keeps RetentionInv.                        *)

LEMMA PublisherRetains ==
    ASSUME Settled, RetentionInv, Publisher PROVE RetentionInv'
<1>1. Safe /\ LiveInv /\ Traces
  BY DEF RetentionInv, IInv, Safe, JournalInv, Traces
<1>2. /\ rpc = "idle" /\ rpc' = "idle" /\ owed = None
      /\ UNCHANGED <<journal, clock, reviewed, doomed, victim, expired, deleting>>
  BY DEF Publisher
<1>3. deleting = {}
  BY DEF Publisher, RetentionInv, Exclusive
<1>4. (\E c \in Contents : Begin(c)) \/ (pc # "idle" /\ (Attempt \/ ReadFailure \/ Crash))
  <2>1. Attempt => pc # "idle"
    BY DEF Attempt, ReadIntent, RetireCheck, Retire, StageConfig, StageManifest,
       ReadProduction, ReadCurrent, ReadPrevious, Recover, RepairPrevious, RepairCurrent,
       Repair, Decide, AlignCurrent, StageOldConfig, StageOldManifest, Stage, WriteIntent,
       FirstPointer, Activate, CommitPhase, VerifyPhase, FinalizePhase, AdvanceIntent,
       SwitchPrevious, SwitchCurrent, SwitchPointer, Check, Clear, UndoFirstPointer,
       UndoProduction, UndoCurrent, Undo, UndoPrevious, Abort
  <2> QED BY <2>1 DEF Publisher, ReadFailure, Crash, Reading
<1>5. [Next]_vars
  BY <1>4 DEF Next
<1>6. IInv' /\ Safe' /\ Calm
  BY <1>1, <1>5, Inductive, NextCalm DEF RetentionInv, IInv, Safe
<1>7. pc' = "idle" => /\ job' = NoJob
                      /\ report'.status \in {"published", "unchanged"} =>
                             IdOf(job.candidate) \in Held' /\ IdOf(job.candidate) \in ReleaseIds
  BY <1>1, <1>4, <1>6, AttemptEnds, IdOfContent DEF Begin, Calm
<1>8. owed' # None => pc' = "idle" /\ owed' \in Held' /\ owed' \in ReleaseIds
  BY <1>7 DEF Publisher
<1>9. Traces'
  BY <1>1, <1>2, <1>5, <1>6, NextKeepsTraces
<1>10. LiveHeld' \/ IdOf(production)' \notin Journaled'
  <2>1. IdOf(production') \in Held' => LiveHeld'
    BY DEF LiveHeld, IdOf
  <2>2. CASE production' = production /\ IdOf(production') \notin Held'
    BY <1>2, <1>6, <2>2, CalmKeepsLiveHeld DEF RetentionInv, JournalInv, Journaled, IdOf
  <2> QED BY <1>6, <2>1, <2>2 DEF Calm
<1>11. RetentionTypeOK'
  BY <1>2, <1>8 DEF RetentionInv, RetentionTypeOK, OptionalId
<1>12. Exclusive'
  BY <1>2, <1>3, <1>7, <1>8 DEF Exclusive
<1>13. ApplicationInv'
  BY <1>2, <1>3 DEF RetentionInv, ApplicationInv, Victims
<1> QED BY <1>6, <1>9, <1>10, <1>11, <1>12, <1>13 DEF RetentionInv, JournalInv, Traces

LEMMA LateWriteRetains ==
    ASSUME RetentionInv, LateWrite PROVE RetentionInv'
<1>1. Safe /\ LiveInv /\ Traces
  BY DEF RetentionInv, IInv, Safe, JournalInv, Traces
<1>2. Settle /\ [Next]_vars /\ inflight # {} /\ UNCHANGED retentionVars
      /\ UNCHANGED <<pc, job>>
  BY DEF LateWrite, Settle, Next, Land, Lose
<1>3. rpc = "idle" /\ deleting = {}
  BY <1>2 DEF RetentionInv, Exclusive
<1>4. IInv' /\ Safe' /\ Calm
  BY <1>1, <1>2, Inductive, NextCalm DEF RetentionInv, IInv, Safe
<1>5. Traces'
  BY <1>1, <1>2, <1>4, NextKeepsTraces DEF retentionVars
<1>6. LiveHeld' \/ IdOf(production)' \notin Journaled'
  <2>1. IdOf(production') \in Held' => LiveHeld'
    BY DEF LiveHeld, IdOf
  <2>2. CASE production' = production /\ IdOf(production') \notin Held'
    BY <1>2, <1>4, <2>2, CalmKeepsLiveHeld
    DEF RetentionInv, JournalInv, Journaled, retentionVars, IdOf
  <2> QED BY <1>4, <2>1, <2>2 DEF Calm
<1>7. RetentionTypeOK' /\ Exclusive' /\ ApplicationInv'
  BY <1>2, <1>3, <1>4
  DEF RetentionInv, RetentionTypeOK, Exclusive, ApplicationInv, Victims, retentionVars, Calm
<1> QED BY <1>4, <1>5, <1>6, <1>7 DEF RetentionInv, JournalInv, Traces

\* Recording can only add the release an attempt has just left complete.
LEMMA RecordRetains ==
    ASSUME RetentionInv, RecordRelease PROVE RetentionInv'
<1>1. /\ owed # None /\ owed \in Held /\ owed \in ReleaseIds /\ owed' = None
      /\ rpc = "idle" /\ deleting = {} /\ pc = "idle"
      /\ UNCHANGED <<clock, reviewed, rpc, doomed, victim, expired, deleting>>
  BY DEF RecordRelease, RetentionInv, Exclusive, RetentionTypeOK, Held
<1>2. /\ IInv' /\ Held' = Held /\ Protected' = Protected /\ LiveHeld' = LiveHeld
      /\ UNCHANGED <<store, inflight, pc, job>>
  BY FaultKeepsIInv, StutterKeepsIInv DEF RecordRelease, RetentionInv, vars
<1>3. journal' = journal \/ journal' = [journal EXCEPT ![owed] = IF @ = None THEN clock ELSE @]
  BY DEF RecordRelease
<1>4. /\ journal' \in [ReleaseIds -> Nat \union {None}]
      /\ Journaled \subseteq Journaled' /\ Journaled' \subseteq Journaled \union {owed}
  BY <1>1, <1>3 DEF RetentionInv, RetentionTypeOK, Journaled
<1>5. LiveHeld' \/ IdOf(production)' \notin Journaled'
  <2>1. IdOf(production)' = IdOf(production)
    BY <1>2 DEF store, IdOf
  <2>2. IdOf(production) = owed => LiveHeld
    BY <1>1 DEF LiveHeld
  <2> QED BY <1>2, <1>4, <2>1, <2>2 DEF RetentionInv, JournalInv
<1>6. JournalInv'
  BY <1>2, <1>4, <1>5 DEF RetentionInv, JournalInv, store
<1>7. RetentionTypeOK' /\ Exclusive' /\ ApplicationInv'
  BY <1>1, <1>2, <1>4
  DEF RetentionInv, RetentionTypeOK, Exclusive, ApplicationInv, Victims, OptionalId
<1> QED BY <1>2, <1>6, <1>7 DEF RetentionInv

\* Steps that write neither the store nor the journal.
LEMMA QuietStepRetains ==
    ASSUME RetentionInv, IInv', UNCHANGED <<store, inflight, pc, job, journal>>,
           Held' = Held, Protected' = Protected, LiveHeld' = LiveHeld,
           RetentionTypeOK', Exclusive', ApplicationInv'
    PROVE  RetentionInv'
  BY DEF RetentionInv, JournalInv, store, Journaled, IdOf

LEMMA TickAndPlanRetain ==
    ASSUME RetentionInv, Tick \/ Plan \/ UNCHANGED allVars PROVE RetentionInv'
<1>1. /\ UNCHANGED vars
      /\ UNCHANGED <<journal, owed, rpc, doomed, victim, expired, deleting>>
      /\ clock' \in Nat
  BY DEF Tick, Plan, allVars, retentionVars, RetentionInv, RetentionTypeOK
<1>2. IInv' /\ Held' = Held /\ Protected' = Protected /\ LiveHeld' = LiveHeld
  BY <1>1, StutterKeepsIInv DEF RetentionInv
<1>3. RetentionTypeOK' /\ Exclusive' /\ ApplicationInv'
  BY <1>1, <1>2
  DEF RetentionInv, RetentionTypeOK, Exclusive, ApplicationInv, Victims, vars, store, Journaled
<1> QED BY <1>1, <1>2, <1>3, QuietStepRetains DEF vars

\* What a plan that is still up to date proposes is recorded and unprotected.
LEMMA RevalidateRetains ==
    ASSUME Settled, RetentionInv, Revalidate PROVE RetentionInv'
<1>1. /\ rpc = "idle" /\ pc = "idle" /\ owed = None /\ inflight = {} /\ deleting = {}
      /\ UNCHANGED vars /\ UNCHANGED <<journal, clock, owed, victim, deleting>>
      /\ \/ rpc' = "recheck" /\ doomed' = Candidates /\ expired' = Candidates
         \/ UNCHANGED <<rpc, doomed, expired>>
  BY DEF Revalidate
<1>2. IInv' /\ Held' = Held /\ Protected' = Protected /\ LiveHeld' = LiveHeld
  BY <1>1, StutterKeepsIInv DEF RetentionInv
<1>3. Journaled' = Journaled /\ Candidates \subseteq Journaled \ Protected
      /\ Candidates \subseteq ReleaseIds
  BY <1>1 DEF Journaled, Candidates
<1>4. RetentionTypeOK' /\ Exclusive'
  BY <1>1, <1>3 DEF RetentionInv, RetentionTypeOK, Exclusive, vars
<1>5. ApplicationInv'
  BY <1>1, <1>2, <1>3 DEF RetentionInv, ApplicationInv, Victims, vars, store
<1> QED BY <1>1, <1>2, <1>4, <1>5, QuietStepRetains DEF vars

LEMMA RecheckRetains ==
    ASSUME RetentionInv, Recheck PROVE RetentionInv'
<1>1. /\ rpc = "recheck" /\ UNCHANGED vars
      /\ UNCHANGED <<journal, clock, owed, reviewed, deleting>>
      /\ \/ Stop
         \/ rpc' = "config" /\ victim' \in doomed /\ UNCHANGED <<doomed, expired>>
  BY DEF Recheck
<1>2. IInv' /\ Held' = Held /\ Protected' = Protected /\ LiveHeld' = LiveHeld
  BY <1>1, StutterKeepsIInv DEF RetentionInv
<1>3. Journaled' = Journaled
  BY <1>1 DEF Journaled
<1>4. RetentionTypeOK' /\ Exclusive'
  BY <1>1 DEF RetentionInv, RetentionTypeOK, Exclusive, vars, Stop, OptionalId
<1>5. ApplicationInv'
  BY <1>1, <1>2, <1>3 DEF RetentionInv, ApplicationInv, Victims, vars, store, Stop
<1> QED BY <1>1, <1>2, <1>4, <1>5, QuietStepRetains DEF vars

\* Giving up at any point: a deletion that may still take effect is of a release
\* that was doomed, hence recorded and unprotected.
LEMMA GivingUpRetains ==
    ASSUME RetentionInv, rpc # "idle", Stop, Refused, UNCHANGED <<pc, job, report, base>>,
           UNCHANGED <<clock, owed, reviewed, journal>>,
           \/ deleting' = deleting
           \/ \E key \in {"config", "manifest"} :
                 rpc \in {"config", "manifest"}
                 /\ deleting' = deleting \union {[key |-> key, id |-> victim]}
    PROVE  RetentionInv'
<1>1. /\ IInv' /\ UNCHANGED <<store, inflight>> /\ Held' = Held
      /\ Protected' = Protected /\ LiveHeld' = LiveHeld
  BY FaultKeepsIInv DEF RetentionInv
<1>2. pc = "idle" /\ owed = None /\ inflight = {} /\ deleting = {}
  BY DEF RetentionInv, Exclusive
<1>3. rpc \in {"config", "manifest"} => victim \in doomed /\ victim \in ReleaseIds
  BY DEF RetentionInv, ApplicationInv, RetentionTypeOK
<1>4. /\ \A d \in deleting' : d.id \in Journaled \ Protected
      /\ deleting' \in SUBSET [key : {"config", "manifest"}, id : ReleaseIds]
  <2>1. CASE deleting' = deleting
    BY <1>2, <2>1
  <2>2. ASSUME NEW key \in {"config", "manifest"}, rpc \in {"config", "manifest"},
               deleting' = deleting \union {[key |-> key, id |-> victim]}
        PROVE  /\ \A d \in deleting' : d.id \in Journaled \ Protected
               /\ deleting' \in SUBSET [key : {"config", "manifest"}, id : ReleaseIds]
    BY <1>2, <1>3, <2>2 DEF RetentionInv, ApplicationInv, Victims
  <2> QED BY <2>1, <2>2
<1>5. Journaled' = Journaled
  BY DEF Journaled
<1>6. RetentionTypeOK' /\ Exclusive'
  BY <1>1, <1>2, <1>4 DEF RetentionInv, RetentionTypeOK, Exclusive, Stop, OptionalId
<1>7. ApplicationInv'
  BY <1>1, <1>4, <1>5 DEF ApplicationInv, Victims, Stop
<1> QED BY <1>1, <1>6, <1>7, QuietStepRetains
\* What the deletion of one recorded, unprotected release does to the store.
LEMMA ErasureRetains ==
    ASSUME RetentionInv, NEW id \in ReleaseIds, id \in Journaled \ Protected, Erases(id),
           rpc # "idle" \/ deleting # {}, journal' = journal
    PROVE  /\ IInv' /\ JournalInv' /\ Protected' = Protected /\ Journaled' = Journaled
           /\ UNCHANGED <<inflight, pc, job>>
<1>1. pc = "idle" /\ job = NoJob /\ inflight = {}
  BY DEF RetentionInv, Exclusive
<1>2. IInv'
  BY <1>1, ErasureKeepsIInv DEF RetentionInv
<1>3. StoreTypeOK
  BY DEF RetentionInv, IInv, StoreInv
<1>4. Protected' = Protected /\ Journaled' = Journaled /\ UNCHANGED <<inflight, pc, job>>
  BY <1>3, ErasedObjects DEF Journaled, Erases
<1>5. \A i \in ReleaseIds : manifest'[i] # None /\ config'[i] = None => i \in Journaled
  BY <1>3, ErasedObjects DEF RetentionInv, JournalInv
<1>6. LiveHeld' \/ IdOf(production)' \notin Journaled'
  <2>1. production' = production /\ IdOf(production)' = IdOf(production)
    BY DEF Erases, IdOf
  <2>2. CASE production # None /\ LiveHeld
    <3>1. IdOf(production) # None /\ IdOf(production) \in Held /\ IdOf(production) \in Protected
      BY <1>3, <2>2, IdOfContent DEF StoreTypeOK, OptionalContent, LiveHeld, Protected
    <3> QED BY <1>3, <2>1, <3>1, ErasedObjects DEF LiveHeld
  <2> QED BY <1>4, <2>1, <2>2 DEF RetentionInv, JournalInv, LiveHeld
<1>7. JournalInv'
  BY <1>1, <1>4, <1>5, <1>6 DEF JournalInv
<1> QED BY <1>2, <1>4, <1>7

LEMMA DeleteConfigRetains ==
    ASSUME RetentionInv, DeleteConfig PROVE RetentionInv'
<1>1. rpc = "config" /\ rpc # "idle" /\ UNCHANGED <<journal, clock, owed, reviewed>>
  BY DEF DeleteConfig
<1>2. /\ victim \in doomed /\ victim \in ReleaseIds /\ victim \in Journaled \ Protected
      /\ victim # None
  BY <1>1, SentinelsAssumption
  DEF RetentionInv, ApplicationInv, RetentionTypeOK, Victims
<1>3. CASE DeleteFails("config")
  BY <1>1, <1>3, GivingUpRetains DEF DeleteFails
<1>4. CASE /\ config' = [config EXCEPT ![victim] = None] /\ rpc' = "manifest"
           /\ UNCHANGED <<production, current, previous, intent, manifest, inflight,
                          pc, job, report, base, faults, doomed, victim, expired, deleting>>
  <2>1. Erases(victim)
    BY <1>4 DEF Erases, RetentionInv, IInv, StoreInv, StoreTypeOK
  <2>2. StoreTypeOK
    BY DEF RetentionInv, IInv, StoreInv
  <2>3. /\ IInv' /\ JournalInv' /\ Protected' = Protected /\ Journaled' = Journaled
        /\ UNCHANGED <<inflight, pc, job>>
    BY <1>1, <1>2, <2>1, ErasureRetains
  <2>4. RetentionTypeOK' /\ Exclusive'
    BY <1>1, <1>4, <2>3 DEF RetentionInv, RetentionTypeOK, Exclusive
  <2>5. \A i \in expired \ doomed : config'[i] = None /\ manifest'[i] = None
    BY <1>2, <2>1, <2>2, <1>4, ErasedObjects DEF RetentionInv, ApplicationInv, RetentionTypeOK
  <2>6. config'[victim] = None
    BY <1>2, <1>4, <2>2 DEF StoreTypeOK
  <2>7. ApplicationInv'
    BY <1>1, <1>2, <1>4, <2>3, <2>5, <2>6 DEF RetentionInv, ApplicationInv, Victims
  <2> QED BY <2>3, <2>4, <2>7 DEF RetentionInv
<1> QED BY <1>3, <1>4 DEF DeleteConfig

\* The configuration went before, so the release is gone with its manifest.
LEMMA DeleteManifestRetains ==
    ASSUME RetentionInv, DeleteManifest PROVE RetentionInv'
<1>1. rpc = "manifest" /\ rpc # "idle" /\ UNCHANGED <<journal, clock, owed, reviewed>>
  BY DEF DeleteManifest
<1>2. /\ victim \in doomed /\ victim \in ReleaseIds /\ victim \in Journaled \ Protected
      /\ victim # None /\ config[victim] = None
  BY <1>1, SentinelsAssumption
  DEF RetentionInv, ApplicationInv, RetentionTypeOK, Victims
<1>3. CASE DeleteFails("manifest")
  BY <1>1, <1>3, GivingUpRetains DEF DeleteFails
<1>4. CASE /\ manifest' = [manifest EXCEPT ![victim] = None]
           /\ doomed' = doomed \ {victim} /\ victim' = None
           /\ rpc' = IF doomed = {victim} THEN "journal" ELSE "recheck"
           /\ UNCHANGED <<production, current, previous, intent, config, inflight,
                          pc, job, report, base, faults, expired, deleting>>
  <2>1. Erases(victim)
    BY <1>4 DEF Erases, RetentionInv, IInv, StoreInv, StoreTypeOK
  <2>2. StoreTypeOK
    BY DEF RetentionInv, IInv, StoreInv
  <2>3. /\ IInv' /\ JournalInv' /\ Protected' = Protected /\ Journaled' = Journaled
        /\ UNCHANGED <<inflight, pc, job>>
    BY <1>1, <1>2, <2>1, ErasureRetains
  <2>4. RetentionTypeOK' /\ Exclusive'
    BY <1>1, <1>4, <2>3 DEF RetentionInv, RetentionTypeOK, Exclusive, OptionalId
  <2>5. config'[victim] = None /\ manifest'[victim] = None
    BY <1>2, <1>4, <2>2 DEF StoreTypeOK
  <2>6. \A i \in expired \ doomed' : config'[i] = None /\ manifest'[i] = None
    <3> SUFFICES ASSUME NEW i \in expired \ doomed'
                 PROVE  config'[i] = None /\ manifest'[i] = None
      OBVIOUS
    <3>1. i = victim \/ i \in expired \ doomed
      BY <1>4
    <3>2. ASSUME i # victim PROVE config[i] = None /\ manifest[i] = None /\ i \in ReleaseIds
      BY <3>1, <3>2 DEF RetentionInv, ApplicationInv, RetentionTypeOK
    <3> QED BY <1>2, <2>1, <2>2, <2>5, <3>2, ErasedObjects
  <2>7. Victims' \subseteq Victims
    BY <1>4 DEF Victims
  <2>8. ApplicationInv'
    BY <1>1, <1>2, <1>4, <2>3, <2>6, <2>7 DEF RetentionInv, ApplicationInv
  <2> QED BY <2>3, <2>4, <2>8 DEF RetentionInv
<1> QED BY <1>3, <1>4 DEF DeleteManifest

\* Everything forgotten has lost both objects.
LEMMA ForgetRetains ==
    ASSUME RetentionInv, ForgetReleases PROVE RetentionInv'
<1>1. /\ rpc = "journal" /\ rpc # "idle" /\ Stop
      /\ UNCHANGED <<clock, owed, reviewed, deleting>>
  BY DEF ForgetReleases
<1>2. CASE Refused /\ UNCHANGED <<journal, pc, job, report, base>>
  BY <1>1, <1>2, GivingUpRetains
<1>3. CASE /\ journal' = [id \in ReleaseIds |-> IF id \in expired THEN None ELSE journal[id]]
           /\ UNCHANGED vars
  <2>1. /\ pc = "idle" /\ owed = None /\ inflight = {} /\ deleting = {} /\ doomed = {}
        /\ \A id \in expired : config[id] = None /\ manifest[id] = None
    BY <1>1 DEF RetentionInv, Exclusive, ApplicationInv
  <2>2. IInv' /\ Held' = Held /\ Protected' = Protected /\ LiveHeld' = LiveHeld
    BY <1>3, StutterKeepsIInv DEF RetentionInv
  <2>3. Journaled' = Journaled \ expired
    BY <1>3 DEF Journaled
  <2>4. RetentionTypeOK' /\ Exclusive'
    BY <1>1, <1>3, <2>1 DEF RetentionInv, RetentionTypeOK, Exclusive, Stop, OptionalId, vars
  <2>5. ApplicationInv'
    BY <1>1, <2>1 DEF ApplicationInv, Victims, Stop
  <2>6. JournalInv'
    BY <1>3, <2>1, <2>2, <2>3 DEF RetentionInv, JournalInv, vars, store, IdOf
  <2> QED BY <2>2, <2>4, <2>5, <2>6 DEF RetentionInv
<1> QED BY <1>2, <1>3 DEF ForgetReleases

LEMMA LateDeleteRetains ==
    ASSUME RetentionInv, LateDelete PROVE RetentionInv'
<1> PICK d \in deleting :
        /\ deleting' = deleting \ {d}
        /\ \/ UNCHANGED <<config, manifest>>
           \/ d.key = "config" /\ config' = [config EXCEPT ![d.id] = None] /\ UNCHANGED manifest
           \/ d.key = "manifest" /\ manifest' = [manifest EXCEPT ![d.id] = None] /\ UNCHANGED config
        /\ UNCHANGED <<production, current, previous, intent, inflight, pc, job, report, base,
                       faults, journal, clock, owed, reviewed, rpc, doomed, victim, expired>>
  BY DEF LateDelete
<1>1. d.id \in ReleaseIds /\ d.id \in Journaled \ Protected /\ Erases(d.id)
  BY DEF RetentionInv, RetentionTypeOK, ApplicationInv, Victims, Erases, IInv, StoreInv, StoreTypeOK
<1>2. /\ IInv' /\ JournalInv' /\ Protected' = Protected /\ Journaled' = Journaled
      /\ UNCHANGED <<inflight, pc, job>>
  BY <1>1, ErasureRetains
<1>3. rpc = "idle" /\ owed = None /\ pc = "idle" /\ inflight = {}
  BY DEF RetentionInv, Exclusive
<1>4. RetentionTypeOK' /\ Exclusive'
  BY <1>2, <1>3 DEF RetentionInv, RetentionTypeOK, Exclusive
<1>5. doomed = {} /\ expired = {} /\ victim = None
  BY <1>3 DEF RetentionInv, ApplicationInv
<1>6. ApplicationInv'
  BY <1>2, <1>3, <1>5 DEF RetentionInv, ApplicationInv, Victims
<1> QED BY <1>2, <1>4, <1>6 DEF RetentionInv

LEMMA RetentionInductive ==
    ASSUME Settled, RetentionInv, [RetentionNext]_allVars PROVE RetentionInv'
<1>1. CASE StopApplying
  BY <1>1, GivingUpRetains DEF StopApplying
<1> QED
  BY <1>1, PublisherRetains, LateWriteRetains, RecordRetains, TickAndPlanRetain,
     RevalidateRetains, RecheckRetains, DeleteConfigRetains, DeleteManifestRetains,
     ForgetRetains, LateDeleteRetains DEF RetentionNext

LEMMA RetentionStarted ==
    ASSUME RetentionInit PROVE RetentionInv
<1>1. IInv
  BY InitSafe DEF RetentionInit, IInv, Safe
<1>2. journal = [id \in ReleaseIds |-> None] /\ Journaled = {}
  BY DEF RetentionInit, Journaled
<1>3. RetentionTypeOK /\ Exclusive /\ ApplicationInv
  BY <1>2 DEF RetentionInit, Init, RetentionTypeOK, Exclusive, ApplicationInv, Victims, OptionalId
<1>4. \A id \in ReleaseIds : manifest[id] = config[id]
  BY DEF RetentionInit, Init, InitUnversioned, InitLegacyIntent, Nothing
<1>5. JournalInv
  BY <1>2, <1>4 DEF JournalInv, RetentionInit, Init
<1> QED BY <1>1, <1>3, <1>5 DEF RetentionInv

\* apply_production_release_retention, whenever its plan was made and however
\* often and wherever it stops: for attempts and applications that start with
\* nothing in flight, an application only ever takes objects from releases that
\* are in the journal and that nothing can lead a reader or an operator to.
THEOREM RetentionInvariant == Settled => (RetentionSpec => []RetentionInv)
<1> SUFFICES ASSUME Settled PROVE RetentionSpec => []RetentionInv
  OBVIOUS
<1>1. RetentionInit => RetentionInv
  BY RetentionStarted
<1>2. RetentionInv /\ [RetentionNext]_allVars => RetentionInv'
  BY RetentionInductive
<1> QED BY <1>1, <1>2, PTL DEF RetentionSpec

\* Deleting releases never leaves a pointer, an intent or a late write naming
\* one that is missing an object.
THEOREM RetentionSparesReferences == Settled => (RetentionSpec => []ReferencesAreStaged)
<1>1. RetentionInv => ReferencesAreStaged
  BY DEF RetentionInv, IInv, StoreInv, ReferencesAreStaged, Held
<1> QED BY <1>1, RetentionInvariant, PTL

\* Nor does it take the object the live configuration is recovered from.
THEOREM RetentionSparesLive == Settled => (RetentionSpec => []LiveIsAccountedFor)
<1>1. RetentionInv => LiveIsAccountedFor
  BY DEF RetentionInv, IInv, LiveInv, LiveHeld, PreRelease, LiveIsAccountedFor, Held
<1> QED BY <1>1, RetentionInvariant, PTL

\* A release an application has half deleted, or still may delete, is in the
\* journal for the next plan, and is none that anything names.
THEOREM PartialDeletionRemembered ==
    Settled => (RetentionSpec => []PartialDeletionIsRemembered)
<1>1. RetentionInv => PartialDeletionIsRemembered
  <2> SUFFICES ASSUME RetentionInv PROVE PartialDeletionIsRemembered
    OBVIOUS
  <2> DEFINE Observed == {id \in ReleaseIds : config[id] # None \/ manifest[id] # None}
             Complete == {id \in ReleaseIds : config[id] # None /\ manifest[id] # None}
  <2>1. /\ AuditInventory.incomplete = Observed \ Complete
        /\ AuditInventory.unrecorded = Observed \ Journaled
    BY DEF AuditInventory, PlanReleaseInventory
  <2>2. \A id \in Observed \ Complete : id \notin Journaled => config[id] # None
    BY DEF RetentionInv, JournalInv
  <2>3. ASSUME NEW id \in Held PROVE id \in Complete
    BY <2>3 DEF Held, Staged
  <2>4. Journaled \cap Protected \subseteq Held
    <3>1. /\ {ParsePointer(current), ParsePointer(previous)} \ {None} \subseteq Held
          /\ (IF Intent = None THEN {} ELSE ReferencedReleaseIds(Intent)) \subseteq Held
      BY DEF RetentionInv, IInv, StoreInv, References
    <3>2. IdOf(production) # None => IdOf(production) \in Held \/ IdOf(production) \notin Journaled
      BY DEF RetentionInv, JournalInv, LiveHeld, IdOf
    <3> QED BY <3>1, <3>2 DEF Protected
  <2> HIDE DEF Observed, Complete
  <2>5. (Observed \ Complete) \cap Journaled \cap Protected = {}
    BY <2>3, <2>4
  <2>6. \A id \in (Observed \ Complete) \cap (Observed \ Journaled) : config[id] # None
    BY <2>2
  <2> QED BY <2>1, <2>5, <2>6 DEF PartialDeletionIsRemembered
<1> QED BY <1>1, RetentionInvariant, PTL
-----------------------------------------------------------------------------
(* Reconciliation.  First how an attempt may end.                          *)

AttemptStep == pc # "idle" /\ (Attempt \/ ReadFailure \/ Crash)

\* An unresolved write, by the step that issued it.
Vouched(w) ==
    \/ w.key \in {"config", "manifest"} /\ pc # "retire"
    \/ w = Write("transaction", Empty)
    \/ w.key = "transaction" /\ w.value.to = IdOf(job.candidate) /\ pc # "retire"
    \/ w.key = "production" /\ pc \in {"activate", "undo_production"}
    \/ /\ w.key = "current" /\ w.value = IdOf(job.candidate)
       /\ pc \in {"align_current", "first_pointer", "current", "repair_current"}
    \/ /\ w.key = "current" /\ w.value # IdOf(job.candidate)
       /\ pc \in {"undo_first_pointer", "undo_current"}
    \/ /\ w.key = "previous" /\ pc \in {"previous", "repair_previous", "undo_previous"}
       /\ pc = "repair_previous" => job.previous # job.txn.from

\* What an attempt knows of its transaction.
LEMMA OwnTransaction ==
    ASSUME Sound, pc \in Switch \union {"intent"}
    PROVE  /\ job.txn \in Transactions /\ job.txn.to = IdOf(job.candidate)
           /\ job.txn.to \in ReleaseIds /\ job.txn.to # None /\ job.txn.to # Empty
           /\ job.txn.from # job.txn.to /\ job.txn.from # Empty
<1>1. job.txn \in Transactions
  BY DEF Sound, IInv, JobInv, Switch, Advancing, Undoing, TxnSteps
<1>2. job.txn.to = IdOf(job.candidate)
  <2>1. CASE pc = "intent"
    BY <2>1 DEF Sound, SettledInv, BeforeInv, NewTransaction
  <2>2. CASE pc \in Switch
    BY <2>2 DEF Sound, SettledInv, SwitchInv
  <2> QED BY <2>1, <2>2
<1> QED BY <1>1, <1>2, TransactionFields

LEMMA UnknownIsVouched ==
    ASSUME Sound, AttemptStep, pc' = "idle", report'.status = "unknown"
    PROVE  /\ UNCHANGED store /\ pc \notin {"read_intent", "retire_check"}
           /\ \/ inflight' = inflight
              \/ \E w : inflight' = inflight \union {w} /\ Vouched(w)
<1> DEFINE Good == /\ UNCHANGED store /\ pc \notin {"read_intent", "retire_check"}
                   /\ \/ inflight' = inflight
                      \/ \E w : inflight' = inflight \union {w} /\ Vouched(w)
<1> HIDE DEF Good
<1>1. CASE \/ ReadIntent \/ RetireCheck \/ ReadProduction \/ ReadCurrent \/ ReadPrevious
           \/ Recover \/ Decide \/ Check \/ ReadFailure \/ Crash
  BY <1>1 DEF ReadIntent, RetireCheck, ReadProduction, ReadCurrent, ReadPrevious, Recover,
     Decide, Check, Local, ReadFailure, Crash, Refused, Continue, End, Good
<1>2. CASE Retire \/ Clear \/ Abort
  <2>1. pc \in {"retire", "clear", "abort"}
        /\ \E changed : Unresolved("transaction", Empty, changed)
    BY <1>2 DEF Retire, Clear, Abort, Continue, End
  <2> QED BY <2>1 DEF Unresolved, Good, Vouched
<1>3. CASE StageConfig \/ StageManifest \/ StageOldConfig \/ StageOldManifest
  <2>1. /\ pc \in {"stage_config", "stage_manifest", "stage_old_config", "stage_old_manifest"}
        /\ \E key \in {"config", "manifest"} : \E value : Unresolved(key, value, "no")
    BY <1>3 DEF StageConfig, StageManifest, StageOldConfig, StageOldManifest, Stage, Continue, End
  <2> QED BY <2>1 DEF Unresolved, Good, Vouched, Write
<1>4. CASE AlignCurrent
  <2>1. pc = "align_current" /\ Unresolved("current", IdOf(job.candidate), "no")
    BY <1>4 DEF AlignCurrent, End
  <2> QED BY <2>1 DEF Unresolved, Good, Vouched, Write
<1>5. CASE WriteIntent
  <2>1. pc = "intent" /\ Unresolved("transaction", job.txn, "no")
    BY <1>5 DEF WriteIntent, Continue, End
  <2> QED BY <2>1, OwnTransaction DEF Unresolved, Good, Vouched, Write
<1>6. CASE CommitPhase \/ VerifyPhase \/ FinalizePhase
  <2>1. PICK phase \in Phases : /\ pc \in {"commit", "verify", "finalize"}
                                /\ Unresolved("transaction", Advance(job.txn, phase), "yes")
    BY <1>6 DEF CommitPhase, VerifyPhase, FinalizePhase, AdvanceIntent, Continue, End, Phases
  <2>2. Advance(job.txn, phase).to = IdOf(job.candidate)
    BY <2>1, OwnTransaction, AdvancedIntent DEF Switch, Advancing
  <2> QED BY <2>1, <2>2 DEF Unresolved, Good, Vouched, Write
<1>7. CASE FirstPointer \/ SwitchCurrent
  <2>1. pc \in {"first_pointer", "current"}
        /\ \E changed : Unresolved("current", job.txn.to, changed)
    BY <1>7 DEF FirstPointer, SwitchCurrent, SwitchPointer, Continue, End
  <2> QED BY <2>1, OwnTransaction DEF Unresolved, Good, Vouched, Write, Switch, Advancing
<1>8. CASE Activate \/ UndoProduction
  <2>1. pc \in {"activate", "undo_production"}
        /\ \E value, changed : Unresolved("production", value, changed)
    BY <1>8 DEF Activate, UndoProduction, Undo, Continue, End
  <2> QED BY <2>1 DEF Unresolved, Good, Vouched, Write
<1>9. CASE SwitchPrevious \/ UndoPrevious
  <2>1. pc \in {"previous", "undo_previous"}
        /\ \E value, changed : Unresolved("previous", value, changed)
    BY <1>9 DEF SwitchPrevious, SwitchPointer, UndoPrevious, Continue, End
  <2> QED BY <2>1 DEF Unresolved, Good, Vouched, Write
<1>10. CASE RepairPrevious
  <2>1. pc = "repair_previous" /\ job.previous # job.txn.from
        /\ \E value : Unresolved("previous", value, "yes")
    BY <1>10 DEF RepairPrevious, Repair, Continue, End
  <2> QED BY <2>1 DEF Unresolved, Good, Vouched, Write
<1>11. CASE RepairCurrent
  <2>1. pc = "repair_current" /\ Unresolved("current", PointerValue(job.txn.to), "yes")
    BY <1>11 DEF RepairCurrent, Repair, Continue, End
  <2> QED BY <2>1, OwnTransaction DEF Unresolved, Good, Vouched, Write, Switch, Advancing, PointerValue
<1>12. CASE UndoFirstPointer
  <2>1. pc = "undo_first_pointer" /\ Unresolved("current", PointerValue(job.current), "no")
    BY <1>12 DEF UndoFirstPointer, Continue, End
  <2>2. job.current = None
    BY <2>1 DEF Sound, SettledInv, SwitchInv, Opened, Undoing
  <2> QED BY <2>1, <2>2, OwnTransaction DEF Unresolved, Good, Vouched, Write, Switch, PointerValue
<1>13. CASE UndoCurrent
  <2>1. /\ pc = "undo_current" /\ UNCHANGED store
        /\ inflight' = inflight \union {Write("current", job.txn.from)}
    BY <1>13 DEF UndoCurrent, Undo, Continue, End, Unresolved
  <2>2. job.txn.from # IdOf(job.candidate)
    BY <2>1, OwnTransaction DEF Switch, Undoing
  <2>3. Vouched(Write("current", job.txn.from))
    BY <2>1, <2>2 DEF Vouched, Write
  <2> QED BY <2>1, <2>3 DEF Good
<1> QED
  BY <1>1, <1>2, <1>3, <1>4, <1>5, <1>6, <1>7, <1>8, <1>9, <1>10, <1>11, <1>12, <1>13
  DEF AttemptStep, Attempt

\* Whose attempt it was, and since when, does not change.
LEMMA SameAttempt ==
    ASSUME Sound, AttemptStep
    PROVE  /\ base' = base
           /\ pc' # "idle" => job'.candidate = job.candidate
           /\ pc' = "idle" => report'.candidate = job.candidate /\ job' = NoJob
<1>1. job \in Jobs
  BY KeyTypes DEF Sound
<1> QED
  BY <1>1, SMTT(60) DEF AttemptStep, Jobs, ReadFailure, Crash, End, Continue, Attempt, ReadIntent,
     RetireCheck, Retire,
     StageConfig, StageManifest, ReadProduction, ReadCurrent, ReadPrevious, Recover,
     RepairPrevious, RepairCurrent, Repair, Decide, AlignCurrent, StageOldConfig,
     StageOldManifest, Stage, WriteIntent, FirstPointer, Activate, CommitPhase,
     VerifyPhase, FinalizePhase, AdvanceIntent, SwitchPrevious, SwitchCurrent,
     SwitchPointer, Check, Clear, UndoFirstPointer, UndoProduction, UndoCurrent, Undo,
     UndoPrevious, Abort, Unresolved

\* Which keys a step may change, and where it leads when it changes one.
LEMMA KeysChanged ==
    ASSUME Sound, AttemptStep
    PROVE  /\ production' = production \/ pc \in {"activate", "undo_production"}
           /\ \/ current' = current
              \/ pc \in {"first_pointer", "current", "undo_first_pointer", "undo_current"}
              \/ pc = "align_current" /\ current' = IdOf(job.candidate)
              \/ pc = "repair_current" /\ current' = PointerValue(job.txn.to)
           /\ \/ UNCHANGED <<production, current, previous, intent>>
              \/ pc' \in Switch \ {"repair_previous"}
              \/ intent' = Empty
              \/ pc = "align_current" /\ intent' = intent
              \/ pc = "undo_previous" /\ pc' = "idle" /\ UNCHANGED <<production, current, intent>>
<1> USE DEF Put, Confirmed, Refused, Unresolved, Local, store, Continue, End
<1>1. CASE \/ ReadIntent \/ RetireCheck \/ ReadProduction \/ ReadCurrent \/ ReadPrevious
           \/ Recover \/ Decide \/ Check \/ ReadFailure \/ Crash
  BY <1>1 DEF ReadIntent, RetireCheck, ReadProduction, ReadCurrent, ReadPrevious, Recover,
     Decide, Check, ReadFailure, Crash
<1>2. CASE StageConfig \/ StageManifest \/ StageOldConfig \/ StageOldManifest
  <2>1. UNCHANGED <<production, current, previous, intent>>
    BY <1>2 DEF StageConfig, StageManifest, StageOldConfig, StageOldManifest, Stage
  <2> QED BY <2>1
<1>3. CASE Retire \/ Clear \/ Abort
  BY <1>3 DEF Retire, Clear, Abort
<1>4. CASE WriteIntent \/ FirstPointer \/ AlignCurrent
  BY <1>4 DEF WriteIntent, FirstPointer, AlignCurrent, Switch
<1>5. CASE RepairPrevious \/ RepairCurrent
  BY <1>5 DEF RepairPrevious, RepairCurrent, Repair, Switch, Advancing
<1>6. CASE CommitPhase \/ VerifyPhase \/ FinalizePhase
  BY <1>6 DEF CommitPhase, VerifyPhase, FinalizePhase, AdvanceIntent, Switch, Advancing
<1>7. CASE Activate \/ SwitchPrevious \/ SwitchCurrent
  BY <1>7 DEF Activate, SwitchPrevious, SwitchCurrent, SwitchPointer, Switch, Advancing
<1>8. CASE UndoFirstPointer \/ UndoProduction \/ UndoCurrent
  BY <1>8 DEF UndoFirstPointer, UndoProduction, UndoCurrent, Undo, Switch, Undoing
<1>9. CASE UndoPrevious
  BY <1>9 DEF UndoPrevious, Switch
<1> QED
  BY <1>1, <1>2, <1>3, <1>4, <1>5, <1>6, <1>7, <1>8, <1>9 DEF AttemptStep, Attempt
-----------------------------------------------------------------------------
(* What an attempt does to the order of the pointers and to its late       *)
(* writes.                                                                 *)

\* Nothing the publisher reads has changed.
SameView ==
    /\ production' = production /\ current' = current /\ Live' = Live
    /\ Current' = Current /\ Previous' = Previous /\ Intent' = Intent
    /\ \A w : Repeats(w)' = Repeats(w)

LEMMA SameStoreSameView == ASSUME UNCHANGED store PROVE SameView
  BY SameKeys DEF SameView, store

LEMMA SwitchingInOrder ==
    Sound /\ pc \in Switch \ {"repair_previous"} => PointersInOrder
<1> SUFFICES ASSUME Sound, pc \in Switch \ {"repair_previous"} PROVE PointersInOrder
  OBVIOUS
<1>1. Intent # None /\ Intent.from # Intent.to /\ Intent.to = IdOf(job.candidate)
  BY IntentFields DEF Sound, SettledInv, SwitchInv
<1>2. pc \in Advancing => Live = Intent.to
  BY <1>1 DEF Sound, SettledInv, SwitchInv, Live
<1> QED BY <1>1, <1>2
        DEF Sound, SettledInv, SwitchInv, UndoInv, PointersInOrder, Switch, Advancing, Undoing

LEMMA OrderKept ==
    ASSUME Sound, Sound', PointersInOrder, AttemptStep
    PROVE  PointersInOrder'
<1>1. CASE UNCHANGED <<production, current, previous, intent>>
  <2>1. Live' = Live /\ Current' = Current /\ Previous' = Previous /\ Intent' = Intent
    BY <1>1 DEF Live, Current, Previous, Intent
  <2> QED BY <2>1 DEF PointersInOrder
<1>2. CASE pc' \in Switch \ {"repair_previous"}
  <2>1. (Sound /\ pc \in Switch \ {"repair_previous"} => PointersInOrder)'
    BY SwitchingInOrder, PTL
  <2> QED BY <1>2, <2>1 DEF Switch, Advancing, Undoing
<1>3. CASE intent' = Empty
  BY <1>3 DEF PointersInOrder, Intent, ParseTransaction
<1>4. CASE pc = "align_current" /\ intent' = intent
  BY <1>4 DEF Sound, SettledInv, BeforeInv, PointersInOrder, Intent
<1>5. CASE pc = "undo_previous" /\ pc' = "idle" /\ UNCHANGED <<production, current, intent>>
  <2>1. Current' = Current /\ Intent' = Intent
    BY <1>5 DEF Current, Intent
  <2> QED BY <1>5, <2>1 DEF Sound, SettledInv, UndoInv, Undoing, PointersInOrder
<1> QED BY <1>1, <1>2, <1>3, <1>4, <1>5, KeysChanged

\* An attempt that ends with a definite status left nothing new to land.
LEMMA DefiniteEnd ==
    ASSUME Sound, AttemptStep, pc' = "idle", report'.status # "unknown"
    PROVE  (\A w \in inflight' : Repeats(w)') \/ Intent' = None
<1>1. \A w \in inflight : Repeats(w)
  BY DEF Sound, SettledInv, InflightInv, AttemptStep
<1>2. CASE UNCHANGED store /\ inflight' = inflight
  BY <1>1, <1>2, SameKeys
<1>3. CASE intent' = Empty
  BY <1>3 DEF Intent, ParseTransaction
<1>4. CASE AlignCurrent
  <2>1. pc = "align_current" /\ (intent' = intent \/ UNCHANGED store)
    BY <1>4 DEF AlignCurrent, Confirmed, Put, Refused, Unresolved
  <2>2. Intent = None
    BY <2>1 DEF Sound, SettledInv, BeforeInv
  <2> QED BY <2>1, <2>2 DEF Intent, store
<1>5. CASE UndoPrevious
  <2>0. PICK value : value = PointerValue(job.previous)
    OBVIOUS
  <2>1. CASE Confirmed("previous", value)
    <3>1. Put("previous", value)
          /\ inflight' \subseteq inflight \union {Write("previous", value)}
      BY <2>1 DEF Confirmed
    <3>2. Repeats(Write("previous", value))'
      BY <3>1 DEF Put, Repeats, Holds, Write
    <3>3. \A w \in inflight : w.key # "previous"
      BY <1>5 DEF Sound, SettledInv, InflightInv, Repeatable, UndoPrevious
    <3>4. \A w \in inflight : Repeats(w)'
      BY <1>1, <3>1, <3>3, PutRepeats
    <3> QED BY <3>1, <3>2, <3>4
  <2>2. CASE Refused
    BY <1>2, <2>2 DEF Refused
  <2> QED BY <1>5, <2>0, <2>1, <2>2 DEF UndoPrevious, Unresolved, End
<1>6. CASE \/ ReadIntent \/ RetireCheck \/ ReadProduction \/ ReadCurrent \/ ReadPrevious
           \/ Recover \/ Decide \/ Check \/ ReadFailure \/ Crash
  BY <1>2, <1>6 DEF ReadIntent, RetireCheck, ReadProduction, ReadCurrent, ReadPrevious, Recover,
     Decide, Check, Local, ReadFailure, Crash, Refused
<1>7. CASE Clear \/ Abort
  BY <1>2, <1>3, <1>7 DEF Clear, Abort, Confirmed, Put, Refused, Unresolved, End
<1>8. CASE StageConfig \/ StageManifest \/ StageOldConfig \/ StageOldManifest
  <2>1. Refused \/ pc' # "idle" \/ report'.status = "unknown"
    BY <1>8 DEF StageConfig, StageManifest, StageOldConfig, StageOldManifest, Stage, Continue,
       Unresolved, End
  <2> QED BY <1>2, <2>1 DEF Refused
<1>9. CASE Retire \/ WriteIntent \/ FirstPointer \/ RepairPrevious \/ RepairCurrent
  <2>1. Refused \/ pc' # "idle" \/ report'.status = "unknown"
    BY <1>9 DEF Retire, WriteIntent, FirstPointer, RepairPrevious, RepairCurrent, Repair,
       Continue, Unresolved, End
  <2> QED BY <1>2, <2>1 DEF Refused
<1>10. CASE CommitPhase \/ VerifyPhase \/ FinalizePhase
  <2>1. Refused \/ pc' # "idle" \/ report'.status = "unknown"
    BY <1>10 DEF CommitPhase, VerifyPhase, FinalizePhase, AdvanceIntent, Continue,
       Unresolved, End
  <2> QED BY <1>2, <2>1 DEF Refused
<1>11. CASE \/ Activate \/ SwitchPrevious \/ SwitchCurrent
            \/ UndoFirstPointer \/ UndoProduction \/ UndoCurrent
  <2>1. Refused \/ pc' # "idle" \/ report'.status = "unknown"
    BY <1>11 DEF Activate, SwitchPrevious, SwitchCurrent, SwitchPointer, UndoFirstPointer,
       UndoProduction, UndoCurrent, Undo, Continue, Unresolved, End
  <2> QED BY <1>2, <2>1 DEF Refused
<1> QED
  BY <1>4, <1>5, <1>6, <1>7, <1>8, <1>9, <1>10, <1>11 DEF AttemptStep, Attempt

LEMMA LateOrderKept ==
    ASSUME Sound, PointersInOrder, AttemptStep
    PROVE  LatePointersInOrder'
<1> SUFFICES ASSUME pc' = "idle" PROVE LatePointersInOrder'
  BY DEF LatePointersInOrder
<1>1. CASE report'.status # "unknown"
  BY <1>1, DefiniteEnd DEF LatePointersInOrder
<1>2. CASE report'.status = "unknown"
  <2>1. SameView /\ (inflight' = inflight \/ \E w : inflight' = inflight \union {w} /\ Vouched(w))
    BY <1>2, UnknownIsVouched, SameStoreSameView
  <2>2. \A w \in inflight : Repeats(w)'
    BY <2>1 DEF Sound, SettledInv, InflightInv, AttemptStep, SameView
  <2>3. SUFFICES ASSUME NEW w, Vouched(w), Intent # None
        PROVE  /\ w.key = "production" /\ Intent.from # None => Current # Intent.to
               /\ w.key = "previous" => Current # Intent.to
               /\ w.key = "current" /\ w.value = Intent.to /\ Intent.from # None
                      => Live = Intent.to /\ Previous = Intent.from
               /\ w.key = "current" /\ w.value # Intent.to => {Live, Current} # {Intent.to}
    BY <2>1, <2>2 DEF LatePointersInOrder, SameView
  <2>4. Intent.from # Intent.to /\ (Intent.from = None => Intent.previous = None)
    BY <2>3, IntentFields DEF Sound
  <2>5. pc \in Switch => Intent.to = IdOf(job.candidate) /\ job.txn = Intent /\ Switching
    BY DEF Sound, SettledInv, SwitchInv
  <2>6. CASE w.key = "production"
    <3>1. pc \in {"activate", "undo_production"}
      BY <2>3, <2>6 DEF Vouched, Write
    <3> QED BY <2>6, <3>1 DEF Sound, SettledInv, SwitchInv, UndoInv, Undoing
  <2>7. CASE w.key = "previous"
    <3>1. pc \in {"previous", "repair_previous", "undo_previous"}
          /\ (pc = "repair_previous" => job.previous # job.txn.from)
      BY <2>3, <2>7 DEF Vouched, Write
    <3>2. CASE pc = "repair_previous"
      <4>1. Previous # Intent.from
        BY <2>5, <3>1, <3>2 DEF Sound, SettledInv, SwitchInv, Switch, Advancing
      <4>2. Intent.from # None
        BY <2>4, <2>5, <3>2, <4>1 DEF Switching, Switch, Advancing
      <4> QED BY <2>3, <2>7, <4>1, <4>2 DEF PointersInOrder
    <3> QED BY <2>7, <3>1, <3>2 DEF Sound, SettledInv, SwitchInv, UndoInv, Undoing
  <2>8. CASE w.key = "current" /\ w.value = IdOf(job.candidate)
    <3>1. pc \in {"first_pointer", "current", "repair_current"}
      BY <2>3, <2>8 DEF Vouched, Write, Sound, SettledInv, BeforeInv
    <3>2. w.value = Intent.to /\ (pc # "first_pointer" => Live = Intent.to)
      BY <2>5, <2>8, <3>1 DEF Sound, SettledInv, SwitchInv, Switch, Advancing, Live
    <3> QED BY <2>8, <3>1, <3>2 DEF Sound, SettledInv, SwitchInv
  <2>9. CASE w.key = "current" /\ w.value # IdOf(job.candidate)
    <3>1. pc \in {"undo_first_pointer", "undo_current"}
      BY <2>3, <2>9 DEF Vouched, Write
    <3>2. w.value # Intent.to
      BY <2>5, <2>9, <3>1 DEF Switch, Undoing
    <3>3. pc = "undo_first_pointer" => Live # Intent.to
      BY <2>4 DEF Sound, SettledInv, SwitchInv, Opened, Live
    <3>4. pc = "undo_current" => Current # Intent.to
      BY DEF Sound, SettledInv, UndoInv, Undoing
    <3> QED BY <2>9, <3>1, <3>2, <3>3, <3>4
  <2> QED BY <2>6, <2>7, <2>8, <2>9
<1> QED BY <1>1, <1>2

\* Whose switch the intent left by an unknown outcome is.
LEMMA IntentKept ==
    ASSUME Sound, AttemptStep
    PROVE  IntentIsOurs'
<1> SUFFICES ASSUME pc' = "idle", report'.status = "unknown" PROVE IntentIsOurs'
  BY DEF IntentIsOurs, Asked
<1>1. /\ SameView /\ pc \notin {"read_intent", "retire_check"}
      /\ inflight' = inflight \/ \E w : inflight' = inflight \union {w} /\ Vouched(w)
  BY UnknownIsVouched, SameStoreSameView
<1>2. Candidate' = job.candidate /\ job.candidate \in Contents
  BY SameAttempt DEF Candidate, Sound, IInv, JobInv, AttemptStep
<1>3. ASSUME Intent # None, Intent.to # IdOf(job.candidate)
      PROVE  /\ Live = Intent.to
             /\ \A w \in inflight' : ~Repeats(w) => w = Write("transaction", Empty)
  <2>1. pc = "retire"
    BY <1>1, <1>3, BusyShape DEF Sound, SettledInv, BeforeInv, SwitchInv, Before, AttemptStep
  <2>2. Live = Intent.to /\ inflight = {}
    BY <2>1, NothingInFlight DEF Sound, SettledInv, BeforeInv
  <2>3. \A w : Vouched(w) => w = Write("transaction", Empty)
    BY <2>1 DEF Vouched
  <2> QED BY <1>1, <2>2, <2>3
<1>4. \A w \in inflight' : w.key = "transaction" /\ w.value # Empty
          => w.value.to = IdOf(job.candidate)
  <2>1. \A w \in inflight : w.key # "transaction"
    BY DEF Sound, SettledInv, InflightInv, Repeatable, AttemptStep
  <2>2. \A w : Vouched(w) /\ w.key = "transaction" /\ w.value # Empty
          => w.value.to = IdOf(job.candidate)
    BY DEF Vouched, Write
  <2> QED BY <1>1, <2>1, <2>2
<1>5. IdOf(job.candidate)' = IdOf(job'.candidate) /\ IdOf(Candidate)' = IdOf(job.candidate)
  BY <1>2 DEF IdOf
<1> QED BY <1>1, <1>2, <1>3, <1>4, <1>5 DEF IntentIsOurs, SameView

-----------------------------------------------------------------------------
(* A write in flight that is resolved.                                     *)

\* The one write that may still change something has landed.
Landed(w) ==
    /\ pc = "idle" /\ w \in inflight /\ ~Repeats(w) /\ Late(w) /\ Shape
    /\ \A v \in inflight : ~Repeats(v) => v = w
    /\ \A v \in inflight' : Repeats(v)'
    /\ w = Write(w.key, w.value) /\ Admissible(w.key, w.value)
    /\ w.key \in {"production", "current", "previous", "transaction"}
    /\ IF w.key = "production"
       THEN production' = w.value /\ Live' = IdOf(w.value)
       ELSE production' = production /\ Live' = Live
    /\ IF w.key = "current" THEN Current' = ParsePointer(w.value) ELSE Current' = Current
    /\ IF w.key = "previous" THEN Previous' = ParsePointer(w.value) ELSE Previous' = Previous
    /\ IF w.key = "transaction"
       THEN Intent' = (IF w.value = Empty THEN None ELSE w.value)
       ELSE Intent' = Intent

LEMMA SettleEffect ==
    ASSUME Sound, Settle
    PROVE  /\ UNCHANGED <<pc, job, report, base>> /\ inflight' \subseteq inflight
           /\ SameView \/ \E w \in inflight : Landed(w)
<1> PICK w \in inflight : Land(w) \/ Lose(w)
  BY DEF Settle
<1>1. CASE Lose(w)
  BY <1>1, SameStoreSameView DEF Lose
<1>2. CASE Land(w)
  <2>0. PICK key, value : key = w.key /\ value = w.value
    OBVIOUS
  <2>1. /\ w = Write(key, value) /\ Admissible(key, value) /\ Put(key, value)
        /\ inflight' = inflight \ {w} /\ UNCHANGED <<pc, job, report, base>>
    BY <1>2, <2>0, WriteIsAdmissible DEF Land, Sound, IInv, StoreInv, StoreTypeOK
  <2>2. CASE key \in {"config", "manifest"}
    <3>1. UNCHANGED <<production, current, previous, intent>>
      BY <2>1, <2>2 DEF Put
    <3>2. SameView
      BY <3>1 DEF SameView, Live, Current, Previous, Intent, Repeats, Holds
    <3> QED BY <2>1, <3>2
  <2>3. CASE key \notin {"config", "manifest"} /\ Repeats(w)
    <3>1. UNCHANGED store
      BY <2>0, <2>1, <2>3 DEF Repeats, Holds, Put, store
    <3> QED BY <2>1, <3>1, SameStoreSameView
  <2>4. CASE key \notin {"config", "manifest"} /\ ~Repeats(w)
    <3>1. pc = "idle" /\ Late(w) /\ Shape /\ \A v \in inflight : ~Repeats(v) => v = w
      BY <2>4 DEF Sound, SettledInv, InflightInv, IdleInv
    <3>2. \A v \in inflight' : Repeats(v) /\ v.key # w.key
      BY <2>1, <2>4 DEF Sound, SettledInv, InflightInv
    <3>3. \A v \in inflight' : Repeats(v)'
      BY <2>0, <2>1, <3>2, PutRepeats
    <3>4. key \in {"production", "current", "previous", "transaction"}
      BY <2>1, <2>4 DEF Admissible
    <3>5. Landed(w)
      BY <2>0, <2>1, <2>4, <3>1, <3>3, <3>4, PutEffect DEF Landed, Sound
    <3> QED BY <2>1, <3>5
  <2> QED BY <2>2, <2>3, <2>4
<1> QED BY <1>1, <1>2

LEMMA OrderSettles ==
    ASSUME Sound, Settle, PointersInOrder, LatePointersInOrder
    PROVE  PointersInOrder' /\ LatePointersInOrder'
<1>1. CASE SameView
  BY <1>1, SettleEffect DEF SameView, PointersInOrder, LatePointersInOrder
<1>2. ASSUME NEW w \in inflight, Landed(w) PROVE PointersInOrder' /\ LatePointersInOrder'
  <2>1. LatePointersInOrder'
    BY <1>2 DEF Landed, LatePointersInOrder
  <2>2. PointersInOrder'
    <3>1. CASE w.key \in {"production", "previous"}
      BY <1>2, <3>1 DEF Landed, LatePointersInOrder, PointersInOrder
    <3>2. CASE w.key = "current"
      <4>1. CASE Intent # None /\ w.value = Intent.to
        BY <1>2, <3>2, <4>1 DEF Landed, LatePointersInOrder, PointersInOrder
      <4>2. CASE Intent # None /\ w.value # Intent.to
        <5>1. Current' # Intent.to
          BY <1>2, <3>2, <4>2, IntentFields DEF Landed, Sound, ParsePointer
        <5> QED BY <1>2, <3>2, <5>1 DEF Landed, PointersInOrder
      <4>3. CASE Intent = None
        BY <1>2, <3>2, <4>3 DEF Landed, PointersInOrder
      <4> QED BY <4>1, <4>2, <4>3
    <3>3. CASE w.key = "transaction" /\ w.value = Empty
      BY <1>2, <3>3 DEF Landed, PointersInOrder
    <3>4. CASE w.key = "transaction" /\ w.value # Empty
      <4>1. w.value \in Transactions /\ Intent' = w.value /\ LateTransaction(w)
        BY <1>2, <3>4 DEF Landed, Admissible, Late, LateProduction, LateCurrent, LatePrevious
      <4>2. CASE Intent = None
        <5>1. w.value.to # Live /\ Ready /\ w.value.to # None
          BY <1>2, <3>4, <4>1, <4>2, TransactionFields
          DEF LateTransaction, Openable, Landed, Shape
        <5>2. Current # w.value.to
          BY <5>1 DEF Ready
        <5> QED BY <1>2, <3>4, <4>1, <5>2 DEF Landed, PointersInOrder
      <4>3. CASE Intent # None
        <5>1. w.value.from = Intent.from /\ w.value.to = Intent.to
          BY <3>4, <4>1, <4>3, KeyTypes
          DEF LateTransaction, Advance, Sound, Transactions, StoredDocuments, Documents
        <5> QED BY <1>2, <3>4, <4>1, <4>3, <5>1 DEF Landed, PointersInOrder
      <4> QED BY <4>2, <4>3
    <3> QED BY <1>2, <3>1, <3>2, <3>3, <3>4 DEF Landed
  <2> QED BY <2>1, <2>2
<1> QED BY <1>1, <1>2, SettleEffect

LEMMA IntentSettles ==
    ASSUME Sound, Settle, IntentIsOurs
    PROVE  IntentIsOurs'
<1>0. Asked' = Asked /\ Candidate' = Candidate /\ IdOf(Candidate)' = IdOf(Candidate)
      /\ inflight' \subseteq inflight
  BY SettleEffect DEF Asked, Candidate, IdOf
<1>1. CASE SameView
  BY <1>0, <1>1 DEF IntentIsOurs, SameView
<1>2. ASSUME NEW w \in inflight, Landed(w) PROVE IntentIsOurs'
  <2> SUFFICES ASSUME Asked PROVE IntentIsOurs'
    BY <1>0 DEF IntentIsOurs
  <2>1. ASSUME Intent' # None, Intent'.to # IdOf(Candidate) PROVE FALSE
    <3>1. CASE w.key = "transaction"
      <4>1. Intent' = w.value /\ w.value # Empty
        BY <1>2, <2>1, <3>1 DEF Landed
      <4> QED BY <2>1, <3>1, <4>1 DEF IntentIsOurs
    <3>2. CASE w.key # "transaction"
      <4>1. Intent' = Intent
        BY <1>2, <3>2 DEF Landed
      <4>2. w = Write("transaction", Empty)
        BY <1>2, <2>1, <4>1 DEF Landed, IntentIsOurs
      <4> QED BY <3>2, <4>2 DEF Write
    <3> QED BY <3>1, <3>2
  <2> QED BY <1>0, <2>1 DEF IntentIsOurs
<1> QED BY <1>1, <1>2, SettleEffect

-----------------------------------------------------------------------------
(* What the keys held when the attempt started bounds what they hold later.*)

\* A candidate that was live already: the attempt never opens a switch.
LEMMA NothingToSwitch ==
    ASSUME Sound, pc # "idle", base = job.candidate
    PROVE  pc \notin Opened
<1>1. pc \in Opened => IdOf(base) = Intent.from /\ Intent.to = IdOf(job.candidate) /\ Intent # None
  BY DEF Sound, SettledInv, SwitchInv, Opened, Switch, Advancing, Undoing
<1> QED BY <1>1, IntentFields DEF Sound

\* A candidate the current pointer named though it was not live: the attempt
\* ends before it decides on anything.
LEMMA ContradictionEnds ==
    ASSUME Sound, SnapshotInv, AttemptStep, base # job.candidate, Found = IdOf(job.candidate)
    PROVE  /\ UNCHANGED <<production, current>> /\ production # job.candidate /\ inflight = {}
           /\ pc \in Undecided /\ pc' \in Undecided \union {"idle"}
<1>1. /\ pc \in Undecided /\ Current = IdOf(job.candidate) /\ production # job.candidate
      /\ job.candidate \in Contents
  BY DEF SnapshotInv, SinceStart, AttemptStep, Sound, IInv, JobInv
<1>2. inflight = {}
  BY <1>1, NothingInFlight DEF Undecided, Before, Informed
<1>3. UNCHANGED <<production, current>>
  BY <1>1, KeysChanged DEF Undecided, Before, Informed
<1>4. pc = "reconcile" => /\ job.production = production /\ job.current = Current
                          /\ job.txn = Intent
                          /\ Intent # None => Intent.to = IdOf(job.candidate)
  BY DEF Sound, SettledInv, BeforeInv, Informed
<1>5. IdOf(production) # IdOf(job.candidate) /\ IdOf(job.candidate) # None
  BY <1>1, KeyTypes, IdOfInjective, IdOfContent DEF Sound, OptionalContent
<1>6. pc = "reconcile" => ~Consistent /\ (Pending # None => ~Activated(Pending))
  BY <1>1, <1>4, <1>5, KeyTypes DEF Consistent, Pending, Activated, Sound
<1>7. pc = "reconcile" => pc' = "idle"
  <2>1. pc = "reconcile" => Recover \/ Decide \/ ReadFailure \/ Crash
    BY DEF AttemptStep, Attempt, ReadIntent, RetireCheck, Retire,
     StageConfig, StageManifest, ReadProduction, ReadCurrent, ReadPrevious,
     RepairPrevious, RepairCurrent, Repair, AlignCurrent, StageOldConfig,
     StageOldManifest, Stage, WriteIntent, FirstPointer, Activate, CommitPhase,
     VerifyPhase, FinalizePhase, AdvanceIntent, SwitchPrevious, SwitchCurrent,
     SwitchPointer, Check, Clear, UndoFirstPointer, UndoProduction, UndoCurrent, Undo,
     UndoPrevious, Abort
  <2> QED BY <1>6, <2>1 DEF Recover, Decide, ReadFailure, Crash, End
<1>8. pc # "reconcile" => pc' \in Undecided \union {"idle"}
  BY <1>1
  DEF AttemptStep, Attempt, ReadIntent, RetireCheck, Retire,
     StageConfig, StageManifest, ReadProduction, ReadCurrent, ReadPrevious, Recover,
     RepairPrevious, RepairCurrent, Repair, Decide, AlignCurrent, StageOldConfig,
     StageOldManifest, Stage, WriteIntent, FirstPointer, Activate, CommitPhase,
     VerifyPhase, FinalizePhase, AdvanceIntent, SwitchPrevious, SwitchCurrent,
     SwitchPointer, Check, Clear, UndoFirstPointer, UndoProduction, UndoCurrent, Undo,
     UndoPrevious, Abort, ReadFailure, Crash, End, Continue,
     Unresolved, Undecided, Before, Informed
<1> QED BY <1>1, <1>2, <1>3, <1>7, <1>8 DEF Undecided, Before, Informed

\* The writes of an attempt whose candidate is live already.
LEMMA LiveAlready ==
    ASSUME Sound, Sound', SnapshotInv, AttemptStep, base = job.candidate,
           pc' # "idle" \/ report'.status = "unknown"
    PROVE  /\ production' = job.candidate
           /\ \A w \in inflight' : w.key = "production" => w.value = job.candidate
           /\ Found = IdOf(job.candidate) =>
                  /\ Current' = IdOf(job.candidate)
                  /\ \A w \in inflight' : w.key = "current" => w.value = IdOf(job.candidate)
<1>1. pc \notin Opened
  BY NothingToSwitch DEF AttemptStep
<1>2. /\ production = job.candidate /\ (Found = IdOf(job.candidate) => Current = IdOf(job.candidate))
      /\ job.candidate \in Contents
  BY DEF SnapshotInv, SinceStart, AttemptStep, Sound, IInv, JobInv
<1>3. IdOf(job.candidate) \in ReleaseIds
  BY <1>2, IdOfContent
<1>4. production' = job.candidate
  BY <1>1, <1>2, KeysChanged DEF Opened, Undoing
<1>5. Found = IdOf(job.candidate) => Current' = IdOf(job.candidate)
  <2>1. CASE current' = current
    BY <1>2, <2>1 DEF Current
  <2>2. CASE pc = "align_current" /\ current' = IdOf(job.candidate)
    BY <1>3, <2>2, SentinelsAssumption DEF Current, ParsePointer
  <2>3. CASE pc = "repair_current" /\ current' = PointerValue(job.txn.to)
    <3>1. job.txn.to = IdOf(job.candidate)
      BY <2>3, OwnTransaction DEF Switch, Advancing
    <3> QED BY <1>3, <2>3, <3>1, SentinelsAssumption DEF Current, ParsePointer, PointerValue
  <2> QED BY <1>1, <2>1, <2>2, <2>3, KeysChanged DEF Opened, Undoing
<1>6. ASSUME NEW w \in inflight', Repeats(w)'
      PROVE  /\ w.key = "production" => w.value = job.candidate
             /\ w.key = "current" /\ Found = IdOf(job.candidate) => w.value = IdOf(job.candidate)
  <2>1. w.key = "production" => w.value = production'
    BY <1>6 DEF Repeats, Holds
  <2>2. w.key = "current" => w.value = current'
    BY <1>6 DEF Repeats, Holds
  <2>3. Current' = IdOf(job.candidate) => current' = IdOf(job.candidate)
    BY <1>3, SentinelsAssumption DEF Current, ParsePointer
  <2> QED BY <1>4, <1>5, <2>1, <2>2, <2>3
<1>7. CASE pc' # "idle"
  <2>1. \A w \in inflight' : Repeats(w)'
    BY <1>7 DEF Sound, SettledInv, InflightInv
  <2> QED BY <1>4, <1>5, <1>6, <2>1
<1>8. CASE pc' = "idle" /\ report'.status = "unknown"
  <2>1. SameView /\ (inflight' = inflight \/ \E w : inflight' = inflight \union {w} /\ Vouched(w))
    BY <1>8, UnknownIsVouched, SameStoreSameView
  <2>2. \A w \in inflight : Repeats(w)'
    BY <2>1 DEF Sound, SettledInv, InflightInv, AttemptStep, SameView
  <2>3. \A w : Vouched(w) => /\ w.key # "production"
                             /\ w.key = "current" => w.value = IdOf(job.candidate)
    BY <1>1 DEF Vouched, Write, Opened, Undoing
  <2> QED BY <1>4, <1>5, <1>6, <2>1, <2>2, <2>3
<1> QED BY <1>7, <1>8

LEMMA SnapshotKept ==
    ASSUME Sound, Sound', SnapshotInv, AttemptStep, snapshot' = snapshot
    PROVE  SnapshotInv'
<1>1. base' = base /\ Found' = Found
  BY SameAttempt DEF Found
<1>2. PICK candidate : candidate = job.candidate
  OBVIOUS
<1>3. /\ pc' # "idle" => job'.candidate = candidate
      /\ Asked' => Candidate' = candidate /\ report'.status = "unknown"
      /\ IdOf(candidate)' = IdOf(candidate)
  BY <1>2, SameAttempt DEF Asked, Candidate, IdOf
<1>4. CASE base = candidate
  <2>1. pc' # "idle" \/ Asked' => SinceStart(candidate)'
    BY <1>1, <1>2, <1>3, <1>4, LiveAlready DEF SinceStart
  <2> QED BY <1>1, <1>3, <1>4, <2>1 DEF SnapshotInv
<1>5. CASE base # candidate /\ Found = IdOf(candidate)
  <2>1. /\ UNCHANGED <<production, current>> /\ production # candidate /\ inflight = {}
        /\ pc \in Undecided /\ pc' \in Undecided \union {"idle"}
    BY <1>2, <1>5, ContradictionEnds
  <2>2. Current = IdOf(candidate)
    BY <1>2, <1>5 DEF SnapshotInv, AttemptStep
  <2>3. Current' = IdOf(candidate) /\ production' # candidate
    BY <2>1, <2>2 DEF Current
  <2>4. pc' # "idle" => inflight' = {}
    <3>1. pc' # "idle" => pc' \notin {"undo_current", "undo_previous", "abort"}
      BY <2>1 DEF Undecided, Before, Informed
    <3> QED BY <3>1 DEF Sound, SettledInv, InflightInv, Repeatable
  <2>5. Asked' => \A w \in inflight' : w.key # "production"
    <3>1. ASSUME Asked' PROVE inflight' = {} \/ \E w : inflight' = {w} /\ Vouched(w)
      BY <1>3, <2>1, <3>1, UnknownIsVouched DEF Asked
    <3>2. \A w : Vouched(w) => w.key # "production"
      BY <2>1 DEF Vouched, Write, Undecided, Before, Informed
    <3> QED BY <3>1, <3>2
  <2>6. pc' # "idle" \/ Asked' => SinceStart(candidate)'
    BY <1>1, <1>3, <1>5, <2>3, <2>4, <2>5 DEF SinceStart
  <2> QED BY <1>1, <1>3, <2>1, <2>3, <2>6 DEF SnapshotInv
<1>6. CASE base # candidate /\ Found # IdOf(candidate)
  <2>1. SinceStart(candidate)'
    BY <1>1, <1>3, <1>6 DEF SinceStart
  <2> QED BY <1>1, <1>3, <1>6, <2>1 DEF SnapshotInv
<1> QED BY <1>4, <1>5, <1>6

LEMMA SnapshotSettles ==
    ASSUME Sound, Settle, IntentIsOurs, SnapshotInv, snapshot' = snapshot
    PROVE  SnapshotInv'
<1>1. /\ UNCHANGED <<pc, job, report, base>> /\ inflight' \subseteq inflight
      /\ Found' = Found /\ Candidate' = Candidate /\ Asked' = Asked
  BY SettleEffect DEF Found, Candidate, Asked
<1>2. ASSUME NEW candidate, SinceStart(candidate), candidate \in Contents
      PROVE  SinceStart(candidate)'
  <2>1. IdOf(candidate)' = IdOf(candidate) /\ IdOf(candidate) \in ReleaseIds
    BY <1>2, IdOfContent DEF IdOf
  <2>2. CASE SameView
    BY <1>1, <1>2, <2>1, <2>2 DEF SinceStart, SameView
  <2>3. ASSUME NEW w \in inflight, Landed(w) PROVE SinceStart(candidate)'
    <3>1. production' = (IF w.key = "production" THEN w.value ELSE production)
          /\ Current' = (IF w.key = "current" THEN ParsePointer(w.value) ELSE Current)
      BY <2>3 DEF Landed
    <3>2. ParsePointer(IdOf(candidate)) = IdOf(candidate)
      BY <2>1, SentinelsAssumption DEF ParsePointer
    <3> QED BY <1>1, <1>2, <2>1, <3>1, <3>2 DEF SinceStart
  <2> QED BY <2>2, <2>3, SettleEffect
<1>3. pc # "idle" => SameView
  BY SettleEffect DEF Landed
<1>4. pc # "idle" => job.candidate \in Contents
  BY DEF Sound, IInv, JobInv
<1>5. PICK published, asked : published = job.candidate /\ asked = Candidate
  OBVIOUS
<1>6. pc # "idle" => SinceStart(published)'
  BY <1>2, <1>4, <1>5 DEF SnapshotInv
<1>7. Asked => SinceStart(asked)'
  BY <1>2, <1>5 DEF SnapshotInv, IntentIsOurs
<1>8. job'.candidate = published /\ Candidate' = asked
  BY <1>1, <1>5
<1>9. pc # "idle" => Current' = Current /\ IdOf(published)' = IdOf(published)
  BY <1>3 DEF SameView, IdOf
<1> QED BY <1>1, <1>5, <1>6, <1>7, <1>8, <1>9 DEF SnapshotInv

LEMMA SnapshotStarts ==
    ASSUME Settled, Sound, NEW c \in Contents, Begin(c), snapshot' = Keys
    PROVE  SnapshotInv'
<1>1. /\ inflight' = {} /\ pc' = "read_intent" /\ base' = production /\ SameView
      /\ job'.candidate = c
  BY SameStoreSameView DEF Begin, Local, NoJob
<1>2. Found' = Current /\ snapshot'.production = production /\ ~Asked'
  BY <1>1 DEF Found, Keys, Current, ParsePointer, Asked
<1>3. SinceStart(c)'
  BY <1>1, <1>2 DEF SinceStart, SameView, IdOf
<1>4. pc' \in Undecided
  BY <1>1 DEF Undecided, Before, Informed
<1> QED BY <1>1, <1>2, <1>3, <1>4 DEF SnapshotInv, SameView, IdOf

-----------------------------------------------------------------------------
(* The reader.                                                             *)

\* A live candidate stays: what may still land repeats it, and an intent still
\* pending is that of a switch that is complete.
LEMMA LiveIsFinal ==
    ASSUME Sound, PointersInOrder, LatePointersInOrder, IntentIsOurs, Asked, Done
    PROVE  /\ \A w \in inflight : w.key = "production" => w.value = Candidate
           /\ \A w \in inflight : w.key = "current" => w.value = IdOf(Candidate)
           /\ Intent # None => CommittedState(Intent)
<1>1. /\ pc = "idle" /\ Candidate \in Contents /\ IdOf(Candidate) \in ReleaseIds
      /\ production = Candidate /\ Live = IdOf(Candidate) /\ Current = IdOf(Candidate)
  BY IdOfContent DEF Asked, IntentIsOurs, Done, Live
<1>2. Intent # None =>
        /\ Intent.to = IdOf(Candidate) /\ Intent.from # Intent.to
        /\ Intent.from = None => Intent.previous = None
  BY <1>1, IntentFields DEF IntentIsOurs, Sound
<1>3. Intent # None => Previous = Intent.from
  <2>1. Intent # None => Switching
    BY <1>1 DEF Sound, SettledInv, IdleInv, Shape
  <2> QED BY <1>1, <1>2, <2>1 DEF PointersInOrder, Switching
<1>4. Intent # None => CommittedState(Intent)
  <2>1. Intent # None => {Intent.from, Intent.to} \ {None} \subseteq Held
    BY DEF Sound, IInv, StoreInv, References, ReferencedReleaseIds
  <2>2. production # None
    BY <1>1, ContentsAssumption
  <2> QED BY <1>1, <1>2, <1>3, <2>1, <2>2, SentinelsAssumption
          DEF CommittedState, Held, Live, Current, Previous
<1>5. ASSUME NEW w \in inflight, w.key = "production" PROVE w.value = Candidate
  <2>1. CASE Repeats(w)
    BY <1>1, <1>5, <2>1 DEF Repeats, Holds
  <2>2. CASE ~Repeats(w)
    <3>1. LateProduction(w)
      BY <1>1, <1>5, <2>2 DEF Sound, SettledInv, InflightInv, Late, LateCurrent, LatePrevious,
         LateTransaction
    <3>2. Intent.from = None
      BY <1>1, <1>2, <1>5, <2>2, <3>1 DEF LatePointersInOrder, LateProduction
    <3>3. w.value \in Contents /\ IdOf(w.value) \in ReleaseIds
      BY <1>5, IdOfContent DEF Sound, IInv, StoreInv, StoreTypeOK, Writes, Write
    <3>4. IdOf(w.value) = IdOf(Candidate)
      BY <1>2, <3>1, <3>2, <3>3, SentinelsAssumption DEF LateProduction
    <3> QED BY <1>1, <3>3, <3>4, IdOfInjective DEF OptionalContent
  <2> QED BY <2>1, <2>2
<1>6. ASSUME NEW w \in inflight, w.key = "current" PROVE w.value = IdOf(Candidate)
  <2>1. CASE Repeats(w)
    BY <1>1, <1>6, <2>1, SentinelsAssumption DEF Repeats, Holds, Current, ParsePointer
  <2>2. CASE ~Repeats(w)
    <3>1. LateCurrent(w)
      BY <1>1, <1>6, <2>2 DEF Sound, SettledInv, InflightInv, Late, LateProduction, LatePrevious,
         LateTransaction
    <3>2. Intent # None
      BY <1>1, <3>1, SentinelsAssumption DEF LateCurrent
    <3> QED BY <1>1, <1>2, <1>6, <2>2, <3>2 DEF LatePointersInOrder
  <2> QED BY <2>1, <2>2
<1> QED BY <1>4, <1>5, <1>6

\* A late write that changes the client-visible bytes belongs to a switch of
\* this attempt that has not moved the current pointer.
LEMMA LateActivation ==
    ASSUME Sound, LatePointersInOrder, IntentIsOurs, SnapshotInv, Asked,
           NEW w \in inflight, w.key = "production", ~Repeats(w)
    PROVE  /\ Intent # None
           /\ w.value # Candidate =>
                 Current # IdOf(Candidate) /\ base # Candidate /\ Found # IdOf(Candidate)
<1>1. LateProduction(w) /\ pc = "idle" /\ Candidate \in Contents
  BY DEF Sound, SettledInv, InflightInv, Late, LateCurrent, LatePrevious, LateTransaction, Asked,
     IntentIsOurs
<1>2. Intent # None /\ w # Write("transaction", Empty)
  BY <1>1 DEF LateProduction, Write
<1>3. Intent.to = IdOf(Candidate) /\ IdOf(w.value) \in {Intent.from, IdOf(Candidate)}
  BY <1>1, <1>2 DEF IntentIsOurs, LateProduction
<1>4. w.value \in Contents /\ IdOf(w.value) # None
  BY IdOfContent, SentinelsAssumption DEF Sound, IInv, StoreInv, StoreTypeOK, Writes, Write
<1>5. w.value # Candidate => Intent.from # None
  BY <1>1, <1>3, <1>4, IdOfInjective DEF OptionalContent
<1>6. w.value # Candidate => Current # IdOf(Candidate)
  BY <1>1, <1>2, <1>3, <1>5 DEF LatePointersInOrder
<1>7. w.value # Candidate => base # Candidate /\ Found # IdOf(Candidate)
  BY DEF SnapshotInv, SinceStart
<1> QED BY <1>2, <1>6, <1>7

LEMMA ReaderSettles ==
    ASSUME ReconciliationInv, Settle, UNCHANGED readerVars
    PROVE  ReaderInv'
<1>0. Sound /\ PointersInOrder /\ LatePointersInOrder /\ IntentIsOurs /\ SnapshotInv /\ ReaderInv
  BY DEF ReconciliationInv, Sound
<1>1. /\ UNCHANGED <<base, snapshot, reading, view, fresh, question, verdict>>
      /\ inflight' \subseteq inflight /\ Asked' = Asked /\ Candidate' = Candidate
      /\ Found' = Found
  BY <1>0, SettleEffect DEF readerVars, Asked, Candidate, Found
<1>2. IdOf(Candidate)' = IdOf(Candidate) /\ CandidateLive(view, Candidate)' = CandidateLive(view, Candidate)
      /\ Concluded("committed")' = Concluded("committed")
      /\ Concluded("not_committed")' = Concluded("not_committed")
  BY <1>1 DEF IdOf, CandidateLive, Concluded
<1>3. CASE SameView
  <2>1. /\ Done' = Done
        /\ PutBack => PutBack'
        /\ Replaced => Replaced'
        /\ Untaken => Untaken'
    BY <1>1, <1>2, <1>3 DEF SameView, Done, PutBack, Replaced, Untaken
  <2> QED BY <1>0, <1>1, <1>2, <1>3, <2>1 DEF ReaderInv, SameView
<1>4. ASSUME NEW w \in inflight, Landed(w) PROVE ReaderInv'
  <2> SUFFICES ASSUME Asked PROVE ReaderInv'
    BY <1>0, <1>1, <1>2 DEF ReaderInv, Concluded
  <2>1. /\ production' = (IF w.key = "production" THEN w.value ELSE production)
        /\ Current' = (IF w.key = "current" THEN ParsePointer(w.value) ELSE Current)
        /\ w.key # "transaction" => Intent' = Intent
        /\ \A v \in inflight' : Repeats(v)'
        /\ ~Repeats(w)
    BY <1>4 DEF Landed
  <2>2. ~PutBack /\ ~Replaced
    BY <2>1 DEF PutBack, Replaced
  <2>3. Done => Done'
    <3>1. ParsePointer(IdOf(Candidate)) = IdOf(Candidate)
      BY <1>0, IdOfContent, SentinelsAssumption DEF IntentIsOurs, ParsePointer
    <3> QED BY <1>0, <1>1, <1>2, <2>1, <3>1, LiveIsFinal DEF Done
  <2>4. Untaken => Untaken'
    BY <1>1, <2>1 DEF Untaken
  <2>5. production = Candidate => production' = Candidate \/ PutBack'
    BY <1>0, <1>1, <1>2, <2>1, LateActivation DEF PutBack
  <2>6. production = base => production' = base \/ Replaced'
    BY <1>0, <1>1, <2>1, LateActivation DEF Replaced
  <2> QED BY <1>0, <1>1, <1>2, <2>2, <2>3, <2>4, <2>5, <2>6 DEF ReaderInv
<1> QED BY <1>0, <1>3, <1>4, SettleEffect

\* An attempt runs only when nothing is being asked.
LEMMA ReaderSleeps ==
    ASSUME ReconciliationInv, AttemptStep, UNCHANGED readerVars
    PROVE  ReaderInv'
<1>1. reading = "idle" /\ verdict = None /\ fresh \in BOOLEAN /\ DOMAIN view = DOMAIN Order
  BY DEF ReconciliationInv, ReaderInv, Asked, AttemptStep
<1> QED BY <1>1 DEF ReaderInv, readerVars, Concluded

\* What a step of the reader leaves alone.
LEMMA SameStore ==
    ASSUME ReconciliationInv, UNCHANGED <<store, inflight, pc, job, report, base, snapshot>>,
           UNCHANGED faults \/ Refused
    PROVE  /\ IInv' /\ SettledInv' /\ PointersInOrder' /\ LatePointersInOrder'
           /\ IntentIsOurs' /\ SnapshotInv'
           /\ Asked' = Asked /\ Candidate' = Candidate /\ Found' = Found /\ SameView
           /\ IdOf(Candidate)' = IdOf(Candidate)
           /\ Done' = Done /\ PutBack' = PutBack /\ Replaced' = Replaced /\ Untaken' = Untaken
<1>1. IInv'
  BY FaultKeepsIInv, StutterKeepsIInv DEF ReconciliationInv, vars
<1>2. SettledInv' /\ SameView
  BY SameState, SameStoreSameView DEF ReconciliationInv, Stepped
<1>3. PointersInOrder' /\ LatePointersInOrder'
  BY <1>2 DEF ReconciliationInv, PointersInOrder, LatePointersInOrder, SameView
<1>4. Asked' = Asked /\ Candidate' = Candidate /\ Found' = Found
      /\ IdOf(Candidate)' = IdOf(Candidate)
  BY DEF Asked, Candidate, Found, IdOf
<1>5. IntentIsOurs'
  BY <1>2, <1>4 DEF ReconciliationInv, IntentIsOurs, SameView
<1>6. SnapshotInv'
  <2>1. SinceStart(Candidate)' = SinceStart(Candidate)
        /\ SinceStart(job.candidate)' = SinceStart(job.candidate)
        /\ IdOf(job.candidate)' = IdOf(job.candidate)
    BY <1>2, <1>4 DEF SinceStart, SameView, IdOf, Candidate
  <2> QED BY <1>2, <1>4, <2>1 DEF ReconciliationInv, SnapshotInv, SameView
<1>7. Done' = Done /\ PutBack' = PutBack /\ Replaced' = Replaced /\ Untaken' = Untaken
  BY <1>2, <1>4 DEF SameView, Done, PutBack, Replaced, Untaken
<1> QED BY <1>1, <1>2, <1>3, <1>4, <1>5, <1>6, <1>7

LEMMA AskKeeps ==
    ASSUME ReconciliationInv, NEW dated \in BOOLEAN, Ask(dated)
    PROVE  ReconciliationInv'
<1>1. UNCHANGED <<store, inflight, pc, job, report, base, snapshot, faults>>
  BY DEF Ask, vars
<1>2. /\ reading' = "production" /\ fresh' = dated /\ verdict' = None /\ Asked
      /\ view' = NoView
      /\ question' = [candidate |-> Candidate, previous |-> base]
  BY DEF Ask, Asked, Candidate
<1>3. ReaderInv'
  BY <1>1, <1>2, SameStore DEF ReaderInv, Concluded, NoView, Order
<1> QED BY <1>1, <1>3, SameStore DEF ReconciliationInv

\* A key is read: as it is, or as it was before the attempt.
LEMMA ReadKeyKeeps ==
    ASSUME ReconciliationInv, ReadKey
    PROVE  ReconciliationInv'
<1>1. UNCHANGED <<store, inflight, pc, job, report, base, snapshot, faults>>
  BY DEF ReadKey, vars
<1>2. PICK value \in {Keys[reading]} \union (IF fresh THEN {} ELSE {snapshot[reading]}) :
          view' = [view EXCEPT ![reading] = value]
  BY DEF ReadKey
<1>3. UNCHANGED <<fresh, question, verdict>> /\ reading' = Order[reading]
      /\ reading \in {"production", "current", "previous", "transaction"}
  BY DEF ReadKey, Order
<1>4. Asked /\ question = [candidate |-> Candidate, previous |-> base] /\ ReaderInv
  BY <1>3 DEF ReconciliationInv, ReaderInv
<1>5. /\ Asked' /\ question' = [candidate |-> Candidate', previous |-> base']
      /\ base' = base /\ production' = production /\ Done' = Done /\ PutBack' = PutBack /\ Replaced' = Replaced
      /\ Untaken' = Untaken /\ Candidate' = Candidate
      /\ IdOf(Candidate)' = IdOf(Candidate)
  BY <1>1, <1>3, <1>4, SameStore DEF SameView
<1>6. /\ DOMAIN view' = DOMAIN Order /\ DOMAIN view = DOMAIN Order
      /\ \A key \in DOMAIN Order : view'[key] = (IF key = reading THEN value ELSE view[key])
  BY <1>2, <1>4 DEF ReaderInv
<1>7. /\ \A key \in {"production", "current", "previous", "transaction"} : key \in DOMAIN Order
      /\ Order["production"] = "current" /\ Order["current"] = "previous"
      /\ Order["previous"] = "transaction" /\ Order["transaction"] = "classify"
  BY DEF Order
<1>8. /\ Concluded("committed")' = Concluded("committed")
      /\ Concluded("not_committed")' = Concluded("not_committed")
  BY <1>3 DEF Concluded
<1>9. /\ SinceStart(Candidate) /\ snapshot.production = base /\ pc = "idle"
      /\ fresh => value = Keys[reading]
  BY <1>2, <1>4 DEF ReconciliationInv, SnapshotInv, Asked
<1>10. /\ reading' \in {"idle", "classify"} \union DOMAIN Order
       /\ fresh' \in BOOLEAN /\ DOMAIN view' = DOMAIN Order
       /\ reading' # "idle" \/ verdict' # None =>
              Asked' /\ question' = [candidate |-> Candidate', previous |-> base']
       /\ Concluded("committed")' => Done'
       /\ Concluded("not_committed")' => Untaken'
  BY <1>3, <1>4, <1>5, <1>6, <1>7, <1>8 DEF ReaderInv
<1>11. ReaderInv'
  <2>1. CASE reading = "production"
    <3>1. reading' = "current" /\ view'.production = value /\ value \in {production, base}
          /\ (fresh => value = production)
      BY <1>2, <1>3, <1>6, <1>7, <1>9, <2>1 DEF Keys
    <3>2. value = Candidate => production = Candidate
      BY <1>9, <3>1 DEF SinceStart
    <3> QED BY <1>3, <1>4, <1>5, <1>10, <3>1, <3>2 DEF ReaderInv
  <2>2. CASE reading = "current"
    <3>1. /\ reading' = "previous" /\ view'.current = value /\ view'.production = view.production
          /\ ParsePointer(value) \in {Current, Found}
      BY <1>2, <1>3, <1>6, <1>7, <2>2 DEF Keys, Current, Found
    <3>2. ASSUME view.production = Candidate, ParsePointer(value) = IdOf(Candidate) PROVE Done
      <4>1. production = Candidate \/ PutBack
        BY <1>4, <2>2, <3>2 DEF ReaderInv
      <4> QED BY <1>9, <3>1, <3>2, <4>1 DEF PutBack, SinceStart, Done
    <3>3. CandidateLive(view, Candidate)' => Done
      BY <1>5, <3>1, <3>2 DEF CandidateLive
    <3> QED BY <1>3, <1>4, <1>5, <1>10, <2>2, <3>1, <3>3 DEF ReaderInv
  <2>3. CASE reading = "previous"
    <3>1. /\ reading' = "transaction" /\ view'.production = view.production
          /\ view'.current = view.current
      BY <1>3, <1>6, <1>7, <2>3
    <3>2. CandidateLive(view, Candidate)' = CandidateLive(view, Candidate)
      BY <1>5, <3>1 DEF CandidateLive
    <3> QED BY <1>3, <1>4, <1>5, <1>10, <2>3, <3>1, <3>2 DEF ReaderInv
  <2>4. CASE reading = "transaction"
    <3>1. /\ reading' = "classify" /\ view'.production = view.production
          /\ view'.current = view.current /\ view'.transaction = value
      BY <1>3, <1>6, <1>7, <2>4
    <3>2. CandidateLive(view, Candidate)' = CandidateLive(view, Candidate)
      BY <1>5, <3>1 DEF CandidateLive
    <3>3. ASSUME fresh, view.production = base, ParseTransaction(value) = None \/ base = Candidate
          PROVE  Untaken
      <4>1. CASE base = Candidate
        BY <1>9, <4>1 DEF SinceStart, Untaken
      <4>2. CASE ParseTransaction(value) = None
        <5>1. Intent = None /\ production = base
          BY <1>4, <1>9, <2>4, <3>3, <4>2 DEF Keys, Intent, ReaderInv, Replaced
        <5>2. \A w \in inflight : w.key = "production" => Repeats(w)
          BY <1>9, <5>1 DEF ReconciliationInv, SettledInv, InflightInv, Late, LateProduction,
             LateCurrent, LatePrevious, LateTransaction
        <5> QED BY <5>1, <5>2 DEF Untaken, Repeats, Holds
      <4> QED BY <3>3, <4>1, <4>2
    <3> QED BY <1>3, <1>4, <1>5, <1>10, <2>4, <3>1, <3>2, <3>3 DEF ReaderInv
  <2> QED BY <1>3, <2>1, <2>2, <2>3, <2>4
<1> QED BY <1>1, <1>11, SameStore DEF ReconciliationInv

LEMMA ReadFailsKeeps ==
    ASSUME ReconciliationInv, ReadFails
    PROVE  ReconciliationInv'
<1>1. UNCHANGED <<store, inflight, pc, job, report, base, snapshot>> /\ Refused
  BY DEF ReadFails, Refused
<1>2. /\ reading' = "idle" /\ reading # "idle" /\ UNCHANGED <<fresh, question>>
      /\ view' = NoView /\ verdict' = Verdict("unknown", "unknown")
  BY DEF ReadFails, Order
<1>3. ~Concluded("committed")' /\ ~Concluded("not_committed")'
  BY <1>2 DEF Concluded, Verdict
<1>4. ReaderInv'
  BY <1>1, <1>2, <1>3, SameStore DEF ReconciliationInv, ReaderInv, NoView, Order
<1> QED BY <1>1, <1>4, SameStore DEF ReconciliationInv

\* The classification concludes only what the view supports.
LEMMA ClassifiesSoundly ==
    ASSUME NEW v, NEW candidate, NEW baseline, NEW dated \in BOOLEAN
    PROVE  /\ Classify(v, candidate, baseline, dated).status = "committed"
                 => CandidateLive(v, candidate)
           /\ Classify(v, candidate, baseline, dated).status = "not_committed"
                 => /\ dated /\ v.production = baseline
                    /\ ParseTransaction(v.transaction) = None \/ baseline = candidate
  BY DEF Classify, Blocking, LiveVerdict, BaselineLive, Verdict

LEMMA ConcludeKeeps ==
    ASSUME ReconciliationInv, Conclude
    PROVE  ReconciliationInv'
<1>1. UNCHANGED <<store, inflight, pc, job, report, base, snapshot, faults>>
  BY DEF Conclude, vars
<1>2. /\ reading' = "idle" /\ reading = "classify" /\ UNCHANGED <<fresh, question>>
      /\ view' = NoView /\ fresh \in BOOLEAN
      /\ verdict' = Classify(view, Candidate, base, fresh)
  BY DEF Conclude, ReconciliationInv, ReaderInv
<1>3. Concluded("committed")' => Done
  BY <1>2, ClassifiesSoundly DEF Concluded, ReconciliationInv, ReaderInv
<1>4. Concluded("not_committed")' => Untaken
  BY <1>2, ClassifiesSoundly DEF Concluded, ReconciliationInv, ReaderInv
<1>5. ReaderInv'
  BY <1>1, <1>2, <1>3, <1>4, SameStore DEF ReconciliationInv, ReaderInv, NoView, Order
<1> QED BY <1>1, <1>5, SameStore DEF ReconciliationInv

LEMMA NextAttemptKeeps ==
    ASSUME Settled, ReconciliationInv, NextAttempt
    PROVE  ReconciliationInv'
<1> PICK c \in Contents : Begin(c)
  BY DEF NextAttempt
<1>1. IInv' /\ SettledInv'
  BY Inductive, BeginStep DEF ReconciliationInv, Sound, Stepped, Next
<1>2. SameView /\ pc' # "idle"
  BY SameStoreSameView DEF Begin, Local
<1>3. PointersInOrder' /\ LatePointersInOrder' /\ IntentIsOurs'
  BY <1>2 DEF ReconciliationInv, SameView, PointersInOrder, LatePointersInOrder, IntentIsOurs, Asked
<1>4. SnapshotInv'
  BY SnapshotStarts DEF ReconciliationInv, Sound, NextAttempt
<1>5. ReaderInv'
  BY DEF NextAttempt, ReaderInv, Concluded, NoView, Order
<1> QED BY <1>1, <1>3, <1>4, <1>5 DEF ReconciliationInv

LEMMA PublisherStepKeeps ==
    ASSUME Settled, ReconciliationInv, PublisherStep
    PROVE  ReconciliationInv'
<1>0. Sound /\ UNCHANGED readerVars /\ snapshot' = snapshot
  BY DEF ReconciliationInv, Sound, PublisherStep, readerVars
<1>1. IInv' /\ SettledInv'
  BY <1>0, Inductive, NextStep DEF Sound, Stepped, Next, PublisherStep
<1>2. CASE Settle
  BY <1>0, <1>1, <1>2, OrderSettles, IntentSettles, SnapshotSettles, ReaderSettles
  DEF ReconciliationInv
<1>3. CASE Attempt \/ ReadFailure \/ Crash
  <2>1. AttemptStep
    BY <1>3 DEF AttemptStep, Attempt, ReadFailure, Crash, Reading, ReadIntent,
     RetireCheck, Retire, StageConfig, StageManifest, ReadProduction, ReadCurrent,
     ReadPrevious, Recover, RepairPrevious, RepairCurrent, Repair, Decide, AlignCurrent,
     StageOldConfig, StageOldManifest, Stage, WriteIntent, FirstPointer, Activate,
     CommitPhase, VerifyPhase, FinalizePhase, AdvanceIntent, SwitchPrevious,
     SwitchCurrent, SwitchPointer, Check, Clear, UndoFirstPointer, UndoProduction,
     UndoCurrent, Undo, UndoPrevious, Abort
  <2>2. Sound'
    BY <1>1 DEF Sound
  <2> QED BY <1>0, <1>1, <2>1, <2>2, OrderKept, LateOrderKept, IntentKept, SnapshotKept,
          ReaderSleeps DEF ReconciliationInv
<1> QED BY <1>2, <1>3 DEF PublisherStep

LEMMA ReconciliationInductive ==
    ASSUME Settled, ReconciliationInv, [ReconciliationNext]_reconciliationVars
    PROVE  ReconciliationInv'
<1>1. CASE UNCHANGED reconciliationVars
  <2>1. /\ UNCHANGED <<store, inflight, pc, job, report, base, snapshot, faults>>
        /\ UNCHANGED <<reading, view, fresh, question, verdict>>
    BY <1>1 DEF reconciliationVars, vars, readerVars
  <2>2. CandidateLive(view, Candidate)' = CandidateLive(view, Candidate)
        /\ Concluded("committed")' = Concluded("committed")
        /\ Concluded("not_committed")' = Concluded("not_committed")
    BY <2>1, SameStore DEF CandidateLive, Concluded
  <2>3. ReaderInv'
    BY <2>1, <2>2, SameStore DEF ReconciliationInv, ReaderInv, SameView
  <2> QED BY <2>1, <2>3, SameStore DEF ReconciliationInv
<1>2. ASSUME NEW dated \in BOOLEAN, Ask(dated) \/ AskByIds(dated) PROVE ReconciliationInv'
  BY <1>2, AskKeeps DEF AskByIds
<1> QED
  BY <1>1, <1>2, NextAttemptKeeps, PublisherStepKeeps, ReadKeyKeeps, ReadFailsKeeps,
     ConcludeKeeps DEF ReconciliationNext

LEMMA ReconciliationStarted == ReconciliationInit => ReconciliationInv
<1> SUFFICES ASSUME ReconciliationInit PROVE ReconciliationInv
  OBVIOUS
<1>1. IInv /\ SettledInv
  BY InitSafe, InitSettled DEF ReconciliationInit, IInv, Safe
<1>2. inflight = {} /\ pc = "idle" /\ base = production /\ report.status = "none"
  BY DEF ReconciliationInit, Init
<1>3. PointersInOrder
  <2>1. CASE InitUnversioned
    BY <2>1 DEF InitUnversioned, Intent, ParseTransaction, PointersInOrder
  <2>2. CASE InitLegacyIntent
    <3>1. PICK from \in Contents, to \in Contents :
            /\ current = ReleaseIdOf[from]
            /\ intent = [from |-> ReleaseIdOf[from], to |-> ReleaseIdOf[to],
                         previous |-> None, phase |-> LegacyPhase]
      BY <2>2 DEF InitLegacyIntent
    <3>2. Intent # None => Intent.from = ReleaseIdOf[from]
      BY <3>1 DEF Intent, ParseTransaction, LegacyPhase
    <3>3. Current = ReleaseIdOf[from]
      BY <3>1, ContentsAssumption, SentinelsAssumption DEF Current, ParsePointer
    <3> QED BY <1>1, <3>2, <3>3, IntentFields DEF PointersInOrder
  <2> QED BY <2>1, <2>2 DEF ReconciliationInit, Init
<1>4. LatePointersInOrder /\ IntentIsOurs /\ SnapshotInv
  BY <1>2 DEF LatePointersInOrder, IntentIsOurs, Asked, SnapshotInv, ReconciliationInit, Keys
<1>5. ReaderInv
  BY DEF ReconciliationInit, ReaderInv, Concluded, NoView, Order
<1> QED BY <1>1, <1>3, <1>4, <1>5 DEF ReconciliationInv

\* With attempts that start with nothing in flight, the reader and the publisher
\* keep ReconciliationInv together.
THEOREM ReconciliationInvariantHolds == Settled => (ReconciliationSpec => []ReconciliationInv)
<1> SUFFICES ASSUME Settled PROVE ReconciliationSpec => []ReconciliationInv
  OBVIOUS
<1>1. ReconciliationInv /\ [ReconciliationNext]_reconciliationVars => ReconciliationInv'
  BY ReconciliationInductive
<1> QED BY <1>1, ReconciliationStarted, PTL DEF ReconciliationSpec

\* What reconcile_release_bundle concludes from four keys read one after the
\* other, any of them perhaps as before the attempt, is so when it concludes and
\* stays so: the lifecycle may discard the private copy of a committed
\* candidate, and an operator may act on "not_committed".
THEOREM ReconciliationConcludesForGood ==
    Settled => (ReconciliationSpec => []ConclusionsAreFinal)
<1> SUFFICES ASSUME Settled PROVE ReconciliationSpec => []ConclusionsAreFinal
  OBVIOUS
<1>1. ReconciliationInv => ConclusionsAreFinal
  <2> SUFFICES ASSUME ReconciliationInv PROVE ConclusionsAreFinal
    OBVIOUS
  <2>1. verdict # None => Asked /\ question = [candidate |-> Candidate, previous |-> base]
    BY DEF ReconciliationInv, ReaderInv
  <2>2. CASE Concluded("committed")
    <3>1. Asked /\ Done /\ question.candidate = Candidate
      BY <2>1, <2>2 DEF Concluded, ReconciliationInv, ReaderInv
    <3>2. CandidateLive(Keys, question.candidate)
      BY <3>1 DEF Done, CandidateLive, Keys, Current
    <3>3. ~Concluded("not_committed")
      BY <2>2 DEF Concluded
    <3> QED BY <3>1, <3>2, <3>3, LiveIsFinal DEF ReconciliationInv, Sound, ConclusionsAreFinal
  <2>3. CASE ~Concluded("committed")
    BY <2>1, <2>3 DEF Concluded, ReconciliationInv, ReaderInv, Untaken, ConclusionsAreFinal
  <2> QED BY <2>2, <2>3
<1> QED BY <1>1, ReconciliationInvariantHolds, PTL
=============================================================================
