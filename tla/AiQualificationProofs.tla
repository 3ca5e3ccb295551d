----------------------- MODULE AiQualificationProofs -----------------------
(***************************************************************************)
(* Proofs about AiQualification, for any nodes, services, lifetimes,       *)
(* capacity, and bounds on clocks, time and lost writes: nothing is routed *)
(* to, or published, on a pass that has outlived its lifetime, and nothing *)
(* is excluded on a failure that has.                                      *)
(***************************************************************************)
EXTENDS AiQualification, FiniteSetTheorems, WellFoundedInduction, TLAPS

\* What a document may hold for a node and a service after an update: what
\* was there, nothing, or what the sweep found.
RecordsSweep(document, cache, s, checked, passed, clock) ==
    /\ document \in Caches
    /\ \A n \in Nodes, t \in Services :
          \/ document[n][t] \in {None, cache[n][t]}
          \/ /\ n \in checked /\ t = s
             /\ document[n][t] = [passed |-> n \in passed, checked |-> clock]

LEMMA UpdatedVerdict ==
    ASSUME NEW cache \in Caches, NEW s \in Services, NEW checked \in SUBSET Nodes,
           NEW passed \in SUBSET Nodes, NEW clock \in Nat,
           NEW document \in Updates(cache, s, checked, passed, clock)
    PROVE  RecordsSweep(document, cache, s, checked, passed, clock)
<1> DEFINE trimmed == Restricted(cache, Current(cache, clock))
           recorded == Checked(trimmed, s, checked, passed, clock)
           verdict(n) == [passed |-> n \in passed, checked |-> clock]
<1>1. trimmed \in Caches /\ \A n \in Nodes, t \in Services : trimmed[n][t] \in {None, cache[n][t]}
  BY DEF Restricted, Caches
<1>2. \A n \in Nodes : verdict(n) \in Verdicts
  BY DEF Verdicts
<1>3. /\ recorded \in Caches
      /\ \A n \in Nodes, t \in Services :
            \/ recorded[n][t] \in {None, cache[n][t]}
            \/ n \in checked /\ t = s /\ recorded[n][t] = verdict(n)
  <2> HIDE DEF trimmed
  <2>1. recorded = [n \in Nodes |-> IF n \in checked THEN [trimmed[n] EXCEPT ![s] = verdict(n)]
                                    ELSE trimmed[n]]
    BY DEF Checked
  <2>2. ASSUME NEW n \in Nodes
        PROVE  /\ recorded[n] \in [Services -> Verdicts \union {None}]
               /\ \A t \in Services :
                     \/ recorded[n][t] \in {None, cache[n][t]}
                     \/ n \in checked /\ t = s /\ recorded[n][t] = verdict(n)
    <3> HIDE DEF recorded, verdict
    <3>1. trimmed[n] \in [Services -> Verdicts \union {None}]
      BY <1>1 DEF Caches
    <3>2. CASE n \in checked
      BY <1>1, <1>2, <2>1, <3>1, <3>2
    <3>3. CASE n \notin checked
      BY <1>1, <2>1, <3>1, <3>3
    <3> QED
      BY <3>2, <3>3
  <2> QED
    BY <2>1, <2>2 DEF Caches
<1>4. PICK kept : document = Restricted(recorded, kept)
  BY DEF Updates
<1> QED
  <2> HIDE DEF recorded, verdict
  <2>1. document = [n \in Nodes |-> IF n \in kept THEN recorded[n] ELSE [t \in Services |-> None]]
    BY <1>4 DEF Restricted
  <2>2. document \in Caches
    BY <1>3, <2>1 DEF Caches
  <2>3. \A n \in Nodes, t \in Services : document[n][t] \in {None, recorded[n][t]}
    BY <2>1
  <2> QED
    BY <1>3, <2>2, <2>3 DEF verdict, RecordsSweep

LEMMA EveryUpdateRecordsSweep ==
    \A cache \in Caches, s \in Services, checked, passed \in SUBSET Nodes, clock \in Nat :
        \A document \in Updates(cache, s, checked, passed, clock) :
            RecordsSweep(document, cache, s, checked, passed, clock)
  BY UpdatedVerdict

\* Later probes keep a document justified.
LEMMA JustificationLasts ==
    ASSUME NEW cache \in Caches, Justified(cache), TypeOK,
           passedAt' \in [Services -> [Nodes -> Times]],
           failedAt' \in [Services -> [Nodes -> Times]],
           \A s \in Services, n \in Nodes :
               passedAt[s][n] <= passedAt'[s][n] /\ failedAt[s][n] <= failedAt'[s][n]
    PROVE  Justified(cache)'
<1> SUFFICES ASSUME NEW n \in Nodes, NEW s \in Services, cache[n][s] # None
             PROVE  LET probed == IF cache[n][s].passed THEN passedAt'[s][n] ELSE failedAt'[s][n]
                    IN probed > 0 /\ cache[n][s].checked <= probed + MaxDrift
  BY DEF Justified
<1>1. /\ cache[n][s] \in Verdicts /\ MaxDrift \in Nat
      /\ passedAt[s][n] \in Nat /\ passedAt'[s][n] \in Nat
      /\ failedAt[s][n] \in Nat /\ failedAt'[s][n] \in Nat
  BY QualificationAssumption DEF TypeOK, Times, Caches
<1>2. cache[n][s].checked \in Nat
  BY <1>1 DEF Verdicts
<1> QED
  BY <1>1, <1>2 DEF Justified

LEMMA InitSafe == Init => IInv
  BY QualificationAssumption
  DEF Init, IInv, TypeOK, Times, EmptyCache, Caches, NoPools, Never, CachesAreJustified,
      Justified, GateIsJustified, ProbesArePast, AdmissionsAreProven, ExclusionsAreRecent,
      PublishedPoolsAreProven

LEMMA TickSafe == IInv /\ Tick => IInv'
<1> SUFFICES ASSUME IInv, Tick PROVE IInv'
  OBVIOUS
<1>1. TypeOK'
  BY QualificationAssumption DEF IInv, TypeOK, Tick, runVars, ghosts, Times
<1>2. ProbesArePast'
  BY QualificationAssumption
  DEF IInv, TypeOK, ProbesArePast, Tick, runVars, ghosts, Times, Gates
<1> QED
  BY <1>1, <1>2
  DEF IInv, Tick, runVars, ghosts, CachesAreJustified, Justified, GateIsJustified, Service,
      AdmissionsAreProven, ExclusionsAreRecent, PublishedPoolsAreProven, Proven

LEMMA EmptyIsJustified == EmptyCache \in Caches /\ Justified(EmptyCache)
  BY DEF EmptyCache, Caches, Justified

LEMMA BeginSafe == IInv /\ Begin => IInv'
<1> SUFFICES ASSUME IInv, Begin PROVE IInv'
  OBVIOUS
<1>1. TypeOK'
  BY EmptyIsJustified, QualificationAssumption DEF IInv, TypeOK, Begin, Loaded, NoPools, ghosts
<1>2. CachesAreJustified'
  BY EmptyIsJustified DEF IInv, Begin, Loaded, ghosts, CachesAreJustified, Justified
<1> QED
  BY <1>1, <1>2
  DEF IInv, Begin, ghosts, NoPools, GateIsJustified, ProbesArePast, AdmissionsAreProven,
      ExclusionsAreRecent, PublishedPoolsAreProven

\* Ending a run, whatever the cache in KV becomes.
LEMMA EndSafe ==
    ASSUME IInv, End, UNCHANGED <<time, ghosts>>,
           kv' \in Caches, Justified(kv'), late' \subseteq Caches,
           \A document \in late' : Justified(document)
    PROVE  IInv'
<1>1. TypeOK'
  BY QualificationAssumption DEF IInv, TypeOK, End, NoPools, ghosts
<1> QED
  BY <1>1
  DEF IInv, End, ghosts, NoPools, CachesAreJustified, Justified, GateIsJustified, ProbesArePast,
      AdmissionsAreProven, ExclusionsAreRecent, PublishedPoolsAreProven

LEMMA ServiceInTurn ==
    ASSUME TypeOK, pc \in {"gate", "sweep"}
    PROVE  Service \in Services /\ turn \in 1 .. Len(ServiceOrder)
  BY QualificationAssumption DEF TypeOK, Service

\* A usable verdict is at most its lifetime older than its probe.
LEMMA HitIsRecent ==
    ASSUME IInv, work # None, NEW n \in Nodes, NEW s \in Services,
           Usable(work[n][s], s, Clock)
    PROVE  IF work[n][s].passed
           THEN passedAt[s][n] > 0 /\ passedAt[s][n] >= time - PassTTL[s] - MaxDrift
           ELSE failedAt[s][n] > 0 /\ failedAt[s][n] >= time - FailTTL[s] - MaxDrift
<1> DEFINE v == work[n][s]
<1>1. v \in Verdicts /\ v # None /\ time \in Nat /\ drift \in Nat
  BY QualificationAssumption DEF IInv, TypeOK, Caches, Usable, Times
<1>2. passedAt[s][n] \in Nat /\ failedAt[s][n] \in Nat
  BY QualificationAssumption DEF IInv, TypeOK, Times
<1>3. IF v.passed THEN passedAt[s][n] > 0 /\ v.checked <= passedAt[s][n] + MaxDrift
                  ELSE failedAt[s][n] > 0 /\ v.checked <= failedAt[s][n] + MaxDrift
  BY <1>1 DEF IInv, CachesAreJustified, Justified
<1>4. time + drift - v.checked <= (IF v.passed THEN PassTTL[s] ELSE FailTTL[s])
  BY <1>1, CacheAssumption DEF Usable, Lifetime, Clock, Verdicts
<1>5. v.checked \in Nat /\ v.passed \in BOOLEAN
  BY <1>1 DEF Verdicts
<1>6. PassTTL[s] \in Nat /\ FailTTL[s] \in Nat /\ MaxDrift \in Nat
  BY CacheAssumption, QualificationAssumption
<1>7. CASE v.passed
  BY <1>1, <1>2, <1>3, <1>4, <1>5, <1>6, <1>7
<1>8. CASE ~v.passed
  BY <1>1, <1>2, <1>3, <1>4, <1>5, <1>6, <1>8
<1> QED
  BY <1>7, <1>8

LEMMA GateSafe == IInv /\ Gate => IInv'
<1> SUFFICES ASSUME IInv, Gate PROVE IInv'
  OBVIOUS
<1> DEFINE passes == IF work = None THEN {} ELSE CachedPasses(work, inventory, Service, Clock)
           failures == IF work = None THEN {} ELSE CachedFailures(work, inventory, Service, Clock)
<1>1. PICK finding \in SentinelFindings :
         gate' = [passes |-> passes, failures |-> failures, systemic |-> finding.systemic,
                  control |-> finding.control, at |-> time]
  BY DEF Gate
<1>2. finding.systemic \in BOOLEAN /\ finding.control \in SUBSET Regions
  <2>1. \A reached \in SUBSET Sentinel[inventory] : {Region[n] : n \in reached} \in SUBSET Regions
    <3>1. Sentinel[inventory] \subseteq Nodes
      BY QualificationAssumption DEF IInv, TypeOK
    <3> QED
      BY <3>1 DEF Regions
  <2>2. \A outcome, control : Blocked(outcome, control) \in BOOLEAN
    BY DEF Blocked
  <2>3. CASE Service \in Systemic /\ Cardinality(Sentinel[inventory]) >= 2
    <3>1. PICK seen \in [Sentinel[inventory] -> Outcomes] \X SUBSET Sentinel[inventory] :
             finding = [systemic |-> Blocked(seen[1], {Region[n] : n \in seen[2]}),
                        control |-> {Region[n] : n \in seen[2]}]
      BY <2>3 DEF SentinelFindings
    <3>2. seen[2] \in SUBSET Sentinel[inventory]
      OBVIOUS
    <3> QED
      BY <2>1, <2>2, <3>1, <3>2
  <2>4. CASE ~(Service \in Systemic /\ Cardinality(Sentinel[inventory]) >= 2)
    <3>1. finding = [systemic |-> FALSE, control |-> {}]
      BY <2>4 DEF SentinelFindings
    <3> QED
      BY <3>1
  <2> QED
    BY <2>3, <2>4
<1>3. /\ passes \subseteq inventory /\ failures \subseteq inventory /\ inventory \subseteq Nodes
      /\ time \in Times
  BY DEF IInv, TypeOK, CachedPasses, CachedFailures
<1>4. gate' \in Gates
  BY <1>1, <1>2, <1>3 DEF Gates
<1>5. Service \in Services /\ Service' = Service
  BY ServiceInTurn DEF IInv, Gate, Service
<1>6. /\ \A n \in passes : /\ passedAt[Service][n] > 0
                           /\ passedAt[Service][n] >= time - PassTTL[Service] - MaxDrift
      /\ \A n \in failures : /\ failedAt[Service][n] > 0
                             /\ failedAt[Service][n] >= time - FailTTL[Service] - MaxDrift
  BY <1>3, <1>5, HitIsRecent DEF CachedPasses, CachedFailures
<1> HIDE DEF passes, failures
<1>7. gate'.passes = passes /\ gate'.failures = failures /\ gate'.at = time
  BY <1>1
<1>8. TypeOK'
  BY <1>4, ServiceInTurn DEF IInv, TypeOK, Gate, ghosts
<1>9. GateIsJustified'
  BY <1>3, <1>5, <1>6, <1>7 DEF GateIsJustified, Gate, ghosts
<1>10. ProbesArePast'
  BY <1>3, <1>7, QualificationAssumption DEF IInv, ProbesArePast, Gate, ghosts, Times
<1> QED
  BY <1>8, <1>9, <1>10
  DEF IInv, Gate, ghosts, CachesAreJustified, Justified, AdmissionsAreProven,
      ExclusionsAreRecent, PublishedPoolsAreProven, Proven

\* Concluding a service with a pool that its probes back.
LEMMA ConcludeSafe ==
    ASSUME IInv, pc = "sweep", NEW pool \in Pools, Conclude(pool),
           work' \in Caches \union {None}, work' # None => Justified(work)',
           passedAt' \in [Services -> [Nodes -> Times]],
           failedAt' \in [Services -> [Nodes -> Times]],
           \A s \in Services, n \in Nodes :
              /\ passedAt[s][n] <= passedAt'[s][n] /\ passedAt'[s][n] <= time
              /\ failedAt[s][n] <= failedAt'[s][n] /\ failedAt'[s][n] <= time,
           pool.basis # "unverified" =>
              \A n \in pool.nodes :
                 /\ passedAt'[Service][n] > 0
                 /\ passedAt'[Service][n] >= pool.at - PassTTL[Service] - MaxDrift,
           pool.basis = "evidence" =>
              \A n \in inventory \ pool.nodes :
                 /\ failedAt'[Service][n] > 0
                 /\ failedAt'[Service][n] >= pool.at - FailTTL[Service] - MaxDrift
    PROVE  IInv'
<1>1. Service \in Services /\ turn \in 1 .. Len(ServiceOrder)
  BY ServiceInTurn DEF IInv
<1>2. /\ pools' = [pools EXCEPT ![Service] = pool] /\ pools \in [Services -> Pools \union {None}]
      /\ UNCHANGED <<time, kv, late, drift, inventory>> /\ pc' \in {"gate", "guard"}
      /\ gate' = None /\ turn' = turn + 1
      /\ pc' = "gate" => turn # Len(ServiceOrder)
  BY DEF Conclude, IInv, TypeOK
<1>3. TypeOK'
  BY <1>1, <1>2, QualificationAssumption DEF IInv, TypeOK
<1>4. CachesAreJustified'
  <2>1. Justified(kv)' /\ \A document \in late : Justified(document)'
    BY <1>2, JustificationLasts DEF IInv, TypeOK, CachesAreJustified, Justified
  <2> QED
    BY <1>2, <2>1 DEF CachesAreJustified
<1>5. GateIsJustified' /\ ProbesArePast' /\ PublishedPoolsAreProven'
  BY <1>2 DEF IInv, GateIsJustified, ProbesArePast, PublishedPoolsAreProven
<1>6. ASSUME NEW s \in Services, s # Service, pools[s] # None
      PROVE  /\ pools[s].basis # "unverified" =>
                  \A n \in pools[s].nodes :
                     /\ passedAt'[s][n] > 0
                     /\ passedAt'[s][n] >= pools[s].at - PassTTL[s] - MaxDrift
             /\ pools[s].basis = "evidence" =>
                  \A n \in inventory \ pools[s].nodes :
                     /\ failedAt'[s][n] > 0
                     /\ failedAt'[s][n] >= pools[s].at - FailTTL[s] - MaxDrift
  <2>1. /\ pools[s] \in Pools /\ pools'[s] = pools[s] /\ inventory \subseteq Nodes
        /\ PassTTL[s] \in Nat /\ FailTTL[s] \in Nat /\ MaxDrift \in Nat
    BY <1>2, <1>6, CacheAssumption, QualificationAssumption, ZenonT(60) DEF IInv, TypeOK
  <2>2. pools[s].nodes \subseteq Nodes /\ pools[s].at \in Nat
    BY <2>1, QualificationAssumption DEF Pools, Times
  <2>3. \A n \in Nodes : /\ passedAt[s][n] \in Nat /\ passedAt'[s][n] \in Nat
                         /\ failedAt[s][n] \in Nat /\ failedAt'[s][n] \in Nat
    BY QualificationAssumption DEF IInv, TypeOK, Times
  <2>4. ASSUME pools[s].basis # "unverified", NEW n \in pools[s].nodes
        PROVE  /\ passedAt'[s][n] > 0
               /\ passedAt'[s][n] >= pools[s].at - PassTTL[s] - MaxDrift
    <3>1. passedAt[s][n] > 0 /\ passedAt[s][n] >= pools[s].at - PassTTL[s] - MaxDrift
      BY <1>6, <2>4 DEF IInv, AdmissionsAreProven, Proven
    <3>2. n \in Nodes /\ passedAt[s][n] <= passedAt'[s][n]
      BY <2>2, <2>4
    <3> QED
      BY <2>1, <2>2, <2>3, <3>1, <3>2
  <2>5. ASSUME pools[s].basis = "evidence", NEW n \in inventory \ pools[s].nodes
        PROVE  /\ failedAt'[s][n] > 0
               /\ failedAt'[s][n] >= pools[s].at - FailTTL[s] - MaxDrift
    <3>1. failedAt[s][n] > 0 /\ failedAt[s][n] >= pools[s].at - FailTTL[s] - MaxDrift
      BY <1>6, <2>5 DEF IInv, ExclusionsAreRecent
    <3>2. n \in Nodes /\ failedAt[s][n] <= failedAt'[s][n]
      BY <2>1, <2>5
    <3> QED
      BY <2>1, <2>2, <2>3, <3>1, <3>2
  <2> QED
    BY <2>4, <2>5
<1>7. AdmissionsAreProven'
  <2>1. ASSUME NEW s \in Services, pools'[s] # None, pools'[s].basis # "unverified"
        PROVE  Proven(s, pools[s])'
    <3>1. CASE s = Service
      BY <1>1, <1>2, <2>1, <3>1 DEF Proven
    <3>2. CASE s # Service
      BY <1>2, <1>6, <2>1, <3>2 DEF Proven
    <3> QED
      BY <3>1, <3>2
  <2> QED
    BY <2>1 DEF AdmissionsAreProven
<1>8. ExclusionsAreRecent'
  <2>1. ASSUME NEW s \in Services, pools'[s] # None, pools'[s].basis = "evidence",
               NEW n \in inventory \ pools'[s].nodes
        PROVE  /\ failedAt'[s][n] > 0
               /\ failedAt'[s][n] >= pools'[s].at - FailTTL[s] - MaxDrift
    <3>1. CASE s = Service
      BY <1>1, <1>2, <2>1, <3>1
    <3>2. CASE s # Service
      BY <1>2, <1>6, <2>1, <3>2
    <3> QED
      BY <3>1, <3>2
  <2> QED
    BY <1>2, <2>1 DEF ExclusionsAreRecent
<1> QED
  BY <1>3, <1>4, <1>5, <1>7, <1>8 DEF IInv

LEMMA InconclusiveIsProven ==
    ASSUME IInv, pc = "sweep"
    PROVE  /\ Inconclusive \in Pools /\ Inconclusive.basis # "evidence"
           /\ Inconclusive.basis # "unverified" =>
                 Inconclusive.nodes = gate.passes /\ Inconclusive.at = gate.at
  BY DEF IInv, TypeOK, Inconclusive, Pools, Gates

LEMMA SkipSweepSafe == IInv /\ SkipSweep => IInv'
<1> SUFFICES ASSUME IInv, SkipSweep PROVE IInv'
  OBVIOUS
<1>1. pc = "sweep" /\ Conclude(Inconclusive) /\ UNCHANGED <<work, passedAt, failedAt>>
  BY DEF SkipSweep, ghosts
<1>2. \A s \in Services, n \in Nodes :
         /\ passedAt[s][n] \in Nat /\ passedAt[s][n] <= time
         /\ failedAt[s][n] \in Nat /\ failedAt[s][n] <= time
  BY QualificationAssumption DEF IInv, TypeOK, Times, ProbesArePast
<1>3. Inconclusive.basis # "unverified" =>
         \A n \in Inconclusive.nodes :
            /\ passedAt'[Service][n] > 0
            /\ passedAt'[Service][n] >= Inconclusive.at - PassTTL[Service] - MaxDrift
  BY <1>1, InconclusiveIsProven DEF IInv, GateIsJustified
<1>4. work' # None => Justified(work)'
  BY <1>1 DEF IInv, CachesAreJustified, Justified
<1>5. /\ work' \in Caches \union {None}
      /\ passedAt' \in [Services -> [Nodes -> Times]]
      /\ failedAt' \in [Services -> [Nodes -> Times]]
  BY <1>1 DEF IInv, TypeOK
<1>6. \A s \in Services, n \in Nodes :
         /\ passedAt[s][n] <= passedAt'[s][n] /\ passedAt'[s][n] <= time
         /\ failedAt[s][n] <= failedAt'[s][n] /\ failedAt'[s][n] <= time
  BY <1>1, <1>2
<1>7. Inconclusive \in Pools /\ Inconclusive.basis # "evidence"
  BY <1>1, InconclusiveIsProven
<1> QED
  BY <1>1, <1>3, <1>4, <1>5, <1>6, <1>7, ConcludeSafe

LEMMA SweepSafe == IInv /\ Sweep => IInv'
<1> SUFFICES ASSUME IInv, Sweep PROVE IInv'
  OBVIOUS
<1>1. PICK outcome \in [Live -> Outcomes] :
         LET passed == {n \in Live : outcome[n] = "passed"}
             blocked == Blocked(outcome, gate.control)
         IN /\ Conclude(IF blocked THEN Inconclusive
                        ELSE [nodes |-> gate.passes \union passed,
                              basis |-> "evidence", at |-> gate.at])
            /\ IF work = None \/ Live = {} THEN work' = work
               ELSE work' \in Updates(work, Service, Live, passed, Clock)
            /\ passedAt' = [passedAt EXCEPT ![Service] =
                  [n \in Nodes |-> IF n \in passed THEN time ELSE @[n]]]
            /\ failedAt' = [failedAt EXCEPT ![Service] =
                  [n \in Nodes |-> IF n \in Live \ passed THEN time ELSE @[n]]]
  BY DEF Sweep
<1> DEFINE passed == {n \in Live : outcome[n] = "passed"}
           evidence == [nodes |-> gate.passes \union passed, basis |-> "evidence", at |-> gate.at]
           pool == IF Blocked(outcome, gate.control) THEN Inconclusive ELSE evidence
<1>2. /\ pc = "sweep" /\ gate \in Gates /\ inventory \subseteq Nodes /\ time \in Times
      /\ time \in Nat /\ time > 0 /\ gate.at \in Nat /\ gate.at <= time
      /\ Service \in Services /\ Live \in SUBSET Nodes
      /\ passedAt \in [Services -> [Nodes -> Times]] /\ failedAt \in [Services -> [Nodes -> Times]]
      /\ MaxDrift \in Nat /\ PassTTL[Service] \in Nat /\ FailTTL[Service] \in Nat
  <2>1. TypeOK /\ ProbesArePast /\ pc = "sweep"
    BY DEF IInv, Sweep
  <2>2. Service \in Services
    BY <2>1, ServiceInTurn
  <2>3. MaxDrift \in Nat /\ PassTTL[Service] \in Nat /\ FailTTL[Service] \in Nat
    BY <2>2, CacheAssumption, QualificationAssumption
  <2>4. gate \in Gates /\ inventory \subseteq Nodes /\ time \in Times
    BY <2>1 DEF TypeOK
  <2>5. gate.at \in Times
    BY <2>4 DEF Gates
  <2>6. time \in Nat /\ gate.at \in Nat /\ time > 0 /\ gate.at <= time
    BY <2>1, <2>4, <2>5, QualificationAssumption DEF Times, ProbesArePast
  <2> QED
    BY <2>1, <2>2, <2>3, <2>4, <2>6 DEF TypeOK, Live
<1> HIDE DEF passed
<1>3. /\ passedAt' = [passedAt EXCEPT ![Service] =
              [n \in Nodes |-> IF n \in passed THEN time ELSE passedAt[Service][n]]]
      /\ failedAt' = [failedAt EXCEPT ![Service] =
              [n \in Nodes |-> IF n \in Live \ passed THEN time ELSE failedAt[Service][n]]]
      /\ Conclude(pool) /\ passed \subseteq Live
      /\ IF work = None \/ Live = {} THEN work' = work
         ELSE work' \in Updates(work, Service, Live, passed, Clock)
  BY <1>1, <1>2 DEF passed
<1>4. /\ passedAt' \in [Services -> [Nodes -> Times]]
      /\ failedAt' \in [Services -> [Nodes -> Times]]
  BY <1>2, <1>3
<1>5. \A s \in Services, n \in Nodes :
         /\ passedAt[s][n] \in Nat /\ passedAt[s][n] <= time
         /\ failedAt[s][n] \in Nat /\ failedAt[s][n] <= time
  BY QualificationAssumption DEF IInv, TypeOK, Times, ProbesArePast
<1>6. \A s \in Services, n \in Nodes :
         /\ passedAt'[s][n] \in {passedAt[s][n], time} /\ failedAt'[s][n] \in {failedAt[s][n], time}
         /\ s = Service /\ n \in passed => passedAt'[s][n] = time
         /\ s = Service /\ n \in Live \ passed => failedAt'[s][n] = time
  BY <1>2, <1>3
<1>7. \A s \in Services, n \in Nodes :
         /\ passedAt[s][n] <= passedAt'[s][n] /\ passedAt'[s][n] <= time
         /\ failedAt[s][n] <= failedAt'[s][n] /\ failedAt'[s][n] <= time
  BY <1>2, <1>5, <1>6
<1>8. work' \in Caches \union {None} /\ (work' # None => Justified(work)')
  <2>1. CASE work = None \/ Live = {}
    <3>1. work' = work
      BY <1>3, <2>1
    <3>2. ASSUME work # None PROVE Justified(work)'
      <4>1. work \in Caches /\ Justified(work)
        BY <3>2 DEF IInv, TypeOK, CachesAreJustified
      <4>2. \A document \in Caches : Justified(document) => Justified(document)'
        BY <1>4, <1>7, JustificationLasts DEF IInv
      <4> QED
        BY <3>1, <4>1, <4>2 DEF Justified
    <3> QED
      BY <3>1, <3>2 DEF IInv, TypeOK
  <2>2. CASE ~(work = None \/ Live = {})
    <3>1. work \in Caches /\ Justified(work) /\ Clock \in Nat /\ Clock <= time + MaxDrift
      <4>1. drift \in 0 .. MaxDrift
        BY DEF IInv, TypeOK
      <4> QED
        BY <1>2, <2>2, <4>1 DEF IInv, TypeOK, CachesAreJustified, Clock
    <3>2. RecordsSweep(work', work, Service, Live, passed, Clock)
      <4>1. passed \in SUBSET Nodes /\ work' \in Updates(work, Service, Live, passed, Clock)
        BY <1>2, <1>3, <2>2
      <4> QED
        BY <1>2, <3>1, <4>1, EveryUpdateRecordsSweep
    <3>3. ASSUME NEW n \in Nodes, NEW s \in Services, work'[n][s] # None
          PROVE  LET probed == IF work'[n][s].passed THEN passedAt'[s][n] ELSE failedAt'[s][n]
                 IN probed > 0 /\ work'[n][s].checked <= probed + MaxDrift
      <4>1. CASE work'[n][s] = work[n][s]
        <5>1. /\ Justified(work) /\ work[n][s] \in Verdicts \union {None} /\ work[n][s] # None
          BY <3>1, <3>3, <4>1 DEF Caches
        <5>2. work[n][s].checked \in Nat /\ work[n][s].passed \in BOOLEAN
          BY <5>1 DEF Verdicts
        <5>3. IF work[n][s].passed
              THEN passedAt[s][n] > 0 /\ work[n][s].checked <= passedAt[s][n] + MaxDrift
              ELSE failedAt[s][n] > 0 /\ work[n][s].checked <= failedAt[s][n] + MaxDrift
          BY <5>1 DEF Justified
        <5>4. /\ passedAt[s][n] \in Nat /\ passedAt'[s][n] \in Nat
              /\ failedAt[s][n] \in Nat /\ failedAt'[s][n] \in Nat
              /\ passedAt[s][n] <= passedAt'[s][n] /\ failedAt[s][n] <= failedAt'[s][n]
          BY <1>2, <1>5, <1>6, <1>7
        <5> QED
          BY <1>2, <4>1, <5>2, <5>3, <5>4
      <4>2. CASE /\ n \in Live /\ s = Service
                 /\ work'[n][s] = [passed |-> n \in passed, checked |-> Clock]
        <5>1. work'[n][s].passed = (n \in passed) /\ work'[n][s].checked = Clock
          BY <4>2
        <5>2. IF n \in passed THEN passedAt'[s][n] = time ELSE failedAt'[s][n] = time
          BY <1>6, <4>2
        <5> QED
          BY <1>2, <3>1, <5>1, <5>2
      <4> QED
        BY <3>2, <3>3, <4>1, <4>2 DEF RecordsSweep
    <3> QED
      BY <3>2, <3>3 DEF Justified, RecordsSweep
  <2> QED
    BY <2>1, <2>2
<1>9. evidence \in Pools
  BY <1>2, <1>3 DEF Pools, Gates
<1>10. pool \in Pools
  BY <1>2, <1>9, InconclusiveIsProven
<1>11. /\ \A n \in gate.passes : /\ passedAt[Service][n] > 0
                               /\ passedAt[Service][n] >= gate.at - PassTTL[Service] - MaxDrift
       /\ \A n \in gate.failures : /\ failedAt[Service][n] > 0
                                 /\ failedAt[Service][n] >= gate.at - FailTTL[Service] - MaxDrift
       /\ gate.passes \subseteq inventory /\ gate.failures \subseteq inventory
  BY <1>2 DEF IInv, GateIsJustified
<1>12. ASSUME NEW n \in gate.passes \union passed
       PROVE  /\ passedAt'[Service][n] > 0
              /\ passedAt'[Service][n] >= gate.at - PassTTL[Service] - MaxDrift
  <2>1. n \in Nodes
    BY <1>2, <1>3, <1>11
  <2>2. /\ passedAt[Service][n] \in Nat /\ passedAt'[Service][n] \in Nat
        /\ passedAt[Service][n] <= passedAt'[Service][n]
    BY <1>2, <1>5, <1>6, <1>7, <2>1
  <2>3. CASE n \in gate.passes
    <3>1. passedAt[Service][n] > 0
          /\ passedAt[Service][n] >= gate.at - PassTTL[Service] - MaxDrift
      BY <1>11, <2>3
    <3> QED
      BY <1>2, <2>2, <3>1
  <2>4. CASE n \in passed
    <3>1. passedAt'[Service][n] = time
      BY <1>2, <1>6, <2>1, <2>4
    <3> QED
      BY <1>2, <3>1
  <2> QED
    BY <2>3, <2>4
<1>13. ASSUME NEW n \in inventory \ (gate.passes \union passed)
       PROVE  /\ failedAt'[Service][n] > 0
              /\ failedAt'[Service][n] >= gate.at - FailTTL[Service] - MaxDrift
  <2>1. n \in Nodes /\ (n \in gate.failures \/ n \in Live \ passed)
    BY <1>2, <1>13 DEF Live
  <2>2. /\ failedAt[Service][n] \in Nat /\ failedAt'[Service][n] \in Nat
        /\ failedAt[Service][n] <= failedAt'[Service][n]
    BY <1>2, <1>5, <1>6, <1>7, <2>1
  <2>3. CASE n \in gate.failures
    <3>1. failedAt[Service][n] > 0
          /\ failedAt[Service][n] >= gate.at - FailTTL[Service] - MaxDrift
      BY <1>11, <2>3
    <3> QED
      BY <1>2, <2>2, <3>1
  <2>4. CASE n \in Live \ passed
    <3>1. failedAt'[Service][n] = time
      BY <1>2, <1>6, <2>1, <2>4
    <3> QED
      BY <1>2, <3>1
  <2> QED
    BY <2>1, <2>3, <2>4
<1>14. pool.basis # "unverified" =>
          \A n \in pool.nodes :
             /\ passedAt'[Service][n] > 0
             /\ passedAt'[Service][n] >= pool.at - PassTTL[Service] - MaxDrift
  BY <1>2, <1>12, InconclusiveIsProven
<1>15. pool.basis = "evidence" =>
          \A n \in inventory \ pool.nodes :
             /\ failedAt'[Service][n] > 0
             /\ failedAt'[Service][n] >= pool.at - FailTTL[Service] - MaxDrift
  BY <1>2, <1>13, InconclusiveIsProven
<1> HIDE DEF pool
<1> QED
  BY <1>2, <1>3, <1>4, <1>7, <1>8, <1>10, <1>14, <1>15, ConcludeSafe

\* The run ends without writing.
LEMMA EndWithoutWriting ==
    ASSUME IInv, End, UNCHANGED <<time, kv, late, ghosts>>
    PROVE  IInv'
<1>1. kv \in Caches /\ Justified(kv) /\ late \subseteq Caches
      /\ \A document \in late : Justified(document)
  BY DEF IInv, TypeOK, CachesAreJustified
<1>2. UNCHANGED <<time, ghosts>> /\ kv' = kv /\ late' = late
  OBVIOUS
<1> QED
  BY <1>1, <1>2, EndSafe DEF Justified

LEMMA PersistSafe == IInv /\ Persist => IInv'
<1> SUFFICES ASSUME IInv, Persist PROVE IInv'
  OBVIOUS
<1>1. /\ kv \in Caches /\ Justified(kv) /\ late \subseteq Caches
      /\ \A document \in late : Justified(document)
      /\ work # None => work \in Caches /\ Justified(work)
  BY DEF IInv, TypeOK, CachesAreJustified
<1>2. /\ End /\ UNCHANGED <<time, ghosts>>
      /\ kv' = kv \/ (work # None /\ kv' = work)
      /\ late' = late \/ (work # None /\ late' = late \union {work})
  BY DEF Persist
<1>3. kv' \in Caches /\ Justified(kv')
  BY <1>1, <1>2
<1>4. late' \subseteq Caches /\ \A document \in late' : Justified(document)
  BY <1>1, <1>2
<1> QED
  BY <1>2, <1>3, <1>4, EndSafe

LEMMA ResolveSafe == IInv /\ Resolve => IInv'
<1> SUFFICES ASSUME IInv, Resolve PROVE IInv'
  OBVIOUS
<1>1. kv' \in late \union {kv} /\ late' \subseteq late
      /\ UNCHANGED <<time, pc, runVars, ghosts>>
  BY DEF Resolve
<1>2. TypeOK'
  BY <1>1 DEF IInv, TypeOK, runVars, ghosts
<1>3. CachesAreJustified'
  BY <1>1 DEF IInv, CachesAreJustified, Justified, runVars, ghosts
<1> QED
  BY <1>1, <1>2, <1>3
  DEF IInv, runVars, ghosts, GateIsJustified, Service, ProbesArePast, AdmissionsAreProven,
      ExclusionsAreRecent, PublishedPoolsAreProven, Proven

\* What the guard lets through holds no unverified pool.
LEMMA PromoteSafe == IInv /\ Promote => IInv'
<1> SUFFICES ASSUME IInv, Promote PROVE IInv'
  OBVIOUS
<1>1. pc = "guard" /\ pc' = "persist" /\ Held = {} /\ UNCHANGED <<time, kv, late, runVars, ghosts>>
  BY DEF Promote, Violated
<1>2. TypeOK'
  BY <1>1 DEF IInv, TypeOK, runVars, ghosts
<1>3. PublishedPoolsAreProven'
  BY <1>1
  DEF IInv, Held, AdmissionsAreProven, PublishedPoolsAreProven, Proven, runVars, ghosts
<1> QED
  BY <1>1, <1>2, <1>3
  DEF IInv, runVars, ghosts, CachesAreJustified, Justified, GateIsJustified, Service,
      ProbesArePast, AdmissionsAreProven, ExclusionsAreRecent, Proven

LEMMA StutterSafe == IInv /\ UNCHANGED vars => IInv'
  BY DEF IInv, vars, runVars, ghosts, TypeOK, CachesAreJustified, Justified, GateIsJustified,
     Service, ProbesArePast, AdmissionsAreProven, ExclusionsAreRecent, PublishedPoolsAreProven,
     Proven

\* Every action keeps the inductive invariant.
LEMMA NextSafe == IInv /\ [Next]_vars => IInv'
<1> SUFFICES ASSUME IInv, [Next]_vars PROVE IInv'
  OBVIOUS
<1>1. CASE Tick BY <1>1, TickSafe
<1>2. CASE Begin BY <1>2, BeginSafe
<1>3. CASE Gate BY <1>3, GateSafe
<1>4. CASE SkipSweep BY <1>4, SkipSweepSafe
<1>5. CASE Sweep BY <1>5, SweepSafe
<1>6. CASE ProbeFails BY <1>6, EndWithoutWriting DEF ProbeFails
<1>7. CASE Promote BY <1>7, PromoteSafe
<1>8. CASE Reject BY <1>8, EndWithoutWriting DEF Reject
<1>9. CASE Persist BY <1>9, PersistSafe
<1>10. CASE Resolve BY <1>10, ResolveSafe
<1>11. CASE UNCHANGED vars BY <1>11, StutterSafe
<1> QED
  BY <1>1, <1>2, <1>3, <1>4, <1>5, <1>6, <1>7, <1>8, <1>9, <1>10, <1>11 DEF Next

\* The inductive invariant holds of every behaviour.
THEOREM QualificationInvariant == Spec => []IInv
<1>1. Init => IInv
  BY InitSafe
<1>2. IInv /\ [Next]_vars => IInv'
  BY NextSafe
<1> QED
  BY <1>1, <1>2, PTL DEF Spec

\* Every variable keeps its type (run_ai_qualification and its cache).
THEOREM QualificationTypes == Spec => []TypeOK
<1>1. IInv => TypeOK
  BY DEF IInv
<1> QED
  BY <1>1, QualificationInvariant, PTL

\* No cache hit, lost write, late document or unfinished run stretches a
\* pass beyond its lifetime (cached_service_decisions).
THEOREM Admissions == Spec => []AdmissionsAreProven
<1>1. IInv => AdmissionsAreProven
  BY DEF IInv
<1> QED
  BY <1>1, QualificationInvariant, PTL

\* Nothing but proven pools is published (assess_promotion).
THEOREM PublishedPools == Spec => []PublishedPoolsAreProven
<1>1. IInv => PublishedPoolsAreProven
  BY DEF IInv
<1> QED
  BY <1>1, QualificationInvariant, PTL

\* No node is left out on a failure that has outlived its lifetime
\* (cached_service_decisions).
THEOREM Exclusions == Spec => []ExclusionsAreRecent
<1>1. IInv => ExclusionsAreRecent
  BY DEF IInv
<1> QED
  BY <1>1, QualificationInvariant, PTL
-----------------------------------------------------------------------------
(* What an update of the cache may lose.                                   *)

\* Every verdict of a document has the time of a sweep.
Dated(cache) == \A n \in Nodes, s \in Services : cache[n][s] # None => cache[n][s].checked > 0
DatedInv ==
    /\ Dated(kv) /\ \A document \in late : Dated(document)
    /\ work # None => Dated(work)

LEMMA Newest ==
    ASSUME NEW S, S \subseteq Nat, S # {}, NEW c \in Nat, \A x \in S : x <= c
    PROVE  \E e \in S : \A f \in S : f <= e
<1> DEFINE R == OpToRel(<, Nat)
           T == {c - x : x \in S}
<1>1. IsWellFoundedOn(R, Nat)
  BY NatLessThanWellFounded
<1>2. T \subseteq Nat /\ T # {}
  <2>1. \A x \in S : c - x \in Nat
    OBVIOUS
  <2> QED
    BY <2>1
<1>3. PICK d \in T : \A g \in T : ~(<<g, d>> \in R)
  BY <1>1, <1>2, WFMin
<1>4. PICK e \in S : d = c - e
  BY <1>3
<1>5. ASSUME NEW f \in S PROVE f <= e
  <2>1. c - f \in T /\ c - f \in Nat /\ d \in Nat
    BY <1>2, <1>3
  <2>2. ~(c - f < d)
    BY <1>3, <2>1 DEF OpToRel
  <2> QED
    BY <1>4, <2>2
<1> QED
  BY <1>5

\* An entry with a usable verdict is not dropped for its age, unless another of
\* its verdicts is from the future.
LEMMA UsableIsCurrent ==
    ASSUME NEW cache \in Caches, NEW n \in Nodes, NEW t \in Services, NEW clock \in Nat,
           Usable(cache[n][t], t, clock), cache[n][t].checked > 0,
           \A e \in Epochs(cache, n) : e <= clock
    PROVE  n \in Current(cache, clock)
<1>1. /\ cache[n][t] # None /\ cache[n][t] \in Verdicts
      /\ clock - cache[n][t].checked <= Lifetime(cache[n][t], t)
  BY CacheAssumption DEF Usable, Caches, Lifetime, Verdicts
<1>2. Lifetime(cache[n][t], t) \in Nat /\ Lifetime(cache[n][t], t) <= MaxAge /\ MaxAge \in Nat
  BY <1>1, CacheAssumption, LifetimeAssumption DEF Lifetime, Verdicts
<1>3. cache[n][t].checked \in Epochs(cache, n) /\ cache[n][t].checked \in Nat
  BY <1>1 DEF Epochs, Verdicts
<1>4. Epochs(cache, n) \subseteq Nat
  <2> SUFFICES ASSUME NEW u \in Services, cache[n][u] # None PROVE cache[n][u].checked \in Nat
    BY DEF Epochs
  <2>1. cache[n][u] \in Verdicts
    BY DEF Caches
  <2> QED
    BY <2>1 DEF Verdicts
<1>5. PICK e \in Epochs(cache, n) : \A f \in Epochs(cache, n) : f <= e
  BY <1>3, <1>4, Newest
<1>6. e > 0 /\ clock - e \in 0 .. MaxAge
  BY <1>1, <1>2, <1>3, <1>4, <1>5
<1>7. n \in Entries(cache)
  BY <1>1 DEF Entries
<1> QED
  BY <1>5, <1>6, <1>7 DEF Current

\* What is recorded, before the capacity is looked at.
Recorded(document, cache, s, checked, clock) ==
    /\ document \in Caches
    /\ \A n \in checked : document[n][s] # None /\ document[n][s].checked = clock
    /\ \A n \in Nodes, t \in Services :
          n \notin checked \/ t # s => document[n][t] \in {None, cache[n][t]}
    /\ \A n \in Current(cache, clock), t \in Services : t # s => document[n][t] = cache[n][t]
    /\ Entries(document) \subseteq Entries(cache) \union checked

LEMMA RecordedVerdicts ==
    ASSUME NEW cache \in Caches, NEW s \in Services, NEW checked \in SUBSET Nodes,
           NEW passed \in SUBSET Nodes, NEW clock \in Nat
    PROVE  Recorded(Checked(Restricted(cache, Current(cache, clock)), s, checked, passed, clock),
                    cache, s, checked, clock)
<1> DEFINE trimmed == Restricted(cache, Current(cache, clock))
           recorded == Checked(trimmed, s, checked, passed, clock)
           verdict(n) == [passed |-> n \in passed, checked |-> clock]
<1>1. /\ trimmed \in Caches /\ \A n \in Nodes, t \in Services : trimmed[n][t] \in {None, cache[n][t]}
      /\ \A n \in Current(cache, clock) : n \in Nodes /\ trimmed[n] = cache[n]
  BY DEF Restricted, Caches, Current, Entries
<1>2. \A n \in Nodes : verdict(n) \in Verdicts /\ verdict(n).checked = clock
  BY DEF Verdicts
<1>3. \A n \in Nodes : verdict(n) # None
  BY <1>2, CacheAssumption DEF Verdicts
<1> HIDE DEF trimmed
<1>4. recorded = [n \in Nodes |-> IF n \in checked THEN [trimmed[n] EXCEPT ![s] = verdict(n)]
                                   ELSE trimmed[n]]
  BY DEF Checked
<1> HIDE DEF recorded, verdict
<1>5. ASSUME NEW n \in Nodes
      PROVE  /\ recorded[n] \in [Services -> Verdicts \union {None}]
             /\ n \in checked => recorded[n][s] = verdict(n)
             /\ \A t \in Services : n \notin checked \/ t # s => recorded[n][t] = trimmed[n][t]
  <2>1. trimmed[n] \in [Services -> Verdicts \union {None}]
    BY <1>1 DEF Caches
  <2>2. CASE n \in checked
    BY <1>2, <1>4, <2>1, <2>2
  <2>3. CASE n \notin checked
    BY <1>4, <2>1, <2>3
  <2> QED
    BY <2>2, <2>3
<1>6. recorded \in Caches
  BY <1>4, <1>5 DEF Caches
<1>7. Entries(recorded) \subseteq Entries(cache) \union checked
  BY <1>1, <1>5 DEF Entries
<1>8. /\ \A n \in checked : recorded[n][s] # None /\ recorded[n][s].checked = clock
      /\ \A n \in Nodes, t \in Services :
            n \notin checked \/ t # s => recorded[n][t] \in {None, cache[n][t]}
      /\ \A n \in Current(cache, clock), t \in Services : t # s => recorded[n][t] = cache[n][t]
  BY <1>1, <1>2, <1>3, <1>5
<1> QED
  BY <1>6, <1>7, <1>8 DEF Recorded, recorded, trimmed

\* With room for all, recording a service leaves the usable verdicts of others.
LEMMA RoomKeepsOthers ==
    ASSUME NEW cache \in Caches, NEW s \in Services, NEW checked \in SUBSET Nodes,
           NEW passed \in SUBSET Nodes, NEW clock \in Nat,
           NEW document \in Updates(cache, s, checked, passed, clock),
           Cardinality(Entries(cache) \union checked) <= MaxRecords,
           NEW n \in Current(cache, clock), NEW t \in Services, t # s, cache[n][t] # None
    PROVE  document[n][t] = cache[n][t]
<1> DEFINE recorded == Checked(Restricted(cache, Current(cache, clock)), s, checked, passed, clock)
<1>1. PICK kept \in Survivors(recorded) : document = Restricted(recorded, kept)
  BY DEF Updates
<1>2. /\ recorded \in Caches /\ recorded[n][t] = cache[n][t]
      /\ Entries(recorded) \subseteq Entries(cache) \union checked
  <2>1. Recorded(recorded, cache, s, checked, clock)
    BY RecordedVerdicts
  <2> QED
    BY <2>1 DEF Recorded
<1>3. n \in Nodes
  BY DEF Current, Entries
<1> HIDE DEF recorded
<1>4. kept = Entries(recorded)
  <2>1. IsFiniteSet(Entries(cache) \union checked)
    <3>1. Entries(cache) \union checked \subseteq Nodes
      BY DEF Entries
    <3> QED
      BY <3>1, CacheAssumption, FS_Subset
  <2>2. /\ Cardinality(Entries(recorded)) <= Cardinality(Entries(cache) \union checked)
        /\ IsFiniteSet(Entries(recorded))
    BY <1>2, <2>1, FS_Subset
  <2>3. Cardinality(Entries(recorded)) \in Nat /\ Cardinality(Entries(cache) \union checked) \in Nat
    BY <2>1, <2>2, FS_CardinalityType
  <2>4. Cardinality(Entries(recorded)) <= MaxRecords /\ ~(Cardinality(Entries(recorded)) > MaxRecords)
    BY <2>2, <2>3, CacheAssumption
  <2> QED
    BY <1>1, <2>4 DEF Survivors
<1>5. n \in kept
  BY <1>2, <1>3, <1>4 DEF Entries
<1> QED
  BY <1>1, <1>2, <1>3, <1>5 DEF Restricted

\* At capacity, older entries go first.
LEMMA OlderGoFirst ==
    ASSUME NEW cache \in Caches, NEW s \in Services, NEW checked \in SUBSET Nodes,
           NEW passed \in SUBSET Nodes, NEW clock \in Nat,
           NEW document \in Updates(cache, s, checked, passed, clock),
           Cardinality(checked) <= MaxRecords,
           \A m \in Nodes \ checked : \A e \in Epochs(cache, m) : e < clock,
           NEW n \in checked
    PROVE  document[n][s] # None
<1> DEFINE recorded == Checked(Restricted(cache, Current(cache, clock)), s, checked, passed, clock)
<1>1. PICK kept \in Survivors(recorded) : document = Restricted(recorded, kept)
  BY DEF Updates
<1>2. /\ recorded \in Caches
      /\ \A m \in checked : recorded[m][s] # None /\ recorded[m][s].checked = clock
      /\ \A m \in Nodes \ checked, t \in Services : recorded[m][t] \in {None, cache[m][t]}
  <2>1. Recorded(recorded, cache, s, checked, clock)
    BY RecordedVerdicts
  <2> QED
    BY <2>1 DEF Recorded
<1> HIDE DEF recorded
<1>3. checked \subseteq Entries(recorded) /\ \A m \in checked : clock \in Epochs(recorded, m)
  BY <1>2 DEF Entries, Epochs
<1>4. \A m \in Nodes \ checked : \A e \in Epochs(recorded, m) : e < clock /\ e \in Nat
  <2> SUFFICES ASSUME NEW m \in Nodes \ checked, NEW t \in Services, recorded[m][t] # None
               PROVE  recorded[m][t].checked < clock /\ recorded[m][t].checked \in Nat
    BY DEF Epochs
  <2>1. recorded[m][t] = cache[m][t] /\ cache[m][t] \in Verdicts
    BY <1>2 DEF Caches
  <2>2. cache[m][t].checked \in Epochs(cache, m)
    BY <2>1 DEF Epochs
  <2> QED
    BY <2>1, <2>2 DEF Verdicts
<1>5. n \in kept
  <2> SUFFICES ASSUME n \notin kept PROVE FALSE
    OBVIOUS
  <2>1. /\ kept \subseteq Entries(recorded) /\ Cardinality(kept) = MaxRecords
        /\ \A k \in kept : \A m \in Entries(recorded) \ kept :
              ~\E e \in Epochs(recorded, m) : \A f \in Epochs(recorded, k) : e > f
    BY <1>1, <1>3 DEF Survivors
  <2>2. ASSUME NEW k \in kept PROVE k \in checked
    <3>1. \E f \in Epochs(recorded, k) : ~(clock > f)
      BY <1>3, <2>1
    <3>2. k \in Nodes
      BY <2>1 DEF Entries
    <3> QED
      BY <1>4, <3>1, <3>2
  <2>3. IsFiniteSet(checked) /\ kept \subseteq checked /\ kept # checked
    BY <2>2, CacheAssumption, FS_Subset
  <2>4. Cardinality(kept) < Cardinality(checked)
    <3>1. IsFiniteSet(kept) /\ Cardinality(kept) <= Cardinality(checked)
      BY <2>3, FS_Subset
    <3>2. Cardinality(kept) # Cardinality(checked)
      BY <2>3, FS_Subset
    <3> QED
      BY <2>3, <3>1, <3>2, FS_CardinalityType
  <2> QED
    BY <2>1, <2>3, <2>4, CacheAssumption, FS_CardinalityType
<1> QED
  BY <1>1, <1>2, <1>5 DEF Restricted

LEMMA DatedStart == Init => DatedInv
BY DEF Init, DatedInv, Dated, EmptyCache

LEMMA DatedSweep ==
    ASSUME IInv, DatedInv, Sweep
    PROVE  work' # None => Dated(work)'
<1>1. PICK outcome \in [Live -> Outcomes] :
         IF work = None \/ Live = {} THEN work' = work
         ELSE work' \in Updates(work, Service, Live, {n \in Live : outcome[n] = "passed"}, Clock)
  BY DEF Sweep
<1> DEFINE passed == {n \in Live : outcome[n] = "passed"}
<1>2. CASE work = None \/ Live = {}
  BY <1>1, <1>2 DEF DatedInv, Dated
<1>3. CASE ~(work = None \/ Live = {})
  <2>1. /\ work \in Caches /\ Service \in Services /\ Clock \in Nat /\ Clock > 0
        /\ Live \in SUBSET Nodes /\ passed \in SUBSET Nodes
    <3>1. work \in Caches /\ inventory \subseteq Nodes /\ Service \in Services
      BY <1>3, ServiceInTurn DEF IInv, TypeOK, Sweep
    <3>2. time \in Nat /\ time > 0 /\ drift \in Nat
      BY QualificationAssumption DEF IInv, TypeOK, Times, ProbesArePast
    <3> QED
      BY <3>1, <3>2 DEF Clock, Live
  <2>2. work' \in Updates(work, Service, Live, passed, Clock)
    BY <1>1, <1>3
  <2> HIDE DEF passed
  <2>3. RecordsSweep(work', work, Service, Live, passed, Clock)
    BY <2>1, <2>2, EveryUpdateRecordsSweep
  <2>4. ASSUME NEW n \in Nodes, NEW s \in Services, work'[n][s] # None
        PROVE  work'[n][s].checked > 0
    <3>1. CASE work'[n][s] = work[n][s]
      BY <1>3, <2>4, <3>1 DEF DatedInv, Dated
    <3>2. CASE work'[n][s] = [passed |-> n \in passed, checked |-> Clock]
      <4>1. work'[n][s].checked = Clock
        BY <3>2
      <4> QED
        BY <2>1, <4>1
    <3> QED
      BY <2>3, <2>4, <3>1, <3>2 DEF RecordsSweep
  <2> QED
    BY <2>4 DEF Dated
<1> QED
  BY <1>2, <1>3

LEMMA DatedSteps == IInv /\ DatedInv /\ [Next]_vars => DatedInv'
<1> SUFFICES ASSUME IInv, DatedInv, [Next]_vars PROVE DatedInv'
  OBVIOUS
<1>1. CASE Sweep
  BY <1>1, DatedSweep DEF Sweep, Conclude, DatedInv, Dated
<1>2. CASE Begin
  BY <1>2 DEF Begin, Loaded, DatedInv, Dated, EmptyCache
<1>3. CASE Persist
  BY <1>3 DEF Persist, End, DatedInv, Dated
<1>4. CASE Resolve
  BY <1>4 DEF Resolve, runVars, DatedInv, Dated
<1>5. CASE ProbeFails \/ Reject
  BY <1>5 DEF ProbeFails, Reject, End, DatedInv, Dated
<1>6. CASE Tick \/ Gate \/ SkipSweep \/ Promote \/ UNCHANGED vars
  BY <1>6 DEF Tick, Gate, SkipSweep, Conclude, Promote, vars, runVars, DatedInv, Dated
<1> QED
  BY <1>1, <1>2, <1>3, <1>4, <1>5, <1>6 DEF Next

\* A service is concluded by its own step alone, which recorded what it probed
\* live, if it probed.
LEMMA ConcludingStep ==
    ASSUME IInv, [Next]_vars, NEW s \in Services, pools[s] = None, pools'[s] # None
    PROVE  /\ s = Service /\ pc = "sweep" /\ Live \in SUBSET Nodes /\ Live \subseteq inventory
           /\ Clock \in Nat
           /\ \/ work' = work /\ (gate.systemic \/ work = None \/ Live = {})
              \/ /\ work \in Caches
                 /\ \E passed \in SUBSET Nodes : work' \in Updates(work, s, Live, passed, Clock)
<1>1. SkipSweep \/ Sweep
  BY DEF Next, vars, runVars, Tick, Begin, Gate, ProbeFails, Promote, Reject, Persist, Resolve, End, NoPools
<1>2. pc = "sweep" /\ pools' = [pools EXCEPT ![Service] = pools'[Service]]
  BY <1>1 DEF SkipSweep, Sweep, Conclude, IInv, TypeOK
<1>3. s = Service
  BY <1>2 DEF IInv, TypeOK
<1>4. Live \in SUBSET Nodes /\ Live \subseteq inventory
  BY DEF Live, IInv, TypeOK
<1>5. Clock \in Nat
  <2>1. time \in Nat /\ drift \in Nat
    BY QualificationAssumption DEF IInv, TypeOK, Times
  <2> QED
    BY <2>1 DEF Clock
<1>6. CASE SkipSweep
  BY <1>2, <1>3, <1>4, <1>5, <1>6 DEF SkipSweep
<1>7. CASE Sweep
  <2>1. PICK outcome \in [Live -> Outcomes] :
           IF work = None \/ Live = {} THEN work' = work
           ELSE work' \in Updates(work, Service, Live, {n \in Live : outcome[n] = "passed"}, Clock)
    BY <1>7 DEF Sweep
  <2>2. {n \in Live : outcome[n] = "passed"} \in SUBSET Nodes
    BY <1>4
  <2>3. work \in Caches \union {None}
    BY DEF IInv, TypeOK
  <2> QED
    BY <1>2, <1>3, <1>4, <1>5, <2>1, <2>2, <2>3
<1> QED
  BY <1>1, <1>6, <1>7

LEMMA OthersKept ==
    ASSUME IInv, DatedInv, [Next]_vars, NEW s \in Services, NEW t \in Services, NEW n \in Nodes,
           pools[s] = None, pools'[s] # None, s # t, work # None, Usable(work[n][t], t, Clock),
           \A e \in Epochs(work, n) : e <= Clock,
           Cardinality(Entries(work) \union inventory) <= MaxRecords
    PROVE  work'[n][t] = work[n][t]
<1>1. CASE work' = work
  BY <1>1
<1>2. ASSUME work \in Caches, NEW passed \in SUBSET Nodes, work' \in Updates(work, s, Live, passed, Clock),
             Live \in SUBSET Nodes, Live \subseteq inventory, Clock \in Nat
      PROVE  work'[n][t] = work[n][t]
  <2>1. work[n][t] # None /\ work[n][t].checked > 0
    BY DEF DatedInv, Dated, Usable
  <2>2. n \in Current(work, Clock)
    BY <1>2, <2>1, UsableIsCurrent
  <2>3. Cardinality(Entries(work) \union Live) <= MaxRecords
    <3>1. Entries(work) \union inventory \subseteq Nodes
      BY DEF Entries, IInv, TypeOK
    <3>2. IsFiniteSet(Entries(work) \union inventory)
      BY <3>1, CacheAssumption, FS_Subset
    <3>3. /\ Cardinality(Entries(work) \union Live) <= Cardinality(Entries(work) \union inventory)
          /\ IsFiniteSet(Entries(work) \union Live)
      BY <1>2, <3>2, FS_Subset
    <3> QED
      BY <3>2, <3>3, CacheAssumption, FS_CardinalityType
  <2>4. ASSUME NEW document \in Updates(work, s, Live, passed, Clock)
        PROVE  document[n][t] = work[n][t]
    <3>1. work \in Caches /\ passed \in SUBSET Nodes /\ Live \in SUBSET Nodes /\ Clock \in Nat
      BY <1>2
    <3>2. t # s /\ work[n][t] # None
      BY <2>1
    <3> QED
      BY <3>1, <3>2, <2>2, <2>3, <2>4, RoomKeepsOthers, ZenonT(60)
  <2> QED
    BY <1>2, <2>4
<1> QED
  BY <1>1, <1>2, ConcludingStep

LEMMA RecordedKept ==
    ASSUME IInv, [Next]_vars, NEW s \in Services,
           pools[s] = None, pools'[s] # None, work # None, ~gate.systemic,
           Cardinality(Live) <= MaxRecords,
           \A m \in Nodes \ Live : \A e \in Epochs(work, m) : e < Clock,
           NEW n \in Live
    PROVE  work'[n][s] # None
<1>1. ASSUME work \in Caches, NEW passed \in SUBSET Nodes, work' \in Updates(work, s, Live, passed, Clock),
             Live \in SUBSET Nodes, Clock \in Nat
      PROVE  work'[n][s] # None
  BY <1>1, OlderGoFirst
<1> QED
  BY <1>1, ConcludingStep

LEMMA DatedInvariant == Spec => [](IInv /\ DatedInv)
<1>1. Init => DatedInv
  BY DatedStart
<1>2. IInv /\ DatedInv /\ [Next]_vars => DatedInv'
  BY DatedSteps
<1> QED
  BY <1>1, <1>2, QualificationInvariant, PTL DEF Spec

\* update_ai_cache_service: recording one service loses no usable verdict of
\* another, unless the node's entry is from the future or there is no room.
THEOREM OtherVerdictsSurvive == Spec => FreshVerdictsSurvive
<1>1. IInv /\ DatedInv /\ [Next]_vars =>
        [\A s, t \in Services, n \in Nodes :
            /\ pools[s] = None /\ pools'[s] # None /\ s # t
            /\ work # None /\ Usable(work[n][t], t, Clock)
            /\ \A e \in Epochs(work, n) : e <= Clock
            /\ Cardinality(Entries(work) \union inventory) <= MaxRecords
            => work'[n][t] = work[n][t]]_vars
  BY OthersKept
<1> QED
  BY <1>1, DatedInvariant, PTL DEF Spec, FreshVerdictsSurvive

\* update_ai_cache_service: a full cache gives up older entries before what the
\* sweep has just recorded.
THEOREM NewVerdictsSurvive == Spec => RecordedVerdictsSurvive
<1>1. IInv /\ [Next]_vars =>
        [\A s \in Services :
            /\ pools[s] = None /\ pools'[s] # None /\ work # None /\ ~gate.systemic
            /\ Cardinality(Live) <= MaxRecords
            /\ \A m \in Nodes \ Live : \A e \in Epochs(work, m) : e < Clock
            => \A n \in Live : work'[n][s] # None]_vars
  BY RecordedKept
<1> QED
  BY <1>1, QualificationInvariant, PTL DEF Spec, RecordedVerdictsSurvive
=============================================================================
