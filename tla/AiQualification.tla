--------------------------- MODULE AiQualification ---------------------------
(***************************************************************************)
(* Qualification of the AI services, run after run: run_ai_qualification   *)
(* with the cache of the previous runs, the sentinel gate and the check    *)
(* after the sweep that recognise a blackout of the probe environment, the *)
(* promotion guard's reading of the evidence, and the best-effort write of *)
(* the cache after a committed release.                                    *)
(*                                                                         *)
(* Every run has its own machine, whose clock may be ahead of real time.   *)
(* One endpoint stands for the critical endpoints of a service.  A probe   *)
(* is dated at the end of its sweep, when the cache records it.            *)
(***************************************************************************)
EXTENDS AiQualificationCache, Sequences

CONSTANTS
    ServiceOrder,   \* the registered services, in the order they are probed
    Systemic,       \* those that support systemic failure detection
    Region,         \* region of each node
    Sentinel,       \* first node of each region, among those given
    Minimum,        \* minimum_qualified_nodes_by_service
    MaxDrift,       \* bound on how far a machine's clock is ahead
    MaxLate,        \* bound on the unresolved writes
    MaxTime         \* bound on time

ASSUME QualificationAssumption ==
    /\ ServiceOrder \in Seq(Services) /\ ServiceOrder # <<>>
    /\ Systemic \subseteq Services
    /\ MaxDrift \in Nat /\ MaxLate \in Nat /\ MaxTime \in Nat
    /\ Minimum \in [Services -> Nat]
    /\ Sentinel \in [SUBSET Nodes -> SUBSET Nodes]
    /\ \A names \in SUBSET Nodes :
          /\ Sentinel[names] \subseteq names
          /\ \A n \in names : \E m \in Sentinel[names] : Region[m] = Region[n]
          /\ \A n, m \in Sentinel[names] : Region[m] = Region[n] => m = n

VARIABLES
    time,       \* real time
    kv,         \* the cache document in Cloudflare KV
    late,       \* documents of unresolved writes that may still land
    pc,         \* next step of the running qualification
    drift,      \* how far its machine's clock is ahead
    inventory,  \* the AI nodes of its candidate
    work,       \* next_cache_document, or None when the cache is disabled
    turn,       \* position of the service being qualified
    gate,       \* what the gate found for that service
    pools,      \* what each service will be routed to: qualified_by_probe
    passedAt,   \* ghost: real time of the last live pass, 0 if none
    failedAt    \* ghost: real time of the last live failure, 0 if none

runVars == <<drift, inventory, work, turn, gate, pools>>
ghosts == <<passedAt, failedAt>>
vars == <<time, kv, late, pc, runVars, ghosts>>
-----------------------------------------------------------------------------
Times == 0 .. MaxTime
Regions == {Region[n] : n \in Nodes}
Outcomes == {"passed", "status", "network", "unselected"}
Service == ServiceOrder[turn]
Clock == time + drift

\* basis: how the nodes were chosen; at: when the cache was consulted.
Pools == [nodes : SUBSET Nodes, basis : {"evidence", "lkg", "unverified"}, at : Times]
Gates == [passes : SUBSET Nodes, failures : SUBSET Nodes, systemic : BOOLEAN,
          control : SUBSET Regions, at : Times]

TypeOK ==
    /\ time \in Times
    /\ kv \in Caches /\ late \subseteq Caches
    /\ pc \in {"idle", "gate", "sweep", "guard", "persist"}
    /\ drift \in 0 .. MaxDrift
    /\ inventory \subseteq Nodes
    /\ work \in Caches \union {None}
    /\ turn \in 1 .. Len(ServiceOrder) + 1
    /\ pc \in {"gate", "sweep"} => turn <= Len(ServiceOrder)
    /\ IF pc = "sweep" THEN gate \in Gates ELSE gate = None
    /\ pools \in [Services -> Pools \union {None}]
    /\ passedAt \in [Services -> [Nodes -> Times]]
    /\ failedAt \in [Services -> [Nodes -> Times]]

NoPools == [s \in Services |-> None]
Never == [s \in Services |-> [n \in Nodes |-> 0]]

\* Nothing was ever qualified; the cache key is missing, which reads as empty.
Init ==
    /\ time = 1 /\ time \in Times
    /\ kv = EmptyCache /\ late = {}
    /\ pc = "idle" /\ drift = 0 /\ inventory = {} /\ work = None /\ turn = 1
    /\ gate = None /\ pools = NoPools
    /\ passedAt = Never /\ failedAt = Never

Tick ==
    /\ time < MaxTime /\ time' = time + 1
    /\ UNCHANGED <<kv, late, pc, runVars, ghosts>>

\* load_ai_qualification_cache_state: unreadable state disables the cache,
\* an unparsable document counts as an empty one.
Loaded == {kv, EmptyCache, None}

Begin ==
    /\ pc = "idle" /\ pc' = "gate"
    /\ drift' \in 0 .. MaxDrift
    /\ inventory' \in SUBSET Nodes
    /\ work' \in Loaded
    /\ turn' = 1 /\ gate' = None /\ pools' = NoPools
    /\ UNCHANGED <<time, kv, late, ghosts>>

End ==
    /\ pc' = "idle"
    /\ drift' = 0 /\ inventory' = {} /\ work' = None /\ turn' = 1
    /\ gate' = None /\ pools' = NoPools
-----------------------------------------------------------------------------
\* evaluate_endpoint_blockage: nothing reached the endpoint, at least two
\* regions failed in the network, and the control reached all of those.
Blocked(outcome, control) ==
    LET failing == {Region[n] : n \in {m \in DOMAIN outcome : outcome[m] = "network"}}
    IN /\ \A n \in DOMAIN outcome : outcome[n] \notin {"passed", "status"}
       /\ Cardinality(failing) >= 2
       /\ failing \subseteq control /\ Cardinality(control) >= 2

\* What the sentinel gate may find: whether the endpoint is blocked, and the
\* regions the control probe reached it through.  Sentinels come from the
\* whole inventory; one of a single region proves nothing.
SentinelFindings ==
    LET sentinels == Sentinel[inventory]
        regions(nodes) == {Region[n] : n \in nodes}
    IN IF Service \in Systemic /\ Cardinality(sentinels) >= 2
       THEN {[systemic |-> Blocked(seen[1], regions(seen[2])), control |-> regions(seen[2])] :
                seen \in [sentinels -> Outcomes] \X SUBSET sentinels}
       ELSE {[systemic |-> FALSE, control |-> {}]}

\* The lookup in the cache, then the sentinel gate, whose outcomes never
\* enter the cache.
Gate ==
    /\ pc = "gate" /\ pc' = "sweep"
    /\ LET passes == IF work = None THEN {} ELSE CachedPasses(work, inventory, Service, Clock)
           failures == IF work = None THEN {} ELSE CachedFailures(work, inventory, Service, Clock)
       IN \E finding \in SentinelFindings :
             gate' = [passes |-> passes, failures |-> failures, systemic |-> finding.systemic,
                      control |-> finding.control, at |-> time]
    /\ UNCHANGED <<time, kv, late, drift, inventory, work, turn, pools, ghosts>>

\* Without usable evidence a service keeps its last known good nodes, and
\* without those its whole pool; it is never routed to REJECT.
Inconclusive ==
    IF gate.passes # {} THEN [nodes |-> gate.passes, basis |-> "lkg", at |-> gate.at]
    ELSE [nodes |-> inventory, basis |-> "unverified", at |-> gate.at]

Conclude(pool) ==
    /\ pools' = [pools EXCEPT ![Service] = pool]
    /\ turn' = turn + 1 /\ gate' = None
    /\ pc' = IF turn = Len(ServiceOrder) THEN "guard" ELSE "gate"
    /\ UNCHANGED <<time, kv, late, drift, inventory>>

SkipSweep ==
    /\ pc = "sweep" /\ gate.systemic
    /\ Conclude(Inconclusive)
    /\ UNCHANGED <<work, ghosts>>

\* live_names; every node when the cache is disabled.
Live == inventory \ (gate.passes \union gate.failures)

\* The sweep, the check after it with the same model, and the update of the
\* cache, which records the live names whatever that check says.
Sweep ==
    /\ pc = "sweep" /\ ~gate.systemic
    /\ \E outcome \in [Live -> Outcomes] :
          LET passed == {n \in Live : outcome[n] = "passed"}
              blocked == Blocked(outcome, gate.control)
          IN /\ Conclude(IF blocked THEN Inconclusive
                         ELSE [nodes |-> gate.passes \union passed,
                               basis |-> "evidence", at |-> gate.at])
             /\ IF work = None \/ Live = {} THEN work' = work
                ELSE work' \in Updates(work, Service, Live, passed, Clock)
             /\ passedAt' = [passedAt EXCEPT ![Service] =
                   [n \in Nodes |-> IF n \in passed THEN time ELSE @[n]]]
             /\ failedAt' = [failedAt EXCEPT ![Service] =
                   [n \in Nodes |-> IF n \in Live \ passed THEN time ELSE @[n]]]

\* A probe raises, also after its one retry: the run ends, its work is lost.
ProbeFails ==
    /\ pc \in {"gate", "sweep"} /\ End
    /\ UNCHANGED <<time, kv, late, ghosts>>
-----------------------------------------------------------------------------
\* _systemic_service_states: services held for want of a last known good.
Held == {s \in Services : pools[s] # None /\ pools[s].basis = "unverified"}

\* Mutant of Violated: a held service is excused like a cache-backed one.
ViolatedUnlessInconclusive ==
    \E s \in Services : pools[s] # None /\ pools[s].basis = "evidence"
                        /\ Cardinality(pools[s].nodes) < Minimum[s]

Violated ==
    \/ Held # {}
    \/ \E s \in Services : pools[s] # None /\ pools[s].basis = "evidence"
                           /\ Cardinality(pools[s].nodes) < Minimum[s]

\* The release commits with these pools; only then is the cache persisted.
Promote ==
    /\ pc = "guard" /\ ~Violated
    /\ pc' = "persist"
    /\ UNCHANGED <<time, kv, late, runVars, ghosts>>

\* Blocked by the guard, or ended by anything else before the commit.
Reject ==
    /\ pc = "guard" /\ End
    /\ UNCHANGED <<time, kv, late, ghosts>>

\* persist_ai_qualification_cache never fails the run.
Persist ==
    /\ pc = "persist" /\ End
    /\ \/ work # None /\ kv' = work /\ late' = late
       \/ kv' = kv /\ late' = late
       \/ work # None /\ kv' = kv
          /\ Cardinality(late) < MaxLate /\ late' = late \union {work}
    /\ UNCHANGED <<time, ghosts>>

\* An unresolved write lands after all, or never will.
Resolve ==
    /\ \E document \in late :
          /\ late' = late \ {document}
          /\ kv' \in {kv, document}
    /\ UNCHANGED <<time, pc, runVars, ghosts>>

Next ==
    \/ Tick \/ Begin \/ Gate \/ SkipSweep \/ Sweep \/ ProbeFails
    \/ Promote \/ Reject \/ Persist \/ Resolve

Spec == Init /\ [][Next]_vars
-----------------------------------------------------------------------------
(* Properties.                                                             *)

\* A pool that claims evidence holds only nodes that passed a live probe of
\* that service, no longer before the lookup than the lifetime of a pass and
\* the difference of two clocks: no hit, lost write, late document or
\* half-finished run stretches a pass (cached_service_decisions).
Proven(s, pool) ==
    \A n \in pool.nodes :
        passedAt[s][n] > 0 /\ passedAt[s][n] >= pool.at - PassTTL[s] - MaxDrift

AdmissionsAreProven ==
    \A s \in Services :
        pools[s] # None /\ pools[s].basis # "unverified" => Proven(s, pools[s])

\* Whatever a committed release routes a service to was proven in that way:
\* the whole pool of a held service is never published (assess_promotion with
\* the guard enabled).
PublishedPoolsAreProven ==
    pc = "persist" => \A s \in Services : pools[s] # None => Proven(s, pools[s])

\* A node left out of a pool failed a live probe no longer before the lookup
\* than the lifetime of a failure and the difference of two clocks, unless
\* the pool is the last known good.
ExclusionsAreRecent ==
    \A s \in Services : pools[s] # None /\ pools[s].basis = "evidence" =>
        \A n \in inventory \ pools[s].nodes :
            failedAt[s][n] > 0 /\ failedAt[s][n] >= pools[s].at - FailTTL[s] - MaxDrift

(* The inductive invariant behind the three.                               *)

\* A verdict is no newer than the probe it rests on, but for the clock.
Justified(cache) ==
    \A n \in Nodes, s \in Services : cache[n][s] # None =>
        LET probed == IF cache[n][s].passed THEN passedAt[s][n] ELSE failedAt[s][n]
        IN probed > 0 /\ cache[n][s].checked <= probed + MaxDrift

CachesAreJustified ==
    /\ Justified(kv) /\ \A document \in late : Justified(document)
    /\ work # None => Justified(work)

GateIsJustified ==
    pc = "sweep" =>
        /\ gate.passes \subseteq inventory /\ gate.failures \subseteq inventory
        /\ \A n \in gate.passes : passedAt[Service][n] > 0
              /\ passedAt[Service][n] >= gate.at - PassTTL[Service] - MaxDrift
        /\ \A n \in gate.failures : failedAt[Service][n] > 0
              /\ failedAt[Service][n] >= gate.at - FailTTL[Service] - MaxDrift

ProbesArePast ==
    /\ time > 0
    /\ pc = "sweep" => gate.at <= time
    /\ \A s \in Services, n \in Nodes : passedAt[s][n] <= time /\ failedAt[s][n] <= time

IInv ==
    /\ TypeOK /\ CachesAreJustified /\ GateIsJustified /\ ProbesArePast
    /\ AdmissionsAreProven /\ ExclusionsAreRecent /\ PublishedPoolsAreProven

\* Recording one service loses no usable verdict of another, unless the
\* entry holds a verdict from the future or the cache is full.
FreshVerdictsSurvive ==
    [][\A s, t \in Services, n \in Nodes :
          /\ pools[s] = None /\ pools'[s] # None /\ s # t
          /\ work # None /\ Usable(work[n][t], t, Clock)
          /\ \A e \in Epochs(work, n) : e <= Clock
          /\ Cardinality(Entries(work) \union inventory) <= MaxRecords
          => work'[n][t] = work[n][t]]_vars

\* A full cache does not give up what it has just recorded for older entries.
RecordedVerdictsSurvive ==
    [][\A s \in Services :
          /\ pools[s] = None /\ pools'[s] # None /\ work # None /\ ~gate.systemic
          /\ Cardinality(Live) <= MaxRecords
          /\ \A m \in Nodes \ Live : \A e \in Epochs(work, m) : e < Clock
          => \A n \in Live : work'[n][s] # None]_vars

\* What the documentation says: under a systemic verdict the qualification
\* writes nothing to the cache (runtime-hardening.md:109).
SystemicWritesNothing ==
    [][\A s \in Services :
          pools[s] = None /\ pools'[s] # None /\ pools'[s].basis # "evidence"
          => work' = work]_vars
=============================================================================
