------------------------ MODULE AiQualificationCache ------------------------
(***************************************************************************)
(* The private cache of service verdicts per node: the pure functions of   *)
(* ai_qualification_cache.py.                                              *)
(*                                                                         *)
(* A node stands for its fingerprint, the keyed digest of its provider and *)
(* its definition: a node that changes in any way is another node here.  A *)
(* service stands for its probe contract, whose digest is part of the key. *)
(* A cache is a total function; a node without verdicts has no entry.      *)
(***************************************************************************)
EXTENDS Integers, FiniteSets

CONSTANTS
    Nodes, Services,
    None,           \* no verdict, no run, nothing published
    PassTTL,        \* lifetime of a passed verdict, per service
    FailTTL,        \* lifetime of a failed one
    MaxAge,         \* _MAX_AGE_SECONDS: an entry older than this is dropped
    MaxRecords      \* _MAX_RECORDS, the capacity in nodes

ASSUME CacheAssumption ==
    /\ PassTTL \in [Services -> Nat] /\ FailTTL \in [Services -> Nat]
    /\ MaxAge \in Nat /\ MaxRecords \in Nat
    /\ None \notin [passed : BOOLEAN, checked : Nat]
    /\ IsFiniteSet(Nodes)

\* What scheduler_policy.py accepts: a failure lives no longer than a pass, and
\* a pass no longer than a day, of the week after which an entry is dropped.
ASSUME LifetimeAssumption ==
    \A s \in Services : FailTTL[s] <= PassTTL[s] /\ PassTTL[s] <= MaxAge

Verdicts == [passed : BOOLEAN, checked : Nat]
Caches == [Nodes -> [Services -> Verdicts \union {None}]]
EmptyCache == [n \in Nodes |-> [s \in Services |-> None]]

\* The nodes of the document, and the times of a node's verdicts.
Entries(cache) == {n \in Nodes : \E s \in Services : cache[n][s] # None}
Epochs(cache, n) == {cache[n][s].checked : s \in {t \in Services : cache[n][t] # None}}
-----------------------------------------------------------------------------
(* cached_service_decisions.                                               *)

\* Mutant of Lifetime: a failure lives as long as a pass.
OneLifetime(v, s) == PassTTL[s]

Lifetime(v, s) == IF v.passed THEN PassTTL[s] ELSE FailTTL[s]

Usable(v, s, clock) ==
    v # None /\ clock - v.checked \in 0 .. Lifetime(v, s)

CachedPasses(cache, names, s, clock) ==
    {n \in names : Usable(cache[n][s], s, clock) /\ cache[n][s].passed}
CachedFailures(cache, names, s, clock) ==
    {n \in names : Usable(cache[n][s], s, clock) /\ ~cache[n][s].passed}
-----------------------------------------------------------------------------
(* update_ai_cache_service.                                                *)

\* Mutant of Current: an entry is as old as its oldest verdict.
CurrentByOldest(cache, clock) ==
    {n \in Entries(cache) : \A e \in Epochs(cache, n) : clock - e \in 0 .. MaxAge}

\* Entries whose newest verdict is neither too old nor from the future.
Current(cache, clock) ==
    {n \in Entries(cache) :
        \E e \in Epochs(cache, n) :
            (\A f \in Epochs(cache, n) : f <= e) /\ e > 0 /\ clock - e \in 0 .. MaxAge}

Restricted(cache, kept) ==
    [n \in Nodes |-> IF n \in kept THEN cache[n] ELSE [s \in Services |-> None]]

\* Mutant of Checked: a verdict is recorded for the node, whatever the service.
CheckedForAll(cache, s, checked, passed, clock) ==
    [n \in Nodes |->
        IF n \in checked
        THEN [t \in Services |-> [passed |-> n \in passed, checked |-> clock]]
        ELSE cache[n]]

Checked(cache, s, checked, passed, clock) ==
    [n \in Nodes |->
        IF n \in checked THEN [cache[n] EXCEPT ![s] = [passed |-> n \in passed, checked |-> clock]]
        ELSE cache[n]]

\* Mutant of Survivors: the entries with the oldest verdicts stay.
SurvivorsByOldest(cache) ==
    LET newer(n, m) == \E e \in Epochs(cache, n) : \A f \in Epochs(cache, m) : e > f
    IN {kept \in SUBSET Entries(cache) :
           \/ Cardinality(Entries(cache)) <= MaxRecords /\ kept = Entries(cache)
           \/ /\ Cardinality(Entries(cache)) > MaxRecords
              /\ Cardinality(kept) = MaxRecords
              /\ \A n \in kept : \A m \in Entries(cache) \ kept : ~newer(n, m)}

\* At capacity the entries with the newest verdicts stay.  Entries equally
\* new are told apart by their position in the document, left open here.
Survivors(cache) ==
    LET newer(n, m) == \E e \in Epochs(cache, n) : \A f \in Epochs(cache, m) : e > f
    IN {kept \in SUBSET Entries(cache) :
           \/ Cardinality(Entries(cache)) <= MaxRecords /\ kept = Entries(cache)
           \/ /\ Cardinality(Entries(cache)) > MaxRecords
              /\ Cardinality(kept) = MaxRecords
              /\ \A n \in kept : \A m \in Entries(cache) \ kept : ~newer(m, n)}

\* The documents the update may leave.
Updates(cache, s, checked, passed, clock) ==
    LET recorded == Checked(Restricted(cache, Current(cache, clock)), s, checked, passed, clock)
    IN {Restricted(recorded, kept) : kept \in Survivors(recorded)}
=============================================================================
