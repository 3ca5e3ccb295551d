--------------------------- MODULE CandidateProofs ---------------------------
(***************************************************************************)
(* Proofs about how a candidate comes to be built and judged: about        *)
(* CandidateBuild and the passes of RuntimeTopology, for any subscriptions,*)
(* rules, pools and live baseline, and any declarations that are made as   *)
(* the manifest makes its own. Pools hold exactly what some source may put *)
(* there, and only what may serve their use; a withdrawn permission alone  *)
(* never blocks a release; and what validates fails no route open.         *)
(*                                                                         *)
(* The last takes most of the module. A fact about Below is one about a    *)
(* least fixed point; what a pass keeps of a graph is one lemma for each   *)
(* pass; and every group offers something by descent through the groups    *)
(* below it.                                                               *)
(***************************************************************************)
EXTENDS CandidateBuild, FiniteSetTheorems, WellFoundedInduction, TLAPS

---------------------------------------------------------------------------
(* The build: what deduplication and selection make of the subscriptions.    *)

LEMMA LeastIndex ==
  ASSUME NEW T, T \subseteq Nat, T # {}
  PROVE  \E i \in T : \A j \in T : i <= j
<1> DEFINE R == OpToRel(<, Nat)
<1>1. IsWellFoundedOn(R, Nat)
  BY NatLessThanWellFounded
<1>2. PICK i \in T : \A j \in T : ~(<<j, i>> \in R)
  BY <1>1, WFMin
<1>3. \A j \in T : ~(j < i)
  BY <1>2 DEF OpToRel
<1> QED
  BY <1>3

\* An occurrence is a proxy that a source, by its own rules, contributes.
OccurrenceOf(o, s, p) ==
  /\ o = Classify(s, p) /\ s \in Sources /\ p \in Admitted(s, payload[s].proxies)

PayloadInv ==
  /\ DOMAIN payload = Sources
  /\ \A s \in Sources : payload[s] \in Payloads[s] \cup {Nothing}

LEMMA Ranks ==
  ASSUME NEW seq, NEW x, \E i \in DOMAIN seq : seq[i] = x
  PROVE  Rank(seq, x) \in DOMAIN seq /\ seq[Rank(seq, x)] = x
BY DEF Rank

LEMMA SourcesRank ==
  /\ \A s \in Sources : Rank(Order, s) \in Nat /\ Order[Rank(Order, s)] = s
  /\ IsFiniteSet(Sources)
<1>1. Order \in Seq(Sources) /\ DOMAIN Order = 1 .. Len(Order) /\ Len(Order) \in Nat
  BY SelectionAssumption
<1>2. ASSUME NEW s \in Sources
      PROVE  Rank(Order, s) \in Nat /\ Order[Rank(Order, s)] = s
  <2>1. \E i \in DOMAIN Order : Order[i] = s
    BY DEF Sources
  <2>2. Rank(Order, s) \in DOMAIN Order /\ Order[Rank(Order, s)] = s
    BY <2>1, Ranks
  <2> QED
    BY <1>1, <2>2
<1>3. IsFiniteSet(Sources)
  <2>1. IsFiniteSet(1 .. Len(Order))
    BY <1>1, FS_Interval
  <2>2. Order \in Surjection(1 .. Len(Order), Sources)
    BY <1>1 DEF Sources, Surjection
  <2> QED
    BY <2>1, <2>2, FS_Surjection
<1> QED
  BY <1>2, <1>3

LEMMA Occurrences ==
  ASSUME PayloadInv, NEW o \in Offered
  PROVE  /\ \E s, p : OccurrenceOf(o, s, p)
         /\ o.source \in Sources /\ o.name \in Nat \cap Names
         /\ Rank(Order, o.source) \in Nat /\ Rank(Countries, o.country) \in Nat
         /\ o = [key |-> o.key, source |-> o.source, name |-> o.name,
                 country |-> Class(o.source, o.name).country, caps |-> Class(o.source, o.name).caps,
                 cost |-> Class(o.source, o.name).cost]
<1>1. PICK s \in Sources : \E p \in Admitted(s, payload[s].proxies) : o = Classify(s, p)
  BY DEF Offered
<1>2. PICK p \in Admitted(s, payload[s].proxies) : o = Classify(s, p)
  BY <1>1
<1>3. p \in payload[s].proxies
  BY DEF Admitted, Affordable, NotDenied, Informative
<1>4. payload[s] \in Payloads[s]
  BY <1>3 DEF PayloadInv, Nothing
<1>5. o.key = p.key /\ o.source = s /\ o.name = p.name /\ o.country = Class(s, p.name).country
  BY <1>2 DEF Classify
<1>6. p.name \in Names /\ Names \subseteq Nat
  BY <1>3, <1>4, BuildAssumption, SelectionAssumption
<1>7. \E i \in DOMAIN Countries : Countries[i] = o.country
  BY <1>3, <1>4, <1>5, SelectionAssumption
<1>8. Rank(Countries, o.country) \in Nat
  BY <1>7, Ranks, SelectionAssumption
<1>9. o = [key |-> o.key, source |-> o.source, name |-> o.name,
           country |-> Class(o.source, o.name).country, caps |-> Class(o.source, o.name).caps,
           cost |-> Class(o.source, o.name).cost]
  BY <1>2, <1>5 DEF Classify
<1> QED
  BY <1>1, <1>2, <1>5, <1>6, <1>8, <1>9, SourcesRank DEF OccurrenceOf

LEMMA PrecedesLexically ==
  ASSUME NEW o, NEW p
  PROVE  Precedes(o, p) <=>
           \/ Rank(Order, o.source) < Rank(Order, p.source)
           \/ /\ Rank(Order, o.source) = Rank(Order, p.source)
              /\ \/ Rank(Countries, o.country) < Rank(Countries, p.country)
                 \/ Rank(Countries, o.country) = Rank(Countries, p.country) /\ o.name < p.name
<1> DEFINE left == <<Rank(Order, o.source), Rank(Countries, o.country), o.name>>
           right == <<Rank(Order, p.source), Rank(Countries, p.country), p.name>>
           at(i) == left[i] < right[i] /\ \A j \in 1 .. i - 1 : left[j] = right[j]
<1>1. Precedes(o, p) <=> at(1) \/ at(2) \/ at(3)
  <2>1. 1 .. 3 = {1, 2, 3}
    OBVIOUS
  <2> QED
    BY <2>1 DEF Precedes
<1>2. 1 .. 1 - 1 = {} /\ 1 .. 2 - 1 = {1} /\ 1 .. 3 - 1 = {1, 2}
  OBVIOUS
<1>3. /\ at(1) <=> left[1] < right[1]
      /\ at(2) <=> left[2] < right[2] /\ left[1] = right[1]
      /\ at(3) <=> left[3] < right[3] /\ left[1] = right[1] /\ left[2] = right[2]
  BY <1>2
<1> HIDE DEF at
<1> QED
  BY <1>1, <1>3

\* Among the occurrences of one node one is first.
LEMMA FirstPrecedes ==
  ASSUME PayloadInv, NEW S \in SUBSET Offered, S # {}, NEW k, \A o \in S : o.key = k
  PROVE  First(S) \in S /\ \A p \in S \ {First(S)} : Precedes(First(S), p)
<1> DEFINE A == {Rank(Order, o.source) : o \in S}
<1>1. A \subseteq Nat /\ A # {}
  BY Occurrences
<1>2. PICK a \in S : \A o \in S : Rank(Order, a.source) <= Rank(Order, o.source)
  <2>1. PICK i \in A : \A j \in A : i <= j
    BY <1>1, LeastIndex
  <2> QED
    BY <2>1
<1> DEFINE T == {o \in S : Rank(Order, o.source) = Rank(Order, a.source)}
           B == {Rank(Countries, o.country) : o \in T}
<1>3. B \subseteq Nat /\ B # {}
  BY Occurrences
<1>4. PICK b \in T : \A o \in T : Rank(Countries, b.country) <= Rank(Countries, o.country)
  <2>1. PICK i \in B : \A j \in B : i <= j
    BY <1>3, LeastIndex
  <2> QED
    BY <2>1
<1> DEFINE U == {o \in T : Rank(Countries, o.country) = Rank(Countries, b.country)}
           C == {o.name : o \in U}
<1>5. C \subseteq Nat /\ C # {}
  BY Occurrences
<1>6. PICK c \in U : \A o \in U : c.name <= o.name
  <2>1. PICK i \in C : \A j \in C : i <= j
    BY <1>5, LeastIndex
  <2> QED
    BY <2>1
<1>7. ASSUME NEW p \in S \ {c}
      PROVE  Precedes(c, p)
  <2>1. /\ Rank(Order, c.source) \in Nat /\ Rank(Order, p.source) \in Nat
        /\ Rank(Countries, c.country) \in Nat /\ Rank(Countries, p.country) \in Nat
        /\ c.name \in Nat /\ p.name \in Nat /\ c.source \in Sources /\ p.source \in Sources
    BY Occurrences
  <2>2. /\ Rank(Order, c.source) = Rank(Order, a.source)
        /\ Rank(Countries, c.country) = Rank(Countries, b.country)
    OBVIOUS
  <2>3. CASE p \notin T
    BY <1>2, <2>1, <2>2, <2>3, PrecedesLexically
  <2>4. CASE p \in T \ U
    BY <1>4, <2>1, <2>2, <2>4, PrecedesLexically
  <2>5. CASE p \in U
    <3>1. p.name # c.name
      <4> SUFFICES ASSUME p.name = c.name PROVE p = c
        OBVIOUS
      <4>1. p.source = c.source
        BY <2>1, <2>5, SourcesRank
      <4>2. p.key = c.key
        OBVIOUS
      <4> QED
        BY <4>1, <4>2, Occurrences
    <3> QED
      BY <1>6, <2>1, <2>2, <2>5, <3>1, PrecedesLexically
  <2> QED
    BY <2>3, <2>4, <2>5
<1>8. \E o \in S : \A p \in S \ {o} : Precedes(o, p)
  BY <1>7
<1> QED
  BY <1>8 DEF First

\* Which of a source's proxies may enter a pool in a region, by key.
Fitting(s, unit, r) ==
  {p.key : p \in {p \in Admitted(s, payload[s].proxies) : Eligible(Classify(s, p), unit, r)}}

\* Selection takes a node from the first source that may offer it.
LEMMA SelectionIsExact ==
  ASSUME PayloadInv, NEW unit, NEW r
  PROVE  LET pool == SelectNodes(Deduplicated(Offered), unit, r)
         IN  /\ pool \subseteq Offered
             /\ {<<n.key, n.source>> : n \in pool} =
                  UNION {{<<k, s>> : k \in Fitting(s, unit, r) \
                            UNION {Fitting(t, unit, r) : t \in {t \in Sources : Rank(Order, t) < Rank(Order, s)}}} :
                         s \in Sources}
<1> DEFINE nodesOf == Deduplicated(Offered)
           fit(k) == {o \in nodesOf[k] : Eligible(o, unit, r)}
           fits(k) == {o \in Offered : o.key = k /\ Eligible(o, unit, r)}
           pool == SelectNodes(nodesOf, unit, r)
           earlier(s) == UNION {Fitting(t, unit, r) : t \in {t \in Sources : Rank(Order, t) < Rank(Order, s)}}
<1>1. pool = {First(fits(k)) : k \in {k \in Keys(Offered) : fits(k) # {}}}
  <2>1. DOMAIN nodesOf = Keys(Offered) /\ \A k \in Keys(Offered) : fit(k) = fits(k)
    BY DEF Deduplicated
  <2> HIDE DEF nodesOf
  <2>2. pool = {First(fit(k)) : k \in {k \in DOMAIN nodesOf : fit(k) # {}}}
    BY DEF SelectNodes
  <2> HIDE DEF fit, fits, pool
  <2> QED
    BY <2>1, <2>2
<1>2. ASSUME NEW k, fits(k) # {}
      PROVE  First(fits(k)) \in fits(k) /\ \A p \in fits(k) \ {First(fits(k))} : Precedes(First(fits(k)), p)
  BY <1>2, FirstPrecedes
<1>3. ASSUME NEW k, NEW s \in Sources
      PROVE  k \in Fitting(s, unit, r) <=> \E o \in fits(k) : o.source = s
  <2>1. ASSUME k \in Fitting(s, unit, r)
        PROVE  \E o \in fits(k) : o.source = s
    <3>1. PICK p \in Admitted(s, payload[s].proxies) : p.key = k /\ Eligible(Classify(s, p), unit, r)
      BY <2>1 DEF Fitting
    <3>2. Classify(s, p) \in Offered
      BY DEF Offered
    <3>3. Classify(s, p).key = k /\ Classify(s, p).source = s
      BY <3>1 DEF Classify
    <3> QED
      BY <3>1, <3>2, <3>3
  <2>2. ASSUME NEW o \in fits(k), o.source = s
        PROVE  k \in Fitting(s, unit, r)
    <3>1. PICK t, p : OccurrenceOf(o, t, p)
      BY Occurrences
    <3>2. o = Classify(t, p) /\ p \in Admitted(t, payload[t].proxies)
      BY <3>1 DEF OccurrenceOf
    <3>3. t = s /\ p.key = k
      BY <2>2, <3>2 DEF Classify
    <3> QED
      BY <3>2, <3>3 DEF Fitting
  <2> QED
    BY <2>1, <2>2
<1> HIDE DEF fits, fit, nodesOf
<1>4. ASSUME NEW k, fits(k) # {}
      PROVE  /\ First(fits(k)).key = k /\ First(fits(k)) \in Offered
             /\ k \in Fitting(First(fits(k)).source, unit, r)
             /\ First(fits(k)).source \in Sources
  <2>1. First(fits(k)) \in fits(k)
    BY <1>2, <1>4
  <2>2. First(fits(k)) \in Offered /\ First(fits(k)).key = k
    BY <2>1 DEF fits
  <2>3. First(fits(k)).source \in Sources
    BY <2>2, Occurrences
  <2> QED
    BY <1>3, <2>1, <2>2, <2>3
<1>5. pool \subseteq Offered
  BY <1>1, <1>4
<1>6. ASSUME NEW k, fits(k) # {}
      PROVE  k \notin earlier(First(fits(k)).source)
  <2> SUFFICES ASSUME NEW t \in Sources, Rank(Order, t) < Rank(Order, First(fits(k)).source),
                      k \in Fitting(t, unit, r)
               PROVE  FALSE
    OBVIOUS
  <2>1. PICK o \in fits(k) : o.source = t
    BY <1>3
  <2>2. First(fits(k)).source \in Sources
    BY <1>4, <1>6
  <2>3. /\ Rank(Order, o.source) \in Nat /\ Rank(Order, First(fits(k)).source) \in Nat
        /\ Rank(Order, o.source) < Rank(Order, First(fits(k)).source)
    BY <2>1, <2>2, SourcesRank
  <2>4. Precedes(First(fits(k)), o)
    BY <1>2, <1>6, <2>3
  <2> QED
    BY <2>3, <2>4, PrecedesLexically
<1>7. ASSUME NEW s \in Sources, NEW k \in Fitting(s, unit, r), k \notin earlier(s)
      PROVE  fits(k) # {} /\ k \in Keys(Offered) /\ First(fits(k)).source = s
  <2>1. PICK o \in fits(k) : o.source = s
    BY <1>3
  <2>2. o \in Offered /\ o.key = k
    BY <2>1 DEF fits
  <2>3. k \in Keys(Offered)
    BY <2>2 DEF Keys
  <2>4. First(fits(k)).source \in Sources /\ k \in Fitting(First(fits(k)).source, unit, r)
    BY <1>4, <2>1
  <2>5. ~(Rank(Order, First(fits(k)).source) < Rank(Order, s))
    BY <1>7, <2>4
  <2>6. CASE o = First(fits(k))
    BY <2>1, <2>3, <2>6
  <2>7. CASE o # First(fits(k))
    <3>1. Precedes(First(fits(k)), o)
      BY <1>2, <2>1, <2>7
    <3>2. Rank(Order, First(fits(k)).source) \in Nat /\ Rank(Order, s) \in Nat
      BY <2>4, SourcesRank
    <3>3. Rank(Order, First(fits(k)).source) = Rank(Order, s)
      BY <2>1, <2>5, <3>1, <3>2, PrecedesLexically
    <3>4. First(fits(k)).source = s
      BY <2>4, <3>3, SourcesRank
    <3> QED
      BY <2>1, <2>3, <3>4
  <2> QED
    BY <2>6, <2>7
<1> HIDE DEF pool, earlier
<1>8. ASSUME NEW n \in pool
      PROVE  <<n.key, n.source>> \in UNION {{<<k, s>> : k \in Fitting(s, unit, r) \ earlier(s)} : s \in Sources}
  <2>1. PICK k \in Keys(Offered) : fits(k) # {} /\ n = First(fits(k))
    BY <1>1
  <2> QED
    BY <1>4, <1>6, <2>1
<1>9. ASSUME NEW s \in Sources, NEW k \in Fitting(s, unit, r) \ earlier(s)
      PROVE  <<k, s>> \in {<<n.key, n.source>> : n \in pool}
  <2>1. fits(k) # {} /\ k \in Keys(Offered) /\ First(fits(k)).source = s
    BY <1>7
  <2>2. First(fits(k)) \in pool /\ First(fits(k)).key = k
    BY <1>1, <1>4, <2>1
  <2> QED
    BY <2>1, <2>2
<1>10. {<<n.key, n.source>> : n \in pool} =
         UNION {{<<k, s>> : k \in Fitting(s, unit, r) \ earlier(s)} : s \in Sources}
  BY <1>8, <1>9
<1> QED
  BY <1>5, <1>10 DEF pool, earlier, nodesOf

---------------------------------------------------------------------------
(* The build: what the passes and the stages keep of it.                     *)

GraphFields == {"providers", "groups", "routes", "anchors"}

LEMMA ProvidersAreSelected ==
  ASSUME NEW kept
  PROVE  LET made == Generated(kept).providers
         IN  /\ \A i \in DOMAIN Pools : \A r \in Filled(Pools[i], kept) :
                  /\ <<Pools[i].id, r>> \in DOMAIN made
                  /\ made[<<Pools[i].id, r>>] = SelectNodes(kept, Pools[i], r)
             /\ \A x \in DOMAIN made : \E i \in DOMAIN Pools : \E r \in Filled(Pools[i], kept) :
                  x = <<Pools[i].id, r>>
<1> DEFINE maps == {PoolProviders(pool, kept) : pool \in EnabledPools}
           made == Merged(maps)
<1>1. Generated(kept).providers = made
  BY DEF Generated
<1>2. ASSUME NEW pool \in EnabledPools
      PROVE  /\ DOMAIN PoolProviders(pool, kept) = {<<pool.id, r>> : r \in Filled(pool, kept)}
             /\ \A r \in Filled(pool, kept) :
                  PoolProviders(pool, kept)[<<pool.id, r>>] = SelectNodes(kept, pool, r)
  BY DEF PoolProviders
<1>3. \A p, q \in EnabledPools : p.id = q.id => p = q
  BY PoolsAssumption DEF EnabledPools
<1>4. /\ DOMAIN made = UNION {DOMAIN m : m \in maps}
      /\ \A x \in DOMAIN made : made[x] = (CHOOSE m \in maps : x \in DOMAIN m)[x]
  BY DEF Merged
<1> HIDE DEF made
<1>5. ASSUME NEW pool \in EnabledPools, NEW r \in Filled(pool, kept)
      PROVE  <<pool.id, r>> \in DOMAIN made /\ made[<<pool.id, r>>] = SelectNodes(kept, pool, r)
  <2> DEFINE x == <<pool.id, r>>
  <2>1. PoolProviders(pool, kept) \in maps /\ x \in DOMAIN PoolProviders(pool, kept)
    BY <1>2
  <2>2. ASSUME NEW m \in maps, x \in DOMAIN m
        PROVE  m = PoolProviders(pool, kept)
    <3>1. PICK other \in EnabledPools : m = PoolProviders(other, kept)
      OBVIOUS
    <3>2. x \in {<<other.id, q>> : q \in Filled(other, kept)}
      BY <1>2, <2>2, <3>1
    <3>3. PICK q \in Filled(other, kept) : <<pool.id, r>> = <<other.id, q>>
      BY <3>2
    <3>4. other.id = pool.id
      BY <3>3
    <3> QED
      BY <1>3, <3>1, <3>4
  <2> HIDE DEF maps
  <2>3. (CHOOSE m \in maps : x \in DOMAIN m) = PoolProviders(pool, kept)
    BY <2>1, <2>2
  <2> QED
    BY <1>2, <1>4, <2>1, <2>3
<1>6. ASSUME NEW x \in DOMAIN made
      PROVE  \E pool \in EnabledPools : \E r \in Filled(pool, kept) : x = <<pool.id, r>>
  <2>1. PICK pool \in EnabledPools : x \in DOMAIN PoolProviders(pool, kept)
    BY <1>4
  <2>2. x \in {<<pool.id, r>> : r \in Filled(pool, kept)}
    BY <1>2, <2>1
  <2> QED
    BY <2>2
<1> QED
  BY <1>1, <1>5, <1>6 DEF EnabledPools

LEMMA PassesKeepProviders ==
  ASSUME NEW g, DOMAIN g = GraphFields
  PROVE  \A h \in {GroupSemantics(g), SourceExclusions(g), ExposeProviders(g), HardenBrowsing(g)} :
           DOMAIN h = GraphFields /\ h.providers = g.providers
<1> USE DEF GraphFields
<1>1. DOMAIN GroupSemantics(g) = GraphFields /\ GroupSemantics(g).providers = g.providers
  BY DEF GroupSemantics
<1>2. DOMAIN SourceExclusions(g) = GraphFields /\ SourceExclusions(g).providers = g.providers
  BY DEF SourceExclusions
<1>3. DOMAIN ExposeProviders(g) = GraphFields /\ ExposeProviders(g).providers = g.providers
  BY DEF ExposeProviders
<1>4. DOMAIN HardenBrowsing(g) = GraphFields /\ HardenBrowsing(g).providers = g.providers
  BY DEF HardenBrowsing
<1> QED
  BY <1>1, <1>2, <1>3, <1>4

Compiling == {"generated", "typed", "filtered", "exposed", "compiled", "valid", "built",
              "qualified", "assessed"}

\* Until the guard, a build only follows from what was taken.
BuildInv ==
  /\ PayloadInv
  /\ stage \in Compiling \cup {"deduplicated"} => nodes = Deduplicated(Offered)
  /\ stage \in Compiling => /\ DOMAIN graph = GraphFields
                            /\ graph.providers = Generated(Deduplicated(Offered)).providers
  /\ stage = "built" => providers = graph.providers
  /\ stage \in {"qualified", "assessed"} =>
       \A x \in DOMAIN providers : x \in DOMAIN graph.providers /\ providers[x] \subseteq graph.providers[x]
  /\ stage # "assessed" => live = {}
  /\ \A b, c \in live : b = c
  /\ stage = "assessed" => \E reported \in Evidence : verdict = Assessed(providers, live, reported)

LEMMA BuildSteps ==
  ASSUME BuildInv, BuildNext
  PROVE  BuildInv'
<1>0. payload' = payload => Offered' = Offered /\ Deduplicated(Offered') = Deduplicated(Offered)
  BY DEF Offered
<1> USE DEF BuildInv
<1>1. CASE Fetching
  BY <1>0, <1>1 DEF Fetching, PayloadInv, Compiling
<1>2. CASE Take
  BY <1>2 DEF Take, PayloadInv, Compiling
<1>3. ASSUME Fails, stage # "assessed"
      PROVE  BuildInv'
  BY <1>0, <1>3 DEF Fails, PayloadInv, Compiling
<1>4. CASE Aborts
  BY <1>3, <1>4 DEF Aborts
<1>5. CASE Deduplicate
  <2>1. (Fails /\ stage # "assessed") \/ ~Fails
    BY <1>5 DEF Deduplicate
  <2>2. ASSUME ~Fails PROVE BuildInv'
    BY <1>0, <1>5, <2>2 DEF Deduplicate, PayloadInv, Compiling
  <2> QED
    BY <1>3, <2>1, <2>2
<1>6. CASE Generate
  <2>1. (Fails /\ stage # "assessed") \/ ~Fails
    BY <1>6 DEF Generate
  <2>2. ASSUME ~Fails PROVE BuildInv'
    <3>1. /\ stage = "deduplicated" /\ stage' = "generated" /\ graph' = Generated(nodes)
          /\ UNCHANGED <<payload, nodes, providers, live, verdict>>
      BY <1>6, <2>2 DEF Generate
    <3>2. DOMAIN Generated(nodes) = GraphFields
      BY DEF Generated, GraphFields
    <3> QED
      BY <1>0, <3>1, <3>2 DEF PayloadInv, Compiling
  <2> QED
    BY <1>3, <2>1, <2>2
<1>7. ASSUME NEW from \in Compiling \ {"built", "qualified", "assessed"}, NEW refused, NEW compiled,
             NEW to \in Compiling \ {"built", "qualified", "assessed"},
             Pass(from, refused, compiled, to),
             DOMAIN graph = GraphFields => DOMAIN compiled = GraphFields /\ compiled.providers = graph.providers
      PROVE  BuildInv'
  <2>1. (Fails /\ stage # "assessed") \/ ~Fails
    BY <1>7 DEF Pass
  <2>2. ASSUME ~Fails PROVE BuildInv'
    <3>1. /\ stage = from /\ stage' = to /\ graph' = compiled
          /\ UNCHANGED <<payload, nodes, providers, live, verdict>>
      BY <1>7, <2>2 DEF Pass
    <3> QED
      BY <1>0, <1>7, <3>1 DEF PayloadInv, Compiling
  <2> QED
    BY <1>3, <2>1, <2>2
<1>8. CASE ApplyGroupSemantics \/ ApplyExclusions \/ Expose \/ HardenBrowsingRuntime \/ Validate
  BY <1>7, <1>8, PassesKeepProviders
     DEF ApplyGroupSemantics, ApplyExclusions, Expose, HardenBrowsingRuntime, Validate, Compiling
<1>9. CASE Audit
  <2>1. (Fails /\ stage # "assessed") \/ ~Fails
    BY <1>9 DEF Audit
  <2>2. ASSUME ~Fails PROVE BuildInv'
    BY <1>0, <1>9, <2>2 DEF Audit, PayloadInv, Compiling
  <2> QED
    BY <1>3, <2>1, <2>2
<1>10. CASE Qualify
  BY <1>0, <1>10 DEF Qualify, PayloadInv, Compiling
<1>11. CASE Guard
  BY <1>0, <1>11 DEF Guard, PayloadInv, Compiling
<1> QED
  BY <1>1, <1>2, <1>4, <1>5, <1>6, <1>8, <1>9, <1>10, <1>11 DEF BuildNext

\* Until the guard's verdict, a candidate follows from what the build took
\* (build_candidate, compile_runtime_graph).
THEOREM BuildInvariant == BuildSpec => []BuildInv
<1>1. BuildInit => BuildInv
  BY DEF BuildInit, BuildInv, PayloadInv, Compiling, Nothing
<1>2. BuildInv /\ [BuildNext]_buildVars => BuildInv'
  <2> SUFFICES ASSUME BuildInv, [BuildNext]_buildVars PROVE BuildInv'
    OBVIOUS
  <2>1. CASE UNCHANGED buildVars
    BY <2>1 DEF buildVars, BuildInv, PayloadInv, Offered
  <2> QED
    BY <2>1, BuildSteps
<1> QED
  BY <1>1, <1>2, PTL DEF BuildSpec

\* select_nodes, deduplicate_nodes: a pool holds each node some source may put there,
\* attributed to the first such source, and no other, whoever else offers it.
THEOREM PoolsAlwaysExact == BuildSpec => []PoolsAreExact
<1>1. ASSUME BuildInv, stage \in {"compiled", "valid", "built"}, NEW i \in DOMAIN Pools, NEW r \in Pools[i].regions
      PROVE  LET pool == IF <<Pools[i].id, r>> \in DOMAIN graph.providers THEN graph.providers[<<Pools[i].id, r>>] ELSE {}
             IN  pool = SelectNodes(Deduplicated(Offered), Pools[i], r)
  <2> DEFINE kept == Deduplicated(Offered)
             made == graph.providers
             x == <<Pools[i].id, r>>
  <2>1. made = Generated(kept).providers
    BY <1>1 DEF BuildInv, Compiling
  <2>2. CASE r \in Filled(Pools[i], kept)
    BY <2>1, <2>2, ProvidersAreSelected
  <2>3. CASE r \notin Filled(Pools[i], kept)
    <3>1. SelectNodes(kept, Pools[i], r) = {}
      BY <1>1, <2>3 DEF Filled
    <3>2. x \notin DOMAIN made
      <4> SUFFICES ASSUME x \in DOMAIN made PROVE FALSE
        OBVIOUS
      <4>1. PICK j \in DOMAIN Pools : \E q \in Filled(Pools[j], kept) : x = <<Pools[j].id, q>>
        BY <2>1, ProvidersAreSelected
      <4>2. j = i /\ r \in Filled(Pools[j], kept)
        BY <4>1, PoolsAssumption
      <4> QED
        BY <2>3, <4>2
    <3> QED
      BY <3>1, <3>2
  <2> QED
    BY <2>2, <2>3
<1>2. BuildInv => PoolsAreExact
  <2> SUFFICES ASSUME BuildInv, stage \in {"compiled", "valid", "built"},
                      NEW i \in DOMAIN Pools, NEW r \in Pools[i].regions
               PROVE  LET fits(s) == Fitting(s, Pools[i], r)
                          pool == IF <<Pools[i].id, r>> \in DOMAIN graph.providers THEN graph.providers[<<Pools[i].id, r>>] ELSE {}
                      IN  {<<n.key, n.source>> : n \in pool} =
                            UNION {{<<k, s>> : k \in fits(s) \ UNION {fits(t) : t \in {t \in Sources : Rank(Order, t) < Rank(Order, s)}}} : s \in Sources}
    BY DEF PoolsAreExact, Fitting
  <2> QED
    BY <1>1, SelectionIsExact DEF BuildInv
<1> QED
  BY <1>2, BuildInvariant, PTL

\* Only a ratio of sources blocks for one, and only when it collapsed.
LEMMA SourceRatioBlocks ==
  ASSUME NEW candidate, NEW baseline, NEW reported, NEW u,
         <<"source_ratio", u>> \in Assessed(candidate, baseline, reported).violations
  PROVE  u \in Uses /\ \E b \in baseline :
           Collapsed(Inventory(candidate).sources[u], BaselineInventory(b).sources[u], GuardPolicy.floor)
<1> DEFINE current == Inventory(candidate)
           counted(b) == RatioViolations(current, BaselineInventory(b), GuardPolicy.floor)
           what == <<"source_ratio", u>>
<1>1. what \in (AbsoluteViolations(current) \cup ServiceViolations(reported)
                \cup {<<"probe_environment_hold", s>> : s \in Held(reported)})
               \cup (IF baseline = {} THEN {} ELSE UNION {counted(b) : b \in baseline})
  BY DEF Assessed
<1>2. what \notin AbsoluteViolations(current)
  BY DEF AbsoluteViolations, Short
<1>3. what \notin ServiceViolations(reported) /\ what \notin {<<"probe_environment_hold", s>> : s \in Held(reported)}
  BY DEF ServiceViolations
<1>4. PICK b \in baseline : what \in counted(b)
  BY <1>1, <1>2, <1>3
<1> DEFINE promoted == BaselineInventory(b)
<1>5. what \in UNION {IF Collapsed(current.sources[v], promoted.sources[v], GuardPolicy.floor)
                      THEN {<<"source_ratio", v>>} ELSE {} : v \in Uses}
  BY <1>4 DEF RatioViolations
<1>6. PICK v \in Uses : what \in IF Collapsed(current.sources[v], promoted.sources[v], GuardPolicy.floor)
                                 THEN {<<"source_ratio", v>>} ELSE {}
  BY <1>5
<1>7. v = u /\ Collapsed(current.sources[v], promoted.sources[v], GuardPolicy.floor)
  BY <1>6
<1> QED
  BY <1>4, <1>7

\* Every source a candidate holds is an enabled one.
LEMMA CandidateSources ==
  ASSUME BuildInv, stage = "assessed", NEW u \in Uses
  PROVE  Inventory(providers).sources[u] \subseteq Sources
<1>1. \A x \in DOMAIN providers : \E i \in DOMAIN Pools : \E r :
         providers[x] \subseteq SelectNodes(Deduplicated(Offered), Pools[i], r)
  BY ProvidersAreSelected DEF BuildInv, Compiling
<1>2. \A x \in DOMAIN providers : \A n \in providers[x] : n.source \in Sources
  BY <1>1, SelectionIsExact, Occurrences DEF BuildInv
<1>3. Inventory(providers).sources[u] = UNION {{n.source : n \in providers[x]} : x \in Shards(providers, u)}
  BY DEF Inventory
<1> QED
  BY <1>2, <1>3 DEF Shards

\* assess_promotion: withdrawing permissions does not block a release that still
\* has every source that may serve a use.
THEOREM RevokedSourcesNeverBlock == BuildSpec => []RevokedSourcesDoNotBlock
<1>1. ASSUME BuildInv, NEW u \in Uses, NEW b \in live, <<"source_ratio", u>> \in verdict.violations,
             {s \in Inventory(b).sources[u] : Spec[s].uses \cap {"*", u} # {}} \subseteq Inventory(providers).sources[u]
      PROVE  FALSE
  <2> DEFINE current    == Inventory(providers).sources[u]
             promoted == BaselineInventory(b).sources[u]
  <2>1. stage = "assessed" /\ \E reported \in Evidence : verdict = Assessed(providers, live, reported)
    BY <1>1 DEF BuildInv
  <2>2. \E c \in live : Collapsed(current, BaselineInventory(c).sources[u], GuardPolicy.floor)
    BY <1>1, <2>1, SourceRatioBlocks
  <2>3. Collapsed(current, promoted, GuardPolicy.floor)
    BY <1>1, <2>2 DEF BuildInv
  <2>4. promoted = Inventory(b).sources[u] \cap Authorized(u)
    BY DEF BaselineInventory, Inventory
  <2>5. promoted \subseteq current
    BY <1>1, <2>4 DEF Authorized
  <2>6. IsFiniteSet(current)
    BY <1>1, <2>1, CandidateSources, SourcesRank, FS_Subset
  <2> HIDE DEF current, promoted
  <2>7. Cardinality(current) \in Nat /\ Cardinality(promoted) \in Nat /\ Cardinality(promoted) <= Cardinality(current)
    BY <2>5, <2>6, FS_Subset, FS_CardinalityType
  <2>8. Cardinality(current) * GuardPolicy.floor[2] < Cardinality(promoted) * GuardPolicy.floor[1]
    BY <2>3 DEF Collapsed
  <2>9. \A m, n, f, g \in Nat : m <= n /\ f <= g => m * f <= n * g
    <3> SUFFICES ASSUME NEW m \in Nat, NEW n \in Nat, NEW f \in Nat, NEW g \in Nat, m <= n, f <= g
                 PROVE  m * f <= n * g
      OBVIOUS
    <3>1. m * f <= n * f
      OBVIOUS
    <3>2. n * f <= n * g
      OBVIOUS
    <3> QED
      BY <3>1, <3>2
  <2>10. Cardinality(promoted) * GuardPolicy.floor[1] <= Cardinality(current) * GuardPolicy.floor[2]
    BY <2>7, <2>9, GuardAssumption
  <2>11. \A m, n, f, g \in Nat : ~(m * f <= n * g /\ n * g < m * f)
    OBVIOUS
  <2> QED
    BY <2>7, <2>8, <2>10, <2>11, GuardAssumption
<1>2. \A p, u : u \in Uses =>
        Inventory(p).sources[u] = {n.source : n \in UNION {p[x] : x \in Shards(p, u)}}
  BY DEF Inventory
<1>3. BuildInv => RevokedSourcesDoNotBlock
  <2> SUFFICES ASSUME BuildInv, NEW u \in Uses, NEW b \in live, <<"source_ratio", u>> \in verdict.violations,
                      {s \in {n.source : n \in UNION {b[x] : x \in Shards(b, u)}} : Spec[s].uses \cap {"*", u} # {}}
                         \subseteq {n.source : n \in UNION {providers[x] : x \in Shards(providers, u)}}
               PROVE  FALSE
    BY DEF RevokedSourcesDoNotBlock
  <2> QED
    BY <1>1, <1>2
<1> QED
  BY <1>3, BuildInvariant, PTL

---------------------------------------------------------------------------
(* The graph: iteration to a fixed point, from below.                        *)

LEMMA SetInduction ==
  ASSUME NEW T, 0 \in T, \A i \in Nat : i \in T => i + 1 \in T
  PROVE  Nat \subseteq T
<1> SUFFICES ASSUME Nat \ T # {} PROVE FALSE
  OBVIOUS
<1>1. PICK i \in Nat \ T : \A j \in Nat \ T : i <= j
  BY LeastIndex
<1>2. i - 1 \in Nat /\ i - 1 \in T
  BY <1>1
<1> QED
  BY <1>1, <1>2

\* A step on the subsets of a set can be iterated.
Iterable(D, start, next) == start \in SUBSET D /\ next \in [SUBSET D -> SUBSET D]
Iteration(D, start, next, f) ==
  f \in [Nat -> SUBSET D] /\ f[0] = start /\ \A i \in Nat : f[i + 1] = next[f[i]]

LEMMA Iterates ==
  ASSUME NEW D, NEW start, NEW next, Iterable(D, start, next)
  PROVE  \E f : Iteration(D, start, next, f)
<1> USE DEF Iterable
<1> DEFINE Upto(f, n) == /\ f \in [0 .. n -> SUBSET D] /\ f[0] = start
                         /\ \A i \in 0 .. n - 1 : f[i + 1] = next[f[i]]
           T == {n \in Nat : \E f \in [0 .. n -> SUBSET D] : Upto(f, n)}
<1>1. Nat \subseteq T
  <2>1. 0 \in T
    <3>1. Upto([i \in 0 .. 0 |-> start], 0)
      OBVIOUS
    <3> QED
      BY <3>1
  <2>2. ASSUME NEW n \in Nat, n \in T PROVE n + 1 \in T
    <3>1. PICK f : Upto(f, n)
      BY <2>2
    <3> DEFINE h == [i \in 0 .. n + 1 |-> IF i = n + 1 THEN next[f[n]] ELSE f[i]]
    <3>2. f[n] \in SUBSET D
      BY <3>1
    <3>3. h \in [0 .. n + 1 -> SUBSET D]
      <4> SUFFICES ASSUME NEW i \in 0 .. n + 1 PROVE h[i] \in SUBSET D
        OBVIOUS
      <4>1. CASE i = n + 1
        BY <3>2, <4>1
      <4>2. CASE i # n + 1
        BY <3>1, <4>2
      <4> QED
        BY <4>1, <4>2
    <3>4. h[0] = start
      BY <3>1
    <3>5. ASSUME NEW i \in 0 .. n PROVE h[i + 1] = next[h[i]]
      <4>1. h[i] = f[i]
        OBVIOUS
      <4>2. CASE i = n
        BY <4>1, <4>2
      <4>3. CASE i # n
        BY <3>1, <4>1, <4>3
      <4> QED
        BY <4>2, <4>3
    <3> HIDE DEF h
    <3>6. Upto(h, n + 1)
      BY <3>3, <3>4, <3>5
    <3> QED
      BY <3>6
  <2> HIDE DEF T
  <2> QED
    BY <2>1, <2>2, SetInduction
<1> DEFINE F(n) == CHOOSE f : Upto(f, n)
<1>2. \A n \in Nat : Upto(F(n), n)
  BY <1>1
<1> HIDE DEF F
<1>3. ASSUME NEW n \in Nat PROVE F(n + 1)[n] = F(n)[n]
  <2> DEFINE S == {i \in Nat : i <= n => F(n + 1)[i] = F(n)[i]}
  <2>1. 0 \in S
    BY <1>2
  <2>2. ASSUME NEW i \in Nat, i \in S PROVE i + 1 \in S
    <3> SUFFICES ASSUME i + 1 <= n PROVE F(n + 1)[i + 1] = F(n)[i + 1]
      OBVIOUS
    <3>1. i \in 0 .. n - 1 /\ i \in 0 .. n /\ i \in 0 .. n + 1 - 1 /\ F(n + 1)[i] = F(n)[i]
      BY <2>2
    <3>2. F(n)[i + 1] = next[F(n)[i]]
      BY <1>2, <3>1
    <3>3. F(n + 1)[i + 1] = next[F(n + 1)[i]]
      BY <1>2, <3>1
    <3> QED
      BY <3>1, <3>2, <3>3
  <2>3. Nat \subseteq S
    <3> HIDE DEF S
    <3> QED
      BY <2>1, <2>2, SetInduction
  <2> QED
    BY <2>3
<1> DEFINE f == [n \in Nat |-> F(n)[n]]
<1>4. f \in [Nat -> SUBSET D]
  <2> SUFFICES ASSUME NEW n \in Nat PROVE F(n)[n] \in SUBSET D
    OBVIOUS
  <2>1. Upto(F(n), n)
    BY <1>2
  <2> QED
    BY <2>1
<1>5. f[0] = start
  BY <1>2
<1>6. ASSUME NEW i \in Nat PROVE f[i + 1] = next[f[i]]
  <2>1. Upto(F(i + 1), i + 1) /\ i \in 0 .. i + 1 - 1
    BY <1>2
  <2>2. F(i + 1)[i + 1] = next[F(i + 1)[i]]
    BY <2>1
  <2> HIDE DEF Upto
  <2> QED
    BY <1>3, <2>2
<1> HIDE DEF f
<1> QED
  BY <1>4, <1>5, <1>6 DEF Iteration

\* Iterated from below, a step that only adds and stays within a finite set
\* reaches a fixed point within its size, the least one.
Growing(D, f) ==
  /\ f \in [Nat -> SUBSET D]
  /\ \A i \in Nat : f[i] \subseteq f[i + 1] /\ (f[i + 1] = f[i] => f[i + 2] = f[i + 1])

LEMMA Stabilizes ==
  ASSUME NEW D, IsFiniteSet(D), NEW f, Growing(D, f)
  PROVE  f[Cardinality(D) + 1] = f[Cardinality(D)]
<1> USE DEF Growing
<1> DEFINE last == Cardinality(D)
<1>1. last \in Nat
  BY FS_CardinalityType
<1>2. ASSUME NEW i \in Nat
      PROVE  IsFiniteSet(f[i]) /\ Cardinality(f[i]) \in Nat /\ Cardinality(f[i]) <= last
  BY FS_Subset, FS_CardinalityType
<1> DEFINE T == {i \in Nat : f[i + 1] = f[i] \/ Cardinality(f[i]) >= i}
<1>3. 0 \in T
  BY <1>2
<1>4. ASSUME NEW i \in Nat, i \in T PROVE i + 1 \in T
  <2>1. CASE f[i + 1] = f[i]
    <3>1. f[(i + 1) + 1] = f[i + 1]
      BY <2>1
    <3> QED
      BY <3>1
  <2>2. CASE f[i + 1] # f[i]
    <3>1. Cardinality(f[i]) >= i
      BY <1>4, <2>2
    <3>2. f[i] \subseteq f[i + 1] /\ i + 1 \in Nat
      OBVIOUS
    <3>3. Cardinality(f[i]) < Cardinality(f[i + 1])
      <4>1. IsFiniteSet(f[i + 1]) /\ f[i] \in SUBSET f[i + 1]
        BY <1>2, <3>2
      <4>2. Cardinality(f[i]) <= Cardinality(f[i + 1]) /\ Cardinality(f[i + 1]) # Cardinality(f[i])
        BY <2>2, <4>1, FS_Subset
      <4> QED
        BY <1>2, <3>2, <4>2
    <3> QED
      BY <1>2, <3>1, <3>2, <3>3
  <2> QED
    BY <2>1, <2>2
<1>5. Nat \subseteq T
  <2> HIDE DEF T
  <2> QED
    BY <1>3, <1>4, SetInduction
<1> SUFFICES ASSUME f[last + 1] # f[last] PROVE FALSE
  OBVIOUS
<1>6. Cardinality(f[last]) >= last
  BY <1>1, <1>5
<1>7. f[last] = D
  <2>1. f[last] \in SUBSET D /\ Cardinality(D) = Cardinality(f[last])
    <3>1. f[last] \in SUBSET D /\ Cardinality(f[last]) \in Nat /\ Cardinality(f[last]) <= last
      BY <1>1, <1>2
    <3> QED
      BY <1>1, <1>6, <3>1
  <2> QED
    BY <2>1, FS_Subset
<1>8. f[last + 1] \in SUBSET D
  BY <1>1
<1> QED
  BY <1>1, <1>7, <1>8

---------------------------------------------------------------------------
(* The graph: what is below a group, and which declarations resolve.         *)

\* Below(g, starts) is the least set with the starts and, of each group, its members.
Closed(g, starts, set) ==
  /\ starts \cap DOMAIN g.groups \subseteq set
  /\ \A n \in set \cap DOMAIN g.groups : g.groups[n].members \cap DOMAIN g.groups \subseteq set

LEMMA BelowIsLeast ==
  ASSUME NEW g, IsFiniteSet(DOMAIN g.groups), NEW starts
  PROVE  /\ Below(g, starts) \subseteq DOMAIN g.groups
         /\ Closed(g, starts, Below(g, starts))
         /\ \A set : Closed(g, starts, set) => Below(g, starts) \subseteq set
<1> DEFINE D == DOMAIN g.groups
           first == starts \cap D
           next == [found \in SUBSET D |-> found \cup UNION {g.groups[n].members \cap D : n \in found}]
           Is(f) == f = [i \in Nat |-> IF i = 0 THEN starts \cap D
                                       ELSE LET found == f[i - 1]
                                            IN  found \cup UNION {g.groups[n].members \cap D : n \in found}]
<1>1. \E f : Is(f)
  <2>1. Iterable(D, first, next)
    BY DEF Iterable
  <2>2. PICK f : Iteration(D, first, next, f)
    <3> HIDE DEF next, first, D
    <3> QED
      BY <2>1, Iterates
  <2>3. \A found \in SUBSET D : next[found] = found \cup UNION {g.groups[n].members \cap D : n \in found}
    OBVIOUS
  <2> HIDE DEF next
  <2> DEFINE h == [i \in Nat |-> IF i = 0 THEN starts \cap D
                                 ELSE f[i - 1] \cup UNION {g.groups[n].members \cap D : n \in f[i - 1]}]
  <2>4. ASSUME NEW i \in Nat PROVE f[i] = h[i]
    <3>1. CASE i = 0
      BY <2>2, <3>1 DEF Iteration
    <3>2. CASE i # 0
      <4>1. i - 1 \in Nat /\ (i - 1) + 1 = i
        BY <3>2
      <4>2. f[i - 1] \in SUBSET D /\ f[i] = next[f[i - 1]]
        BY <2>2, <4>1 DEF Iteration
      <4> HIDE DEF D
      <4>3. f[i] = f[i - 1] \cup UNION {g.groups[n].members \cap D : n \in f[i - 1]}
        BY <2>3, <4>2
      <4> QED
        BY <3>2, <4>3
    <3> QED
      BY <3>1, <3>2
  <2>5. f = h
    <3> HIDE DEF D
    <3> QED
      BY <2>2, <2>4 DEF Iteration
  <2>6. Is(f)
    BY <2>5
  <2> QED
    BY <2>6
<1> DEFINE reach == CHOOSE f : Is(f)
<1>2. Is(reach)
  BY <1>1
<1>3. Below(g, starts) = reach[Cardinality(D)]
  BY DEF Below
<1> HIDE DEF reach
<1> DEFINE below(found) == UNION {g.groups[n].members \cap D : n \in found}
<1>4. /\ reach[0] = starts \cap D
      /\ \A i \in Nat : reach[i + 1] = reach[i] \cup below(reach[i])
  <2>1. reach[0] = starts \cap D
    BY <1>2
  <2>2. ASSUME NEW i \in Nat PROVE reach[i + 1] = reach[i] \cup below(reach[i])
    <3>1. i + 1 \in Nat /\ i + 1 # 0 /\ (i + 1) - 1 = i
      OBVIOUS
    <3> HIDE DEF D
    <3> QED
      BY <1>2, <3>1
  <2> QED
    BY <2>1, <2>2
<1> HIDE DEF Is
<1>5. reach \in [Nat -> SUBSET D]
  <2>1. DOMAIN reach = Nat /\ reach = [i \in Nat |-> reach[i]]
    BY <1>2 DEF Is
  <2> DEFINE T == {i \in Nat : reach[i] \in SUBSET D}
  <2>2. 0 \in T
    BY <1>4
  <2>3. ASSUME NEW i \in Nat, i \in T PROVE i + 1 \in T
    <3>1. below(reach[i]) \subseteq D
      OBVIOUS
    <3> QED
      BY <1>4, <2>3, <3>1
  <2>4. Nat \subseteq T
    <3> HIDE DEF T
    <3> QED
      BY <2>2, <2>3, SetInduction
  <2> QED
    BY <2>1, <2>4
<1>6. \A i \in Nat : reach[i] \subseteq reach[i + 1]
  BY <1>4
<1>7. ASSUME NEW i \in Nat, reach[i + 1] = reach[i] PROVE reach[i + 2] = reach[i + 1]
  <2>1. i + 1 \in Nat /\ (i + 1) + 1 = i + 2
    OBVIOUS
  <2>2. reach[i + 2] = reach[i + 1] \cup below(reach[i + 1])
    <3> HIDE DEF below
    <3> QED
      BY <1>4, <2>1
  <2> HIDE DEF below
  <2> QED
    BY <1>4, <1>7, <2>2
<1> DEFINE last == Cardinality(D)
<1>8. last \in Nat
  BY FS_CardinalityType
<1>9. reach[last + 1] = reach[last]
  <2>1. Growing(D, reach)
    BY <1>5, <1>6, <1>7 DEF Growing
  <2>2. IsFiniteSet(D)
    OBVIOUS
  <2> HIDE DEF D
  <2> QED
    BY <2>1, <2>2, Stabilizes
<1>10. reach[last] \subseteq D
  BY <1>5, <1>8
<1>11. ASSUME NEW i \in Nat PROVE starts \cap D \subseteq reach[i]
  <2> DEFINE T == {j \in Nat : starts \cap D \subseteq reach[j]}
  <2>1. 0 \in T
    BY <1>4
  <2>2. \A j \in Nat : j \in T => j + 1 \in T
    BY <1>6
  <2>3. Nat \subseteq T
    <3> HIDE DEF T
    <3> QED
      BY <2>1, <2>2, SetInduction
  <2> QED
    BY <2>3
<1>12. ASSUME NEW n \in reach[last] PROVE g.groups[n].members \cap D \subseteq reach[last]
  <2>1. reach[last] = reach[last] \cup below(reach[last])
    BY <1>4, <1>8, <1>9
  <2>2. g.groups[n].members \cap D \subseteq below(reach[last])
    OBVIOUS
  <2> QED
    BY <2>1, <2>2
<1>13. ASSUME NEW set, Closed(g, starts, set), NEW i \in Nat PROVE reach[i] \subseteq set
  <2> DEFINE T == {j \in Nat : reach[j] \subseteq set}
  <2>1. 0 \in T
    BY <1>4, <1>13 DEF Closed
  <2>2. ASSUME NEW j \in Nat, j \in T PROVE j + 1 \in T
    <3>1. \A n \in reach[j] : n \in set /\ n \in D
      BY <1>5, <2>2
    <3>2. below(reach[j]) \subseteq set
      BY <1>13, <3>1 DEF Closed
    <3> QED
      BY <1>4, <2>2, <3>2
  <2>3. Nat \subseteq T
    <3> HIDE DEF T
    <3> QED
      BY <2>1, <2>2, SetInduction
  <2> QED
    BY <2>3
<1>14. Closed(g, starts, reach[last])
  BY <1>8, <1>11, <1>12 DEF Closed
<1> QED
  BY <1>3, <1>8, <1>10, <1>13, <1>14

\* What resolves in any number of rounds is declared, over names that are known.
LEMMA ResolvedAreDeclared ==
  ASSUME NEW anchors, NEW known, NEW spec \in Resolved(anchors, known)
  PROVE  /\ spec \in External
         /\ \A m \in spec.members : Member(anchors, m) \in Builtins \cup known \cup {GroupName(t.id) : t \in External}
<1> DEFINE names(found) == Builtins \cup known \cup {GroupName(s.id) : s \in found}
           next == [found \in SUBSET External |-> {s \in External : \A m \in s.members : Member(anchors, m) \in names(found)}]
           Is(f) == f = [i \in Nat |-> IF i = 0 THEN {}
                                       ELSE LET found == f[i - 1]
                                                offered == Builtins \cup known \cup {GroupName(s.id) : s \in found}
                                            IN  {s \in External : \A m \in s.members : Member(anchors, m) \in offered}]
<1>1. \E f : Is(f)
  <2>1. Iterable(External, {}, next)
    BY DEF Iterable
  <2>2. PICK f : Iteration(External, {}, next, f)
    <3> HIDE DEF next
    <3> QED
      BY <2>1, Iterates
  <2>3. \A found \in SUBSET External :
          next[found] = {s \in External : \A m \in s.members : Member(anchors, m) \in names(found)}
    OBVIOUS
  <2> HIDE DEF next
  <2> DEFINE h == [i \in Nat |-> IF i = 0 THEN {}
                                 ELSE {s \in External : \A m \in s.members : Member(anchors, m) \in names(f[i - 1])}]
  <2>4. ASSUME NEW i \in Nat PROVE f[i] = h[i]
    <3>1. CASE i = 0
      BY <2>2, <3>1 DEF Iteration
    <3>2. CASE i # 0
      <4>1. i - 1 \in Nat /\ (i - 1) + 1 = i
        BY <3>2
      <4>2. f[i - 1] \in SUBSET External /\ f[i] = next[f[i - 1]]
        BY <2>2, <4>1 DEF Iteration
      <4> HIDE DEF names
      <4>3. f[i] = {s \in External : \A m \in s.members : Member(anchors, m) \in names(f[i - 1])}
        BY <2>3, <4>2
      <4> QED
        BY <3>2, <4>3
    <3> QED
      BY <3>1, <3>2
  <2>5. f = h
    <3> HIDE DEF names
    <3> QED
      BY <2>2, <2>4 DEF Iteration
  <2>6. Is(f)
    BY <2>5
  <2> QED
    BY <2>6
<1> DEFINE reached == CHOOSE f : Is(f)
<1>2. Is(reached)
  BY <1>1
<1>3. Resolved(anchors, known) = reached[Len(GroupSpecs)]
  BY DEF Resolved
<1> HIDE DEF reached
<1>4. ASSUME NEW i \in Nat
      PROVE  reached[i] \subseteq External
  BY <1>2
<1>5. ASSUME NEW i \in Nat, NEW t \in reached[i]
      PROVE  \A m \in t.members : Member(anchors, m) \in Builtins \cup known \cup {GroupName(u.id) : u \in External}
  <2>1. i # 0 /\ i - 1 \in Nat
    BY <1>2, <1>5
  <2>2. \A m \in t.members : Member(anchors, m) \in names(reached[i - 1])
    BY <1>2, <1>5, <2>1
  <2>3. names(reached[i - 1]) \subseteq Builtins \cup known \cup {GroupName(u.id) : u \in External}
    BY <1>4, <2>1
  <2> HIDE DEF names
  <2> QED
    BY <2>2, <2>3
<1> QED
  BY <1>3, <1>4, <1>5, DeclarationsAssumption

---------------------------------------------------------------------------
(* The graph: without a cycle, below every group there is something to       *)
(* choose, by descent on the number of groups below.                         *)

Finite(g) == IsFiniteSet(DOMAIN g.groups)

OwnLeaf(g, n) ==
  \E p \in g.groups[n].uses \cap DOMAIN g.providers : \E x \in g.providers[p] : Passes(g.groups[n], x)

\* Whatever is not an automatic group has a member or a leaf of its own.
Standing(g) ==
  \A n \in DOMAIN g.groups : g.groups[n].type \in Automatic \/ g.groups[n].members # {} \/ OwnLeaf(g, n)

LEMMA BelowNested ==
  ASSUME NEW g, Finite(g), NEW n, NEW m \in Below(g, {n})
  PROVE  Below(g, {m}) \subseteq Below(g, {n}) /\ m \in Below(g, {m})
<1>1. Below(g, {n}) \subseteq DOMAIN g.groups /\ Closed(g, {n}, Below(g, {n}))
  BY BelowIsLeast DEF Finite
<1>2. Closed(g, {m}, Below(g, {n}))
  BY <1>1 DEF Closed
<1>3. Closed(g, {m}, Below(g, {m}))
  BY BelowIsLeast DEF Finite
<1>4. m \in Below(g, {m})
  BY <1>1, <1>3 DEF Closed
<1>5. Below(g, {m}) \subseteq Below(g, {n})
  BY <1>2, BelowIsLeast DEF Finite
<1> QED
  BY <1>4, <1>5

\* Without a cycle, less is below a member than below the group.
LEMMA MembersAreLower ==
  ASSUME NEW g, Finite(g), ~Cyclic(g), NEW n \in DOMAIN g.groups, NEW m \in g.groups[n].members \cap DOMAIN g.groups
  PROVE  /\ m \in Below(g, {n})
         /\ Cardinality(Below(g, {m})) < Cardinality(Below(g, {n}))
<1>1. /\ Below(g, {n}) \subseteq DOMAIN g.groups /\ Closed(g, {n}, Below(g, {n}))
      /\ Closed(g, g.groups[n].members, Below(g, g.groups[n].members))
  BY BelowIsLeast DEF Finite
<1>2. n \in Below(g, {n}) /\ m \in Below(g, {n})
  <2>1. n \in Below(g, {n})
    BY <1>1 DEF Closed
  <2> QED
    BY <1>1, <2>1 DEF Closed
<1>3. Below(g, {m}) \subseteq Below(g, {n})
  BY <1>2, BelowNested
<1>4. n \notin Below(g, {m})
  <2>1. Closed(g, {m}, Below(g, g.groups[n].members))
    BY <1>1 DEF Closed
  <2>2. Below(g, {m}) \subseteq Below(g, g.groups[n].members)
    BY <2>1, BelowIsLeast DEF Finite
  <2> QED
    BY <2>2 DEF Cyclic
<1>5. /\ IsFiniteSet(Below(g, {n})) /\ Below(g, {m}) \in SUBSET Below(g, {n})
      /\ Below(g, {m}) # Below(g, {n})
  BY <1>1, <1>2, <1>3, <1>4, FS_Subset DEF Finite
<1> DEFINE above == Below(g, {n})
           below == Below(g, {m})
<1>6. IsFiniteSet(above) /\ below \in SUBSET above /\ below # above
  BY <1>5
<1> HIDE DEF above, below
<1>7. IsFiniteSet(below) /\ Cardinality(below) <= Cardinality(above) /\ Cardinality(above) # Cardinality(below)
  BY <1>6, FS_Subset
<1>8. Cardinality(below) \in Nat /\ Cardinality(above) \in Nat
  BY <1>6, <1>7, FS_CardinalityType
<1>9. Cardinality(below) < Cardinality(above)
  BY <1>7, <1>8
<1> QED
  BY <1>2, <1>9 DEF above, below

\* effective_leaf_proxies: a leaf is a leaf of some group below.
Offers(g, n, leaf) ==
  \E p \in g.groups[n].uses \cap DOMAIN g.providers :
    \E x \in g.providers[p] : Passes(g.groups[n], x) /\ leaf = <<p, x>>

LEMMA LeafBelow ==
  ASSUME NEW g, NEW n, NEW leaf
  PROVE  leaf \in Leaves(g, n) <=> \E m \in Below(g, {n}) : Offers(g, m, leaf)
<1> DEFINE of(m) == UNION {{<<p, x>> : x \in {y \in g.providers[p] : Passes(g.groups[m], y)}} :
                           p \in g.groups[m].uses \cap DOMAIN g.providers}
<1>1. Leaves(g, n) = UNION {of(m) : m \in Below(g, {n})}
  BY DEF Leaves
<1>2. ASSUME NEW m
      PROVE  leaf \in of(m) <=> Offers(g, m, leaf)
  BY DEF Offers
<1> HIDE DEF of
<1>3. leaf \in Leaves(g, n) <=> \E m \in Below(g, {n}) : leaf \in of(m)
  BY <1>1
<1> QED
  BY <1>2, <1>3

\* In a graph that validates, below every group there is something to choose.
LEMMA SomethingBelow ==
  ASSUME NEW g, Finite(g), Valid(g), Standing(g), NEW n \in DOMAIN g.groups
  PROVE  Leaves(g, n) # {} \/ \E m \in Below(g, {n}) : g.groups[m].members \cap Builtins # {}
<1> SUFFICES ASSUME Leaves(g, n) = {}, \A m \in Below(g, {n}) : g.groups[m].members \cap Builtins = {}
             PROVE  FALSE
  OBVIOUS
<1> DEFINE region == Below(g, {n})
           size(m) == Cardinality(Below(g, {m}))
<1>1. region \subseteq DOMAIN g.groups /\ n \in region
  BY BelowIsLeast DEF Finite, Closed
<1>2. \A m \in region : size(m) \in Nat
  <2> SUFFICES ASSUME NEW m \in region PROVE size(m) \in Nat
    OBVIOUS
  <2>1. Below(g, {m}) \subseteq DOMAIN g.groups
    BY BelowIsLeast DEF Finite
  <2>2. IsFiniteSet(Below(g, {m}))
    BY <2>1, FS_Subset DEF Finite
  <2> QED
    BY <2>2, FS_CardinalityType
<1>3. ASSUME NEW m \in region
      PROVE  \E k \in g.groups[m].members : k \in region /\ size(k) < size(m)
  <2>1. m \in DOMAIN g.groups /\ m \in Below(g, {m}) /\ Below(g, {m}) \subseteq region
    BY <1>1, BelowNested
  <2>2. Leaves(g, m) = {}
    <3> SUFFICES ASSUME NEW leaf \in Leaves(g, m) PROVE FALSE
      OBVIOUS
    <3>1. leaf \in Leaves(g, n)
      <4>1. PICK k \in Below(g, {m}) : Offers(g, k, leaf)
        BY LeafBelow
      <4>2. k \in Below(g, {n})
        BY <2>1
      <4> QED
        BY <4>1, <4>2, LeafBelow
    <3> QED
      BY <3>1
  <2>3. g.groups[m].type \notin Automatic
    BY <2>1, <2>2 DEF Valid, EmptyAutomatic
  <2>4. ~OwnLeaf(g, m)
    <3> SUFFICES ASSUME OwnLeaf(g, m) PROVE FALSE
      OBVIOUS
    <3>1. PICK p \in g.groups[m].uses \cap DOMAIN g.providers : \E x \in g.providers[p] : Passes(g.groups[m], x)
      BY DEF OwnLeaf
    <3>2. PICK x \in g.providers[p] : Passes(g.groups[m], x)
      BY <3>1
    <3>3. <<p, x>> \in Leaves(g, m)
      BY <2>1, <3>2, LeafBelow DEF Offers
    <3> QED
      BY <2>2, <3>3
  <2>5. g.groups[m].members # {}
    BY <2>1, <2>3, <2>4 DEF Standing
  <2>6. PICK k \in g.groups[m].members : TRUE
    BY <2>5
  <2>7. k \in DOMAIN g.groups
    <3>1. g.groups[m].members \subseteq Builtins \cup DOMAIN g.groups
      BY <2>1 DEF Valid, Dangling
    <3> QED
      BY <2>6, <3>1
  <2>8. ~Cyclic(g)
    BY DEF Valid
  <2>9. k \in Below(g, {m}) /\ size(k) < size(m)
    BY <2>1, <2>6, <2>7, <2>8, MembersAreLower
  <2> QED
    BY <2>1, <2>6, <2>9
<1> DEFINE T == {size(m) : m \in region}
<1> HIDE DEF region, size
<1>4. T \subseteq Nat /\ T # {}
  BY <1>1, <1>2
<1>5. PICK i \in T : \A j \in T : i <= j
  BY <1>4, LeastIndex
<1>6. PICK m \in region : i = size(m)
  BY <1>5
<1>7. PICK k \in region : size(k) < size(m)
  BY <1>3
<1>8. size(m) <= size(k)
  BY <1>5, <1>6, <1>7
<1> QED
  BY <1>2, <1>6, <1>7, <1>8

---------------------------------------------------------------------------
(* The graph: what the passes keep of it, and why a graph that has it and    *)
(* validates fails no route open.                                            *)

CopyKinds == {"clone", "closed clone"}
Kinds == {"auto", "fallback", "closed", "pool", "group"}

\* The sources a copy was made to avoid, which its name tells.
ExcludedBy(n) == IF n[1] = "clone" THEN n[3] ELSE n[2]
IsCopy(n, excluded) == n[1] \in CopyKinds /\ ExcludedBy(n) = excluded

GroupShape == {"type", "hidden", "members", "uses", "filtered", "only", "without"}

Grounded(g) ==
  /\ Finite(g)
  /\ \A n \in DOMAIN g.groups :
       /\ n \notin Builtins /\ DOMAIN g.groups[n] = GroupShape
       /\ n[1] = "group" => \E i \in DOMAIN GroupSpecs : n = GroupName(GroupSpecs[i].id)

DirectDeclared(g) ==
  \A n \in DOMAIN g.groups :
    Direct \in g.groups[n].members =>
      \E i \in DOMAIN GroupSpecs :
        GroupName(GroupSpecs[i].id) = n /\ <<"builtin", Direct>> \in GroupSpecs[i].members \cup {GroupSpecs[i].route}

\* A copy leads to REJECT or to copies that avoid the same sources, and offers
\* no node of them.
Sealed(g) ==
  \A n \in DOMAIN g.groups :
    n[1] \in CopyKinds =>
      /\ g.groups[n].hidden
      /\ \A m \in g.groups[n].members : m = Reject \/ IsCopy(m, ExcludedBy(n))
      /\ g.groups[n].uses = {} \/ ExcludedBy(n) \subseteq g.groups[n].without

OnlyCopies(g, n, excluded) ==
  g.groups[n].uses = {} /\ \A m \in g.groups[n].members : m \in Builtins \/ IsCopy(m, excluded)

\* Every route and group that excludes sources leads to copies that avoid them.
Diverted(g) ==
  /\ \A i \in DOMAIN RouteSpecs : RouteSpecs[i].excluded # {} => IsCopy(g.routes[i], RouteSpecs[i].excluded)
  /\ \A i \in DOMAIN GroupSpecs :
       GroupSpecs[i].excluded # {} /\ GroupName(GroupSpecs[i].id) \in DOMAIN g.groups =>
         OnlyCopies(g, GroupName(GroupSpecs[i].id), GroupSpecs[i].excluded)

LEMMA NothingExcluded ==
  ASSUME NEW g, Grounded(g), Sealed(g), NEW start, NEW excluded,
         IsCopy(start, excluded) \/ OnlyCopies(g, start, excluded),
         NEW leaf \in Leaves(g, start)
  PROVE  leaf[2].source \notin excluded
<1> DEFINE within == {n \in DOMAIN g.groups : n = start \/ IsCopy(n, excluded)}
<1>1. Closed(g, {start}, within)
  <2>1. ASSUME NEW n \in within, NEW m \in g.groups[n].members, m \in DOMAIN g.groups
        PROVE  IsCopy(m, excluded)
    <3>1. m \notin Builtins
      BY <2>1 DEF Grounded
    <3>2. CASE IsCopy(n, excluded)
      <4>1. m = Reject \/ IsCopy(m, ExcludedBy(n))
        BY <2>1, <3>2 DEF Sealed, IsCopy
      <4> QED
        BY <3>1, <3>2, <4>1 DEF IsCopy, Builtins
    <3>3. CASE OnlyCopies(g, n, excluded)
      BY <2>1, <3>1, <3>3 DEF OnlyCopies
    <3> QED
      BY <3>2, <3>3
  <2> QED
    BY <2>1 DEF Closed
<1>2. Below(g, {start}) \subseteq within
  BY <1>1, BelowIsLeast DEF Grounded, Finite
<1>3. PICK n \in Below(g, {start}) : Offers(g, n, leaf)
  BY LeafBelow
<1>4. PICK p \in g.groups[n].uses \cap DOMAIN g.providers :
        \E x \in g.providers[p] : Passes(g.groups[n], x) /\ leaf = <<p, x>>
  BY <1>3 DEF Offers
<1>5. PICK x \in g.providers[p] : Passes(g.groups[n], x) /\ leaf = <<p, x>>
  BY <1>4
<1>6. ~OnlyCopies(g, n, excluded) /\ g.groups[n].uses # {}
  BY <1>4 DEF OnlyCopies
<1>7. IsCopy(n, excluded) /\ n \in DOMAIN g.groups
  BY <1>2, <1>6
<1>8. excluded \subseteq g.groups[n].without
  BY <1>6, <1>7 DEF Sealed, IsCopy
<1> QED
  BY <1>5, <1>8 DEF Passes

\* What the passes after the copies are made keep of a graph.
Guarded(g) == Grounded(g) /\ Standing(g) /\ DirectDeclared(g) /\ Sealed(g) /\ Diverted(g)

\* What the passes keep is what a candidate must have when it validates.
LEMMA ServedSafely ==
  ASSUME Guarded(graph), Valid(graph)
  PROVE  NoRouteFailsOpen
<1> USE DEF Guarded
<1> DEFINE from(name) == {leaf[2].source : leaf \in Leaves(graph, name)}
           starts == Public(graph) \cup {graph.routes[i] : i \in DOMAIN graph.routes}
           declared(n) == \E i \in DOMAIN GroupSpecs :
              GroupName(GroupSpecs[i].id) = n /\ <<"builtin", Direct>> \in GroupSpecs[i].members \cup {GroupSpecs[i].route}
<1>1. ASSUME NEW n \in Below(graph, starts)
      PROVE  /\ graph.groups[n].members \subseteq Builtins \cup DOMAIN graph.groups
             /\ Leaves(graph, n) # {} \/ \E m \in Below(graph, {n}) : graph.groups[m].members \cap Builtins # {}
             /\ graph.groups[n].type \in Automatic => Leaves(graph, n) # {}
             /\ Direct \in graph.groups[n].members => declared(n)
  <2>1. n \in DOMAIN graph.groups
    BY BelowIsLeast DEF Grounded, Finite
  <2>2. graph.groups[n].members \subseteq Builtins \cup DOMAIN graph.groups
    BY <2>1 DEF Valid, Dangling
  <2>3. Leaves(graph, n) # {} \/ \E m \in Below(graph, {n}) : graph.groups[m].members \cap Builtins # {}
    BY <2>1, SomethingBelow DEF Grounded
  <2>4. graph.groups[n].type \in Automatic => Leaves(graph, n) # {}
    BY <2>1 DEF Valid, EmptyAutomatic
  <2>5. Direct \in graph.groups[n].members => declared(n)
    BY <2>1 DEF DirectDeclared
  <2> QED
    BY <2>2, <2>3, <2>4, <2>5
<1>2. ASSUME NEW i \in DOMAIN RouteSpecs
      PROVE  from(graph.routes[i]) \cap RouteSpecs[i].excluded = {}
  <2> SUFFICES ASSUME NEW leaf \in Leaves(graph, graph.routes[i]), leaf[2].source \in RouteSpecs[i].excluded
               PROVE  FALSE
    OBVIOUS
  <2>1. IsCopy(graph.routes[i], RouteSpecs[i].excluded)
    BY DEF Diverted
  <2> QED
    BY <2>1, NothingExcluded
<1>3. ASSUME NEW i \in DOMAIN GroupSpecs, GroupName(GroupSpecs[i].id) \in DOMAIN graph.groups
      PROVE  from(GroupName(GroupSpecs[i].id)) \cap GroupSpecs[i].excluded = {}
  <2> SUFFICES ASSUME NEW leaf \in Leaves(graph, GroupName(GroupSpecs[i].id)), leaf[2].source \in GroupSpecs[i].excluded
               PROVE  FALSE
    OBVIOUS
  <2>1. OnlyCopies(graph, GroupName(GroupSpecs[i].id), GroupSpecs[i].excluded)
    BY <1>3 DEF Diverted
  <2> QED
    BY <2>1, NothingExcluded
<1> HIDE DEF declared, starts, from
<1>4. /\ \A n \in Below(graph, starts) :
           LET group == graph.groups[n]
           IN  /\ group.members \subseteq Builtins \cup DOMAIN graph.groups
               /\ Leaves(graph, n) # {} \/ \E m \in Below(graph, {n}) : graph.groups[m].members \cap Builtins # {}
               /\ group.type \in Automatic => Leaves(graph, n) # {}
               /\ Direct \in group.members => declared(n)
      /\ \A i \in DOMAIN RouteSpecs : from(graph.routes[i]) \cap RouteSpecs[i].excluded = {}
      /\ \A i \in DOMAIN GroupSpecs :
           GroupName(GroupSpecs[i].id) \in DOMAIN graph.groups =>
             from(GroupName(GroupSpecs[i].id)) \cap GroupSpecs[i].excluded = {}
  BY <1>1, <1>2, <1>3
<1> QED
  BY <1>4 DEF NoRouteFailsOpen, declared, starts, from

---------------------------------------------------------------------------
(* compile_runtime_graph keeps it: the public pools offer their nodes.       *)

LEMMA ExposeKeeps ==
  ASSUME NEW g, DOMAIN g = GraphFields, Guarded(g)
  PROVE  Guarded(ExposeProviders(g))
<1> DEFINE h == ExposeProviders(g)
           D == DOMAIN g.groups
           declared == {GroupName(s.id) : s \in External}
           shown(n) == /\ ~g.groups[n].hidden /\ n \notin declared
                       /\ Cardinality(g.groups[n].members) = 1
           behind(n) == ProviderOrder(g, CHOOSE m \in g.groups[n].members : TRUE)
<1>1. /\ h.groups = [n \in D |-> IF shown(n) THEN [g.groups[n] EXCEPT !.uses = behind(n)] ELSE g.groups[n]]
      /\ h.providers = g.providers /\ h.routes = g.routes
  BY DEF ExposeProviders, GraphFields
<1>2. ASSUME NEW n \in D
      PROVE  /\ ~shown(n) => h.groups[n] = g.groups[n]
             /\ DOMAIN h.groups[n] = GroupShape
             /\ h.groups[n].type = g.groups[n].type /\ h.groups[n].hidden = g.groups[n].hidden
             /\ h.groups[n].members = g.groups[n].members /\ h.groups[n].without = g.groups[n].without
  <2>1. DOMAIN g.groups[n] = GroupShape
    BY DEF Guarded, Grounded
  <2> HIDE DEF shown, behind, h
  <2>2. h.groups[n] = IF shown(n) THEN [g.groups[n] EXCEPT !.uses = behind(n)] ELSE g.groups[n]
    BY <1>1
  <2> QED
    BY <2>1, <2>2 DEF GroupShape
<1>3. ASSUME NEW n \in D, shown(n)
      PROVE  g.groups[n].members # {} /\ ~g.groups[n].hidden /\ n \notin declared
  <2>1. Cardinality({}) = 0
    BY FS_EmptySet
  <2> QED
    BY <1>3, <2>1
<1> HIDE DEF shown, behind, h
<1>4. DOMAIN h.groups = D
  BY <1>1
<1>5. Grounded(h)
  BY <1>2, <1>4 DEF Guarded, Grounded, Finite
<1>6. Standing(h)
  <2> SUFFICES ASSUME NEW n \in D
               PROVE  h.groups[n].type \in Automatic \/ h.groups[n].members # {} \/ OwnLeaf(h, n)
    BY <1>4 DEF Standing
  <2>1. CASE shown(n)
    BY <1>2, <1>3, <2>1
  <2>2. CASE ~shown(n)
    <3>1. g.groups[n].type \in Automatic \/ g.groups[n].members # {} \/ OwnLeaf(g, n)
      BY DEF Guarded, Standing
    <3>2. h.groups[n] = g.groups[n]
      BY <1>2, <2>2
    <3>3. OwnLeaf(g, n) => OwnLeaf(h, n)
      BY <1>1, <3>2 DEF OwnLeaf
    <3> QED
      BY <3>1, <3>2, <3>3
  <2> QED
    BY <2>1, <2>2
<1>7. DirectDeclared(h)
  BY <1>2, <1>4 DEF Guarded, DirectDeclared
<1>8. Sealed(h)
  BY <1>2, <1>3, <1>4 DEF Guarded, Sealed
<1>9. Diverted(h)
  <2>1. \A i \in DOMAIN GroupSpecs : GroupName(GroupSpecs[i].id) \in D =>
          h.groups[GroupName(GroupSpecs[i].id)] = g.groups[GroupName(GroupSpecs[i].id)]
    BY <1>2, <1>3 DEF External
  <2> QED
    BY <1>1, <1>4, <2>1 DEF Guarded, Diverted, OnlyCopies
<1> QED
  BY <1>5, <1>6, <1>7, <1>8, <1>9 DEF Guarded, h

LEMMA OverOf ==
  ASSUME NEW f, NEW h
  PROVE  /\ DOMAIN Over(f, h) = DOMAIN f \cup DOMAIN h
         /\ \A x \in DOMAIN f : Over(f, h)[x] = f[x]
         /\ \A x \in DOMAIN h \ DOMAIN f : Over(f, h)[x] = h[x]
BY DEF Over

LEMMA OnlyOf == ASSUME NEW x, NEW value PROVE DOMAIN Only(x, value) = {x} /\ Only(x, value)[x] = value
BY DEF Only

LEMMA MergedOf ==
  ASSUME NEW maps
  PROVE  /\ DOMAIN Merged(maps) = UNION {DOMAIN m : m \in maps}
         /\ \A x \in DOMAIN Merged(maps) : \E m \in maps : x \in DOMAIN m /\ Merged(maps)[x] = m[x]
<1>1. /\ DOMAIN Merged(maps) = UNION {DOMAIN m : m \in maps}
      /\ \A x \in DOMAIN Merged(maps) : Merged(maps)[x] = (CHOOSE m \in maps : x \in DOMAIN m)[x]
  BY DEF Merged
<1> SUFFICES ASSUME NEW x \in DOMAIN Merged(maps)
             PROVE  \E m \in maps : x \in DOMAIN m /\ Merged(maps)[x] = m[x]
  BY <1>1
<1> DEFINE chosen == CHOOSE m \in maps : x \in DOMAIN m
<1>2. \E m \in maps : x \in DOMAIN m
  BY <1>1
<1>3. chosen \in maps /\ x \in DOMAIN chosen
  BY <1>2
<1>4. Merged(maps)[x] = chosen[x]
  BY <1>1
<1> HIDE DEF chosen
<1> QED
  BY <1>3, <1>4

LEMMA FiniteImage ==
  ASSUME NEW S, IsFiniteSet(S), NEW f, DOMAIN f = S
  PROVE  IsFiniteSet({f[x] : x \in S})
<1> DEFINE T == {f[x] : x \in S}
           onto == [x \in S |-> f[x]]
<1>1. onto \in Surjection(S, T)
  BY DEF Surjection
<1> HIDE DEF onto, T
<1>2. IsFiniteSet(T)
  BY <1>1, FS_Surjection
<1> QED
  BY <1>2 DEF T

LEMMA FiniteMerge ==
  ASSUME NEW maps, IsFiniteSet(maps), \A m \in maps : IsFiniteSet(DOMAIN m)
  PROVE  IsFiniteSet(DOMAIN Merged(maps))
<1>1. IsFiniteSet({DOMAIN m : m \in maps})
  <2> DEFINE f == [m \in maps |-> DOMAIN m]
  <2>1. DOMAIN f = maps /\ {f[m] : m \in maps} = {DOMAIN m : m \in maps}
    OBVIOUS
  <2>2. IsFiniteSet({f[m] : m \in maps})
    <3> HIDE DEF f
    <3> QED
      BY <2>1, FiniteImage
  <2> QED
    BY <2>1, <2>2
<1>2. IsFiniteSet(UNION {DOMAIN m : m \in maps})
  BY <1>1, FS_UNION
<1> QED
  BY <1>2, MergedOf

RegionKinds == {"browsing stable", "browsing reserve", "browsing region"}

LEMMA BuiltinsApart ==
  \A n : n[1] \in RegionKinds \cup CopyKinds \cup Kinds => n \notin Builtins
<1>1. Direct[1] = "DIRECT" /\ Reject[1] = "REJECT"
  BY DEF Direct, Reject
<1>2. "DIRECT" \notin RegionKinds \cup CopyKinds \cup Kinds /\ "REJECT" \notin RegionKinds \cup CopyKinds \cup Kinds
  BY DEF RegionKinds, CopyKinds, Kinds
<1> QED
  BY <1>1, <1>2 DEF Builtins

LEMMA RegionalGroupsOf ==
  ASSUME NEW r
  PROVE  LET made == RegionalGroups(r)
         IN  /\ DOMAIN made = {StableName(r), ReserveName(r), RegionName(r)}
             /\ \A n \in DOMAIN made :
                  /\ n[1] \in RegionKinds /\ n \notin Builtins
                  /\ DOMAIN made[n] = GroupShape /\ made[n].type \in Automatic
                  /\ Direct \notin made[n].members
<1> DEFINE tier == [Group("url-test", TRUE, {}, {<<Browsing.pool, r>>}) EXCEPT !.filtered = TRUE]
           tiers == [n \in {StableName(r), ReserveName(r)} |-> tier]
           both == Group("fallback", TRUE, {StableName(r), ReserveName(r)}, {})
           region == Only(RegionName(r), both)
           made == Over(tiers, region)
<1>1. RegionalGroups(r) = made
  BY DEF RegionalGroups
<1>2. /\ DOMAIN tier = GroupShape /\ tier.type = "url-test" /\ tier.members = {}
      /\ DOMAIN both = GroupShape /\ both.type = "fallback" /\ both.members = {StableName(r), ReserveName(r)}
  BY DEF Group, GroupShape
<1>3. Direct \notin {StableName(r), ReserveName(r)}
  BY DEF Direct, StableName, ReserveName
<1>4. \A n \in {StableName(r), ReserveName(r), RegionName(r)} : n[1] \in RegionKinds /\ n \notin Builtins
  <2>1. StableName(r)[1] = "browsing stable" /\ ReserveName(r)[1] = "browsing reserve" /\ RegionName(r)[1] = "browsing region"
    BY DEF StableName, ReserveName, RegionName
  <2>2. \A n \in {StableName(r), ReserveName(r), RegionName(r)} : n[1] \in RegionKinds
    BY <2>1 DEF RegionKinds
  <2> QED
    BY <2>2, BuiltinsApart
<1>5. /\ DOMAIN made = {StableName(r), ReserveName(r), RegionName(r)}
      /\ \A n \in DOMAIN made : made[n] \in {tier, both}
  <2>1. DOMAIN tiers = {StableName(r), ReserveName(r)} /\ \A n \in DOMAIN tiers : tiers[n] = tier
    OBVIOUS
  <2>2. DOMAIN region = {RegionName(r)} /\ region[RegionName(r)] = both
    BY OnlyOf
  <2> HIDE DEF tiers, region, tier, both
  <2> QED
    BY <2>1, <2>2, OverOf
<1> HIDE DEF made, tier, both
<1> QED
  BY <1>1, <1>2, <1>3, <1>4, <1>5 DEF Automatic

---------------------------------------------------------------------------
(* compile_runtime_graph keeps it: the browsing surface is hardened.         *)

LEMMA TwoNames ==
  ASSUME NEW g, ~HardeningRefused(g), BrowsingGroups(g) # {}
  PROVE  /\ {GroupName(Browsing.public), GroupName(Browsing.automatic)} \subseteq DOMAIN g.groups
         /\ BrowsingProviders(g) \subseteq DOMAIN g.providers
<1> DEFINE a == GroupName(Browsing.public)
           b == GroupName(Browsing.automatic)
           both == BrowsingGroups(g)
<1>1. both = {a, b} \cap DOMAIN g.groups /\ Cardinality(both) # 1
  BY DEF BrowsingGroups, HardeningRefused
<1> HIDE DEF a, b
<1>2. Cardinality(both) # 1 /\ \A x : both # {x}
  <2>1. \A x : Cardinality({x}) = 1
    BY FS_Singleton
  <2> HIDE DEF both
  <2> QED
    BY <1>1, <2>1
<1>3. both = {a, b} /\ a # b
  <2>1. both \subseteq {a, b} /\ both # {}
    BY <1>1
  <2> HIDE DEF both
  <2> QED
    BY <1>2, <2>1
<1>4. Cardinality(both) = 2
  <2>1. IsFiniteSet({a}) /\ Cardinality({a}) = 1
    BY FS_Singleton
  <2>2. Cardinality({a} \cup {b}) = 2
    BY <1>3, <2>1, FS_AddElement
  <2>3. both = {a} \cup {b}
    BY <1>3
  <2> HIDE DEF both
  <2> QED
    BY <2>2, <2>3
<1>5. BrowsingProviders(g) \subseteq DOMAIN g.providers
  BY <1>4 DEF HardeningRefused
<1> QED
  BY <1>1, <1>3, <1>5 DEF a, b

\* The names of the browsing surface, those of its regions, and all the others.
LEMMA HardenedGroups ==
  ASSUME NEW g, DOMAIN g = GraphFields, Finite(g), IsFiniteSet(DOMAIN g.providers),
         ~HardeningRefused(g), BrowsingGroups(g) # {}
  PROVE  LET h == HardenBrowsing(g)
             auto == GroupName(Browsing.automatic)
             public == GroupName(Browsing.public)
         IN  /\ h.providers = g.providers /\ h.routes = g.routes /\ Finite(h)
             /\ \A n \in DOMAIN h.groups :
                  \/ /\ n = auto /\ h.groups[n].type = "url-test" /\ Direct \notin h.groups[n].members
                     /\ n \in DOMAIN g.groups /\ DOMAIN h.groups[n] = GroupShape
                  \/ /\ n = public /\ h.groups[n].members # {}
                     /\ n \in DOMAIN g.groups /\ DOMAIN h.groups[n] = GroupShape
                  \/ /\ n[1] \in RegionKinds /\ n \notin Builtins /\ DOMAIN h.groups[n] = GroupShape
                     /\ h.groups[n].type \in Automatic /\ Direct \notin h.groups[n].members
                  \/ n \in DOMAIN g.groups /\ h.groups[n] = g.groups[n] /\ n \notin {auto, public}
<1> DEFINE D == DOMAIN g.groups
           regions  == {p[2] : p \in BrowsingProviders(g)}
           named    == {RegionName(r) : r \in regions}
           auto     == GroupName(Browsing.automatic)
           public   == GroupName(Browsing.public)
           autos    == Group("url-test", TRUE, named, {})
           publics  == Group("select", FALSE, {auto, Direct} \cup named, {})
           first    == Only(auto, autos)
           second   == Only(public, publics)
           surface  == Over(first, second)
           maps     == {RegionalGroups(r) : r \in regions}
           regional == Merged(maps)
           wide     == Over(surface, regional)
           all      == Over(wide, g.groups)
           hardened == [g EXCEPT !.groups = all]
           kept     == (DOMAIN all) \ UnusedScaffold(hardened)
           h        == HardenBrowsing(g)
<1>1. /\ h.groups = [n \in kept |-> all[n]]
      /\ h.providers = g.providers /\ h.routes = g.routes
  <2>1. hardened.groups = all /\ hardened.providers = g.providers /\ hardened.routes = g.routes /\ DOMAIN hardened = GraphFields
    BY DEF GraphFields
  <2>2. h = [hardened EXCEPT !.groups = [n \in (DOMAIN hardened.groups) \ UnusedScaffold(hardened) |-> hardened.groups[n]]]
    BY DEF HardenBrowsing
  <2> HIDE DEF h, hardened, all
  <2> QED
    BY <2>1, <2>2 DEF GraphFields
<1>2. auto \in D /\ public \in D /\ BrowsingProviders(g) \subseteq DOMAIN g.providers
  BY TwoNames
<1>3. IsFiniteSet(regions)
  <2> DEFINE f == [p \in BrowsingProviders(g) |-> p[2]]
  <2>1. IsFiniteSet(BrowsingProviders(g))
    BY <1>2, FS_Subset
  <2>2. DOMAIN f = BrowsingProviders(g) /\ regions = {f[p] : p \in BrowsingProviders(g)}
    OBVIOUS
  <2> HIDE DEF f, regions
  <2> QED
    BY <2>1, <2>2, FiniteImage
<1>4. /\ DOMAIN autos = GroupShape /\ autos.type = "url-test" /\ autos.members = named
      /\ DOMAIN publics = GroupShape /\ publics.members # {}
      /\ Direct \notin named
  <2>1. Direct \notin named
    BY DEF Direct, RegionName
  <2> QED
    BY <2>1 DEF Group, GroupShape
<1>5. ASSUME NEW n \in DOMAIN regional
      PROVE  /\ n[1] \in RegionKinds /\ n \notin Builtins /\ DOMAIN regional[n] = GroupShape
             /\ regional[n].type \in Automatic /\ Direct \notin regional[n].members
  <2>1. PICK m \in maps : n \in DOMAIN m /\ regional[n] = m[n]
    <3> HIDE DEF maps
    <3> QED
      BY MergedOf
  <2>2. PICK r \in regions : m = RegionalGroups(r)
    BY <2>1
  <2> HIDE DEF regional
  <2> QED
    BY <2>1, <2>2, RegionalGroupsOf
<1>6. IsFiniteSet(DOMAIN regional)
  <2>1. IsFiniteSet(maps)
    <3> DEFINE f == [r \in regions |-> RegionalGroups(r)]
    <3>1. DOMAIN f = regions /\ maps = {f[r] : r \in regions}
      OBVIOUS
    <3> HIDE DEF f, maps, regions
    <3> QED
      BY <1>3, <3>1, FiniteImage
  <2>2. ASSUME NEW m \in maps PROVE IsFiniteSet(DOMAIN m)
    <3>1. PICK r \in regions : m = RegionalGroups(r)
      BY <2>2
    <3>2. DOMAIN m = {StableName(r), ReserveName(r), RegionName(r)}
      BY <3>1, RegionalGroupsOf
    <3>3. IsFiniteSet({StableName(r)}) /\ IsFiniteSet({ReserveName(r)}) /\ IsFiniteSet({RegionName(r)})
      BY FS_Singleton
    <3>4. DOMAIN m = {StableName(r)} \cup {ReserveName(r)} \cup {RegionName(r)}
      BY <3>2
    <3> QED
      <4> DEFINE A == {StableName(r)}
                 B == {ReserveName(r)}
                 C == {RegionName(r)}
      <4>1. DOMAIN m = (A \cup B) \cup C /\ IsFiniteSet(A) /\ IsFiniteSet(B) /\ IsFiniteSet(C)
        BY <3>3, <3>4
      <4> HIDE DEF A, B, C
      <4>2. IsFiniteSet(A \cup B)
        BY <4>1, FS_Union
      <4>3. IsFiniteSet((A \cup B) \cup C)
        BY <4>1, <4>2, FS_Union
      <4> QED
        BY <4>1, <4>3
  <2> HIDE DEF maps
  <2> QED
    BY <2>1, <2>2, FiniteMerge
<1>7. /\ DOMAIN surface = {auto, public}
      /\ surface[auto] = autos
      /\ public # auto => surface[public] = publics
  <2>1. DOMAIN first = {auto} /\ first[auto] = autos /\ DOMAIN second = {public} /\ second[public] = publics
    <3> HIDE DEF auto, public, autos, publics
    <3> QED
      BY OnlyOf
  <2>2. /\ DOMAIN surface = DOMAIN first \cup DOMAIN second
        /\ \A n \in DOMAIN first : surface[n] = first[n]
        /\ \A n \in (DOMAIN second) \ (DOMAIN first) : surface[n] = second[n]
    BY OverOf
  <2> HIDE DEF first, second, surface, autos, publics, auto, public
  <2> QED
    BY <2>1, <2>2
<1> HIDE DEF surface, regional, named, auto, public, autos, publics, first, second, D, maps
<1>8. /\ DOMAIN wide = {auto, public} \cup DOMAIN regional
      /\ wide[auto] = autos
      /\ public # auto => wide[public] = publics
      /\ \A n \in (DOMAIN regional) \ {auto, public} : wide[n] = regional[n]
  <2>1. /\ DOMAIN wide = DOMAIN surface \cup DOMAIN regional
        /\ \A n \in DOMAIN surface : wide[n] = surface[n]
        /\ \A n \in (DOMAIN regional) \ (DOMAIN surface) : wide[n] = regional[n]
    BY OverOf
  <2> HIDE DEF wide
  <2> QED
    BY <1>7, <2>1
<1>9. /\ DOMAIN all = DOMAIN wide \cup D
      /\ \A n \in DOMAIN wide : all[n] = wide[n]
      /\ \A n \in D \ (DOMAIN wide) : all[n] = g.groups[n]
  BY OverOf DEF D
<1>10. Finite(h)
  <2>1. IsFiniteSet({auto}) /\ IsFiniteSet({public}) /\ IsFiniteSet(D)
    BY FS_Singleton DEF Finite, D
  <2>2. DOMAIN all = (({auto} \cup {public}) \cup DOMAIN regional) \cup D
    BY <1>8, <1>9
  <2>3. IsFiniteSet(DOMAIN all)
    BY <1>6, <2>1, <2>2, FS_Union
  <2>4. DOMAIN h.groups \subseteq DOMAIN all
    <3> HIDE DEF h, all
    <3> QED
      BY <1>1
  <2> QED
    BY <2>3, <2>4, FS_Subset DEF Finite
<1> HIDE DEF wide, all, hardened, h
<1>11. ASSUME NEW n \in DOMAIN h.groups
       PROVE  \/ /\ n = auto /\ h.groups[n].type = "url-test" /\ Direct \notin h.groups[n].members
                 /\ n \in D /\ DOMAIN h.groups[n] = GroupShape
              \/ /\ n = public /\ h.groups[n].members # {}
                 /\ n \in D /\ DOMAIN h.groups[n] = GroupShape
              \/ /\ n[1] \in RegionKinds /\ n \notin Builtins /\ DOMAIN h.groups[n] = GroupShape
                 /\ h.groups[n].type \in Automatic /\ Direct \notin h.groups[n].members
              \/ n \in D /\ h.groups[n] = g.groups[n] /\ n \notin {auto, public}
  <2>1. n \in DOMAIN all /\ h.groups[n] = all[n]
    BY <1>1
  <2>2. CASE n = auto
    <3>1. auto \in DOMAIN wide /\ wide[auto] = autos
      BY <1>8
    <3>2. all[auto] = autos
      BY <1>9, <3>1
    <3>3. h.groups[n] = autos /\ n \in D
      BY <1>2, <2>1, <2>2, <3>2
    <3> QED
      BY <1>4, <2>2, <3>3
  <2>3. CASE n = public /\ public # auto
    <3>1. public \in DOMAIN wide /\ wide[public] = publics
      BY <1>8, <2>3
    <3>2. all[public] = publics
      BY <1>9, <3>1
    <3>3. h.groups[n] = publics /\ n \in D
      BY <1>2, <2>1, <2>3, <3>2
    <3> QED
      BY <1>4, <2>3, <3>3
  <2>4. CASE n \in DOMAIN regional /\ n \notin {auto, public}
    BY <1>5, <1>8, <1>9, <2>1, <2>4
  <2>5. CASE n \in D /\ n \notin DOMAIN wide
    BY <1>8, <1>9, <2>1, <2>5
  <2> QED
    BY <1>8, <1>9, <2>1, <2>2, <2>3, <2>4, <2>5
<1> QED
  BY <1>1, <1>10, <1>11 DEF h, D, auto, public

LEMMA KindsApart ==
  /\ \A id : GroupName(id)[1] = "group"
  /\ "group" \notin RegionKinds \cup CopyKinds
  /\ RegionKinds \cap CopyKinds = {}
BY DEF GroupName, RegionKinds, CopyKinds

LEMMA SameName == ASSUME NEW a, NEW b, GroupName(a) = GroupName(b) PROVE a = b
<1>1. GroupName(a)[2] = a /\ GroupName(b)[2] = b
  BY DEF GroupName
<1> QED
  BY <1>1

LEMMA HardenKeeps ==
  ASSUME NEW g, DOMAIN g = GraphFields, Guarded(g), IsFiniteSet(DOMAIN g.providers), ~HardeningRefused(g)
  PROVE  Guarded(HardenBrowsing(g))
<1> DEFINE h == HardenBrowsing(g)
           D == DOMAIN g.groups
           auto == GroupName(Browsing.automatic)
           public == GroupName(Browsing.public)
<1>1. CASE BrowsingGroups(g) = {}
  BY <1>1 DEF HardenBrowsing
<1>2. CASE BrowsingGroups(g) # {}
  <2> DEFINE IsAuto(n) == /\ n = auto /\ h.groups[n].type = "url-test" /\ Direct \notin h.groups[n].members
                          /\ n \in D /\ DOMAIN h.groups[n] = GroupShape
             IsPublic(n) == /\ n = public /\ h.groups[n].members # {}
                            /\ n \in D /\ DOMAIN h.groups[n] = GroupShape
             IsRegional(n) == /\ n[1] \in RegionKinds /\ n \notin Builtins /\ DOMAIN h.groups[n] = GroupShape
                              /\ h.groups[n].type \in Automatic /\ Direct \notin h.groups[n].members
             IsOld(n) == n \in D /\ h.groups[n] = g.groups[n] /\ n \notin {auto, public}
  <2>0. Grounded(g) /\ Standing(g) /\ DirectDeclared(g) /\ Sealed(g) /\ Diverted(g) /\ Finite(g)
    BY DEF Guarded, Grounded
  <2>1. /\ h.providers = g.providers /\ h.routes = g.routes /\ Finite(h)
        /\ \A n \in DOMAIN h.groups : IsAuto(n) \/ IsPublic(n) \/ IsRegional(n) \/ IsOld(n)
    BY <1>2, <2>0, HardenedGroups
  <2> HIDE DEF h
  <2>2. auto[1] = "group" /\ public[1] = "group"
    BY KindsApart
  <2> HIDE DEF auto, public
  <2>3. Grounded(h)
    <3> SUFFICES ASSUME NEW n \in DOMAIN h.groups
                 PROVE  /\ n \notin Builtins /\ DOMAIN h.groups[n] = GroupShape
                        /\ n[1] = "group" => \E i \in DOMAIN GroupSpecs : n = GroupName(GroupSpecs[i].id)
      BY <2>1 DEF Grounded
    <3>1. CASE n \in D
      <4>1. n \notin Builtins /\ DOMAIN g.groups[n] = GroupShape
        BY <2>0, <3>1 DEF Grounded
      <4>2. n[1] = "group" => \E i \in DOMAIN GroupSpecs : n = GroupName(GroupSpecs[i].id)
        BY <2>0, <3>1 DEF Grounded
      <4>3. DOMAIN h.groups[n] = GroupShape
        <5>1. IsRegional(n) \/ IsOld(n) \/ IsAuto(n) \/ IsPublic(n)
          BY <2>1
        <5> QED
          BY <4>1, <5>1
      <4> QED
        BY <4>1, <4>2, <4>3
    <3>2. CASE n \notin D
      <4>1. IsRegional(n)
        BY <2>1, <3>2
      <4> QED
        BY <4>1, KindsApart
    <3> QED
      BY <3>1, <3>2
  <2>4. Standing(h)
    <3> SUFFICES ASSUME NEW n \in DOMAIN h.groups
                 PROVE  h.groups[n].type \in Automatic \/ h.groups[n].members # {} \/ OwnLeaf(h, n)
      BY DEF Standing
    <3>1. IsAuto(n) => h.groups[n].type \in Automatic
      BY DEF Automatic
    <3>2. CASE IsOld(n)
      <4>1. h.groups[n] = g.groups[n] /\ n \in D
        BY <3>2
      <4>2. OwnLeaf(g, n) => OwnLeaf(h, n)
        BY <2>1, <4>1 DEF OwnLeaf
      <4> QED
        BY <2>0, <4>1, <4>2 DEF Standing
    <3> QED
      BY <2>1, <3>1, <3>2
  <2>5. DirectDeclared(h)
    <3> SUFFICES ASSUME NEW n \in DOMAIN h.groups, Direct \in h.groups[n].members
                 PROVE  \E i \in DOMAIN GroupSpecs :
                          GroupName(GroupSpecs[i].id) = n /\ <<"builtin", Direct>> \in GroupSpecs[i].members \cup {GroupSpecs[i].route}
      BY DEF DirectDeclared
    <3>1. CASE IsPublic(n)
      <4>1. PICK i \in DOMAIN GroupSpecs : n = GroupName(GroupSpecs[i].id)
        BY <2>0, <2>2, <3>1 DEF Grounded
      <4>2. GroupSpecs[i].id = Browsing.public
        BY <3>1, <4>1, SameName DEF public
      <4>3. <<"builtin", Direct>> \in GroupSpecs[i].members
        BY <4>2, ManifestAssumption
      <4> QED
        BY <4>1, <4>3
    <3>2. CASE IsOld(n)
      <4>1. n \in D /\ Direct \in g.groups[n].members
        BY <3>2
      <4> QED
        BY <2>0, <4>1 DEF DirectDeclared
    <3> QED
      BY <2>1, <3>1, <3>2
  <2>6. Sealed(h)
    <3> SUFFICES ASSUME NEW n \in DOMAIN h.groups, n[1] \in CopyKinds
                 PROVE  n \in D /\ h.groups[n] = g.groups[n]
      BY <2>0 DEF Sealed
    <3>1. n # auto /\ n # public /\ n[1] \notin RegionKinds
      BY <2>2, KindsApart
    <3> QED
      BY <2>1, <3>1
  <2>7. Diverted(h)
    <3>1. ASSUME NEW i \in DOMAIN GroupSpecs, GroupSpecs[i].excluded # {}, GroupName(GroupSpecs[i].id) \in DOMAIN h.groups
          PROVE  /\ GroupName(GroupSpecs[i].id) \in D
                 /\ h.groups[GroupName(GroupSpecs[i].id)] = g.groups[GroupName(GroupSpecs[i].id)]
      <4> DEFINE n == GroupName(GroupSpecs[i].id)
      <4>1. GroupSpecs[i].id # Browsing.public /\ GroupSpecs[i].id # Browsing.automatic
        BY <3>1, ManifestAssumption
      <4>2. n # auto /\ n # public
        BY <4>1, SameName DEF auto, public
      <4>3. n[1] \notin RegionKinds
        BY KindsApart
      <4> HIDE DEF n
      <4>4. n \in DOMAIN h.groups
        BY <3>1 DEF n
      <4>5. IsOld(n)
        BY <2>1, <4>2, <4>3, <4>4
      <4> QED
        BY <4>5 DEF n
    <3>2. \A i \in DOMAIN GroupSpecs :
            GroupSpecs[i].excluded # {} /\ GroupName(GroupSpecs[i].id) \in DOMAIN h.groups =>
              OnlyCopies(h, GroupName(GroupSpecs[i].id), GroupSpecs[i].excluded)
      BY <2>0, <3>1 DEF Diverted, OnlyCopies
    <3> QED
      BY <2>0, <2>1, <3>2 DEF Diverted
  <2> QED
    BY <2>3, <2>4, <2>5, <2>6, <2>7 DEF Guarded, h
<1> QED
  BY <1>1, <1>2

---------------------------------------------------------------------------
(* compile_runtime_graph makes it so: the copies that avoid a source.        *)

\* What the passes before the copies are made give a graph.
Typed(g) ==
  /\ Grounded(g) /\ Standing(g) /\ DirectDeclared(g)
  /\ \A n \in DOMAIN g.groups :
       /\ n[1] \in Kinds
       /\ IsFiniteSet(g.groups[n].members)
       /\ \A m \in g.groups[n].members : m \in Builtins \/ m[1] \in Kinds
       /\ g.groups[n].type = "url-test" => g.groups[n].members = {} \/ g.groups[n].uses = {}
       /\ g.groups[n].type = "fallback" => g.groups[n].uses = {}
  /\ \A i \in DOMAIN GroupSpecs :
       GroupSpecs[i].excluded # {} /\ GroupName(GroupSpecs[i].id) \in DOMAIN g.groups =>
         g.groups[GroupName(GroupSpecs[i].id)].uses = {}
  /\ DOMAIN g.routes = DOMAIN RouteSpecs

\* A group made to avoid the sources its name c tells.
Copied(c, group) ==
  /\ c[1] \in CopyKinds
  /\ DOMAIN group = GroupShape /\ group.hidden
  /\ group.type \in Automatic \/ group.members # {}
  /\ \A m \in group.members : m = Reject \/ IsCopy(m, ExcludedBy(c))
  /\ group.uses = {} \/ ExcludedBy(c) \subseteq group.without

LEMMA CopyNames ==
  ASSUME NEW n, NEW excluded
  PROVE  /\ IsCopy(CloneName(n, excluded), excluded) /\ CloneName(n, excluded)[2] = n
         /\ IsCopy(ClosedCloneName(excluded), excluded)
         /\ ExcludedBy(CloneName(n, excluded)) = excluded /\ ExcludedBy(ClosedCloneName(excluded)) = excluded
         /\ CloneName(n, excluded)[1] \in CopyKinds /\ ClosedCloneName(excluded)[1] \in CopyKinds
BY DEF IsCopy, CopyKinds, ExcludedBy, CloneName, ClosedCloneName

\* A copy that no other copy uses exists, when the copies are one or more.
LEMMA CopyOfIsMade ==
  ASSUME NEW copies, NEW n \in DOMAIN copies, \A c \in DOMAIN copies : n \notin copies[c].members
  PROVE  CopyOf(copies) \in DOMAIN copies
BY DEF CopyOf

\* A single copy of an automatic group over nodes.
LEMMA CloneAvoids ==
  ASSUME NEW g, Typed(g), NEW n \in DOMAIN g.groups, g.groups[n].hidden, g.groups[n].type = "url-test", g.groups[n].uses # {}, NEW excluded
  PROVE  LET made == [g.groups[n] EXCEPT !.without = @ \cup excluded]
         IN  Copied(CloneName(n, excluded), made) /\ made.members = {}
<1>1. DOMAIN g.groups[n] = GroupShape /\ g.groups[n].members = {}
  BY DEF Typed, Grounded
<1> DEFINE made == [g.groups[n] EXCEPT !.without = @ \cup excluded]
<1>2. /\ DOMAIN made = GroupShape /\ made.hidden /\ made.type = "url-test" /\ made.members = {}
      /\ excluded \subseteq made.without
  BY <1>1 DEF GroupShape
<1> HIDE DEF made
<1>3. Copied(CloneName(n, excluded), made)
  BY <1>2, CopyNames DEF Copied, Automatic
<1> QED
  BY <1>2, <1>3 DEF made

LEMMA CopiesOf ==
  ASSUME NEW g, Typed(g), NEW anchor \in DOMAIN g.groups, Cloneable(g, anchor), NEW excluded
  PROVE  LET made == Copies(g, anchor, excluded)
         IN  /\ IsFiniteSet(DOMAIN made)
             /\ CopyOf(made) \in DOMAIN made
             /\ \A c \in DOMAIN made : IsCopy(c, excluded) /\ Copied(c, made[c])
<1> DEFINE made  == Copies(g, anchor, excluded)
           autos == IF g.groups[anchor].type = "fallback" THEN g.groups[anchor].members ELSE {anchor}
           left  == {n \in autos : Survives(g, n, excluded)}
           clone(n) == [g.groups[n] EXCEPT !.without = @ \cup excluded]
           some  == [c \in {CloneName(n, excluded) : n \in left} |-> clone(c[2])]
           reject == Group("select", TRUE, {Reject}, {})
           closed == Only(ClosedCloneName(excluded), reject)
           whole == [g.groups[anchor] EXCEPT !.members = DOMAIN some]
           several == Over(Only(CloneName(anchor, excluded), whole), some)
<1>1. made = IF left = {} THEN closed ELSE IF Cardinality(left) = 1 THEN some ELSE several
  BY DEF Copies
<1>2. /\ IsFiniteSet(autos)
      /\ \A n \in left : n \in DOMAIN g.groups /\ g.groups[n].hidden /\ g.groups[n].type = "url-test" /\ g.groups[n].uses # {}
  <2>1. IsFiniteSet(autos)
    BY FS_Singleton DEF Typed
  <2>2. ASSUME NEW n \in left
        PROVE  n \in DOMAIN g.groups /\ g.groups[n].hidden /\ g.groups[n].type = "url-test" /\ g.groups[n].uses # {}
    <3>1. g.groups[n].type = "url-test" /\ g.groups[n].uses # {} /\ n \in autos
      BY DEF Survives
    <3>2. CASE SingleCloneable(g, anchor)
      <4>1. g.groups[anchor].type # "fallback" /\ g.groups[anchor].hidden
        BY <3>2 DEF SingleCloneable
      <4> QED
        BY <3>1, <4>1
    <3>3. CASE /\ g.groups[anchor].hidden /\ g.groups[anchor].type = "fallback"
               /\ \A m \in g.groups[anchor].members : SingleCloneable(g, m)
      BY <3>1, <3>3 DEF SingleCloneable
    <3> QED
      BY <3>2, <3>3 DEF Cloneable
  <2> QED
    BY <2>1, <2>2
<1>3. IsFiniteSet(left)
  BY <1>2, FS_Subset
<1> HIDE DEF left, autos, made
<1>4. /\ DOMAIN some = {CloneName(n, excluded) : n \in left}
      /\ IsFiniteSet(DOMAIN some)
      /\ \A c \in DOMAIN some : IsCopy(c, excluded) /\ Copied(c, some[c]) /\ some[c].members = {}
  <2>1. DOMAIN some = {CloneName(n, excluded) : n \in left}
    OBVIOUS
  <2>2. IsFiniteSet(DOMAIN some)
    <3> DEFINE f == [n \in left |-> CloneName(n, excluded)]
    <3>1. DOMAIN f = left /\ DOMAIN some = {f[n] : n \in left}
      BY <2>1
    <3> HIDE DEF f, some
    <3> QED
      BY <1>3, <3>1, FiniteImage
  <2>3. ASSUME NEW c \in DOMAIN some
        PROVE  IsCopy(c, excluded) /\ Copied(c, some[c]) /\ some[c].members = {}
    <3>1. PICK n \in left : c = CloneName(n, excluded)
      BY <2>1
    <3>2. c[2] = n /\ IsCopy(c, excluded)
      BY <3>1, CopyNames
    <3>3. some[c] = clone(n)
      BY <3>2
    <3>4. Copied(CloneName(n, excluded), clone(n)) /\ clone(n).members = {}
      BY <1>2, CloneAvoids
    <3> HIDE DEF some, clone
    <3> QED
      BY <3>1, <3>2, <3>3, <3>4
  <2> HIDE DEF some
  <2> QED
    BY <2>1, <2>2, <2>3
<1> HIDE DEF some
<1>5. CASE left = {}
  <2>1. DOMAIN closed = {ClosedCloneName(excluded)} /\ closed[ClosedCloneName(excluded)] = reject
    BY OnlyOf
  <2>2. Copied(ClosedCloneName(excluded), reject) /\ reject.members = {Reject}
    <3>1. /\ DOMAIN reject = GroupShape /\ reject.hidden /\ reject.members = {Reject} /\ reject.uses = {}
      BY DEF Group, GroupShape
    <3> HIDE DEF reject
    <3> QED
      BY <3>1, CopyNames DEF Copied
  <2>3. ClosedCloneName(excluded) # Reject
    BY CopyNames, BuiltinsApart DEF Builtins
  <2>4. IsFiniteSet(DOMAIN closed)
    BY <2>1, FS_Singleton
  <2> HIDE DEF closed, reject
  <2>5. CopyOf(closed) \in DOMAIN closed
    BY <2>1, <2>2, <2>3, CopyOfIsMade
  <2>6. made = closed
    BY <1>1, <1>5
  <2> QED
    BY <2>1, <2>2, <2>4, <2>5, <2>6, CopyNames DEF made
<1>6. CASE left # {} /\ Cardinality(left) = 1
  <2>1. made = some
    BY <1>1, <1>6
  <2>2. PICK n \in left : TRUE
    BY <1>6
  <2>3. CopyOf(some) \in DOMAIN some
    BY <1>4, <2>2, CopyOfIsMade
  <2> QED
    BY <1>4, <2>1, <2>3 DEF made
<1>7. CASE left # {} /\ Cardinality(left) # 1
  <2> DEFINE name == CloneName(anchor, excluded)
             one == Only(name, whole)
  <2>1. made = several
    BY <1>1, <1>7
  <2>2. DOMAIN one = {name} /\ one[name] = whole
    BY OnlyOf
  <2>3. /\ DOMAIN several = {name} \cup DOMAIN some
        /\ several[name] = whole
        /\ \A c \in DOMAIN some : several[c] = whole \/ several[c] = some[c]
        /\ \A c \in (DOMAIN some) \ {name} : several[c] = some[c]
    <3>1. /\ DOMAIN several = DOMAIN one \cup DOMAIN some
          /\ \A c \in DOMAIN one : several[c] = one[c]
          /\ \A c \in (DOMAIN some) \ (DOMAIN one) : several[c] = some[c]
      BY OverOf
    <3> HIDE DEF several, one, whole, name
    <3> QED
      BY <2>2, <3>1
  <2>4. g.groups[anchor].type = "fallback" /\ g.groups[anchor].hidden
    <3>1. ASSUME g.groups[anchor].type # "fallback" PROVE FALSE
      <4>1. left = {anchor}
        BY <1>7, <3>1 DEF left, autos
      <4> QED
        BY <1>7, <4>1, FS_Singleton
    <3> QED
      BY <3>1 DEF Cloneable, SingleCloneable
  <2>5. name \notin DOMAIN some
    <3>1. ASSUME NEW n \in left, name = CloneName(n, excluded) PROVE FALSE
      <4>1. n = anchor
        BY <3>1, CopyNames
      <4> QED
        BY <1>2, <2>4, <4>1
    <3> QED
      BY <1>4, <3>1
  <2>6. Copied(name, whole) /\ whole.members = DOMAIN some
    <3>1. DOMAIN g.groups[anchor] = GroupShape /\ g.groups[anchor].uses = {}
      BY <2>4 DEF Typed, Grounded
    <3>2. /\ DOMAIN whole = GroupShape /\ whole.hidden /\ whole.type = "fallback" /\ whole.members = DOMAIN some
          /\ whole.uses = {}
      BY <2>4, <3>1 DEF GroupShape
    <3>3. \A m \in DOMAIN some : IsCopy(m, excluded)
      BY <1>4
    <3> HIDE DEF whole, name
    <3>4. ExcludedBy(name) = excluded /\ name[1] \in CopyKinds
      BY CopyNames DEF name
    <3> QED
      BY <3>2, <3>3, <3>4 DEF Copied, Automatic
  <2> HIDE DEF several, one, whole
  <2>7. IsFiniteSet(DOMAIN several)
    <3> HIDE DEF name
    <3> DEFINE first == {name}
               rest == DOMAIN some
    <3>1. IsFiniteSet(first) /\ IsFiniteSet(rest) /\ DOMAIN several = first \cup rest
      BY <1>4, <2>3, FS_Singleton
    <3> HIDE DEF first, rest
    <3> QED
      BY <3>1, FS_Union
  <2>8. CopyOf(several) \in DOMAIN several
    <3> HIDE DEF name
    <3>1. \A c \in DOMAIN several : name \notin several[c].members
      BY <1>4, <2>3, <2>5, <2>6
    <3> QED
      BY <2>3, <3>1, CopyOfIsMade
  <2>9. \A c \in DOMAIN several : IsCopy(c, excluded) /\ Copied(c, several[c])
    <3>1. IsCopy(name, excluded)
      BY CopyNames
    <3> HIDE DEF name
    <3> QED
      BY <1>4, <2>3, <2>5, <2>6, <3>1
  <2> QED
    BY <2>1, <2>7, <2>8, <2>9 DEF made
<1> QED
  BY <1>5, <1>6, <1>7

LEMMA DeclarationsApart ==
  ASSUME NEW s \in External, NEW t \in External, GroupName(s.id) = GroupName(t.id)
  PROVE  s = t
<1>1. PICK i \in DOMAIN GroupSpecs : s = GroupSpecs[i]
  BY DEF External
<1>2. PICK j \in DOMAIN GroupSpecs : t = GroupSpecs[j]
  BY DEF External
<1>3. s.id = t.id
  BY SameName
<1> QED
  BY <1>1, <1>2, <1>3, DeclarationsAssumption

LEMMA ExternalFinite == IsFiniteSet(External)
<1>1. IsFiniteSet(1 .. Len(GroupSpecs))
  BY DeclarationsAssumption, FS_Interval
<1>2. IsFiniteSet(DOMAIN GroupSpecs)
  BY <1>1, DeclarationsAssumption
<1>3. IsFiniteSet({GroupSpecs[i] : i \in DOMAIN GroupSpecs})
  BY <1>2, FiniteImage
<1> QED
  BY <1>3 DEF External

LEMMA ExclusionsKeep ==
  ASSUME NEW g, DOMAIN g = GraphFields, Typed(g), ~ExclusionsRefused(g)
  PROVE  Guarded(SourceExclusions(g))
<1> DEFINE D == DOMAIN g.groups
           copies(m, spec) == Copies(g, Behind(g, m), spec.excluded)
           copied(m, spec) == IF m \in Builtins THEN m ELSE CopyOf(copies(m, spec))
           excludes(n) == \E s \in Excluding : GroupName(s.id) = n
           chosen(n) == CHOOSE s \in Excluding : GroupName(s.id) = n
           rewritten(n) == IF excludes(n)
                           THEN [g.groups[n] EXCEPT !.members = {copied(m, chosen(n)) : m \in @}]
                           ELSE g.groups[n]
           ofRoutes == {copies(g.routes[i], RouteSpecs[i]) : i \in ExcludingRoutes}
           of(s)    == {copies(m, s) : m \in g.groups[GroupName(s.id)].members \ Builtins}
           ofGroups == UNION {of(s) : s \in Excluding}
           added    == ofRoutes \cup ofGroups
           old      == [n \in D |-> rewritten(n)]
           new      == Merged(added)
           h        == SourceExclusions(g)
<1>1. /\ h.groups = Over(old, new) /\ h.providers = g.providers
      /\ DOMAIN h.routes = DOMAIN g.routes
      /\ \A i \in DOMAIN g.routes : h.routes[i] = IF i \in ExcludingRoutes THEN copied(g.routes[i], RouteSpecs[i]) ELSE g.routes[i]
  <2>1. h = [g EXCEPT !.groups = Over([n \in DOMAIN g.groups |-> rewritten(n)], Merged(added)),
                      !.routes = [i \in DOMAIN g.routes |-> IF i \in ExcludingRoutes THEN copied(g.routes[i], RouteSpecs[i]) ELSE g.routes[i]]]
    BY DEF SourceExclusions
  <2> HIDE DEF h, rewritten, added, copied
  <2> QED
    BY <2>1 DEF GraphFields
<1>2. ASSUME NEW m, Filterable(g, m), NEW spec
      PROVE  /\ IsFiniteSet(DOMAIN copies(m, spec))
             /\ CopyOf(copies(m, spec)) \in DOMAIN copies(m, spec)
             /\ \A c \in DOMAIN copies(m, spec) : IsCopy(c, spec.excluded) /\ Copied(c, copies(m, spec)[c])
             /\ m \notin Builtins
  <2>1. Behind(g, m) \in DOMAIN g.groups /\ Cloneable(g, Behind(g, m)) /\ m \in DOMAIN g.groups
    BY <1>2 DEF Filterable
  <2>2. m \notin Builtins
    BY <2>1 DEF Typed, Grounded
  <2> QED
    BY <2>1, <2>2, CopiesOf
<1>3. ASSUME NEW s \in Excluding
      PROVE  LET n == GroupName(s.id)
             IN  /\ n \in D /\ ~g.groups[n].hidden /\ g.groups[n].members # {} /\ IsFiniteSet(g.groups[n].members)
                 /\ \A m \in g.groups[n].members \ Builtins : Filterable(g, m)
                 /\ g.groups[n].uses = {}
  <2>1. LET n == GroupName(s.id)
        IN  /\ n \in D /\ ~g.groups[n].hidden /\ ~(g.groups[n].members \subseteq Builtins)
            /\ \A m \in g.groups[n].members \ Builtins : Filterable(g, m)
    BY DEF ExclusionsRefused
  <2>2. g.groups[GroupName(s.id)].uses = {} /\ IsFiniteSet(g.groups[GroupName(s.id)].members)
    BY <2>1 DEF Typed, Excluding, External
  <2> QED
    BY <2>1, <2>2
<1>4. ASSUME NEW i \in ExcludingRoutes PROVE Filterable(g, g.routes[i])
  BY DEF ExclusionsRefused
<1> HIDE DEF h, copies
<1>5. ASSUME NEW made \in added
      PROVE  IsFiniteSet(DOMAIN made) /\ \A c \in DOMAIN made : Copied(c, made[c])
  <2>1. CASE made \in ofRoutes
    <3>1. PICK i \in ExcludingRoutes : made = copies(g.routes[i], RouteSpecs[i])
      BY <2>1
    <3> QED
      BY <1>2, <1>4, <3>1
  <2>2. CASE made \in ofGroups
    <3>1. PICK s \in Excluding : made \in of(s)
      BY <2>2
    <3>2. PICK m \in g.groups[GroupName(s.id)].members \ Builtins : made = copies(m, s)
      BY <3>1
    <3>3. Filterable(g, m)
      BY <1>3
    <3> QED
      BY <1>2, <3>2, <3>3
  <2> QED
    BY <2>1, <2>2
<1>6. IsFiniteSet(added)
  <2>1. IsFiniteSet(ofRoutes)
    <3> DEFINE f == [i \in ExcludingRoutes |-> copies(g.routes[i], RouteSpecs[i])]
    <3>1. IsFiniteSet(ExcludingRoutes)
      BY DeclarationsAssumption, FS_Subset DEF ExcludingRoutes
    <3>2. DOMAIN f = ExcludingRoutes /\ ofRoutes = {f[i] : i \in ExcludingRoutes}
      OBVIOUS
    <3> HIDE DEF f, ofRoutes
    <3> QED
      BY <3>1, <3>2, FiniteImage
  <2>2. ASSUME NEW s \in Excluding PROVE IsFiniteSet(of(s))
    <3> DEFINE kept == g.groups[GroupName(s.id)].members \ Builtins
               f == [m \in kept |-> copies(m, s)]
    <3>1. IsFiniteSet(kept)
      BY <1>3, FS_Subset
    <3>2. DOMAIN f = kept /\ of(s) = {f[m] : m \in kept}
      OBVIOUS
    <3> HIDE DEF f, of, kept
    <3> QED
      BY <3>1, <3>2, FiniteImage
  <2>3. IsFiniteSet(ofGroups)
    <3> DEFINE f == [s \in Excluding |-> of(s)]
               sets == {of(s) : s \in Excluding}
    <3>1. IsFiniteSet(Excluding)
      BY ExternalFinite, FS_Subset DEF Excluding
    <3>2. DOMAIN f = Excluding /\ sets = {f[s] : s \in Excluding}
      OBVIOUS
    <3> HIDE DEF f
    <3>3. IsFiniteSet(sets)
      <4> HIDE DEF sets
      <4> QED
        BY <3>1, <3>2, FiniteImage
    <3>4. \A made \in sets : IsFiniteSet(made)
      BY <2>2
    <3>5. ofGroups = UNION sets
      OBVIOUS
    <3> HIDE DEF sets, ofGroups
    <3> QED
      BY <3>3, <3>4, <3>5, FS_UNION
  <2> HIDE DEF ofRoutes, ofGroups
  <2> QED
    BY <2>1, <2>3, FS_Union
<1> HIDE DEF added, new
<1>7. /\ IsFiniteSet(DOMAIN new)
      /\ \A c \in DOMAIN new : Copied(c, new[c]) /\ c \notin D
  <2>1. IsFiniteSet(DOMAIN new)
    BY <1>5, <1>6, FiniteMerge DEF new
  <2>2. ASSUME NEW c \in DOMAIN new
        PROVE  Copied(c, new[c]) /\ c \notin D
    <3>1. PICK made \in added : c \in DOMAIN made /\ new[c] = made[c]
      BY MergedOf DEF new
    <3>2. Copied(c, new[c])
      BY <1>5, <3>1
    <3>3. c[1] \notin Kinds
      BY <3>2 DEF Copied, CopyKinds, Kinds
    <3> QED
      BY <3>2, <3>3 DEF Typed
  <2> QED
    BY <2>1, <2>2
<1>8. /\ DOMAIN h.groups = D \cup DOMAIN new
      /\ \A n \in D : h.groups[n] = rewritten(n)
      /\ \A n \in DOMAIN new : h.groups[n] = new[n]
  <2>1. DOMAIN old = D /\ \A n \in D : old[n] = rewritten(n)
    OBVIOUS
  <2>2. h.groups = Over(old, new)
    BY <1>1
  <2> HIDE DEF h, old, rewritten
  <2>3. /\ DOMAIN Over(old, new) = DOMAIN old \cup DOMAIN new
        /\ \A x \in DOMAIN old : Over(old, new)[x] = old[x]
        /\ \A x \in DOMAIN new \ DOMAIN old : Over(old, new)[x] = new[x]
    BY OverOf, Zenon
  <2> QED
    BY <1>7, <2>1, <2>2, <2>3
<1>9. ASSUME NEW m, NEW spec, m \in Builtins \/ Filterable(g, m)
      PROVE  IF m \in Builtins THEN copied(m, spec) = m ELSE IsCopy(copied(m, spec), spec.excluded)
  <2>1. CASE m \in Builtins
    BY <2>1
  <2>2. CASE m \notin Builtins
    <3>1. CopyOf(copies(m, spec)) \in DOMAIN copies(m, spec)
      BY <1>2, <1>9, <2>2
    <3>2. IsCopy(CopyOf(copies(m, spec)), spec.excluded)
      BY <1>2, <1>9, <2>2, <3>1
    <3> QED
      BY <2>2, <3>2
  <2> QED
    BY <2>1, <2>2
<1> HIDE DEF copied
<1>10. ASSUME NEW n \in D
       PROVE  \/ ~excludes(n) /\ h.groups[n] = g.groups[n]
              \/ \E s \in Excluding :
                   /\ GroupName(s.id) = n
                   /\ DOMAIN h.groups[n] = GroupShape /\ h.groups[n].type = g.groups[n].type
                   /\ h.groups[n].hidden = g.groups[n].hidden /\ h.groups[n].uses = {}
                   /\ h.groups[n].members = {copied(m, s) : m \in g.groups[n].members}
                   /\ h.groups[n].members # {}
                   /\ \A m \in h.groups[n].members :
                        (m \in Builtins /\ m \in g.groups[n].members) \/ IsCopy(m, s.excluded)
  <2>1. CASE ~excludes(n)
    BY <1>8, <2>1
  <2>2. CASE excludes(n)
    <3> DEFINE s == chosen(n)
               image == {copied(m, s) : m \in g.groups[n].members}
    <3>1. s \in Excluding /\ GroupName(s.id) = n
      BY <2>2
    <3>2. h.groups[n] = [g.groups[n] EXCEPT !.members = image]
      BY <1>8, <2>2
    <3> HIDE DEF s, chosen
    <3>3. DOMAIN g.groups[n] = GroupShape
      BY DEF Typed, Grounded
    <3>4. /\ g.groups[n].members # {} /\ g.groups[n].uses = {}
          /\ \A m \in g.groups[n].members \ Builtins : Filterable(g, m)
      BY <1>3, <3>1
    <3>5. image # {} /\ \A m \in image : (m \in Builtins /\ m \in g.groups[n].members) \/ IsCopy(m, s.excluded)
      <4>1. ASSUME NEW m \in g.groups[n].members
            PROVE  LET c == copied(m, s)
                   IN  (c \in Builtins /\ c \in g.groups[n].members) \/ IsCopy(c, s.excluded)
        <5>1. m \in Builtins \/ Filterable(g, m)
          BY <3>4
        <5> QED
          BY <1>9, <5>1
      <4> QED
        BY <3>4, <4>1
    <3>6. image = {copied(m, s) : m \in g.groups[n].members}
      OBVIOUS
    <3> HIDE DEF image
    <3>7. /\ DOMAIN h.groups[n] = GroupShape /\ h.groups[n].type = g.groups[n].type
          /\ h.groups[n].hidden = g.groups[n].hidden /\ h.groups[n].uses = {} /\ h.groups[n].members = image
      BY <3>2, <3>3, <3>4 DEF GroupShape
    <3> QED
      BY <3>1, <3>5, <3>6, <3>7
  <2> QED
    BY <2>1, <2>2
<1> HIDE DEF old, rewritten
<1>11. Grounded(h)
  <2>1. Finite(h)
    <3>1. IsFiniteSet(D)
      BY DEF Typed, Grounded, Finite
    <3> HIDE DEF D
    <3> QED
      BY <1>7, <1>8, <3>1, FS_Union DEF Finite
  <2> SUFFICES ASSUME NEW n \in DOMAIN h.groups
               PROVE  /\ n \notin Builtins /\ DOMAIN h.groups[n] = GroupShape
                      /\ n[1] = "group" => \E i \in DOMAIN GroupSpecs : n = GroupName(GroupSpecs[i].id)
    BY <2>1 DEF Grounded
  <2>2. CASE n \in D
    <3>1. /\ n \notin Builtins /\ DOMAIN g.groups[n] = GroupShape
          /\ n[1] = "group" => \E i \in DOMAIN GroupSpecs : n = GroupName(GroupSpecs[i].id)
      BY <2>2 DEF Typed, Grounded
    <3>2. DOMAIN h.groups[n] = GroupShape
      BY <1>10, <2>2, <3>1
    <3> QED
      BY <3>1, <3>2
  <2>3. CASE n \in DOMAIN new
    <3>1. Copied(n, h.groups[n])
      BY <1>7, <1>8, <2>3
    <3>2. n[1] \in CopyKinds /\ DOMAIN h.groups[n] = GroupShape
      BY <3>1 DEF Copied
    <3> QED
      BY <3>2, BuiltinsApart, KindsApart
  <2> QED
    BY <1>8, <2>2, <2>3
<1>12. Standing(h)
  <2> SUFFICES ASSUME NEW n \in DOMAIN h.groups
               PROVE  h.groups[n].type \in Automatic \/ h.groups[n].members # {} \/ OwnLeaf(h, n)
    BY DEF Standing
  <2>1. CASE n \in D
    <3>1. g.groups[n].type \in Automatic \/ g.groups[n].members # {} \/ OwnLeaf(g, n)
      BY <2>1 DEF Typed, Standing
    <3>2. h.groups[n] = g.groups[n] => (OwnLeaf(g, n) => OwnLeaf(h, n))
      BY <1>1 DEF OwnLeaf
    <3>3. h.groups[n] = g.groups[n] \/ h.groups[n].members # {}
      BY <1>10, <2>1
    <3> QED
      BY <3>1, <3>2, <3>3
  <2>2. CASE n \in DOMAIN new
    BY <1>7, <1>8, <2>2 DEF Copied
  <2> QED
    BY <1>8, <2>1, <2>2
<1>13. DirectDeclared(h)
  <2> SUFFICES ASSUME NEW n \in DOMAIN h.groups, Direct \in h.groups[n].members
               PROVE  n \in D /\ Direct \in g.groups[n].members
    BY DEF DirectDeclared, Typed
  <2>1. \A excluded : ~IsCopy(Direct, excluded) /\ Direct # Reject
    <3>1. Direct \in Builtins
      BY DEF Builtins
    <3>2. Direct[1] \notin CopyKinds
      BY <3>1, BuiltinsApart
    <3>3. Direct[1] = "DIRECT" /\ Reject[1] = "REJECT"
      BY DEF Direct, Reject
    <3> QED
      BY <3>2, <3>3 DEF IsCopy
  <2>2. CASE n \in D
    BY <1>10, <2>1, <2>2
  <2>3. CASE n \in DOMAIN new
    BY <1>7, <1>8, <2>1, <2>3 DEF Copied
  <2> QED
    BY <1>8, <2>2, <2>3
<1>14. Sealed(h)
  <2> SUFFICES ASSUME NEW n \in DOMAIN h.groups, n[1] \in CopyKinds
               PROVE  /\ h.groups[n].hidden
                      /\ \A m \in h.groups[n].members : m = Reject \/ IsCopy(m, ExcludedBy(n))
                      /\ h.groups[n].uses = {} \/ ExcludedBy(n) \subseteq h.groups[n].without
    BY DEF Sealed
  <2>1. n \notin D
    <3>1. n[1] \notin Kinds
      BY DEF CopyKinds, Kinds
    <3> QED
      BY <3>1 DEF Typed
  <2> QED
    BY <1>7, <1>8, <2>1 DEF Copied
<1>15. Diverted(h)
  <2>1. ASSUME NEW i \in DOMAIN RouteSpecs, RouteSpecs[i].excluded # {}
        PROVE  IsCopy(h.routes[i], RouteSpecs[i].excluded)
    <3>1. i \in ExcludingRoutes /\ i \in DOMAIN g.routes
      BY <2>1 DEF ExcludingRoutes, Typed
    <3>2. h.routes[i] = copied(g.routes[i], RouteSpecs[i])
      BY <1>1, <3>1
    <3>3. g.routes[i] \notin Builtins /\ Filterable(g, g.routes[i])
      BY <1>2, <1>4, <3>1
    <3> QED
      BY <1>9, <3>2, <3>3
  <2>2. ASSUME NEW i \in DOMAIN GroupSpecs, GroupSpecs[i].excluded # {}, GroupName(GroupSpecs[i].id) \in DOMAIN h.groups
        PROVE  OnlyCopies(h, GroupName(GroupSpecs[i].id), GroupSpecs[i].excluded)
    <3> DEFINE n == GroupName(GroupSpecs[i].id)
    <3>1. GroupSpecs[i] \in Excluding
      BY <2>2 DEF Excluding, External
    <3>2. excludes(n) /\ n \in D
      BY <1>3, <3>1
    <3>3. PICK s \in Excluding :
            /\ GroupName(s.id) = n /\ h.groups[n].uses = {}
            /\ \A m \in h.groups[n].members : (m \in Builtins /\ m \in g.groups[n].members) \/ IsCopy(m, s.excluded)
      <4> HIDE DEF n, excludes
      <4> QED
        BY <1>10, <3>2
    <3>4. s = GroupSpecs[i]
      BY <3>1, <3>3, DeclarationsApart DEF Excluding
    <3> QED
      BY <3>3, <3>4 DEF OnlyCopies
  <2> QED
    BY <2>1, <2>2 DEF Diverted
<1> QED
  BY <1>11, <1>12, <1>13, <1>14, <1>15 DEF Guarded, h

---------------------------------------------------------------------------
(* The graph before the copies: what is generated for pools and declared     *)
(* groups, and what the group semantics make of it.                          *)

PoolKinds == {"auto", "fallback", "closed", "pool"}

\* A group the generator makes for a pool.
PoolGroup(n, group) ==
  /\ n[1] \in PoolKinds
  /\ DOMAIN group = GroupShape
  /\ IsFiniteSet(group.members) /\ \A m \in group.members : m = Reject \/ m[1] \in PoolKinds
  /\ group.type \in Automatic \/ group.members # {}
  /\ group.type = "url-test" => group.members = {}
  /\ group.type = "fallback" => group.uses = {}

LEMMA PoolNames ==
  ASSUME NEW id, NEW r
  PROVE  /\ AutoName(id, r)[1] = "auto" /\ FallbackName(id)[1] = "fallback"
         /\ ClosedName(id)[1] = "closed" /\ PoolName(id)[1] = "pool"
BY DEF AutoName, FallbackName, ClosedName, PoolName

LEMMA AnchorKind ==
  ASSUME NEW pool, NEW kept
  PROVE  Anchor(pool, kept)[1] \in PoolKinds
<1>1. \/ Anchor(pool, kept) = ClosedName(pool.id) \/ Anchor(pool, kept) = FallbackName(pool.id)
      \/ Anchor(pool, kept) = AutoName(pool.id, CHOOSE r \in Chain(pool, kept) : TRUE)
  BY DEF Anchor
<1> QED
  BY <1>1, PoolNames DEF PoolKinds

LEMMA PoolGroupsOf ==
  ASSUME NEW pool \in EnabledPools, NEW kept
  PROVE  LET made == PoolGroups(pool, kept)
         IN  IsFiniteSet(DOMAIN made) /\ \A n \in DOMAIN made : PoolGroup(n, made[n])
<1> DEFINE filled == Filled(pool, kept)
           names  == {AutoName(pool.id, r) : r \in filled}
           one(n) == Group("url-test", TRUE, {}, {<<n[2], n[3]>>})
           auto   == [n \in names |-> one(n)]
           anchor == Anchor(pool, kept)
           select == Group("select", FALSE, {anchor}, {})
           public == Only(PoolName(pool.id), select)
           both   == Over(public, auto)
           group  == AnchorGroup(pool, Chain(pool, kept))
           last   == Only(anchor, group)
           made   == PoolGroups(pool, kept)
<1>1. made = both \/ made = Over(both, last)
  BY DEF PoolGroups
<1>2. IsFiniteSet(filled)
  <2>1. IsFiniteSet(pool.regions)
    BY DeclarationsAssumption DEF EnabledPools
  <2> QED
    BY <2>1, FS_Subset DEF Filled
<1> HIDE DEF filled, made
<1>3. DOMAIN auto = names /\ IsFiniteSet(names) /\ \A n \in DOMAIN auto : PoolGroup(n, auto[n])
  <2>1. IsFiniteSet(names)
    <3> DEFINE f == [r \in filled |-> AutoName(pool.id, r)]
    <3>1. DOMAIN f = filled /\ names = {f[r] : r \in filled}
      OBVIOUS
    <3> HIDE DEF f, names
    <3> QED
      BY <1>2, <3>1, FiniteImage
  <2>2. ASSUME NEW n \in names
        PROVE  PoolGroup(n, one(n))
    <3>1. n[1] = "auto"
      BY PoolNames
    <3>2. DOMAIN one(n) = GroupShape /\ one(n).members = {} /\ one(n).type = "url-test"
      BY DEF Group, GroupShape
    <3> HIDE DEF one
    <3> QED
      BY <3>1, <3>2, FS_EmptySet DEF PoolGroup, PoolKinds, Automatic
  <2> HIDE DEF one, names
  <2> QED
    BY <2>1, <2>2
<1>4. DOMAIN public = {PoolName(pool.id)} /\ IsFiniteSet(DOMAIN public) /\ \A n \in DOMAIN public : PoolGroup(n, public[n])
  <2>1. DOMAIN public = {PoolName(pool.id)} /\ public[PoolName(pool.id)] = select
    BY OnlyOf
  <2>2. /\ DOMAIN select = GroupShape /\ select.members = {anchor} /\ select.type = "select" /\ select.uses = {}
    BY DEF Group, GroupShape
  <2>3. anchor[1] \in PoolKinds /\ PoolName(pool.id)[1] \in PoolKinds
    BY AnchorKind, PoolNames DEF PoolKinds
  <2>4. IsFiniteSet({anchor}) /\ IsFiniteSet({PoolName(pool.id)})
    BY FS_Singleton
  <2> HIDE DEF select, anchor, public
  <2>5. PoolGroup(PoolName(pool.id), select)
    BY <2>2, <2>3, <2>4 DEF PoolGroup
  <2> QED
    BY <2>1, <2>4, <2>5
<1>5. DOMAIN last = {anchor} /\ IsFiniteSet(DOMAIN last) /\ \A n \in DOMAIN last : PoolGroup(n, last[n])
  <2>1. DOMAIN last = {anchor} /\ last[anchor] = group
    BY OnlyOf
  <2>2. anchor[1] \in PoolKinds
    BY AnchorKind
  <2>3. IsFiniteSet({anchor}) /\ IsFiniteSet({Reject})
    BY FS_Singleton
  <2> DEFINE closed == Group("select", TRUE, {Reject}, {})
             members == {AutoName(pool.id, r) : r \in Chain(pool, kept)}
             fallback == Group("fallback", TRUE, members, {})
  <2>4. group = closed \/ group = fallback
    BY DEF AnchorGroup
  <2>5. /\ DOMAIN closed = GroupShape /\ closed.members = {Reject} /\ closed.type = "select" /\ closed.uses = {}
        /\ DOMAIN fallback = GroupShape /\ fallback.members = members /\ fallback.type = "fallback" /\ fallback.uses = {}
    BY DEF Group, GroupShape
  <2>6. IsFiniteSet(members) /\ \A m \in members : m[1] \in PoolKinds
    <3>1. members \subseteq names
      BY DEF Chain, filled
    <3>2. \A m \in members : m[1] = "auto"
      BY PoolNames
    <3> HIDE DEF members, names
    <3> QED
      BY <1>3, <3>1, <3>2, FS_Subset DEF PoolKinds
  <2> HIDE DEF closed, fallback, members, group, anchor, last
  <2>7. PoolGroup(anchor, group)
    <3>1. CASE group = closed
      BY <2>2, <2>3, <2>5, <3>1 DEF PoolGroup
    <3>2. CASE group = fallback
      BY <2>2, <2>5, <2>6, <3>2 DEF PoolGroup, Automatic
    <3> QED
      BY <2>4, <3>1, <3>2
  <2> QED
    BY <2>1, <2>3, <2>7
<1> HIDE DEF auto, public, last, group, anchor
<1>6. IsFiniteSet(DOMAIN both) /\ \A n \in DOMAIN both : PoolGroup(n, both[n])
  <2>1. /\ DOMAIN both = DOMAIN public \cup DOMAIN auto
        /\ \A x \in DOMAIN public : both[x] = public[x]
        /\ \A x \in (DOMAIN auto) \ (DOMAIN public) : both[x] = auto[x]
    BY OverOf
  <2> HIDE DEF both
  <2>2. IsFiniteSet(DOMAIN public \cup DOMAIN auto)
    BY <1>3, <1>4, FS_Union
  <2> QED
    BY <1>3, <1>4, <2>1, <2>2
<1> HIDE DEF both
<1>7. IsFiniteSet(DOMAIN Over(both, last)) /\ \A n \in DOMAIN Over(both, last) : PoolGroup(n, Over(both, last)[n])
  <2> DEFINE all == Over(both, last)
  <2>1. /\ DOMAIN all = DOMAIN both \cup DOMAIN last
        /\ \A x \in DOMAIN both : all[x] = both[x]
        /\ \A x \in (DOMAIN last) \ (DOMAIN both) : all[x] = last[x]
    BY OverOf
  <2> HIDE DEF all
  <2>2. IsFiniteSet(DOMAIN both \cup DOMAIN last)
    BY <1>5, <1>6, FS_Union
  <2>3. IsFiniteSet(DOMAIN all) /\ \A n \in DOMAIN all : PoolGroup(n, all[n])
    BY <1>5, <1>6, <2>1, <2>2
  <2> QED
    BY <2>3 DEF all
<1> QED
  BY <1>1, <1>6, <1>7 DEF made

\* What the generator makes of the declared groups and of the pools.
LEMMA GeneratedGroups ==
  ASSUME NEW kept
  PROVE  LET g == Generated(kept)
         IN  /\ Finite(g) /\ DOMAIN g = GraphFields /\ DOMAIN g.routes = DOMAIN RouteSpecs
             /\ \A n \in DOMAIN g.groups :
                  \/ PoolGroup(n, g.groups[n])
                  \/ \E s \in External :
                       /\ n = GroupName(s.id)
                       /\ g.groups[n] = Group("select", FALSE, {Member(g.anchors, m) : m \in s.members}, {})
                       /\ \A m \in s.members : Member(g.anchors, m) \in Builtins \/ Member(g.anchors, m)[1] \in Kinds
             /\ \A id \in DOMAIN g.anchors : g.anchors[id][1] \in PoolKinds
<1> DEFINE anchors  == [id \in {pool.id : pool \in EnabledPools} |-> Anchor(CHOOSE pool \in EnabledPools : pool.id = id, kept)]
           poolmaps == {PoolGroups(pool, kept) : pool \in EnabledPools}
           pools    == Merged(poolmaps)
           resolved == Resolved(anchors, DOMAIN pools)
           only(s)  == Only(GroupName(s.id), Group("select", FALSE, {Member(anchors, m) : m \in s.members}, {}))
           onlys    == {only(s) : s \in resolved}
           external == Merged(onlys)
           g        == Generated(kept)
<1>1. /\ g.groups = Over(pools, external) /\ g.anchors = anchors /\ DOMAIN g = GraphFields
      /\ DOMAIN g.routes = DOMAIN RouteSpecs
  BY DEF Generated, GraphFields
<1>2. \A id \in DOMAIN anchors : anchors[id][1] \in PoolKinds
  BY AnchorKind
<1>3. IsFiniteSet(DOMAIN pools) /\ \A n \in DOMAIN pools : PoolGroup(n, pools[n])
  <2>1. IsFiniteSet(poolmaps)
    <3> DEFINE f == [pool \in EnabledPools |-> PoolGroups(pool, kept)]
    <3>1. IsFiniteSet(EnabledPools)
      BY DeclarationsAssumption, FiniteImage DEF EnabledPools
    <3>2. DOMAIN f = EnabledPools /\ poolmaps = {f[pool] : pool \in EnabledPools}
      OBVIOUS
    <3> HIDE DEF f, poolmaps
    <3> QED
      BY <3>1, <3>2, FiniteImage
  <2>2. \A m \in poolmaps : IsFiniteSet(DOMAIN m) /\ \A n \in DOMAIN m : PoolGroup(n, m[n])
    BY PoolGroupsOf
  <2> HIDE DEF poolmaps
  <2>3. IsFiniteSet(DOMAIN pools)
    BY <2>1, <2>2, FiniteMerge
  <2>4. ASSUME NEW n \in DOMAIN pools PROVE PoolGroup(n, pools[n])
    <3>1. PICK m \in poolmaps : n \in DOMAIN m /\ pools[n] = m[n]
      BY MergedOf
    <3> HIDE DEF pools
    <3> QED
      BY <2>2, <3>1
  <2> QED
    BY <2>3, <2>4
<1> HIDE DEF g, anchors, pools, poolmaps
<1>4. ASSUME NEW s \in resolved
      PROVE  /\ s \in External
             /\ \A m \in s.members : Member(anchors, m) \in Builtins \/ Member(anchors, m)[1] \in Kinds
  <2>1. s \in External /\ \A m \in s.members : Member(anchors, m) \in Builtins \cup DOMAIN pools \cup {GroupName(t.id) : t \in External}
    BY ResolvedAreDeclared
  <2>2. \A n \in DOMAIN pools : n[1] \in Kinds
    BY <1>3 DEF PoolGroup, PoolKinds, Kinds
  <2>3. \A n \in {GroupName(t.id) : t \in External} : n[1] \in Kinds
    BY KindsApart DEF Kinds
  <2> QED
    BY <2>1, <2>2, <2>3
<1>5. /\ IsFiniteSet(DOMAIN external)
      /\ \A n \in DOMAIN external : \E s \in resolved :
           n = GroupName(s.id) /\ external[n] = Group("select", FALSE, {Member(anchors, m) : m \in s.members}, {})
  <2>1. \A s \in resolved : /\ DOMAIN only(s) = {GroupName(s.id)}
                            /\ only(s)[GroupName(s.id)] = Group("select", FALSE, {Member(anchors, m) : m \in s.members}, {})
    BY OnlyOf
  <2>2. IsFiniteSet(onlys)
    <3> DEFINE f == [s \in resolved |-> only(s)]
    <3>1. IsFiniteSet(resolved)
      BY <1>4, ExternalFinite, FS_Subset
    <3>2. DOMAIN f = resolved /\ onlys = {f[s] : s \in resolved}
      OBVIOUS
    <3> HIDE DEF f, onlys, resolved
    <3> QED
      BY <3>1, <3>2, FiniteImage
  <2> HIDE DEF only
  <2>3. \A m \in onlys : \E s \in resolved : m = only(s)
    OBVIOUS
  <2>4. \A m \in onlys : IsFiniteSet(DOMAIN m)
    <3> SUFFICES ASSUME NEW s \in resolved PROVE IsFiniteSet(DOMAIN only(s))
      BY <2>3
    <3>1. DOMAIN only(s) = {GroupName(s.id)}
      BY <2>1
    <3> QED
      BY <3>1, FS_Singleton
  <2> HIDE DEF onlys
  <2>5. IsFiniteSet(DOMAIN external)
    BY <2>2, <2>4, FiniteMerge
  <2>6. ASSUME NEW n \in DOMAIN external
        PROVE  \E s \in resolved :
                 n = GroupName(s.id) /\ external[n] = Group("select", FALSE, {Member(anchors, m) : m \in s.members}, {})
    <3>1. PICK m \in onlys : n \in DOMAIN m /\ external[n] = m[n]
      BY MergedOf
    <3>2. PICK s \in resolved : m = only(s)
      BY <2>3
    <3>3. n = GroupName(s.id)
      BY <2>1, <3>1, <3>2
    <3>4. external[n] = only(s)[GroupName(s.id)]
      BY <3>1, <3>2, <3>3
    <3> HIDE DEF external
    <3> QED
      BY <2>1, <3>3, <3>4
  <2> QED
    BY <2>5, <2>6
<1> HIDE DEF external, resolved
<1>6. /\ DOMAIN g.groups = DOMAIN pools \cup DOMAIN external
      /\ \A n \in DOMAIN pools : g.groups[n] = pools[n]
      /\ \A n \in (DOMAIN external) \ (DOMAIN pools) : g.groups[n] = external[n]
  <2>1. /\ DOMAIN Over(pools, external) = DOMAIN pools \cup DOMAIN external
        /\ \A x \in DOMAIN pools : Over(pools, external)[x] = pools[x]
        /\ \A x \in (DOMAIN external) \ (DOMAIN pools) : Over(pools, external)[x] = external[x]
    BY OverOf
  <2> QED
    BY <1>1, <2>1
<1>7. Finite(g)
  <2> DEFINE first == DOMAIN pools
             rest == DOMAIN external
  <2>1. IsFiniteSet(first) /\ IsFiniteSet(rest) /\ DOMAIN g.groups = first \cup rest
    BY <1>3, <1>5, <1>6
  <2> HIDE DEF first, rest
  <2> QED
    BY <2>1, FS_Union DEF Finite
<1>8. ASSUME NEW n \in DOMAIN g.groups
      PROVE  \/ PoolGroup(n, g.groups[n])
             \/ \E s \in External :
                  /\ n = GroupName(s.id)
                  /\ g.groups[n] = Group("select", FALSE, {Member(g.anchors, m) : m \in s.members}, {})
                  /\ \A m \in s.members : Member(g.anchors, m) \in Builtins \/ Member(g.anchors, m)[1] \in Kinds
  <2>1. CASE n \in DOMAIN pools
    BY <1>3, <1>6, <2>1
  <2>2. CASE n \in DOMAIN external \ DOMAIN pools
    <3>1. PICK s \in resolved : n = GroupName(s.id) /\ external[n] = Group("select", FALSE, {Member(anchors, m) : m \in s.members}, {})
      BY <1>5, <2>2
    <3>2. s \in External /\ \A m \in s.members : Member(g.anchors, m) \in Builtins \/ Member(g.anchors, m)[1] \in Kinds
      BY <1>1, <1>4
    <3>3. g.groups[n] = Group("select", FALSE, {Member(g.anchors, m) : m \in s.members}, {})
      BY <1>1, <1>6, <2>2, <3>1
    <3> QED
      BY <3>1, <3>2, <3>3
  <2> QED
    BY <1>6, <2>1, <2>2
<1> QED
  BY <1>1, <1>2, <1>7, <1>8 DEF g

Lasting(m) == m[1] = "group" => \A j \in DOMAIN GroupSpecs : GroupSpecs[j].omit => m[2] # GroupName(GroupSpecs[j].id)

\* What the generator makes, and what is in the pools.
Raw(g) ==
  /\ Finite(g) /\ DOMAIN g = GraphFields /\ DOMAIN g.routes = DOMAIN RouteSpecs
  /\ \A n \in DOMAIN g.groups :
       \/ PoolGroup(n, g.groups[n])
       \/ \E s \in External :
            /\ n = GroupName(s.id)
            /\ g.groups[n] = Group("select", FALSE, {Member(g.anchors, m) : m \in s.members}, {})
            /\ \A m \in s.members : Member(g.anchors, m) \in Builtins \/ Member(g.anchors, m)[1] \in Kinds
  /\ \A id \in DOMAIN g.anchors : g.anchors[id][1] \in PoolKinds
  /\ \A p \in DOMAIN g.providers : g.providers[p] # {} /\ \A x \in g.providers[p] : x.name \in Names

LEMMA DeclaredAs ==
  ASSUME NEW s \in External
  PROVE  /\ s.route # None => Lasting(s.route)
         /\ s.route = None /\ s.type \notin Automatic =>
              (\E m \in s.members : Lasting(m)) \/ (s.provider # "" /\ s.region \in {"", "*"})
         /\ s.type \in Automatic => s.members = {} \/ s.provider = ""
         /\ s.excluded # {} => s.provider = ""
         /\ IsFiniteSet(s.members)
         /\ \A m \in s.members \cup ({s.route} \ {None}) :
              m \in {<<"builtin", b>> : b \in Builtins} \/ (m[1] = "group" /\ m[2][1] \in {"group", "pool"}) \/ m[1] = "pool"
<1>1. PICK i \in DOMAIN GroupSpecs : s = GroupSpecs[i]
  BY DEF External
<1>2. /\ s.route # None => Lasting(s.route)
      /\ s.route = None /\ s.type \notin Automatic =>
           (\E m \in s.members : Lasting(m)) \/ (s.provider # "" /\ s.region \in {"", "*"})
      /\ s.type \in Automatic => s.members = {} \/ s.provider = ""
      /\ s.excluded # {} => s.provider = ""
  BY <1>1, ManifestAssumption DEF Lasting, Automatic
<1> QED
  BY <1>1, <1>2, DeclarationsAssumption

LEMMA OmittedKinds ==
  ASSUME NEW g, NEW n \in Omitted(g)
  PROVE  n[1] = "group" /\ n \notin Builtins /\ \E s \in External : s.omit /\ n = GroupName(s.id)
<1>1. PICK s \in External : s.omit /\ n = GroupName(s.id)
  BY DEF Omitted
<1>2. n[1] = "group"
  BY <1>1, KindsApart
<1> QED
  BY <1>1, <1>2, BuiltinsApart DEF Kinds

\* What a declared member stands for, in a group and as a next hop.
LEMMA MemberOf ==
  ASSUME NEW g, Raw(g), NEW s \in External, NEW m \in s.members \cup ({s.route} \ {None})
  PROVE  /\ Member(g.anchors, m) = Direct \/ RouteMember(m) = Direct => m = <<"builtin", Direct>>
         /\ RouteMember(m) \in Builtins \/ RouteMember(m)[1] \in Kinds
         /\ Lasting(m) => Member(g.anchors, m) \notin Omitted(g) /\ RouteMember(m) \notin Omitted(g)
<1> DEFINE x == Member(g.anchors, m)
           y == RouteMember(m)
<1>0. Direct[1] = "DIRECT" /\ None[1] = "none"
  BY DEF Direct, None
<1>1. CASE m \in {<<"builtin", b>> : b \in Builtins}
  <2>1. PICK b \in Builtins : m = <<"builtin", b>>
    BY <1>1
  <2>2. m[1] = "builtin" /\ m[2] = b
    BY <2>1
  <2>3. x = b /\ y = b
    BY <2>2 DEF Member, RouteMember
  <2>4. b \notin Omitted(g)
    BY OmittedKinds
  <2> HIDE DEF x, y
  <2> QED
    BY <2>1, <2>3, <2>4 DEF x, y
<1>2. CASE m[1] = "group" /\ m[2][1] \in {"group", "pool"}
  <2>1. x = m[2] /\ y = m[2]
    BY <1>2 DEF Member, RouteMember
  <2>2. m[2] # Direct /\ m[2][1] \in Kinds
    BY <1>0, <1>2 DEF Kinds
  <2>3. Lasting(m) => m[2] \notin Omitted(g)
    <3> SUFFICES ASSUME Lasting(m), m[2] \in Omitted(g) PROVE FALSE
      OBVIOUS
    <3>1. PICK t \in External : t.omit /\ m[2] = GroupName(t.id)
      BY OmittedKinds
    <3>2. PICK j \in DOMAIN GroupSpecs : t = GroupSpecs[j]
      BY DEF External
    <3> QED
      BY <1>2, <3>1, <3>2 DEF Lasting
  <2> HIDE DEF x, y
  <2> QED
    BY <2>1, <2>2, <2>3 DEF x, y
<1>3. CASE m[1] = "pool"
  <2>1. y = PoolName(m[2]) /\ y[1] = "pool"
    BY <1>3, PoolNames DEF RouteMember
  <2>2. x[1] \in PoolKinds \cup {"none"}
    <3>1. (x = g.anchors[m[2]] /\ m[2] \in DOMAIN g.anchors) \/ x = None
      BY <1>3 DEF Member
    <3> HIDE DEF x
    <3> QED
      BY <1>0, <3>1 DEF Raw
  <2>3. \A n \in Omitted(g) : n[1] = "group"
    BY OmittedKinds
  <2> HIDE DEF x, y
  <2>4. x # Direct /\ y # Direct /\ y[1] \in Kinds
    BY <1>0, <2>1, <2>2 DEF PoolKinds, Kinds
  <2>5. x \notin Omitted(g) /\ y \notin Omitted(g)
    BY <2>1, <2>2, <2>3 DEF PoolKinds
  <2> QED
    BY <2>4, <2>5 DEF x, y
<1> QED
  BY <1>1, <1>2, <1>3, DeclaredAs

\* A declared group once it has its type: what stays of it without the omitted.
Placed(g, s, group) ==
  /\ DOMAIN group = GroupShape
  /\ IsFiniteSet(group.members) /\ \A m \in group.members : m \in Builtins \/ m[1] \in Kinds
  /\ group.type = "url-test" => group.members = {} \/ group.uses = {}
  /\ group.type = "fallback" => group.uses = {}
  /\ s.excluded # {} => group.uses = {}
  /\ Direct \in group.members => <<"builtin", Direct>> \in s.members \cup {s.route}
  /\ \/ group.type \in Automatic
     \/ \E m \in group.members : m \notin Omitted(g)
     \/ \E p \in group.uses \cap DOMAIN g.providers : \E x \in g.providers[p] : Passes(group, x)

LEMMA RetypedIsPlaced ==
  ASSUME NEW g, Raw(g), NEW s \in External, GroupName(s.id) \in DOMAIN g.groups, ~RetypeRefused(g, s)
  PROVE  Placed(g, s, Retyped(g, s))
<1> DEFINE n == GroupName(s.id)
           old == g.groups[n]
           members == {Member(g.anchors, m) : m \in s.members}
           r == Retyped(g, s)
<1>1. /\ old = Group("select", FALSE, members, {})
      /\ \A m \in members : m \in Builtins \/ m[1] \in Kinds
  <2>1. ~PoolGroup(n, old)
    BY KindsApart DEF PoolGroup, PoolKinds
  <2>2. PICK t \in External :
          /\ n = GroupName(t.id)
          /\ old = Group("select", FALSE, {Member(g.anchors, m) : m \in t.members}, {})
          /\ \A m \in t.members : Member(g.anchors, m) \in Builtins \/ Member(g.anchors, m)[1] \in Kinds
    BY <2>1 DEF Raw
  <2>3. t = s
    BY <2>2, DeclarationsApart
  <2> QED
    BY <2>2, <2>3
<1>2. /\ DOMAIN old = GroupShape /\ old.members = members /\ old.uses = {}
      /\ old.only = Names /\ old.without = {}
  BY <1>1 DEF Group, GroupShape
<1>3. IsFiniteSet(members)
  <2> DEFINE f == [m \in s.members |-> Member(g.anchors, m)]
  <2>1. DOMAIN f = s.members /\ members = {f[m] : m \in s.members} /\ IsFiniteSet(s.members)
    BY DeclaredAs
  <2> HIDE DEF f, members
  <2> QED
    BY <2>1, FiniteImage
<1>4. Direct \in members => <<"builtin", Direct>> \in s.members
  BY MemberOf
<1>5. \A m \in s.members : Lasting(m) => Member(g.anchors, m) \in members /\ Member(g.anchors, m) \notin Omitted(g)
  BY MemberOf
<1> DEFINE typed == [old EXCEPT !.hidden = @ \/ s.hidden, !.type = s.type]
           offered == ProviderOrder(g, PoolName(s.provider))
<1>6. CASE s.route # None
  <2> DEFINE hop == Group("select", TRUE, {RouteMember(s.route)}, {})
  <2>1. r = hop
    BY <1>6 DEF Retyped
  <2>2. DOMAIN hop = GroupShape /\ hop.members = {RouteMember(s.route)} /\ hop.uses = {} /\ hop.type = "select"
    BY DEF Group, GroupShape
  <2>3. /\ RouteMember(s.route) = Direct => s.route = <<"builtin", Direct>>
        /\ RouteMember(s.route) \in Builtins \/ RouteMember(s.route)[1] \in Kinds
        /\ RouteMember(s.route) \notin Omitted(g)
    <3>1. s.route \in s.members \cup ({s.route} \ {None}) /\ Lasting(s.route)
      BY <1>6, DeclaredAs
    <3> QED
      BY <3>1, MemberOf
  <2>4. IsFiniteSet({RouteMember(s.route)})
    BY FS_Singleton
  <2> HIDE DEF hop, r
  <2>5. Placed(g, s, hop)
    BY <2>2, <2>3, <2>4 DEF Placed
  <2> QED
    BY <2>1, <2>5 DEF r
<1>7. CASE s.route = None /\ s.provider # ""
  <2> DEFINE made == [typed EXCEPT !.uses = offered, !.only = Region(s), !.filtered = s.region # ""]
  <2>1. r = made
    BY <1>7 DEF Retyped
  <2> HIDE DEF members, n, offered
  <2>2. /\ DOMAIN made = GroupShape /\ made.members = members /\ made.uses = offered /\ made.type = s.type
        /\ made.only = Region(s) /\ made.without = {}
    <3>1. /\ DOMAIN typed = GroupShape /\ typed.members = members /\ typed.type = s.type /\ typed.without = {}
      BY <1>2 DEF GroupShape
    <3> HIDE DEF typed
    <3> QED
      BY <3>1 DEF GroupShape
  <2>3. offered # {} /\ offered \subseteq DOMAIN g.providers
    BY <1>7 DEF RetypeRefused, ProviderOrder, offered
  <2>4. s.type \in Automatic => s.members = {}
    BY <1>7, DeclaredAs
  <2>5. s.type # "fallback" /\ s.excluded = {}
    BY <1>7, <2>4, DeclaredAs DEF RetypeRefused, Automatic
  <2>6. s.members = {} => members = {}
    BY DEF members
  <2> HIDE DEF made, r
  <2>7. \/ made.type \in Automatic
        \/ \E m \in members : m \notin Omitted(g)
        \/ \E p \in made.uses \cap DOMAIN g.providers : \E x \in g.providers[p] : Passes(made, x)
    <3>1. CASE s.type \in Automatic
      BY <2>2, <3>1
    <3>2. CASE s.type \notin Automatic /\ \E m \in s.members : Lasting(m)
      BY <1>5, <3>2
    <3>3. CASE s.region \in {"", "*"}
      <4>1. Region(s) = Names
        BY <3>3 DEF Region
      <4>2. PICK p \in offered : TRUE
        BY <2>3
      <4>3. p \in DOMAIN g.providers
        BY <2>3, <4>2
      <4>4. g.providers[p] # {} /\ \A x \in g.providers[p] : x.name \in Names
        BY <4>3 DEF Raw
      <4>5. PICK x \in g.providers[p] : x.name \in Names
        BY <4>4
      <4>6. Passes(made, x)
        BY <2>2, <4>1, <4>5 DEF Passes
      <4> QED
        BY <2>2, <4>2, <4>3, <4>5, <4>6
    <3> QED
      BY <1>7, <3>1, <3>2, <3>3, DeclaredAs
  <2>8. Placed(g, s, made)
    BY <1>1, <1>3, <1>4, <2>2, <2>4, <2>5, <2>6, <2>7 DEF Placed, Automatic
  <2> QED
    BY <2>1, <2>8 DEF r
<1>8. CASE s.route = None /\ s.provider = ""
  <2>1. r = typed
    BY <1>8 DEF Retyped
  <2> HIDE DEF members, n
  <2>2. /\ DOMAIN typed = GroupShape /\ typed.members = members /\ typed.uses = {} /\ typed.type = s.type
    BY <1>2 DEF GroupShape
  <2>3. s.type \in Automatic \/ \E m \in members : m \notin Omitted(g)
    BY <1>5, <1>8, DeclaredAs
  <2> HIDE DEF typed, r
  <2>4. Placed(g, s, typed)
    BY <1>1, <1>3, <1>4, <2>2, <2>3 DEF Placed
  <2> QED
    BY <2>1, <2>4 DEF r
<1> QED
  BY <1>6, <1>7, <1>8

LEMMA SemanticsType ==
  ASSUME NEW g, Raw(g), ~SemanticsRefused(g)
  PROVE  Typed(GroupSemantics(g))
<1> DEFINE D == DOMAIN g.groups
           gone == Omitted(g)
           internal == {PoolName(pool.id) : pool \in {pool \in EnabledPools : pool.internal}}
           declared(n) == \E s \in External : GroupName(s.id) = n
           chosen(n) == CHOOSE s \in External : GroupName(s.id) = n
           plain(n) == [g.groups[n] EXCEPT !.hidden = @ \/ n \in internal]
           typed(n) == IF declared(n) THEN Retyped(g, chosen(n)) ELSE plain(n)
           h == GroupSemantics(g)
<1>1. /\ h.groups = [n \in D \ gone |-> [typed(n) EXCEPT !.members = @ \ gone]]
      /\ h.providers = g.providers /\ h.routes = g.routes
  <2>1. h = [g EXCEPT !.groups = [n \in DOMAIN @ \ gone |-> [typed(n) EXCEPT !.members = @ \ gone]]]
    BY DEF GroupSemantics
  <2>2. DOMAIN g = GraphFields
    BY DEF Raw
  <2> HIDE DEF h, typed, gone
  <2> QED
    BY <2>1, <2>2 DEF GraphFields
<1> HIDE DEF h
<1>2. ASSUME NEW n \in D \ gone
      PROVE  LET group == h.groups[n]
             IN  /\ n[1] \in Kinds /\ DOMAIN group = GroupShape
                 /\ IsFiniteSet(group.members) /\ \A m \in group.members : m \in Builtins \/ m[1] \in Kinds
                 /\ group.type = "url-test" => group.members = {} \/ group.uses = {}
                 /\ group.type = "fallback" => group.uses = {}
                 /\ \/ group.type \in Automatic \/ group.members # {}
                    \/ \E p \in group.uses \cap DOMAIN g.providers : \E x \in g.providers[p] : Passes(group, x)
                 /\ Direct \in group.members => declared(n)
                 /\ \A s \in External : GroupName(s.id) = n =>
                      /\ Direct \in group.members => <<"builtin", Direct>> \in s.members \cup {s.route}
                      /\ s.excluded # {} => group.uses = {}
                 /\ n[1] = "group" => declared(n)
  <2>1. h.groups[n] = [typed(n) EXCEPT !.members = @ \ gone]
    BY <1>1
  <2>2. CASE declared(n)
    <3> DEFINE s == chosen(n)
               t == Retyped(g, s)
    <3>1. s \in External /\ GroupName(s.id) = n
      BY <2>2
    <3>2. h.groups[n] = [t EXCEPT !.members = @ \ gone]
      BY <2>1, <2>2
    <3> HIDE DEF s, chosen
    <3>3. Placed(g, s, t)
      BY <3>1, RetypedIsPlaced DEF SemanticsRefused
    <3>4. \A u \in External : GroupName(u.id) = n => u = s
      BY <3>1, DeclarationsApart
    <3>5. n[1] \in Kinds
      BY <3>1, KindsApart DEF Kinds
    <3> HIDE DEF t, typed
    <3>6. LET group == h.groups[n]
          IN  /\ DOMAIN group = GroupShape /\ group.members = t.members \ gone
              /\ group.type = t.type /\ group.uses = t.uses /\ group.only = t.only /\ group.without = t.without
      BY <3>2, <3>3 DEF Placed, GroupShape
    <3>7. IsFiniteSet(t.members \ gone)
      <4> DEFINE all == t.members
      <4>1. IsFiniteSet(all)
        BY <3>3 DEF Placed
      <4> HIDE DEF all
      <4>2. IsFiniteSet(all \ gone)
        BY <4>1, FS_Subset
      <4> QED
        BY <4>2 DEF all
    <3>8. LET group == h.groups[n]
          IN  \/ group.type \in Automatic \/ group.members # {}
              \/ \E p \in group.uses \cap DOMAIN g.providers : \E x \in g.providers[p] : Passes(group, x)
      <4>1. CASE t.type \in Automatic \/ \E m \in t.members : m \notin Omitted(g)
        BY <3>6, <4>1
      <4>2. CASE \E p \in t.uses \cap DOMAIN g.providers : \E x \in g.providers[p] : Passes(t, x)
        BY <3>6, <4>2 DEF Passes
      <4> QED
        BY <3>3, <4>1, <4>2 DEF Placed
    <3>9. LET group == h.groups[n]
          IN  /\ \A m \in group.members : m \in Builtins \/ m[1] \in Kinds
              /\ group.type = "url-test" => group.members = {} \/ group.uses = {}
              /\ group.type = "fallback" => group.uses = {}
              /\ Direct \in group.members => <<"builtin", Direct>> \in s.members \cup {s.route}
              /\ s.excluded # {} => group.uses = {}
      BY <3>3, <3>6 DEF Placed
    <3> HIDE DEF declared, gone
    <3> QED
      BY <2>2, <3>4, <3>5, <3>6, <3>7, <3>8, <3>9
  <2>3. CASE ~declared(n)
    <3>1. PoolGroup(n, g.groups[n])
      BY <2>3 DEF Raw
    <3>2. n[1] \in PoolKinds /\ DOMAIN g.groups[n] = GroupShape /\ \A m \in g.groups[n].members : m = Reject \/ m[1] \in PoolKinds
      BY <3>1 DEF PoolGroup
    <3>3. \A m \in g.groups[n].members : m \notin gone
      BY <3>2, OmittedKinds DEF Builtins, PoolKinds
    <3>4. h.groups[n] = [plain(n) EXCEPT !.members = @ \ gone]
      BY <2>1, <2>3
    <3> DEFINE p == plain(n)
    <3>5. DOMAIN p = GroupShape /\ p.members = g.groups[n].members /\ p.type = g.groups[n].type /\ p.uses = g.groups[n].uses
      BY <3>2 DEF GroupShape
    <3>6. h.groups[n] = [p EXCEPT !.members = @ \ gone]
      BY <3>4
    <3> HIDE DEF p, plain, typed, gone
    <3>7. LET group == h.groups[n]
          IN  /\ DOMAIN group = GroupShape /\ group.members = p.members \ gone /\ group.type = p.type /\ group.uses = p.uses
      BY <3>5, <3>6 DEF GroupShape
    <3>8. LET group == h.groups[n]
          IN  /\ group.members = g.groups[n].members /\ group.type = g.groups[n].type /\ group.uses = g.groups[n].uses
      BY <3>3, <3>5, <3>7
    <3>9. Direct \notin g.groups[n].members
      <4>1. Direct # Reject /\ Direct[1] \notin PoolKinds
        <5>1. Direct[1] = "DIRECT" /\ Reject[1] = "REJECT"
          BY DEF Direct, Reject
        <5> QED
          BY <5>1 DEF PoolKinds
      <4> QED
        BY <3>2, <4>1
    <3>10. n[1] \in Kinds /\ n[1] # "group" /\ \A m \in g.groups[n].members : m \in Builtins \/ m[1] \in Kinds
      BY <3>2 DEF PoolKinds, Kinds, Builtins
    <3>11. \A s \in External : GroupName(s.id) # n
      BY <2>3
    <3> HIDE DEF declared
    <3>12. /\ IsFiniteSet(g.groups[n].members)
           /\ g.groups[n].type = "url-test" => g.groups[n].members = {}
           /\ g.groups[n].type = "fallback" => g.groups[n].uses = {}
           /\ g.groups[n].type \in Automatic \/ g.groups[n].members # {}
      BY <3>1 DEF PoolGroup
    <3> QED
      BY <3>7, <3>8, <3>9, <3>10, <3>11, <3>12
  <2> QED
    BY <2>2, <2>3
<1>3. DOMAIN h.groups = D \ gone
  BY <1>1
<1> HIDE DEF gone
<1>4. \A n : declared(n) => \E i \in DOMAIN GroupSpecs : n = GroupName(GroupSpecs[i].id) /\ GroupSpecs[i] \in External
  BY DEF External
<1>5. Grounded(h)
  <2>1. Finite(h)
    <3>1. IsFiniteSet(D)
      BY DEF Raw, Finite
    <3> HIDE DEF D
    <3> QED
      BY <1>3, <3>1, FS_Subset DEF Finite
  <2>2. \A n \in DOMAIN h.groups : n \notin Builtins
    BY <1>2, <1>3, BuiltinsApart
  <2> QED
    BY <1>2, <1>3, <1>4, <2>1, <2>2 DEF Grounded
<1>6. Standing(h)
  BY <1>1, <1>2, <1>3 DEF Standing, OwnLeaf
<1>7. DirectDeclared(h)
  <2> SUFFICES ASSUME NEW n \in DOMAIN h.groups, Direct \in h.groups[n].members
               PROVE  \E i \in DOMAIN GroupSpecs :
                        GroupName(GroupSpecs[i].id) = n /\ <<"builtin", Direct>> \in GroupSpecs[i].members \cup {GroupSpecs[i].route}
    BY DEF DirectDeclared
  <2>1. declared(n) /\ \A s \in External : GroupName(s.id) = n => <<"builtin", Direct>> \in s.members \cup {s.route}
    BY <1>2, <1>3
  <2> HIDE DEF declared
  <2>2. PICK i \in DOMAIN GroupSpecs : n = GroupName(GroupSpecs[i].id) /\ GroupSpecs[i] \in External
    BY <1>4, <2>1
  <2> QED
    BY <2>1, <2>2
<1>8. \A i \in DOMAIN GroupSpecs :
        GroupSpecs[i].excluded # {} /\ GroupName(GroupSpecs[i].id) \in DOMAIN h.groups =>
          h.groups[GroupName(GroupSpecs[i].id)].uses = {}
  <2> SUFFICES ASSUME NEW i \in DOMAIN GroupSpecs, GroupSpecs[i].excluded # {}, GroupName(GroupSpecs[i].id) \in DOMAIN h.groups
               PROVE  h.groups[GroupName(GroupSpecs[i].id)].uses = {}
    OBVIOUS
  <2>1. GroupSpecs[i] \in External
    BY DEF External
  <2> QED
    BY <1>2, <1>3, <2>1
<1>9. DOMAIN h.routes = DOMAIN RouteSpecs
  BY <1>1 DEF Raw
<1>10. \A n \in DOMAIN h.groups :
         /\ n[1] \in Kinds /\ IsFiniteSet(h.groups[n].members)
         /\ \A m \in h.groups[n].members : m \in Builtins \/ m[1] \in Kinds
         /\ h.groups[n].type = "url-test" => h.groups[n].members = {} \/ h.groups[n].uses = {}
         /\ h.groups[n].type = "fallback" => h.groups[n].uses = {}
  BY <1>2, <1>3
<1> QED
  BY <1>5, <1>6, <1>7, <1>8, <1>9, <1>10 DEF Typed, h

---------------------------------------------------------------------------
(* Every route of a candidate, and every pool.                               *)

LEMMA GeneratedIsRaw ==
  ASSUME PayloadInv
  PROVE  Raw(Generated(Deduplicated(Offered)))
<1> DEFINE kept == Deduplicated(Offered)
           g == Generated(kept)
<1>1. ASSUME NEW p \in DOMAIN g.providers
      PROVE  g.providers[p] # {} /\ \A x \in g.providers[p] : x.name \in Names
  <2> HIDE DEF kept
  <2>1. PICK i \in DOMAIN Pools : \E r \in Filled(Pools[i], kept) : p = <<Pools[i].id, r>>
    BY ProvidersAreSelected
  <2>2. PICK r \in Filled(Pools[i], kept) : p = <<Pools[i].id, r>>
    BY <2>1
  <2>3. g.providers[p] = SelectNodes(kept, Pools[i], r)
    BY <2>2, ProvidersAreSelected
  <2>4. SelectNodes(kept, Pools[i], r) # {}
    BY DEF Filled
  <2>5. SelectNodes(kept, Pools[i], r) \subseteq Offered
    BY SelectionIsExact DEF kept
  <2> QED
    BY <2>3, <2>4, <2>5, Occurrences
<1> HIDE DEF kept
<1> QED
  BY <1>1, GeneratedGroups DEF Raw, kept

LEMMA ProvidersFinite ==
  ASSUME NEW kept
  PROVE  IsFiniteSet(DOMAIN Generated(kept).providers)
<1> DEFINE maps == {PoolProviders(pool, kept) : pool \in EnabledPools}
<1>1. Generated(kept).providers = Merged(maps)
  BY DEF Generated
<1>2. IsFiniteSet(maps)
  <2> DEFINE f == [pool \in EnabledPools |-> PoolProviders(pool, kept)]
  <2>1. IsFiniteSet(EnabledPools)
    BY DeclarationsAssumption, FiniteImage DEF EnabledPools
  <2>2. DOMAIN f = EnabledPools /\ maps = {f[pool] : pool \in EnabledPools}
    OBVIOUS
  <2> HIDE DEF f, maps
  <2> QED
    BY <2>1, <2>2, FiniteImage
<1>3. ASSUME NEW pool \in EnabledPools PROVE IsFiniteSet(DOMAIN PoolProviders(pool, kept))
  <2> DEFINE filled == Filled(pool, kept)
             f == [r \in filled |-> <<pool.id, r>>]
  <2>1. IsFiniteSet(filled)
    <3>1. IsFiniteSet(pool.regions)
      BY DeclarationsAssumption DEF EnabledPools
    <3> QED
      BY <3>1, FS_Subset DEF Filled
  <2>2. DOMAIN f = filled /\ DOMAIN PoolProviders(pool, kept) = {f[r] : r \in filled}
    BY DEF PoolProviders
  <2> HIDE DEF f, filled
  <2> QED
    BY <2>1, <2>2, FiniteImage
<1>4. \A m \in maps : IsFiniteSet(DOMAIN m)
  BY <1>3
<1> HIDE DEF maps
<1> QED
  BY <1>1, <1>2, <1>4, FiniteMerge

\* What a graph is worth at each stage.
Worth(at, g, kept) ==
  /\ at = "generated" => g = Generated(kept)
  /\ at = "typed" => Typed(g)
  /\ at \in {"filtered", "exposed", "compiled", "valid", "built"} => Guarded(g)
  /\ at \in {"valid", "built"} => Valid(g)

GraphInv == Worth(stage, graph, nodes)

LEMMA GraphSteps ==
  ASSUME BuildInv, GraphInv, BuildNext
  PROVE  Worth(stage', graph', nodes')
<1>1. /\ DOMAIN graph = GraphFields \/ stage \notin Compiling
      /\ stage \in Compiling => nodes = Deduplicated(Offered) /\ graph.providers = Generated(nodes).providers
      /\ PayloadInv
  BY DEF BuildInv
<1> USE DEF GraphInv
<1>2. CASE UNCHANGED <<stage, graph, nodes>>
  BY <1>2
<1>3. CASE stage' = "failed"
  BY <1>3 DEF Worth
<1>4. CASE Fetching \/ Take
  BY <1>2, <1>4 DEF Fetching, Take
<1>5. CASE Aborts
  BY <1>3, <1>5 DEF Aborts, Fails
<1>6. CASE Deduplicate
  BY <1>3, <1>6 DEF Deduplicate, Fails, Worth
<1>7. CASE Generate
  <2>1. stage' = "failed" \/ (stage' = "generated" /\ graph' = Generated(nodes) /\ nodes' = nodes)
    BY <1>7 DEF Generate, Fails
  <2> QED
    BY <1>3, <2>1 DEF Worth
<1>8. CASE ApplyGroupSemantics
  <2>1. \/ stage' = "failed"
        \/ /\ stage = "generated" /\ stage' = "typed" /\ ~SemanticsRefused(graph) /\ graph' = GroupSemantics(graph)
    BY <1>8 DEF ApplyGroupSemantics, Pass, Fails
  <2>2. stage = "generated" => Raw(graph)
    BY <1>1, GeneratedIsRaw DEF Worth, Compiling
  <2> QED
    BY <1>3, <2>1, <2>2, SemanticsType DEF Worth
<1>9. CASE ApplyExclusions
  <2>1. \/ stage' = "failed"
        \/ /\ stage = "typed" /\ stage' = "filtered" /\ ~ExclusionsRefused(graph) /\ graph' = SourceExclusions(graph)
    BY <1>9 DEF ApplyExclusions, Pass, Fails
  <2> QED
    BY <1>1, <1>3, <2>1, ExclusionsKeep DEF Worth, Compiling
<1>10. CASE Expose
  <2>1. \/ stage' = "failed"
        \/ stage = "filtered" /\ stage' = "exposed" /\ graph' = ExposeProviders(graph)
    BY <1>10 DEF Expose, Pass, Fails
  <2> QED
    BY <1>1, <1>3, <2>1, ExposeKeeps DEF Worth, Compiling
<1>11. CASE HardenBrowsingRuntime
  <2>1. \/ stage' = "failed"
        \/ /\ stage = "exposed" /\ stage' = "compiled" /\ ~HardeningRefused(graph) /\ graph' = HardenBrowsing(graph)
    BY <1>11 DEF HardenBrowsingRuntime, Pass, Fails
  <2>2. stage = "exposed" => DOMAIN graph = GraphFields /\ IsFiniteSet(DOMAIN graph.providers) /\ Guarded(graph)
    BY <1>1, ProvidersFinite DEF Worth, Compiling
  <2> QED
    BY <1>3, <2>1, <2>2, HardenKeeps DEF Worth
<1>12. CASE Validate
  <2>1. \/ stage' = "failed"
        \/ stage = "compiled" /\ stage' = "valid" /\ Valid(graph) /\ graph' = graph
    BY <1>12 DEF Validate, Pass, Fails
  <2> QED
    BY <1>3, <2>1 DEF Worth
<1>13. CASE Audit
  <2>1. \/ stage' = "failed"
        \/ stage = "valid" /\ stage' = "built" /\ graph' = graph
    BY <1>13 DEF Audit, Fails
  <2> QED
    BY <1>3, <2>1 DEF Worth
<1>14. CASE Qualify \/ Guard
  BY <1>14 DEF Qualify, Guard, Worth
<1> QED
  BY <1>4, <1>5, <1>6, <1>7, <1>8, <1>9, <1>10, <1>11, <1>12, <1>13, <1>14 DEF BuildNext

\* generator.py, routing_policy.py, validator.py: whatever was fetched and whichever
\* nodes are left, in a candidate that validates every group a route can reach
\* resolves and offers something, goes direct only where that is declared, and a
\* route or group that excludes a source offers none of its nodes.
THEOREM RoutesNeverFailOpen == BuildSpec => []NoRouteFailsOpen
<1>1. BuildInit => GraphInv
  BY DEF BuildInit, GraphInv, Worth
<1>2. BuildInv /\ GraphInv /\ [BuildNext]_buildVars => GraphInv'
  <2> SUFFICES ASSUME BuildInv, GraphInv, [BuildNext]_buildVars PROVE Worth(stage', graph', nodes')
    BY DEF GraphInv
  <2>1. CASE UNCHANGED buildVars
    BY <2>1 DEF buildVars, GraphInv
  <2> QED
    BY <2>1, GraphSteps
<1>3. GraphInv => NoRouteFailsOpen
  <2>1. ASSUME GraphInv, stage \in {"valid", "built"}
        PROVE  NoRouteFailsOpen
    BY <2>1, ServedSafely DEF GraphInv, Worth
  <2>2. stage \notin {"valid", "built"} => NoRouteFailsOpen
    BY DEF NoRouteFailsOpen
  <2> QED
    BY <2>1, <2>2
<1> QED
  BY <1>1, <1>2, <1>3, BuildInvariant, PTL DEF BuildSpec

\* What a selected node may serve.
LEMMA SelectedAreEligible ==
  ASSUME PayloadInv, NEW unit, NEW r, NEW x \in SelectNodes(Deduplicated(Offered), unit, r)
  PROVE  Eligible(x, unit, r)
<1> DEFINE kept == Deduplicated(Offered)
           fit(k) == {o \in kept[k] : Eligible(o, unit, r)}
<1>1. PICK k \in DOMAIN kept : fit(k) # {} /\ x = First(fit(k))
  BY DEF SelectNodes
<1>2. fit(k) \in SUBSET Offered /\ \A o \in fit(k) : o.key = k
  BY DEF Deduplicated
<1>3. First(fit(k)) \in fit(k)
  <2> HIDE DEF fit
  <2> QED
    BY <1>1, <1>2, FirstPrecedes
<1> QED
  BY <1>1, <1>3

\* The sources of each pool of a candidate may serve the use of that pool.
AuthorizedPools ==
  stage \in {"built", "qualified", "assessed"} =>
    \A p \in DOMAIN providers : UseAllowed({n.source : n \in providers[p]}, PoolUse(p[1]))

\* selector.py, production_audit.py: whatever the subscriptions grant, and whatever
\* qualification then removes, a candidate that is built, qualified or judged offers
\* in no pool a node of a source that may not serve the use of that pool.
THEOREM PoolsServeTheirUse == BuildSpec => []AuthorizedPools
<1>1. ASSUME BuildInv, stage \in {"built", "qualified", "assessed"}, NEW p \in DOMAIN providers, NEW n \in providers[p]
      PROVE  Spec[n.source].uses \cap {"*", PoolUse(p[1])} # {}
  <2> DEFINE kept == Deduplicated(Offered)
             made == Generated(kept).providers
  <2>1. p \in DOMAIN made /\ n \in made[p]
    BY <1>1 DEF BuildInv, Compiling
  <2> HIDE DEF kept
  <2>2. PICK i \in DOMAIN Pools : \E r \in Filled(Pools[i], kept) : p = <<Pools[i].id, r>>
    BY <2>1, ProvidersAreSelected
  <2>3. PICK r \in Filled(Pools[i], kept) : p = <<Pools[i].id, r>>
    BY <2>2
  <2>4. n \in SelectNodes(kept, Pools[i], r)
    BY <2>1, <2>3, ProvidersAreSelected
  <2>5. Eligible(n, Pools[i], r)
    BY <1>1, <2>4, SelectedAreEligible DEF kept, BuildInv
  <2>6. PoolUse(p[1]) = Pools[i].use
    <3>1. p[1] = Pools[i].id /\ Pools[i] \in EnabledPools
      BY <2>3 DEF EnabledPools
    <3>2. \A pool \in EnabledPools : pool.id = Pools[i].id => pool = Pools[i]
      BY PoolsAssumption DEF EnabledPools
    <3>3. (CHOOSE pool \in EnabledPools : pool.id = Pools[i].id) = Pools[i]
      BY <3>1, <3>2
    <3> QED
      BY <3>1, <3>3 DEF PoolUse
  <2> QED
    BY <2>5, <2>6 DEF Eligible
<1>2. BuildInv => AuthorizedPools
  BY <1>1 DEF AuthorizedPools, UseAllowed
<1> QED
  BY <1>2, BuildInvariant, PTL
=============================================================================
