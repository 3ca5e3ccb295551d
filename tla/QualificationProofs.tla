------------------------- MODULE QualificationProofs -------------------------
(***************************************************************************)
(* Proofs about how the nodes of a candidate are qualified: about          *)
(* QualificationPipeline, for any candidate, resolvers, probe outcomes and *)
(* history (a hostname's negative evidence is corroborated, the last       *)
(* attempt decides what browsing leaves, every pool and every service      *)
(* reaches what its probe admitted whatever later stages rewrite, and every*)
(* loss is accounted for); about MihomoCores, for any pinned tags,         *)
(* releases, file names and faults (what a candidate is validated with is  *)
(* what GitHub published); and about ProbeCores, for any shards, nodes and *)
(* ports (when a port that was handed out is not handed out again, no      *)
(* answer lost, core restarted or neighbour switched makes a verdict one   *)
(* about another node).                                                    *)
(***************************************************************************)
EXTENDS QualificationPipeline, ProbeCores, MihomoCores, FiniteSetTheorems,
        WellFoundedInduction, SequenceTheorems, TLAPS

---------------------------------------------------------------------------
(* The qualification pipeline: its documents.                                *)

Fields == {"entries", "regions", "tiers", "general", "targets", "policy", "rules"}

Shaped(c) ==
  /\ DOMAIN c = Fields
  /\ DOMAIN c.regions = Surfaces /\ \A s \in Surfaces : c.regions[s] \subseteq Regions
  /\ DOMAIN c.tiers = Surfaces \X Regions \X TierNames

\* Before browsing rewrites it, a document is the candidate without some entries.
Shrunk(c) ==
  /\ DOMAIN c = Fields /\ c.entries \subseteq Candidate.entries
  /\ c.regions = Candidate.regions /\ c.tiers = Candidate.tiers /\ c.general = Candidate.general

\* What the two tiers of a region select of those of its nodes that are in
\* names: all of them together, the reserve tier at least one.
Split(c, names, s, r) ==
  LET held    == Payload(c.entries, ProviderOf(s, r)) \cap names
      stable  == c.tiers[<<s, r, "stable">>]
      spare == c.tiers[<<s, r, "reserve">>]
  IN  /\ held # {}
      /\ stable.filter \subseteq held /\ spare.filter \subseteq held
      /\ stable.filter \cup spare.filter = held
      /\ stable.filter # {} \/ stable.reject
      /\ spare.filter # {}

SurfacesSplit(c, names) == \A s \in Surfaces : \A r \in c.regions[s] : Split(c, names, s, r)

\* The filter of an automatic group once its transport has been probed.
Pool(g) ==
  IF g \in UdpGroups THEN probe.udp
  ELSE IF g \in ProbedGroups THEN probe.tcp
  ELSE Candidate.general[g][1]

LEMMA ShrunkIsShaped ==
  ASSUME CandidateAssumption, NEW c, Shrunk(c)
  PROVE  /\ Shaped(c) /\ c.tiers = Candidate.tiers /\ c.regions = Candidate.regions
         /\ c.entries \subseteq ({"general", "browsing", "ai"} \X Regions) \X Nodes
BY DEF Shrunk, Shaped, CandidateAssumption, Fields

LEMMA ShrunkFurther ==
  ASSUME NEW c, Shrunk(c), NEW entries, entries \subseteq c.entries
  PROVE  Shrunk([c EXCEPT !.entries = entries]) /\ [c EXCEPT !.entries = entries].entries = entries
BY DEF Shrunk, Fields

LEMMA ShapePrimed == (Shaped(doc') <=> Shaped(doc)') /\ (Shrunk(doc') <=> Shrunk(doc)')
BY DEF Shaped, Shrunk

LEMMA SplitPrimed == SurfacesSplit(doc', probe'.qualified) <=> SurfacesSplit(doc, probe.qualified)'
<1>1. ASSUME NEW s, NEW r
      PROVE  Split(doc', probe'.qualified, s, r) <=> Split(doc, probe.qualified, s, r)'
  BY DEF Split
<1> QED
  BY <1>1 DEF SurfacesSplit

LEMMA SplitInto ==
  ASSUME NEW c, NEW names, NEW s, NEW r, NEW held, NEW best, NEW rest,
         held = Payload(c.entries, ProviderOf(s, r)) \cap names, held # {},
         c.tiers[<<s, r, "stable">>].filter = best, c.tiers[<<s, r, "reserve">>].filter = rest,
         best \subseteq held, rest \subseteq held, best \cup rest = held, rest # {},
         best = {} => c.tiers[<<s, r, "stable">>].reject = TRUE
  PROVE  Split(c, names, s, r)
BY DEF Split

---------------------------------------------------------------------------
(* The rewrite of the two surfaces.                                          *)

\* web_general_runtime: the shared inventory.
LEMMA WebRewritten ==
  ASSUME CandidateAssumption, NEW c, Shrunk(c), NEW qualified, NEW stable, NEW preferred
  PROVE  LET w == RewriteWebGeneral(c, qualified, stable, preferred)
         IN  /\ Shaped(w) /\ w.entries = c.entries
             /\ \A r \in w.regions["web"] : Split(w, qualified, "web", r)
<1> DEFINE w == RewriteWebGeneral(c, qualified, stable, preferred)
           names == [r \in c.regions["web"] |-> WebRegionNames(c, r, qualified)]
           available == {r \in c.regions["web"] : names[r] # {}}
           effective == [r \in available |->
                           WebEffectiveStable(c.tiers[<<"web", r, "stable">>], names[r], stable, preferred)]
           tierOf(t) == IF t[3] = "stable" THEN [filter |-> effective[t[2]], reject |-> effective[t[2]] = {}]
                        ELSE Filter(Otherwise(names[t[2]] \ effective[t[2]], names[t[2]]))
           tiers == [t \in DOMAIN c.tiers |-> IF t[1] = "web" /\ t[2] \in available THEN tierOf(t) ELSE c.tiers[t]]
<1>1. Shaped(c) /\ c.tiers = Candidate.tiers /\ c.regions = Candidate.regions
      /\ c.entries \subseteq Candidate.entries
  BY ShrunkIsShaped DEF Shrunk
<1>2. w = [c EXCEPT !.regions["web"] = available, !.tiers = tiers]
  BY DEF RewriteWebGeneral
<1>3. /\ DOMAIN w = Fields /\ w.entries = c.entries /\ w.tiers = tiers
      /\ w.regions = [c.regions EXCEPT !["web"] = available]
  BY <1>1, <1>2 DEF Shaped, Fields
<1>4. Shaped(w) /\ w.regions["web"] = available
  BY <1>1, <1>3 DEF Shaped, Surfaces
<1>5. ASSUME NEW r \in available
      PROVE  Split(w, qualified, "web", r)
  <2>1. r \in Regions /\ r \in Candidate.regions["web"]
    BY <1>1 DEF Shaped, Surfaces
  <2>2. <<"web", r, "stable">> \in DOMAIN c.tiers /\ <<"web", r, "reserve">> \in DOMAIN c.tiers
    BY <1>1, <2>1 DEF Shaped, Surfaces, TierNames
  <2>3. names[r] = Payload(c.entries, ProviderOf("web", r)) \cap qualified
    <3>1. names[r] = (Members(c, <<"web", r, "stable">>) \cup Members(c, <<"web", r, "reserve">>)) \cap qualified
      BY DEF WebRegionNames
    <3>2. Payload(c.entries, ProviderOf("web", r)) \subseteq Payload(Candidate.entries, ProviderOf("web", r))
      BY <1>1 DEF Payload
    <3>3. Payload(c.entries, ProviderOf("web", r)) \subseteq
            c.tiers[<<"web", r, "stable">>].filter \cup c.tiers[<<"web", r, "reserve">>].filter
      BY <1>1, <2>1, <3>2 DEF CandidateAssumption
    <3>4. /\ Members(c, <<"web", r, "stable">>) =
               Payload(c.entries, ProviderOf("web", r)) \cap c.tiers[<<"web", r, "stable">>].filter
          /\ Members(c, <<"web", r, "reserve">>) =
               Payload(c.entries, ProviderOf("web", r)) \cap c.tiers[<<"web", r, "reserve">>].filter
      BY DEF Members
    <3> QED
      BY <3>1, <3>3, <3>4
  <2>4. effective[r] \subseteq names[r]
    BY DEF WebEffectiveStable, Otherwise
  <2>5. /\ tiers[<<"web", r, "stable">>] = [filter |-> effective[r], reject |-> effective[r] = {}]
        /\ tiers[<<"web", r, "reserve">>] = Filter(Otherwise(names[r] \ effective[r], names[r]))
    BY <2>2
  <2>6. names[r] # {} /\ Payload(w.entries, ProviderOf("web", r)) \cap qualified = names[r]
    BY <1>3, <2>3
  <2>7. /\ w.tiers[<<"web", r, "stable">>].filter = effective[r]
        /\ effective[r] = {} => w.tiers[<<"web", r, "stable">>].reject = TRUE
        /\ w.tiers[<<"web", r, "reserve">>].filter = Otherwise(names[r] \ effective[r], names[r])
    <3> DEFINE drained == effective[r] = {}
    <3>1. /\ w.tiers[<<"web", r, "stable">>] = [filter |-> effective[r], reject |-> drained]
          /\ w.tiers[<<"web", r, "reserve">>] = [filter |-> Otherwise(names[r] \ effective[r], names[r]), reject |-> FALSE]
      BY <1>3, <2>5 DEF Filter, drained
    <3>2. w.tiers[<<"web", r, "stable">>].reject = drained
      <4> HIDE DEF w, effective, drained
      <4> QED
        BY <3>1
    <3>3. effective[r] = {} => drained = TRUE
      OBVIOUS
    <3>4. /\ w.tiers[<<"web", r, "stable">>].filter = effective[r]
          /\ w.tiers[<<"web", r, "reserve">>].filter = Otherwise(names[r] \ effective[r], names[r])
      <4> HIDE DEF w, tiers, effective, names, drained
      <4> QED
        BY <3>1
    <3> HIDE DEF w, tiers, effective, names, drained
    <3> QED
      BY <3>2, <3>3, <3>4
  <2>8. LET rest == Otherwise(names[r] \ effective[r], names[r])
        IN  rest \subseteq names[r] /\ rest # {} /\ effective[r] \cup rest = names[r]
    BY <2>4, <2>6 DEF Otherwise
  <2> QED
    <3> HIDE DEF w, effective, names
    <3> QED
      BY <2>4, <2>6, <2>7, <2>8, SplitInto, ZenonT(60)
<1>6. \A r \in w.regions["web"] : Split(w, qualified, "web", r)
  <2> HIDE DEF available, w
  <2> QED
    BY <1>4, <1>5
<1> HIDE DEF w
<1> QED
  BY <1>3, <1>4, <1>6 DEF w

\* browsing_runtime: the providers of the surface itself, whatever the web
\* surface became before.
LEMMA BrowsingRewritten ==
  ASSUME NEW c, Shaped(c), NEW qualified, NEW stable,
         \A r \in c.regions["web"] : Split(c, qualified, "web", r)
  PROVE  LET h == RewriteHardened(c, qualified, stable)
         IN  /\ Shaped(h) /\ h.entries = KeepQualified(c.entries, qualified)
             /\ SurfacesSplit(h, qualified)
<1> DEFINE h == RewriteHardened(c, qualified, stable)
           entries == KeepQualified(c.entries, qualified)
           kept(r) == Payload(entries, <<"browsing", r>>)
           available == {r \in c.regions["browsing"] : kept(r) # {}}
           effective(r) == Otherwise(stable \cap kept(r), kept(r))
           tierOf(t) == Filter(IF t[3] = "stable" THEN effective(t[2])
                             ELSE Otherwise(kept(t[2]) \ effective(t[2]), kept(t[2])))
           tiers == [t \in DOMAIN c.tiers |-> IF t[1] = "browsing" /\ t[2] \in available THEN tierOf(t) ELSE c.tiers[t]]
<1>1. h = [c EXCEPT !.entries = entries, !.regions["browsing"] = available, !.tiers = tiers]
  BY DEF RewriteHardened
<1>2. /\ DOMAIN h = Fields /\ h.entries = entries /\ h.tiers = tiers
      /\ h.regions = [c.regions EXCEPT !["browsing"] = available]
  BY <1>1 DEF Shaped, Fields
<1>3. Shaped(h) /\ h.regions["browsing"] = available /\ h.regions["web"] = c.regions["web"]
  BY <1>2 DEF Shaped, Surfaces
<1>4. ASSUME NEW r \in available
      PROVE  Split(h, qualified, "browsing", r)
  <2>1. r \in Regions
    BY DEF Shaped, Surfaces
  <2>2. <<"browsing", r, "stable">> \in DOMAIN c.tiers /\ <<"browsing", r, "reserve">> \in DOMAIN c.tiers
    BY <2>1 DEF Shaped, Surfaces, TierNames
  <2>3. kept(r) # {} /\ Payload(h.entries, ProviderOf("browsing", r)) \cap qualified = kept(r)
    BY <1>2 DEF ProviderOf, Payload, KeepQualified
  <2>4. effective(r) \subseteq kept(r) /\ effective(r) # {}
    BY <2>3 DEF Otherwise
  <2>5. LET rest == Otherwise(kept(r) \ effective(r), kept(r))
        IN  /\ rest \subseteq kept(r) /\ rest # {} /\ effective(r) \cup rest = kept(r)
            /\ h.tiers[<<"browsing", r, "reserve">>] = Filter(rest)
            /\ h.tiers[<<"browsing", r, "stable">>] = Filter(effective(r))
    <3>1. /\ tiers[<<"browsing", r, "reserve">>] = Filter(Otherwise(kept(r) \ effective(r), kept(r)))
          /\ tiers[<<"browsing", r, "stable">>] = Filter(effective(r))
      BY <2>2
    <3> HIDE DEF tiers, kept, effective
    <3> QED
      BY <1>2, <2>3, <2>4, <3>1 DEF Otherwise
  <2> DEFINE rest == Otherwise(kept(r) \ effective(r), kept(r))
  <2>6. h.tiers[<<"browsing", r, "stable">>].filter = effective(r) /\ h.tiers[<<"browsing", r, "reserve">>].filter = rest
    <3> HIDE DEF h, kept, effective
    <3> QED
      BY <2>5 DEF Filter
  <2> HIDE DEF h, kept, effective
  <2> QED
    BY <2>3, <2>4, <2>5, <2>6, SplitInto
<1>5. ASSUME NEW r \in c.regions["web"]
      PROVE  Split(h, qualified, "web", r)
  <2>1. h.tiers[<<"web", r, "stable">>] = c.tiers[<<"web", r, "stable">>]
        /\ h.tiers[<<"web", r, "reserve">>] = c.tiers[<<"web", r, "reserve">>]
    BY <1>2 DEF Shaped, Surfaces, TierNames
  <2>2. Payload(h.entries, ProviderOf("web", r)) = Payload(c.entries, ProviderOf("web", r))
    BY <1>2 DEF ProviderOf, Payload, KeepQualified
  <2> HIDE DEF h
  <2> QED
    BY <2>1, <2>2 DEF Split
<1> HIDE DEF h, available
<1>6. SurfacesSplit(h, qualified)
  BY <1>3, <1>4, <1>5 DEF SurfacesSplit, Surfaces
<1> QED
  BY <1>2, <1>3, <1>6 DEF h

\* The history narrows the stable tier of a browsing region to preferred
\* nodes, and never to none.
LEMMA PreferenceApplied ==
  ASSUME BrowsingAssumption, NEW c, Shaped(c), NEW qualified, NEW stable, NEW preferred, SurfacesSplit(c, qualified)
  PROVE  LET p == ApplyHistoryPreference(c, qualified, stable, preferred)
         IN  Shaped(p) /\ p.entries = c.entries /\ p.regions = c.regions /\ SurfacesSplit(p, qualified)
<1> DEFINE p == ApplyHistoryPreference(c, qualified, stable, preferred)
           regions == PreferringRegions(c, qualified, stable, preferred)
           best(r) == PreferredIn(c, r, qualified, stable, preferred)
           rest(r) == Payload(c.entries, <<"browsing", r>>) \cap qualified
           tierOf(t) == Filter(IF t[3] = "stable" THEN best(t[2]) ELSE Otherwise(rest(t[2]) \ best(t[2]), rest(t[2])))
           tiers == [t \in DOMAIN c.tiers |-> IF t[1] = "browsing" /\ t[2] \in regions THEN tierOf(t) ELSE c.tiers[t]]
<1>1. p = [c EXCEPT !.tiers = tiers]
  BY DEF ApplyHistoryPreference
<1>2. DOMAIN p = Fields /\ p.entries = c.entries /\ p.regions = c.regions /\ p.tiers = tiers
  BY <1>1 DEF Shaped, Fields
<1>3. Shaped(p)
  BY <1>2 DEF Shaped
<1>4. ASSUME NEW s \in Surfaces, NEW r \in c.regions[s]
      PROVE  Split(p, qualified, s, r)
  <2>1. Split(c, qualified, s, r) /\ r \in Regions
    BY DEF SurfacesSplit, Shaped
  <2>2. <<s, r, "stable">> \in DOMAIN c.tiers /\ <<s, r, "reserve">> \in DOMAIN c.tiers
    BY <2>1 DEF Shaped, TierNames
  <2>3. CASE s = "browsing" /\ r \in regions
    <3>1. p.tiers[<<s, r, "stable">>] = Filter(best(r))
          /\ p.tiers[<<s, r, "reserve">>] = Filter(Otherwise(rest(r) \ best(r), rest(r)))
      BY <1>2, <2>2, <2>3
    <3>2. Cardinality(best(r)) >= MinPreferred /\ MinPreferred \in Nat \ {0}
      BY <2>3 DEF PreferringRegions, BrowsingAssumption
    <3>3. best(r) # {}
      BY <3>2, FS_EmptySet
    <3>4. best(r) \subseteq rest(r) /\ rest(r) = Payload(p.entries, ProviderOf(s, r)) \cap qualified
      BY <1>2, <2>3 DEF PreferredIn, ProviderOf
    <3>5. LET others == Otherwise(rest(r) \ best(r), rest(r))
          IN  others \subseteq rest(r) /\ others # {} /\ best(r) \cup others = rest(r)
      <4> HIDE DEF best, rest
      <4> QED
        BY <3>3, <3>4 DEF Otherwise
    <3> DEFINE others == Otherwise(rest(r) \ best(r), rest(r))
    <3> HIDE DEF p, best, rest, others
    <3>6. p.tiers[<<s, r, "stable">>].filter = best(r) /\ p.tiers[<<s, r, "reserve">>].filter = others
      BY <3>1 DEF Filter, others
    <3> QED
      BY <3>3, <3>4, <3>5, <3>6, SplitInto DEF others
  <2>4. CASE ~(s = "browsing" /\ r \in regions)
    <3>1. p.tiers[<<s, r, "stable">>] = c.tiers[<<s, r, "stable">>]
          /\ p.tiers[<<s, r, "reserve">>] = c.tiers[<<s, r, "reserve">>]
      BY <1>2, <2>2, <2>4
    <3> HIDE DEF p
    <3> QED
      BY <1>2, <2>1, <3>1 DEF Split
  <2> QED
    BY <2>3, <2>4
<1> HIDE DEF p
<1>5. SurfacesSplit(p, qualified)
  BY <1>2, <1>4 DEF SurfacesSplit
<1> QED
  BY <1>2, <1>3, <1>5 DEF p

---------------------------------------------------------------------------
(* The stages after browsing leave the surfaces as they are.                 *)

\* What a stage may do that judges other inventories.
Carried(c, d) ==
  /\ DOMAIN d = Fields
  /\ d.regions = c.regions /\ d.tiers = c.tiers
  /\ \A e : e[1][1] \in {"browsing", "general"} => (e \in d.entries <=> e \in c.entries)

LEMMA CarriedInventory ==
  ASSUME NEW c, NEW d, Carried(c, d)
  PROVE  /\ \A s, r : Payload(d.entries, ProviderOf(s, r)) = Payload(c.entries, ProviderOf(s, r))
         /\ NodesOfKind(d.entries, "general") = NodesOfKind(c.entries, "general")
<1>1. ASSUME NEW s, NEW r
      PROVE  Payload(d.entries, ProviderOf(s, r)) = Payload(c.entries, ProviderOf(s, r))
  <2>1. ASSUME NEW n PROVE <<ProviderOf(s, r), n>> \in d.entries <=> <<ProviderOf(s, r), n>> \in c.entries
    <3>1. <<ProviderOf(s, r), n>>[1][1] \in {"browsing", "general"}
      BY DEF ProviderOf
    <3> QED
      BY <3>1 DEF Carried
  <2> QED
    BY <2>1 DEF Payload
<1>2. NodesOfKind(d.entries, "general") = NodesOfKind(c.entries, "general")
  BY DEF NodesOfKind, Carried
<1> QED
  BY <1>1, <1>2

LEMMA CarriedSurfaces ==
  ASSUME NEW c, NEW d, Shaped(c), Carried(c, d), NEW names, SurfacesSplit(c, names)
  PROVE  Shaped(d) /\ SurfacesSplit(d, names)
<1>1. Shaped(d)
  BY DEF Shaped, Carried
<1>2. ASSUME NEW s \in Surfaces, NEW r \in d.regions[s]
      PROVE  Split(d, names, s, r)
  <2>1. Split(c, names, s, r) /\ d.tiers = c.tiers
    BY DEF SurfacesSplit, Carried
  <2> QED
    BY <2>1, CarriedInventory DEF Split
<1> QED
  BY <1>1, <1>2 DEF SurfacesSplit

LEMMA TransportCarries ==
  ASSUME NEW c, Shaped(c), NEW tcp, NEW udp
  PROVE  LET d == ApplyTransport(c, tcp, udp)
         IN  /\ Carried(c, d) /\ d.entries = c.entries
             /\ DOMAIN d.general = DOMAIN c.general
             /\ \A g \in DOMAIN c.general :
                  d.general[g] = IF g \in ProbedGroups THEN <<NarrowedTo(g, tcp, udp)>> ELSE c.general[g]
BY DEF ApplyTransport, Carried, Shaped, Fields

\* Of the entries, the services only give up their own.
LEMMA ServicesCarry ==
  ASSUME NEW c, Shaped(c), NEW qualifiedBy
  PROVE  LET routed == ApplyAiServiceQualification(c, qualifiedBy)
             d == [routed EXCEPT !.rules = ApplyRouteLock(routed.rules)]
         IN  Carried(c, d) /\ d.general = c.general
<1> DEFINE union == (UNION {qualifiedBy[s] : s \in AiServices}) \cap AiNodes(c)
           pruned == [c EXCEPT !.entries = PruneAi(c.entries, union)]
           policy == Among(c.policy, AiRegions(pruned, union))
           order == CountryOrder(AiRegions(pruned, union), policy)
           targets == [s \in AiServices |-> ServiceTarget(pruned, order, qualifiedBy[s])]
           listed == IF union = {} THEN <<"REJECT">> ELSE policy
           rules == RewriteServiceRules(c.rules)
           routed == ApplyAiServiceQualification(c, qualifiedBy)
           d == [routed EXCEPT !.rules = ApplyRouteLock(routed.rules)]
<1>1. routed = [pruned EXCEPT !.targets = targets, !.policy = listed, !.rules = rules]
  BY DEF ApplyAiServiceQualification
<1>2. /\ DOMAIN pruned = Fields /\ pruned.entries = PruneAi(c.entries, union)
      /\ pruned.regions = c.regions /\ pruned.tiers = c.tiers /\ pruned.general = c.general
  BY DEF Shaped, Fields
<1> HIDE DEF pruned, targets, listed, rules
<1>3. /\ DOMAIN routed = Fields /\ routed.entries = pruned.entries
      /\ routed.regions = pruned.regions /\ routed.tiers = pruned.tiers /\ routed.general = pruned.general
  BY <1>1, <1>2 DEF Fields
<1> HIDE DEF routed
<1>4. /\ DOMAIN d = Fields /\ d.entries = routed.entries
      /\ d.regions = routed.regions /\ d.tiers = routed.tiers /\ d.general = routed.general
  BY <1>3 DEF Fields
<1>5. \A e : e[1][1] \in {"browsing", "general"} => (e \in PruneAi(c.entries, union) <=> e \in c.entries)
  BY DEF PruneAi
<1> HIDE DEF d, union
<1> QED
  BY <1>2, <1>3, <1>4, <1>5 DEF Carried, d, routed

\* Hardening adds providers of its own.
LEMMA HardeningCarries ==
  ASSUME NEW c, Shaped(c)
  PROVE  LET d == HardenOpenAiClientPath(c)
         IN  Carried(c, d) /\ d.general = c.general
<1> DEFINE added == RuntimeEntries(c.targets[OpenAi])
           target == RuntimeTarget(c.targets[OpenAi])
           d == HardenOpenAiClientPath(c)
<1>1. d = [c EXCEPT !.entries = c.entries \cup added, !.targets[OpenAi] = target]
  BY DEF HardenOpenAiClientPath
<1>2. \A e \in added : e[1][1] = "openai"
  BY DEF RuntimeEntries
<1> HIDE DEF added, target, d
<1>3. /\ DOMAIN d = Fields /\ d.entries = c.entries \cup added
      /\ d.regions = c.regions /\ d.tiers = c.tiers /\ d.general = c.general
  BY <1>1 DEF Shaped, Fields
<1> QED
  BY <1>2, <1>3 DEF Carried, d

\* The reserve of endpoints moves from the stable tier of a region to the other.
LEMMA CapSplits ==
  ASSUME NEW c, Shaped(c), NEW names, SurfacesSplit(c, names), NEW spare
  PROVE  LET d == CapEndpointReservePools(c, spare)
         IN  /\ Shaped(d) /\ d.entries = c.entries /\ d.regions = c.regions
             /\ SurfacesSplit(d, names)
             /\ \A s \in Surfaces : \A r \in d.regions[s] : d.tiers[<<s, r, "stable">>].filter \cap spare = {}
             /\ \A g \in DOMAIN c.general : d.general[g] = CapGeneral(c, spare, g)
<1> DEFINE d == CapEndpointReservePools(c, spare)
           tiers == [t \in DOMAIN c.tiers |-> CapTier(c, spare, t)]
           general == [g \in DOMAIN c.general |-> CapGeneral(c, spare, g)]
<1>1. d = [c EXCEPT !.tiers = tiers, !.general = general]
  BY DEF CapEndpointReservePools
<1>2. /\ DOMAIN d = Fields /\ d.entries = c.entries /\ d.regions = c.regions
      /\ d.tiers = tiers /\ d.general = general
  BY <1>1 DEF Shaped, Fields
<1>3. Shaped(d)
  BY <1>2 DEF Shaped
<1>4. ASSUME NEW s \in Surfaces, NEW r \in c.regions[s]
      PROVE  Split(d, names, s, r) /\ d.tiers[<<s, r, "stable">>].filter \cap spare = {}
  <2> DEFINE all == Payload(c.entries, ProviderOf(s, r)) \cap names
             stable == c.tiers[<<s, r, "stable">>]
             rest == c.tiers[<<s, r, "reserve">>]
             held == stable.filter \cap spare
             kept == stable.filter \ spare
  <2>1. /\ all # {} /\ stable.filter \subseteq all /\ rest.filter \subseteq all
        /\ stable.filter \cup rest.filter = all /\ (stable.filter # {} \/ stable.reject) /\ rest.filter # {}
    BY DEF SurfacesSplit, Split
  <2>2. Members(c, <<s, r, "stable">>) = stable.filter /\ Members(c, <<s, r, "reserve">>) = rest.filter
    BY <2>1 DEF Members
  <2>3. <<s, r, "stable">> \in DOMAIN c.tiers /\ <<s, r, "reserve">> \in DOMAIN c.tiers
    BY DEF Shaped, TierNames
  <2>4. /\ d.tiers[<<s, r, "stable">>] = CapTier(c, spare, <<s, r, "stable">>)
        /\ d.tiers[<<s, r, "reserve">>] = CapTier(c, spare, <<s, r, "reserve">>)
    BY <1>2, <2>3
  <2>5. Payload(d.entries, ProviderOf(s, r)) \cap names = all
    BY <1>2
  <2> HIDE DEF d
  <2>6. CASE held = {}
    <3>1. d.tiers[<<s, r, "stable">>] = stable /\ d.tiers[<<s, r, "reserve">>] = rest
      BY <2>2, <2>4, <2>6 DEF CapTier
    <3> QED
      BY <2>1, <2>5, <2>6, <3>1 DEF Split
  <2>7. CASE held # {}
    <3>1. d.tiers[<<s, r, "reserve">>] = [filter |-> rest.filter \cup held, reject |-> rest.reject]
      BY <2>2, <2>4, <2>7 DEF CapTier
    <3>5. /\ d.tiers[<<s, r, "stable">>].filter = kept
          /\ kept = {} => d.tiers[<<s, r, "stable">>].reject = TRUE
      <4>1. CASE kept = {}
        <5>1. d.tiers[<<s, r, "stable">>] = [filter |-> kept, reject |-> TRUE]
          BY <2>2, <2>4, <2>7, <4>1 DEF CapTier
        <5> QED
          BY <5>1
      <4>2. CASE kept # {}
        <5>1. d.tiers[<<s, r, "stable">>] = [filter |-> kept, reject |-> stable.reject]
          BY <2>2, <2>4, <2>7, <4>2 DEF CapTier
        <5> QED
          BY <4>2, <5>1
      <4> QED
        BY <4>1, <4>2
    <3>6. d.tiers[<<s, r, "reserve">>].filter = rest.filter \cup held
      BY <3>1
    <3> DEFINE both == rest.filter \cup held
    <3>7. kept \subseteq all /\ both \subseteq all /\ kept \cup both = all /\ both # {} /\ kept \cap spare = {}
      BY <2>1
    <3>8. d.tiers[<<s, r, "reserve">>].filter = both
      BY <3>6
    <3> HIDE DEF all, kept, both
    <3> QED
      BY <2>1, <2>5, <3>5, <3>7, <3>8, SplitInto
  <2> QED
    BY <2>6, <2>7
<1>5. \A g \in DOMAIN c.general : d.general[g] = CapGeneral(c, spare, g)
  BY <1>2
<1> HIDE DEF d
<1> QED
  BY <1>2, <1>3, <1>4, <1>5 DEF SurfacesSplit, d

---------------------------------------------------------------------------
(* The verdict about a hostname.                                             *)

LEMMA LeastIndex ==
  ASSUME NEW T, T \subseteq Nat, T # {}
  PROVE  \E i \in T : \A j \in T : i <= j
<1> DEFINE R == OpToRel(<, Nat)
<1>1. IsWellFoundedOn(R, Nat)
  BY NatLessThanWellFounded
<1>2. PICK i \in T : \A j \in T : ~(<<j, i>> \in R)
  BY <1>1, WFMin
<1>3. \A j \in T : ~(j < i)
  BY <1>2 DEF OpToRel
<1> QED
  BY <1>3

LEMMA TwoDiffer ==
  ASSUME NEW S, Cardinality(S) >= 2
  PROVE  \E x, y \in S : x # y
<1> SUFFICES ASSUME \A x, y \in S : x = y PROVE FALSE
  OBVIOUS
<1>1. CASE S = {}
  <2>1. Cardinality(S) = 0
    BY <1>1, FS_EmptySet
  <2> QED
    BY <2>1
<1>2. CASE S # {}
  <2>1. PICK x \in S : S = {x}
    BY <1>2
  <2>2. Cardinality(S) = 1
    BY <2>1, FS_Singleton
  <2> QED
    BY <2>2
<1> QED
  BY <1>1, <1>2

\* Each authority is asked, through the first resolver that names it.
LEMMA AuthorityAsked ==
  ASSUME ResolversAssumption, NEW a \in Authorities
  PROVE  \E i \in DohEndpoints : Resolvers[i] = a
<1> DEFINE listed == {i \in DOMAIN Resolvers : Resolvers[i] = a}
<1>1. DOMAIN Resolvers = 1 .. Len(Resolvers) /\ Len(Resolvers) \in Nat
  BY DEF ResolversAssumption
<1>2. listed # {} /\ listed \subseteq Nat /\ a # "system"
  BY <1>1 DEF Authorities, DohEndpointsListed
<1>3. PICK i \in listed : \A j \in listed : i <= j
  BY <1>2, LeastIndex
<1>4. \A j \in 1 .. (i - 1) : Resolvers[j] # Resolvers[i]
  BY <1>1, <1>3
<1> QED
  BY <1>2, <1>4 DEF DohEndpoints

\* And only through it: two endpoints are two authorities.
LEMMA EndpointsDiffer ==
  ASSUME ResolversAssumption, NEW i \in DohEndpoints, NEW j \in DohEndpoints, i # j
  PROVE  Resolvers[i] # Resolvers[j] /\ Resolvers[i] \in Authorities
<1>1. i \in Nat /\ j \in Nat /\ i >= 1 /\ j >= 1
  BY DEF ResolversAssumption, DohEndpoints
<1>2. Resolvers[i] # Resolvers[j]
  BY <1>1 DEF DohEndpoints
<1> QED
  BY <1>2 DEF DohEndpoints, Authorities, DohEndpointsListed

LEMMA UnresolvedIsCorroborated ==
  ASSUME ResolversAssumption, NEW answer, NEW allowed,
         HostEvidence(answer, allowed).verdict = "dns_unresolved"
  PROVE  /\ \A a \in Authorities : ProbeHostname(answer[a], allowed) # "answered"
         /\ \E a, b \in Authorities :
              a # b /\ {ProbeHostname(answer[a], allowed), ProbeHostname(answer[b], allowed)} \subseteq Negatives
<1> DEFINE records == [i \in DohEndpoints |-> ProbeHostname(answer[Resolvers[i]], allowed)]
           negative == {i \in DohEndpoints : records[i] \in Negatives}
           responded == \E i \in DohEndpoints : records[i] \in AnswerCategories
<1>1. Verdict(DohEndpoints, records) = "dns_unresolved"
  <2>1. HostEvidence(answer, allowed) = [verdict |-> Verdict(DohEndpoints, records), responded |-> responded]
    BY DEF HostEvidence
  <2> HIDE DEF records, responded
  <2> QED
    BY <2>1
<1>2. (\A i \in DohEndpoints : records[i] # "answered") /\ Cardinality(negative) >= 2
  <2> HIDE DEF records
  <2>1. \A i \in DohEndpoints : records[i] # "answered"
    BY <1>1 DEF Verdict
  <2>2. Cardinality(negative) >= 2
    BY <1>1, <2>1 DEF Verdict
  <2> QED
    BY <2>1, <2>2
<1>3. PICK i \in negative, j \in negative : i # j
  <2> HIDE DEF negative
  <2> QED
    BY <1>2, TwoDiffer
<1>4. \A a \in Authorities : ProbeHostname(answer[a], allowed) # "answered"
  <2> TAKE a \in Authorities
  <2>1. PICK k \in DohEndpoints : Resolvers[k] = a
    BY AuthorityAsked
  <2>2. records[k] = ProbeHostname(answer[a], allowed)
    BY <2>1
  <2> QED
    BY <1>2, <2>2
<1>5. /\ Resolvers[i] # Resolvers[j] /\ {Resolvers[i], Resolvers[j]} \subseteq Authorities
      /\ {ProbeHostname(answer[Resolvers[i]], allowed), ProbeHostname(answer[Resolvers[j]], allowed)} \subseteq Negatives
  BY <1>3, EndpointsDiffer
<1> QED
  BY <1>4, <1>5
---------------------------------------------------------------------------
(* The invariant of the stages.                                              *)

Unprobed == {"hostname", "endpoint", "copy", "browsing", "history", "rewrite"}

\* Each stage works on what the one before left of the generated candidate.
DocumentInv ==
  /\ Shrunk(generated)
  /\ step \in {"hostname", "endpoint", "browsing", "history", "rewrite"} => Shrunk(doc)
  /\ step \in {"hostname", "browsing"} => doc = generated
  /\ step \in {"history", "rewrite"} =>
       doc.entries = {e \in generated.entries : e[2] \notin probe.quarantined}
  /\ step = "transport" =>
       doc.entries = {e \in generated.entries : /\ e[2] \notin probe.quarantined
                                                /\ e[1][1] = "browsing" => e[2] \in probe.qualified}
  /\ step \in Unprobed \cup {"transport"} => "browsing" \notin DOMAIN inventories

\* From the browsing probe on, the tiers of a region split what it admitted.
SurfacesInv ==
  step \in ProbedStages =>
    /\ Shaped(doc)
    /\ \A s \in Surfaces : doc.regions[s] # {}
    /\ SurfacesSplit(doc, probe.qualified)
    /\ step \in FinalStages =>
         \A s \in Surfaces : \A r \in doc.regions[s] : doc.tiers[<<s, r, "stable">>].filter \cap reserve = {}

\* Until the transport probe a general group selects what it was generated to;
\* from then on what its transport admitted, when one narrows it.
GeneralInv ==
  /\ step = "transport" => doc.general = Candidate.general /\ ~EmptyGroup(doc)
  /\ step \in ProbedStages \ {"transport"} =>
       probe.udp \subseteq probe.tcp /\ probe.tcp \subseteq NodesOfKind(doc.entries, "general")
  /\ step \in {"ai", "service_hardening"} => \A g \in DOMAIN Candidate.general : doc.general[g] = <<Pool(g)>>
  /\ step \in {"ai", "service_hardening"} => DOMAIN doc.general = DOMAIN Candidate.general
  /\ GeneralPoolsHold

PipelineInv ==
  /\ step \in Unprobed \cup ProbedStages \cup {"rejected"}
  /\ DocumentInv /\ SurfacesInv /\ GeneralInv
  /\ NegativeEvidenceIsCorroborated /\ LastAttemptDecides

LEMMA Recorded ==
  ASSUME NEW name, NEW entries, RecordInventory(name, entries)
  PROVE  /\ name # "browsing" =>
              /\ "browsing" \in DOMAIN inventories' <=> "browsing" \in DOMAIN inventories
              /\ "browsing" \in DOMAIN inventories => inventories'["browsing"] = inventories["browsing"]
         /\ name = "browsing" => inventories'["browsing"] = entries
BY DEF RecordInventory

LEMMA InitialInvariant == PipelineInit => PipelineInv
<1> SUFFICES ASSUME PipelineInit PROVE PipelineInv
  OBVIOUS
<1>1. Shrunk(Candidate)
  BY CandidateAssumption DEF Shrunk, Fields
<1>2. "browsing" \notin DOMAIN inventories
  BY DEF PipelineInit
<1> QED
  BY <1>1, <1>2 DEF PipelineInit, PipelineInv, DocumentInv, SurfacesInv, GeneralInv, GeneralPoolsHold,
       NegativeEvidenceIsCorroborated, LastAttemptDecides, ProbedStages, Unprobed, FinalStages

\* A rejected candidate is judged no further.
LEMMA RejectionPreserves ==
  ASSUME PipelineInv, NEW why, RejectCandidate(why)
  PROVE  PipelineInv'
BY DEF PipelineInv, RejectCandidate, DocumentInv, SurfacesInv, GeneralInv, GeneralPoolsHold,
       NegativeEvidenceIsCorroborated, LastAttemptDecides, ProbedStages, Unprobed, FinalStages, Shrunk

LEMMA FailurePreserves ==
  ASSUME PipelineInv, NEW at, NEW why, NEW diagnostics, StageFailed(at, why, diagnostics),
         step \in {"browsing", "rewrite", "transport"}
  PROVE  PipelineInv'
<1>1. CASE RejectCandidate(why)
  BY <1>1, RejectionPreserves
<1>2. CASE step' = "copy" /\ UNCHANGED <<doc, generated, inventories, reserve, attempts, probe, admitted, reason>>
  BY <1>2 DEF PipelineInv, DocumentInv, SurfacesInv, GeneralInv, GeneralPoolsHold,
       NegativeEvidenceIsCorroborated, LastAttemptDecides, ProbedStages, Unprobed, FinalStages, Shrunk
<1> QED
  BY <1>1, <1>2 DEF StageFailed

LEMMA HostnamesPreserve ==
  ASSUME PipelineInv, HostQuarantine
  PROVE  PipelineInv'
<1>1. PICK answers \in [HostnameNodes \cap {e[2] : e \in doc.entries} -> HostAnswers] :
        LET verdicts == [n \in DOMAIN answers |-> HostEvidence(answers[n], AllowAaaa)]
            error    == HostStageError(doc.entries, verdicts)
            kept     == Resolvable(doc.entries, verdicts)
        IN  \/ error # "" /\ RejectCandidate(error) /\ evidence' = NoEvidence
            \/ /\ error = ""
               /\ step' = "endpoint"
               /\ doc' = [doc EXCEPT !.entries = kept]
               /\ RecordInventory("hostname", kept)
               /\ evidence' = answers
               /\ UNCHANGED <<generated, reserve, attempts, probe, admitted, reason>>
  BY DEF HostQuarantine
<1> DEFINE verdicts == [n \in DOMAIN answers |-> HostEvidence(answers[n], AllowAaaa)]
           error == HostStageError(doc.entries, verdicts)
           kept == Resolvable(doc.entries, verdicts)
<1>2. CASE RejectCandidate(error)
  BY <1>2, RejectionPreserves
<1>3. CASE /\ step' = "endpoint"
           /\ doc' = [doc EXCEPT !.entries = kept]
           /\ RecordInventory("hostname", kept)
           /\ evidence' = answers
           /\ UNCHANGED <<generated, reserve, attempts, probe, admitted, reason>>
  <2>1. step = "hostname" /\ Shrunk(doc) /\ doc = generated /\ "browsing" \notin DOMAIN inventories
    BY DEF HostQuarantine, PipelineInv, DocumentInv, Unprobed
  <2>2. kept \subseteq doc.entries
    BY DEF Resolvable
  <2>3. Shrunk(doc') /\ doc'.entries = kept
    BY <1>3, <2>1, <2>2, ShrunkFurther
  <2>4. "browsing" \notin DOMAIN inventories'
    BY <1>3, <2>1, Recorded
  <2>5. NegativeEvidenceIsCorroborated'
    <3> DEFINE said(n) == [a \in Authorities |-> ProbeHostname(evidence'[n][a], AllowAaaa)]
    <3>1. ASSUME NEW n \in {e[2] : e \in generated.entries \ kept}
          PROVE  /\ \A a \in Authorities : said(n)[a] # "answered"
                 /\ \E a, b \in Authorities : a # b /\ {said(n)[a], said(n)[b]} \subseteq Negatives
      <4>1. n \in DOMAIN verdicts /\ verdicts[n].verdict = "dns_unresolved"
        BY <2>1 DEF Resolvable
      <4>2. HostEvidence(answers[n], AllowAaaa).verdict = "dns_unresolved" /\ evidence' = answers
        BY <1>3, <4>1
      <4> HIDE DEF verdicts, kept, error
      <4>3. \A a \in Authorities : said(n)[a] = ProbeHostname(answers[n][a], AllowAaaa)
        BY <4>2
      <4> QED
        BY <4>2, <4>3, ResolversAssumption, UnresolvedIsCorroborated
    <3>2. generated' = generated /\ doc'.entries = kept
      BY <1>3, <2>3
    <3> QED
      BY <3>1, <3>2 DEF NegativeEvidenceIsCorroborated
  <2>6. DocumentInv'
    BY <1>3, <2>1, <2>3, <2>4 DEF DocumentInv, Unprobed, Shrunk
  <2> QED
    BY <1>3, <2>4, <2>5, <2>6 DEF PipelineInv, SurfacesInv, GeneralInv, GeneralPoolsHold, LastAttemptDecides,
         ProbedStages, Unprobed, FinalStages
<1> QED
  BY <1>1, <1>2, <1>3

LEMMA EndpointsPreserve ==
  ASSUME PipelineInv, EndpointQuarantine
  PROVE  PipelineInv'
<1>1. PICK probes \in [TcpNodes \cap {e[2] : e \in doc.entries} -> Endpoints] :
        LET error == EndpointStageError(doc.entries, probes)
            kept  == Reachable(doc.entries, probes)
        IN  \/ error # "" /\ RejectCandidate(error) /\ evidence' = NoEvidence
            \/ /\ error = ""
               /\ step' = "copy"
               /\ generated' = [doc EXCEPT !.entries = kept]
               /\ RecordInventory("endpoint", kept)
               /\ reserve' = ReserveNames(probes)
               /\ evidence' = probes
               /\ UNCHANGED <<doc, attempts, probe, admitted, reason>>
  BY DEF EndpointQuarantine
<1> DEFINE error == EndpointStageError(doc.entries, probes)
           kept == Reachable(doc.entries, probes)
<1>2. CASE RejectCandidate(error)
  BY <1>2, RejectionPreserves
<1>3. CASE /\ step' = "copy"
           /\ generated' = [doc EXCEPT !.entries = kept]
           /\ RecordInventory("endpoint", kept)
           /\ UNCHANGED probe
  <2>1. step = "endpoint" /\ Shrunk(doc) /\ "browsing" \notin DOMAIN inventories
    BY DEF EndpointQuarantine, PipelineInv, DocumentInv, Unprobed
  <2>2. kept \subseteq doc.entries
    BY DEF Reachable
  <2>3. Shrunk(generated')
    BY <1>3, <2>1, <2>2, ShrunkFurther
  <2>4. "browsing" \notin DOMAIN inventories'
    BY <1>3, <2>1, Recorded
  <2>5. Shrunk(generated)'
    BY <2>3 DEF Shrunk
  <2> QED
    BY <1>3, <2>4, <2>5 DEF PipelineInv, DocumentInv, SurfacesInv, GeneralInv, GeneralPoolsHold,
         NegativeEvidenceIsCorroborated, LastAttemptDecides, ProbedStages, Unprobed, FinalStages
<1> QED
  BY <1>1, <1>2, <1>3

LEMMA CopyPreserves ==
  ASSUME PipelineInv, CopyGenerated
  PROVE  PipelineInv'
BY DEF CopyGenerated, PipelineInv, DocumentInv, SurfacesInv, GeneralInv, GeneralPoolsHold,
       NegativeEvidenceIsCorroborated, LastAttemptDecides, ProbedStages, Unprobed, FinalStages, Shrunk

\* What the core cannot load leaves the document, and nothing else does.
LEMMA QuarantineShrinks ==
  ASSUME NEW c, Shrunk(c), NEW rejected, NEW isolated
  PROVE  LET kept == CoreQuarantine(c, rejected, isolated)
         IN  /\ Shrunk(kept)
             /\ kept = c \/ kept.entries = {e \in c.entries : e[2] \notin isolated}
<1>1. PruneRejected(c.entries, isolated) \subseteq c.entries
  BY DEF PruneRejected
<1> QED
  BY <1>1, ShrunkFurther DEF CoreQuarantine, PruneRejected

LEMMA BrowsingPreserves ==
  ASSUME PipelineInv, ProbeBrowsing
  PROVE  PipelineInv'
<1>1. step = "browsing" /\ Shrunk(doc) /\ doc = generated /\ Shrunk(generated) /\ "browsing" \notin DOMAIN inventories
  BY DEF ProbeBrowsing, PipelineInv, DocumentInv, Unprobed
<1>2. CASE \E why : StageFailed("browsing", why, NoDiagnostics)
  BY <1>1, <1>2, FailurePreserves
<1>3. CASE ~\E why : StageFailed("browsing", why, NoDiagnostics)
  <2>1. PICK rejected \in SUBSET Nodes, isolated \in SUBSET Nodes :
          LET kept == CoreQuarantine(doc, rejected, isolated)
          IN  /\ \E samples \in [1..ProbeAttempts -> ProbeSamples(Probed(kept))] :
                   /\ step' = "history"
                   /\ doc' = kept
                   /\ probe' = [NoProbe EXCEPT !.quarantined = IF kept = doc THEN {} ELSE isolated,
                                               !.qualified = QualifiedIn(samples, Probed(kept)),
                                               !.stable = StableIn(samples, Probed(kept)),
                                               !.diagnostics = ProbeDiagnostics(samples, Probed(kept))]
              /\ UNCHANGED <<generated, inventories, reserve, attempts, admitted, reason>>
    BY <1>3 DEF ProbeBrowsing
  <2> DEFINE kept == CoreQuarantine(doc, rejected, isolated)
             quarantined == IF kept = doc THEN {} ELSE isolated
  <2>2. Shrunk(kept) /\ kept.entries = {e \in doc.entries : e[2] \notin quarantined}
    BY <1>1, QuarantineShrinks
  <2>3. \E samples \in [1..ProbeAttempts -> ProbeSamples(Probed(kept))] :
           /\ step' = "history"
           /\ doc' = kept
           /\ probe' = [NoProbe EXCEPT !.quarantined = quarantined,
                                       !.qualified = QualifiedIn(samples, Probed(kept)),
                                       !.stable = StableIn(samples, Probed(kept)),
                                       !.diagnostics = ProbeDiagnostics(samples, Probed(kept))]
    BY <2>1
  <2>4. UNCHANGED <<generated, inventories, reserve, attempts, admitted, reason>>
    BY <2>1
  <2> HIDE DEF kept, quarantined
  <2>5. step' = "history" /\ doc' = kept /\ probe'.quarantined = quarantined
    BY <2>3 DEF NoProbe
  <2>6. Shrunk(doc)' /\ Shrunk(generated)' /\ doc'.entries = {e \in generated'.entries : e[2] \notin probe'.quarantined}
    BY <1>1, <2>2, <2>4, <2>5 DEF Shrunk
  <2>7. UNCHANGED evidence
    BY DEF ProbeBrowsing
  <2> QED
    BY <1>1, <2>4, <2>5, <2>6, <2>7 DEF PipelineInv, DocumentInv, SurfacesInv, GeneralInv, GeneralPoolsHold,
         NegativeEvidenceIsCorroborated, LastAttemptDecides, ProbedStages, Unprobed, FinalStages
<1> QED
  BY <1>2, <1>3

LEMMA HistoryPreserves ==
  ASSUME PipelineInv, PreferHistory
  PROVE  PipelineInv'
<1>1. PICK preferred : probe' = [probe EXCEPT !.preferred = preferred]
  BY DEF PreferHistory
<1>2. probe'.quarantined = probe.quarantined /\ probe'.qualified = probe.qualified
  BY <1>1
<1> QED
  BY <1>2 DEF PreferHistory, PipelineInv, DocumentInv, SurfacesInv, GeneralInv, GeneralPoolsHold,
       NegativeEvidenceIsCorroborated, LastAttemptDecides, ProbedStages, Unprobed, FinalStages, Shrunk

LEMMA RewrittenSplits ==
  ASSUME Shrunk(doc)
  PROVE  /\ Shaped(Rewritten) /\ SurfacesSplit(Rewritten, probe.qualified)
         /\ Rewritten.entries = KeepQualified(doc.entries, probe.qualified)
<1> DEFINE web == RewriteWebGeneral(doc, probe.qualified, probe.stable, probe.preferred)
           hardened == RewriteHardened(web, probe.qualified, probe.stable)
           preferred == ApplyHistoryPreference(hardened, probe.qualified, probe.stable, probe.preferred)
<1>1. Shaped(web) /\ web.entries = doc.entries /\ \A r \in web.regions["web"] : Split(web, probe.qualified, "web", r)
  BY CandidateAssumption, WebRewritten
<1> HIDE DEF web
<1>2. /\ Shaped(hardened) /\ SurfacesSplit(hardened, probe.qualified)
      /\ hardened.entries = KeepQualified(doc.entries, probe.qualified)
  BY <1>1, BrowsingRewritten
<1> HIDE DEF hardened
<1>3. Shaped(preferred) /\ SurfacesSplit(preferred, probe.qualified) /\ preferred.entries = hardened.entries
  BY <1>2, BrowsingAssumption, PreferenceApplied
<1> HIDE DEF preferred
<1>4. Rewritten = IF HasHistory THEN preferred ELSE hardened
  BY DEF Rewritten, web, hardened, preferred
<1> QED
  BY <1>2, <1>3, <1>4

\* The rewrite is about the surfaces alone.
Apart(c, d) == DOMAIN d = Fields /\ d.rules = c.rules /\ d.general = c.general /\ d.policy = c.policy

LEMMA RewrittenApart ==
  ASSUME DOMAIN doc = Fields
  PROVE  Apart(doc, Rewritten)
<1>1. ASSUME NEW c, DOMAIN c = Fields, NEW q, NEW s, NEW p
      PROVE  Apart(c, RewriteWebGeneral(c, q, s, p))
  <2>1. \A regions, tiers : Apart(c, [c EXCEPT !.regions["web"] = regions, !.tiers = tiers])
    BY <1>1 DEF Apart, Fields
  <2> QED
    BY <2>1 DEF RewriteWebGeneral
<1>2. ASSUME NEW c, DOMAIN c = Fields, NEW q, NEW s
      PROVE  Apart(c, RewriteHardened(c, q, s))
  <2>1. \A entries, regions, tiers :
           Apart(c, [c EXCEPT !.entries = entries, !.regions["browsing"] = regions, !.tiers = tiers])
    BY <1>2 DEF Apart, Fields
  <2> QED
    BY <2>1 DEF RewriteHardened
<1>3. ASSUME NEW c, DOMAIN c = Fields, NEW q, NEW s, NEW p
      PROVE  Apart(c, ApplyHistoryPreference(c, q, s, p))
  <2>1. \A tiers : Apart(c, [c EXCEPT !.tiers = tiers])
    BY <1>3 DEF Apart, Fields
  <2> QED
    BY <2>1 DEF ApplyHistoryPreference
<1> DEFINE web == RewriteWebGeneral(doc, probe.qualified, probe.stable, probe.preferred)
           hardened == RewriteHardened(web, probe.qualified, probe.stable)
           preferring == ApplyHistoryPreference(hardened, probe.qualified, probe.stable, probe.preferred)
<1>4. Apart(doc, web)
  BY <1>1
<1>5. Apart(web, hardened)
  BY <1>2, <1>4 DEF Apart
<1>6. Apart(hardened, preferring)
  BY <1>3, <1>5 DEF Apart
<1>7. Rewritten = preferring \/ Rewritten = hardened
  BY DEF Rewritten
<1> HIDE DEF web, hardened, preferring
<1> QED
  BY <1>4, <1>5, <1>6, <1>7 DEF Apart

LEMMA RewritePreserves ==
  ASSUME PipelineInv, RewriteSurfaces
  PROVE  PipelineInv'
<1>1. /\ step = "rewrite" /\ Shrunk(doc) /\ Shrunk(generated) /\ "browsing" \notin DOMAIN inventories
      /\ doc.entries = {e \in generated.entries : e[2] \notin probe.quarantined}
  BY DEF RewriteSurfaces, PipelineInv, DocumentInv, Unprobed
<1>2. CASE StageFailed("rewrite", RewriteError, probe.diagnostics)
  BY <1>1, <1>2, FailurePreserves
<1>3. CASE /\ RewriteError = ""
           /\ step' = "transport"
           /\ doc' = Rewritten
           /\ UNCHANGED <<generated, inventories, reserve, attempts, probe, admitted, reason>>
  <2>0. (\A s \in Surfaces : doc'.regions[s] # {}) /\ ~EmptyGroup(doc')
    BY <1>3 DEF RewriteError
  <2>1. /\ Shaped(doc') /\ SurfacesSplit(doc', probe.qualified)
        /\ doc'.entries = {e \in generated.entries : /\ e[2] \notin probe.quarantined
                                                     /\ e[1][1] = "browsing" => e[2] \in probe.qualified}
    BY <1>1, <1>3, RewrittenSplits DEF KeepQualified
  <2>2. probe' = probe /\ generated' = generated /\ Shrunk(generated)'
    BY <1>1, <1>3 DEF Shrunk
  <2>3. Shaped(doc)' /\ SurfacesSplit(doc, probe.qualified)'
    BY <2>1, <2>2 DEF Shaped, SurfacesSplit, Split
  <2>4. DocumentInv'
    BY <1>1, <1>3, <2>1, <2>2 DEF DocumentInv, Unprobed
  <2>5. SurfacesInv'
    BY <1>3, <2>0, <2>3 DEF SurfacesInv, FinalStages
  <2>6. doc'.general = Candidate.general /\ ~EmptyGroup(doc)'
    <3>1. DOMAIN doc = Fields /\ doc.general = Candidate.general
      BY <1>1 DEF Shrunk
    <3>2. doc'.general = Candidate.general
      BY <1>3, <3>1, RewrittenApart DEF Apart
    <3> QED
      BY <2>0, <3>2 DEF EmptyGroup, Selected
  <2>7. GeneralInv'
    BY <1>3, <2>6 DEF GeneralInv, GeneralPoolsHold, ProbedStages
  <2>8. evidence' = evidence
    BY DEF RewriteSurfaces
  <2> QED
    BY <1>1, <1>3, <2>4, <2>5, <2>7, <2>8 DEF PipelineInv,
         NegativeEvidenceIsCorroborated, LastAttemptDecides, ProbedStages, Unprobed
<1> QED
  BY <1>2, <1>3 DEF RewriteSurfaces

\* A pool list of one pool selects what the pool does.
LEMMA OnePool == ASSUME NEW names PROVE UNION {<<names>>[i] : i \in DOMAIN <<names>>} = names /\ <<names>>[1] = names
OBVIOUS

LEMMA TwoPools ==
  ASSUME NEW p, NEW q
  PROVE  UNION {<<p, q>>[i] : i \in DOMAIN <<p, q>>} = p \cup q /\ <<p, q>>[1] = p
<1>1. DOMAIN <<p, q>> = {1, 2}
  OBVIOUS
<1> QED
  BY <1>1

\* What a list of one pool, or of two, selects of the inventory.
LEMMA OneSelected ==
  ASSUME NEW c, NEW g, NEW names, c.general[g] = <<names>>
  PROVE  Selected(c, g) = names \cap NodesOfKind(c.entries, "general")
BY OnePool DEF Selected, Range

LEMMA TwoSelected ==
  ASSUME NEW c, NEW g, NEW p, NEW q, c.general[g] = <<p, q>>
  PROVE  Selected(c, g) = (p \cup q) \cap NodesOfKind(c.entries, "general")
BY TwoPools DEF Selected, Range

\* Of the inventory, the filter of a group selects what it should.
LEMMA PoolWanted ==
  ASSUME probe.udp \subseteq probe.tcp, probe.tcp \subseteq NodesOfKind(doc.entries, "general"), NEW g
  PROVE  Pool(g) \cap NodesOfKind(doc.entries, "general") = WantedOf(g)
BY DEF Pool, WantedOf

LEMMA TransportPreserves ==
  ASSUME PipelineInv, ProbeTransport
  PROVE  PipelineInv'
<1>1. /\ step = "transport" /\ Shrunk(generated) /\ Shaped(doc) /\ SurfacesSplit(doc, probe.qualified)
      /\ \A s \in Surfaces : doc.regions[s] # {}
      /\ doc.entries = {e \in generated.entries : /\ e[2] \notin probe.quarantined
                                                  /\ e[1][1] = "browsing" => e[2] \in probe.qualified}
      /\ doc.general = Candidate.general /\ ~EmptyGroup(doc)
  BY DEF ProbeTransport, PipelineInv, DocumentInv, SurfacesInv, GeneralInv, ProbedStages
<1>2. CASE \E why : StageFailed("transport", why, probe.diagnostics)
  BY <1>1, <1>2, FailurePreserves
<1>3. CASE ~\E why : StageFailed("transport", why, probe.diagnostics)
  <2> DEFINE names == NodesOfKind(doc.entries, "general")
  <2>1. PICK first \in SUBSET names, second \in SUBSET names, answers \in [names -> UdpResults] :
          LET tcp == TcpQualified(<<first, second>>, names)
              udp == UdpQualified(tcp, answers)
          IN  /\ TransportError(doc, tcp, udp) = ""
              /\ step' = "ai"
              /\ doc' = ApplyTransport(doc, tcp, udp)
              /\ probe' = [probe EXCEPT !.stable = {}, !.preferred = {},
                                        !.diagnostics = NoDiagnostics, !.tcp = tcp, !.udp = udp]
              /\ RecordInventory("browsing", doc.entries)
              /\ UNCHANGED <<generated, reserve, attempts, admitted, reason>>
    BY <1>3 DEF ProbeTransport
  <2> DEFINE tcp == TcpQualified(<<first, second>>, names)
             udp == UdpQualified(tcp, answers)
  <2>2. udp \subseteq tcp /\ tcp \subseteq names /\ udp # {}
    BY <2>1 DEF TcpQualified, UdpQualified, TransportError
  <2>3. /\ step' = "ai" /\ doc' = ApplyTransport(doc, tcp, udp)
        /\ probe' = [probe EXCEPT !.stable = {}, !.preferred = {},
                                  !.diagnostics = NoDiagnostics, !.tcp = tcp, !.udp = udp]
        /\ RecordInventory("browsing", doc.entries)
        /\ UNCHANGED <<generated, reserve, attempts, admitted, reason>>
    BY <2>1
  <2> HIDE DEF tcp, udp
  <2>4. /\ Carried(doc, doc') /\ doc'.entries = doc.entries
        /\ DOMAIN doc'.general = DOMAIN Candidate.general
        /\ \A g \in DOMAIN Candidate.general :
             doc'.general[g] = IF g \in ProbedGroups THEN <<NarrowedTo(g, tcp, udp)>> ELSE Candidate.general[g]
    BY <1>1, <2>3, TransportCarries
  <2>5. probe'.tcp = tcp /\ probe'.udp = udp /\ probe'.qualified = probe.qualified /\ probe'.quarantined = probe.quarantined
    <3> HIDE DEF NoDiagnostics
    <3> QED
      BY <2>3
  <2>6. inventories'["browsing"] = doc.entries
    BY <2>3, Recorded
  <2>7. Shaped(doc') /\ SurfacesSplit(doc', probe'.qualified)
    BY <1>1, <2>4, <2>5, CarriedSurfaces
  <2>8. \A g \in DOMAIN Candidate.general : doc'.general[g] = <<Pool(g)'>>
    <3> SUFFICES ASSUME NEW g \in DOMAIN Candidate.general PROVE doc'.general[g] = <<Pool(g)'>>
      OBVIOUS
    <3>1. CASE g \in ProbedGroups
      <4>1. NarrowedTo(g, tcp, udp) = Pool(g)'
        BY <2>2, <2>5, <3>1 DEF NarrowedTo, Pool, ProbedGroups
      <4> QED
        BY <2>4, <3>1, <4>1
    <3>2. CASE g \notin ProbedGroups
      <4>1. Candidate.general[g] = <<Candidate.general[g][1]>>
        BY CandidateAssumption
      <4>2. Pool(g)' = Candidate.general[g][1]
        BY <3>2 DEF Pool, ProbedGroups
      <4> QED
        BY <2>4, <3>2, <4>1, <4>2
    <3> QED
      BY <3>1, <3>2
  <2>9. DocumentInv'
    BY <1>1, <2>3 DEF DocumentInv, Unprobed, Shrunk
  <2>10. SurfacesInv'
    <3>1. \A s \in Surfaces : doc'.regions[s] # {}
      BY <1>1, <2>4 DEF Carried
    <3>2. Shaped(doc)' /\ SurfacesSplit(doc, probe.qualified)'
      BY <2>7 DEF Shaped, SurfacesSplit, Split
    <3> QED
      BY <2>3, <3>1, <3>2 DEF SurfacesInv, FinalStages
  <2>11. probe'.udp \subseteq probe'.tcp /\ probe'.tcp \subseteq NodesOfKind(doc'.entries, "general")
    BY <2>2, <2>4, <2>5
  <2>12. \A g \in DOMAIN Candidate.general : Selected(doc, g)' = WantedOf(g)' /\ WantedOf(g)' # {}
    <3> SUFFICES ASSUME NEW g \in DOMAIN Candidate.general
                 PROVE  Selected(doc, g)' = WantedOf(g)' /\ WantedOf(g)' # {}
      OBVIOUS
    <3>1. Selected(doc', g) = Pool(g)' \cap NodesOfKind(doc'.entries, "general")
      BY <2>8, OneSelected
    <3>2. Pool(g)' \cap NodesOfKind(doc'.entries, "general") = WantedOf(g)'
      BY <2>11 DEF Pool, WantedOf
    <3>3. Selected(doc, g)' = Selected(doc', g)
      BY DEF Selected
    <3>4. CASE g \in ProbedGroups
      BY <2>2, <2>5, <3>1, <3>2, <3>3, <3>4 DEF WantedOf, ProbedGroups
    <3>5. CASE g \notin ProbedGroups
      <4>1. WantedOf(g)' = Candidate.general[g][1] \cap NodesOfKind(doc.entries, "general")
        BY <2>4, <3>5 DEF WantedOf, ProbedGroups
      <4>2. Selected(doc, g) = Candidate.general[g][1] \cap NodesOfKind(doc.entries, "general")
        <5>1. doc.general[g] = <<Candidate.general[g][1]>>
          BY <1>1, CandidateAssumption
        <5> QED
          BY <5>1, OneSelected
      <4>3. Selected(doc, g) # {}
        BY <1>1 DEF EmptyGroup
      <4> QED
        BY <3>1, <3>2, <3>3, <4>1, <4>2, <4>3
    <3> QED
      BY <3>4, <3>5
  <2>13. GeneralInv'
    <3>1. GeneralPoolsHold'
      BY <2>3, <2>12 DEF GeneralPoolsHold, FinalStages
    <3> QED
      BY <2>3, <2>4, <2>8, <2>11, <3>1 DEF GeneralInv, ProbedStages
  <2>14. LastAttemptDecides'
    BY <1>1, <2>3, <2>5, <2>6 DEF LastAttemptDecides
  <2> QED
    BY <2>3, <2>9, <2>10, <2>13, <2>14 DEF PipelineInv, NegativeEvidenceIsCorroborated, ProbedStages
<1> QED
  BY <1>2, <1>3

\* A stage that carries the document over leaves everything that was settled.
LEMMA CarryPreserves ==
  ASSUME PipelineInv, step \in ProbedStages \ {"transport"}, step' \in ProbedStages \ {"transport"},
         Carried(doc, doc'),
         UNCHANGED <<generated, probe>>,
         "browsing" \in DOMAIN inventories' <=> "browsing" \in DOMAIN inventories,
         "browsing" \in DOMAIN inventories => inventories'["browsing"] = inventories["browsing"]
  PROVE  /\ DocumentInv' /\ LastAttemptDecides'
         /\ Shaped(doc)' /\ (\A s \in Surfaces : doc'.regions[s] # {}) /\ SurfacesSplit(doc, probe.qualified)'
         /\ probe'.udp \subseteq probe'.tcp /\ probe'.tcp \subseteq NodesOfKind(doc'.entries, "general")
<1>1. /\ Shaped(doc) /\ (\A s \in Surfaces : doc.regions[s] # {}) /\ SurfacesSplit(doc, probe.qualified)
      /\ probe.udp \subseteq probe.tcp /\ probe.tcp \subseteq NodesOfKind(doc.entries, "general")
      /\ Shrunk(generated) /\ LastAttemptDecides
  BY DEF PipelineInv, DocumentInv, SurfacesInv, GeneralInv, ProbedStages
<1>2. Shaped(doc') /\ SurfacesSplit(doc', probe.qualified) /\ probe' = probe
  BY <1>1, CarriedSurfaces
<1>3. Shaped(doc)' /\ SurfacesSplit(doc, probe.qualified)'
  BY <1>2, ShapePrimed, SplitPrimed
<1>4. NodesOfKind(doc'.entries, "general") = NodesOfKind(doc.entries, "general") /\ doc'.regions = doc.regions
  BY CarriedInventory DEF Carried
<1>5. DocumentInv'
  BY <1>1 DEF DocumentInv, Unprobed, Shrunk, ProbedStages
<1>6. LastAttemptDecides'
  BY <1>1 DEF LastAttemptDecides
<1> QED
  BY <1>1, <1>2, <1>3, <1>4, <1>5, <1>6

LEMMA ServicesPreserve ==
  ASSUME PipelineInv, QualifyAi
  PROVE  PipelineInv'
<1>1. PICK qualifiedBy :
        LET routed == ApplyAiServiceQualification(doc, qualifiedBy)
        IN  /\ doc' = [routed EXCEPT !.rules = ApplyRouteLock(routed.rules)]
            /\ RecordInventory("ai", routed.entries)
  BY DEF QualifyAi
<1>2. step = "ai" /\ step' = "service_hardening" /\ UNCHANGED <<generated, evidence, reserve, attempts, probe, reason>>
  BY DEF QualifyAi
<1>3. /\ Shaped(doc) /\ GeneralPoolsHold /\ DOMAIN doc.general = DOMAIN Candidate.general
      /\ \A g \in DOMAIN Candidate.general : doc.general[g] = <<Pool(g)>>
  BY <1>2 DEF PipelineInv, SurfacesInv, GeneralInv, ProbedStages
<1>4. Carried(doc, doc') /\ doc'.general = doc.general
  BY <1>1, <1>3, ServicesCarry
<1>5. \A g \in DOMAIN Candidate.general : doc'.general[g] = <<Pool(g)'>>
  BY <1>2, <1>3, <1>4 DEF Pool
<1>6. GeneralPoolsHold'
  <2>1. NodesOfKind(doc'.entries, "general") = NodesOfKind(doc.entries, "general")
    BY <1>4, CarriedInventory
  <2>2. \A g : Selected(doc, g)' = Selected(doc, g) /\ WantedOf(g)' = WantedOf(g)
    BY <1>2, <1>4, <2>1 DEF Selected, WantedOf
  <2> QED
    BY <1>2, <1>3, <2>2 DEF GeneralPoolsHold, FinalStages, ProbedStages
<1>7. /\ "browsing" \in DOMAIN inventories' <=> "browsing" \in DOMAIN inventories
      /\ "browsing" \in DOMAIN inventories => inventories'["browsing"] = inventories["browsing"]
  BY <1>1, Recorded
<1>8. step \in ProbedStages \ {"transport"} /\ step' \in ProbedStages \ {"transport"}
  BY <1>2 DEF ProbedStages
<1>9. /\ DocumentInv' /\ LastAttemptDecides'
      /\ Shaped(doc)' /\ (\A s \in Surfaces : doc'.regions[s] # {}) /\ SurfacesSplit(doc, probe.qualified)'
      /\ probe'.udp \subseteq probe'.tcp /\ probe'.tcp \subseteq NodesOfKind(doc'.entries, "general")
  BY <1>2, <1>4, <1>7, <1>8, CarryPreserves
<1> QED
  BY <1>2, <1>3, <1>4, <1>5, <1>6, <1>9
     DEF PipelineInv, SurfacesInv, GeneralInv, NegativeEvidenceIsCorroborated, ProbedStages, FinalStages

\* The robust nodes of a general group are its first pool, the rest its second.
LEMMA CappedGroup ==
  ASSUME NEW c, NEW spare, NEW g, NEW pool, c.general[g] = <<pool>>,
         NEW d, d.entries = c.entries, d.general[g] = CapGeneral(c, spare, g),
         NEW wanted, wanted = pool \cap NodesOfKind(c.entries, "general")
  PROVE  /\ Selected(d, g) = wanted
         /\ wanted \cap d.general[g][1] \cap spare # {} => wanted \subseteq spare
<1> DEFINE held == wanted \cap spare
           kept == wanted \ held
<1>1. Head(c.general[g]) \cap NodesOfKind(c.entries, "general") = wanted
  OBVIOUS
<1>2. d.general[g] = IF held = {} THEN <<pool>> ELSE IF kept = {} THEN <<held>> ELSE <<kept, held>>
  BY <1>1 DEF CapGeneral
<1>3. CASE held = {}
  <2>1. d.general[g] = <<pool>>
    BY <1>2, <1>3
  <2> QED
    BY <1>3, <2>1, OneSelected
<1>4. CASE held # {} /\ kept = {}
  <2>1. d.general[g] = <<held>> /\ held = wanted /\ wanted \subseteq spare
    BY <1>2, <1>4
  <2> HIDE DEF held
  <2>2. Selected(d, g) = held \cap NodesOfKind(d.entries, "general")
    BY <2>1, OneSelected
  <2> QED
    BY <2>1, <2>2
<1>5. CASE held # {} /\ kept # {}
  <2>1. d.general[g] = <<kept, held>> /\ kept \cup held = wanted /\ kept \cap spare = {}
    BY <1>2, <1>5
  <2> HIDE DEF held, kept
  <2>2. Selected(d, g) = (kept \cup held) \cap NodesOfKind(d.entries, "general") /\ d.general[g][1] = kept
    BY <2>1, TwoSelected
  <2> QED
    BY <2>1, <2>2
<1> QED
  BY <1>3, <1>4, <1>5

LEMMA HardeningPreserves ==
  ASSUME PipelineInv, HardenServices
  PROVE  PipelineInv'
<1> DEFINE hardened == HardenOpenAiClientPath(doc)
           capped == CapEndpointReservePools(hardened, reserve)
<1>1. /\ step = "service_hardening" /\ step' = "accounting" /\ doc' = capped
      /\ RecordInventory("service_hardening", doc'.entries)
      /\ UNCHANGED <<generated, evidence, reserve, attempts, probe, admitted, reason>>
  BY DEF HardenServices
<1>2. /\ Shaped(doc) /\ SurfacesSplit(doc, probe.qualified) /\ \A s \in Surfaces : doc.regions[s] # {}
      /\ probe.udp \subseteq probe.tcp /\ probe.tcp \subseteq NodesOfKind(doc.entries, "general")
      /\ GeneralPoolsHold /\ DOMAIN doc.general = DOMAIN Candidate.general
      /\ \A g \in DOMAIN Candidate.general : doc.general[g] = <<Pool(g)>>
      /\ Shrunk(generated) /\ LastAttemptDecides
  BY <1>1 DEF PipelineInv, DocumentInv, SurfacesInv, GeneralInv, ProbedStages
<1>3. Carried(doc, hardened) /\ hardened.general = doc.general
  BY <1>2, HardeningCarries
<1> HIDE DEF hardened
<1>4. /\ Shaped(hardened) /\ SurfacesSplit(hardened, probe.qualified) /\ hardened.regions = doc.regions
      /\ NodesOfKind(hardened.entries, "general") = NodesOfKind(doc.entries, "general")
  BY <1>2, <1>3, CarriedSurfaces, CarriedInventory DEF Carried
<1>5. /\ Shaped(capped) /\ capped.entries = hardened.entries /\ capped.regions = hardened.regions
      /\ SurfacesSplit(capped, probe.qualified)
      /\ \A s \in Surfaces : \A r \in capped.regions[s] : capped.tiers[<<s, r, "stable">>].filter \cap reserve = {}
      /\ \A g \in DOMAIN hardened.general : capped.general[g] = CapGeneral(hardened, reserve, g)
  BY <1>4, CapSplits
<1> HIDE DEF capped
<1>6. SurfacesInv'
  <2>1. Shaped(doc') /\ SurfacesSplit(doc', probe'.qualified)
    BY <1>1, <1>5
  <2>2. Shaped(doc)' /\ SurfacesSplit(doc, probe.qualified)'
    BY <2>1, ShapePrimed, SplitPrimed
  <2> QED
    BY <1>1, <1>2, <1>4, <1>5, <2>2 DEF SurfacesInv
<1>7. GeneralInv'
  <2>1. probe'.udp \subseteq probe'.tcp /\ probe'.tcp \subseteq NodesOfKind(doc'.entries, "general")
    BY <1>1, <1>2, <1>4, <1>5
  <2>2. ASSUME NEW g \in DOMAIN Candidate.general
        PROVE  /\ Selected(doc, g)' = WantedOf(g)' /\ WantedOf(g)' # {}
               /\ WantedOf(g)' \cap doc'.general[g][1] \cap reserve' # {} => WantedOf(g)' \subseteq reserve'
    <3>1. hardened.general[g] = <<Pool(g)>> /\ g \in DOMAIN hardened.general
      BY <1>2, <1>3
    <3>2. WantedOf(g) = Pool(g) \cap NodesOfKind(hardened.entries, "general") /\ WantedOf(g) # {}
      BY <1>1, <1>2, <1>4, PoolWanted DEF GeneralPoolsHold, ProbedStages
    <3>3. doc'.entries = hardened.entries /\ doc'.general[g] = CapGeneral(hardened, reserve, g) /\ reserve' = reserve
      BY <1>1, <1>5, <3>1
    <3>4. WantedOf(g)' = WantedOf(g)
      BY <1>1, <1>4, <3>3 DEF WantedOf
    <3>5. Selected(doc, g)' = Selected(doc', g)
      BY DEF Selected
    <3> QED
      BY <3>1, <3>2, <3>3, <3>4, <3>5, CappedGroup
  <2>3. GeneralPoolsHold'
    BY <2>2 DEF GeneralPoolsHold
  <2> QED
    BY <1>1, <2>1, <2>3 DEF GeneralInv
<1>8. DocumentInv' /\ LastAttemptDecides'
  <2>1. /\ "browsing" \in DOMAIN inventories' <=> "browsing" \in DOMAIN inventories
        /\ "browsing" \in DOMAIN inventories => inventories'["browsing"] = inventories["browsing"]
    BY <1>1, Recorded
  <2>2. LastAttemptDecides'
    BY <1>1, <1>2, <2>1 DEF LastAttemptDecides
  <2> QED
    BY <1>1, <1>2, <2>2 DEF DocumentInv, Unprobed, Shrunk
<1> QED
  BY <1>1, <1>6, <1>7, <1>8 DEF PipelineInv, NegativeEvidenceIsCorroborated, ProbedStages

\* The invariant does not tell the last two stages apart.
LEMMA UnmovedPreserves ==
  ASSUME PipelineInv, UNCHANGED <<doc, generated, inventories, evidence, reserve, probe>>,
         step' = step \/ (step = "accounting" /\ step' = "done")
  PROVE  PipelineInv'
<1>1. /\ Shrunk(generated)' <=> Shrunk(generated)
      /\ Shrunk(doc)' <=> Shrunk(doc)
  BY DEF Shrunk
<1>2. /\ Shaped(doc)' <=> Shaped(doc)
      /\ SurfacesSplit(doc, probe.qualified)' <=> SurfacesSplit(doc, probe.qualified)
  BY DEF Shaped, SurfacesSplit, Split
<1>3. DocumentInv'
  BY <1>1 DEF PipelineInv, DocumentInv, Unprobed
<1>4. SurfacesInv'
  BY <1>2 DEF PipelineInv, SurfacesInv, ProbedStages, FinalStages
<1>5. GeneralInv'
  BY DEF PipelineInv, GeneralInv, GeneralPoolsHold, Pool, WantedOf, Selected, EmptyGroup, ProbedStages, FinalStages
<1>6. NegativeEvidenceIsCorroborated' /\ LastAttemptDecides'
  BY DEF PipelineInv, NegativeEvidenceIsCorroborated, LastAttemptDecides
<1> QED
  BY <1>3, <1>4, <1>5, <1>6 DEF PipelineInv, ProbedStages

LEMMA AccountPreserves ==
  ASSUME PipelineInv, Account
  PROVE  PipelineInv'
<1>1. CASE AccountingError # ""
  <2>1. RejectCandidate(AccountingError) /\ UNCHANGED evidence
    BY <1>1 DEF Account
  <2> HIDE DEF Account
  <2> QED
    BY <2>1, RejectionPreserves
<1>2. CASE ~(AccountingError # "")
  <2>1. step = "accounting" /\ step' = "done" /\ UNCHANGED <<doc, generated, inventories, evidence, reserve, probe>>
    BY <1>2 DEF Account
  <2> QED
    BY <2>1, UnmovedPreserves
<1> QED
  BY <1>1, <1>2

LEMMA StepPreserves ==
  ASSUME PipelineInv, [PipelineNext]_pipelineVars
  PROVE  PipelineInv'
<1>1. CASE UNCHANGED pipelineVars
  BY <1>1, UnmovedPreserves DEF pipelineVars
<1>2. CASE AiProbeFails
  BY <1>2, RejectionPreserves DEF AiProbeFails
<1> QED
  BY <1>1, <1>2, HostnamesPreserve, EndpointsPreserve, CopyPreserves, BrowsingPreserves, HistoryPreserves,
     RewritePreserves, TransportPreserves, ServicesPreserve, HardeningPreserves, AccountPreserves
     DEF PipelineNext

\* What the candidate, and what was probed, are at each stage.
THEOREM PipelineInvariant == PipelineSpec => []PipelineInv
<1>1. PipelineInit => PipelineInv
  BY InitialInvariant
<1>2. PipelineInv /\ [PipelineNext]_pipelineVars => PipelineInv'
  BY StepPreserves
<1> QED
  BY <1>1, <1>2, PTL DEF PipelineSpec

\* quarantine_unresolvable_proxy_hosts refuses a hostname on the word of two
\* authorities that none contradicts, whatever resolvers are configured.
THEOREM NegativesAreCorroborated == PipelineSpec => []NegativeEvidenceIsCorroborated
<1>1. PipelineInv => NegativeEvidenceIsCorroborated
  BY DEF PipelineInv
<1> QED
  BY <1>1, PipelineInvariant, PTL

\* run_qualification_pipeline: what browsing leaves is what the preflight left,
\* judged by the last of its attempts, also after a repeated one.
THEOREM LastAttemptsDecide == PipelineSpec => []LastAttemptDecides
<1>1. PipelineInv => LastAttemptDecides
  BY DEF PipelineInv
<1> QED
  BY <1>1, PipelineInvariant, PTL

LEMMA PoolsFollow == PipelineInv => PoolsHoldAdmitted
<1> SUFFICES ASSUME PipelineInv, step \in ProbedStages PROVE PoolsHoldAdmitted
  BY DEF PoolsHoldAdmitted, RegionalPoolsHold, RegionalPoolsResolve, GeneralPoolsHold, PipelineInv, GeneralInv,
         FinalStages, ProbedStages
<1>1. /\ Shaped(doc) /\ \A s \in Surfaces : doc.regions[s] # {}
      /\ SurfacesSplit(doc, probe.qualified) /\ GeneralPoolsHold
      /\ step \in FinalStages =>
           \A s \in Surfaces : \A r \in doc.regions[s] : doc.tiers[<<s, r, "stable">>].filter \cap reserve = {}
  BY DEF PipelineInv, SurfacesInv, GeneralInv
<1> DEFINE held(s, r) == Payload(doc.entries, ProviderOf(s, r)) \cap probe.qualified
           pool(s, r, tier) == doc.tiers[<<s, r, tier>>]
<1>2. ASSUME NEW t \in OfferedTiers(doc)
      PROVE  \E s \in Surfaces : \E r \in doc.regions[s] : \E tier \in TierNames : t = <<s, r, tier>>
  BY <1>1 DEF OfferedTiers, Shaped
<1>3. ASSUME NEW s \in Surfaces, NEW r \in doc.regions[s]
      PROVE  /\ held(s, r) # {}
             /\ pool(s, r, "stable").filter \subseteq held(s, r) /\ pool(s, r, "reserve").filter \subseteq held(s, r)
             /\ pool(s, r, "stable").filter \cup pool(s, r, "reserve").filter = held(s, r)
             /\ pool(s, r, "stable").filter # {} \/ pool(s, r, "stable").reject
             /\ pool(s, r, "reserve").filter # {}
  BY <1>1 DEF SurfacesSplit, Split
<1> HIDE DEF held, pool
<1>4. ASSUME NEW s \in Surfaces, NEW r \in doc.regions[s], NEW tier \in TierNames
      PROVE  /\ Members(doc, <<s, r, tier>>) = pool(s, r, tier).filter
             /\ pool(s, r, tier).filter \subseteq held(s, r)
             /\ pool(s, r, tier).filter # {} \/ pool(s, r, tier).reject
  <2>1. tier = "stable" \/ tier = "reserve"
    BY DEF TierNames
  <2>2. /\ pool(s, r, tier).filter \subseteq held(s, r)
        /\ pool(s, r, tier).filter # {} \/ pool(s, r, tier).reject
    BY <1>3, <2>1
  <2>3. Members(doc, <<s, r, tier>>) = Payload(doc.entries, ProviderOf(s, r)) \cap pool(s, r, tier).filter
    BY DEF Members, pool
  <2> QED
    BY <2>2, <2>3 DEF held
<1>5. RegionalPoolsHold
  <2>1. ASSUME NEW t \in OfferedTiers(doc) PROVE Members(doc, t) \subseteq probe.qualified
    BY <1>2, <1>4 DEF held
  <2>2. ASSUME step \in FinalStages, NEW t \in OfferedTiers(doc)
        PROVE  /\ Members(doc, <<t[1], t[2], "stable">>) \cap reserve = {}
               /\ Members(doc, <<t[1], t[2], "stable">>) \cup Members(doc, <<t[1], t[2], "reserve">>) =
                    Payload(doc.entries, ProviderOf(t[1], t[2])) \cap probe.qualified
    <3>1. PICK s \in Surfaces : \E r \in doc.regions[s] : \E tier \in TierNames : t = <<s, r, tier>>
      BY <1>2
    <3>2. PICK r \in doc.regions[s] : t[1] = s /\ t[2] = r
      BY <3>1
    <3>3. /\ Members(doc, <<s, r, "stable">>) = pool(s, r, "stable").filter
          /\ Members(doc, <<s, r, "reserve">>) = pool(s, r, "reserve").filter
      BY <1>4 DEF TierNames
    <3>4. pool(s, r, "stable").filter \cap reserve = {}
      BY <1>1, <2>2 DEF pool
    <3>5. pool(s, r, "stable").filter \cup pool(s, r, "reserve").filter = held(s, r)
      BY <1>3
    <3> QED
      BY <3>2, <3>3, <3>4, <3>5 DEF held
  <2> QED
    BY <2>1, <2>2 DEF RegionalPoolsHold
<1>6. RegionalPoolsResolve
  <2>1. ASSUME NEW t \in OfferedTiers(doc)
        PROVE  /\ Members(doc, t) # {} \/ doc.tiers[t].reject
               /\ doc.tiers[t].filter # {} \/ doc.tiers[t].reject
    <3>1. PICK s \in Surfaces : \E r \in doc.regions[s] : \E tier \in TierNames : t = <<s, r, tier>>
      BY <1>2
    <3>2. PICK r \in doc.regions[s] : \E tier \in TierNames : t = <<s, r, tier>>
      BY <3>1
    <3>3. PICK tier \in TierNames : t = <<s, r, tier>>
      BY <3>2
    <3> QED
      BY <1>4, <3>3 DEF pool
  <2>2. ASSUME NEW t \in OfferedTiers(doc) PROVE ProviderOf(t[1], t[2]) \in ProvidersIn(doc.entries)
    <3>1. PICK s \in Surfaces : \E r \in doc.regions[s] : t[1] = s /\ t[2] = r
      BY <1>2
    <3>2. PICK r \in doc.regions[s] : t[1] = s /\ t[2] = r
      BY <3>1
    <3>3. PICK n : n \in Payload(doc.entries, ProviderOf(s, r))
      BY <1>3 DEF held
    <3>4. PICK e \in doc.entries : e[1] = ProviderOf(s, r)
      BY <3>3 DEF Payload
    <3> QED
      BY <3>2, <3>4 DEF ProvidersIn
  <2> QED
    BY <1>1, <2>1, <2>2 DEF RegionalPoolsResolve, PublicSurfaceValid, OfferedTiers
<1> QED
  BY <1>1, <1>5, <1>6 DEF PoolsHoldAdmitted

\* The stages after a probe, from browsing_runtime to cap_endpoint_reserve_pools,
\* rewrite pools only to others of nodes it admitted, and leave none silently empty.
THEOREM PoolsAlwaysHoldAdmitted == PipelineSpec => []PoolsHoldAdmitted
  BY PoolsFollow, PipelineInvariant, PTL

---------------------------------------------------------------------------
(* Elements of a sequence at some of its positions.                          *)

\* The positions in order: the i-th is the one with i of them up to itself.
LEMMA PositionsInOrder ==
  ASSUME NEW seq, NEW positions, positions \subseteq Nat, IsFiniteSet(positions)
  PROVE  \E p \in [1..Cardinality(positions) -> positions] :
           /\ At(seq, positions) = [i \in 1..Cardinality(positions) |-> seq[p[i]]]
           /\ \A k \in positions : \E i \in 1..Cardinality(positions) : p[i] = k
           /\ \A i, j \in 1..Cardinality(positions) : i < j => p[i] < p[j]
<1> DEFINE n == Cardinality(positions)
           upto(k) == {q \in positions : q <= k}
           rank == [k \in positions |-> Cardinality(upto(k))]
<1>1. n \in Nat
  BY FS_CardinalityType
<1>2. ASSUME NEW k \in positions
      PROVE  IsFiniteSet(upto(k)) /\ Cardinality(upto(k)) \in 1..n
  <2>1. IsFiniteSet(upto(k)) /\ Cardinality(upto(k)) <= n
    BY FS_Subset
  <2>2. k \in upto(k)
    OBVIOUS
  <2>3. Cardinality(upto(k)) \in Nat /\ Cardinality(upto(k)) # 0
    BY <2>1, <2>2, FS_CardinalityType, FS_EmptySet
  <2> QED
    BY <1>1, <2>1, <2>3
<1>3. ASSUME NEW j \in positions, NEW k \in positions, j < k
      PROVE  Cardinality(upto(j)) < Cardinality(upto(k))
  <2>1. upto(j) \subseteq upto(k) /\ k \in upto(k) /\ k \notin upto(j)
    <3>1. j \in Nat /\ k \in Nat /\ j < k /\ \A q \in positions : q \in Nat
      BY <1>3
    <3>2. k \in upto(k) /\ k \notin upto(j)
      BY <3>1
    <3>3. ASSUME NEW q \in upto(j) PROVE q \in upto(k)
      <4>1. q \in Nat /\ q \in positions /\ q <= j
        BY <3>1
      <4>2. q <= k
        BY <3>1, <4>1
      <4> QED
        BY <4>1, <4>2
    <3> QED
      BY <3>2, <3>3
  <2>2. Cardinality(upto(j)) <= Cardinality(upto(k)) /\ Cardinality(upto(j)) # Cardinality(upto(k))
    <3> HIDE DEF upto
    <3> QED
      BY <1>2, <2>1, FS_Subset
  <2> QED
    BY <1>2, <2>2
<1>4. rank \in Injection(positions, 1..n)
  <2>1. rank \in [positions -> 1..n]
    BY <1>2
  <2>2. \A j, k \in positions : rank[j] = rank[k] => j = k
    <3> SUFFICES ASSUME NEW j \in positions, NEW k \in positions, j # k PROVE rank[j] # rank[k]
      OBVIOUS
    <3>1. j < k \/ k < j
      OBVIOUS
    <3>2. Cardinality(upto(j)) < Cardinality(upto(k)) \/ Cardinality(upto(k)) < Cardinality(upto(j))
      BY <1>3, <3>1
    <3>3. Cardinality(upto(j)) \in Nat /\ Cardinality(upto(k)) \in Nat
      BY <1>1, <1>2
    <3> HIDE DEF upto
    <3> QED
      BY <3>2, <3>3
  <2> QED
    BY <2>1, <2>2 DEF Injection, IsInjective
<1>5. rank \in Surjection(positions, 1..n)
  <2>1. IsFiniteSet(1..n) /\ Cardinality(1..n) = n
    BY <1>1, FS_Interval
  <2> QED
    BY <1>4, <2>1, FS_Injection
<1>6. \A i \in 1..n : \E k \in positions : rank[k] = i
  BY <1>5 DEF Surjection
<1> DEFINE p == [i \in 1..n |-> CHOOSE k \in positions : Cardinality(upto(k)) = i]
<1>7. ASSUME NEW i \in 1..n PROVE p[i] \in positions /\ Cardinality(upto(p[i])) = i
  <2>1. \E k \in positions : Cardinality(upto(k)) = i
    BY <1>6
  <2> HIDE DEF upto
  <2> QED
    BY <2>1
<1>8. \A k \in positions : \E i \in 1..n : p[i] = k
  <2> SUFFICES ASSUME NEW k \in positions PROVE p[rank[k]] = k /\ rank[k] \in 1..n
    OBVIOUS
  <2>1. rank[k] \in 1..n
    BY <1>2
  <2>2. p[rank[k]] \in positions /\ rank[p[rank[k]]] = rank[k]
    BY <1>7, <2>1
  <2> QED
    BY <1>4, <2>1, <2>2 DEF Injection, IsInjective
<1>9. \A i, j \in 1..n : i < j => p[i] < p[j]
  <2> SUFFICES ASSUME NEW i \in 1..n, NEW j \in 1..n, i < j, ~(p[i] < p[j]) PROVE FALSE
    OBVIOUS
  <2>1. /\ p[i] \in positions /\ Cardinality(upto(p[i])) = i
        /\ p[j] \in positions /\ Cardinality(upto(p[j])) = j
    BY <1>7
  <2> HIDE DEF p
  <2>2. p[j] < p[i] \/ p[j] = p[i]
    <3>1. p[i] \in Nat /\ p[j] \in Nat
      BY <2>1
    <3> QED
      BY <3>1
  <2>3. p[j] < p[i] => Cardinality(upto(p[j])) < Cardinality(upto(p[i]))
    BY <1>3, <2>1
  <2> HIDE DEF upto
  <2> QED
    BY <2>1, <2>2, <2>3
<1>10. At(seq, positions) = [i \in 1..n |-> seq[p[i]]]
  BY DEF At
<1>11. p \in [1..n -> positions]
  BY <1>7
<1> HIDE DEF p
<1> QED
  BY <1>8, <1>9, <1>10, <1>11

\* Declared or not, and whatever it says, each available country is listed, and
\* no other.
LEMMA CountriesListed ==
  ASSUME AiAssumption, NEW available, available \subseteq Regions, NEW policy \in Seq(Regions),
         NEW order, order = CountryOrder(available, policy)
  PROVE  order \in Seq(Regions) /\ {order[i] : i \in DOMAIN order} = available
<1> DEFINE before == IF PreferredAiRegions # Undeclared THEN PreferredAiRegions \o LegacyOrder
                     ELSE IF Range(policy) \cap available # {} THEN policy
                     ELSE LegacyOrder
           rest == SetToSeq(available)
           wanted == before \o rest
           firsts == {i \in DOMAIN wanted : /\ wanted[i] \in available
                                            /\ \A j \in 1..(i - 1) : wanted[j] # wanted[i]}
<1>1. IsFiniteSet(available)
  BY FS_Subset DEF AiAssumption
<1>2. rest \in [1..Cardinality(available) -> available] /\ IsInjective(rest) /\ Cardinality(available) \in Nat
  <2>1. PICK f : f \in Bijection(1..Cardinality(available), available)
    BY <1>1, FS_CardinalityType DEF ExistsBijection
  <2>2. f \in [1..Cardinality(available) -> available] /\ IsInjective(f)
    BY <2>1 DEF Bijection, Injection, IsInjective
  <2> QED
    BY <1>1, <2>2, FS_CardinalityType DEF SetToSeq
<1>3. \A r \in available : \E i \in 1..Cardinality(available) : rest[i] = r
  <2>1. rest \in Injection(1..Cardinality(available), available)
    BY <1>2 DEF Injection, IsInjective
  <2>2. IsFiniteSet(1..Cardinality(available)) /\ Cardinality(1..Cardinality(available)) = Cardinality(available)
    BY <1>2, FS_Interval
  <2>3. rest \in Surjection(1..Cardinality(available), available)
    BY <1>1, <2>1, <2>2, FS_Injection
  <2> QED
    BY <2>3 DEF Surjection
<1>4. rest \in Seq(Regions) /\ Len(rest) = Cardinality(available)
  BY <1>2
<1> HIDE DEF rest
<1>5. /\ wanted \in Seq(Regions)
      /\ \A r \in available : \E i \in DOMAIN wanted : wanted[i] = r
  <2>1. before \in Seq(Regions)
    <3>1. LegacyOrder \in Seq(Regions)
      BY DEF AiAssumption
    <3>2. CASE PreferredAiRegions # Undeclared
      <4>1. PreferredAiRegions \in Seq(Regions)
        BY <3>2 DEF AiAssumption
      <4>2. PreferredAiRegions \o LegacyOrder \in Seq(Regions)
        BY <3>1, <4>1, ConcatProperties, Zenon
      <4> QED
        BY <3>2, <4>2
    <3> QED
      BY <3>1, <3>2
  <2>2. wanted = before \o rest
    OBVIOUS
  <2> HIDE DEF before, wanted
  <2>3. wanted \in Seq(Regions) /\ Len(wanted) = Len(before) + Len(rest)
    BY <1>4, <2>1, <2>2, ConcatProperties, Zenon
  <2>4. Len(before) \in Nat /\ \A i \in 1..Len(rest) : wanted[Len(before) + i] = rest[i]
    BY <1>4, <2>1, <2>2
  <2>5. ASSUME NEW r \in available PROVE \E i \in DOMAIN wanted : wanted[i] = r
    <3>1. PICK i \in 1..Len(rest) : rest[i] = r
      BY <1>3, <1>4
    <3>2. Len(before) + i \in 1..Len(wanted) /\ wanted[Len(before) + i] = r
      BY <2>3, <2>4, <1>4, <3>1
    <3> QED
      BY <2>3, <3>2
  <2> QED
    BY <2>3, <2>5
<1> HIDE DEF wanted
<1>6. firsts \subseteq Nat /\ IsFiniteSet(firsts) /\ firsts \subseteq DOMAIN wanted
  <2>1. DOMAIN wanted = 1..Len(wanted) /\ Len(wanted) \in Nat
    BY <1>5
  <2>2. IsFiniteSet(1..Len(wanted))
    BY <2>1, FS_Interval
  <2> QED
    BY <2>1, <2>2, FS_Subset
<1>7. \A r \in available : \E i \in firsts : wanted[i] = r
  <2> SUFFICES ASSUME NEW r \in available PROVE \E i \in firsts : wanted[i] = r
    OBVIOUS
  <2> DEFINE places == {i \in DOMAIN wanted : wanted[i] = r}
  <2>1. places \subseteq Nat /\ places # {}
    BY <1>5
  <2>2. PICK i \in places : \A j \in places : i <= j
    <3> HIDE DEF places
    <3> QED
      BY <2>1, LeastIndex
  <2>3. \A j \in 1..(i - 1) : wanted[j] # wanted[i]
    BY <1>5, <2>2
  <2> QED
    BY <2>2, <2>3
<1>8. \A i \in firsts : wanted[i] \in available
  OBVIOUS
<1>9. order = At(wanted, firsts)
  BY DEF CountryOrder, wanted, before, rest
<1> HIDE DEF firsts
<1>10. PICK p \in [1..Cardinality(firsts) -> firsts] :
         /\ At(wanted, firsts) = [i \in 1..Cardinality(firsts) |-> wanted[p[i]]]
         /\ \A k \in firsts : \E i \in 1..Cardinality(firsts) : p[i] = k
         /\ \A i, j \in 1..Cardinality(firsts) : i < j => p[i] < p[j]
  BY <1>6, PositionsInOrder
<1>11. DOMAIN order = 1..Cardinality(firsts) /\ \A i \in DOMAIN order : order[i] = wanted[p[i]] /\ p[i] \in firsts
  BY <1>9, <1>10
<1>12. \A i \in DOMAIN order : order[i] \in available
  BY <1>8, <1>11
<1>13. \A r \in available : \E i \in DOMAIN order : order[i] = r
  BY <1>7, <1>10, <1>11
<1>14. {order[i] : i \in DOMAIN order} = available
  BY <1>12, <1>13
<1>15. order \in Seq(Regions)
  <2>1. Cardinality(firsts) \in Nat
    BY <1>6, FS_CardinalityType
  <2>2. order = [i \in 1..Cardinality(firsts) |-> wanted[p[i]]]
    BY <1>9, <1>10
  <2>3. \A i \in 1..Cardinality(firsts) : wanted[p[i]] \in Regions
    BY <1>8, <1>10
  <2>4. order \in [1..Cardinality(firsts) -> Regions]
    BY <2>2, <2>3
  <2> QED
    BY <2>1, <2>4
<1> QED
  BY <1>14, <1>15

\* The elements of a set, in the order a sequence lists them.
LEMMA AmongListed ==
  ASSUME NEW T, NEW seq \in Seq(T), NEW set, NEW mine, mine = Among(seq, set)
  PROVE  mine \in Seq(T) /\ {mine[i] : i \in DOMAIN mine} = {seq[i] : i \in DOMAIN seq} \cap set
<1> DEFINE places == {i \in DOMAIN seq : seq[i] \in set}
<1>1. DOMAIN seq = 1..Len(seq) /\ Len(seq) \in Nat /\ \A i \in DOMAIN seq : seq[i] \in T
  OBVIOUS
<1>2. places \subseteq Nat /\ IsFiniteSet(places)
  <2>1. IsFiniteSet(1..Len(seq)) /\ places \subseteq 1..Len(seq)
    BY <1>1, FS_Interval
  <2> HIDE DEF places
  <2>2. places \subseteq Nat
    BY <1>1, <2>1
  <2>3. IsFiniteSet(places)
    BY <2>1, FS_Subset
  <2> QED
    BY <2>2, <2>3
<1>3. mine = At(seq, places)
  BY DEF Among
<1>4. \A i : i \in places <=> i \in DOMAIN seq /\ seq[i] \in set
  OBVIOUS
<1> HIDE DEF places
<1>5. PICK p \in [1..Cardinality(places) -> places] :
        /\ At(seq, places) = [i \in 1..Cardinality(places) |-> seq[p[i]]]
        /\ \A k \in places : \E i \in 1..Cardinality(places) : p[i] = k
        /\ \A i, j \in 1..Cardinality(places) : i < j => p[i] < p[j]
  BY <1>2, PositionsInOrder
<1>6. Cardinality(places) \in Nat
  BY <1>2, FS_CardinalityType
<1>7. mine = [i \in 1..Cardinality(places) |-> seq[p[i]]]
  BY <1>3, <1>5
<1>8. mine \in Seq(T)
  <2>1. mine \in [1..Cardinality(places) -> T]
    BY <1>1, <1>4, <1>5, <1>7
  <2> QED
    BY <1>6, <2>1
<1>9. ASSUME NEW i \in DOMAIN mine
      PROVE  p[i] \in DOMAIN seq /\ mine[i] = seq[p[i]] /\ mine[i] \in set
  BY <1>4, <1>5, <1>7
<1>10. ASSUME NEW k \in DOMAIN seq, seq[k] \in set
       PROVE  \E i \in DOMAIN mine : mine[i] = seq[k]
  BY <1>4, <1>5, <1>7, <1>10
<1> QED
  BY <1>8, <1>9, <1>10

\* The countries left in the group, in the order the targets take.
LEMMA CountriesOrdered ==
  ASSUME AiAssumption, NEW available, available \subseteq Regions, NEW policy \in Seq(Regions)
  PROVE  LET order == CountryOrder(available, Among(policy, available))
         IN  order \in Seq(Regions) /\ {order[i] : i \in DOMAIN order} = available
<1> DEFINE listed == Among(policy, available)
           order == CountryOrder(available, listed)
<1>1. listed \in Seq(Regions)
  <2> HIDE DEF listed
  <2> QED
    BY AmongListed DEF listed
<1> HIDE DEF listed
<1>2. order = CountryOrder(available, listed)
  OBVIOUS
<1> HIDE DEF order
<1>3. \A o : o = CountryOrder(available, listed) => o \in Seq(Regions) /\ {o[i] : i \in DOMAIN o} = available
  BY <1>1, CountriesListed
<1>4. order \in Seq(Regions) /\ {order[i] : i \in DOMAIN order} = available
  BY <1>2, <1>3
<1> QED
  BY <1>4 DEF order, listed

---------------------------------------------------------------------------
(* The order of the rules.                                                   *)

LEMMA RulesWithout ==
  ASSUME NEW T, NEW rules \in Seq(T), NEW rule, NEW w, w = WithoutRule(rules, rule)
  PROVE  /\ w \in Seq(T)
         /\ \E p \in [DOMAIN w -> DOMAIN rules] :
              /\ \A i \in DOMAIN w : w[i] = rules[p[i]] /\ w[i] # rule
              /\ \A k \in DOMAIN rules : rules[k] # rule => \E i \in DOMAIN w : p[i] = k
              /\ \A i, j \in DOMAIN w : i < j => p[i] < p[j]
<1> DEFINE kept == {i \in DOMAIN rules : rules[i] # rule}
<1>1. DOMAIN rules = 1..Len(rules) /\ Len(rules) \in Nat
  OBVIOUS
<1>2. kept \subseteq Nat /\ IsFiniteSet(kept)
  <2>1. IsFiniteSet(1..Len(rules)) /\ kept \subseteq 1..Len(rules)
    BY <1>1, FS_Interval
  <2> HIDE DEF kept
  <2> QED
    <3>1. kept \subseteq Nat
      BY <1>1, <2>1
    <3>2. IsFiniteSet(kept)
      BY <2>1, FS_Subset
    <3> QED
      BY <3>1, <3>2
<1>3. w = At(rules, kept)
  BY DEF WithoutRule
<1>4. \A i \in kept : i \in DOMAIN rules /\ rules[i] # rule /\ rules[i] \in T
  OBVIOUS
<1>5. \A k \in DOMAIN rules : rules[k] # rule => k \in kept
  OBVIOUS
<1> HIDE DEF kept
<1>6. PICK p \in [1..Cardinality(kept) -> kept] :
        /\ At(rules, kept) = [i \in 1..Cardinality(kept) |-> rules[p[i]]]
        /\ \A k \in kept : \E i \in 1..Cardinality(kept) : p[i] = k
        /\ \A i, j \in 1..Cardinality(kept) : i < j => p[i] < p[j]
  BY <1>2, PositionsInOrder
<1>7. Cardinality(kept) \in Nat
  BY <1>2, FS_CardinalityType
<1>8. DOMAIN w = 1..Cardinality(kept) /\ w \in Seq(T) /\ \A i \in DOMAIN w : w[i] = rules[p[i]] /\ w[i] # rule
  <2>1. DOMAIN w = 1..Cardinality(kept) /\ \A i \in DOMAIN w : w[i] = rules[p[i]] /\ p[i] \in kept
    BY <1>3, <1>6
  <2>2. w = [i \in 1..Cardinality(kept) |-> rules[p[i]]]
    BY <1>3, <1>6
  <2>3. \A i \in 1..Cardinality(kept) : rules[p[i]] \in T
    BY <1>4, <1>6
  <2>4. w \in [1..Cardinality(kept) -> T]
    BY <2>2, <2>3
  <2>5. w \in Seq(T)
    BY <1>7, <2>4
  <2> QED
    BY <1>4, <2>1, <2>5
<1>9. p \in [DOMAIN w -> DOMAIN rules]
  BY <1>4, <1>6, <1>8
<1>10. \A k \in DOMAIN rules : rules[k] # rule => \E i \in DOMAIN w : p[i] = k
  BY <1>5, <1>6, <1>8
<1>11. \A i, j \in DOMAIN w : i < j => p[i] < p[j]
  BY <1>6, <1>8
<1> QED
  BY <1>8, <1>9, <1>10, <1>11

\* A rule that stands at one place of the rules, and at no other.
Sole(rules, rule, at) == at \in DOMAIN rules /\ \A i \in DOMAIN rules : rules[i] = rule <=> i = at

\* What inserting before that place leaves where.
Inserted(r, rules, inserted, at) ==
  /\ Len(r) = Len(rules) + Len(inserted)
  /\ \A i \in 1..(at - 1) : r[i] = rules[i]
  /\ \A i \in 1..Len(inserted) : r[at - 1 + i] = inserted[i]
  /\ \A i \in at..Len(rules) : r[i + Len(inserted)] = rules[i]

LEMMA RulesInserted ==
  ASSUME NEW T, NEW rules \in Seq(T), NEW inserted \in Seq(T), NEW rule, NEW at, Sole(rules, rule, at),
         NEW r, r = InsertBefore(rules, rule, inserted)
  PROVE  r \in Seq(T) /\ Inserted(r, rules, inserted, at)
<1> DEFINE head == SubSeq(rules, 1, at - 1)
           tail == SubSeq(rules, at, Len(rules))
<1>1. at \in 1..Len(rules) /\ Len(rules) \in Nat /\ Len(inserted) \in Nat
  BY DEF Sole
<1>2. at = CHOOSE i \in DOMAIN rules : rules[i] = rule
  BY DEF Sole
<1>3. r = head \o inserted \o tail
  BY <1>2 DEF InsertBefore
<1>4. head \in Seq(T) /\ Len(head) = at - 1 /\ \A i \in 1..(at - 1) : head[i] = rules[i]
  BY <1>1
<1>5. tail \in Seq(T) /\ Len(tail) = Len(rules) - at + 1 /\ \A i \in 1..(Len(rules) - at + 1) : tail[i] = rules[at + i - 1]
  BY <1>1
<1> HIDE DEF head, tail
<1> DEFINE front == head \o inserted
<1>6. front \in Seq(T) /\ Len(front) = at - 1 + Len(inserted)
      /\ (\A i \in 1..(at - 1) : front[i] = rules[i])
      /\ \A i \in 1..Len(inserted) : front[at - 1 + i] = inserted[i]
  <2>1. /\ front \in Seq(T) /\ Len(front) = Len(head) + Len(inserted)
        /\ \A i \in 1..Len(head) + Len(inserted) : front[i] = IF i <= Len(head) THEN head[i] ELSE inserted[i - Len(head)]
    BY <1>4, ConcatProperties
  <2>2. ASSUME NEW i \in 1..(at - 1) PROVE front[i] = rules[i]
    BY <1>1, <1>4, <2>1
  <2>3. ASSUME NEW i \in 1..Len(inserted) PROVE front[at - 1 + i] = inserted[i]
    <3>1. at - 1 + i \in 1..Len(head) + Len(inserted) /\ ~(at - 1 + i <= Len(head)) /\ (at - 1 + i) - Len(head) = i
      BY <1>1, <1>4
    <3> QED
      BY <2>1, <3>1
  <2> QED
    BY <1>4, <2>1, <2>2, <2>3
<1> HIDE DEF front
<1>7. r \in Seq(T) /\ Len(r) = Len(rules) + Len(inserted)
      /\ (\A i \in 1..Len(front) : r[i] = front[i])
      /\ \A i \in 1..Len(tail) : r[Len(front) + i] = tail[i]
  <2>1. r = front \o tail
    BY <1>3 DEF front
  <2>2. r \in Seq(T) /\ Len(r) = Len(front) + Len(tail)
        /\ (\A i \in 1..Len(front) : r[i] = front[i])
        /\ \A i \in 1..Len(tail) : r[Len(front) + i] = tail[i]
    <3>1. front \in Seq(T) /\ tail \in Seq(T) /\ Len(front) \in Nat /\ Len(tail) \in Nat
      BY <1>5, <1>6
    <3>2. /\ r \in Seq(T) /\ Len(r) = Len(front) + Len(tail)
          /\ \A i \in 1..Len(front) + Len(tail) : r[i] = IF i <= Len(front) THEN front[i] ELSE tail[i - Len(front)]
      BY <2>1, <3>1, ConcatProperties
    <3>3. ASSUME NEW i \in 1..Len(front) PROVE r[i] = front[i]
      BY <3>1, <3>2
    <3>4. ASSUME NEW i \in 1..Len(tail) PROVE r[Len(front) + i] = tail[i]
      <4>1. Len(front) + i \in 1..Len(front) + Len(tail) /\ ~(Len(front) + i <= Len(front)) /\ (Len(front) + i) - Len(front) = i
        BY <3>1
      <4> QED
        BY <3>2, <4>1
    <3> QED
      BY <3>2, <3>3, <3>4
  <2>3. Len(front) + Len(tail) = Len(rules) + Len(inserted)
    BY <1>1, <1>5, <1>6
  <2> QED
    BY <2>2, <2>3
<1>8. \A i \in 1..(at - 1) : r[i] = rules[i]
  BY <1>1, <1>6, <1>7
<1>9. \A i \in 1..Len(inserted) : r[at - 1 + i] = inserted[i]
  <2> SUFFICES ASSUME NEW i \in 1..Len(inserted) PROVE r[at - 1 + i] = inserted[i]
    OBVIOUS
  <2>1. at - 1 + i \in 1..Len(front)
    BY <1>1, <1>6
  <2> QED
    BY <1>6, <1>7, <2>1
<1>10. \A i \in at..Len(rules) : r[i + Len(inserted)] = rules[i]
  <2> SUFFICES ASSUME NEW i \in at..Len(rules) PROVE r[i + Len(inserted)] = rules[i]
    OBVIOUS
  <2>1. i - at + 1 \in 1..Len(tail) /\ Len(front) + (i - at + 1) = i + Len(inserted) /\ at + (i - at + 1) - 1 = i
    BY <1>1, <1>5, <1>6
  <2> QED
    BY <1>5, <1>7, <2>1
<1> QED
  BY <1>7, <1>8, <1>9, <1>10 DEF Inserted

LEMMA SoleIsOne ==
  ASSUME NEW T, NEW rules \in Seq(T), NEW rule
  PROVE  /\ Cardinality(Positions(rules, rule)) = 1 => \E at : Sole(rules, rule, at)
         /\ \A at : Sole(rules, rule, at) => Positions(rules, rule) = {at} /\ Cardinality(Positions(rules, rule)) = 1
<1>1. IsFiniteSet(DOMAIN rules)
  BY FS_Interval
<1>2. IsFiniteSet(Positions(rules, rule))
  BY <1>1, FS_Subset DEF Positions
<1>3. ASSUME Cardinality(Positions(rules, rule)) = 1
      PROVE  \E at : Sole(rules, rule, at)
  <2>1. PICK at : Positions(rules, rule) = {at}
    BY <1>2, <1>3, FS_Singleton
  <2>2. Sole(rules, rule, at)
    BY <2>1 DEF Positions, Sole
  <2> QED
    BY <2>2
<1>4. ASSUME NEW at, Sole(rules, rule, at)
      PROVE  Positions(rules, rule) = {at} /\ Cardinality(Positions(rules, rule)) = 1
  <2>1. Positions(rules, rule) = {at}
    BY <1>4 DEF Positions, Sole
  <2> QED
    BY <2>1, FS_Singleton
<1> QED
  BY <1>3, <1>4

\* The service rules come before the generic one, whatever came before it.
LEMMA ServiceRulesPrecede ==
  ASSUME NEW T, NEW rules \in Seq(T), {"acl_openai", "claude", "gemini"} \subseteq T,
         \A rule \in {"acl_ai", "acl_openai"} : Cardinality(Positions(rules, rule)) = 1
  PROVE  LET r == RewriteServiceRules(rules)
         IN  r \in Seq(T) /\ \E a \in Nat : Sole(r, "acl_openai", a) /\ Sole(r, "acl_ai", a + 3)
<1> DEFINE w == WithoutRule(rules, "acl_openai")
           added == <<"acl_openai", "claude", "gemini">>
           r == InsertBefore(w, "acl_ai", added)
<1> HIDE DEF r, added
<1>1. PICK k : Sole(rules, "acl_ai", k)
  BY SoleIsOne
<1>2. /\ w \in Seq(T)
      /\ \E p \in [DOMAIN w -> DOMAIN rules] :
           /\ \A i \in DOMAIN w : w[i] = rules[p[i]] /\ w[i] # "acl_openai"
           /\ \A j \in DOMAIN rules : rules[j] # "acl_openai" => \E i \in DOMAIN w : p[i] = j
           /\ \A i, j \in DOMAIN w : i < j => p[i] < p[j]
  <2> HIDE DEF w
  <2>1. w = WithoutRule(rules, "acl_openai")
    BY DEF w
  <2> QED
    BY <2>1, RulesWithout
<1> HIDE DEF w
<1>3. PICK p \in [DOMAIN w -> DOMAIN rules] :
        /\ \A i \in DOMAIN w : w[i] = rules[p[i]] /\ w[i] # "acl_openai"
        /\ \A j \in DOMAIN rules : rules[j] # "acl_openai" => \E i \in DOMAIN w : p[i] = j
        /\ \A i, j \in DOMAIN w : i < j => p[i] < p[j]
  BY <1>2
<1>20. DOMAIN w = 1..Len(w) /\ Len(w) \in Nat /\ DOMAIN rules = 1..Len(rules) /\ Len(rules) \in Nat
  BY <1>2
<1>21. \A i, j \in DOMAIN w : p[i] = p[j] => i = j
  <2>1. \A i \in DOMAIN w : i \in Nat /\ p[i] \in Nat
    BY <1>3, <1>20
  <2> QED
    BY <1>3, <2>1
<1>4. PICK a \in DOMAIN w : p[a] = k
  BY <1>1, <1>3 DEF Sole
<1>5. Sole(w, "acl_ai", a)
  <2>1. w[a] = "acl_ai"
    BY <1>1, <1>3, <1>4 DEF Sole
  <2>2. ASSUME NEW i \in DOMAIN w, w[i] = "acl_ai" PROVE i = a
    <3>1. rules[p[i]] = "acl_ai" /\ p[i] \in DOMAIN rules
      BY <1>3, <2>2
    <3>2. p[i] = k
      BY <1>1, <3>1 DEF Sole
    <3> QED
      BY <1>4, <1>21, <3>2
  <2> QED
    BY <2>1, <2>2 DEF Sole
<1>6. added \in Seq(T) /\ Len(added) = 3 /\ added[1] = "acl_openai" /\ added[2] = "claude" /\ added[3] = "gemini"
  BY DEF added
<1>7. a \in 1..Len(w) /\ Len(w) \in Nat
  BY <1>20
<1>8. /\ r \in Seq(T) /\ Len(r) = Len(w) + 3
      /\ \A i \in 1..(a - 1) : r[i] = w[i]
      /\ \A i \in 1..3 : r[a - 1 + i] = added[i]
      /\ \A i \in a..Len(w) : r[i + 3] = w[i]
  <2>1. /\ r \in Seq(T) /\ Len(r) = Len(w) + Len(added)
        /\ \A i \in 1..(a - 1) : r[i] = w[i]
        /\ \A i \in 1..Len(added) : r[a - 1 + i] = added[i]
        /\ \A i \in a..Len(w) : r[i + Len(added)] = w[i]
    <3>1. added \in Seq(T) /\ w \in Seq(T) /\ r = InsertBefore(w, "acl_ai", added)
      BY <1>2, <1>6 DEF r
    <3> QED
      <4>1. Inserted(r, w, added, a) /\ r \in Seq(T)
        BY <1>5, <3>1, RulesInserted
      <4> QED
        BY <4>1 DEF Inserted
  <2> QED
    BY <1>6, <2>1
<1>9. r[a] = "acl_openai" /\ r[a + 1] = "claude" /\ r[a + 2] = "gemini" /\ r[a + 3] = "acl_ai"
  <2>1. r[a - 1 + 1] = added[1] /\ r[a - 1 + 2] = added[2] /\ r[a - 1 + 3] = added[3]
    BY <1>8
  <2>2. a - 1 + 1 = a /\ a - 1 + 2 = a + 1 /\ a - 1 + 3 = a + 2
    BY <1>7
  <2>3. w[a] = "acl_ai" /\ r[a + 3] = w[a]
    BY <1>5, <1>7, <1>8 DEF Sole
  <2> QED
    BY <1>6, <2>1, <2>2, <2>3
<1>10. ASSUME NEW i \in 1..Len(r)
       PROVE  /\ r[i] = "acl_openai" <=> i = a
              /\ r[i] = "acl_ai" <=> i = a + 3
  <2>1. CASE i < a
    <3>1. r[i] = w[i] /\ i \in DOMAIN w
      <4>1. Len(r) \in Nat /\ a \in Int /\ a <= Len(w)
        BY <1>7, <1>8
      <4>2. i \in 1..(a - 1) /\ i \in 1..Len(w)
        BY <1>7, <2>1, <4>1
      <4> QED
        BY <1>8, <1>20, <4>2
    <3> QED
      BY <1>3, <1>5, <1>7, <2>1, <3>1 DEF Sole
  <2>2. CASE i \in {a, a + 1, a + 2, a + 3}
    BY <1>7, <1>9, <2>2
  <2>3. CASE i > a + 3
    <3>1. i - 3 \in a..Len(w) /\ (i - 3) + 3 = i /\ i - 3 # a
      BY <1>7, <1>8, <2>3
    <3>2. r[i] = w[i - 3] /\ i - 3 \in DOMAIN w
      <4>1. r[(i - 3) + 3] = w[i - 3]
        BY <1>8, <3>1
      <4>2. i - 3 \in 1..Len(w)
        BY <1>7, <3>1
      <4> QED
        BY <1>20, <3>1, <4>1, <4>2
    <3> QED
      BY <1>3, <1>5, <1>7, <2>3, <3>1, <3>2 DEF Sole
  <2> QED
    BY <1>7, <1>8, <2>1, <2>2, <2>3
<1>11. a \in 1..Len(r) /\ a + 3 \in 1..Len(r) /\ DOMAIN r = 1..Len(r)
  BY <1>7, <1>8
<1>12. RewriteServiceRules(rules) = r
  BY DEF RewriteServiceRules, r, w, added
<1>13. Sole(r, "acl_openai", a) /\ Sole(r, "acl_ai", a + 3)
  BY <1>10, <1>11 DEF Sole
<1> QED
  BY <1>7, <1>8, <1>12, <1>13

\* Locked, the rules pass the audit.
LEMMA RouteLocked ==
  ASSUME NEW T, NEW rules \in Seq(T), "lock" \in T,
         NEW a \in Nat, Sole(rules, "acl_openai", a), Sole(rules, "acl_ai", a + 3)
  PROVE  AuditRouteLock(ApplyRouteLock(rules))
<1> DEFINE w == WithoutRule(rules, "lock")
           r == InsertBefore(w, "acl_openai", <<"lock">>)
<1> HIDE DEF r
<1>1. /\ w \in Seq(T)
      /\ \E p \in [DOMAIN w -> DOMAIN rules] :
           /\ \A i \in DOMAIN w : w[i] = rules[p[i]] /\ w[i] # "lock"
           /\ \A j \in DOMAIN rules : rules[j] # "lock" => \E i \in DOMAIN w : p[i] = j
           /\ \A i, j \in DOMAIN w : i < j => p[i] < p[j]
  <2> HIDE DEF w
  <2>1. w = WithoutRule(rules, "lock")
    BY DEF w
  <2> QED
    BY <2>1, RulesWithout
<1> HIDE DEF w
<1>2. PICK p \in [DOMAIN w -> DOMAIN rules] :
        /\ \A i \in DOMAIN w : w[i] = rules[p[i]] /\ w[i] # "lock"
        /\ \A j \in DOMAIN rules : rules[j] # "lock" => \E i \in DOMAIN w : p[i] = j
        /\ \A i, j \in DOMAIN w : i < j => p[i] < p[j]
  BY <1>1
<1>20. DOMAIN w = 1..Len(w) /\ Len(w) \in Nat /\ DOMAIN rules = 1..Len(rules) /\ Len(rules) \in Nat
  BY <1>1
<1>3. \A i, j \in DOMAIN w : p[i] = p[j] => i = j
  <2>1. \A i \in DOMAIN w : i \in Nat /\ p[i] \in Nat
    BY <1>2, <1>20
  <2> QED
    BY <1>2, <2>1
<1>4. PICK o \in DOMAIN w : p[o] = a
  BY <1>2 DEF Sole
<1>5. PICK k \in DOMAIN w : p[k] = a + 3
  BY <1>2 DEF Sole
<1>6. o \in 1..Len(w) /\ k \in 1..Len(w) /\ Len(w) \in Nat /\ o < k
  <2>1. o \in 1..Len(w) /\ k \in 1..Len(w) /\ Len(w) \in Nat
    BY <1>1
  <2>2. k < o => a + 3 < a
    BY <1>2, <1>4, <1>5
  <2>3. k # o
    BY <1>4, <1>5
  <2> QED
    BY <2>1, <2>2, <2>3
<1>7. Sole(w, "acl_openai", o)
  BY <1>2, <1>3, <1>4 DEF Sole
<1>8. Sole(w, "acl_ai", k)
  BY <1>2, <1>3, <1>5 DEF Sole
<1>9. /\ r \in Seq(T) /\ Len(r) = Len(w) + 1
      /\ \A i \in 1..(o - 1) : r[i] = w[i]
      /\ r[o] = "lock"
      /\ \A i \in o..Len(w) : r[i + 1] = w[i]
  <2>1. <<"lock">> \in Seq(T) /\ Len(<<"lock">>) = 1 /\ <<"lock">>[1] = "lock"
    OBVIOUS
  <2> DEFINE added == <<"lock">>
  <2> HIDE DEF added
  <2>2. /\ r \in Seq(T) /\ Len(r) = Len(w) + Len(added)
        /\ \A i \in 1..(o - 1) : r[i] = w[i]
        /\ \A i \in 1..Len(added) : r[o - 1 + i] = added[i]
        /\ \A i \in o..Len(w) : r[i + Len(added)] = w[i]
    <3>1. added \in Seq(T) /\ w \in Seq(T) /\ r = InsertBefore(w, "acl_openai", added)
      BY <1>1, <2>1 DEF added, r
    <3> QED
      <4>1. Inserted(r, w, added, o) /\ r \in Seq(T)
        BY <1>7, <3>1, RulesInserted
      <4> QED
        BY <4>1 DEF Inserted
  <2>3. o - 1 + 1 = o /\ Len(added) = 1 /\ added[1] = "lock"
    BY <1>6, <2>1 DEF added
  <2>4. r[o - 1 + 1] = added[1]
    BY <2>2, <2>3
  <2> QED
    BY <2>2, <2>3, <2>4
<1>10. ApplyRouteLock(rules) = r
  BY DEF ApplyRouteLock, r, w
<1>11. ASSUME NEW i \in 1..Len(r)
       PROVE  /\ r[i] = "lock" <=> i = o
              /\ r[i] = "acl_openai" <=> i = o + 1
              /\ r[i] = "acl_ai" <=> i = k + 1
  <2>1. CASE i < o
    <3>1. r[i] = w[i] /\ i \in DOMAIN w
      BY <1>6, <1>9, <1>20, <2>1
    <3> QED
      BY <1>2, <1>6, <1>7, <1>8, <2>1, <3>1 DEF Sole
  <2>2. CASE i = o
    BY <1>6, <1>9, <2>2
  <2>3. CASE i > o
    <3>1. i - 1 \in o..Len(w) /\ (i - 1) + 1 = i
      BY <1>6, <1>9, <2>3
    <3>2. r[i] = w[i - 1] /\ i - 1 \in DOMAIN w
      BY <1>6, <1>9, <1>20, <3>1
    <3>3. (i - 1 = o <=> i = o + 1) /\ (i - 1 = k <=> i = k + 1)
      <4>1. i \in Int /\ o \in Int /\ k \in Int
        BY <1>6
      <4> QED
        BY <4>1, SMTT(30)
    <3>4. r[i] # "lock" /\ (r[i] = "acl_openai" <=> i - 1 = o) /\ (r[i] = "acl_ai" <=> i - 1 = k)
      BY <1>2, <1>7, <1>8, <3>2 DEF Sole
    <3> QED
      BY <1>6, <2>3, <3>3, <3>4
  <2> QED
    BY <1>6, <2>1, <2>2, <2>3
<1>12. Sole(r, "lock", o) /\ Sole(r, "acl_openai", o + 1) /\ Sole(r, "acl_ai", k + 1)
  <2>1. DOMAIN r = 1..Len(r) /\ o \in 1..Len(r) /\ o + 1 \in 1..Len(r) /\ k + 1 \in 1..Len(r)
    BY <1>6, <1>9
  <2> QED
    BY <1>11, <2>1 DEF Sole
<1>13. /\ Positions(r, "lock") = {o} /\ Cardinality(Positions(r, "lock")) = 1
       /\ Positions(r, "acl_openai") = {o + 1} /\ Cardinality(Positions(r, "acl_openai")) = 1
       /\ Positions(r, "acl_ai") = {k + 1} /\ Cardinality(Positions(r, "acl_ai")) = 1
  BY <1>9, <1>12, SoleIsOne
<1>14. o < o + 1 /\ o + 1 < k + 1
  BY <1>6
<1> QED
  BY <1>10, <1>13, <1>14 DEF AuditRouteLock

---------------------------------------------------------------------------
(* The service routes.                                                       *)

\* One service over the pruned inventory: its target reaches the admitted nodes
\* and fails over to no empty country.
LEMMA TargetReaches ==
  ASSUME NEW c, c.entries \subseteq ({"general", "browsing", "ai"} \X Regions) \X Nodes,
         NEW names, names \subseteq AiNodes(c),
         NEW order \in Seq(Regions), AiRegions(c, names) \subseteq {order[i] : i \in DOMAIN order}
  PROVE  LET target == ServiceTarget(c, order, names)
         IN  /\ UNION {target[i].names : i \in DOMAIN target} = names
             /\ \A i \in DOMAIN target : Payload(c.entries, target[i].provider) \cap target[i].names # {}
<1> DEFINE available == AiRegions(c, names)
           listed == Among(order, available)
           held(r) == Payload(c.entries, <<"ai", r>>) \cap names
           target == [i \in DOMAIN listed |-> Child("ai", listed[i], held(listed[i]))]
<1>1. ServiceTarget(c, order, names) = target
  BY DEF ServiceTarget
<1>2. available \subseteq Regions /\ \A r \in Regions : r \in available <=> held(r) # {}
  BY DEF AiRegions
<1>8. available \subseteq {order[i] : i \in DOMAIN order}
  OBVIOUS
<1> HIDE DEF available
<1>3. {listed[i] : i \in DOMAIN listed} = available
  <2> HIDE DEF listed
  <2>1. {listed[i] : i \in DOMAIN listed} = {order[i] : i \in DOMAIN order} \cap available
    BY AmongListed DEF listed
  <2> QED
    BY <1>8, <2>1
<1> HIDE DEF listed
<1>4. \A i \in DOMAIN target : /\ target[i].provider = <<"ai", listed[i]>> /\ target[i].names = held(listed[i])
                               /\ listed[i] \in available
  BY <1>3 DEF Child
<1>5. ASSUME NEW n \in names
      PROVE  \E i \in DOMAIN target : n \in target[i].names
  <2>1. PICK e \in c.entries : e[1][1] = "ai" /\ e[2] = n
    BY DEF AiNodes, NodesOfKind
  <2>2. e[1][2] \in Regions /\ n \in Nodes /\ e = <<<<"ai", e[1][2]>>, n>>
    BY <2>1
  <2>3. n \in held(e[1][2])
    BY <2>1, <2>2 DEF Payload
  <2>4. e[1][2] \in available
    BY <1>2, <2>2, <2>3
  <2>5. PICK i \in DOMAIN listed : listed[i] = e[1][2]
    BY <1>3, <2>4
  <2>6. DOMAIN target = DOMAIN listed
    OBVIOUS
  <2> HIDE DEF target
  <2> QED
    BY <1>4, <2>3, <2>5, <2>6
<1>6. \A i \in DOMAIN target : target[i].names \subseteq names
  BY <1>4
<1>7. \A i \in DOMAIN target : Payload(c.entries, target[i].provider) \cap target[i].names # {}
  <2> SUFFICES ASSUME NEW i \in DOMAIN target
               PROVE  Payload(c.entries, target[i].provider) \cap target[i].names # {}
    OBVIOUS
  <2>1. listed[i] \in Regions /\ held(listed[i]) # {}
    BY <1>2, <1>4
  <2> QED
    BY <1>4, <2>1
<1> HIDE DEF target
<1> QED
  BY <1>1, <1>5, <1>6, <1>7

\* The targets of all services, and what is left of the inventory.
LEMMA ServicesRouted ==
  ASSUME AiAssumption, NEW c, Shaped(c), c.policy \in Seq(Regions),
         c.entries \subseteq ({"general", "browsing", "ai"} \X Regions) \X Nodes,
         NEW qualifiedBy, \A s \in AiServices : qualifiedBy[s] \subseteq AiNodes(c)
  PROVE  LET routed == ApplyAiServiceQualification(c, qualifiedBy)
         IN  /\ DOMAIN routed = Fields /\ DOMAIN routed.targets = AiServices
             /\ routed.entries \subseteq c.entries
             /\ routed.rules = RewriteServiceRules(c.rules)
             /\ \A s \in AiServices :
                  /\ UNION {routed.targets[s][i].names : i \in DOMAIN routed.targets[s]} = qualifiedBy[s]
                  /\ qualifiedBy[s] \subseteq Unique(routed.entries)
                  /\ \A i \in DOMAIN routed.targets[s] :
                       Payload(routed.entries, routed.targets[s][i].provider) \cap routed.targets[s][i].names # {}
<1> DEFINE everyone == (UNION {qualifiedBy[s] : s \in AiServices}) \cap AiNodes(c)
           pruned == [c EXCEPT !.entries = PruneAi(c.entries, everyone)]
           listed == Among(c.policy, AiRegions(pruned, everyone))
           order == CountryOrder(AiRegions(pruned, everyone), listed)
           targets == [s \in AiServices |-> ServiceTarget(pruned, order, qualifiedBy[s])]
           policy == IF everyone = {} THEN <<"REJECT">> ELSE listed
           rules == RewriteServiceRules(c.rules)
           routed == ApplyAiServiceQualification(c, qualifiedBy)
<1>1. routed = [pruned EXCEPT !.targets = targets, !.policy = policy, !.rules = rules]
  BY DEF ApplyAiServiceQualification
<1>2. DOMAIN pruned = Fields /\ pruned.entries = PruneAi(c.entries, everyone)
  BY DEF Shaped, Fields
<1>3. pruned.entries \subseteq c.entries
  BY <1>2 DEF PruneAi
<1>4. ASSUME NEW s \in AiServices
      PROVE  qualifiedBy[s] \subseteq AiNodes(pruned)
  <2> SUFFICES ASSUME NEW n \in qualifiedBy[s] PROVE n \in AiNodes(pruned)
    OBVIOUS
  <2>1. n \in everyone
    OBVIOUS
  <2>2. PICK e \in c.entries : e[1][1] = "ai" /\ e[2] = n
    BY <2>1 DEF AiNodes, NodesOfKind
  <2>3. e \in pruned.entries
    BY <1>2, <2>1, <2>2 DEF PruneAi
  <2> QED
    BY <2>2, <2>3 DEF AiNodes, NodesOfKind
<1>7. order \in Seq(Regions) /\ {order[i] : i \in DOMAIN order} = AiRegions(pruned, everyone)
  <2> DEFINE available == AiRegions(pruned, everyone)
  <2>1. available \subseteq Regions
    BY DEF AiRegions
  <2> HIDE DEF available, pruned, everyone, targets, policy, rules, routed
  <2>2. LET ordered == CountryOrder(available, Among(c.policy, available))
        IN  ordered \in Seq(Regions) /\ {ordered[i] : i \in DOMAIN ordered} = available
    BY <2>1, CountriesOrdered
  <2>3. order = CountryOrder(available, Among(c.policy, available))
    BY DEF available
  <2> QED
    BY <2>2, <2>3 DEF available
<1>8. \A s \in AiServices : AiRegions(pruned, qualifiedBy[s]) \subseteq AiRegions(pruned, everyone)
  <2>1. \A s \in AiServices : qualifiedBy[s] \subseteq everyone
    OBVIOUS
  <2> HIDE DEF pruned, everyone
  <2> QED
    BY <2>1 DEF AiRegions
<1> HIDE DEF pruned, policy, rules, everyone, order, listed
<1>5. /\ DOMAIN routed = Fields /\ routed.entries = pruned.entries
      /\ routed.targets = targets /\ routed.rules = rules
  <2> HIDE DEF targets
  <2> QED
    BY <1>1, <1>2 DEF Fields
<1> HIDE DEF routed
<1>6. ASSUME NEW s \in AiServices
      PROVE  /\ UNION {routed.targets[s][i].names : i \in DOMAIN routed.targets[s]} = qualifiedBy[s]
             /\ qualifiedBy[s] \subseteq Unique(routed.entries)
             /\ \A i \in DOMAIN routed.targets[s] :
                  Payload(routed.entries, routed.targets[s][i].provider) \cap routed.targets[s][i].names # {}
  <2>1. pruned.entries \subseteq ({"general", "browsing", "ai"} \X Regions) \X Nodes
    BY <1>3
  <2>2. routed.targets[s] = ServiceTarget(pruned, order, qualifiedBy[s])
    BY <1>5
  <2>5. AiRegions(pruned, qualifiedBy[s]) \subseteq {order[i] : i \in DOMAIN order}
    BY <1>7, <1>8
  <2>3. LET target == ServiceTarget(pruned, order, qualifiedBy[s])
        IN  /\ UNION {target[i].names : i \in DOMAIN target} = qualifiedBy[s]
            /\ \A i \in DOMAIN target : Payload(pruned.entries, target[i].provider) \cap target[i].names # {}
    BY <1>4, <1>7, <2>1, <2>5, TargetReaches
  <2>4. qualifiedBy[s] \subseteq Unique(routed.entries)
    BY <1>4, <1>5 DEF AiNodes, NodesOfKind, Unique
  <2> QED
    BY <1>5, <2>2, <2>3, <2>4
<1> QED
  BY <1>3, <1>5, <1>6 DEF routed, rules

\* The route lock, over the rules of any candidate.
LEMMA RoutesLocked ==
  ASSUME CandidateAssumption
  PROVE  AuditRouteLock(ApplyRouteLock(RewriteServiceRules(Candidate.rules)))
<1> DEFINE T == Range(Candidate.rules) \cup {"acl_openai", "claude", "gemini", "lock"}
           rules == Candidate.rules
           r == RewriteServiceRules(rules)
<1>1. rules \in Seq(T) /\ \A rule \in {"acl_ai", "acl_openai"} : Cardinality(Positions(rules, rule)) = 1
  <2>1. rules \in Seq(Range(rules)) /\ Range(rules) \subseteq T
    BY DEF CandidateAssumption
  <2>2. \A S, U : S \subseteq U => Seq(S) \subseteq Seq(U)
    OBVIOUS
  <2> HIDE DEF T
  <2> QED
    BY <2>1, <2>2 DEF CandidateAssumption
<1>2. {"acl_openai", "claude", "gemini"} \subseteq T /\ "lock" \in T
  OBVIOUS
<1> HIDE DEF T, rules
<1>3. r \in Seq(T) /\ \E a \in Nat : Sole(r, "acl_openai", a) /\ Sole(r, "acl_ai", a + 3)
  BY <1>1, <1>2, ServiceRulesPrecede
<1> HIDE DEF r
<1>4. AuditRouteLock(ApplyRouteLock(r))
  BY <1>2, <1>3, RouteLocked
<1> QED
  BY <1>4 DEF r, rules

LEMMA ClientPathHardened ==
  ASSUME AiAssumption, NEW c, Shaped(c), DOMAIN c.targets = AiServices,
         \A s \in AiServices : \A i \in DOMAIN c.targets[s] :
           Payload(c.entries, c.targets[s][i].provider) \cap c.targets[s][i].names # {},
         UNION {c.targets[OpenAi][i].names : i \in DOMAIN c.targets[OpenAi]} \subseteq Unique(c.entries)
  PROVE  LET h == HardenOpenAiClientPath(c)
         IN  /\ DOMAIN h = Fields /\ h.rules = c.rules
             /\ c.entries \subseteq h.entries /\ Unique(h.entries) = Unique(c.entries)
             /\ \A s \in AiServices :
                  /\ UNION {h.targets[s][i].names : i \in DOMAIN h.targets[s]} =
                       UNION {c.targets[s][i].names : i \in DOMAIN c.targets[s]}
                  /\ \A i \in DOMAIN h.targets[s] :
                       Payload(h.entries, h.targets[s][i].provider) \cap h.targets[s][i].names # {}
             /\ AuditOpenAiClientPath(h)
<1> DEFINE old == c.targets[OpenAi]
           added == RuntimeEntries(old)
           target == RuntimeTarget(old)
           h == HardenOpenAiClientPath(c)
<1>1. h = [c EXCEPT !.entries = c.entries \cup added, !.targets[OpenAi] = target]
  BY DEF HardenOpenAiClientPath
<1>2. \A i \in DOMAIN old : \A n \in old[i].names : <<<<"openai", old[i].provider[2]>>, n>> \in added
  BY DEF RuntimeEntries
<1>3. ASSUME NEW e \in added
      PROVE  e[2] \in Unique(c.entries)
  <2>1. PICK i \in DOMAIN old : \E n \in old[i].names : e = <<<<"openai", old[i].provider[2]>>, n>>
    BY DEF RuntimeEntries
  <2>2. e[2] \in old[i].names
    BY <2>1
  <2>3. e[2] \in UNION {old[j].names : j \in DOMAIN old}
    BY <2>2
  <2> QED
    BY <2>3
<1>4. /\ DOMAIN target = DOMAIN old
      /\ \A i \in DOMAIN old : target[i].provider = <<"openai", old[i].provider[2]>> /\ target[i].names = old[i].names
  BY DEF RuntimeTarget, Child
<1>5. /\ \A s \in AiServices : \A i \in DOMAIN c.targets[s] :
           Payload(c.entries, c.targets[s][i].provider) \cap c.targets[s][i].names # {}
      /\ OpenAi \in AiServices /\ old = c.targets[OpenAi]
  BY DEF AiAssumption
<1> HIDE DEF added, target, h, old
<1>6. /\ DOMAIN h = Fields /\ h.rules = c.rules /\ h.entries = c.entries \cup added
      /\ h.targets = [c.targets EXCEPT ![OpenAi] = target]
  BY <1>1 DEF Shaped, Fields
<1>7. h.targets[OpenAi] = target /\ \A s \in AiServices : s # OpenAi => h.targets[s] = c.targets[s]
  BY <1>5, <1>6
<1>8. Unique(h.entries) = Unique(c.entries)
  BY <1>3, <1>6 DEF Unique
<1>9. ASSUME NEW i \in DOMAIN target
      PROVE  Payload(h.entries, target[i].provider) \cap target[i].names # {} /\ target[i].provider[1] = "openai"
  <2>1. PICK n \in Nodes : n \in old[i].names
    BY <1>4, <1>5 DEF Payload
  <2>2. <<target[i].provider, n>> \in h.entries
    BY <1>2, <1>4, <1>6, <2>1
  <2> QED
    BY <1>4, <2>1, <2>2 DEF Payload
<1>10. \A e : e \in c.entries => e \in h.entries
  BY <1>6
<1>11. ASSUME NEW s \in AiServices
      PROVE  /\ UNION {h.targets[s][i].names : i \in DOMAIN h.targets[s]} =
                  UNION {c.targets[s][i].names : i \in DOMAIN c.targets[s]}
             /\ \A i \in DOMAIN h.targets[s] :
                  Payload(h.entries, h.targets[s][i].provider) \cap h.targets[s][i].names # {}
  <2>1. CASE s = OpenAi
    <3>1. h.targets[s] = target /\ c.targets[s] = old
      BY <1>5, <1>7, <2>1
    <3>2. /\ DOMAIN h.targets[s] = DOMAIN c.targets[s]
          /\ \A i \in DOMAIN c.targets[s] : h.targets[s][i].names = c.targets[s][i].names
      BY <1>4, <3>1
    <3> QED
      <4>1. UNION {h.targets[s][i].names : i \in DOMAIN h.targets[s]} =
               UNION {c.targets[s][i].names : i \in DOMAIN c.targets[s]}
        BY <3>2
      <4>2. \A i \in DOMAIN h.targets[s] :
               Payload(h.entries, h.targets[s][i].provider) \cap h.targets[s][i].names # {}
        BY <1>9, <3>1
      <4> QED
        BY <4>1, <4>2
  <2>2. CASE s # OpenAi
    <3>1. h.targets[s] = c.targets[s]
      BY <1>7, <2>2
    <3>2. ASSUME NEW i \in DOMAIN c.targets[s]
          PROVE  Payload(h.entries, c.targets[s][i].provider) \cap c.targets[s][i].names # {}
      <4>1. Payload(c.entries, c.targets[s][i].provider) \subseteq Payload(h.entries, c.targets[s][i].provider)
        BY <1>10 DEF Payload
      <4> QED
        BY <1>5, <4>1
    <3> QED
      BY <3>1, <3>2
  <2> QED
    BY <2>1, <2>2
<1>12. AuditOpenAiClientPath(h)
  BY <1>7, <1>9 DEF AuditOpenAiClientPath
<1> QED
  BY <1>6, <1>8, <1>10, <1>11, <1>12 DEF h

---------------------------------------------------------------------------
(* The invariant of the routes and of the inventories.                       *)

\* Whatever a stage rewrites before them, the services find the rules and the
\* countries generated;
\* hardening finds targets whose nodes are all in the inventory.
ServicesInv ==
  /\ generated.rules = Candidate.rules /\ generated.policy = Candidate.policy
  /\ step \in Unprobed \cup {"transport", "ai"} => doc.rules = Candidate.rules /\ doc.policy = Candidate.policy
  /\ step = "service_hardening" =>
       DOMAIN doc.targets = AiServices /\ \A s \in AiServices : admitted[s] \subseteq Unique(doc.entries)
  /\ ServicesReachAdmitted

Connected == {"copy", "browsing", "history", "rewrite", "transport"}

\* The inventory of one stage is what it left of the one before.
Follows(later, earlier) ==
  {earlier, later} \subseteq DOMAIN inventories /\ inventories[later] \subseteq inventories[earlier]

\* Stage after stage only takes entries away, and the last one adds entries only
\* for nodes that are there.
Shrinking ==
  /\ inventories["preflight"] = Candidate.entries
  /\ Follows("hostname", "preflight") /\ Follows("endpoint", "hostname") /\ Follows("browsing", "endpoint")
  /\ Follows("ai", "browsing") /\ Follows("ai", "service_hardening")
  /\ Unique(inventories["service_hardening"]) = Unique(inventories["ai"])

InventoryInv ==
  /\ "preflight" \in DOMAIN inventories /\ inventories["preflight"] = Candidate.entries
  /\ step \in {"endpoint"} \cup Connected \cup ProbedStages => Follows("hostname", "preflight")
  /\ step \in Connected \cup ProbedStages => Follows("endpoint", "hostname")
  /\ step \in ProbedStages \ {"transport"} => Follows("browsing", "endpoint")
  /\ step \in RoutedStages => Follows("ai", "browsing")
  /\ step \in FinalStages => Shrinking
  /\ step = "hostname" => doc.entries = inventories["preflight"]
  /\ step = "endpoint" => doc.entries = inventories["hostname"]
  /\ step \in Connected => generated.entries = inventories["endpoint"]
  /\ step = "ai" => doc.entries = inventories["browsing"]
  /\ step = "service_hardening" => doc.entries = inventories["ai"]

RouteInv == ServicesInv /\ InventoryInv /\ AccountingHolds

Disowned == {"stage added runtime inventory", "removal lacks stage provenance"}

LEMMA InventoryRecorded ==
  ASSUME NEW name, NEW entries, RecordInventory(name, entries)
  PROVE  /\ DOMAIN inventories' = DOMAIN inventories \cup {name} /\ inventories'[name] = entries
         /\ \A s \in DOMAIN inventories : s # name => inventories'[s] = inventories[s]
BY DEF RecordInventory

LEMMA FollowsKept ==
  ASSUME NEW name, NEW entries, RecordInventory(name, entries)
  PROVE  /\ \A later, earlier : name \notin {later, earlier} /\ Follows(later, earlier) =>
              /\ {earlier, later} \subseteq DOMAIN inventories'
              /\ inventories'[later] \subseteq inventories'[earlier]
         /\ \A earlier \in DOMAIN inventories : earlier # name /\ entries \subseteq inventories[earlier] =>
              /\ {earlier, name} \subseteq DOMAIN inventories'
              /\ inventories'[name] \subseteq inventories'[earlier]
<1>1. /\ DOMAIN inventories' = DOMAIN inventories \cup {name} /\ inventories'[name] = entries
      /\ \A s \in DOMAIN inventories : s # name => inventories'[s] = inventories[s]
  BY InventoryRecorded
<1> HIDE DEF RecordInventory
<1> QED
  BY <1>1 DEF Follows

LEMMA RoutesInitially == PipelineInit => RouteInv
<1> SUFFICES ASSUME PipelineInit PROVE RouteInv
  OBVIOUS
<1>1. ServicesInv
  BY DEF PipelineInit, ServicesInv, ServicesReachAdmitted, RoutedStages
<1>2. InventoryInv
  BY DEF PipelineInit, InventoryInv, Connected, ProbedStages, RoutedStages, FinalStages
<1>3. AccountingHolds
  BY DEF PipelineInit, AccountingHolds
<1> QED
  BY <1>1, <1>2, <1>3 DEF RouteInv

\* A rejected candidate has no routes to answer for.
LEMMA RejectionRoutes ==
  ASSUME RouteInv, NEW why, RejectCandidate(why), why \notin Disowned
  PROVE  RouteInv'
<1>1. ServicesInv'
  BY DEF RouteInv, RejectCandidate, ServicesInv, ServicesReachAdmitted, RoutedStages, Unprobed
<1>2. InventoryInv'
  BY DEF RouteInv, RejectCandidate, InventoryInv, Connected, ProbedStages, RoutedStages, FinalStages
<1>3. AccountingHolds'
  BY DEF RejectCandidate, AccountingHolds, Disowned
<1> QED
  BY <1>1, <1>2, <1>3 DEF RouteInv

LEMMA FailureRoutes ==
  ASSUME RouteInv, NEW at, NEW why, NEW diagnostics, StageFailed(at, why, diagnostics), why \notin Disowned,
         step \in {"browsing", "rewrite", "transport"}
  PROVE  RouteInv'
<1>1. CASE RejectCandidate(why)
  BY <1>1, RejectionRoutes
<1>2. CASE step' = "copy" /\ UNCHANGED <<doc, generated, inventories, reserve, attempts, probe, admitted, reason>>
  <2>1. ServicesInv'
    BY <1>2 DEF RouteInv, ServicesInv, ServicesReachAdmitted, RoutedStages, Unprobed
  <2>2. InventoryInv'
    BY <1>2 DEF RouteInv, InventoryInv, Follows, Connected, ProbedStages, RoutedStages, FinalStages
  <2>3. AccountingHolds'
    BY <1>2 DEF AccountingHolds
  <2> QED
    BY <2>1, <2>2, <2>3 DEF RouteInv
<1> QED
  BY <1>1, <1>2 DEF StageFailed

\* Judging a document by entries keeps its rules and its countries.
LEMMA RulesKept ==
  ASSUME NEW c, DOMAIN c = Fields, NEW entries
  PROVE  LET d == [c EXCEPT !.entries = entries]
         IN  d.rules = c.rules /\ d.policy = c.policy /\ d.entries = entries
BY DEF Fields

LEMMA HostnamesRoute ==
  ASSUME PipelineInv, RouteInv, HostQuarantine
  PROVE  RouteInv'
<1>1. PICK verdicts :
        LET error == HostStageError(doc.entries, verdicts)
            kept  == Resolvable(doc.entries, verdicts)
        IN  \/ RejectCandidate(error)
            \/ /\ step' = "endpoint"
               /\ doc' = [doc EXCEPT !.entries = kept]
               /\ RecordInventory("hostname", kept)
               /\ generated' = generated
  BY DEF HostQuarantine
<1> DEFINE error == HostStageError(doc.entries, verdicts)
           kept == Resolvable(doc.entries, verdicts)
<1>2. CASE RejectCandidate(error)
  <2>1. error \notin Disowned
    BY DEF HostStageError, Disowned
  <2> QED
    BY <1>2, <2>1, RejectionRoutes
<1>3. CASE /\ step' = "endpoint"
           /\ doc' = [doc EXCEPT !.entries = kept]
           /\ RecordInventory("hostname", kept)
           /\ generated' = generated
  <2>1. step = "hostname" /\ DOMAIN doc = Fields
    BY DEF HostQuarantine, PipelineInv, DocumentInv, Shrunk
  <2>2. kept \subseteq doc.entries
    BY DEF Resolvable
  <2> HIDE DEF kept
  <2>3. doc'.rules = doc.rules /\ doc'.policy = doc.policy /\ doc'.entries = kept
    BY <1>3, <2>1, RulesKept
  <2>4. ServicesInv'
    BY <1>3, <2>1, <2>3 DEF RouteInv, ServicesInv, ServicesReachAdmitted, RoutedStages, Unprobed
  <2>5. InventoryInv'
    <3>1. Follows("hostname", "preflight")' /\ inventories'["hostname"] = kept
          /\ "preflight" \in DOMAIN inventories' /\ inventories'["preflight"] = Candidate.entries
      <4>1. "preflight" \in DOMAIN inventories /\ inventories["preflight"] = Candidate.entries /\ kept \subseteq inventories["preflight"]
        BY <2>1, <2>2 DEF RouteInv, InventoryInv
      <4>2. inventories'["hostname"] = kept /\ "preflight" \in DOMAIN inventories' /\ inventories'["preflight"] = inventories["preflight"]
        <5>1. RecordInventory("hostname", kept)
          BY <1>3
        <5>2. /\ DOMAIN inventories' = DOMAIN inventories \cup {"hostname"} /\ inventories'["hostname"] = kept
              /\ \A s \in DOMAIN inventories : s # "hostname" => inventories'[s] = inventories[s]
          BY <5>1, InventoryRecorded
        <5> QED
          BY <4>1, <5>2
      <4>3. Follows("hostname", "preflight")'
        BY <1>3, <4>1, FollowsKept DEF Follows
      <4> QED
        BY <4>1, <4>2, <4>3
    <3> QED
      BY <1>3, <2>3, <3>1 DEF InventoryInv, Connected, ProbedStages, RoutedStages, FinalStages
  <2>6. AccountingHolds'
    BY <1>3 DEF AccountingHolds
  <2> QED
    BY <2>4, <2>5, <2>6 DEF RouteInv
<1> QED
  BY <1>1, <1>2, <1>3

LEMMA EndpointsRoute ==
  ASSUME PipelineInv, RouteInv, EndpointQuarantine
  PROVE  RouteInv'
<1>1. PICK probes :
        LET error == EndpointStageError(doc.entries, probes)
            kept  == Reachable(doc.entries, probes)
        IN  \/ RejectCandidate(error)
            \/ /\ step' = "copy"
               /\ generated' = [doc EXCEPT !.entries = kept]
               /\ RecordInventory("endpoint", kept)
               /\ doc' = doc
  BY DEF EndpointQuarantine
<1> DEFINE error == EndpointStageError(doc.entries, probes)
           kept == Reachable(doc.entries, probes)
<1>2. CASE RejectCandidate(error)
  <2>1. error \notin Disowned
    BY DEF EndpointStageError, Disowned
  <2> QED
    BY <1>2, <2>1, RejectionRoutes
<1>3. CASE /\ step' = "copy"
           /\ generated' = [doc EXCEPT !.entries = kept]
           /\ RecordInventory("endpoint", kept)
           /\ doc' = doc
  <2>1. step = "endpoint" /\ DOMAIN doc = Fields
    BY DEF EndpointQuarantine, PipelineInv, DocumentInv, Shrunk
  <2>2. kept \subseteq doc.entries
    BY DEF Reachable
  <2> HIDE DEF kept
  <2>3. /\ generated'.rules = doc.rules /\ generated'.policy = doc.policy /\ generated'.entries = kept
        /\ doc.rules = Candidate.rules /\ doc.policy = Candidate.policy
    BY <1>3, <2>1, RulesKept DEF RouteInv, ServicesInv, Unprobed
  <2>4. ServicesInv'
    BY <1>3, <2>1, <2>3 DEF ServicesInv, ServicesReachAdmitted, RoutedStages, Unprobed
  <2>5. InventoryInv'
    <3>1. Follows("hostname", "preflight") /\ doc.entries = inventories["hostname"]
          /\ inventories["preflight"] = Candidate.entries
      BY <2>1 DEF RouteInv, InventoryInv
    <3>2. Follows("hostname", "preflight")' /\ Follows("endpoint", "hostname")' /\ inventories'["endpoint"] = kept
          /\ "preflight" \in DOMAIN inventories' /\ inventories'["preflight"] = Candidate.entries
      <4>1. inventories'["endpoint"] = kept /\ "preflight" \in DOMAIN inventories' /\ inventories'["preflight"] = inventories["preflight"]
        <5>0. "preflight" \in DOMAIN inventories
          BY <3>1 DEF Follows
        <5>1. RecordInventory("endpoint", kept)
          BY <1>3
        <5>2. /\ DOMAIN inventories' = DOMAIN inventories \cup {"endpoint"} /\ inventories'["endpoint"] = kept
              /\ \A s \in DOMAIN inventories : s # "endpoint" => inventories'[s] = inventories[s]
          BY <5>1, InventoryRecorded
        <5> QED
          BY <5>0, <5>2
      <4>2. Follows("hostname", "preflight")'
        BY <1>3, <3>1, FollowsKept DEF Follows
      <4>3. "hostname" \in DOMAIN inventories /\ kept \subseteq inventories["hostname"]
        BY <2>2, <3>1 DEF Follows
      <4>4. Follows("endpoint", "hostname")'
        BY <1>3, <4>3, FollowsKept DEF Follows
      <4> QED
        BY <3>1, <4>1, <4>2, <4>4
    <3> QED
      BY <1>3, <2>3, <3>2 DEF InventoryInv, Connected, ProbedStages, RoutedStages, FinalStages
  <2>6. AccountingHolds'
    BY <1>3 DEF AccountingHolds
  <2> QED
    BY <2>4, <2>5, <2>6 DEF RouteInv
<1> QED
  BY <1>1, <1>2, <1>3

\* Until the transport probe ends, a step keeps the generated candidate, the
\* inventories and the rules.
LEMMA ConnectedRoute ==
  ASSUME RouteInv, step \in Connected, step' \in Connected, UNCHANGED <<generated, inventories>>,
         doc'.rules = Candidate.rules, doc'.policy = Candidate.policy
  PROVE  RouteInv'
<1>1. ServicesInv'
  BY DEF RouteInv, ServicesInv, ServicesReachAdmitted, RoutedStages, Unprobed, Connected
<1>2. InventoryInv'
  BY DEF RouteInv, InventoryInv, Follows, Connected, ProbedStages, RoutedStages, FinalStages
<1>3. AccountingHolds'
  BY DEF AccountingHolds, Connected
<1> QED
  BY <1>1, <1>2, <1>3 DEF RouteInv

LEMMA CopyRoute ==
  ASSUME RouteInv, CopyGenerated
  PROVE  RouteInv'
<1>1. /\ step \in Connected /\ step' \in Connected /\ UNCHANGED <<generated, inventories>>
      /\ doc'.rules = Candidate.rules /\ doc'.policy = Candidate.policy
  BY DEF CopyGenerated, Connected, RouteInv, ServicesInv
<1> QED
  BY <1>1, ConnectedRoute

LEMMA ReasonsOwned == CoreReasons \cap Disowned = {}
BY DEF CoreReasons, Disowned

LEMMA BrowsingRoute ==
  ASSUME PipelineInv, RouteInv, ProbeBrowsing
  PROVE  RouteInv'
<1>2. step = "browsing" /\ DOMAIN doc = Fields /\ doc.rules = Candidate.rules /\ doc.policy = Candidate.policy
  BY DEF ProbeBrowsing, PipelineInv, DocumentInv, Shrunk, RouteInv, ServicesInv, Unprobed
<1>3. ASSUME NEW why \in CoreReasons, StageFailed("browsing", why, NoDiagnostics)
      PROVE  RouteInv'
  BY <1>2, <1>3, ReasonsOwned, FailureRoutes
<1>4. ASSUME NEW rejected, NEW isolated,
             StageFailed("browsing", CoreQuarantineError(doc, rejected, isolated), NoDiagnostics)
      PROVE  RouteInv'
  <2>1. CoreQuarantineError(doc, rejected, isolated) \notin Disowned
    BY DEF CoreQuarantineError, Disowned
  <2> QED
    BY <1>2, <1>4, <2>1, FailureRoutes
<1>5. ASSUME NEW rejected, NEW isolated, step' = "history", doc' = CoreQuarantine(doc, rejected, isolated),
             UNCHANGED <<generated, inventories>>
      PROVE  RouteInv'
  <2>1. /\ CoreQuarantine(doc, rejected, isolated).rules = doc.rules
        /\ CoreQuarantine(doc, rejected, isolated).policy = doc.policy
    BY <1>2, RulesKept DEF CoreQuarantine
  <2>2. /\ step \in Connected /\ step' \in Connected
        /\ doc'.rules = Candidate.rules /\ doc'.policy = Candidate.policy
    BY <1>2, <1>5, <2>1 DEF Connected
  <2> QED
    BY <1>5, <2>2, ConnectedRoute
<1> QED
  BY <1>3, <1>4, <1>5 DEF ProbeBrowsing

LEMMA HistoryRoute ==
  ASSUME RouteInv, PreferHistory
  PROVE  RouteInv'
<1>1. /\ step \in Connected /\ step' \in Connected /\ UNCHANGED <<generated, inventories>>
      /\ doc'.rules = Candidate.rules /\ doc'.policy = Candidate.policy
  BY DEF PreferHistory, Connected, RouteInv, ServicesInv, Unprobed
<1> QED
  BY <1>1, ConnectedRoute

LEMMA RewriteRoute ==
  ASSUME PipelineInv, RouteInv, RewriteSurfaces
  PROVE  RouteInv'
<1>1. step = "rewrite" /\ DOMAIN doc = Fields /\ doc.rules = Candidate.rules /\ doc.policy = Candidate.policy
  BY DEF RewriteSurfaces, PipelineInv, DocumentInv, Shrunk, RouteInv, ServicesInv, Unprobed
<1>2. CASE StageFailed("rewrite", RewriteError, probe.diagnostics)
  <2>1. RewriteError \notin Disowned
    BY DEF RewriteError, Disowned
  <2> QED
    BY <1>1, <1>2, <2>1, FailureRoutes
<1>3. CASE step' = "transport" /\ doc' = Rewritten /\ UNCHANGED <<generated, inventories>>
  <2>1. /\ step \in Connected /\ step' \in Connected
        /\ doc'.rules = Candidate.rules /\ doc'.policy = Candidate.policy
    BY <1>1, <1>3, RewrittenApart DEF Connected, Apart
  <2> QED
    BY <1>3, <2>1, ConnectedRoute
<1> QED
  BY <1>2, <1>3 DEF RewriteSurfaces

LEMMA TransportRoute ==
  ASSUME PipelineInv, RouteInv, ProbeTransport
  PROVE  RouteInv'
<1>2. /\ step = "transport" /\ DOMAIN doc = Fields
      /\ doc.rules = Candidate.rules /\ doc.policy = Candidate.policy
      /\ doc.entries \subseteq generated.entries
  BY DEF ProbeTransport, PipelineInv, DocumentInv, SurfacesInv, Shaped, ProbedStages, RouteInv, ServicesInv
<1>1. ASSUME NEW why \in CoreReasons, StageFailed("transport", why, probe.diagnostics)
      PROVE  RouteInv'
  BY <1>1, <1>2, ReasonsOwned, FailureRoutes
<1>3. ASSUME NEW tcp, NEW udp, StageFailed("transport", TransportError(doc, tcp, udp), probe.diagnostics)
      PROVE  RouteInv'
  <2>1. TransportError(doc, tcp, udp) \notin Disowned
    BY DEF TransportError, Disowned
  <2> QED
    BY <1>2, <1>3, <2>1, FailureRoutes
<1>4. ASSUME NEW tcp, NEW udp, step' = "ai",
             doc' = ApplyTransport(doc, tcp, udp),
             RecordInventory("browsing", doc.entries),
             generated' = generated
      PROVE  RouteInv'
  <2>1. doc'.rules = doc.rules /\ doc'.policy = doc.policy /\ doc'.entries = doc.entries
    <3>1. \A general : LET d == [doc EXCEPT !.general = general]
                       IN  d.rules = doc.rules /\ d.policy = doc.policy /\ d.entries = doc.entries
      BY <1>2 DEF Fields
    <3> QED
      BY <1>4, <3>1 DEF ApplyTransport
  <2>2. ServicesInv'
    BY <1>2, <1>4, <2>1 DEF RouteInv, ServicesInv, ServicesReachAdmitted, RoutedStages, Unprobed
  <2>3. InventoryInv'
    <3>1. /\ inventories["preflight"] = Candidate.entries
          /\ Follows("hostname", "preflight") /\ Follows("endpoint", "hostname")
          /\ doc.entries \subseteq inventories["endpoint"]
      BY <1>2 DEF RouteInv, InventoryInv, Connected
    <3>2. /\ Follows("hostname", "preflight")' /\ Follows("endpoint", "hostname")' /\ Follows("browsing", "endpoint")'
          /\ inventories'["browsing"] = doc.entries
          /\ "preflight" \in DOMAIN inventories' /\ inventories'["preflight"] = Candidate.entries
      <4>1. inventories'["browsing"] = doc.entries /\ "preflight" \in DOMAIN inventories' /\ inventories'["preflight"] = inventories["preflight"]
        BY <1>4, <3>1, InventoryRecorded DEF Follows
      <4>2. Follows("hostname", "preflight")'
        BY <1>4, <3>1, FollowsKept DEF Follows
      <4>3. Follows("endpoint", "hostname")'
        BY <1>4, <3>1, FollowsKept DEF Follows
      <4>4. "endpoint" \in DOMAIN inventories
        BY <3>1 DEF Follows
      <4>5. Follows("browsing", "endpoint")'
        BY <1>4, <3>1, <4>4, FollowsKept DEF Follows
      <4> QED
        BY <3>1, <4>1, <4>2, <4>3, <4>5
    <3> QED
      BY <1>4, <2>1, <3>2 DEF InventoryInv, Connected, ProbedStages, RoutedStages, FinalStages
  <2>4. AccountingHolds'
    BY <1>4 DEF AccountingHolds
  <2> QED
    BY <2>2, <2>3, <2>4 DEF RouteInv
<1> QED
  BY <1>1, <1>3, <1>4 DEF ProbeTransport

---------------------------------------------------------------------------
(* The accounting.                                                           *)

LEMMA StagePlaces ==
  /\ DOMAIN StageOrder = 1..6
  /\ \A i \in 1..6 : (CHOOSE j \in DOMAIN StageOrder : StageOrder[j] = StageOrder[i]) = i
  /\ \A i \in 2..6 : Before(StageOrder[i]) = inventories[StageOrder[i - 1]]
<1>1. DOMAIN StageOrder = 1..6
  BY DEF StageOrder
<1>2. /\ StageOrder[1] = "preflight" /\ StageOrder[2] = "hostname" /\ StageOrder[3] = "endpoint"
      /\ StageOrder[4] = "browsing" /\ StageOrder[5] = "ai" /\ StageOrder[6] = "service_hardening"
  BY DEF StageOrder
<1>3. \A i, j \in 1..6 : StageOrder[j] = StageOrder[i] => j = i
  BY <1>2
<1>4. ASSUME NEW i \in 1..6
      PROVE  (CHOOSE j \in DOMAIN StageOrder : StageOrder[j] = StageOrder[i]) = i
  BY <1>1, <1>3
<1>5. \A i \in 2..6 : Before(StageOrder[i]) = inventories[StageOrder[i - 1]]
  <2> SUFFICES ASSUME NEW i \in 2..6 PROVE Before(StageOrder[i]) = inventories[StageOrder[i - 1]]
    OBVIOUS
  <2>1. i \in 1..6
    OBVIOUS
  <2>2. (CHOOSE j \in DOMAIN StageOrder : StageOrder[j] = StageOrder[i]) = i
    BY <1>4, <2>1
  <2> QED
    BY <2>2 DEF Before
<1> QED
  BY <1>1, <1>4, <1>5

\* What is left after each stage, given numbers that are what was left before
\* less what the stage removed.
LEMMA LeftInTurn ==
  ASSUME NEW src, NEW n \in [1..6 -> Nat], n[1] = Cardinality(OfSource(inventories["preflight"], src)),
         \A i \in 2..6 : /\ RemovedOf(StageOrder[i], src) \in 0..n[i - 1]
                         /\ n[i] = n[i - 1] - RemovedOf(StageOrder[i], src)
  PROVE  \A i \in 1..6 : Remaining(StageOrder[i], src) = n[i]
<1> DEFINE first == Cardinality(OfSource(inventories["preflight"], src))
           removed(i) == RemovedOf(StageOrder[i], src)
           turn(f) == [i \in DOMAIN StageOrder |->
                         IF i = 1 THEN first ELSE IF removed(i) > f[i - 1] THEN 0 ELSE f[i - 1] - removed(i)]
           left == CHOOSE f : f = turn(f)
<1>1. \A i \in 2..6 : removed(i) \in 0..n[i - 1] /\ n[i] = n[i - 1] - removed(i)
  OBVIOUS
<1>2. n[1] = first
  OBVIOUS
<1>3. \A i \in 1..6 : Remaining(StageOrder[i], src) = left[i]
  <2> SUFFICES ASSUME NEW i \in 1..6 PROVE Remaining(StageOrder[i], src) = left[i]
    OBVIOUS
  <2>1. Remaining(StageOrder[i], src) = left[CHOOSE j \in DOMAIN StageOrder : StageOrder[j] = StageOrder[i]]
    BY DEF Remaining
  <2> HIDE DEF left
  <2> QED
    BY <2>1, StagePlaces
<1> HIDE DEF first, removed
<1>4. n = turn(n)
  <2>1. \A i \in 1..6 : turn(n)[i] = n[i]
    <3> SUFFICES ASSUME NEW i \in 1..6 PROVE turn(n)[i] = n[i]
      OBVIOUS
    <3>1. i = 1 \/ i \in 2..6
      OBVIOUS
    <3>2. i \in 2..6 => n[i - 1] \in Nat
      OBVIOUS
    <3> QED
      BY <1>1, <1>2, <3>1, <3>2, StagePlaces
  <2>2. turn(n) = [i \in 1..6 |-> turn(n)[i]]
    BY StagePlaces
  <2> HIDE DEF turn
  <2> QED
    BY <2>1, <2>2
<1>5. left = turn(left)
  <2> HIDE DEF turn
  <2> QED
    BY <1>4
<1> HIDE DEF left
<1>6. left[1] = first /\ \A i \in 2..6 : left[i] = IF removed(i) > left[i - 1] THEN 0 ELSE left[i - 1] - removed(i)
  <2> DEFINE right == turn(left)
  <2>1. right[1] = first /\ \A i \in 2..6 : right[i] = IF removed(i) > left[i - 1] THEN 0 ELSE left[i - 1] - removed(i)
    BY StagePlaces
  <2> HIDE DEF right
  <2> QED
    BY <1>5, <2>1 DEF right
<1> HIDE DEF turn
<1>7. \A i \in 2..6 : left[i - 1] = n[i - 1] => left[i] = n[i]
  <2> SUFFICES ASSUME NEW i \in 2..6, left[i - 1] = n[i - 1] PROVE left[i] = n[i]
    OBVIOUS
  <2>1. n[i - 1] \in Nat
    OBVIOUS
  <2> QED
    BY <1>1, <1>6, <2>1
<1>8. left[1] = n[1] /\ left[2] = n[2] /\ left[3] = n[3] /\ left[4] = n[4] /\ left[5] = n[5] /\ left[6] = n[6]
  <2>1. left[1] = n[1]
    BY <1>2, <1>6
  <2>2. left[2] = n[2]
    BY <1>7, <2>1
  <2>3. left[3] = n[3]
    BY <1>7, <2>2
  <2>4. left[4] = n[4]
    BY <1>7, <2>3
  <2>5. left[5] = n[5]
    BY <1>7, <2>4
  <2>6. left[6] = n[6]
    BY <1>7, <2>5
  <2> QED
    BY <2>1, <2>2, <2>3, <2>4, <2>5, <2>6
<1>9. \A i \in 1..6 : left[i] = n[i]
  BY <1>8
<1> QED
  BY <1>3, <1>9

\* The entries of one source, stage by stage, and how many they are.
OfStage(src, i) == OfSource(inventories[StageOrder[i]], src)

LEMMA SourceShrinks ==
  ASSUME CandidateAssumption, Shrinking, NEW src
  PROVE  /\ \A i \in 1..5 : IsFiniteSet(OfStage(src, i)) /\ (i > 1 => OfStage(src, i) \subseteq OfStage(src, i - 1))
         /\ OfStage(src, 5) \subseteq OfStage(src, 6) /\ (OfStage(src, 5) = {} => OfStage(src, 6) = {})
         /\ \A i \in 2..6 : RemovedOf(StageOrder[i], src) = Cardinality(OfStage(src, i - 1) \ OfStage(src, i))
<1> DEFINE H(i) == OfStage(src, i)
<1>1. /\ StageOrder[1] = "preflight" /\ StageOrder[2] = "hostname" /\ StageOrder[3] = "endpoint"
      /\ StageOrder[4] = "browsing" /\ StageOrder[5] = "ai" /\ StageOrder[6] = "service_hardening"
  BY DEF StageOrder
<1>2. \A A, B : A \subseteq B => OfSource(A, src) \subseteq OfSource(B, src)
  BY DEF OfSource
<1>3. H(2) \subseteq H(1) /\ H(3) \subseteq H(2) /\ H(4) \subseteq H(3) /\ H(5) \subseteq H(4) /\ H(5) \subseteq H(6)
  BY <1>1, <1>2 DEF Shrinking, Follows, OfStage
<1>4. IsFiniteSet(H(1))
  <2>1. H(1) \subseteq Candidate.entries
    BY <1>1 DEF Shrinking, OfStage, OfSource
  <2> QED
    BY <2>1, FS_Subset DEF CandidateAssumption
<1>5. H(5) = {} => H(6) = {}
  <2> SUFFICES ASSUME NEW e \in H(6) PROVE H(5) # {}
    OBVIOUS
  <2>1. e[2] \in Unique(inventories["ai"]) /\ Source[e[2]] = src
    BY <1>1 DEF OfStage, OfSource, Shrinking, Unique
  <2>2. PICK d \in inventories["ai"] : d[2] = e[2]
    BY <2>1 DEF Unique
  <2> QED
    BY <1>1, <2>1, <2>2 DEF OfStage, OfSource
<1>6. ASSUME NEW i \in 2..6
      PROVE  RemovedOf(StageOrder[i], src) = Cardinality(H(i - 1) \ H(i))
  <2>1. OfSource(Before(StageOrder[i]) \ After(StageOrder[i]), src) = H(i - 1) \ H(i)
    BY StagePlaces DEF OfSource, OfStage, After
  <2> QED
    BY <2>1 DEF RemovedOf
<1> HIDE DEF H
<1>7. \A i \in 1..5 : IsFiniteSet(H(i)) /\ (i > 1 => H(i) \subseteq H(i - 1))
  <2>1. IsFiniteSet(H(2)) /\ IsFiniteSet(H(3)) /\ IsFiniteSet(H(4)) /\ IsFiniteSet(H(5))
    <3>1. H(2) \subseteq H(1) /\ H(3) \subseteq H(1) /\ H(4) \subseteq H(1) /\ H(5) \subseteq H(1)
      BY <1>3
    <3> QED
      BY <1>4, <3>1, FS_Subset
  <2>2. \A i \in 1..5 : i = 1 \/ i = 2 \/ i = 3 \/ i = 4 \/ i = 5
    OBVIOUS
  <2>3. /\ 2 - 1 = 1 /\ 3 - 1 = 2 /\ 4 - 1 = 3 /\ 5 - 1 = 4
    OBVIOUS
  <2> QED
    BY <1>3, <1>4, <2>1, <2>2, <2>3
<1> QED
  BY <1>3, <1>5, <1>6, <1>7 DEF H

\* Up to the services, what the accounting counts as remaining is what is there;
\* hardening removes nothing.
LEMMA RemainingIsLeft ==
  ASSUME CandidateAssumption, Shrinking, NEW src
  PROVE  /\ \A i \in 2..5 : /\ RemovedOf(StageOrder[i], src) > 0 => OfStage(src, i - 1) # {}
                            /\ Remaining(StageOrder[i], src) = 0 <=> OfStage(src, i) = {}
                            /\ OfStage(src, i - 1) # {} /\ OfStage(src, i) = {} => RemovedOf(StageOrder[i], src) > 0
         /\ RemovedOf(StageOrder[6], src) = 0
<1> DEFINE n == [i \in 1..6 |-> IF i = 6 THEN Cardinality(OfStage(src, 5)) ELSE Cardinality(OfStage(src, i))]
<1>1. /\ \A i \in 1..5 : IsFiniteSet(OfStage(src, i)) /\ (i > 1 => OfStage(src, i) \subseteq OfStage(src, i - 1))
      /\ OfStage(src, 5) \subseteq OfStage(src, 6)
      /\ \A i \in 2..6 : RemovedOf(StageOrder[i], src) = Cardinality(OfStage(src, i - 1) \ OfStage(src, i))
  BY SourceShrinks
<1>2. \A i \in 1..5 : Cardinality(OfStage(src, i)) \in Nat /\ (Cardinality(OfStage(src, i)) = 0 <=> OfStage(src, i) = {})
  BY <1>1, FS_CardinalityType, FS_EmptySet
<1>3. n \in [1..6 -> Nat] /\ \A i \in 1..5 : n[i] = Cardinality(OfStage(src, i))
  BY <1>2
<1>4. RemovedOf(StageOrder[6], src) = 0
  <2>1. OfStage(src, 6 - 1) \ OfStage(src, 6) = {}
    BY <1>1
  <2>2. RemovedOf(StageOrder[6], src) = Cardinality(OfStage(src, 6 - 1) \ OfStage(src, 6))
    BY <1>1
  <2> QED
    BY <2>1, <2>2, FS_EmptySet
<1>5. n[6] = n[5]
  OBVIOUS
<1> HIDE DEF n
<1>6. ASSUME NEW i \in 2..5
      PROVE  RemovedOf(StageOrder[i], src) \in 0..n[i - 1] /\ n[i] = n[i - 1] - RemovedOf(StageOrder[i], src)
  <2> DEFINE B == OfStage(src, i - 1)
             A == OfStage(src, i)
  <2>1. i \in 1..5 /\ i - 1 \in 1..5 /\ i > 1 /\ i \in 2..6
    OBVIOUS
  <2>2. IsFiniteSet(B) /\ A \subseteq B /\ RemovedOf(StageOrder[i], src) = Cardinality(B \ A)
    BY <1>1, <2>1
  <2>3. n[i] = Cardinality(A) /\ n[i - 1] = Cardinality(B) /\ Cardinality(A) \in Nat /\ Cardinality(B) \in Nat
    BY <1>2, <1>3, <2>1
  <2> HIDE DEF A, B
  <2>4. Cardinality(B \ A) = Cardinality(B) - Cardinality(B \cap A) /\ IsFiniteSet(B \ A)
    BY <2>2, FS_Difference
  <2>5. B \cap A = A
    BY <2>2
  <2>6. Cardinality(B \ A) \in Nat
    BY <2>4, FS_CardinalityType
  <2>7. Cardinality(B \ A) = Cardinality(B) - Cardinality(A)
    BY <2>4, <2>5
  <2>8. \A a, b, d \in Nat : d = b - a => d \in 0..b /\ a = b - d
    OBVIOUS
  <2>9. Cardinality(B \ A) \in 0..Cardinality(B) /\ Cardinality(A) = Cardinality(B) - Cardinality(B \ A)
    BY <2>3, <2>6, <2>7, <2>8
  <2> QED
    BY <2>2, <2>3, <2>9
<1>7. \A i \in 2..6 : RemovedOf(StageOrder[i], src) \in 0..n[i - 1] /\ n[i] = n[i - 1] - RemovedOf(StageOrder[i], src)
  <2>1. \A i \in 2..6 : i \in 2..5 \/ i = 6
    OBVIOUS
  <2>2. n[5] \in Nat /\ 6 - 1 = 5
    BY <1>3
  <2>3. RemovedOf(StageOrder[6], src) \in 0..n[6 - 1] /\ n[6] = n[6 - 1] - RemovedOf(StageOrder[6], src)
    BY <1>4, <1>5, <2>2
  <2> QED
    BY <1>6, <2>1, <2>3
<1>8. n[1] = Cardinality(OfSource(inventories["preflight"], src))
  BY <1>3 DEF OfStage, StageOrder
<1>9. \A i \in 1..6 : Remaining(StageOrder[i], src) = n[i]
  BY <1>3, <1>7, <1>8, LeftInTurn
<1>10. ASSUME NEW i \in 2..5
       PROVE  /\ RemovedOf(StageOrder[i], src) > 0 => OfStage(src, i - 1) # {}
              /\ Remaining(StageOrder[i], src) = 0 <=> OfStage(src, i) = {}
              /\ OfStage(src, i - 1) # {} /\ OfStage(src, i) = {} => RemovedOf(StageOrder[i], src) > 0
  <2>1. i \in 1..5 /\ i \in 1..6 /\ i - 1 \in 1..5
    OBVIOUS
  <2>2. Remaining(StageOrder[i], src) = n[i] /\ n[i] = Cardinality(OfStage(src, i)) /\ n[i - 1] = Cardinality(OfStage(src, i - 1))
    BY <1>3, <1>9, <2>1
  <2>3. /\ n[i] \in Nat /\ (n[i] = 0 <=> OfStage(src, i) = {})
        /\ n[i - 1] \in Nat /\ (n[i - 1] = 0 <=> OfStage(src, i - 1) = {})
    BY <1>2, <2>1, <2>2
  <2>4. RemovedOf(StageOrder[i], src) \in 0..n[i - 1] /\ n[i] = n[i - 1] - RemovedOf(StageOrder[i], src)
    BY <1>6
  <2>5. \A a, b \in Nat : \A d \in 0..b : a = b - d => (d > 0 => b # 0) /\ (b # 0 /\ a = 0 => d > 0)
    OBVIOUS
  <2>6. /\ RemovedOf(StageOrder[i], src) > 0 => n[i - 1] # 0
        /\ n[i - 1] # 0 /\ n[i] = 0 => RemovedOf(StageOrder[i], src) > 0
    BY <2>3, <2>4, <2>5
  <2> QED
    BY <2>2, <2>3, <2>6
<1> QED
  BY <1>4, <1>10

\* build_removal_accounting: a candidate the stages produced is accounted for,
\* and a lost source is reported at a stage that lost it.
LEMMA AccountingSound ==
  ASSUME CandidateAssumption, Shrinking
  PROVE  /\ AccountingError = ""
         /\ \A src \in FullyRemoved : /\ OfSource(Before(RemovedAtStage(src)), src) # {}
                                      /\ OfSource(After(RemovedAtStage(src)), src) = {}
<1>1. /\ StageOrder[1] = "preflight" /\ StageOrder[2] = "hostname" /\ StageOrder[3] = "endpoint"
      /\ StageOrder[4] = "browsing" /\ StageOrder[5] = "ai" /\ StageOrder[6] = "service_hardening" /\ Len(StageOrder) = 6
  BY DEF StageOrder
<1>2. ASSUME NEW s \in Stages, AddsInventory(s)
      PROVE  FALSE
  <2>1. PICK i \in 2..6 : s = StageOrder[i]
    BY <1>1 DEF Stages
  <2>2. Before(s) = inventories[StageOrder[i - 1]] /\ After(s) = inventories[StageOrder[i]]
    BY <2>1, StagePlaces DEF After
  <2>3. i = 2 \/ i = 3 \/ i = 4 \/ i = 5 \/ i = 6
    OBVIOUS
  <2>4. i # 6 => After(s) \subseteq Before(s)
    BY <1>1, <2>2, <2>3 DEF Shrinking, Follows
  <2>5. Unique(After(s)) \subseteq Unique(Before(s))
    <3>1. CASE i = 6
      BY <1>1, <2>2, <3>1 DEF Shrinking
    <3>2. CASE i # 6
      BY <2>4, <3>2 DEF Unique
    <3> QED
      BY <3>1, <3>2
  <2>6. s # "service_hardening" => i # 6
    BY <1>1, <2>1
  <2> QED
    BY <1>2, <2>4, <2>5, <2>6 DEF AddsInventory
<1>3. ASSUME NEW src \in FullyRemoved
      PROVE  /\ RemovedAtStage(src) # "unattributed"
             /\ OfSource(Before(RemovedAtStage(src)), src) # {}
             /\ OfSource(After(RemovedAtStage(src)), src) = {}
  <2> DEFINE at == {i \in 2..6 : RemovedOf(StageOrder[i], src) > 0 /\ Remaining(StageOrder[i], src) = 0}
             i == CHOOSE i \in at : \A j \in at : i <= j
  <2>1. OfStage(src, 1) # {} /\ OfStage(src, 6) = {}
    BY <1>1 DEF FullyRemoved, OfStage
  <2>2. OfStage(src, 5) = {}
    BY <2>1, SourceShrinks
  <2>3. PICK k \in 2..5 : OfStage(src, k - 1) # {} /\ OfStage(src, k) = {}
    <3>1. CASE OfStage(src, 2) = {}
      <4>1. 2 - 1 = 1 /\ 2 \in 2..5
        OBVIOUS
      <4> QED
        BY <2>1, <3>1, <4>1
    <3>2. CASE OfStage(src, 2) # {} /\ OfStage(src, 3) = {}
      <4>1. 3 - 1 = 2 /\ 3 \in 2..5
        OBVIOUS
      <4> QED
        BY <3>2, <4>1
    <3>3. CASE OfStage(src, 3) # {} /\ OfStage(src, 4) = {}
      <4>1. 4 - 1 = 3 /\ 4 \in 2..5
        OBVIOUS
      <4> QED
        BY <3>3, <4>1
    <3>4. CASE OfStage(src, 4) # {}
      <4>1. 5 - 1 = 4 /\ 5 \in 2..5
        OBVIOUS
      <4> QED
        BY <2>2, <3>4, <4>1
    <3> QED
      BY <3>1, <3>2, <3>3, <3>4
  <2>4. k \in at
    <3>1. k \in 2..6
      OBVIOUS
    <3> QED
      BY <2>3, <3>1, RemainingIsLeft
  <2>5. RemovedAtStage(src) = IF at = {} THEN "unattributed" ELSE StageOrder[i]
    BY <1>1 DEF RemovedAtStage
  <2>6. at \subseteq Nat
    OBVIOUS
  <2>7. \A j \in at : j \in 2..5
    <3> SUFFICES ASSUME NEW j \in at PROVE j \in 2..5
      OBVIOUS
    <3>1. j # 6
      <4>1. RemovedOf(StageOrder[6], src) = 0
        BY RemainingIsLeft
      <4>2. RemovedOf(StageOrder[j], src) > 0
        OBVIOUS
      <4> QED
        BY <4>1, <4>2
    <3> QED
      BY <3>1
  <2>8. \A j \in at : RemovedOf(StageOrder[j], src) > 0 /\ Remaining(StageOrder[j], src) = 0
    OBVIOUS
  <2> HIDE DEF at
  <2>9. i \in at
    BY <2>4, <2>6, LeastIndex
  <2> HIDE DEF i
  <2>10. OfStage(src, i - 1) # {} /\ OfStage(src, i) = {} /\ i \in 2..6
    <3>1. i \in 2..5 /\ RemovedOf(StageOrder[i], src) > 0 /\ Remaining(StageOrder[i], src) = 0
      BY <2>7, <2>8, <2>9
    <3>2. OfStage(src, i - 1) # {} /\ OfStage(src, i) = {}
      BY <3>1, RemainingIsLeft
    <3> QED
      BY <3>1, <3>2
  <2>11. RemovedAtStage(src) = StageOrder[i]
    BY <2>4, <2>5
  <2>12. StageOrder[i] # "unattributed"
    BY <1>1, <2>10 DEF StageOrder
  <2>13. Before(StageOrder[i]) = inventories[StageOrder[i - 1]]
    BY <2>10, StagePlaces
  <2> QED
    BY <2>10, <2>11, <2>12, <2>13 DEF OfStage, After
<1> QED
  BY <1>2, <1>3 DEF AccountingError

LEMMA ServicesRoute ==
  ASSUME PipelineInv, RouteInv, QualifyAi
  PROVE  RouteInv'
<1>1. PICK told \in [AiServices -> [AiNodes(doc) -> AiEvidence]] :
        LET qualifiedBy == [s \in AiServices |-> Passed(told[s])]
            routed      == ApplyAiServiceQualification(doc, qualifiedBy)
        IN  /\ doc' = [routed EXCEPT !.rules = ApplyRouteLock(routed.rules)]
            /\ admitted' = qualifiedBy
            /\ RecordInventory("ai", routed.entries)
  BY DEF QualifyAi
<1> DEFINE qualifiedBy == [s \in AiServices |-> Passed(told[s])]
           routed == ApplyAiServiceQualification(doc, qualifiedBy)
<1>2. /\ step = "ai" /\ step' = "service_hardening" /\ generated' = generated
      /\ doc' = [routed EXCEPT !.rules = ApplyRouteLock(routed.rules)] /\ admitted' = qualifiedBy
      /\ RecordInventory("ai", routed.entries)
  BY <1>1 DEF QualifyAi
<1>3. \A s \in AiServices : qualifiedBy[s] \subseteq AiNodes(doc)
  BY DEF Passed
<1>4. /\ Shaped(doc) /\ generated.rules = Candidate.rules /\ doc.rules = Candidate.rules
      /\ generated.policy = Candidate.policy /\ doc.policy = Candidate.policy
      /\ "preflight" \in DOMAIN inventories /\ inventories["preflight"] = Candidate.entries
      /\ Follows("hostname", "preflight") /\ Follows("endpoint", "hostname") /\ Follows("browsing", "endpoint")
      /\ doc.entries = inventories["browsing"]
  BY <1>2 DEF PipelineInv, SurfacesInv, ProbedStages, RouteInv, ServicesInv, InventoryInv
<1>5. doc.entries \subseteq ({"general", "browsing", "ai"} \X Regions) \X Nodes
  <2>1. doc.entries \subseteq Candidate.entries
    BY <1>4 DEF Follows
  <2> QED
    BY <2>1, CandidateAssumption
<1>13. doc.policy \in Seq(Regions)
  BY <1>4, CandidateAssumption
<1> HIDE DEF qualifiedBy, routed
<1>6. /\ DOMAIN routed = Fields /\ DOMAIN routed.targets = AiServices
      /\ routed.entries \subseteq doc.entries
      /\ routed.rules = RewriteServiceRules(doc.rules)
      /\ \A s \in AiServices :
           /\ UNION {routed.targets[s][i].names : i \in DOMAIN routed.targets[s]} = qualifiedBy[s]
           /\ qualifiedBy[s] \subseteq Unique(routed.entries)
           /\ \A i \in DOMAIN routed.targets[s] :
                Payload(routed.entries, routed.targets[s][i].provider) \cap routed.targets[s][i].names # {}
  BY <1>3, <1>4, <1>5, <1>13, AiAssumption, ServicesRouted DEF routed
<1>7. /\ doc'.entries = routed.entries /\ doc'.targets = routed.targets
      /\ doc'.rules = ApplyRouteLock(RewriteServiceRules(Candidate.rules))
  BY <1>2, <1>4, <1>6 DEF Fields
<1>8. AuditRouteLock(doc'.rules)
  BY <1>7, CandidateAssumption, RoutesLocked
<1>9. ServicesReachAdmitted'
  <2>1. \A s \in AiServices :
          /\ UNION {doc'.targets[s][i].names : i \in DOMAIN doc'.targets[s]} = admitted'[s]
          /\ \A i \in DOMAIN doc'.targets[s] :
               Payload(doc'.entries, doc'.targets[s][i].provider) \cap doc'.targets[s][i].names # {}
    BY <1>2, <1>6, <1>7
  <2>2. step' \notin FinalStages
    BY <1>2 DEF FinalStages
  <2> QED
    BY <1>8, <2>1, <2>2 DEF ServicesReachAdmitted
<1>10. ServicesInv'
  <2>1. DOMAIN doc'.targets = AiServices /\ \A s \in AiServices : admitted'[s] \subseteq Unique(doc'.entries)
    BY <1>2, <1>6, <1>7
  <2> QED
    BY <1>2, <1>4, <1>9, <2>1 DEF ServicesInv, Unprobed
<1>11. InventoryInv'
  <2>1. "browsing" \in DOMAIN inventories /\ routed.entries \subseteq inventories["browsing"]
    BY <1>4, <1>6 DEF Follows
  <2>2. Follows("ai", "browsing")'
    BY <1>2, <2>1, FollowsKept DEF Follows
  <2>3. Follows("hostname", "preflight")'
    BY <1>2, <1>4, FollowsKept DEF Follows
  <2>4. Follows("endpoint", "hostname")'
    BY <1>2, <1>4, FollowsKept DEF Follows
  <2>5. Follows("browsing", "endpoint")'
    BY <1>2, <1>4, FollowsKept DEF Follows
  <2>6. inventories'["ai"] = routed.entries /\ "preflight" \in DOMAIN inventories' /\ inventories'["preflight"] = Candidate.entries
    <3>1. /\ DOMAIN inventories' = DOMAIN inventories \cup {"ai"} /\ inventories'["ai"] = routed.entries
          /\ \A s \in DOMAIN inventories : s # "ai" => inventories'[s] = inventories[s]
      BY <1>2, InventoryRecorded
    <3> QED
      BY <1>4, <3>1
  <2> QED
    BY <1>2, <1>7, <2>2, <2>3, <2>4, <2>5, <2>6 DEF InventoryInv, Connected, ProbedStages, RoutedStages, FinalStages
<1>12. AccountingHolds'
  BY <1>2 DEF AccountingHolds
<1> QED
  BY <1>10, <1>11, <1>12 DEF RouteInv

LEMMA HardeningRoute ==
  ASSUME PipelineInv, RouteInv, HardenServices
  PROVE  RouteInv'
<1> DEFINE hardened == HardenOpenAiClientPath(doc)
<1>1. /\ step = "service_hardening" /\ step' = "accounting" /\ doc' = CapEndpointReservePools(hardened, reserve)
      /\ RecordInventory("service_hardening", doc'.entries)
      /\ UNCHANGED <<generated, admitted>>
  BY DEF HardenServices
<1>2. /\ Shaped(doc) /\ DOMAIN doc.targets = AiServices /\ \A s \in AiServices : admitted[s] \subseteq Unique(doc.entries)
      /\ generated.rules = Candidate.rules /\ generated.policy = Candidate.policy
      /\ "preflight" \in DOMAIN inventories /\ inventories["preflight"] = Candidate.entries
      /\ Follows("hostname", "preflight") /\ Follows("endpoint", "hostname") /\ Follows("browsing", "endpoint")
      /\ Follows("ai", "browsing") /\ doc.entries = inventories["ai"]
  BY <1>1 DEF PipelineInv, SurfacesInv, ProbedStages, RoutedStages, RouteInv, ServicesInv, InventoryInv
<1>3. /\ AuditRouteLock(doc.rules)
      /\ \A s \in AiServices :
           /\ UNION {doc.targets[s][i].names : i \in DOMAIN doc.targets[s]} = admitted[s]
           /\ \A i \in DOMAIN doc.targets[s] :
                Payload(doc.entries, doc.targets[s][i].provider) \cap doc.targets[s][i].names # {}
  BY <1>1 DEF RouteInv, ServicesInv, ServicesReachAdmitted, RoutedStages
<1>4. UNION {doc.targets[OpenAi][i].names : i \in DOMAIN doc.targets[OpenAi]} \subseteq Unique(doc.entries)
  <2>1. OpenAi \in AiServices
    BY AiAssumption
  <2> QED
    BY <1>2, <1>3, <2>1
<1> HIDE DEF hardened
<1>5. /\ DOMAIN hardened = Fields /\ hardened.rules = doc.rules
      /\ doc.entries \subseteq hardened.entries /\ Unique(hardened.entries) = Unique(doc.entries)
      /\ \A s \in AiServices :
           /\ UNION {hardened.targets[s][i].names : i \in DOMAIN hardened.targets[s]} =
                UNION {doc.targets[s][i].names : i \in DOMAIN doc.targets[s]}
           /\ \A i \in DOMAIN hardened.targets[s] :
                Payload(hardened.entries, hardened.targets[s][i].provider) \cap hardened.targets[s][i].names # {}
      /\ AuditOpenAiClientPath(hardened)
  BY <1>2, <1>3, <1>4, AiAssumption, ClientPathHardened DEF hardened
<1>6. doc'.entries = hardened.entries /\ doc'.targets = hardened.targets /\ doc'.rules = hardened.rules
  <2>1. \A tiers, general :
           LET d == [hardened EXCEPT !.tiers = tiers, !.general = general]
           IN  d.entries = hardened.entries /\ d.targets = hardened.targets /\ d.rules = hardened.rules
    BY <1>5 DEF Fields
  <2> QED
    BY <1>1, <2>1 DEF CapEndpointReservePools
<1>7. ServicesReachAdmitted'
  <2>1. \A s \in AiServices :
          /\ UNION {doc'.targets[s][i].names : i \in DOMAIN doc'.targets[s]} = admitted'[s]
          /\ \A i \in DOMAIN doc'.targets[s] :
               Payload(doc'.entries, doc'.targets[s][i].provider) \cap doc'.targets[s][i].names # {}
    <3> SUFFICES ASSUME NEW s \in AiServices
                 PROVE  /\ UNION {doc'.targets[s][i].names : i \in DOMAIN doc'.targets[s]} = admitted'[s]
                        /\ \A i \in DOMAIN doc'.targets[s] :
                             Payload(doc'.entries, doc'.targets[s][i].provider) \cap doc'.targets[s][i].names # {}
      OBVIOUS
    <3>1. /\ UNION {hardened.targets[s][i].names : i \in DOMAIN hardened.targets[s]} = admitted[s]
          /\ \A i \in DOMAIN hardened.targets[s] :
               Payload(hardened.entries, hardened.targets[s][i].provider) \cap hardened.targets[s][i].names # {}
      BY <1>3, <1>5
    <3>2. doc'.targets[s] = hardened.targets[s] /\ doc'.entries = hardened.entries /\ admitted' = admitted
      BY <1>1, <1>6
    <3> QED
      BY <3>1, <3>2
  <2>2. AuditRouteLock(doc'.rules)
    BY <1>3, <1>5, <1>6
  <2>3. AuditOpenAiClientPath(doc')
    BY <1>5, <1>6 DEF AuditOpenAiClientPath
  <2>4. AuditOpenAiClientPath(doc)' /\ AuditRouteLock(doc.rules)'
    BY <2>2, <2>3 DEF AuditOpenAiClientPath, AuditRouteLock
  <2> QED
    BY <2>1, <2>4 DEF ServicesReachAdmitted
<1>8. ServicesInv'
  BY <1>1, <1>2, <1>7 DEF ServicesInv, Unprobed
<1>9. InventoryInv'
  <2>1. /\ DOMAIN inventories' = DOMAIN inventories \cup {"service_hardening"}
        /\ inventories'["service_hardening"] = hardened.entries
        /\ \A s \in DOMAIN inventories : s # "service_hardening" => inventories'[s] = inventories[s]
    BY <1>1, <1>6, InventoryRecorded
  <2>2. "ai" \in DOMAIN inventories
    BY <1>2 DEF Follows
  <2>3. inventories'["ai"] = doc.entries /\ "preflight" \in DOMAIN inventories' /\ inventories'["preflight"] = Candidate.entries
    BY <1>2, <2>1, <2>2
  <2>4. Follows("ai", "service_hardening")'
    BY <1>5, <2>1, <2>2, <2>3 DEF Follows
  <2>5. Unique(inventories["service_hardening"])' = Unique(inventories["ai"])'
    BY <1>5, <2>1, <2>3 DEF Unique
  <2>6. Follows("hostname", "preflight")'
    BY <1>1, <1>2, FollowsKept DEF Follows
  <2>7. Follows("endpoint", "hostname")'
    BY <1>1, <1>2, FollowsKept DEF Follows
  <2>8. Follows("browsing", "endpoint")'
    BY <1>1, <1>2, FollowsKept DEF Follows
  <2>9. Follows("ai", "browsing")'
    BY <1>1, <1>2, FollowsKept DEF Follows
  <2>10. Shrinking'
    BY <2>3, <2>4, <2>5, <2>6, <2>7, <2>8, <2>9 DEF Shrinking
  <2> QED
    BY <1>1, <2>3, <2>10 DEF InventoryInv, Connected, ProbedStages, RoutedStages, FinalStages, Shrinking
<1>10. AccountingHolds'
  BY <1>1 DEF AccountingHolds
<1> QED
  BY <1>8, <1>9, <1>10 DEF RouteInv

\* The invariant looks at the documents and the inventories alone.
LEMMA UnmovedRoute ==
  ASSUME RouteInv, UNCHANGED <<doc, generated, inventories, admitted>>,
         (step' = step /\ reason' = reason) \/ (step = "accounting" /\ step' = "done"),
         step' = "done" /\ step # "done" => AccountingHolds'
  PROVE  RouteInv'
<1>1. /\ AuditRouteLock(doc.rules)' <=> AuditRouteLock(doc.rules)
      /\ AuditOpenAiClientPath(doc)' <=> AuditOpenAiClientPath(doc)
      /\ Shrinking' <=> Shrinking
  BY DEF AuditRouteLock, AuditOpenAiClientPath, Shrinking, Follows, Unique
<1>2. ServicesReachAdmitted'
  BY <1>1 DEF RouteInv, ServicesInv, ServicesReachAdmitted, RoutedStages, FinalStages
<1>3. ServicesInv'
  BY <1>2 DEF RouteInv, ServicesInv, Unprobed
<1>4. InventoryInv'
  BY <1>1 DEF RouteInv, InventoryInv, Follows, Connected, ProbedStages, RoutedStages, FinalStages
<1>5. AccountingHolds'
  BY DEF RouteInv, AccountingHolds, Before, After
<1> QED
  BY <1>3, <1>4, <1>5 DEF RouteInv

LEMMA AccountRoute ==
  ASSUME RouteInv, Account
  PROVE  RouteInv'
<1>1. Shrinking
  BY DEF Account, RouteInv, InventoryInv, FinalStages
<1>2. /\ AccountingError = ""
      /\ \A src \in FullyRemoved : /\ OfSource(Before(RemovedAtStage(src)), src) # {}
                                   /\ OfSource(After(RemovedAtStage(src)), src) = {}
  BY <1>1, CandidateAssumption, AccountingSound
<1>3. /\ step = "accounting" /\ step' = "done" /\ reason' = [src \in FullyRemoved |-> RemovedAtStage(src)]
      /\ UNCHANGED <<doc, generated, inventories, admitted>>
  BY <1>2 DEF Account
<1>4. AccountingHolds'
  <2>1. \A src \in DOMAIN reason' : /\ OfSource(Before(reason'[src]), src) # {}
                                    /\ OfSource(After(reason'[src]), src) = {}
    BY <1>2, <1>3
  <2>2. \A s : Before(s)' = Before(s) /\ After(s)' = After(s)
    BY <1>3 DEF Before, After
  <2>3. \A src \in DOMAIN reason' : /\ OfSource(Before(reason[src])', src) # {}
                                    /\ OfSource(After(reason[src])', src) = {}
    BY <1>3, <2>1 DEF Before, After
  <2> QED
    BY <1>3, <2>3 DEF AccountingHolds, OfSource
<1> QED
  BY <1>3, <1>4, UnmovedRoute

LEMMA StepRoutes ==
  ASSUME PipelineInv, RouteInv, [PipelineNext]_pipelineVars
  PROVE  RouteInv'
<1>1. CASE UNCHANGED pipelineVars
  BY <1>1, UnmovedRoute DEF pipelineVars
<1>2. CASE AiProbeFails
  <2>1. "ai_service_probe" \notin Disowned
    BY DEF Disowned
  <2> QED
    BY <1>2, <2>1, RejectionRoutes DEF AiProbeFails
<1> QED
  BY <1>1, <1>2, HostnamesRoute, EndpointsRoute, CopyRoute, BrowsingRoute, HistoryRoute, RewriteRoute,
     TransportRoute, ServicesRoute, HardeningRoute, AccountRoute
     DEF PipelineNext

\* What every stage leaves of the inventory, and which rules the services find.
THEOREM RouteInvariant == PipelineSpec => []RouteInv
<1>1. PipelineInit => RouteInv
  BY RoutesInitially
<1>2. PipelineInv /\ RouteInv /\ [PipelineNext]_pipelineVars => RouteInv'
  BY StepRoutes
<1> QED
  BY <1>1, <1>2, PipelineInvariant, PTL DEF PipelineSpec

\* ai_service_qualification, openai_app_contract, ai_runtime_reliability: a
\* service reaches the nodes its own probes admitted, through countries that are
\* never empty, and applications of OpenAI cannot be routed past its target.
THEOREM ServicesAlwaysReachAdmitted == PipelineSpec => []ServicesReachAdmitted
<1>1. RouteInv => ServicesReachAdmitted
  BY DEF RouteInv, ServicesInv
<1> QED
  BY <1>1, RouteInvariant, PTL

\* qualification_pipeline: the accounting accepts every candidate the stages
\* produce, and a source it reports lost was lost by the stage it names.
THEOREM AccountingAlwaysHolds == PipelineSpec => []AccountingHolds
<1>1. RouteInv => AccountingHolds
  BY DEF RouteInv
<1> QED
  BY <1>1, RouteInvariant, PTL

---------------------------------------------------------------------------
(* The binaries: MihomoCores.                                                *)

Published(t, content) == <<t, content>> \in published
Ended == {"done", "failed"}
Calling == {"asset", "digest", "write", "store", "metadata"}
States == Ended \cup Calling \cup {"entry", "release", "validate", "smoke"}
Paths == {CachePath[t] : t \in Tags}
Outputs == Tags \cup {Primary, Tool}

\* The functions keep their domains, the plan of a run its tags.
BinaryTypes ==
  /\ DOMAIN upstream = Tags /\ DOMAIN files = Outputs /\ DOMAIN validated = Tags
  /\ DOMAIN cache = Paths /\ \A p \in Paths : DOMAIN cache[p] = {"executable", "metadata"}
  /\ state \in States /\ script \in BOOLEAN /\ runs \in Nat
  /\ plan \in Seq(Tags) /\ (state \notin Ended => plan # <<>>)

\* What GitHub shows a digest of was published, and Absent never was.
UpstreamInv ==
  /\ Digests(upstream) \subseteq published
  /\ \A t \in Tags : ~Published(t, Absent)

\* The metadata of an entry names what was published for its tag, whatever
\* the executable beside it is by now.
CacheInv == \A p \in Paths :
  cache[p].metadata # Absent => Published(cache[p].metadata.tag, cache[p].metadata.executable)

\* What the call under way has established, and what a run validated.
CallInv ==
  /\ state \in Calling => (asset.digest # Absent => Published(tag, asset.digest))
  /\ state \in {"write", "store", "metadata"} => IF asset.digest # Absent THEN asset.digest = raw ELSE script
  /\ state \in {"store", "metadata"} => asset.digest # Absent
  /\ state \in {"store", "metadata", "validate", "smoke"} /\ ~script => Published(tag, files[Output])
  /\ state = "smoke" => ~script
  /\ \A t \in Tags : validated[t] # Absent => Published(t, validated[t])

\* A run of the workflow has still to prepare the last tags of the manifest,
\* and has validated the others.
Ahead == Len(Pins) - Len(plan)
PlanInv == ~script =>
  /\ state \notin Ended =>
       /\ Len(plan) <= Len(Pins)
       /\ \A i \in 1 .. Len(plan) : plan[i] = Pins[Ahead + i]
       /\ \A i \in 1 .. Ahead : validated[Pins[i]] # Absent
  /\ state = "done" /\ runs > 0 => \A i \in 1 .. Len(Pins) : validated[Pins[i]] # Absent

CoresInv == BinaryTypes /\ UpstreamInv /\ CacheInv /\ CallInv /\ PlanInv

\* The tag being prepared is one of the manifest.
LEMMA TagTypes ==
  ASSUME BinaryTypes, state \notin Ended
  PROVE  tag \in Tags /\ Output \in Outputs /\ CachePath[tag] \in Paths /\ Tail(plan) \in Seq(Tags)
BY CoresAssumption DEF BinaryTypes, tag, Output, Outputs, Paths

\* Every step keeps the types.
LEMMA BinaryTypesKept ==
  ASSUME BinaryTypes, CoresNext
  PROVE  BinaryTypes'
<1> USE TagTypes, CoresAssumption DEF BinaryTypes, States, Ended, Calling
<1>1. ASSUME Upload PROVE BinaryTypes'
  BY <1>1 DEF Upload, call
<1>2. ASSUME Begin PROVE BinaryTypes'
  <2>1. Pins \in Seq(Tags) /\ Pins # <<>>
    BY CoresAssumption DEF Tags
  <2>2. \A t \in Tags : <<t>> \in Seq(Tags) /\ <<t>> # <<>>
    OBVIOUS
  <2>3. plan' \in Seq(Tags) /\ plan' # <<>> /\ script' \in BOOLEAN
    BY <1>2, <2>1, <2>2 DEF Begin
  <2> QED BY <1>2, <2>3 DEF Begin, To, Upstream, bounds
<1>3. ASSUME ReuseVerifiedCache PROVE BinaryTypes'
  BY <1>3 DEF ReuseVerifiedCache, To, Upstream, bounds, call, RunFails, Cached, Entry
<1>4. ASSUME Lookup PROVE BinaryTypes'
  BY <1>4 DEF Lookup, To, Upstream, bounds, call, RunFails, Cached, Entry
<1>5. ASSUME RetryNetworkCall PROVE BinaryTypes'
  BY <1>5 DEF RetryNetworkCall, To, Upstream, bounds, call, RunFails
<1>6. ASSUME RequestRelease PROVE BinaryTypes'
  BY <1>6 DEF RequestRelease, To, Upstream, bounds, call, RunFails
<1>7. ASSUME Download PROVE BinaryTypes'
  BY <1>7 DEF Download, To, Upstream, bounds, call, RunFails
<1>8. ASSUME VerifyDigest PROVE BinaryTypes'
  BY <1>8 DEF VerifyDigest, To, Upstream, bounds, call, RunFails
<1>9. ASSUME WriteOutput PROVE BinaryTypes'
  BY <1>9 DEF WriteOutput, To, Upstream, bounds, call, RunFails
<1>10. ASSUME StoreExecutable PROVE BinaryTypes'
  <2>1. DOMAIN cache' = Paths /\ \A p \in Paths : DOMAIN cache'[p] = {"executable", "metadata"}
    BY <1>10 DEF StoreExecutable
  <2> QED BY <1>10, <2>1 DEF StoreExecutable, To, Upstream, bounds, call
<1>11. ASSUME StoreMetadata PROVE BinaryTypes'
  <2>1. DOMAIN cache' = Paths /\ \A p \in Paths : DOMAIN cache'[p] = {"executable", "metadata"}
    BY <1>11 DEF StoreMetadata
  <2> QED BY <1>11, <2>1 DEF StoreMetadata, To, Upstream, bounds, call
<1>12. ASSUME Interrupted PROVE BinaryTypes'
  BY <1>12 DEF Interrupted, To, Upstream, bounds, call, RunFails
<1>13. ASSUME PreparedOnly PROVE BinaryTypes'
  BY <1>13 DEF PreparedOnly, To, Upstream, bounds, call, RunFails, Prepared
<1>14. ASSUME ConfigTest PROVE BinaryTypes'
  BY <1>14 DEF ConfigTest, To, Upstream, bounds, call, RunFails
<1>15. ASSUME StartupSmoke PROVE BinaryTypes'
  BY <1>15 DEF StartupSmoke, To, Upstream, bounds, call, RunFails, Prepared
<1> QED BY <1>1, <1>2, <1>3, <1>4, <1>5, <1>6, <1>7, <1>8, <1>9, <1>10, <1>11, <1>12, <1>13, <1>14, <1>15, CoresNext DEF CoresNext

\* Publications are remembered.
LEMMA UpstreamKept ==
  ASSUME BinaryTypes, UpstreamInv, CoresNext
  PROVE  UpstreamInv'
<1> USE TagTypes DEF BinaryTypes, UpstreamInv, Published, Digests
<1>1. ASSUME Upload PROVE UpstreamInv'
  BY <1>1 DEF Upload, call
<1>2. ASSUME Begin PROVE UpstreamInv'
  BY <1>2 DEF Begin, To, Upstream, bounds
<1>3. ASSUME ReuseVerifiedCache PROVE UpstreamInv'
  BY <1>3 DEF ReuseVerifiedCache, To, Upstream, bounds, call, RunFails, Cached, Entry
<1>4. ASSUME Lookup PROVE UpstreamInv'
  BY <1>4 DEF Lookup, To, Upstream, bounds, call, RunFails, Cached, Entry
<1>5. ASSUME RetryNetworkCall PROVE UpstreamInv'
  BY <1>5 DEF RetryNetworkCall, To, Upstream, bounds, call, RunFails
<1>6. ASSUME RequestRelease PROVE UpstreamInv'
  BY <1>6 DEF RequestRelease, To, Upstream, bounds, call, RunFails
<1>7. ASSUME Download PROVE UpstreamInv'
  BY <1>7 DEF Download, To, Upstream, bounds, call, RunFails
<1>8. ASSUME VerifyDigest PROVE UpstreamInv'
  BY <1>8 DEF VerifyDigest, To, Upstream, bounds, call, RunFails
<1>9. ASSUME WriteOutput PROVE UpstreamInv'
  BY <1>9 DEF WriteOutput, To, Upstream, bounds, call, RunFails
<1>10. ASSUME StoreExecutable PROVE UpstreamInv'
  BY <1>10 DEF StoreExecutable, To, Upstream, bounds, call, RunFails
<1>11. ASSUME StoreMetadata PROVE UpstreamInv'
  BY <1>11 DEF StoreMetadata, To, Upstream, bounds, call, RunFails
<1>12. ASSUME Interrupted PROVE UpstreamInv'
  BY <1>12 DEF Interrupted, To, Upstream, bounds, call, RunFails
<1>13. ASSUME PreparedOnly PROVE UpstreamInv'
  BY <1>13 DEF PreparedOnly, To, Upstream, bounds, call, RunFails, Prepared
<1>14. ASSUME ConfigTest PROVE UpstreamInv'
  BY <1>14 DEF ConfigTest, To, Upstream, bounds, call, RunFails
<1>15. ASSUME StartupSmoke PROVE UpstreamInv'
  BY <1>15 DEF StartupSmoke, To, Upstream, bounds, call, RunFails, Prepared
<1> QED BY <1>1, <1>2, <1>3, <1>4, <1>5, <1>6, <1>7, <1>8, <1>9, <1>10, <1>11, <1>12, <1>13, <1>14, <1>15, CoresNext DEF CoresNext

\* Only metadata of what was verified is written.
LEMMA CacheKept ==
  ASSUME BinaryTypes, CallInv, CacheInv, CoresNext
  PROVE  CacheInv'
<1> USE TagTypes DEF BinaryTypes, CallInv, CacheInv, Published, Ended, Calling
<1>1. ASSUME Upload PROVE CacheInv'
  BY <1>1 DEF Upload, call
<1>2. ASSUME Begin PROVE CacheInv'
  BY <1>2 DEF Begin, To, Upstream, bounds
<1>3. ASSUME ReuseVerifiedCache PROVE CacheInv'
  BY <1>3 DEF ReuseVerifiedCache, To, Upstream, bounds, call, RunFails, Cached, Entry
<1>4. ASSUME Lookup PROVE CacheInv'
  BY <1>4 DEF Lookup, To, Upstream, bounds, call, RunFails, Cached, Entry
<1>5. ASSUME RetryNetworkCall PROVE CacheInv'
  BY <1>5 DEF RetryNetworkCall, To, Upstream, bounds, call, RunFails
<1>6. ASSUME RequestRelease PROVE CacheInv'
  BY <1>6 DEF RequestRelease, To, Upstream, bounds, call, RunFails
<1>7. ASSUME Download PROVE CacheInv'
  BY <1>7 DEF Download, To, Upstream, bounds, call, RunFails
<1>8. ASSUME VerifyDigest PROVE CacheInv'
  BY <1>8 DEF VerifyDigest, To, Upstream, bounds, call, RunFails
<1>9. ASSUME WriteOutput PROVE CacheInv'
  BY <1>9 DEF WriteOutput, To, Upstream, bounds, call, RunFails
<1>10. ASSUME StoreExecutable PROVE CacheInv'
  BY <1>10 DEF StoreExecutable, To, Upstream, bounds, call, RunFails
<1>11. ASSUME StoreMetadata PROVE CacheInv'
  <2>1. state = "metadata" /\ tag \in Tags /\ CachePath[tag] \in Paths /\ UNCHANGED published
    BY <1>11 DEF StoreMetadata, Upstream
  <2>2. <<tag, raw>> \in published
    BY <2>1
  <2>3. cache'[CachePath[tag]].metadata = [tag |-> tag, executable |-> raw]
    BY <1>11, <2>1 DEF StoreMetadata
  <2>4. \A p \in Paths \ {CachePath[tag]} : cache'[p] = cache[p]
    BY <1>11, <2>1 DEF StoreMetadata
  <2> QED BY <2>1, <2>2, <2>3, <2>4
<1>12. ASSUME Interrupted PROVE CacheInv'
  BY <1>12 DEF Interrupted, To, Upstream, bounds, call, RunFails
<1>13. ASSUME PreparedOnly PROVE CacheInv'
  BY <1>13 DEF PreparedOnly, To, Upstream, bounds, call, RunFails, Prepared
<1>14. ASSUME ConfigTest PROVE CacheInv'
  BY <1>14 DEF ConfigTest, To, Upstream, bounds, call, RunFails
<1>15. ASSUME StartupSmoke PROVE CacheInv'
  BY <1>15 DEF StartupSmoke, To, Upstream, bounds, call, RunFails, Prepared
<1> QED BY <1>1, <1>2, <1>3, <1>4, <1>5, <1>6, <1>7, <1>8, <1>9, <1>10, <1>11, <1>12, <1>13, <1>14, <1>15, CoresNext DEF CoresNext

\* Every step of a call establishes what the next relies on.
LEMMA CallKept ==
  ASSUME BinaryTypes, UpstreamInv, CacheInv, CallInv, CoresNext
  PROVE  CallInv'
<1> USE TagTypes DEF BinaryTypes, UpstreamInv, CacheInv, CallInv, Published, Ended, Calling, Output, tag
<1>1. ASSUME Upload PROVE CallInv'
  BY <1>1 DEF Upload, call
<1>2. ASSUME Begin PROVE CallInv'
  BY <1>2 DEF Begin, To, Upstream, bounds
<1>3. ASSUME ReuseVerifiedCache PROVE CallInv'
  BY <1>3 DEF ReuseVerifiedCache, To, Upstream, bounds, call, RunFails, Cached, Entry
<1>4. ASSUME Lookup PROVE CallInv'
  BY <1>4 DEF Lookup, To, Upstream, bounds, call, RunFails, Cached, Entry
<1>5. ASSUME RetryNetworkCall PROVE CallInv'
  BY <1>5 DEF RetryNetworkCall, To, Upstream, bounds, call, RunFails
<1>6. ASSUME RequestRelease PROVE CallInv'
  <2>1. CASE (Stable /\ upstream[tag].prerelease) \/ upstream[tag].assets # 1
    BY <1>6, <2>1 DEF RequestRelease, To, Upstream, bounds, call, RunFails
  <2>2. CASE ~((Stable /\ upstream[tag].prerelease) \/ upstream[tag].assets # 1)
    <3>1. tag \in Tags
      BY <1>6 DEF RequestRelease
    <3>2. upstream[tag].digest # Absent => <<tag, upstream[tag].digest>> \in published
      BY <3>1 DEF Digests
    <3>3. asset' = upstream[tag] /\ state' = "asset" /\ UNCHANGED <<published, plan, files, script, validated>>
      BY <1>6, <2>2 DEF RequestRelease, To, Upstream
    <3> QED BY <3>2, <3>3
  <2> QED BY <2>1, <2>2
<1>7. ASSUME Download PROVE CallInv'
  BY <1>7 DEF Download, To, Upstream, bounds, call, RunFails
<1>8. ASSUME VerifyDigest PROVE CallInv'
  BY <1>8 DEF VerifyDigest, To, Upstream, bounds, call, RunFails
<1>9. ASSUME WriteOutput PROVE CallInv'
  BY <1>9 DEF WriteOutput, To, Upstream, bounds, call, RunFails
<1>10. ASSUME StoreExecutable PROVE CallInv'
  BY <1>10 DEF StoreExecutable, To, Upstream, bounds, call, RunFails
<1>11. ASSUME StoreMetadata PROVE CallInv'
  BY <1>11 DEF StoreMetadata, To, Upstream, bounds, call, RunFails
<1>12. ASSUME Interrupted PROVE CallInv'
  BY <1>12 DEF Interrupted, To, Upstream, bounds, call, RunFails
<1>13. ASSUME PreparedOnly PROVE CallInv'
  BY <1>13 DEF PreparedOnly, To, Upstream, bounds, call, RunFails, Prepared
<1>14. ASSUME ConfigTest PROVE CallInv'
  BY <1>14 DEF ConfigTest, To, Upstream, bounds, call, RunFails
<1>15. ASSUME StartupSmoke PROVE CallInv'
  <2>1. CASE RunFails
    BY <1>15, <2>1 DEF StartupSmoke, To, Upstream, call, RunFails
  <2>2. CASE Prepared /\ validated' = [validated EXCEPT ![tag] = files[Output]]
    <3>1. tag \in Tags /\ Published(tag, files[Output])
      BY <1>15 DEF StartupSmoke
    <3>2. state' \in {"done", "entry"} /\ UNCHANGED published
      BY <2>2 DEF Prepared, To, Upstream
    <3>3. ASSUME NEW t \in Tags, validated'[t] # Absent PROVE Published(t, validated'[t])
      <4>1. CASE t = tag
        BY <2>2, <3>1, <4>1
      <4>2. CASE t # tag
        BY <2>2, <3>3, <4>2
      <4> QED BY <4>1, <4>2
    <3> QED BY <3>2, <3>3
  <2> QED BY <1>15, <2>1, <2>2 DEF StartupSmoke
<1> QED BY <1>1, <1>2, <1>3, <1>4, <1>5, <1>6, <1>7, <1>8, <1>9, <1>10, <1>11, <1>12, <1>13, <1>14, <1>15, CoresNext DEF CoresNext

\* The plan shrinks from its front as its tags are validated.
LEMMA PlanKept ==
  ASSUME BinaryTypes, UpstreamInv, CallInv, PlanInv, CoresNext
  PROVE  PlanInv'
<1> USE TagTypes, CoresAssumption DEF BinaryTypes, PlanInv, Ahead, Ended, Calling
<1>1. ASSUME Upload PROVE PlanInv'
  BY <1>1 DEF Upload, call
<1>2. ASSUME Begin PROVE PlanInv'
  BY <1>2 DEF Begin, To, Upstream, bounds
<1>3. ASSUME ReuseVerifiedCache PROVE PlanInv'
  BY <1>3 DEF ReuseVerifiedCache, To, Upstream, bounds, call, RunFails, Cached, Entry
<1>4. ASSUME Lookup PROVE PlanInv'
  BY <1>4 DEF Lookup, To, Upstream, bounds, call, RunFails, Cached, Entry
<1>5. ASSUME RetryNetworkCall PROVE PlanInv'
  <2>1. CASE RunFails
    BY <2>1 DEF RunFails, To, call
  <2>2. CASE UNCHANGED <<cache, files, runs, script, plan, state, asset, raw, validated>>
    BY <2>2
  <2> QED BY <1>5, <2>1, <2>2 DEF RetryNetworkCall
<1>6. ASSUME RequestRelease PROVE PlanInv'
  BY <1>6 DEF RequestRelease, To, Upstream, bounds, call, RunFails
<1>7. ASSUME Download PROVE PlanInv'
  BY <1>7 DEF Download, To, Upstream, bounds, call, RunFails
<1>8. ASSUME VerifyDigest PROVE PlanInv'
  BY <1>8 DEF VerifyDigest, To, Upstream, bounds, call, RunFails
<1>9. ASSUME WriteOutput PROVE PlanInv'
  BY <1>9 DEF WriteOutput, To, Upstream, bounds, call, RunFails
<1>10. ASSUME StoreExecutable PROVE PlanInv'
  BY <1>10 DEF StoreExecutable, To, Upstream, bounds, call, RunFails
<1>11. ASSUME StoreMetadata PROVE PlanInv'
  BY <1>11 DEF StoreMetadata, To, Upstream, bounds, call, RunFails
<1>12. ASSUME Interrupted PROVE PlanInv'
  BY <1>12 DEF Interrupted, To, Upstream, bounds, call, RunFails
<1>13. ASSUME PreparedOnly PROVE PlanInv'
  BY <1>13 DEF PreparedOnly, To, Upstream, bounds, call, RunFails, Prepared
<1>14. ASSUME ConfigTest PROVE PlanInv'
  BY <1>14 DEF ConfigTest, To, Upstream, bounds, call, RunFails
<1>15. ASSUME StartupSmoke PROVE PlanInv'
  <2>1. CASE RunFails
    BY <1>15, <2>1 DEF StartupSmoke, To, Upstream, RunFails, call
  <2>2. CASE Prepared /\ validated' = [validated EXCEPT ![tag] = files[Output]]
    <3>1. SUFFICES ASSUME ~script PROVE PlanInv'
      BY <2>2 DEF Prepared
    <3>2. validated'[tag] # Absent /\ tag = plan[1] /\ tag \in Tags
      BY <1>15, <2>2, <3>1 DEF StartupSmoke, UpstreamInv, CallInv, tag
    <3>3. plan' = Tail(plan) /\ Len(plan') = Len(plan) - 1 /\ \A i \in 1 .. Len(plan') : plan'[i] = plan[i + 1]
      BY <1>15, <2>2 DEF StartupSmoke, Prepared
    <3>4. plan[1] = Pins[Ahead + 1] /\ Ahead' = Ahead + 1 /\ Ahead \in Nat
      BY <1>15, <3>1, <3>3 DEF StartupSmoke
    <3>5. \A i \in 1 .. Ahead' : validated'[Pins[i]] # Absent
      <4>1. SUFFICES ASSUME NEW i \in 1 .. Ahead + 1 PROVE validated'[Pins[i]] # Absent
        BY <3>4
      <4>2. CASE Pins[i] = tag
        BY <3>2, <4>2
      <4>3. CASE Pins[i] # tag
        <5>1. i \in 1 .. Ahead
          BY <3>2, <3>4, <4>3
        <5>2. validated[Pins[i]] # Absent
          BY <1>15, <3>1, <5>1 DEF StartupSmoke
        <5> QED BY <2>2, <4>3, <5>2
      <4> QED BY <4>2, <4>3
    <3>6. \A i \in 1 .. Len(plan') : plan'[i] = Pins[Ahead' + i]
      <4>1. SUFFICES ASSUME NEW i \in 1 .. Len(plan') PROVE plan[i + 1] = Pins[Ahead + 1 + i]
        BY <3>3, <3>4
      <4>2. i + 1 \in 1 .. Len(plan) /\ Ahead + 1 + i = Ahead + (i + 1)
        BY <3>3, <3>4
      <4>3. \A k \in 1 .. Len(plan) : plan[k] = Pins[Ahead + k]
        BY <1>15, <3>1 DEF StartupSmoke
      <4> QED BY <4>2, <4>3
    <3>7. Len(plan') <= Len(Pins)
      BY <1>15, <3>1, <3>3 DEF StartupSmoke
    <3>8. state' = "done" => Ahead' = Len(Pins)
      <4>1. state' = "done" => plan' = <<>>
        BY <2>2 DEF Prepared, To
      <4>2. Len(plan) \in Nat /\ Len(Pins) \in Nat
        OBVIOUS
      <4>3. Len(<<>>) = 0
        OBVIOUS
      <4>4. plan' = <<>> => Len(plan') = 0
        BY <4>3
      <4>5. Len(plan') = 0 => Ahead' = Len(Pins)
        BY <4>2 DEF Ahead
      <4> QED BY <4>1, <4>4, <4>5
    <3> QED BY <3>5, <3>6, <3>7, <3>8
  <2> QED BY <1>15, <2>1, <2>2 DEF StartupSmoke
<1> QED BY <1>1, <1>2, <1>3, <1>4, <1>5, <1>6, <1>7, <1>8, <1>9, <1>10, <1>11, <1>12, <1>13, <1>14, <1>15, CoresNext DEF CoresNext

\* The inductive invariant holds initially and is kept.
LEMMA BinariesStarted == CoresInit => CoresInv
<1> SUFFICES ASSUME CoresInit PROVE CoresInv
  OBVIOUS
<1>1. BinaryTypes
  <2>1. DOMAIN cache = Paths /\ \A p \in Paths : cache[p] = NoEntry
    BY DEF CoresInit, Paths
  <2>2. DOMAIN NoEntry = {"executable", "metadata"}
    BY DEF NoEntry
  <2>3. DOMAIN files = Outputs /\ DOMAIN validated = Tags /\ DOMAIN upstream = Tags
    BY DEF CoresInit, Outputs
  <2>4. state \in States /\ state \in Ended /\ script \in BOOLEAN /\ runs \in Nat
    BY DEF CoresInit, States, Ended
  <2>5. plan = <<>>
    BY DEF CoresInit
  <2>6. <<>> \in Seq(Tags)
    OBVIOUS
  <2> QED BY <2>1, <2>2, <2>3, <2>4, <2>5, <2>6 DEF BinaryTypes
<1>2. UpstreamInv
  BY DEF CoresInit, UpstreamInv, Published, Digests
<1>3. CacheInv
  BY DEF CoresInit, CacheInv, NoEntry, Paths
<1>4. CallInv
  BY DEF CoresInit, CallInv, Calling
<1>5. PlanInv
  BY DEF CoresInit, PlanInv, Ended
<1> QED BY <1>1, <1>2, <1>3, <1>4, <1>5 DEF CoresInv

LEMMA BinariesKept == CoresInv /\ [CoresNext]_coreVars => CoresInv'
<1>1. CoresInv /\ CoresNext => CoresInv'
  BY BinaryTypesKept, UpstreamKept, CacheKept, CallKept, PlanKept DEF CoresInv
<1>2. CoresInv /\ UNCHANGED coreVars => CoresInv'
  <2>1. SUFFICES ASSUME CoresInv, UNCHANGED coreVars PROVE CoresInv'
    OBVIOUS
  <2>2. UNCHANGED <<upstream, published, cache, files, runs, script, plan, state, asset, raw, validated>>
    BY <2>1 DEF coreVars, call
  <2> QED BY <2>1, <2>2 DEF CoresInv, BinaryTypes, UpstreamInv, CacheInv, CallInv, PlanInv, Published, Ahead, tag, Output
<1> QED BY <1>1, <1>2

\* mihomo_download.py: the cache, the files and the call agree on what was
\* verified, after any failure or interruption.
THEOREM CoresInvariant == CoresSpec => []CoresInv
<1>1. CoresInit => CoresInv
  BY BinariesStarted
<1>2. CoresInv /\ [CoresNext]_coreVars => CoresInv'
  BY BinariesKept
<1> QED BY <1>1, <1>2, PTL DEF CoresSpec

\* mihomo_download.py, mihomo_matrix_application.py: whatever is in the cache,
\* a candidate is validated with executables whose digest GitHub published
\* under that very tag, and passes only after every pinned core.
THEOREM BinariesVerified == CoresSpec => []BinariesAreVerified
<1>1. CoresInv => BinariesAreVerified
  <2>1. SUFFICES ASSUME CoresInv PROVE BinariesAreVerified
    OBVIOUS
  <2>2. \A t \in Tags : validated[t] # Absent => <<t, validated[t]>> \in published
    BY <2>1 DEF CoresInv, CallInv, Published
  <2>3. ASSUME state = "done", runs > 0, ~script, NEW t \in PinnedTags PROVE validated[t] # Absent
    <3>1. PICK i \in 1 .. Len(Pins) : t = Pins[i]
      BY <2>1, CoresAssumption DEF PinnedTags
    <3> QED BY <2>1, <2>3, <3>1 DEF CoresInv, PlanInv
  <2> QED BY <2>2, <2>3 DEF BinariesAreVerified
<1>2. CoresSpec => []CoresInv
  BY CoresInvariant
<1> QED BY <1>1, <1>2, PTL

---------------------------------------------------------------------------
(* The probe processes: ProbeCores.                                          *)

Live == {"wait", "load", "sample", "next", "select", "confirm", "probe"}

CoreTypes ==
  /\ round \in {"ai", "transport"}
  /\ DOMAIN pc = All /\ DOMAIN mixed = All /\ DOMAIN controller = All
  /\ DOMAIN now = All /\ DOMAIN node = All /\ DOMAIN todo = All /\ DOMAIN ended = All
  /\ DOMAIN bound = Ports /\ DOMAIN trial = ProbedNodes /\ DOMAIN through = ProbedNodes
  /\ \A s \in All : todo[s] \subseteq ProbedNodes

\* A shard has its two ports from the start of its core on.
HandedInv == \A s \in All :
  /\ pc[s] = "mixed" => mixed[s] = Unset /\ controller[s] = Unset
  /\ pc[s] = "controller" => mixed[s] \in Ports /\ controller[s] = Unset
  /\ pc[s] \in Live \cup {"start"} => mixed[s] \in Ports /\ controller[s] \in Ports

\* What was handed out is held by one shard, for one purpose.
HeldApart == \A s, t \in All : pc[s] # "ended" /\ pc[t] # "ended" =>
  /\ mixed[s] # Unset => mixed[s] # controller[t] /\ (mixed[s] = mixed[t] => s = t)
  /\ controller[s] # Unset /\ controller[s] = controller[t] => s = t

\* Whoever listens on a port was handed it, and has not ended.
BoundInv == \A p \in Ports : \A s \in All :
  /\ bound[p] = <<s, "mixed">> => pc[s] \in Live /\ mixed[s] = p
  /\ bound[p] = <<s, "controller">> => pc[s] \in Live /\ controller[s] = p

\* A shard of the other kind of round does nothing, one with a result has ended.
EndedInv == \A s \in All :
  /\ s \notin Active => pc[s] = "mixed"
  /\ ended[s] # "none" => pc[s] = "ended"

PortsInv == CoreTypes /\ HandedInv /\ HeldApart /\ BoundInv /\ EndedInv

\* From the answer of the selector to the request, the node stays put.
SelectedInv == \A s \in All :
  /\ pc[s] \in {"select", "confirm", "probe"} => node[s] \in ProbedNodes
  /\ pc[s] = "probe" => now[s] = node[s]

ProbeInv == PortsInv /\ SelectedInv /\ VerdictsAreOfTheNode

---------------------------------------------------------------------------
(* Ports.                                                                    *)

LEMMA StartShape ==
  /\ Start.pc = [s \in All |-> "mixed"] /\ Start.todo = [s \in All |-> ShardNodes[s]]
  /\ Start.nothing = [s \in All |-> Unset] /\ Start.notYet = [s \in All |-> "none"]
  /\ Start.unjudged = [n \in ProbedNodes |-> "none"] /\ Start.through = [n \in ProbedNodes |-> Unset]
BY DEF Start

LEMMA ActiveShards == Active \subseteq All
BY DEF Active, All

\* A shard that ends leaves the shape of the state alone.
LEMMA EndsTypes ==
  ASSUME CoreTypes, NEW s \in Active, NEW how, Ends(s, how)
  PROVE  CoreTypes'
BY DEF Ends, Released, Round, CoreTypes, judged, All

\* Every step keeps the shape of the state.
LEMMA TypesKept ==
  ASSUME CoreTypes, ProbeNext
  PROVE  CoreTypes'
<1> USE DEF CoreTypes, All, judged
<1>1. ASSUME NEW s \in Active, TakeMixed(s) PROVE CoreTypes'
  BY <1>1 DEF TakeMixed, Step, Round, FreeTcpPort
<1>2. ASSUME NEW s \in Active, TakeController(s) PROVE CoreTypes'
  BY <1>2 DEF TakeController, Step, Round, FreeTcpPort
<1>3. ASSUME NEW s \in Active, ConfigTestFails(s) PROVE CoreTypes'
  BY <1>3, EndsTypes DEF ConfigTestFails
<1>4. ASSUME NEW s \in Active, StartCore(s) PROVE CoreTypes'
  BY <1>4 DEF StartCore, Step, Round, Listen
<1>5. ASSUME NEW s \in Active, CoreLoads(s) PROVE CoreTypes'
  BY <1>5 DEF CoreLoads, Round
<1>6. ASSUME NEW s \in Active, CoreExits(s) PROVE CoreTypes'
  BY <1>6 DEF CoreExits, Released
<1>7. ASSUME NEW s \in Active, WaitFails(s) PROVE CoreTypes'
  BY <1>7, EndsTypes DEF WaitFails
<1>8. ASSUME NEW s \in Active, ControllerReady(s) PROVE CoreTypes'
  BY <1>8 DEF ControllerReady, Step, Round
<1>9. ASSUME NEW s \in Active, MembersReady(s) PROVE CoreTypes'
  BY <1>9 DEF MembersReady, Step, Round
<1>10. ASSUME NEW s \in Active, SampleGroup(s) PROVE CoreTypes'
  BY <1>10, EndsTypes DEF SampleGroup, Round
<1>11. ASSUME NEW s \in Active, TakeNode(s) PROVE CoreTypes'
  BY <1>11 DEF TakeNode, Step, Round
<1>12. ASSUME NEW s \in Active, Finish(s) PROVE CoreTypes'
  BY <1>12, EndsTypes DEF Finish
<1>13. ASSUME NEW s \in Active, Select(s) PROVE CoreTypes'
  BY <1>13 DEF Select, Step, Round, Switched
<1>14. ASSUME NEW s \in Active, SelectUnanswered(s) PROVE CoreTypes'
  BY <1>14 DEF SelectUnanswered, Round, Switched
<1>15. ASSUME NEW s \in Active, SelectFails(s) PROVE CoreTypes'
  BY <1>15 DEF SelectFails, Record, Round, Switched
<1>16. ASSUME NEW s \in Active, Confirm(s) PROVE CoreTypes'
  BY <1>16 DEF Confirm, Round
<1>17. ASSUME NEW s \in Active, Request(s) PROVE CoreTypes'
  BY <1>17 DEF Request, Record, Round
<1>18. CASE Collect
  BY <1>18 DEF Collect, Collected, shardVars, judged
<1>19. CASE Repeat
  BY <1>19, StartShape, ProbeAssumption DEF Repeat, Collected, ProbedNodes
<1>20. CASE GiveUp
  BY <1>20 DEF GiveUp, Collected, shardVars, judged
<1> QED
  BY <1>1, <1>2, <1>3, <1>4, <1>5, <1>6, <1>7, <1>8, <1>9, <1>10, <1>11, <1>12,
     <1>13, <1>14, <1>15, <1>16, <1>17, <1>18, <1>19, <1>20
  DEF ProbeNext, ShardNext

\* Ports are handed out one after the other.
LEMMA HandedKept ==
  ASSUME CoreTypes, HandedInv, ProbeNext
  PROVE  HandedInv'
<1> USE DEF CoreTypes, HandedInv, Live, Active, All, Ends, Round
<1>1. ASSUME NEW s \in Active, TakeMixed(s) PROVE HandedInv'
  BY <1>1 DEF TakeMixed, Step, Round, FreeTcpPort
<1>2. ASSUME NEW s \in Active, TakeController(s) PROVE HandedInv'
  BY <1>2 DEF TakeController, Step, Round, FreeTcpPort
<1>3. ASSUME NEW s \in Active, ConfigTestFails(s) PROVE HandedInv'
  BY <1>3 DEF ConfigTestFails
<1>4. ASSUME NEW s \in Active, StartCore(s) PROVE HandedInv'
  BY <1>4 DEF StartCore, Step, Round, Listen
<1>5. ASSUME NEW s \in Active, CoreLoads(s) PROVE HandedInv'
  BY <1>5 DEF CoreLoads, Round
<1>6. ASSUME NEW s \in Active, CoreExits(s) PROVE HandedInv'
  BY <1>6 DEF CoreExits, Released
<1>7. ASSUME NEW s \in Active, WaitFails(s) PROVE HandedInv'
  BY <1>7 DEF WaitFails
<1>8. ASSUME NEW s \in Active, ControllerReady(s) PROVE HandedInv'
  BY <1>8 DEF ControllerReady, Step, Round
<1>9. ASSUME NEW s \in Active, MembersReady(s) PROVE HandedInv'
  BY <1>9 DEF MembersReady, Step, Round
<1>10. ASSUME NEW s \in Active, SampleGroup(s) PROVE HandedInv'
  BY <1>10 DEF SampleGroup, Round
<1>11. ASSUME NEW s \in Active, TakeNode(s) PROVE HandedInv'
  BY <1>11 DEF TakeNode, Step, Round
<1>12. ASSUME NEW s \in Active, Finish(s) PROVE HandedInv'
  BY <1>12 DEF Finish
<1>13. ASSUME NEW s \in Active, Select(s) PROVE HandedInv'
  BY <1>13 DEF Select, Step, Round, Switched
<1>14. ASSUME NEW s \in Active, SelectUnanswered(s) PROVE HandedInv'
  BY <1>14 DEF SelectUnanswered, Round, Switched
<1>15. ASSUME NEW s \in Active, SelectFails(s) PROVE HandedInv'
  BY <1>15 DEF SelectFails, Record, Round, Switched
<1>16. ASSUME NEW s \in Active, Confirm(s) PROVE HandedInv'
  BY <1>16 DEF Confirm, Round
<1>17. ASSUME NEW s \in Active, Request(s) PROVE HandedInv'
  BY <1>17 DEF Request, Record, Round
<1>18. CASE Collect
  BY <1>18 DEF Collect, Collected, shardVars, judged
<1>19. CASE Repeat
  BY <1>19 DEF Repeat, Collected, Start
<1>20. CASE GiveUp
  BY <1>20 DEF GiveUp, Collected, shardVars, judged
<1> QED
  BY <1>1, <1>2, <1>3, <1>4, <1>5, <1>6, <1>7, <1>8, <1>9, <1>10, <1>11, <1>12,
     <1>13, <1>14, <1>15, <1>16, <1>17, <1>18, <1>19, <1>20
  DEF ProbeNext, ShardNext

\* A port is handed out once.
LEMMA ApartKept ==
  ASSUME Reserved, CoreTypes, HandedInv, HeldApart, ProbeNext
  PROVE  HeldApart'
<1> USE ProbeAssumption DEF CoreTypes, HandedInv, HeldApart, Live, Active, All, Ends, Round
<1>1. ASSUME NEW s \in Active, TakeMixed(s) PROVE HeldApart'
  BY <1>1 DEF TakeMixed, Step, Round, FreeTcpPort
<1>2. ASSUME NEW s \in Active, TakeController(s) PROVE HeldApart'
  BY <1>2 DEF TakeController, Step, Round, FreeTcpPort
<1>3. ASSUME NEW s \in Active, ConfigTestFails(s) PROVE HeldApart'
  BY <1>3 DEF ConfigTestFails
<1>4. ASSUME NEW s \in Active, StartCore(s) PROVE HeldApart'
  BY <1>4 DEF StartCore, Step, Round, Listen
<1>5. ASSUME NEW s \in Active, CoreLoads(s) PROVE HeldApart'
  BY <1>5 DEF CoreLoads, Round
<1>6. ASSUME NEW s \in Active, CoreExits(s) PROVE HeldApart'
  BY <1>6 DEF CoreExits, Released
<1>7. ASSUME NEW s \in Active, WaitFails(s) PROVE HeldApart'
  BY <1>7 DEF WaitFails
<1>8. ASSUME NEW s \in Active, ControllerReady(s) PROVE HeldApart'
  BY <1>8 DEF ControllerReady, Step, Round
<1>9. ASSUME NEW s \in Active, MembersReady(s) PROVE HeldApart'
  BY <1>9 DEF MembersReady, Step, Round
<1>10. ASSUME NEW s \in Active, SampleGroup(s) PROVE HeldApart'
  BY <1>10 DEF SampleGroup, Round
<1>11. ASSUME NEW s \in Active, TakeNode(s) PROVE HeldApart'
  BY <1>11 DEF TakeNode, Step, Round
<1>12. ASSUME NEW s \in Active, Finish(s) PROVE HeldApart'
  BY <1>12 DEF Finish
<1>13. ASSUME NEW s \in Active, Select(s) PROVE HeldApart'
  BY <1>13 DEF Select, Step, Round, Switched
<1>14. ASSUME NEW s \in Active, SelectUnanswered(s) PROVE HeldApart'
  BY <1>14 DEF SelectUnanswered, Round, Switched
<1>15. ASSUME NEW s \in Active, SelectFails(s) PROVE HeldApart'
  BY <1>15 DEF SelectFails, Record, Round, Switched
<1>16. ASSUME NEW s \in Active, Confirm(s) PROVE HeldApart'
  BY <1>16 DEF Confirm, Round
<1>17. ASSUME NEW s \in Active, Request(s) PROVE HeldApart'
  BY <1>17 DEF Request, Record, Round
<1>18. CASE Collect
  BY <1>18 DEF Collect, Collected, shardVars, judged
<1>19. CASE Repeat
  BY <1>19 DEF Repeat, Collected, Start
<1>20. CASE GiveUp
  BY <1>20 DEF GiveUp, Collected, shardVars, judged
<1> QED
  BY <1>1, <1>2, <1>3, <1>4, <1>5, <1>6, <1>7, <1>8, <1>9, <1>10, <1>11, <1>12,
     <1>13, <1>14, <1>15, <1>16, <1>17, <1>18, <1>19, <1>20
  DEF ProbeNext, ShardNext

\* A shard of the other round never moves.
LEMMA EndedKept ==
  ASSUME CoreTypes, EndedInv, ProbeNext
  PROVE  EndedInv'
<1> USE DEF CoreTypes, EndedInv, Active, All, Ends, Round
<1>1. ASSUME NEW s \in Active, TakeMixed(s) PROVE EndedInv'
  BY <1>1 DEF TakeMixed, Step, Round, FreeTcpPort
<1>2. ASSUME NEW s \in Active, TakeController(s) PROVE EndedInv'
  BY <1>2 DEF TakeController, Step, Round, FreeTcpPort
<1>3. ASSUME NEW s \in Active, ConfigTestFails(s) PROVE EndedInv'
  BY <1>3 DEF ConfigTestFails
<1>4. ASSUME NEW s \in Active, StartCore(s) PROVE EndedInv'
  BY <1>4 DEF StartCore, Step, Round, Listen
<1>5. ASSUME NEW s \in Active, CoreLoads(s) PROVE EndedInv'
  BY <1>5 DEF CoreLoads, Round
<1>6. ASSUME NEW s \in Active, CoreExits(s) PROVE EndedInv'
  BY <1>6 DEF CoreExits, Released
<1>7. ASSUME NEW s \in Active, WaitFails(s) PROVE EndedInv'
  BY <1>7 DEF WaitFails
<1>8. ASSUME NEW s \in Active, ControllerReady(s) PROVE EndedInv'
  BY <1>8 DEF ControllerReady, Step, Round
<1>9. ASSUME NEW s \in Active, MembersReady(s) PROVE EndedInv'
  BY <1>9 DEF MembersReady, Step, Round
<1>10. ASSUME NEW s \in Active, SampleGroup(s) PROVE EndedInv'
  BY <1>10 DEF SampleGroup, Round
<1>11. ASSUME NEW s \in Active, TakeNode(s) PROVE EndedInv'
  BY <1>11 DEF TakeNode, Step, Round
<1>12. ASSUME NEW s \in Active, Finish(s) PROVE EndedInv'
  BY <1>12 DEF Finish
<1>13. ASSUME NEW s \in Active, Select(s) PROVE EndedInv'
  BY <1>13 DEF Select, Step, Round, Switched
<1>14. ASSUME NEW s \in Active, SelectUnanswered(s) PROVE EndedInv'
  BY <1>14 DEF SelectUnanswered, Round, Switched
<1>15. ASSUME NEW s \in Active, SelectFails(s) PROVE EndedInv'
  BY <1>15 DEF SelectFails, Record, Round, Switched
<1>16. ASSUME NEW s \in Active, Confirm(s) PROVE EndedInv'
  BY <1>16 DEF Confirm, Round
<1>17. ASSUME NEW s \in Active, Request(s) PROVE EndedInv'
  BY <1>17 DEF Request, Record, Round
<1>18. CASE Collect
  BY <1>18 DEF Collect, Collected, shardVars, judged
<1>19. CASE Repeat
  BY <1>19 DEF Repeat, Collected, Start
<1>20. CASE GiveUp
  BY <1>20 DEF GiveUp, Collected, shardVars, judged
<1> QED
  BY <1>1, <1>2, <1>3, <1>4, <1>5, <1>6, <1>7, <1>8, <1>9, <1>10, <1>11, <1>12,
     <1>13, <1>14, <1>15, <1>16, <1>17, <1>18, <1>19, <1>20
  DEF ProbeNext, ShardNext

\* A core that is gone gave up its ports and no others.
LEMMA ReleasedPorts ==
  ASSUME NEW s, NEW p \in Ports, NEW t \in All, NEW role \in {"mixed", "controller"},
         Released(s)[p] = <<t, role>>
  PROVE  bound[p] = <<t, role>> /\ t # s
<1>1. Unset # <<t, role>>
  BY ProbeAssumption
<1>2. bound[p] = <<t, role>> /\ ~(bound[p] # Unset /\ bound[p][1] = s)
  BY <1>1 DEF Released
<1>3. <<t, role>>[1] = t
  OBVIOUS
<1> QED
  BY <1>1, <1>2, <1>3

\* The core of a shard is gone before the shard has ended.
LEMMA EndsBound ==
  ASSUME CoreTypes, BoundInv, NEW s \in Active, NEW how, Ends(s, how)
  PROVE  BoundInv'
<1>1. \A t \in All : pc'[t] = (IF t = s THEN "ended" ELSE pc[t]) /\ mixed'[t] = mixed[t] /\ controller'[t] = controller[t]
  BY ActiveShards DEF Ends, CoreTypes
<1>2. bound' = Released(s)
  BY DEF Ends
<1>3. \A p \in Ports, t \in All, role \in {"mixed", "controller"} :
        bound'[p] = <<t, role>> => bound[p] = <<t, role>> /\ t # s
  BY <1>2, ReleasedPorts
<1> QED
  BY <1>1, <1>3 DEF BoundInv

\* A core listens on the ports of its shard.
LEMMA BoundKept ==
  ASSUME CoreTypes, HandedInv, BoundInv, EndedInv, ProbeNext
  PROVE  BoundInv'
<1> USE ProbeAssumption DEF CoreTypes, HandedInv, BoundInv, EndedInv, Live, Active, All
<1>1. ASSUME NEW s \in Active, TakeMixed(s) PROVE BoundInv'
  BY <1>1 DEF TakeMixed, Step, Round, FreeTcpPort
<1>2. ASSUME NEW s \in Active, TakeController(s) PROVE BoundInv'
  BY <1>2 DEF TakeController, Step, Round, FreeTcpPort
<1>3. ASSUME NEW s \in Active, ConfigTestFails(s) PROVE BoundInv'
  BY <1>3, EndsBound DEF ConfigTestFails
<1>4. ASSUME NEW s \in Active, StartCore(s) PROVE BoundInv'
  BY <1>4 DEF StartCore, Step, Round, Listen
<1>5. ASSUME NEW s \in Active, CoreLoads(s) PROVE BoundInv'
  BY <1>5 DEF CoreLoads, Round
<1>6. ASSUME NEW s \in Active, CoreExits(s) PROVE BoundInv'
  BY <1>6, ReleasedPorts DEF CoreExits
<1>7. ASSUME NEW s \in Active, WaitFails(s) PROVE BoundInv'
  BY <1>7, EndsBound DEF WaitFails
<1>8. ASSUME NEW s \in Active, ControllerReady(s) PROVE BoundInv'
  BY <1>8 DEF ControllerReady, Step, Round
<1>9. ASSUME NEW s \in Active, MembersReady(s) PROVE BoundInv'
  BY <1>9 DEF MembersReady, Step, Round
<1>10. ASSUME NEW s \in Active, SampleGroup(s) PROVE BoundInv'
  BY <1>10, EndsBound DEF SampleGroup, Round
<1>11. ASSUME NEW s \in Active, TakeNode(s) PROVE BoundInv'
  BY <1>11 DEF TakeNode, Step, Round
<1>12. ASSUME NEW s \in Active, Finish(s) PROVE BoundInv'
  BY <1>12, EndsBound DEF Finish
<1>13. ASSUME NEW s \in Active, Select(s) PROVE BoundInv'
  BY <1>13 DEF Select, Step, Round, Switched
<1>14. ASSUME NEW s \in Active, SelectUnanswered(s) PROVE BoundInv'
  BY <1>14 DEF SelectUnanswered, Round, Switched
<1>15. ASSUME NEW s \in Active, SelectFails(s) PROVE BoundInv'
  BY <1>15 DEF SelectFails, Record, Round, Switched
<1>16. ASSUME NEW s \in Active, Confirm(s) PROVE BoundInv'
  BY <1>16 DEF Confirm, Round
<1>17. ASSUME NEW s \in Active, Request(s) PROVE BoundInv'
  BY <1>17 DEF Request, Record, Round
<1>18. CASE Collect
  BY <1>18 DEF Collect, Collected, shardVars
<1>19. CASE Repeat
  BY <1>19 DEF Repeat, Collected, Start
<1>20. CASE GiveUp
  BY <1>20 DEF GiveUp, Collected, shardVars
<1> QED
  BY <1>1, <1>2, <1>3, <1>4, <1>5, <1>6, <1>7, <1>8, <1>9, <1>10, <1>11, <1>12,
     <1>13, <1>14, <1>15, <1>16, <1>17, <1>18, <1>19, <1>20
  DEF ProbeNext, ShardNext

---------------------------------------------------------------------------
(* Verdicts.                                                                 *)

\* A shard that is at work talks to its own core, or to none.
LEMMA OwnCore ==
  ASSUME PortsInv, NEW s \in All, pc[s] \in Live
  PROVE  Controller(s) \subseteq {s} /\ Listening(mixed[s], "mixed") \subseteq {s}
<1>1. /\ mixed[s] \in Ports /\ controller[s] \in Ports
      /\ mixed[s] # Unset /\ controller[s] # Unset /\ pc[s] # "ended"
  BY ProbeAssumption DEF PortsInv, HandedInv, Live
<1>2. ASSUME NEW t \in All, bound[controller[s]] = <<t, "controller">> PROVE t = s
  <2>1. pc[t] \in Live /\ controller[t] = controller[s]
    BY <1>1, <1>2 DEF PortsInv, BoundInv
  <2> QED BY <1>1, <2>1 DEF PortsInv, HeldApart, Live
<1>3. ASSUME NEW t \in All, bound[mixed[s]] = <<t, "mixed">> PROVE t = s
  <2>1. pc[t] \in Live /\ mixed[t] = mixed[s]
    BY <1>1, <1>3 DEF PortsInv, BoundInv
  <2> QED BY <1>1, <2>1 DEF PortsInv, HeldApart, Live
<1> QED
  BY <1>2, <1>3 DEF Controller, Listening

\* An update of the selector reaches the core of the shard that sent it.
LEMMA SwitchedIsOwn ==
  ASSUME PortsInv, NEW s \in All, pc[s] \in Live, now' \in Switched(s)
  PROVE  now' = [now EXCEPT ![s] = node[s]]
<1>1. PICK t \in Controller(s) : now' = [now EXCEPT ![t] = node[s]]
  BY DEF Switched
<1> QED
  BY <1>1, OwnCore

\* The node that was confirmed is the node of the request.
LEMMA SelectedKept ==
  ASSUME PortsInv, SelectedInv, ProbeNext
  PROVE  SelectedInv'
<1> USE DEF PortsInv, CoreTypes, SelectedInv, Live, Ends, Round
<1>1. ASSUME NEW s \in Active, TakeMixed(s) PROVE SelectedInv'
  BY <1>1, ActiveShards DEF TakeMixed, Step
<1>2. ASSUME NEW s \in Active, TakeController(s) PROVE SelectedInv'
  BY <1>2, ActiveShards DEF TakeController, Step
<1>3. ASSUME NEW s \in Active, ConfigTestFails(s) PROVE SelectedInv'
  BY <1>3, ActiveShards DEF ConfigTestFails
<1>4. ASSUME NEW s \in Active, StartCore(s) PROVE SelectedInv'
  BY <1>4, ActiveShards DEF StartCore, Step
<1>5. ASSUME NEW s \in Active, CoreLoads(s) PROVE SelectedInv'
  BY <1>5, ActiveShards, ProbeAssumption DEF CoreLoads
<1>6. ASSUME NEW s \in Active, CoreExits(s) PROVE SelectedInv'
  BY <1>6, ActiveShards DEF CoreExits
<1>7. ASSUME NEW s \in Active, WaitFails(s) PROVE SelectedInv'
  BY <1>7, ActiveShards DEF WaitFails
<1>8. ASSUME NEW s \in Active, ControllerReady(s) PROVE SelectedInv'
  BY <1>8, ActiveShards DEF ControllerReady, Step
<1>9. ASSUME NEW s \in Active, MembersReady(s) PROVE SelectedInv'
  BY <1>9, ActiveShards DEF MembersReady, Step
<1>10. ASSUME NEW s \in Active, SampleGroup(s) PROVE SelectedInv'
  BY <1>10, ActiveShards DEF SampleGroup, Round
<1>11. ASSUME NEW s \in Active, TakeNode(s) PROVE SelectedInv'
  BY <1>11, ActiveShards DEF TakeNode, Step
<1>12. ASSUME NEW s \in Active, Finish(s) PROVE SelectedInv'
  BY <1>12, ActiveShards DEF Finish
<1>13. ASSUME NEW s \in Active, Select(s) PROVE SelectedInv'
  BY <1>13, ActiveShards, SwitchedIsOwn DEF Select, Step
<1>14. ASSUME NEW s \in Active, SelectUnanswered(s) PROVE SelectedInv'
  BY <1>14, ActiveShards, SwitchedIsOwn DEF SelectUnanswered
<1>15. ASSUME NEW s \in Active, SelectFails(s) PROVE SelectedInv'
  BY <1>15, ActiveShards, SwitchedIsOwn DEF SelectFails, Record
<1>16. ASSUME NEW s \in Active, Confirm(s) PROVE SelectedInv'
  BY <1>16, ActiveShards, OwnCore DEF Confirm
<1>17. ASSUME NEW s \in Active, Request(s) PROVE SelectedInv'
  BY <1>17, ActiveShards DEF Request, Record
<1>18. CASE Collect
  BY <1>18 DEF Collect, shardVars
<1>19. CASE Repeat
  BY <1>19, StartShape DEF Repeat
<1>20. CASE GiveUp
  BY <1>20 DEF GiveUp, shardVars
<1> QED
  BY <1>1, <1>2, <1>3, <1>4, <1>5, <1>6, <1>7, <1>8, <1>9, <1>10, <1>11, <1>12,
     <1>13, <1>14, <1>15, <1>16, <1>17, <1>18, <1>19, <1>20
  DEF ProbeNext, ShardNext

\* A request goes through the node of the verdict.
LEMMA VerdictsKept ==
  ASSUME PortsInv, SelectedInv, VerdictsAreOfTheNode, ProbeNext
  PROVE  VerdictsAreOfTheNode'
<1> USE DEF VerdictsAreOfTheNode, judged, Ends, Round
<1>1. ASSUME NEW s \in Active, TakeMixed(s) PROVE VerdictsAreOfTheNode'
  BY <1>1 DEF TakeMixed, Step, Round, FreeTcpPort
<1>2. ASSUME NEW s \in Active, TakeController(s) PROVE VerdictsAreOfTheNode'
  BY <1>2 DEF TakeController, Step, Round, FreeTcpPort
<1>3. ASSUME NEW s \in Active, ConfigTestFails(s) PROVE VerdictsAreOfTheNode'
  BY <1>3 DEF ConfigTestFails
<1>4. ASSUME NEW s \in Active, StartCore(s) PROVE VerdictsAreOfTheNode'
  BY <1>4 DEF StartCore, Step, Round, Listen
<1>5. ASSUME NEW s \in Active, CoreLoads(s) PROVE VerdictsAreOfTheNode'
  BY <1>5 DEF CoreLoads, Round
<1>6. ASSUME NEW s \in Active, CoreExits(s) PROVE VerdictsAreOfTheNode'
  BY <1>6 DEF CoreExits, Released
<1>7. ASSUME NEW s \in Active, WaitFails(s) PROVE VerdictsAreOfTheNode'
  BY <1>7 DEF WaitFails
<1>8. ASSUME NEW s \in Active, ControllerReady(s) PROVE VerdictsAreOfTheNode'
  BY <1>8 DEF ControllerReady, Step, Round
<1>9. ASSUME NEW s \in Active, MembersReady(s) PROVE VerdictsAreOfTheNode'
  BY <1>9 DEF MembersReady, Step, Round
<1>10. ASSUME NEW s \in Active, SampleGroup(s) PROVE VerdictsAreOfTheNode'
  BY <1>10 DEF SampleGroup, Round
<1>11. ASSUME NEW s \in Active, TakeNode(s) PROVE VerdictsAreOfTheNode'
  BY <1>11 DEF TakeNode, Step, Round
<1>12. ASSUME NEW s \in Active, Finish(s) PROVE VerdictsAreOfTheNode'
  BY <1>12 DEF Finish
<1>13. ASSUME NEW s \in Active, Select(s) PROVE VerdictsAreOfTheNode'
  BY <1>13 DEF Select, Step, Round, Switched
<1>14. ASSUME NEW s \in Active, SelectUnanswered(s) PROVE VerdictsAreOfTheNode'
  BY <1>14 DEF SelectUnanswered, Round, Switched
<1>15. ASSUME NEW s \in Active, SelectFails(s) PROVE VerdictsAreOfTheNode'
  BY <1>15 DEF SelectFails, Record, PortsInv, CoreTypes
<1>16. ASSUME NEW s \in Active, Confirm(s) PROVE VerdictsAreOfTheNode'
  BY <1>16 DEF Confirm, Round
<1>17. ASSUME NEW s \in Active, Request(s) PROVE VerdictsAreOfTheNode'
  <2>1. node[s] \in ProbedNodes /\ now[s] = node[s] /\ pc[s] \in Live
    BY <1>17, ActiveShards DEF Request, SelectedInv, Live
  <2>2. PICK via \in IF Listening(mixed[s], "mixed") = {} THEN {Unset} ELSE {now[t] : t \in Listening(mixed[s], "mixed")} :
        \E passes \in IF via \in Working THEN BOOLEAN ELSE {FALSE} :
          Record(s, IF passes THEN "passed" ELSE "failed", <<attempt, via>>)
    BY <1>17 DEF Request
  <2>3. via \in Working => via = node[s]
    BY <2>1, <2>2, OwnCore, ActiveShards, ProbeAssumption
  <2>4. PICK passes \in IF via \in Working THEN BOOLEAN ELSE {FALSE} :
          Record(s, IF passes THEN "passed" ELSE "failed", <<attempt, via>>)
    BY <2>2
  <2>5. CASE via \in Working /\ passes = TRUE
    BY <2>1, <2>3, <2>4, <2>5 DEF Record, PortsInv, CoreTypes
  <2>6. CASE passes = FALSE
    BY <2>1, <2>4, <2>6 DEF Record, PortsInv, CoreTypes
  <2> QED
    BY <2>4, <2>5, <2>6
<1>18. CASE Collect
  BY <1>18 DEF Collect
<1>19. CASE Repeat
  BY <1>19, StartShape DEF Repeat
<1>20. CASE GiveUp
  BY <1>20 DEF GiveUp
<1> QED
  BY <1>1, <1>2, <1>3, <1>4, <1>5, <1>6, <1>7, <1>8, <1>9, <1>10, <1>11, <1>12,
     <1>13, <1>14, <1>15, <1>16, <1>17, <1>18, <1>19, <1>20
  DEF ProbeNext, ShardNext

\* The round begins with nothing handed out and nothing judged.
LEMMA Started ==
  ASSUME ProbeInit
  PROVE  ProbeInv
<1> USE StartShape DEF ProbeInit
<1>1. CoreTypes
  BY ProbeAssumption DEF CoreTypes, All, ProbedNodes
<1>2. HandedInv /\ HeldApart /\ EndedInv
  BY DEF HandedInv, HeldApart, EndedInv, Live
<1>3. BoundInv
  BY ProbeAssumption DEF BoundInv
<1>4. SelectedInv /\ VerdictsAreOfTheNode
  BY DEF SelectedInv, VerdictsAreOfTheNode
<1> QED
  BY <1>1, <1>2, <1>3, <1>4 DEF ProbeInv, PortsInv

\* The ports of the shards are apart, and every step keeps them so and every
\* verdict true.
THEOREM ProbesInvariant == Reserved => (ProbeSpec => []ProbeInv)
<1> SUFFICES ASSUME Reserved PROVE ProbeSpec => []ProbeInv
  OBVIOUS
<1>1. ProbeInit => ProbeInv
  BY Started
<1>2. ProbeInv /\ ProbeNext => ProbeInv'
  <2> SUFFICES ASSUME ProbeInv, ProbeNext PROVE ProbeInv'
    OBVIOUS
  <2>1. PortsInv /\ SelectedInv /\ VerdictsAreOfTheNode
    BY DEF ProbeInv
  <2>2. PortsInv'
    BY <2>1, TypesKept, HandedKept, ApartKept, BoundKept, EndedKept DEF PortsInv
  <2> QED
    BY <2>1, <2>2, SelectedKept, VerdictsKept DEF ProbeInv
<1>3. ProbeInv /\ UNCHANGED probeVars => ProbeInv'
  BY DEF ProbeInv, PortsInv, CoreTypes, HandedInv, HeldApart, BoundInv, EndedInv, SelectedInv, VerdictsAreOfTheNode,
         probeVars, shardVars, judged, Active, All
<1> QED
  BY <1>1, <1>2, <1>3, PTL DEF ProbeSpec

\* ai_qualification.py, transport_qualification.py: when no port is handed out
\* a second time while its probe runs, a node is admitted on a request that
\* went through that very node, in the attempt that counts.
THEOREM VerdictsSound == Reserved => (ProbeSpec => []VerdictsAreOfTheNode)
<1> SUFFICES ASSUME Reserved PROVE ProbeSpec => []VerdictsAreOfTheNode
  OBVIOUS
<1>1. ProbeInv => VerdictsAreOfTheNode
  BY DEF ProbeInv
<1> QED
  BY <1>1, ProbesInvariant, PTL
==============================================================================
