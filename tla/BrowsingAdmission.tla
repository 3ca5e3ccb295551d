------------------------- MODULE BrowsingAdmission -------------------------
(* The live browsing probe and what it does to a candidate:                  *)
(* browsing_qualification (what is probed, core quarantine, stability        *)
(* tiers), web_general_runtime and browsing_runtime (the two regional        *)
(* surfaces), the history preference, and how a failed stage is classified   *)
(* (qualification_reliability).                                              *)
EXTENDS EndpointAdmission

CONSTANTS MinPreferred,      \* _MIN_PREFERRED_STABLE_NODES
          ProbeAttempts,     \* samples of one browsing probe
          RequiredSuccesses  \* answered samples a qualified node needs

ASSUME BrowsingAssumption ==
  /\ {MinPreferred, ProbeAttempts} \subseteq Nat \ {0}
  /\ RequiredSuccesses \in 1..ProbeAttempts

---------------------------------------------------------------------------
(* The probe.                                                                *)

WebTiers(c) == {t \in DOMAIN c.tiers : t[1] = "web" /\ t[2] \in c.regions["web"]}
WebGeneralNames(c) == UNION {Members(c, t) : t \in WebTiers(c)}

\* One probe per node, whatever the names it has in browsing and shared
\* general providers.
Probed(c) == NodesOfKind(c.entries, "browsing") \cup WebGeneralNames(c)

\* Nodes one of whose configuration the core refuses to load. isolated is what
\* testing them one by one could tell.
PruneRejected(entries, isolated) == {e \in entries : e[2] \notin isolated}

CoreQuarantine(c, rejected, isolated) ==
  IF rejected \cap Probed(c) = {} THEN c ELSE [c EXCEPT !.entries = PruneRejected(c.entries, isolated)]

\* validate_generated_config refuses an automatic group that expands to no
\* node, unless it is an empty stable tier that says REJECT.
EmptyGroup(c) == \E g \in DOMAIN c.general : Selected(c, g) = {}
EmptyTier(c) == \E t \in DOMAIN c.tiers : t[2] \in c.regions[t[1]] /\ Members(c, t) = {} /\ ~c.tiers[t].reject

CoreQuarantineError(c, rejected, isolated) ==
  LET kept == CoreQuarantine(c, rejected, isolated)
  IN  IF rejected \cap Probed(c) = {} THEN ""
      ELSE IF isolated # {} /\ EmptiesProvider(c.entries, kept.entries) THEN "would empty a provider"
      ELSE IF isolated # {} /\ (EmptyGroup(kept) \/ EmptyTier(kept)) THEN "invalid"
      ELSE IF (rejected \cap Probed(c)) \ isolated # {} THEN "Mihomo rejected"
      ELSE ""

\* A sample is what one delay request of the group returned: the nodes with a
\* delay, or the failure of the request.
Sample(delays, outcome) == [delays |-> delays, outcome |-> outcome]
Answered(samples, n) == Cardinality({i \in DOMAIN samples : n \in samples[i].delays})

QualifiedIn(samples, names) == {n \in names : Answered(samples, n) >= RequiredSuccesses}
StableIn(samples, names) ==
  {n \in names : Answered(samples, n) = Len(samples) /\ Answered(samples, n) >= RequiredSuccesses}

\* The outcomes the diagnostics count for samples that were not answered.
FailedOutcomes(samples, names) ==
  {IF samples[i].outcome = "success" THEN "missing_delay" ELSE samples[i].outcome :
     i \in {j \in DOMAIN samples : names \ samples[j].delays # {}}}

---------------------------------------------------------------------------
(* Failures of the stage (qualification_reliability).                        *)

CoreReasons == {"Mihomo rejected", "Mihomo exited", "controller did not become ready",
                "providers did not populate", "failed to execute Mihomo", "failed to start Mihomo"}
ConfigurationReasons == {"requires", "invalid"}
TransientOutcomes == {"probe_error", "missing_delay", "controller_http_503"}

\* The diagnostics of a probe that ran: the nodes it tested, those some sample
\* answered for, and the outcomes of what was not answered.
NoDiagnostics == [tested |-> {}, answered |-> {}, outcomes |-> {}]
ProbeDiagnostics(samples, names) ==
  [tested |-> names, answered |-> {n \in names : Answered(samples, n) > 0},
   outcomes |-> FailedOutcomes(samples, names)]

WholeProbeTransient(d) ==
  /\ d.tested # {} /\ d.answered = {}
  /\ d.outcomes # {} /\ d.outcomes \subseteq TransientOutcomes

ClassifyStageFailure(at, why, diagnostics) ==
  IF why \in CoreReasons THEN "core_rejection"
  ELSE IF at \in {"browsing", "rewrite"} /\ WholeProbeTransient(diagnostics) THEN "transient"
  ELSE IF why \in ConfigurationReasons THEN "configuration"
  ELSE "policy_rejection"

---------------------------------------------------------------------------
(* The regional surfaces. One rule splits a region into its tiers; the two   *)
(* surfaces differ in where their nodes come from.                           *)

Filter(names) == [filter |-> names, reject |-> FALSE]
OtherwiseNone(names, default) == names
Otherwise(names, default) == IF names = {} THEN default ELSE names

\* 网页通用自动: history preference and stability in one step; the entries of
\* the shared general providers stay.
WebRegionNames(c, region, qualified) ==
  (Members(c, <<"web", region, "stable">>) \cup Members(c, <<"web", region, "reserve">>)) \cap qualified

\* A cap already on the stable tier (its filter, or REJECT) is kept.
WebEffectiveStable(cap, names, stable, preferred) ==
  LET allowed == names \cap cap.filter
      held    == stable \cap allowed
      best    == preferred \cap held
  IN  IF cap.reject THEN {}
      ELSE IF Cardinality(best) >= MinPreferred THEN best ELSE Otherwise(held, allowed)

RewriteWebGeneral(c, qualified, stable, preferred) ==
  LET names     == [r \in c.regions["web"] |-> WebRegionNames(c, r, qualified)]
      available == {r \in c.regions["web"] : names[r] # {}}
      effective == [r \in available |-> WebEffectiveStable(c.tiers[<<"web", r, "stable">>], names[r], stable, preferred)]
      tierOf(t) == IF t[3] = "stable" THEN [filter |-> effective[t[2]], reject |-> effective[t[2]] = {}]
                   ELSE Filter(Otherwise(names[t[2]] \ effective[t[2]], names[t[2]]))
  IN  [c EXCEPT !.regions["web"] = available,
                !.tiers = [t \in DOMAIN c.tiers |-> IF t[1] = "web" /\ t[2] \in available THEN tierOf(t) ELSE c.tiers[t]]]

\* 网页自动: nodes that did not qualify leave their provider, and a region
\* none of whose nodes qualified leaves the surface.
KeepQualified(entries, qualified) == {e \in entries : e[1][1] = "browsing" => e[2] \in qualified}

RewriteHardened(c, qualified, stable) ==
  LET entries   == KeepQualified(c.entries, qualified)
      kept(r)   == Payload(entries, <<"browsing", r>>)
      available == {r \in c.regions["browsing"] : kept(r) # {}}
      effective(r) == Otherwise(stable \cap kept(r), kept(r))
      tierOf(t) == Filter(IF t[3] = "stable" THEN effective(t[2])
                        ELSE Otherwise(kept(t[2]) \ effective(t[2]), kept(t[2])))
  IN  [c EXCEPT !.entries = entries,
                !.regions["browsing"] = available,
                !.tiers = [t \in DOMAIN c.tiers |-> IF t[1] = "browsing" /\ t[2] \in available THEN tierOf(t) ELSE c.tiers[t]]]

\* A region follows the history only when enough preferred nodes are left.
PreferredIn(c, region, qualified, stable, preferred) ==
  preferred \cap stable \cap qualified \cap Payload(c.entries, <<"browsing", region>>)
PreferringRegions(c, qualified, stable, preferred) ==
  {r \in c.regions["browsing"] : Cardinality(PreferredIn(c, r, qualified, stable, preferred)) >= MinPreferred}

ApplyHistoryPreference(c, qualified, stable, preferred) ==
  LET regions == PreferringRegions(c, qualified, stable, preferred)
      best(r) == PreferredIn(c, r, qualified, stable, preferred)
      rest(r) == Payload(c.entries, <<"browsing", r>>) \cap qualified
      tierOf(t) == Filter(IF t[3] = "stable" THEN best(t[2]) ELSE Otherwise(rest(t[2]) \ best(t[2]), rest(t[2])))
  IN  [c EXCEPT !.tiers = [t \in DOMAIN c.tiers |-> IF t[1] = "browsing" /\ t[2] \in regions THEN tierOf(t) ELSE c.tiers[t]]]

\* validate_browsing_public_surface and validate_web_general_runtime.
PublicSurfaceValid(c) ==
  /\ \A s \in Surfaces : c.regions[s] # {}
  /\ \A t \in DOMAIN c.tiers : t[2] \in c.regions[t[1]] =>
       /\ ProviderOf(t[1], t[2]) \in ProvidersIn(c.entries)
       /\ c.tiers[t].filter # {} \/ c.tiers[t].reject
=============================================================================
