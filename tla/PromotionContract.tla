------------------------- MODULE PromotionContract -------------------------
(* assess_promotion: whether a qualified candidate may replace what is live. *)
(* The candidate's inventory must meet absolute minima and must not have     *)
(* collapsed against the inventory of the live one, counted under today's    *)
(* source permissions. Ratios are compared as integers.                      *)
EXTENDS RuntimeTopology

CONSTANTS Services,        \* the registered service qualifications
          GuardPolicy      \* promotion-guard.yaml

\* The schema bounds a ratio by 1.
ASSUME GuardAssumption ==
  /\ GuardPolicy.floor[1] \in Nat /\ GuardPolicy.floor[2] \in Nat
  /\ GuardPolicy.floor[1] <= GuardPolicy.floor[2]

Uses == {Pools[i].use : i \in DOMAIN Pools}

Shards(providers, use) ==
  {p \in DOMAIN providers : \E i \in DOMAIN Pools : Pools[i].id = p[1] /\ Pools[i].use = use}

\* What collect_inventory counts, with the sources kept apart by use.
Inventory(providers) ==
  [nodes     |-> UNION {{<<p, n.key, n.source>> : n \in providers[p]} : p \in DOMAIN providers},
   providers |-> DOMAIN providers,
   sources   |-> [u \in Uses |-> UNION {{n.source : n \in providers[p]} : p \in Shards(providers, u)}],
   entries   |-> [u \in Uses |-> UNION {{<<p, n.key, n.source>> : n \in providers[p]} : p \in Shards(providers, u)}],
   regions   |-> [u \in Uses |-> {p[2] : p \in {p \in Shards(providers, u) : providers[p] # {}}}]]

Authorized(use) == {s \in Sources : Spec[s].uses \cap {"*", use} # {}}

BaselineInventoryOfAll(providers) == Inventory(providers)

\* A source that may no longer serve a use is not missed in it.
BaselineInventory(providers) ==
  [Inventory(providers) EXCEPT !.sources = [u \in Uses |-> @[u] \cap Authorized(u)]]

\* current / baseline < floor, where an empty baseline has lost nothing.
Collapsed(current, baseline, floor) ==
  LET before == Cardinality(baseline)
  IN  before > 0 /\ Cardinality(current) * floor[2] < before * floor[1]

Short(minimum, found, kind) ==
  {<<kind, u>> : u \in {u \in DOMAIN minimum : Cardinality(found[u]) < minimum[u]}}

AbsoluteViolations(inventory) ==
  Short(GuardPolicy.sources, inventory.sources, "minimum_sources")
  \cup Short(GuardPolicy.nodes, inventory.entries, "minimum_nodes")
  \cup Short(GuardPolicy.regions, inventory.regions, "minimum_regions")

\* A service judged inconclusive for systemic reasons lives on a fresh cached
\* verdict, or holds the release; it never counts as failed.
Inconclusive(evidence) == {s \in Services : evidence[s].inconclusive /\ evidence[s].systemic}
Held(evidence) == {s \in Inconclusive(evidence) : ~evidence[s].fresh}

ServiceViolations(evidence) ==
  {<<"minimum_qualified", s>> : s \in {s \in Services \ Inconclusive(evidence) :
                                        evidence[s].qualified < GuardPolicy.qualified}}

RatioViolations(candidate, baseline, floor) ==
  LET lost(now, before, what) == IF Collapsed(now, before, floor) THEN {what} ELSE {}
  IN  lost(candidate.nodes, baseline.nodes, <<"total_node_ratio", "">>)
      \cup lost(candidate.providers, baseline.providers, <<"provider_ratio", "">>)
      \cup UNION {lost(candidate.sources[u], baseline.sources[u], <<"source_ratio", u>>) : u \in Uses}

Assessed(providers, live, evidence) ==
  LET candidate  == Inventory(providers)
      absolute   == AbsoluteViolations(candidate) \cup ServiceViolations(evidence)
                    \cup {<<"probe_environment_hold", s>> : s \in Held(evidence)}
      ratios(f)  == IF live = {} THEN {} ELSE UNION {RatioViolations(candidate, BaselineInventory(b), f) : b \in live}
      violations == absolute \cup ratios(GuardPolicy.floor)
  IN  [violations |-> violations,
       warnings   |-> ratios(GuardPolicy.warning),
       state      |-> IF violations # {} THEN "PROMOTION_BLOCK"
                      ELSE IF ratios(GuardPolicy.warning) # {} THEN "WARNING" ELSE "NORMAL"]
=============================================================================
