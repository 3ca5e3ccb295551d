------------------------- MODULE EndpointAdmission -------------------------
(* The two stages that judge proxy servers before any of them is used: the   *)
(* DNS-over-HTTPS check of their hostnames (proxy_host_qualification) and    *)
(* the TCP check of their endpoints (proxy_endpoint_qualification), and what *)
(* the endpoint evidence does to the pools of the final candidate.           *)
(* A candidate is a record: entries is its proxy-providers, a set of         *)
(* <<provider, node>>; regions[s] the regions surface s offers;              *)
(* tiers[<<s, r, t>>] the filter of a regional pool; general[g] the pools of *)
(* an automatic group g over the general inventory, in failover order: one   *)
(* pool until the endpoint evidence splits it.                               *)
EXTENDS Integers, FiniteSets, Sequences, SequencesExt

CONSTANTS Nodes,      \* proxies, each a server of one source
          Regions,
          Resolvers   \* dns.proxy-server-nameserver: authorities, or "system"

ASSUME ResolversAssumption == Resolvers \in Seq(Range(Resolvers))

Surfaces == {"browsing", "web"}
TierNames == {"stable", "reserve"}

\* The provider a regional pool of a surface selects from: 网页自动 has
\* providers of its own, 网页通用自动 shares those of the general inventory.
ProviderOf(surface, region) == <<IF surface = "browsing" THEN "browsing" ELSE "general", region>>

Payload(entries, provider) == {n \in Nodes : <<provider, n>> \in entries}
ProvidersIn(entries) == {e[1] : e \in entries}
NodesOfKind(entries, kind) == {e[2] : e \in {x \in entries : x[1][1] = kind}}
EmptiesProvider(before, after) == ProvidersIn(before) # ProvidersIn(after)

Members(c, tier) == Payload(c.entries, ProviderOf(tier[1], tier[2])) \cap c.tiers[tier].filter
Selected(c, g) == (UNION Range(c.general[g])) \cap NodesOfKind(c.entries, "general")

---------------------------------------------------------------------------
(* Hostnames.                                                                *)

Negatives == {"nxdomain", "no_answer"}
Categories == Negatives \cup {"answered", "server_failure", "transport_error"}
AnswerCategories == Categories \ {"transport_error"}

\* One endpoint per distinct authority; "system" is not a DoH resolver.
DohEndpointsListed == {i \in DOMAIN Resolvers : Resolvers[i] # "system"}
DohEndpoints == {i \in DOMAIN Resolvers :
                    /\ Resolvers[i] # "system"
                    /\ \A j \in 1..(i - 1) : Resolvers[j] # Resolvers[i]}
Authorities == {Resolvers[i] : i \in DohEndpointsListed}

\* The A and the AAAA record of one endpoint: an answer wins, a negative needs
\* both to be negative, anything else keeps the failure.
MergeDualRecords(a, aaaa) ==
  CASE "answered" \in {a, aaaa}      -> "answered"
    [] {a, aaaa} \subseteq Negatives -> IF "nxdomain" \in {a, aaaa} THEN "nxdomain" ELSE "no_answer"
    [] OTHER                         -> IF a \in Negatives THEN aaaa ELSE a

ProbeHostname(answer, allowAaaa) ==
  IF answer.a = "answered" \/ ~allowAaaa THEN answer.a ELSE MergeDualRecords(answer.a, answer.aaaa)

\* records is what each endpoint said: unresolvable only when two of them say
\* so and none has an address.
Verdict(endpoints, records) ==
  LET negative == {i \in endpoints : records[i] \in Negatives}
  IN  IF \E i \in endpoints : records[i] = "answered" THEN "resolved"
      ELSE IF Cardinality(negative) >= 2 THEN "dns_unresolved" ELSE "inconclusive"

\* answers[n][authority] is what the resolvers would answer about the server
\* of n: [a |-> category, aaaa |-> category].
HostEvidence(answer, allowAaaa) ==
  LET records == [i \in DohEndpoints |-> ProbeHostname(answer[Resolvers[i]], allowAaaa)]
  IN  [verdict |-> Verdict(DohEndpoints, records),
       responded |-> \E i \in DohEndpoints : records[i] \in AnswerCategories]

Resolvable(entries, evidence) ==
  {e \in entries : e[2] \in DOMAIN evidence => evidence[e[2]].verdict # "dns_unresolved"}

\* "": the stage passed with Resolvable(entries, evidence).
HostStageError(entries, evidence) ==
  IF DOMAIN evidence = {} THEN ""
  ELSE IF Cardinality(DohEndpoints) < 2 THEN "requires multiple resolvers"
  ELSE IF EmptiesProvider(entries, Resolvable(entries, evidence)) THEN "would empty a provider"
  ELSE IF \A n \in DOMAIN evidence : ~evidence[n].responded THEN "no resolver responded"
  ELSE ""

---------------------------------------------------------------------------
(* TCP endpoints.                                                            *)

TcpAttempts == 3
AdmissionQuorum == 1
\* What the runner sees of one endpoint: the addresses its own resolver gives
\* and, attempt by attempt, "answered" or the last failure.
Endpoint(addresses, attempts) == [addresses |-> addresses, attempts |-> attempts]

Successes(endpoint) == Cardinality({i \in 1..TcpAttempts : endpoint.attempts[i] = "answered"})

FailureCategory(endpoint) ==
  LET failed == SelectSeq(endpoint.attempts, LAMBDA outcome : outcome # "answered")
  IN  IF failed = <<>> THEN "connect_failure" ELSE Last(failed)

ProbeTcp(endpoint) ==
  IF endpoint.addresses # "public" THEN [admitted |-> FALSE, category |-> endpoint.addresses, successes |-> 0]
  ELSE [admitted |-> Successes(endpoint) >= AdmissionQuorum,
        category |-> FailureCategory(endpoint),
        successes |-> Successes(endpoint)]

AdmissionTier(successes) ==
  IF successes >= TcpAttempts THEN "robust"
  ELSE IF successes >= AdmissionQuorum THEN "reserve"
  ELSE "quarantined"

\* The runner's resolver is no evidence about a node, a timeout is weak
\* evidence, and every other failure of all attempts removes it.
EndpointTier(endpoint) ==
  LET probe == ProbeTcp(endpoint)
  IN  IF probe.admitted THEN AdmissionTier(probe.successes)
      ELSE CASE probe.category = "dns_failure"     -> "unjudged"
             [] probe.category = "connect_timeout" -> "reserve"
             [] OTHER                              -> "quarantined"

\* probes[n] is the endpoint of n, for the nodes with a TCP transport.
Reachable(entries, probes) ==
  {e \in entries : e[2] \in DOMAIN probes => EndpointTier(probes[e[2]]) # "quarantined"}
ReserveNames(probes) == {n \in DOMAIN probes : EndpointTier(probes[n]) = "reserve"}

EndpointStageError(entries, probes) ==
  IF EmptiesProvider(entries, Reachable(entries, probes)) THEN "would empty a provider" ELSE ""

---------------------------------------------------------------------------
(* The pools of the final candidate: endpoint reserve nodes leave every      *)
(* preferred pool and stay reachable by failover.                            *)

CapTier(c, reserve, tier) ==
  LET stable  == <<tier[1], tier[2], "stable">>
      allowed == Members(c, stable)
      held    == allowed \cap reserve
      kept    == allowed \ reserve
  IN  IF held = {} THEN c.tiers[tier]
      ELSE IF tier[3] = "reserve"
      THEN [filter |-> Members(c, tier) \cup held, reject |-> c.tiers[tier].reject]
      ELSE [filter |-> kept, reject |-> IF kept = {} THEN TRUE ELSE c.tiers[tier].reject]

CapGeneral(c, reserve, g) ==
  LET allowed == Head(c.general[g]) \cap NodesOfKind(c.entries, "general")
      held    == allowed \cap reserve
      kept    == allowed \ held
  IN  IF held = {} THEN c.general[g] ELSE IF kept = {} THEN <<held>> ELSE <<kept, held>>

CapEndpointReservePools(c, reserve) ==
  [c EXCEPT !.tiers = [t \in DOMAIN c.tiers |-> CapTier(c, reserve, t)],
            !.general = [g \in DOMAIN c.general |-> CapGeneral(c, reserve, g)]]
=============================================================================
