---------------------------- MODULE AiAdmission ----------------------------
(* The live probes of the AI services and the routes they leave in the       *)
(* candidate: ai_qualification (probing one node, pruning the providers),    *)
(* ai_service_qualification (one target per service, countries in order),    *)
(* openai_app_contract (the route lock) and ai_runtime_reliability (the      *)
(* runtime providers of the OpenAI client path).                             *)
(* Of a candidate, targets[s] is the list of country pools service s fails   *)
(* over through (<<>> is REJECT), policy the countries the AI group lists,   *)
(* rules the order of the rules that matter.                                 *)
EXTENDS EndpointAdmission

CONSTANTS AiServices, OpenAi,   \* OpenAi is one of AiServices
          PreferredAiRegions, \* routing.ai.preferred_regions
          Undeclared,         \* a caller that passes no preference
          LegacyOrder         \* _LEGACY_COUNTRY_ORDER

ASSUME AiAssumption ==
  /\ OpenAi \in AiServices
  /\ IsFiniteSet(Regions) /\ LegacyOrder \in Seq(Regions)
  /\ PreferredAiRegions = Undeclared \/ PreferredAiRegions \in Seq(Regions)

---------------------------------------------------------------------------
(* Probing one node.                                                         *)

\* Two attempts, repeated only while nothing answered; any status decides.
NetworkFailures == {"timeout", "dns_error", "tls_error", "connection_error", "network_error"}
RequestOutcome(attempts) ==
  LET answers == SelectSeq(attempts, LAMBDA a : a \notin NetworkFailures)
  IN  IF answers = <<>> THEN Last(attempts) ELSE Head(answers)
ProbePasses(attempts) == RequestOutcome(attempts) = "expected"

\* A node passes a service when it could be selected and every probe of the
\* service passed. evidence[n] = [selected, answers: probe -> attempts].
NodePasses(e) == e.selected /\ \A p \in DOMAIN e.answers : ProbePasses(e.answers[p])

AiNodes(c) == NodesOfKind(c.entries, "ai")
Passed(evidence) == {n \in DOMAIN evidence : NodePasses(evidence[n])}

---------------------------------------------------------------------------
(* Service routes.                                                           *)

\* The elements of seq at those positions, in order.
At(seq, positions) ==
  [i \in 1..Cardinality(positions) |->
     seq[CHOOSE p \in positions : Cardinality({q \in positions : q <= p}) = i]]

Among(seq, set) == At(seq, {i \in DOMAIN seq : seq[i] \in set})

\* Preference is order, not admission: what it omits follows in legacy order.
\* Without one, the countries come as the AI group lists them.
CountryOrder(available, policy) ==
  LET first  == IF PreferredAiRegions # Undeclared THEN PreferredAiRegions \o LegacyOrder
                ELSE IF Range(policy) \cap available # {} THEN policy
                ELSE LegacyOrder
      wanted == first \o SetToSeq(available)
  IN  At(wanted, {i \in DOMAIN wanted : /\ wanted[i] \in available
                                        /\ \A j \in 1..(i - 1) : wanted[j] # wanted[i]})

AllAiRegions(c, names) == {r \in Regions : Payload(c.entries, <<"ai", r>>) # {}}
AiRegions(c, names) == {r \in Regions : Payload(c.entries, <<"ai", r>>) \cap names # {}}

Child(kind, region, names) == [provider |-> <<kind, region>>, names |-> names]
ServiceTarget(c, order, names) ==
  LET mine == Among(order, AiRegions(c, names))
  IN  [i \in DOMAIN mine |-> Child("ai", mine[i], Payload(c.entries, <<"ai", mine[i]>>) \cap names)]

\* A node stays in the inventory when any service admitted it.
PruneAi(entries, union) == {e \in entries : e[1][1] = "ai" => e[2] \in union}

\* The service rules come before the generic one, OpenAI's first.
WithoutRule(rules, tag) == At(rules, {i \in DOMAIN rules : rules[i] # tag})
InsertBefore(rules, tag, inserted) ==
  LET at == CHOOSE i \in DOMAIN rules : rules[i] = tag
  IN  SubSeq(rules, 1, at - 1) \o inserted \o SubSeq(rules, at, Len(rules))
RewriteServiceRules(rules) ==
  InsertBefore(WithoutRule(rules, "acl_openai"), "acl_ai", <<"acl_openai", "claude", "gemini">>)

\* With no admitted node at all every country goes and every service rejects.
ApplyAiServiceQualification(c, qualifiedBy) ==
  LET union  == (UNION {qualifiedBy[s] : s \in AiServices}) \cap AiNodes(c)
      pruned == [c EXCEPT !.entries = PruneAi(c.entries, union)]
      policy == Among(c.policy, AiRegions(pruned, union))
      order  == CountryOrder(AiRegions(pruned, union), policy)
  IN  [pruned EXCEPT !.targets = [s \in AiServices |-> ServiceTarget(pruned, order, qualifiedBy[s])],
                     !.policy  = IF union = {} THEN <<"REJECT">> ELSE policy,
                     !.rules   = RewriteServiceRules(c.rules)]
---------------------------------------------------------------------------
(* OpenAI.                                                                   *)

ApplyRouteLock(rules) == InsertBefore(WithoutRule(rules, "lock"), "acl_openai", <<"lock">>)

Positions(rules, tag) == {i \in DOMAIN rules : rules[i] = tag}
AuditRouteLock(rules) ==
  /\ \A tag \in {"lock", "acl_openai", "acl_ai"} : Cardinality(Positions(rules, tag)) = 1
  /\ \A i \in Positions(rules, "lock"), j \in Positions(rules, "acl_openai"), k \in Positions(rules, "acl_ai") :
       i < j /\ j < k

\* Each country pool becomes a runtime provider of its own, with the nodes the
\* pool selected.
RuntimeEntries(target) ==
  UNION {{<<<<"openai", target[i].provider[2]>>, n>> : n \in target[i].names} : i \in DOMAIN target}
RuntimeTarget(target) ==
  [i \in DOMAIN target |-> Child("openai", target[i].provider[2], target[i].names)]

HardenOpenAiClientPath(c) ==
  [c EXCEPT !.entries = c.entries \cup RuntimeEntries(c.targets[OpenAi]),
            !.targets[OpenAi] = RuntimeTarget(c.targets[OpenAi])]

AuditOpenAiClientPath(c) ==
  \A i \in DOMAIN c.targets[OpenAi] :
    LET child == c.targets[OpenAi][i]
    IN  child.provider[1] = "openai" /\ Payload(c.entries, child.provider) # {}
=============================================================================
