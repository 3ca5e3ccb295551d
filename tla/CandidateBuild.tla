--------------------------- MODULE CandidateBuild ---------------------------
(* build_candidate and the guard at the end of a run: the subscriptions as   *)
(* the executor delivers them, one candidate compiled from what they offer,  *)
(* what qualification leaves of it, and the comparison with the live one.    *)
EXTENDS PromotionContract

CONSTANTS Workers, Fatal, \* the executor, as in FetchPool
          Payloads,       \* source -> what its server may answer
          MinSuccessful,  \* generation.minimum_successful_subscriptions
          MinUsable,      \* generation.minimum_usable_nodes
          RejectDuplicates, \* generation.duplicate_policy is error
          MaxLost,        \* bound: pool entries qualification removes
          Baselines,      \* provider maps the live configuration may have
          Evidence        \* what the service qualification may report

ASSUME BuildAssumption ==
  /\ Workers \in Nat \ {0} /\ MaxLost \in Nat /\ RejectDuplicates \in BOOLEAN
  /\ Fatal \subseteq Sources
  /\ \A s \in Sources : \A answer \in Payloads[s] :
       /\ answer.parsed \in BOOLEAN
       /\ \A p \in answer.proxies : p.name \in Names

\* What orders the occurrences of a node: sources, known countries and names.
ASSUME SelectionAssumption ==
  /\ Order \in Seq(Sources) /\ DOMAIN Countries \subseteq Nat /\ Names \subseteq Nat
  /\ \A s \in Sources : \A answer \in Payloads[s] : \A p \in answer.proxies :
       \E i \in DOMAIN Countries : Countries[i] = Class(s, p.name).country

VARIABLES task, consumed, build, \* the executor, as in FetchPool
          payload,   \* source -> the payload the build took from it
          report,    \* source -> ok, failed or none
          nodes,     \* the deduplicated nodes
          graph,     \* the runtime graph
          providers, \* the candidate's pools as qualification leaves them
          live,      \* the baseline: {} for a first release
          verdict,   \* assess_promotion's result
          stage      \* fetching, deduplicated, generated, typed, filtered, exposed, compiled, valid, built, qualified, assessed or failed

Pool == INSTANCE FetchPool

buildVars == <<task, consumed, build, payload, report, nodes, graph, providers, live, verdict, stage>>

Nothing == [parsed |-> FALSE, proxies |-> {}]
NoVerdict == [violations |-> {}, warnings |-> {}, state |-> "none"]
NoNodes == [k \in {} |-> {}]

BuildInit ==
  /\ Pool!PoolInit
  /\ payload = [s \in Sources |-> Nothing]
  /\ report = [s \in Sources |-> "none"]
  /\ nodes = NoNodes
  /\ graph = EmptyGraph
  /\ providers = EmptyGraph.providers
  /\ live = {} /\ verdict = NoVerdict
  /\ stage = "fetching"

Fetching ==
  /\ stage = "fetching"
  /\ \/ \E s \in Sources : Pool!TaskStarts(s) \/ \E how \in {"ok", "failed"} : Pool!TaskEnds(s, how)
     \/ Pool!ShutDown
  /\ UNCHANGED <<payload, report, nodes, graph, providers, live, verdict, stage>>

\* One round of the consuming loop. A source is usable once anything parsed,
\* even when its own policy then filters every proxy.
Take ==
  /\ stage = "fetching" /\ consumed < Len(Order)
  /\ LET s == Order[consumed + 1]
     IN  \E taken \in IF task[s] = "ok" THEN Payloads[s] ELSE {Nothing} :
           LET usable == taken.parsed /\ taken.proxies # {}
           IN  /\ Pool!Consume(usable)
               /\ payload' = [payload EXCEPT ![s] = taken]
               /\ report' = [report EXCEPT ![s] = IF usable THEN "ok" ELSE "failed"]
  /\ UNCHANGED <<nodes, graph, providers, live, verdict, stage>>

Offered == UNION {{Classify(s, p) : p \in Admitted(s, payload[s].proxies)} : s \in Sources}
Successful == {s \in Sources : report[s] = "ok"}

Fails == stage' = "failed" /\ UNCHANGED <<task, consumed, build, payload, report, nodes, graph, providers, live, verdict>>

Aborts == stage = "fetching" /\ build = "aborted" /\ Fails

Deduplicate ==
  /\ stage = "fetching" /\ build = "fetched"
  /\ IF \/ Cardinality(Successful) < MinSuccessful
        \/ RejectDuplicates /\ Duplicates(Offered) > 0
        \/ Cardinality(Keys(Offered)) < MinUsable
     THEN Fails
     ELSE /\ nodes' = Deduplicated(Offered)
          /\ stage' = "deduplicated"
          /\ UNCHANGED <<task, consumed, build, payload, report, graph, providers, live, verdict>>

\* compile_runtime_graph, pass by pass.
Pass(from, refused, compiled, to) ==
  /\ stage = from
  /\ IF refused THEN Fails
     ELSE /\ graph' = compiled
          /\ stage' = to
          /\ UNCHANGED <<task, consumed, build, payload, report, nodes, providers, live, verdict>>

Generate ==
  /\ stage = "deduplicated"
  /\ \E g \in {Generated(nodes)} :
       IF GenerationRefused(nodes, g) THEN Fails
       ELSE /\ graph' = g
            /\ stage' = "generated"
            /\ UNCHANGED <<task, consumed, build, payload, report, nodes, providers, live, verdict>>

ApplyGroupSemantics == Pass("generated", SemanticsRefused(graph), GroupSemantics(graph), "typed")
ApplyExclusions == Pass("typed", ExclusionsRefused(graph), SourceExclusions(graph), "filtered")
Expose == Pass("filtered", FALSE, ExposeProviders(graph), "exposed")
HardenBrowsingRuntime ==
  Pass("exposed", HardeningRefused(graph) \/ ~BrowsingSurfaceValid(HardenBrowsing(graph)), HardenBrowsing(graph), "compiled")

Validate == Pass("compiled", ~Valid(graph), graph, "valid")

\* The audit of a project that declares the download surface.
Audit ==
  /\ stage = "valid"
  /\ IF AuditRefused(graph) THEN Fails
     ELSE /\ providers' = graph.providers
          /\ stage' = "built"
          /\ UNCHANGED <<task, consumed, build, payload, report, nodes, graph, live, verdict>>

\* The qualification stages only ever remove pool entries.
Qualify ==
  /\ stage = "built"
  /\ \E lost \in SUBSET UNION {{<<p, n>> : n \in providers[p]} : p \in DOMAIN providers} :
       /\ Cardinality(lost) <= MaxLost
       /\ LET left(p) == {n \in providers[p] : <<p, n>> \notin lost}
          IN  providers' = [p \in {p \in DOMAIN providers : left(p) # {}} |-> left(p)]
  /\ stage' = "qualified"
  /\ UNCHANGED <<task, consumed, build, payload, report, nodes, graph, live, verdict>>

Guard ==
  /\ stage = "qualified"
  /\ \E baseline \in {{}} \cup {{b} : b \in Baselines}, evidence \in Evidence :
       /\ live' = baseline
       /\ verdict' = Assessed(providers, baseline, evidence)
  /\ stage' = "assessed"
  /\ UNCHANGED <<task, consumed, build, payload, report, nodes, graph, providers>>

BuildNext ==
  \/ Fetching \/ Take \/ Aborts \/ Deduplicate
  \/ Generate \/ ApplyGroupSemantics \/ ApplyExclusions \/ Expose \/ HardenBrowsingRuntime
  \/ Validate \/ Audit
  \/ Qualify \/ Guard
BuildSpec == BuildInit /\ [][BuildNext]_buildVars

---------------------------------------------------------------------------

\* classify.py, selector.py: whatever order the downloads finished in and
\* whoever else offers the same node, a pool holds exactly the nodes that some
\* source, judged by its own names, permissions and metadata alone, may put
\* there, each attributed to the first such source in ingest order.
PoolsAreExact ==
  stage \in {"compiled", "valid", "built"} =>
    \A i \in DOMAIN Pools : \A r \in Pools[i].regions :
      LET fits(s) == {p.key : p \in {p \in Admitted(s, payload[s].proxies) : Eligible(Classify(s, p), Pools[i], r)}}
          pool    == IF <<Pools[i].id, r>> \in DOMAIN graph.providers THEN graph.providers[<<Pools[i].id, r>>] ELSE {}
      IN  {<<n.key, n.source>> : n \in pool} =
            UNION {{<<k, s>> : k \in fits(s) \ UNION {fits(t) : t \in {t \in Sources : Rank(Order, t) < Rank(Order, s)}}} : s \in Sources}

\* generator.py, routing_policy.py, validator.py: in a built candidate every
\* group a route can reach resolves, is never an automatic group with nothing
\* to choose, and leads to DIRECT only when its declaration says so: a pool
\* that lost its nodes rejects instead. No node of a source that a route or a
\* group declares excluded can be chosen below it.
NoRouteFailsOpen ==
  stage \in {"valid", "built"} =>
    LET from(name) == {leaf[2].source : leaf \in Leaves(graph, name)}
    IN  /\ \A n \in Below(graph, Public(graph) \cup {graph.routes[i] : i \in DOMAIN graph.routes}) :
             LET group == graph.groups[n]
             IN  /\ group.members \subseteq Builtins \cup DOMAIN graph.groups
                 /\ Leaves(graph, n) # {} \/ \E m \in Below(graph, {n}) : graph.groups[m].members \cap Builtins # {}
                 /\ group.type \in Automatic => Leaves(graph, n) # {}
                 /\ Direct \in group.members =>
                      \E i \in DOMAIN GroupSpecs :
                        GroupName(GroupSpecs[i].id) = n /\ <<"builtin", Direct>> \in GroupSpecs[i].members \cup {GroupSpecs[i].route}
        /\ \A i \in DOMAIN RouteSpecs : from(graph.routes[i]) \cap RouteSpecs[i].excluded = {}
        /\ \A i \in DOMAIN GroupSpecs :
             GroupName(GroupSpecs[i].id) \in DOMAIN graph.groups =>
               from(GroupName(GroupSpecs[i].id)) \cap GroupSpecs[i].excluded = {}

\* policy_compiler.py, browsing_runtime.py, validator.py, production_audit.py:
\* whichever regions lost their nodes, what the passes compile together is
\* accepted: neither the browsing surface's own check, nor the audit, which looks
\* beyond the filters, nor, as long as no declared group loses all its members,
\* the validation stops a run.
CompilationIsSound ==
  /\ stage = "exposed" /\ ~HardeningRefused(graph) => BrowsingSurfaceValid(HardenBrowsing(graph))
  /\ stage = "compiled" =>
       LET deserted == \E s \in External : /\ s.members # {} /\ GroupName(s.id) \in DOMAIN graph.groups
                                           /\ graph.groups[GroupName(s.id)].members = {}
       IN  (deserted \/ Valid(graph)) /\ ~AuditRefused(graph)

\* promotion_guard.py, availability.py: a release whose candidate still has
\* every source of the live one that may serve a use is never blocked for the
\* sources of that use, however many permissions were withdrawn in between.
RevokedSourcesDoNotBlock ==
  \A u \in Uses : \A b \in live :
    LET kept(p) == {n.source : n \in UNION {p[x] : x \in Shards(p, u)}}
    IN  {s \in kept(b) : Spec[s].uses \cap {"*", u} # {}} \subseteq kept(providers)
          => <<"source_ratio", u>> \notin verdict.violations
=============================================================================
