---------------------------- MODULE MCCandidate ----------------------------
(* TLC instance of the parts of a run that decide what a candidate holds:    *)
(* compiling it from the subscriptions and qualifying it, and the two things *)
(* qualification takes its word from, the probes' cores and the executables  *)
(* they and the validation run. They share no state, so a behaviour is one   *)
(* of the part chosen at its start.                                          *)
(*                                                                           *)
(* Qualification: two regions and three nodes. n1 has a hostname; n1 and n2  *)
(* serve hk, also as general inventory; n3 is offered for browsing and the   *)
(* AI services only, alone in jp, and comes from the source of n2. The name  *)
(* of n1 alone matches the automatic group of jp, which is empty without it. *)
(* One of the resolvers is listed twice.                                     *)
(*                                                                           *)
(* Compilation: two subscriptions and three pools. The first may not serve   *)
(* the general pool, the second may not serve the AI one, and both may offer *)
(* the same node under different names. Names: 1 is Hong Kong, 2 Japan, 3    *)
(* tells nothing, 4 is a traffic notice, 5 is denied by a, 6 bills fivefold. *)
(*                                                                           *)
(* Probes: two shards, of two nodes and of one; the service answers as       *)
(* expected through one node of each. The ports handed out are taken to be   *)
(* distinct while they are held: MCProbeCores shows what happens otherwise.  *)
(*                                                                           *)
(* Cores: two pinned tags and a prerelease tag whose safe name is the second *)
(* tag's; releases with an asset replaced, without a digest, marked          *)
(* prerelease, with two assets, or with one that does not decompress.        *)
EXTENDS CandidateBuild, QualificationPipeline, ProbeCores, MihomoCores

CONSTANTS a, b, k1, k2, n1, n2, n3, hk, jp, openai, gemini

VARIABLE lane

ASSUME ShardAssumption == \A s, t \in AiShards : s # t => ShardNodes[s] \cap ShardNodes[t] = {}

\* What the chosen part does not use has one value.
CandidateInit ==
  /\ lane \in {"compile", "qualify", "probe", "download"}
  /\ BuildInit /\ PipelineInit /\ ProbeInit /\ CoresInit
  /\ lane # "probe" => round = "ai"
  /\ lane # "download" => upstream = [t \in Tags |-> CHOOSE shown \in Releases[t] : TRUE]

Compile == lane = "compile" /\ BuildNext /\ UNCHANGED <<lane, pipelineVars, probeVars, coreVars>>
Judge == lane = "qualify" /\ PipelineNext /\ UNCHANGED <<lane, buildVars, probeVars, coreVars>>
Probe == lane = "probe" /\ ProbeNext /\ UNCHANGED <<lane, buildVars, pipelineVars, coreVars>>
Prepare == lane = "download" /\ CoresNext /\ UNCHANGED <<lane, buildVars, pipelineVars, probeVars>>

candidateVars == <<lane, buildVars, pipelineVars, probeVars, coreVars>>
CandidateSpec == CandidateInit /\ [][Compile \/ Judge \/ Probe \/ Prepare]_candidateVars

---------------------------------------------------------------------------
(* Compilation.                                                              *)

BuildOrder == <<a, b>>
BuildAliases == <<<<"HK", {1}>>, <<"JP", {2, 6}>>>>
BuildCountries == <<"HK", "JP", "OTHER">>
BuildMultiplier == [n \in 1 .. 6 |-> IF n = 6 THEN 5 ELSE 0]
Japanese == [names |-> {3}, country |-> "JP", add |-> {}, remove |-> {}, cost |-> ""]
Media == [names |-> {1}, country |-> "", add |-> {"media"}, remove |-> {}, cost |-> ""]
BuildSpecs ==
  a :> [denied |-> {5}, ceiling |-> 2, rules |-> <<Japanese>>, metadata |-> <<>>, caps |-> {"media"},
        cost |-> "low", uses |-> {"browsing", "ai"}, countries |-> {"*"}]
  @@ b :> [denied |-> {}, ceiling |-> 0, rules |-> <<>>, metadata |-> <<Media>>, caps |-> {},
           cost |-> "low", uses |-> {"general", "browsing"}, countries |-> {"*"}]

PoolSpec(id, order, regions, any, internal, required) ==
  [id |-> id, use |-> id, any |-> any, all |-> {}, none |-> {}, costs |-> {"low"},
   regions |-> order \cup regions, order |-> order, required |-> required, internal |-> internal]
BuildPools ==
  <<PoolSpec("general", {"ANY"}, {}, {}, TRUE, TRUE), PoolSpec("browsing", {"HK", "JP"}, {}, {}, TRUE, FALSE),
    PoolSpec("ai", {"JP"}, {"HK"}, {"media"}, FALSE, FALSE)>>

Of(id, members, type, hidden) ==
  [id |-> id, members |-> members, type |-> type, hidden |-> hidden, provider |-> "", region |-> "",
   omit |-> FALSE, prebuilt |-> FALSE, route |-> None, use |-> "", excluded |-> {}]
Backed(id, region, omit) ==
  [Of(id, {}, "url-test", TRUE) EXCEPT !.provider = "general", !.region = region, !.omit = omit]
RoutedTo(id) == <<"group", GroupName(id)>>
BuildGroupSpecs ==
  <<Of("proxy", {RoutedTo("auto"), RoutedTo("nearest"), RoutedTo("spread")}, "select", FALSE),
    Backed("auto", "*", FALSE), Backed("hk", "HK", TRUE), Backed("jp", "JP", TRUE),
    Of("nearest", {RoutedTo("hk"), RoutedTo("jp")}, "fallback", TRUE),
    [Of("spread", {RoutedTo("hk"), RoutedTo("jp")}, "url-test", TRUE) EXCEPT !.prebuilt = TRUE],
    [Of("ai", {<<"pool", "ai">>}, "select", FALSE) EXCEPT !.use = "ai"],
    [Of("video", {<<"pool", "browsing">>}, "select", FALSE) EXCEPT !.use = "browsing", !.excluded = {a}],
    [Of("films", {<<"pool", "browsing">>}, "select", FALSE) EXCEPT !.use = "browsing"],
    [Backed("web auto", "*", FALSE) EXCEPT !.provider = "browsing"],
    [Of("web", {RoutedTo("web auto"), <<"builtin", Direct>>}, "select", FALSE) EXCEPT !.provider = "browsing", !.region = "*"],
    [Of("direct", {<<"builtin", Direct>>}, "select", TRUE) EXCEPT !.route = <<"builtin", Direct>>]>>
BuildRouteSpecs ==
  <<[target |-> GroupName("direct"), use |-> "general", excluded |-> {}],
    [target |-> GroupName("ai"), use |-> "ai", excluded |-> {}],
    [target |-> GroupName("films"), use |-> "browsing", excluded |-> {b}]>>
BuildBrowsing == [public |-> "web", automatic |-> "web auto", pool |-> "browsing", canonical |-> {"proxy", "ai"}]

Parsed(proxies) == [parsed |-> TRUE, proxies |-> proxies]
Offer(key, name) == [key |-> key, name |-> name]
Parses(names) ==
  {Nothing} \cup {Parsed(proxies) : proxies \in {p \in SUBSET [key : {k1, k2}, name : names] : Cardinality(p) <= 2}}
BuildPayloads ==
  a :> (Parses({1, 2, 3}) \cup {Parsed({Offer(k1, n), Offer(k2, 2)}) : n \in {4, 5, 6}} \cup {Parsed({Offer(k1, 5)})})
  @@ b :> Parses({1, 2, 3})

BuildGuardPolicy ==
  [sources |-> "general" :> 1, nodes |-> "browsing" :> 1, regions |-> "browsing" :> 1,
   qualified |-> 1, floor |-> <<3, 5>>, warning |-> <<1, 1>>]

Node(key, source) == [key |-> key, source |-> source]
BuildBaselines ==
  {(<<"general", "ANY">> :> {Node(k1, b), Node(k2, a)} @@ <<"browsing", "JP">> :> {Node(k1, a), Node(k2, b)}),
   (<<"general", "ANY">> :> {Node(k2, a), Node(k1, a), Node("old", b)} @@ <<"ai", "JP">> :> {Node(k2, b), Node(k1, b), Node("older", a)})}

Service(q, i, s, f) == [qualified |-> q, inconclusive |-> i, systemic |-> s, fresh |-> f]
BuildEvidence == {"openai" :> Service(1, FALSE, FALSE, FALSE), "openai" :> Service(0, TRUE, TRUE, TRUE), "openai" :> Service(0, TRUE, TRUE, FALSE)}
---------------------------------------------------------------------------
(* Qualification.                                                            *)

MCResolvers == <<"a1", "a1", "a2", "system">>
MCSource == [n \in Nodes |-> IF n = n1 THEN "s1" ELSE "s2"]

MCEntries ==
  {<<<<kind, hk>>, n>> : kind \in {"general", "browsing", "ai"}, n \in {n1, n2}}
  \cup {<<<<kind, jp>>, n3>> : kind \in {"browsing", "ai"}}

MCGenerated ==
  [entries |-> MCEntries,
   regions |-> [s \in Surfaces |-> IF s = "web" THEN {hk} ELSE Regions],
   tiers   |-> [t \in Surfaces \X Regions \X TierNames |-> Filter(Nodes)],
   general |-> [g \in ProbedGroups \cup {"download"} |-> <<Nodes>>] @@ "hk" :> <<{n1, n2}>> @@ "jp" :> <<{n1}>>,
   targets |-> [s \in AiServices |-> <<>>],
   policy  |-> <<hk, jp>>,
   rules   |-> <<"acl_ai", "acl_openai">>]

HostAnswer(v4, v6) == [a |-> v4, aaaa |-> v6]
MCHostAnswers ==
  [Authorities -> {HostAnswer("answered", "no_answer"), HostAnswer("nxdomain", "nxdomain"),
                   HostAnswer("no_answer", "answered"), HostAnswer("transport_error", "server_failure")}]

MCEndpoints ==
  {Endpoint("public", <<"answered", "answered", "answered">>),
   Endpoint("public", <<"connect_timeout", "answered", "connection_refused">>),
   Endpoint("public", <<"connection_refused", "connection_refused", "connect_timeout">>),
   Endpoint("public", <<"connect_timeout", "connect_timeout", "connection_refused">>),
   Endpoint("dns_failure", <<"connect_failure", "connect_failure", "connect_failure">>)}

MCAiEvidence ==
  {[selected |-> TRUE, answers |-> <<<<"timeout", "expected">>, <<"expected", "expected">>>>],
   [selected |-> TRUE, answers |-> <<<<"expected", "expected">>, <<"blocked", "expected">>>>]}

MCPreferredAiRegions == <<jp>>
MCLegacyOrder == <<hk, jp>>
---------------------------------------------------------------------------
(* Probes and cores.                                                         *)

MCShards == {"s1", "s2"}
MCShardNodes == [s1 |-> {"n1", "n2"}, s2 |-> {"n3"}, t |-> {"n1", "n2", "n3"}]
MCWorking == {"n1", "n3"}

Release(content, digest, prerelease, assets) ==
  [asset |-> content, digest |-> digest, prerelease |-> prerelease, assets |-> assets]
MCReleases ==
  "v1" :> {Release("x", "x", FALSE, 1), Release("x", Absent, FALSE, 1), Release("x", "x", TRUE, 1)}
  @@ "v2" :> {Release("y", "y", FALSE, 1), Release("z", "z", FALSE, 1), Release("z", "z", FALSE, 2),
              Release("bad", "bad", FALSE, 1)}
  @@ "v/2" :> {Release("w", "w", TRUE, 1), Release("w", Absent, TRUE, 1)}
MCPins == <<"v1", "v2">>
MCCachePath == "v1" :> "v1" @@ "v2" :> "v_2" @@ "v/2" :> "v_2"
=============================================================================
