----------------------- MODULE QualificationPipeline -----------------------
(* run_qualification_pipeline: one candidate judged stage by stage, each     *)
(* stage on a copy of what the one before left, and the accounting of what   *)
(* every stage removed. The operators of a stage are those of its module;    *)
(* an action here is the stage with whatever evidence its probes return.     *)
EXTENDS TransportAdmission, AiAdmission

CONSTANTS Candidate,      \* the generated candidate
          Source,         \* the subscription a node came from
          HostnameNodes,  \* nodes whose server is a hostname
          TcpNodes,       \* nodes with a TCP transport
          HostAnswers,    \* what the resolvers may say of one hostname
          Endpoints,      \* what connecting to one endpoint may come to
          AllowAaaa,      \* dns.ipv6
          FailedRequests, \* outcomes of a delay request that returned nothing
          UdpResults,     \* outcomes of asking a selected node over UDP
          AiEvidence,     \* what probing one service through one node may come to
          HasHistory      \* scheduler history inputs were supplied

ASSUME PipelineAssumption ==
  /\ HostnameNodes \subseteq Nodes /\ TcpNodes \subseteq Nodes
  /\ FailedRequests \cap {"success"} = {}
  /\ UdpResults \subseteq UdpOutcomes
  /\ HasHistory \in BOOLEAN

\* What generation produces: entries by kind, region and node; two tiers of
\* every region of a surface, and the two tiers of a region of the shared
\* inventory leave none of its nodes out; every automatic group one pool.
ASSUME CandidateAssumption ==
  /\ DOMAIN Candidate = {"entries", "regions", "tiers", "general", "targets", "policy", "rules"}
  /\ Candidate.entries \subseteq ({"general", "browsing", "ai"} \X Regions) \X Nodes
  /\ IsFiniteSet(Candidate.entries)
  /\ DOMAIN Candidate.regions = Surfaces /\ \A s \in Surfaces : Candidate.regions[s] \subseteq Regions
  /\ DOMAIN Candidate.tiers = Surfaces \X Regions \X TierNames
  /\ \A r \in Candidate.regions["web"] :
       Payload(Candidate.entries, ProviderOf("web", r)) \subseteq
         Candidate.tiers[<<"web", r, "stable">>].filter \cup Candidate.tiers[<<"web", r, "reserve">>].filter
  /\ ProbedGroups \subseteq DOMAIN Candidate.general
  /\ \A g \in DOMAIN Candidate.general : \E names \in SUBSET Nodes : Candidate.general[g] = <<names>>
  /\ Candidate.policy \in Seq(Regions)
  /\ Candidate.rules \in Seq(Range(Candidate.rules))
  /\ \A tag \in {"acl_ai", "acl_openai"} : Cardinality(Positions(Candidate.rules, tag)) = 1

BrowsingStageAttempts == 2

VARIABLES
  step,        \* the stage to run next, "done" or "rejected"
  doc,         \* the document of the stage, on disk
  generated,   \* 01-generated.yaml
  inventories, \* the entry inventory after each stage
  evidence,    \* what the last preflight stage was told
  reserve,     \* endpoint_reserve_names
  attempts,    \* browsing attempts used
  probe,       \* what the last browsing and transport probes returned
  admitted,    \* service -> nodes its probes admitted
  reason       \* why the candidate was rejected, or the removal report

pipelineVars == <<step, doc, generated, inventories, evidence, reserve, attempts, probe, admitted, reason>>

NoEvidence == [n \in {} |-> <<>>]
NoProbe == [quarantined |-> {}, qualified |-> {}, stable |-> {}, preferred |-> {},
            diagnostics |-> NoDiagnostics, tcp |-> {}, udp |-> {}]
StageOrder == <<"preflight", "hostname", "endpoint", "browsing", "ai", "service_hardening">>

PipelineInit ==
  /\ step = "hostname"
  /\ doc = Candidate /\ generated = Candidate
  /\ inventories = [s \in {"preflight"} |-> Candidate.entries]
  /\ evidence = NoEvidence /\ reserve = {}
  /\ attempts = 0 /\ probe = NoProbe
  /\ admitted = [s \in AiServices |-> {}]
  /\ reason = ""

RejectCandidate(why) ==
  /\ step' = "rejected"
  /\ reason' = why
  /\ UNCHANGED <<doc, generated, inventories, reserve, attempts, probe, admitted>>

RecordInventory(name, entries) ==
  inventories' = [s \in DOMAIN inventories \cup {name} |-> IF s = name THEN entries ELSE inventories[s]]

---------------------------------------------------------------------------
(* Preflight.                                                                *)

HostQuarantine ==
  /\ step = "hostname"
  /\ \E answers \in [HostnameNodes \cap {e[2] : e \in doc.entries} -> HostAnswers] :
       LET verdicts == [n \in DOMAIN answers |-> HostEvidence(answers[n], AllowAaaa)]
           error    == HostStageError(doc.entries, verdicts)
           kept     == Resolvable(doc.entries, verdicts)
       IN  \/ error # "" /\ RejectCandidate(error) /\ evidence' = NoEvidence
           \/ /\ error = ""
              /\ step' = "endpoint"
              /\ doc' = [doc EXCEPT !.entries = kept]
              /\ RecordInventory("hostname", kept)
              /\ evidence' = answers
              /\ UNCHANGED <<generated, reserve, attempts, probe, admitted, reason>>

EndpointQuarantine ==
  /\ step = "endpoint"
  /\ \E probes \in [TcpNodes \cap {e[2] : e \in doc.entries} -> Endpoints] :
       LET error == EndpointStageError(doc.entries, probes)
           kept  == Reachable(doc.entries, probes)
       IN  \/ error # "" /\ RejectCandidate(error) /\ evidence' = NoEvidence
           \/ /\ error = ""
              /\ step' = "copy"
              /\ generated' = [doc EXCEPT !.entries = kept]
              /\ RecordInventory("endpoint", kept)
              /\ reserve' = ReserveNames(probes)
              /\ evidence' = probes
              /\ UNCHANGED <<doc, attempts, probe, admitted, reason>>

---------------------------------------------------------------------------
(* Browsing and transport, at most twice, each time on a fresh copy.         *)

CopyKeepingFirst ==
  /\ step = "copy"
  /\ step' = "browsing"
  /\ doc' = IF attempts = 0 THEN generated ELSE doc
  /\ attempts' = attempts + 1
  /\ evidence' = NoEvidence
  /\ UNCHANGED <<generated, inventories, reserve, probe, admitted, reason>>
CopyGenerated ==
  /\ step = "copy"
  /\ step' = "browsing"
  /\ doc' = generated
  /\ attempts' = attempts + 1
  /\ evidence' = NoEvidence
  /\ UNCHANGED <<generated, inventories, reserve, probe, admitted, reason>>

\* run_browsing_qualification raised: the pipeline repeats the stage only for
\* a failure it classified as transient.
StageFailed(at, why, diagnostics) ==
  IF ClassifyStageFailure(at, why, diagnostics) = "transient" /\ attempts < BrowsingStageAttempts
  THEN /\ step' = "copy"
       /\ UNCHANGED <<doc, generated, inventories, reserve, attempts, probe, admitted, reason>>
  ELSE RejectCandidate(why)

ProbeSamples(names) ==
  UNION {{Sample(d, "success") : d \in SUBSET names}, {Sample({}, o) : o \in FailedRequests}}

\* rejected is what the core cannot load; isolated what testing its members
\* one by one found out before those tests themselves failed. The core of a
\* probe may also not start, not answer or exit.
ProbeBrowsing ==
  /\ step = "browsing"
  /\ \/ \E why \in CoreReasons : StageFailed("browsing", why, NoDiagnostics)
     \/ \E rejected \in {r \in SUBSET Nodes : Cardinality(r) <= 1} : \E isolated \in SUBSET rejected :
          LET error == CoreQuarantineError(doc, rejected, isolated)
              kept  == CoreQuarantine(doc, rejected, isolated)
          IN  \/ error # "" /\ StageFailed("browsing", error, NoDiagnostics)
              \/ /\ error = ""
                 /\ \E samples \in [1..ProbeAttempts -> ProbeSamples(Probed(kept))] :
                      /\ step' = "history"
                      /\ doc' = kept
                      /\ probe' = [NoProbe EXCEPT !.quarantined = IF kept = doc THEN {} ELSE isolated,
                                                  !.qualified = QualifiedIn(samples, Probed(kept)),
                                                  !.stable = StableIn(samples, Probed(kept)),
                                                  !.diagnostics = ProbeDiagnostics(samples, Probed(kept))]
                 /\ UNCHANGED <<generated, inventories, reserve, attempts, admitted, reason>>
  /\ UNCHANGED evidence

\* What the history prefers among the stable nodes; without one, all of them.
PreferHistory ==
  /\ step = "history"
  /\ step' = "rewrite"
  /\ \E preferred \in IF HasHistory THEN SUBSET probe.stable ELSE {probe.stable} :
       probe' = [probe EXCEPT !.preferred = preferred]
  /\ UNCHANGED <<doc, generated, inventories, evidence, reserve, attempts, admitted, reason>>

Rewritten ==
  LET web      == RewriteWebGeneral(doc, probe.qualified, probe.stable, probe.preferred)
      hardened == RewriteHardened(web, probe.qualified, probe.stable)
  IN  IF HasHistory THEN ApplyHistoryPreference(hardened, probe.qualified, probe.stable, probe.preferred)
      ELSE hardened

\* The document they leave is validated: the automatic group of a region may
\* have lost all of its nodes by now.
RewriteError ==
  IF \E s \in Surfaces : Rewritten.regions[s] = {} THEN "no region retained a node"
  ELSE IF EmptyGroup(Rewritten) THEN "invalid"
  ELSE ""

RewriteSurfaces ==
  /\ step = "rewrite"
  /\ \/ RewriteError # "" /\ StageFailed("rewrite", RewriteError, probe.diagnostics)
     \/ /\ RewriteError = ""
        /\ step' = "transport"
        /\ doc' = Rewritten
        /\ UNCHANGED <<generated, inventories, reserve, attempts, probe, admitted, reason>>
  /\ UNCHANGED evidence

ProbeTransport ==
  /\ step = "transport"
  /\ \/ \E why \in CoreReasons : StageFailed("transport", why, probe.diagnostics)
     \/ LET names == NodesOfKind(doc.entries, "general")
        IN  \E first \in SUBSET names, second \in {s \in SUBSET names : Cardinality(s) <= 1},
               outcome \in [names -> UdpResults] :
              LET tcp   == TcpQualified(<<first, second>>, names)
                  udp   == UdpQualified(tcp, outcome)
                  error == TransportError(doc, tcp, udp)
              IN  \/ error # "" /\ StageFailed("transport", error, probe.diagnostics)
                  \/ /\ error = ""
                     /\ step' = "ai"
                     /\ doc' = ApplyTransport(doc, tcp, udp)
                     /\ probe' = [probe EXCEPT !.stable = {}, !.preferred = {},
                                               !.diagnostics = NoDiagnostics, !.tcp = tcp, !.udp = udp]
                     /\ RecordInventory("browsing", doc.entries)
                     /\ UNCHANGED <<generated, reserve, attempts, admitted, reason>>
  /\ UNCHANGED evidence

---------------------------------------------------------------------------
(* AI services and hardening.                                                *)

\* A node of a service is answered for by its probes or by a fresh verdict of
\* the cache; AiQualification models which. Any nodes may come out.
QualifyAi ==
  /\ step = "ai"
  /\ \E told \in [AiServices -> [AiNodes(doc) -> AiEvidence]] :
       LET qualifiedBy == [s \in AiServices |-> Passed(told[s])]
           routed      == ApplyAiServiceQualification(doc, qualifiedBy)
       IN  /\ doc' = [routed EXCEPT !.rules = ApplyRouteLock(routed.rules)]
           /\ admitted' = qualifiedBy
           /\ RecordInventory("ai", routed.entries)
  /\ step' = "service_hardening"
  /\ UNCHANGED <<generated, evidence, reserve, attempts, probe, reason>>

\* The core failed twice while probing a service, or could not be probed.
AiProbeFails ==
  /\ step = "ai"
  /\ RejectCandidate("ai_service_probe")
  /\ UNCHANGED evidence

HardenServices ==
  /\ step = "service_hardening"
  /\ step' = "accounting"
  /\ doc' = CapEndpointReservePools(HardenOpenAiClientPath(doc), reserve)
  /\ RecordInventory("service_hardening", doc'.entries)
  /\ UNCHANGED <<generated, evidence, reserve, attempts, probe, admitted, reason>>

---------------------------------------------------------------------------
(* Accounting.                                                               *)

Before(s) == inventories[StageOrder[(CHOOSE i \in DOMAIN StageOrder : StageOrder[i] = s) - 1]]
After(s) == inventories[s]
Stages == {StageOrder[i] : i \in 2..Len(StageOrder)}

Unique(entries) == {e[2] : e \in entries}
AddsInventory(s) ==
  \/ Unique(After(s)) \ Unique(Before(s)) # {}
  \/ s # "service_hardening" /\ After(s) \ Before(s) # {}

OfSource(entries, src) == {e \in entries : Source[e[2]] = src}
RemovedOf(s, src) == Cardinality(OfSource(Before(s) \ After(s), src))

\* Entries of a source still there after a stage, as the report counts them:
\* what was generated less everything removed so far.
RemainingUnique(s, src) == Cardinality(Unique(OfSource(Before(s), src)) \ Unique(OfSource(Before(s) \ After(s), src)))
Remaining(s, src) ==
  LET left[i \in DOMAIN StageOrder] ==
        IF i = 1 THEN Cardinality(OfSource(inventories["preflight"], src))
        ELSE LET removed == RemovedOf(StageOrder[i], src)
             IN  IF removed > left[i - 1] THEN 0 ELSE left[i - 1] - removed
  IN  left[CHOOSE i \in DOMAIN StageOrder : StageOrder[i] = s]

FullyRemoved == {src \in {Source[n] : n \in Nodes} :
                   /\ OfSource(inventories["preflight"], src) # {}
                   /\ OfSource(inventories["service_hardening"], src) = {}}

RemovedAtStage(src) ==
  LET at == {i \in 2..Len(StageOrder) : RemovedOf(StageOrder[i], src) > 0 /\ Remaining(StageOrder[i], src) = 0}
  IN  IF at = {} THEN "unattributed" ELSE StageOrder[CHOOSE i \in at : \A j \in at : i <= j]

AccountingError ==
  IF \E s \in Stages : AddsInventory(s) THEN "stage added runtime inventory"
  ELSE IF \E src \in FullyRemoved : RemovedAtStage(src) = "unattributed" THEN "removal lacks stage provenance"
  ELSE ""

Account ==
  /\ step = "accounting"
  /\ IF AccountingError # "" THEN RejectCandidate(AccountingError)
     ELSE /\ step' = "done"
          /\ reason' = [src \in FullyRemoved |-> RemovedAtStage(src)]
          /\ UNCHANGED <<doc, generated, inventories, reserve, attempts, probe, admitted>>
  /\ UNCHANGED evidence

PipelineNext ==
  \/ HostQuarantine \/ EndpointQuarantine
  \/ CopyGenerated \/ ProbeBrowsing \/ PreferHistory \/ RewriteSurfaces \/ ProbeTransport
  \/ QualifyAi \/ AiProbeFails \/ HardenServices \/ Account

PipelineSpec == PipelineInit /\ [][PipelineNext]_pipelineVars

---------------------------------------------------------------------------
(* Properties.                                                               *)

ProbedStages == {"transport", "ai", "service_hardening", "accounting", "done"}
RoutedStages == {"service_hardening", "accounting", "done"}
FinalStages == {"accounting", "done"}

OfferedTiers(c) == {t \in DOMAIN c.tiers : t[2] \in c.regions[t[1]]}

\* A hostname costs a node its place only when two different authorities say
\* it does not resolve and none resolves it, however often one of them is
\* listed as a resolver.
NegativeEvidenceIsCorroborated ==
  step = "endpoint" =>
    \A n \in {e[2] : e \in generated.entries \ doc.entries} :
      LET said == [a \in Authorities |-> ProbeHostname(evidence[n][a], AllowAaaa)]
      IN  /\ \A a \in Authorities : said[a] # "answered"
          /\ \E a, b \in Authorities : a # b /\ {said[a], said[b]} \subseteq Negatives

\* What the browsing stage leaves is what the preflight left, judged by the
\* last attempt alone: a node an earlier attempt quarantined is back.
LastAttemptDecides ==
  "browsing" \in DOMAIN inventories =>
    inventories["browsing"] =
      {e \in generated.entries : /\ e[2] \notin probe.quarantined
                                 /\ e[1][1] = "browsing" => e[2] \in probe.qualified}

\* A regional pool selects nodes the browsing probe admitted. In the end the
\* tiers of a region reach all of them, those with a partly reachable endpoint
\* only in the reserve.
RegionalPoolsHold ==
  /\ step \in ProbedStages => \A t \in OfferedTiers(doc) : Members(doc, t) \subseteq probe.qualified
  /\ step \in FinalStages =>
       \A t \in OfferedTiers(doc) :
         LET of(tier) == Members(doc, <<t[1], t[2], tier>>)
         IN  /\ of("stable") \cap reserve = {}
             /\ of("stable") \cup of("reserve") =
                  Payload(doc.entries, ProviderOf(t[1], t[2])) \cap probe.qualified

\* An automatic group reaches the nodes its transport admitted and no other, or
\* those of its own that are left when no transport narrows it; it is never
\* empty, and starts with a partly reachable node only when there is no better.
WantedOf(g) ==
  IF g \in UdpGroups THEN probe.udp
  ELSE IF g \in ProbedGroups THEN probe.tcp
  ELSE Candidate.general[g][1] \cap NodesOfKind(doc.entries, "general")

GeneralPoolsHold ==
  step \in ProbedStages \ {"transport"} =>
    \A g \in DOMAIN Candidate.general :
      /\ Selected(doc, g) = WantedOf(g) /\ WantedOf(g) # {}
      /\ step \in FinalStages /\ WantedOf(g) \cap doc.general[g][1] \cap reserve # {} => WantedOf(g) \subseteq reserve

\* However little was left of a region, each pool it offers selects a node or
\* is closed explicitly.
RegionalPoolsResolve ==
  step \in ProbedStages =>
    /\ PublicSurfaceValid(doc)
    /\ \A t \in OfferedTiers(doc) : Members(doc, t) # {} \/ doc.tiers[t].reject

\* Whatever the stages after it rewrote, each automatic pool holds what its own
\* probe admitted and nothing else: regional pools the browsing probe, general
\* groups HTTPS, voice and video also UDP. None of them is silently empty, nor
\* are the groups of a region or of downloads, which no probe narrows.
PoolsHoldAdmitted == RegionalPoolsHold /\ RegionalPoolsResolve /\ GeneralPoolsHold

\* A service reaches exactly the nodes its probes admitted, fails over to no
\* empty country, and applications of OpenAI cannot be routed past its target.
ServicesReachAdmitted ==
  step \in RoutedStages =>
    /\ \A s \in AiServices :
         /\ UNION {doc.targets[s][i].names : i \in DOMAIN doc.targets[s]} = admitted[s]
         /\ \A i \in DOMAIN doc.targets[s] :
              Payload(doc.entries, doc.targets[s][i].provider) \cap doc.targets[s][i].names # {}
    /\ AuditRouteLock(doc.rules)
    /\ step \in FinalStages => AuditOpenAiClientPath(doc)

\* The accounting never disowns a candidate the stages produced, and a source
\* it reports lost was lost by the stage it names, replicated or not.
AccountingHolds ==
  /\ step = "rejected" => reason \notin {"stage added runtime inventory", "removal lacks stage provenance"}
  /\ step = "done" => \A src \in DOMAIN reason :
       /\ OfSource(Before(reason[src]), src) # {}
       /\ OfSource(After(reason[src]), src) = {}
=============================================================================
