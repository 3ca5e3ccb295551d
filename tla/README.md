# Verification of clash-relay

clash-relay builds a Mihomo/Clash configuration from subscriptions, qualifies it
by probing, and publishes it to Cloudflare KV, from where clients download it.
This directory models what depends on order, failure and history: fetching the
subscriptions, compiling and qualifying a candidate, the processes and
executables the probes use, the guard, publishing a release with the intent and
pointers kept beside it, what a lost answer leaves behind, the deletion of old
releases, the lifecycle around a publication, and the documents that are kept
from one run to the next. TLC checks the models on small instances; for eleven
of the modules TLAPS checks proofs that hold for every instance.

## The system

### Components, their state and their operations

| Component (src/src/clash_relay) | State | Operations | What is hard |
|---|---|---|---|
| Fetching, `fetch.py`, `builder.py` | sockets, timers, resolver slots, an executor | fetch, watch, interrupt, resolve | one deadline over blocking calls, forgotten resolver threads |
| Candidate generation, `builder.py`, `selector.py`, `classify.py`, `generator.py`, `policy_compiler.py` | none between runs | deduplicate, classify, build pools, groups and routes | the same node from sources with different permissions; pools that lose all nodes |
| Runtime graph, `routing_policy.py`, `runtime_identity.py`, validation and audit | a graph that the passes rewrite | exclude sources, remove unused groups, validate | a pass refuses what another produced |
| Qualification, `qualification_pipeline.py`, `qualification_reliability.py`, the probe modules | a candidate that shrinks stage by stage | probe, retry, remove nodes, rewrite groups, account | a stage undoes an earlier verdict; a repeated round mixes with the first |
| Probe processes, `mihomo_probe_runtime.py`, `ai_qualification.py`, `transport_qualification.py` | a Mihomo core per shard, its ports and selector | start, select, request, stop | lost answers, exits, ports that are not reserved |
| Mihomo binaries, `mihomo_download.py`, `mihomo_matrix_application.py` | a cache of two files per tag | download, verify, reuse, validate | replaced assets, interrupted writes, colliding names |
| AI cache, `ai_qualification_cache.py` | per-node verdicts with time | look up, update, evict | lifetimes, clocks that differ |
| AI qualification, `ai_application.py` | the pool of each service, the next cache | sentinel gate, sweep, check after it | a blackout must not count as failure of the nodes |
| Scheduler history, `scheduler_history.py` | a record per node | load, prefer, update, store | hysteresis, capacity, repeated probes |
| Promotion guard, `promotion_guard.py`, `availability.py` | none | compare a candidate with the live one | sources withdrawn since |
| Publisher, `release_bundle.py` | KV keys: production, current and previous pointer, intent, immutable config and manifest per release | publish (stage, switch, recover, compensate) | no multi-key transaction; crash between any two writes; three write outcomes |
| Intent, `release_transaction.py` | the record in the transaction key | parse, advance, classify for an audit | monotonic phases through recovery |
| KV client, `publishers/cloudflare_kv.py` | none | read, put, delete | a lost answer; which statuses prove that nothing ran; stale reads |
| Journal and retention, `release_journal.py`, `production_application.py`, `release_inventory.py` | journal key, a reviewed plan on disk | record, plan, apply, audit | a plan applied long after its review; half-deleted releases |
| Reconciliation, `release_reconciliation.py` | none | four reads and a verdict | reads without a lock, some of them lagging |
| Lifecycle, `production_lifecycle.py`, `production_release_stage.py`, `release_reliability.py` | private directory, release phase | run the stages, preserve an ambiguous candidate, persist derived state | a failure after the commit; the only private copy of a candidate |
| Observability, metrics and SLO, `production_observability.py`, `production_metrics.py`, `operational_slo.py` | two bounded documents | append, repair, summarise | best-effort writes, overflow |
| Parsing, declarations, audits of one document, proofs, manifests, reports, CLI | none | render, check | nothing over time |

### How they interact

The lifecycle runs one attempt at a time: publish and rollback are workflows of
one concurrency group (`docs/publishing.md:105`). It builds a candidate from the
subscriptions an executor fetches, qualifies it stage by stage through cores it
starts for the purpose, compares it with the live baseline, validates it with
the pinned cores and calls `publish_production_release`, which calls
`publish_release_bundle` and then journals the release. Every KV write goes
through `_publish_verified`. When publishing ends commit-unknown, the lifecycle
asks the reconciliation and keeps or discards the private copy. The AI cache,
the scheduler history, the metrics and the SLO ring are read at the start and
written, best effort, after the commit. Retention is planned by one command and
applied by another, later, from the plan's file. Apart from KV and the cache of
executables nothing is shared between runs.

## The modules

| Module | Models |
|---|---|
| `SubscriptionFetch` | one fetch: main thread, watchdog, resolver threads, and the executor's workers |
| `FetchPool` | the abstract pool the build relies on |
| `NodeSelection`, `RuntimeTopology`, `PromotionContract` | pure: selecting and classifying nodes; the passes over the graph with validation and audit; the guard |
| `CandidateBuild` | the build: consuming fetches, compiling, qualification's losses, the guard |
| `EndpointAdmission`, `BrowsingAdmission`, `TransportAdmission`, `AiAdmission` | pure: what the evidence of each probe family admits and how it rewrites pools, groups and targets |
| `QualificationPipeline` | the stages over one candidate, their retry, failures and accounting |
| `ProbeCores` | the cores behind the probes |
| `MihomoCores` | the executables: download, verification, cache, matrix |
| `AiQualificationCache`, `AiQualification` | the cache of service verdicts (pure) and the AI qualification run after run |
| `SchedulerHistory` | the browsing history run after run |
| `OperationalSlo`, `ProductionMetrics`, `ProductionObservability` | the two bounded documents (pure) and the attempts recorded in them |
| `ReleaseTransaction` | the intent: documents, parser, phases, references, audit classifier (pure) |
| `VerifiedWrite`, `WriteOutcome` | one PUT with its answer and read-backs, and the contract of a write |
| `ReleaseBundle`, `ReleaseRegister` | the publisher, and its abstract promise: a live release and a rollback target that is always its immediate predecessor |
| `ReleaseBundleInvariant`, `ReleaseSettled` | the publisher's inductive invariants: of every attempt, and of attempts that start settled |
| `ReleaseRetentionInvariant`, `ReleaseReconciliationInvariant` | those of the two modules below |
| `ReleaseRetention` | the publisher with the journal, the inventory audit, planning and applying deletions |
| `ReleaseReconciliation` | the publisher observed by the reconciler |
| `ProductionLifecycle` | the production run: stages, phases, failures, preserved candidate, recorded outcome |
| `MC...` | finite instances for TLC |
| `...Proofs` | the proofs; `ReleaseOperationsProofs` has those of `VerifiedWrite`, `ReleaseRetention` and `ReleaseReconciliation`, `CandidateProofs` those of `CandidateBuild` and the graph, `QualificationProofs` those of `QualificationPipeline`, `ProbeCores` and `MihomoCores` |

### Fetching

`SubscriptionFetch` follows `fetch_subscription` statement by statement where a
timer can fall between two of them: connect, hand-over of the raw socket to the
watchdog, TLS wrap, hand-over of the wrapped one, handshake, request, body. `conn`
is the socket of the connection, `watched` and `taken` what the watchdog may
still interrupt and has taken to interrupt. A resolver is a thread of its own
(`resolver`, `answer`) that outlives its fetch when it is late; `free` is
`_DNS_SLOTS`. A server may answer, stay silent or send forever, and a resolver
may never return. `ImplementsPool` maps a fetch to the task of `FetchPool`, whose
fairness says that every task that starts ends; `CandidateBuild` uses the same
`FetchPool`, so the two levels fit.

### Candidate

A node is a key (everything but its name, which the fingerprint covers) and a
name; what a name tells (country, billing multiplier, status notice) are constant
functions. `RuntimeTopology` has one operator per pass and a condition under which
the pass refuses; `CandidateBuild` runs them in the code's order, each in a step,
so a refusal ends the build where it would. A graph keeps providers, groups with
their members and filters, and routes. A pool is filled in each of its regions;
its fallback takes only those its order names (`Chain`), which may be fewer. An
automatic group is over the nodes of a pool or over groups declared to be there
already (`Prebuilt`), and the hardened browsing surface is checked by itself
(`BrowsingSurfaceValid`) before the whole graph is (`Valid`).

### Qualification

A candidate in `QualificationPipeline` is the pool entries, the regional tiers,
the automatic groups over general nodes (the three that transport narrows, and
those of a region and of downloads, which only lose entries and are capped), the
members of the AI policy, the targets of the AI services and the rules that matter.
Each stage works on a copy of what the one before left; its action takes any
evidence the probes may return, passes it to the operators of its admission
module, and ends as the code classifies the failure. A core that rejects a
configuration, does not start, does not become ready or exits is a failure of its
own each time (`CoreReasons`), and so is a rewritten document the validator refuses
because an automatic group lost its last node. Browsing alone is tried twice, from
its own input, and only for a failure classified as transient.

`ProbeCores` is below that: where evidence comes from. A shard's thread takes two
ports, starts a core, waits until the controller answers and knows its nodes, and
then switches the selector and sends requests. The controller that answers is
whoever listens on the port. `through` is a ghost that remembers through which
node a verdict was really reached. A selector update whose answer is lost takes
effect at once or never. The DNS listener's port is left out.

`MihomoCores` keeps the executable and the metadata of a cache entry apart, as
they are written; `published` is a ghost with every digest GitHub showed under a
tag. `Upload` replaces assets at any moment.

### Cached verdicts and histories

`AiQualification`: one behaviour is a sequence of runs of `run_ai_qualification`.
`kv` is the cache document in KV, `work` the `next_cache_document` of the running
one, `pools` its `qualified_by_probe`. A run has a clock of its own, `drift` ahead
of real time, because the code compares `time.time()` of one machine with an epoch
another machine wrote; `passedAt` and `failedAt` are ghosts that hold the real
time of each node's last live probe.

`SchedulerHistory`: `store` is the document in KV, `history` what the run loaded,
`next` its own document, written before the candidate is rewritten and stored
after the commit. Averages are integers of one hundredth with the code's rounding;
ages count gaps between runs. The ghosts `failedRuns` and `calm` say what happened
in the runs that were stored.

`ProductionObservability` follows attempts of every ending through what they
leave in the SLO ring, the metrics and the scheduler evidence; `truth` and
`events` are ghosts of how they went.

### Releases

In `ReleaseBundle` each KV key is a variable. A configuration is a model value of
`Contents`, its SHA-256 an injective constant function `ReleaseIdOf`. `pc` is the
next step of the running attempt, `job` the locals of `publish_release_bundle`.
One action stands for one read or one verified write with the code that follows
it up to the next. A verified write has three outcomes: `Confirmed` (the bytes
were read back), `Refused` (the store does not change because of it),
`Unresolved` (`CommitUnknownError`; the write joins `inflight` and lands or
vanishes at any later moment). `VerifiedWrite` derives them from the answers of
the service and is shown to implement `WriteOutcome`, which says just that.
`report` is how the attempt ended and `base` a ghost of the live bytes at its
start. Initial states: an empty namespace, one whose production key predates
releases, and one a version-1 program left in the middle of an activation.
`Settled = TRUE` lets an attempt start only when nothing is in flight, as an
operator does who waits for the propagation window of `docs/publishing.md`.

`ReleaseRetention` adds the journal, a clock, the reviewed plan and the steps of
`apply_production_release_retention`: revalidation against a fresh plan, the
re-check of the intent before each deletion, the two deletions, the removal of
the records. `ReleaseReconciliation` adds a reader that collects the four keys in
the code's order, each read lagging or not, and keeps the verdict until the next
attempt.

`ProductionLifecycle`: `pc` is the stage; each stage has its success and its
failure, which `Raise` turns into the exception under way. `files` is the part of
the private directory that something later depends on. `Preserve` is the handler
of a `CommitUnknownError`, `Cleanup` the `finally`; `Interrupt` skips the handler
and not the cleanup, `Crash` skips both and leaves the directory to the next run.
Two parts modelled elsewhere are single steps: `Publish` has the outcomes of
`ReleaseBundle`, and `Verdicts` is what `ReleaseReconciliation` may conclude
("committed" only when it is so, which `ConclusionsAreFinal` shows). `settled` is
a ghost: whether the attempt began when no earlier write could still land.

## What the runs check

| Run | Shows |
|---|---|
| `settled` | three contents, three faults: a quiescent namespace passes the audit; reports are true and stay true; a published release is complete; intents move forward only; the refinement of `ReleaseRegister`; an interrupted release is finished under fair retries |
| `operations` | what is referenced is staged and the live bytes are accounted for, also when an old retention plan is applied or a write of an earlier attempt lands late; retention remembers what it left half-deleted; conclusions of the reconciler are not overtaken; the contract of a write |
| `promise` | **violated**: a failure that neither restores nor reports |
| `ai_cache` | two nodes, a cache of one entry, clocks that differ: published pools are proven, exclusions are recent, eviction keeps what was just recorded |
| `ai_cache_services` | one node, two services, a late write: admissions rest on a live pass within its lifetime; one service's update keeps the other's verdict |
| `ai_blackout` | **violated**: a systemic verdict writes nothing to the cache |
| `production` | what is published was let through against the bytes it replaces; an unsettled candidate is kept with exactly the bytes publication replaced; outcomes are the attempt's own; derived state follows a commit; the ring and the failure streak tell what happened |
| `lifecycle_degradation` | **violated**: a failure after the commit is degraded observability |
| `history` | a demoted node comes back by staying good, failures count stored runs, a good node does not stay demoted |
| `candidate` | pools are exact whatever the downloads' order; no route opens when its nodes are gone; what is compiled is accepted; revoked sources do not block a release; a hostname is refused on corroborated evidence; the last browsing attempt decides; pools hold what was admitted and resolve, and so do the services' targets; the accounting explains every lost source; a verdict is about its node; a candidate is validated with what GitHub published |
| `fetch` | the deadline cuts every connection, slots are conserved, the refinement of `FetchPool` with its liveness |
| `probe_ports` | **violated**: the same verdicts when ports are handed out as the system does |

Parts that share no state are checked in one run: `operations`, `production` and
`candidate` choose a part (a lane) at the start and the others keep one value, so
that a behaviour is one of the chosen module and nothing is interleaved that the
code does not interleave.

### Bounds

* Three contents are the smallest number with a candidate, a predecessor and a
  release that is neither. `MaxFaults` bounds failed reads, refused and unresolved
  writes and crashes together; two are needed for a compensation that fails after
  a refused write, a third for the recovery of what it left. Attempts are not
  bounded. The lane of late writes uses two of the contents, two faults; retention
  `RetentionFaults`, one fault, a journal of two (it fills up) and a clock that
  passes the window; reconciliation two faults.
* The AI runs go to time 4 with lifetimes of 1 and 0: a verdict can be probed,
  written, kept past its lifetime, dropped and probed again. Two regions are the
  least a systemic verdict needs, two services the least a shared entry needs.
* `production`: two contents are a candidate and what production serves besides
  it; runs are unbounded. The ring and the lists hold two entries over a horizon of
  three attempts, so each overflows.
* `history`: two nodes and one record of room; 100, 80 and 90 are the code's
  thresholds (a million, 800,000 and 900,000), two runs make a record mature, two
  failures demote; a record may become too old for preference before it is dropped.
* `candidate`: two sources with different permissions and overlapping nodes, three
  pools, one with a region outside its fallback, groups over nodes, over groups and
  over regions that may be empty, names of every class; three nodes over two regions with a hostname, a node
  in several pools and a region served by one node; two shards of two nodes and
  one, four ports, one core that exits; two pinned tags and a prerelease tag that
  shares a cache name, one replaced asset, two faults, three runs. `MaxLost` bounds
  the pool entries qualification removes before the guard.
* `fetch`: two sources, two workers, one resolver slot, one redirect: a slot is
  contended and a socket is replaced.

Deadlock is not checked where a behaviour ends or is cut by a bound: a candidate
that was judged, probes with a result, a download after its last run, fetches that
all ended, faults and clocks that are used up.

### Fairness

* `ReleaseBundle.FairSpec`: a running attempt goes on; unresolved writes are
  resolved one way or the other; every candidate is tried again and again (strong
  fairness of `Begin(c)`: an operator re-runs the workflow with the preserved
  candidate). The last is an assumption about operators: a pending intent blocks
  every other candidate (`release_bundle.py:266`), so the code alone promises
  nothing.
* `SchedulerHistory.FairSpec`: production runs keep coming. `StableNodeReturns`
  assumes of a node that it is stable in runs that are stored.
* `FetchFairness`: threads and timers run, and a resolver that answered gives its
  slot back. Servers and resolvers owe nothing, so every fetch ends by its
  deadline.

### The findings

`promise`: `docs/production-maturity.md:26` says that a failed transaction must
leave the previous bytes intact or report incomplete compensation. When the write
of the `commit` phase is definitely refused after the activation was confirmed
(`release_bundle.py:617`), a plain `PublicationError` leaves the function: no
compensation runs, none is reported, the candidate is live and the intent stays
pending. The store is recoverable (`settled` shows it), so this is a matter of
what the failure claims.

`ai_blackout`: `docs/runtime-hardening.md:109` says that under a systemic verdict
the qualification writes nothing to the cache. That holds for a verdict of the
sentinel gate. A verdict of the check after the sweep comes too late: the live
names were chosen for the cache at `ai_application.py:546`, and
`update_ai_cache_service` records all of them as failed (`ai_application.py:676`).

`lifecycle_degradation`: `docs/publishing.md:137` says that a failure after the
commit is reported as degraded observability. The proof, the manifest and every
write to KV are degraded to warnings. The local reports written between them are
not (`production_release_stage.py:142`, `production_lifecycle.py:312`, 333, 342 and
746, `production_observability.py:322`): the run ends with an exception and the
attempt is recorded as failed, with the candidate live.

`probe_ports`: `mihomo_probe_runtime.py:25` says that `free_tcp_port` reserves a
port. It binds, closes and returns the number, so until the core listens the
system may hand it out again; shards start concurrently and share one controller
secret. A second core that cannot bind its mixed port runs on, its selector is
confirmed over its own controller, and its node passes on a request that went
through a node of the other shard. `candidate` shows, and `QualificationProofs`
proves, that this is the only way: with reserved ports verdicts hold whatever is
lost, exits or is restarted.

A remark that is no run: `docs/runtime-hardening.md:133` describes the demotion of
a node as debounced; the threshold on the success average
(`scheduler_history.py`, `_MIN_SUCCESS_EMA`) can demote a node whose last run was
good.

## What is proved

Each theorem holds for every value of the constants under the named assumptions of
its module, which TLC evaluates in the runs. Those that assume more say so in their
statement: `Settled` (attempts start with no write in flight) and `Reserved` (ports
are handed out to one process at a time).

* `ReleaseBundleProofs`: `InvariantHolds` (`Spec => []IInv`), and from it types,
  references that are always staged and live bytes that are always accounted for,
  for `Settled` true or false. `ReferencesAreStaged` alone is not inductive: it does not
  say that the release an attempt is about to name is staged. `StoreInv` says that
  objects are addressed by their bytes and references, in the store and in flight,
  are staged; `JobInv` that identities in the locals are staged from the step on
  at which they may be written; `LiveInv` that the live bytes are staged or no
  write is under way that could end the pre-release state. `Staged` only grows, so
  a step can only fail by naming a release too early.
* `ReleaseBundleProofs` too, under `Settled`: `ReportIsTruthful`,
  `PublishedIsComplete`, `QuiescentIsHealthy`, `IntentIsMonotonic`, and every step
  a step or a stutter of `ReleaseRegister` (`PublisherIsRegister`). None of them is
  inductive: what a report says stays true only because of what the writes still in
  flight can do. `SettledInv` says which they are. An attempt under way has the
  keys to itself: writes in flight repeat what is there (`InflightInv`), so each
  step knows what the keys hold (`BeforeInv`, `SwitchInv`, `UndoInv`). Between
  attempts at most one write can still change anything (`Late`), and whatever
  becomes of it the keys tell how far the switch had come (`Switching`,
  `Closable`). Each action has a lemma: it preserves the invariant and is one of
  five moves, from which monotonicity and the refinement follow.
  `SwitchesAssumption` keeps the register's own "no switch" apart from a switch.
* `ReleaseOperationsProofs`:
  `WriteKeepsContract`, the refinement of `WriteOutcome`, from the fact that an
  answer is classified as an error only if it proves that the PUT did not run.
  Under `Settled`, `ReferencesAreStaged`, `LiveIsAccountedFor` and
  `PartialDeletionIsRemembered` of retention, where `Staged` shrinks: while a plan
  is applied, and while one of its deletions may still land, nobody writes the
  store (`Exclusive`), so what the plan found unprotected stays so
  (`ApplicationInv`), and a manifest without configuration has a record
  (`JournalInv`). And `ConclusionsAreFinal` of reconciliation: the reader sees four
  keys at four instants, so what it holds is not what the store holds.
  `PointersInOrder` says that a switch moves the previous pointer before the
  current one, also by a late write; `SnapshotInv` what a lagging read can return;
  `ReaderInv` what each reading, fresh or not, tells of the present.
* `AiQualificationProofs`: `Admissions`, `PublishedPools`, `Exclusions`. They say
  nothing of the verdicts a later run will find; `CachesAreJustified` does: in
  every document that may ever be read a verdict is no newer than the probe it
  rests on, plus the difference of two clocks. The lookup bounds its age by its
  lifetime, and the two bounds add up.
  `OtherVerdictsSurvive` and `NewVerdictsSurvive` say what an update may lose.
  A usable verdict keeps its node's entry current (`UsableIsCurrent`), since every
  verdict has the time of a sweep (`DatedInv`) and the policy bounds each lifetime by
  a day, below the week after which an entry is dropped (`LifetimeAssumption`). At
  capacity no kept entry is older than one given up, and what was recorded is
  the newest, so were one of its entries lost, everything kept would be recorded
  too, which counting refutes (`OlderGoFirst`, for finitely many nodes).
* `ProductionProofs`: every property of the lifecycle. `LInv` says what
  holds at each stage: nothing is captured or committed before the commit, the
  guard's report and the captured baseline are the attempt's own once the
  directory was prepared (which a crash would otherwise break), and production
  does not move between the fetch of the baseline and publication of an attempt
  that began settled.
  And `RingIsTrue` of the histories: `RingInv` relates what is stored, readable or not,
  to the attempts that reached it, entry by entry, and adding one more shifts both
  (`RingGrows`). `TracesInv` says that a pipeline summary exists only of an attempt
  that raised no rejection and whose identity is the qualified candidate's, so
  whatever is recorded from the files later tells of the attempt that left them.
  `StreakIsTrue` compares two lists that lose entries in different ways with one
  history: `StreakInv` says that the failures no older than the newest run kept are
  the latest ones of their list and as many as followed the last success
  (`Trailing`, `LastSuccess`). It needs that nothing is dated ahead of the clock and
  that a failure is only recorded when its attempt ends (`Dated`). That sorting
  the two lists puts those failures last follows from the places a stable sort
  assigns (`PlacesAreFilled`): each to one event.
* `SubscriptionFetchProofs`: `DeadlinesCut`, `SlotsConserved`, and that every step
  of the fetches is a step or a stutter of the abstract pool. `DeadlinesCut` needs
  `Reached`: wherever the timer falls, a connection is among the sockets watched or
  taken, or is about to be handed over. Slots need that a hop that was not reached
  has no resolver (`FreshInv`), else starting one could overwrite another's slot.
* `CandidateProofs`, of the build: `PoolsAlwaysExact`, `PoolsServeTheirUse` and
  `RevokedSourcesNeverBlock`.
  `BuildInv` says that until the guard a candidate follows from what was taken:
  the nodes are the deduplicated offers, each pass keeps the providers generation
  made of them, qualification only shrinks them, and a verdict is about what it
  left. Exactness is then a fact about the operators. Occurrences of one node are
  totally ordered by source, country and name (`PrecedesLexically`), so selection
  finds the first eligible one (`FirstPrecedes`), and that is the first source that
  may offer the node (`SelectionIsExact`). A ratio of sources is the only thing that
  blocks for one (`SourceRatioBlocks`), and a subset of finitely many does not
  collapse. `SelectionAssumption` has the order of the sources and that every class
  is a known country: classification folds over aliases, so that it does is induction
  over data, which TLC evaluates for the instance. `PoolsAssumption` (identifiers
  of pools are distinct) and `GuardAssumption` (a ratio is at most one) are what
  the loader and the schema enforce.
* `CandidateProofs`, of the graph: `RoutesNeverFailOpen`, to any depth of groups. The
  property is about what is reachable in a finished graph, after six passes that
  rewrite it, so `GraphInv` says what the graph is worth after each: what generation
  makes (`Raw`); once groups have their types, that each has something to choose
  (`Typed`); and from the exclusions on `Guarded`, five facts that each later pass
  keeps: groups are finitely many and bear their names (`Grounded`), each that is not
  automatic has something to choose (`Standing`), DIRECT is declared
  (`DirectDeclared`), a copy leads to REJECT or to copies that
  avoid the same sources (`Sealed`), and who excludes sources leads to copies alone
  (`Diverted`). None of them speaks of depth. The depth is dealt with once: `Below`
  iterates as often as there are groups, which is enough to be the least closed
  set (a set that grew at each iteration would outnumber them), so a set closed
  under members that holds the start holds all that is below it. With it, `Sealed`
  carries an exclusion down. That below each group something can be chosen is an
  argument by descent: in a graph without a cycle, which is what validation
  checks, what is below a member is strictly less.
  It needs two assumptions. `DeclarationsAssumption` is what the schema and the
  loader enforce. `ManifestAssumption` is how `rules/acl4ssr.yaml` declares its
  groups, and nothing in the code demands it: a selector all of whose members are
  regional groups that may be omitted would be left with none when those regions
  are empty. The validator refuses that of a public selector, but accepts a hidden
  one (`validator.py:220`), of which the theorem would be false: the declarations
  are what keeps one from arising.
* `QualificationProofs`, of the pipeline: `NegativesAreCorroborated`, `LastAttemptsDecide`,
  `PoolsAlwaysHoldAdmitted` and two more, for any candidate that generation can hand over
  (`CandidateAssumption`), any evidence and any history. The pools are rewritten
  five times after browsing admitted their nodes, so `PipelineInv` says what each
  rewrite may rely on: until then the document is the candidate less some entries
  (`Shrunk`), afterwards the two tiers of a region split exactly what was admitted
  of it, the reserve never empty (`Split`). Removing entries preserves a split only
  because no stage after browsing removes one of its entries (`Carried`), and
  capping partly reachable endpoints is a split of the same nodes (`CapSplits`).
  `LastAttemptsDecide` is not inductive alone: it needs that an attempt starts from
  the preflight's document, with nothing left of the attempt before
  (`DocumentInv`). Corroboration is a fact about the resolver list
  (`UnresolvedIsCorroborated`): two listed positions that remain after the first
  position of each authority is taken have different authorities
  (`EndpointsDiffer`), by the least index of each (`LeastIndex`).
  `ServicesAlwaysReachAdmitted` and `AccountingAlwaysHolds` need a second invariant,
  `RouteInv`: no stage before the services touches the rules or the AI policy, and what a stage recorded
  stays what it left of the inventory before (`Follows`). A list of countries then
  holds all that are available whatever is preferred (`CountriesListed`), or listed by
  the AI policy where no preference is declared (`CountriesOrdered`), and
  the lock stands before OpenAI's rule and that before the generic one, wherever the
  two stood (`ServiceRulesPrecede`, `RouteLocked`), each exactly once as rewriting
  requires. What the accounting counts as remaining is what is there
  (`RemainingIsLeft`, `LeftInTurn`); the only stage that adds entries adds them for
  nodes it has, so it loses no source and every loss has a stage (`AccountingSound`).
* `QualificationProofs`, of the cores: `BinariesVerified`. The cache is only worth its metadata:
  `CacheInv` says that an entry's metadata names what was published for its tag,
  whatever the executable beside it is by now, which is why reuse compares both;
  `PlanInv` that a run has validated every tag it no longer plans. And
  `VerdictsSound`, from `Reserved`: `HandedInv`, `HeldApart`, `BoundInv` and
  `EndedInv` together make the controller and the mixed port of a shard at work its
  own core's or nobody's; `SelectedInv` then keeps the confirmed node selected
  until the request.
* `SchedulerHistoryProofs`: `FailuresCounted`. Between runs the property is about
  the stored document only; `RunInv` adds that the run's own document is one update
  of what was loaded, however many attempts its probe took. And `ReturnsAreEarned`,
  for thresholds that leave room for hysteresis (`HysteresisAssumption`: one stable
  run after a demotion, or after a reserve run of a demoted node, does not reach the
  threshold of return): `Plausible` bounds the average of a record that is not
  favoured by the number of stable runs it has behind it.

## What is model-checked only

Liveness, and the fairness of `FetchPool`; of the build, `CompilationIsSound`, the
one invariant no theorem states. It says that the validator and the audit never
stop a run for what the passes made, which is not so for every declaration: a
cycle among declared groups, or a rule that names one nobody declared, is
stopped, as it should be. For the declared groups of an instance TLC decides it.
Liveness under fairness, ENABLED and induction over data are out of
the prover's reach. Under `Settled = FALSE` what is proved of the publisher is
`ReferencesAreStaged` and `LiveIsAccountedFor`: a write left over from an earlier
attempt may undo a finished one, which no client can prevent.

## Limits and assumptions

* Reads return the present value in `ReleaseBundle`; lagging reads are in
  `VerifiedWrite` and `ReleaseReconciliation`. Two steps read several keys at once
  (`RetireCheck`, `Check`). The journal's own write does not land late.
* Writers outside the concurrency group are excluded, as the documents ask.
* `PromotedAgainstLive` is for attempts that began settled: the code fetches the
  guard's baseline once and does not compare it with what publication reads later.
  Removing a directory succeeds (`rmtree` ignores its errors).
* In `AiQualification` one endpoint stands for the critical endpoints of a service;
  `AiAdmission` has them all.
* `CompilationIsSound` excepts a declared fallback, or automatic group over groups,
  whose members are all regional groups that were omitted: the code refuses such a
  candidate at validation, by design. The audited project declares the download
  surface.
* `SourceExclusions` makes all copies from the graph as the pass found it; the code
  rewrites one declaration after the other (`routing_policy.py:206-273`). The two
  agree unless a declaration that excludes sources leads to a group another one
  rewrites, whose exclusions would then add up. `ManifestAssumption` has that none
  does, and rules/acl4ssr.yaml declares no exclusion at all, so nothing nests.
  Following the order would take a fold over the declarations, and what a fold
  computes for every input is induction over data.
* The validator exempts an empty stable tier that is filtered to nothing and
  rejects (`validator.py:207`). Only stages after the compilation write one, so the
  exemption is in the pipeline (`EmptyTier`) and not in `EmptyAutomatic`.
* The application always hands a region preference to the service qualification. The
  order of countries without one (`ai_service_qualification.py:291`) is in
  `CountryOrder` and covered by the theorems, but the run declares a preference. No
  property is about the order itself.
* `Cloneable` takes a fallback over groups that can be copied; the code also descends
  into a fallback below a fallback, which no pass puts behind an anchor.
* The guard compares ratios as integers; rounding to four places is left out.
* In `ProbeCores` the passing lane and the theorem take the ports of running probes
  to be distinct, which `probe_ports` shows the system does not guarantee.
* Malformed pointers, intents and journals are not among the inputs: no code path
  writes one, and the parsers refuse them.

## Not modelled

* Text and wire formats: `subscription_parser.py`, `uri_parser.py`, declarations
  and their schema, the serializer, `pinned_fetch.py`. The models take parsed
  results, or an error, as input.
* Audits of one finished document (DNS, leaks, routing shadow, client contracts):
  predicates without state or order.
* Of generation, chains (`_add_chain`), `build_web_general_runtime` (the groups it
  adds before the others get their types), the audit of the download surface,
  explicit filters of a custom project. Of the pipeline, carrier evidence and quality tiers of reports.
* Rates, percentiles and trends of the SLO and metrics summaries; diagnostics,
  proofs, manifests, preflight and release-readiness reports; the publication
  decision, which reads the environment; the command line.
* Namespace resolution and key listing of the KV client.

## What a next step would be

Replacing the `Publish` step of the lifecycle by `ReleaseBundle` itself; stating which
declarations make `CompilationIsSound` true for every number of groups, and proving it.
