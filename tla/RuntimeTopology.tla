-------------------------- MODULE RuntimeTopology --------------------------
(* compile_runtime_graph: the providers, groups and routes of a candidate,   *)
(* built from the deduplicated nodes and the declared pools, groups and      *)
(* rules, and the static validation of the result. A graph is a record of    *)
(* providers (the nodes of one pool in one region), groups and routes. Each  *)
(* pass is an operator on it and the condition under which it refuses.       *)
EXTENDS NodeSelection

CONSTANTS Pools,     \* the enabled pools, general first, then by priority
          GroupSpecs, \* the declared external groups in file order
          RouteSpecs, \* the declared rules and the final route
          Browsing    \* the browsing surface: its public and automatic group, its pool,
                      \* and the ids of the canonical public groups

ASSUME PoolsAssumption == \A i, j \in DOMAIN Pools : Pools[i].id = Pools[j].id => i = j

Direct == <<"DIRECT">>
Reject == <<"REJECT">>
Builtins == {Direct, Reject}

AutoName(pool, region) == <<"auto", pool, region>>
FallbackName(pool) == <<"fallback", pool>>
ClosedName(pool) == <<"closed", pool>>
PoolName(pool) == <<"pool", pool>>
GroupName(id) == <<"group", id>>
CloneName(anchor, excluded) == <<"clone", anchor, excluded>>
ClosedCloneName(excluded) == <<"closed clone", excluded>>

None == <<"none">>

\* Declarations are finite, an id is declared once, and a member is a built-in,
\* a pool, or the name of a pool or a group (acl4ssr.schema.json, load_project).
ASSUME DeclarationsAssumption ==
  /\ IsFiniteSet(DOMAIN Pools) /\ \A i \in DOMAIN Pools : IsFiniteSet(Pools[i].regions)
  /\ Len(GroupSpecs) \in Nat /\ DOMAIN GroupSpecs = 1 .. Len(GroupSpecs) /\ IsFiniteSet(DOMAIN RouteSpecs)
  /\ \A i, j \in DOMAIN GroupSpecs : GroupSpecs[i].id = GroupSpecs[j].id => i = j
  /\ \A i \in DOMAIN GroupSpecs :
       /\ IsFiniteSet(GroupSpecs[i].members)
       /\ \A m \in GroupSpecs[i].members \cup ({GroupSpecs[i].route} \ {None}) :
            \/ m \in {<<"builtin", b>> : b \in Builtins}
            \/ m[1] = "group" /\ m[2][1] \in {"group", "pool"}
            \/ m[1] = "pool"

\* How rules/acl4ssr.yaml declares its groups, which no schema demands: what a
\* deterministic route or a selector leads to is never only groups that may be
\* omitted, nor only a region of a pool; an automatic group is over nodes or over
\* groups; who excludes a source attaches no pool and leads, like a route that
\* does, to no group that excludes one too; the web may go direct.
ASSUME ManifestAssumption ==
  \A i \in DOMAIN GroupSpecs :
    LET s == GroupSpecs[i]
        lasting(m) == m[1] = "group" =>
                        \A j \in DOMAIN GroupSpecs : GroupSpecs[j].omit => m[2] # GroupName(GroupSpecs[j].id)
    IN  /\ s.route # None => lasting(s.route)
        /\ s.route = None /\ s.type \notin {"url-test", "fallback"} =>
             (\E m \in s.members : lasting(m)) \/ (s.provider # "" /\ s.region \in {"", "*"})
        /\ s.type \in {"url-test", "fallback"} => s.members = {} \/ s.provider = ""
        /\ s.excluded # {} => s.provider = "" /\ s.id \notin {Browsing.public, Browsing.automatic}
        /\ s.id = Browsing.public => <<"builtin", Direct>> \in s.members
        /\ s.excluded # {} =>
             /\ \A j \in DOMAIN GroupSpecs : GroupSpecs[j].excluded # {} => <<"group", GroupName(s.id)>> \notin GroupSpecs[j].members
             /\ \A j \in DOMAIN RouteSpecs : RouteSpecs[j].excluded # {} => RouteSpecs[j].target # GroupName(s.id)

Names == DOMAIN Multiplier

\* only: the node names its filter, when it is filtered, lets through;
\* without: the sources its exclude-filter keeps out.
Group(type, hidden, members, uses) ==
  [type |-> type, hidden |-> hidden, members |-> members, uses |-> uses,
   filtered |-> FALSE, only |-> Names, without |-> {}]

EmptyGraph ==
  [providers |-> [p \in {} |-> {}], groups |-> [n \in {} |-> {}], routes |-> [r \in {} |-> Direct], anchors |-> [p \in {} |-> Direct]]

Only(x, value) == [k \in {x} |-> value]
Over(f, g) == [x \in DOMAIN f \cup DOMAIN g |-> IF x \in DOMAIN f THEN f[x] ELSE g[x]]
Merged(maps) == [x \in UNION {DOMAIN m : m \in maps} |-> (CHOOSE m \in maps : x \in DOMAIN m)[x]]

---------------------------------------------------------------------------
(* Queries of RuntimeGraph.                                                  *)

\* Groups reachable over group references, the start included.
Below(g, starts) ==
  LET reach[i \in Nat] ==
        IF i = 0 THEN starts \cap DOMAIN g.groups
        ELSE LET found == reach[i - 1]
             IN  found \cup UNION {g.groups[n].members \cap DOMAIN g.groups : n \in found}
  IN  reach[Cardinality(DOMAIN g.groups)]

\* A cyclic reference: a group below one of its own members.
Cyclic(g) == \E n \in DOMAIN g.groups : n \in Below(g, g.groups[n].members)

ProviderOrder(g, start) ==
  (UNION {g.groups[n].uses : n \in Below(g, {start})}) \cap DOMAIN g.providers

Passes(group, node) == node.name \in group.only /\ node.source \notin group.without

\* effective_leaf_proxies: what the core can still choose below a group.
Leaves(g, start) ==
  UNION {UNION {{<<p, node>> : node \in {x \in g.providers[p] : Passes(g.groups[n], x)}} :
                p \in g.groups[n].uses \cap DOMAIN g.providers} : n \in Below(g, {start})}

---------------------------------------------------------------------------
(* generate_config.                                                          *)

\* The regions in which a pool has a node, and those its fallback may take.
Filled(pool, nodes) == {r \in pool.regions : SelectNodes(nodes, pool, r) # {}}
Chain(pool, nodes) == Filled(pool, nodes) \cap pool.order

Anchor(pool, nodes) ==
  LET chain == Chain(pool, nodes)
  IN CASE chain = {}             -> ClosedName(pool.id)
       [] Cardinality(chain) = 1 -> AutoName(pool.id, CHOOSE r \in chain : TRUE)
       [] OTHER                  -> FallbackName(pool.id)

AnchorGroupOpen(pool, chain) ==
  IF chain = {} THEN Group("select", TRUE, {Direct}, {})
  ELSE Group("fallback", TRUE, {AutoName(pool.id, r) : r \in chain}, {})

\* A fallback over several regions, or a group that rejects everything.
AnchorGroup(pool, chain) ==
  IF chain = {} THEN Group("select", TRUE, {Reject}, {})
  ELSE Group("fallback", TRUE, {AutoName(pool.id, r) : r \in chain}, {})

\* A provider and an automatic group for every region that has a node, the
\* anchor, and the public group that stands before it.
PoolGroups(pool, nodes) ==
  LET auto   == [n \in {AutoName(pool.id, r) : r \in Filled(pool, nodes)} |-> Group("url-test", TRUE, {}, {<<n[2], n[3]>>})]
      anchor == Anchor(pool, nodes)
      public == Only(PoolName(pool.id), Group("select", FALSE, {anchor}, {}))
  IN  IF anchor \in DOMAIN auto THEN Over(public, auto)
      ELSE Over(Over(public, auto), Only(anchor, AnchorGroup(pool, Chain(pool, nodes))))

PoolProviders(pool, nodes) ==
  [p \in {<<pool.id, r>> : r \in Filled(pool, nodes)} |-> SelectNodes(nodes, pool, p[2])]

EnabledPools == {Pools[i] : i \in DOMAIN Pools}

\* A member of an external group: a built-in, a group by name, or the anchor
\* of a pool.
Member(anchors, m) ==
  IF m[1] = "pool" THEN IF m[2] \in DOMAIN anchors THEN anchors[m[2]] ELSE None ELSE m[2]

External == {GroupSpecs[i] : i \in DOMAIN GroupSpecs}

\* The groups whose members resolve, round after round, until none is added.
Resolved(anchors, known) ==
  LET round[i \in Nat] ==
        IF i = 0 THEN {}
        ELSE LET found == round[i - 1]
                 names == Builtins \cup known \cup {GroupName(s.id) : s \in found}
             IN  {s \in External : \A m \in s.members : Member(anchors, m) \in names}
  IN  round[Len(GroupSpecs)]

PoolRefused(nodes) == \E pool \in EnabledPools : pool.required /\ Chain(pool, nodes) = {}

Generated(nodes) ==
  LET anchors  == [id \in {pool.id : pool \in EnabledPools} |-> Anchor(CHOOSE pool \in EnabledPools : pool.id = id, nodes)]
      pools    == Merged({PoolGroups(pool, nodes) : pool \in EnabledPools})
      external == Merged({Only(GroupName(s.id), Group("select", FALSE, {Member(anchors, m) : m \in s.members}, {})) :
                          s \in Resolved(anchors, DOMAIN pools)})
  IN  [providers |-> Merged({PoolProviders(pool, nodes) : pool \in EnabledPools}),
       groups    |-> Over(pools, external),
       routes    |-> [i \in DOMAIN RouteSpecs |-> RouteSpecs[i].target],
       anchors   |-> anchors]

GenerationRefused(nodes, g) ==
  \/ PoolRefused(nodes)
  \/ \E s \in External : GroupName(s.id) \notin DOMAIN g.groups
  \/ \E i \in DOMAIN g.routes : g.routes[i] \notin Builtins \cup DOMAIN g.groups

---------------------------------------------------------------------------
(* apply_acl4ssr_group_semantics.                                            *)

\* A deterministic route has one next hop whatever a user selected before.
RouteMember(m) == IF m[1] = "pool" THEN PoolName(m[2]) ELSE m[2]

Region(spec) == IF spec.region \in {"", "*"} THEN Names ELSE AliasNames(spec.region)

\* The leaves of its pool that the filter of a regional group lets through.
Regional(g, spec) == {leaf \in Leaves(g, PoolName(spec.provider)) : leaf[2].name \in Region(spec)}

Retyped(g, spec) ==
  LET old    == g.groups[GroupName(spec.id)]
      typed  == [old EXCEPT !.hidden = @ \/ spec.hidden, !.type = spec.type]
  IN CASE spec.route # None -> Group("select", TRUE, {RouteMember(spec.route)}, {})
       [] spec.route = None /\ spec.provider # "" ->
            [typed EXCEPT !.uses = ProviderOrder(g, PoolName(spec.provider)),
                          !.only = Region(spec), !.filtered = spec.region # ""]
       [] OTHER -> typed

\* An automatic group without a pool is over groups declared to exist already.
Prebuilt(g, spec) ==
  LET members == g.groups[GroupName(spec.id)].members
  IN  spec.prebuilt /\ members # {} /\ members \subseteq DOMAIN g.groups

RetypeRefused(g, spec) ==
  IF spec.route # None THEN ~spec.hidden \/ RouteMember(spec.route) \notin Builtins \cup DOMAIN g.groups
  ELSE \/ spec.provider # "" /\ ProviderOrder(g, PoolName(spec.provider)) = {}
       \/ spec.type = "url-test" /\ spec.provider = "" /\ ~Prebuilt(g, spec)
       \/ spec.type = "url-test" /\ spec.provider # "" /\ ~spec.omit /\ Regional(g, spec) = {}
       \/ spec.type = "fallback" /\ spec.members = {}

SemanticsRefused(g) == \E s \in External : RetypeRefused(g, s)

\* Regional groups declared on_empty: omit that have no leaf.
Omitted(g) ==
  {GroupName(s.id) : s \in {s \in External : /\ s.route = None /\ s.type = "url-test"
                                             /\ s.omit /\ Regional(g, s) = {}}}

\* The inventories are hidden, every declared group is typed, and what is
\* left empty disappears from the members of the others.
GroupSemantics(g) ==
  LET inventories == {PoolName(pool.id) : pool \in {pool \in EnabledPools : pool.internal}}
      gone        == Omitted(g)
      typed(n)    == IF \E s \in External : GroupName(s.id) = n
                     THEN Retyped(g, CHOOSE s \in External : GroupName(s.id) = n)
                     ELSE [g.groups[n] EXCEPT !.hidden = @ \/ n \in inventories]
  IN  [g EXCEPT !.groups = [n \in DOMAIN @ \ gone |-> [typed(n) EXCEPT !.members = @ \ gone]]]

---------------------------------------------------------------------------
(* apply_acl4ssr_source_exclusions: a route that must avoid a source gets a  *)
(* filtered copy of its anchor, and nothing but REJECT when no node is left. *)

Survives(g, auto, excluded) ==
  /\ g.groups[auto].type = "url-test"
  /\ \E p \in g.groups[auto].uses : \E node \in g.providers[p] : node.source \notin excluded

CopiesKeepingRest(g, anchor, excluded) ==
  LET autos == IF g.groups[anchor].type = "fallback" THEN g.groups[anchor].members ELSE {anchor}
      left  == {n \in autos : Survives(g, n, excluded)}
      some  == [c \in {CloneName(n, excluded) : n \in left} |-> [g.groups[c[2]] EXCEPT !.without = @ \cup excluded]]
  IN CASE left = {} -> Only(ClosedCloneName(excluded), Group("select", TRUE, {Reject}, {}))
       [] left = {anchor} -> some
       [] OTHER -> Over(Only(CloneName(anchor, excluded), [g.groups[anchor] EXCEPT !.members = DOMAIN some \cup (autos \ left)]), some)

\* The copies a filtered anchor needs, under the names of the code.
Copies(g, anchor, excluded) ==
  LET autos == IF g.groups[anchor].type = "fallback" THEN g.groups[anchor].members ELSE {anchor}
      left  == {n \in autos : Survives(g, n, excluded)}
      some  == [c \in {CloneName(n, excluded) : n \in left} |-> [g.groups[c[2]] EXCEPT !.without = @ \cup excluded]]
  IN  IF left = {} THEN Only(ClosedCloneName(excluded), Group("select", TRUE, {Reject}, {}))
      ELSE IF Cardinality(left) = 1 THEN some
      ELSE Over(Only(CloneName(anchor, excluded), [g.groups[anchor] EXCEPT !.members = DOMAIN some]), some)

\* The one copy the reference becomes: the only one no other copy uses.
CopyOf(copies) == CHOOSE n \in DOMAIN copies : \A c \in DOMAIN copies : n \notin copies[c].members

\* filtered_reference: a public group stands for its only member.
Behind(g, reference) ==
  IF g.groups[reference].hidden THEN reference ELSE CHOOSE m \in g.groups[reference].members : TRUE

SingleCloneable(g, n) ==
  /\ n \in DOMAIN g.groups /\ g.groups[n].hidden
  /\ \/ g.groups[n].type = "url-test" /\ g.groups[n].uses # {}
     \/ g.groups[n].type = "select" /\ g.groups[n].members = {Reject}

\* clone_hidden_anchor accepts such a group, or a hidden fallback over them.
Cloneable(g, anchor) ==
  \/ SingleCloneable(g, anchor)
  \/ /\ g.groups[anchor].hidden /\ g.groups[anchor].type = "fallback" /\ g.groups[anchor].members # {}
     /\ \A m \in g.groups[anchor].members : SingleCloneable(g, m)

Filterable(g, reference) ==
  /\ reference \in DOMAIN g.groups
  /\ g.groups[reference].hidden \/ Cardinality(g.groups[reference].members) = 1
  /\ Behind(g, reference) \in DOMAIN g.groups
  /\ Cloneable(g, Behind(g, reference))

Excluding == {s \in External : s.excluded # {}}
ExcludingRoutes == {i \in DOMAIN RouteSpecs : RouteSpecs[i].excluded # {}}

ExclusionsRefused(g) ==
  \/ \E s \in Excluding :
       \/ GroupName(s.id) \notin DOMAIN g.groups
       \/ g.groups[GroupName(s.id)].hidden
       \/ g.groups[GroupName(s.id)].members \subseteq Builtins
       \/ \E m \in g.groups[GroupName(s.id)].members \ Builtins : ~Filterable(g, m)
  \/ \E i \in ExcludingRoutes : ~Filterable(g, g.routes[i])

\* The code rewrites one declaration after the other. No declaration leads to a
\* group another one rewrites (ManifestAssumption) and a copy is never a member
\* that is declared, so each finds its anchor as this pass found it.
SourceExclusions(g) ==
  LET copies(m, spec)  == Copies(g, Behind(g, m), spec.excluded)
      copied(m, spec)  == IF m \in Builtins THEN m ELSE CopyOf(copies(m, spec))
      rewritten(n) ==
        IF \E s \in Excluding : GroupName(s.id) = n
        THEN LET spec == CHOOSE s \in Excluding : GroupName(s.id) = n
             IN  [g.groups[n] EXCEPT !.members = {copied(m, spec) : m \in @}]
        ELSE g.groups[n]
      added == {copies(g.routes[i], RouteSpecs[i]) : i \in ExcludingRoutes}
               \cup UNION {{copies(m, s) : m \in g.groups[GroupName(s.id)].members \ Builtins} : s \in Excluding}
  IN  [g EXCEPT !.groups = Over([n \in DOMAIN @ |-> rewritten(n)], Merged(added)),
                !.routes = [i \in DOMAIN @ |-> IF i \in ExcludingRoutes THEN copied(@[i], RouteSpecs[i]) ELSE @[i]]]

---------------------------------------------------------------------------
(* The end of the compilation, and validate_generated_config.                *)

\* A pool's public selector also offers the nodes behind its anchor.
ExposeProviders(g) ==
  LET declared == {GroupName(s.id) : s \in External}
      shown(n) == /\ ~g.groups[n].hidden /\ n \notin declared
                  /\ Cardinality(g.groups[n].members) = 1
      behind(n) == ProviderOrder(g, CHOOSE m \in g.groups[n].members : TRUE)
  IN  [g EXCEPT !.groups = [n \in DOMAIN @ |-> IF shown(n) THEN [@[n] EXCEPT !.uses = behind(n)] ELSE @[n]]]

StableName(region) == <<"browsing stable", region>>
ReserveName(region) == <<"browsing reserve", region>>
RegionName(region) == <<"browsing region", region>>

BrowsingGroups(g) == {GroupName(Browsing.public), GroupName(Browsing.automatic)} \cap DOMAIN g.groups
BrowsingProviders(g) == g.groups[GroupName(Browsing.automatic)].uses

HardeningRefused(g) ==
  \/ Cardinality(BrowsingGroups(g)) = 1
  \/ Cardinality(BrowsingGroups(g)) = 2 /\
       (BrowsingProviders(g) = {} \/ \E p \in BrowsingProviders(g) : p \notin DOMAIN g.providers \/ p[1] # Browsing.pool)

\* A region's two tiers over its one provider, and the group that falls back
\* from the one to the other.
RegionalGroups(region) ==
  LET tier == [Group("url-test", TRUE, {}, {<<Browsing.pool, region>>}) EXCEPT !.filtered = TRUE]
  IN  Over([n \in {StableName(region), ReserveName(region)} |-> tier],
           Only(RegionName(region), Group("fallback", TRUE, {StableName(region), ReserveName(region)}, {})))

\* What the generator built for the pool, unless another group still uses it.
Scaffold(g) ==
  {n \in DOMAIN g.groups : n \in {FallbackName(Browsing.pool), PoolName(Browsing.pool)} \/ (n[1] = "auto" /\ n[2] = Browsing.pool)}
UnusedScaffoldIgnoringUse(g) == Scaffold(g)
UnusedScaffold(g) ==
  LET referenced == (UNION {g.groups[n].members : n \in DOMAIN g.groups \ Scaffold(g)}) \cap Scaffold(g)
  IN  Scaffold(g) \ Below(g, referenced)

\* harden_browsing_runtime: the public browsing group chooses among regions,
\* never among nodes.
HardenBrowsing(g) ==
  IF BrowsingGroups(g) = {} THEN g
  ELSE LET regions  == {p[2] : p \in BrowsingProviders(g)}
           named    == {RegionName(r) : r \in regions}
           auto     == GroupName(Browsing.automatic)
           surface  == Over(Only(auto, Group("url-test", TRUE, named, {})),
                            Only(GroupName(Browsing.public), Group("select", FALSE, {auto, Direct} \cup named, {})))
           hardened == [g EXCEPT !.groups = Over(Over(surface, Merged({RegionalGroups(r) : r \in regions})), @)]
       IN  [hardened EXCEPT !.groups = [n \in DOMAIN @ \ UnusedScaffold(hardened) |-> @[n]]]

\* validate_browsing_public_surface, of the hardened graph: a region's group
\* falls back inside the region, over the one provider the region has.
RegionValid(g, region) ==
  LET name     == RegionName(region)
      tiers    == {StableName(region), ReserveName(region)}
      provider == <<Browsing.pool, region>>
  IN  /\ name \in DOMAIN g.groups /\ provider \in DOMAIN g.providers
      /\ g.groups[name].type = "fallback" /\ g.groups[name].hidden
      /\ g.groups[name].members = tiers /\ g.groups[name].uses = {}
      /\ \A t \in tiers :
           /\ t \in DOMAIN g.groups /\ g.groups[t].type = "url-test"
           /\ g.groups[t].hidden /\ g.groups[t].uses = {provider}

Canonical(g) == {GroupName(id) : id \in Browsing.canonical \cup {Browsing.public}} \cap DOMAIN g.groups

\* No canonical public group offers a node, and the browsing one offers the
\* automatic choice among the regions, each region, and DIRECT.
BrowsingSurfaceValid(g) ==
  LET auto    == GroupName(Browsing.automatic)
      named   == {n \in g.groups[auto].members : n[1] = "browsing region"}
  IN  GroupName(Browsing.public) \in DOMAIN g.groups =>
        /\ \A n \in Canonical(g) :
             /\ ~g.groups[n].hidden /\ g.groups[n].type = "select"
             /\ g.groups[n].uses = {} /\ ~g.groups[n].filtered
        /\ auto \in DOMAIN g.groups
        /\ g.groups[GroupName(Browsing.public)].members = {auto, Direct} \cup named
        /\ g.groups[auto].type = "url-test" /\ g.groups[auto].hidden /\ g.groups[auto].uses = {}
        /\ named # {} /\ g.groups[auto].members = named
        /\ \A n \in named : RegionValid(g, n[2])

Public(g) == {n \in DOMAIN g.groups : ~g.groups[n].hidden}
Presented(g) == {n \in DOMAIN g.groups : g.groups[n].hidden /\ n[1] \in {"group", "browsing region"}}
Automatic == {"url-test", "fallback"}

Dangling(g) ==
  \/ \E n \in DOMAIN g.groups :
       \/ ~(g.groups[n].members \subseteq Builtins \cup DOMAIN g.groups)
       \/ ~(g.groups[n].uses \subseteq DOMAIN g.providers)
  \/ \E i \in DOMAIN g.routes : g.routes[i] \notin Builtins \cup DOMAIN g.groups

\* The exemption of a tier filtered to nothing over REJECT is for what later
\* stages make of a region (EmptyTier in BrowsingAdmission): no pass of the
\* compilation writes that filter.
EmptyAutomatic(g) == \E n \in DOMAIN g.groups : g.groups[n].type \in Automatic /\ Leaves(g, n) = {}

\* A public selector offers something, and no provider that its members do
\* not use; without a filter it stands before one hidden anchor.
PublicShape(g) ==
  \A n \in Public(g) :
    LET group  == g.groups[n]
        behind == UNION {ProviderOrder(g, m) : m \in group.members \cap DOMAIN g.groups}
    IN  /\ group.type = "select"
        /\ group.members \cup group.uses # {}
        /\ group.uses # {} => group.uses = behind \/ (group.filtered /\ behind = {})
        /\ group.uses # {} /\ ~group.filtered =>
             \E m \in group.members \cap DOMAIN g.groups : group.members = {m} /\ g.groups[m].hidden

Unreachable(g) == Presented(g) \ Below(g, Public(g) \cup {g.routes[i] : i \in DOMAIN g.routes})

Valid(g) ==
  /\ ~Dangling(g)
  /\ ~EmptyAutomatic(g)
  /\ PublicShape(g)
  /\ ~Cyclic(g)
  /\ Unreachable(g) = {}

---------------------------------------------------------------------------
(* audit_production_candidate: whoever compiled it, no pool holds a node and *)
(* no group or route reaches one whose source may not serve its use. Unlike  *)
(* the core, the audit looks past the filters. The download surface and the  *)
(* generic web group have checks of their own, left out here.                *)

PoolUse(id) == (CHOOSE pool \in EnabledPools : pool.id = id).use

\* The use a group is declared for, or that of the pool it is backed by.
GroupUse(spec) ==
  CASE spec.use # "" -> spec.use
    [] spec.use = "" /\ spec.provider # "" -> PoolUse(spec.provider)
    [] OTHER -> "general"

ExpectedGroupUses ==
  {<<PoolName(pool.id), pool.use>> : pool \in EnabledPools} \cup {<<GroupName(s.id), GroupUse(s)>> : s \in External}

\* A rule is checked at the group it declares and at the one it ended up with.
RuleUses(g) ==
  UNION {{<<RouteSpecs[i].target, RouteSpecs[i].use>>, <<g.routes[i], RouteSpecs[i].use>>} : i \in DOMAIN RouteSpecs}

ReachableSources(g, start) == {node.source : node \in UNION {g.providers[p] : p \in ProviderOrder(g, start)}}
UseAllowed(sources, use) == \A s \in sources : Spec[s].uses \cap {"*", use} # {}

AuditRefused(g) ==
  \/ \E p \in DOMAIN g.providers : ~UseAllowed({node.source : node \in g.providers[p]}, PoolUse(p[1]))
  \/ \E surface \in ExpectedGroupUses \cup RuleUses(g) : ~UseAllowed(ReachableSources(g, surface[1]), surface[2])
=============================================================================
