--------------------------- MODULE NodeSelection ---------------------------
(* From a parsed subscription to the pools of the candidate, as operators:   *)
(* what a source may contribute, how a node is classified from its name,     *)
(* what deduplication keeps of a node several sources offer, and which       *)
(* pools take it. A proxy is its key (every field but the name, which is     *)
(* what the fingerprint covers) and its name.                                *)
EXTENDS Integers, Sequences, SequencesExt, FiniteSetsExt

CONSTANTS Order,         \* the enabled sources in ingest order
          Spec,          \* source -> its declaration in subscriptions.yaml
          Informational, \* names of status and support pseudo-nodes
          Multiplier,    \* name -> its billing multiplier, 0 when it states none
          Aliases,       \* <<country, names>> pairs in declared order
          Countries,     \* countries in their sort order
          Other          \* country_classification.default

Sources == {Order[i] : i \in DOMAIN Order}
Rank(seq, x) == CHOOSE i \in DOMAIN seq : seq[i] = x

---------------------------------------------------------------------------
(* Admission and classification.                                             *)

Informative(proxies) == {p \in proxies : p.name \notin Informational}
NotDenied(proxies, denied) == {p \in proxies : p.name \notin denied}
Affordable(proxies, ceiling) ==
  {p \in proxies : ceiling = 0 \/ Multiplier[p.name] <= ceiling}

Admitted(source, proxies) ==
  Affordable(NotDenied(Informative(proxies), Spec[source].denied), Spec[source].ceiling)

AliasNames(country) ==
  UNION {Aliases[i][2] : i \in {i \in DOMAIN Aliases : Aliases[i][1] = country}}

\* One name rule or one metadata entry; "" leaves the field alone.
Applied(rule, class) ==
  [country |-> IF rule.country = "" THEN class.country ELSE rule.country,
   caps    |-> (class.caps \cup rule.add) \ rule.remove,
   cost    |-> IF rule.cost = "" THEN class.cost ELSE rule.cost]

\* Name rules in order, then the aliases for a country nobody named, then the
\* exact metadata of the node, which wins.
Class(source, name) ==
  LET spec   == Spec[source]
      base   == [country |-> Other, caps |-> spec.caps, cost |-> spec.cost]
      ruled  == FoldLeft(LAMBDA class, rule : IF name \in rule.names THEN Applied(rule, class) ELSE class,
                         base, spec.rules)
      alias  == SelectSeq(Aliases, LAMBDA a : name \in a[2])
      placed == IF ruled.country = Other /\ alias # <<>>
                THEN [ruled EXCEPT !.country = alias[1][1]] ELSE ruled
      known  == SelectSeq(spec.metadata, LAMBDA row : name \in row.names)
  IN  IF known = <<>> THEN placed ELSE Applied(known[1], placed)

Classify(source, proxy) ==
  LET class == Class(source, proxy.name)
  IN  [key |-> proxy.key, source |-> source, name |-> proxy.name,
       country |-> class.country, caps |-> class.caps, cost |-> class.cost]

---------------------------------------------------------------------------
(* Deduplication. A node is its fingerprint; every source that offers it     *)
(* stays an occurrence of it, with that source's permissions.                *)

Precedes(o, p) ==
  LET key(x) == <<Rank(Order, x.source), Rank(Countries, x.country), x.name>>
      left == key(o)
      right == key(p)
  IN  \E i \in 1 .. 3 : left[i] < right[i] /\ \A j \in 1 .. i - 1 : left[j] = right[j]

First(occurrences) ==
  CHOOSE o \in occurrences : \A p \in occurrences \ {o} : Precedes(o, p)

Keys(occurrences) == {o.key : o \in occurrences}

DeduplicatedFirst(offered) == [k \in Keys(offered) |-> {First({o \in offered : o.key = k})}]

Deduplicated(offered) == [k \in Keys(offered) |-> {o \in offered : o.key = k}]

Duplicates(offered) == Cardinality(offered) - Cardinality(Keys(offered))

---------------------------------------------------------------------------
(* Selection.                                                                *)

Eligible(o, unit, region) ==
  /\ Spec[o.source].uses \cap {"*", unit.use} # {}
  /\ Spec[o.source].countries \cap {"*", o.country} # {}
  /\ region \in {"ANY", o.country}
  /\ unit.any = {} \/ unit.any \cap o.caps # {}
  /\ unit.all \subseteq o.caps
  /\ unit.none \cap o.caps = {}
  /\ unit.costs = {} \/ o.cost \in unit.costs

\* A node enters a pool as its first eligible occurrence.
SelectNodes(nodes, unit, region) ==
  LET fit(k) == {o \in nodes[k] : Eligible(o, unit, region)}
  IN  {First(fit(k)) : k \in {k \in DOMAIN nodes : fit(k) # {}}}
=============================================================================
