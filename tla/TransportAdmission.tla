------------------------ MODULE TransportAdmission ------------------------
(* The live transport probe of the general inventory                        *)
(* (transport_qualification): HTTPS through every node, then a UDP relay     *)
(* through those that passed, and three automatic groups narrowed to each.   *)
EXTENDS BrowsingAdmission

UdpGroups == {"media", "chat"}
ProbedGroups == {"auto"} \cup UdpGroups

\* Two group probes, one answer is enough.
TcpQualified(samples, names) == {n \in names : \E i \in DOMAIN samples : n \in samples[i]}

\* What asking one selected node came to: its configuration disables UDP, the
\* selector could not be switched, QUIC or else DNS answered, or neither did.
UdpOutcomes == {"disabled", "selector_failed", "quic", "dns", "silent"}
UdpQualified(tcp, outcome) == {n \in tcp : outcome[n] \in {"quic", "dns"}}

\* A filter of its own on a group that is narrowed cannot be composed with the
\* evidence: the group must still select its whole inventory.
Composable(c) == \A g \in ProbedGroups : c.general[g] = <<Nodes>>

TransportError(c, tcp, udp) ==
  IF NodesOfKind(c.entries, "general") = {} THEN "requires general inventory"
  ELSE IF tcp = {} THEN "no node passed HTTPS"
  ELSE IF udp = {} THEN "no node passed UDP"
  ELSE IF ~Composable(c) THEN "invalid"
  ELSE ""

NarrowedToTcp(g, tcp, udp) == tcp
NarrowedTo(g, tcp, udp) == IF g \in UdpGroups THEN udp \cap tcp ELSE tcp

\* The other automatic groups, of a region or for downloads, are no transport's.
ApplyTransport(c, tcp, udp) ==
  [c EXCEPT !.general = [g \in DOMAIN c.general |->
                           IF g \in ProbedGroups THEN <<NarrowedTo(g, tcp, udp)>> ELSE c.general[g]]]
=============================================================================
