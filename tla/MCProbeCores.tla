---------------------------- MODULE MCProbeCores ----------------------------
(* TLC instance of the probe cores with ports as the system hands them out:  *)
(* a port nobody listens on yet may be handed out again. Two shards of an AI *)
(* round, of two nodes and of one, and one shard for a transport round.      *)
EXTENDS ProbeCores, TLC

CONSTANTS s1, s2, t, n1, n2, n3, p1, p2, p3, p4

TwoShards == {s1, s2}
Split == s1 :> {n1, n2} @@ s2 :> {n3} @@ t :> {n1, n2, n3}
FourPorts == {p1, p2, p3, p4}
WorkingNodes == {n1, n3}
=============================================================================
